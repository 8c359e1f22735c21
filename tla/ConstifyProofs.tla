--------------------------- MODULE ConstifyProofs ---------------------------
(***************************************************************************)
(* What Constify writes is typed, for every set of units: the loss of      *)
(* const reaches all it has to reach before a declaration is printed.      *)
(***************************************************************************)
EXTENDS Constify, Integers, SequenceTheorems, WellFoundedInduction, TLAPS

(* Sequences and the loops that select from them.                          *)

LEMMA LeastOf ==
  ASSUME NEW S \in SUBSET Nat, NEW x \in S
  PROVE  \E n \in S : \A m \in S : n <= m
<1>1. PICK n \in S : \A m \in S : ~(<<m, n>> \in OpToRel(<, Nat))
  BY NatLessThanWellFounded, WFMin
<1>2. \A m \in S : ~(m < n)
  BY <1>1 DEF OpToRel
<1> QED BY <1>2

LEMMA EntriesIn ==
  ASSUME NEW X, NEW s \in Seq(X), NEW x \in Entries(s)
  PROVE  x \in X
BY DEF Entries

LEMMA EntriesOne ==
  ASSUME NEW x
  PROVE  Entries(<<x>>) = {x}
<1>1. Len(<<x>>) = 1 /\ <<x>>[1] = x
  OBVIOUS
<1> QED BY <1>1 DEF Entries

LEMMA EntriesAppend ==
  ASSUME NEW X, NEW s \in Seq(X), NEW x \in X
  PROVE  Append(s, x) \in Seq(X) /\ Entries(Append(s, x)) = Entries(s) \cup {x}
<1>1. Append(s, x) \in Seq(X) /\ Len(s) \in Nat /\ Len(Append(s, x)) = Len(s) + 1
  OBVIOUS
<1>2. \A i \in 1..Len(s) : Append(s, x)[i] = s[i]
  OBVIOUS
<1>3. Append(s, x)[Len(s) + 1] = x
  OBVIOUS
<1>4. 1..(Len(s) + 1) = (1..Len(s)) \cup {Len(s) + 1}
  BY <1>1
<1> QED BY <1>1, <1>2, <1>3, <1>4 DEF Entries

LEMMA EntriesConcat ==
  ASSUME NEW X, NEW s \in Seq(X), NEW t \in Seq(X)
  PROVE  s \o t \in Seq(X) /\ Entries(s \o t) = Entries(s) \cup Entries(t)
<1>1. s \o t \in Seq(X) /\ Len(s) \in Nat /\ Len(t) \in Nat /\ Len(s \o t) = Len(s) + Len(t)
  OBVIOUS
<1>2. \A i \in 1..Len(s) : (s \o t)[i] = s[i]
  OBVIOUS
<1>3. \A i \in 1..Len(t) : (s \o t)[Len(s) + i] = t[i]
  OBVIOUS
<1>4. ASSUME NEW y \in Entries(s \o t) PROVE y \in Entries(s) \cup Entries(t)
  <2>1. PICK i \in 1..(Len(s) + Len(t)) : y = (s \o t)[i]
    BY <1>1, <1>4 DEF Entries
  <2>2. CASE i <= Len(s)
    BY <2>1, <2>2, <1>1, <1>2 DEF Entries
  <2>3. CASE ~(i <= Len(s))
    <3>1. i - Len(s) \in 1..Len(t) /\ Len(s) + (i - Len(s)) = i
      BY <2>3, <1>1
    <3>2. y = t[i - Len(s)]
      BY <3>1, <2>1, <1>3
    <3> QED BY <3>1, <3>2 DEF Entries
  <2> QED BY <2>2, <2>3
<1>5. ASSUME NEW y \in Entries(s) PROVE y \in Entries(s \o t)
  <2>1. PICK i \in 1..Len(s) : y = s[i]
    BY <1>5 DEF Entries
  <2>2. i \in 1..Len(s \o t)
    BY <1>1
  <2> QED BY <2>1, <2>2, <1>2 DEF Entries
<1>6. ASSUME NEW y \in Entries(t) PROVE y \in Entries(s \o t)
  <2>1. PICK i \in 1..Len(t) : y = t[i]
    BY <1>6 DEF Entries
  <2>2. Len(s) + i \in 1..Len(s \o t)
    BY <1>1
  <2> QED BY <2>1, <2>2, <1>3 DEF Entries
<1> QED BY <1>1, <1>4, <1>5, <1>6

LEMMA AllButLast ==
  ASSUME NEW X, NEW s \in Seq(X), Len(s) \in 1..Len(s)
  PROVE  /\ SubSeq(s, 1, Len(s) - 1) \in Seq(X) /\ Len(SubSeq(s, 1, Len(s) - 1)) = Len(s) - 1
         /\ \A i \in 1..(Len(s) - 1) : SubSeq(s, 1, Len(s) - 1)[i] = s[i]
<1>1. Len(s) \in Nat /\ Len(s) - 1 \in Nat /\ \A i \in 1..(Len(s) - 1) : s[i] \in X
  OBVIOUS
<1>2. Len(s) - 1 - 1 + 1 = Len(s) - 1 /\ \A i \in 1..(Len(s) - 1) : 1 + i - 1 = i
  BY <1>1
<1> DEFINE n == Len(s) - 1
<1>0. n \in Nat
  BY <1>1
<1> HIDE DEF n
<1>3. n \in Int /\ 1 \in Int /\ n - 1 + 1 = n /\ (1 <= n \/ n = 0)
  BY <1>0
<1>4. \A i \in 1..n : s[i] \in X
  BY <1>1 DEF n
<1>5. /\ SubSeq(s, 1, n) \in Seq(X) /\ Len(SubSeq(s, 1, n)) = IF 1 <= n THEN n - 1 + 1 ELSE 0
      /\ \A i \in 1..(n - 1 + 1) : SubSeq(s, 1, n)[i] = s[1 + i - 1]
  BY <1>3, <1>4, SubSeqProperties
<1>6. Len(SubSeq(s, 1, n)) = n
  BY <1>3, <1>5
<1>7. \A i \in 1..n : SubSeq(s, 1, n)[i] = s[i]
  BY <1>2, <1>3, <1>5 DEF n
<1> QED BY <1>5, <1>6, <1>7 DEF n

Keeps(s, S, L, f) ==
  f = [n \in 0..L |-> IF n = 0 THEN <<>>
                      ELSE IF s[n] \in S THEN Append(f[n - 1], s[n]) ELSE f[n - 1]]

LEMMA KeptDef ==
  ASSUME NEW s, NEW S
  PROVE  Kept(s, S) = (CHOOSE f : Keeps(s, S, Len(s), f))[Len(s)]
BY DEF Kept, Keeps

LEMMA KeepsExists ==
  ASSUME NEW s, NEW S, NEW L \in Nat
  PROVE  \E f : Keeps(s, S, L, f)
<1> SUFFICES ASSUME ~\E f : Keeps(s, S, L, f) PROVE FALSE
  OBVIOUS
<1> DEFINE bad == {n \in Nat : ~\E f : Keeps(s, S, n, f)}
<1>1. PICK m \in bad : \A n \in bad : m <= n
  <2>1. bad \in SUBSET Nat /\ L \in bad
    OBVIOUS
  <2> QED BY <2>1, LeastOf
<1>2. CASE m = 0
  <2> DEFINE g == [n \in 0..0 |-> <<>>]
  <2>1. Keeps(s, S, 0, g)
    BY DEF Keeps
  <2> QED BY <2>1, <1>1, <1>2
<1>3. CASE m # 0
  <2>1. m \in Nat /\ m - 1 \in Nat /\ m - 1 \notin bad
    BY <1>1, <1>3
  <2>2. PICK f : Keeps(s, S, m - 1, f)
    BY <2>1
  <2> DEFINE last == IF s[m] \in S THEN Append(f[m - 1], s[m]) ELSE f[m - 1]
             g == [n \in 0..m |-> IF n = m THEN last ELSE f[n]]
  <2>3. ASSUME NEW n \in 0..m
        PROVE  g[n] = IF n = 0 THEN <<>>
                      ELSE IF s[n] \in S THEN Append(g[n - 1], s[n]) ELSE g[n - 1]
    <3>1. CASE n = m
      <4>1. m - 1 \in 0..m /\ m - 1 # m
        BY <2>1
      <4>2. g[m - 1] = f[m - 1]
        BY <4>1
      <4> QED BY <3>1, <4>2, <1>3
    <3>2. CASE n # m
      <4>1. n \in 0..(m - 1) /\ n \in 0..m /\ (n # 0 => n - 1 \in 0..m /\ n - 1 # m)
        BY <2>1, <3>2
      <4>2. g[n] = f[n] /\ (n # 0 => g[n - 1] = f[n - 1])
        BY <4>1, <3>2
      <4>3. f[n] = IF n = 0 THEN <<>>
                   ELSE IF s[n] \in S THEN Append(f[n - 1], s[n]) ELSE f[n - 1]
        BY <4>1, <2>2 DEF Keeps
      <4> QED BY <4>2, <4>3
    <3> QED BY <3>1, <3>2
  <2>4. Keeps(s, S, m, g)
    BY <2>3 DEF Keeps
  <2> HIDE DEF g
  <2> QED BY <2>4, <1>1
<1> QED BY <1>2, <1>3

\* The loop keeps the elements in S and nothing else.
LEMMA KeptFacts ==
  ASSUME NEW X, NEW s \in Seq(X), NEW S
  PROVE  Kept(s, S) \in Seq(X) /\ Entries(Kept(s, S)) = Entries(s) \cap S
<1>1. Len(s) \in Nat
  OBVIOUS
<1>2. PICK f : f = CHOOSE g : Keeps(s, S, Len(s), g)
  OBVIOUS
<1>3. Keeps(s, S, Len(s), f)
  BY <1>1, <1>2, KeepsExists
<1> DEFINE Good(n) == f[n] \in Seq(X) /\ Entries(f[n]) = {s[i] : i \in 1..n} \cap S
           bad == {n \in 0..Len(s) : ~Good(n)}
<1>4. ASSUME bad # {} PROVE FALSE
  <2>1. PICK m \in bad : \A n \in bad : m <= n
    <3>1. bad \in SUBSET Nat
      BY <1>1
    <3> QED BY <3>1, <1>4, LeastOf
  <2>2. m \in 0..Len(s)
    OBVIOUS
  <2>3. f[m] = IF m = 0 THEN <<>>
               ELSE IF s[m] \in S THEN Append(f[m - 1], s[m]) ELSE f[m - 1]
    BY <2>2, <1>3 DEF Keeps
  <2>4. CASE m = 0
    <3>1. f[0] = <<>> /\ Entries(<<>>) = {} /\ 1..0 = {}
      BY <2>3, <2>4 DEF Entries
    <3>2. Good(0)
      BY <3>1
    <3> QED BY <3>2, <2>1, <2>4
  <2>5. CASE m # 0
    <3>1. m - 1 \in 0..Len(s) /\ m - 1 < m /\ m \in 1..Len(s) /\ 1..m = (1..(m - 1)) \cup {m}
      BY <2>2, <2>5, <1>1
    <3>2. Good(m - 1)
      <4>1. ~(m <= m - 1)
        BY <2>2, <1>1
      <4>2. m - 1 \notin bad
        BY <4>1, <2>1
      <4> QED BY <4>2, <3>1
    <3>3. s[m] \in X
      BY <3>1
    <3>4. {s[i] : i \in 1..m} = {s[i] : i \in 1..(m - 1)} \cup {s[m]}
      BY <3>1
    <3>5. CASE s[m] \in S
      <4>1. f[m] = Append(f[m - 1], s[m])
        BY <2>3, <2>5, <3>5
      <4>2. f[m] \in Seq(X) /\ Entries(f[m]) = Entries(f[m - 1]) \cup {s[m]}
        BY <4>1, <3>2, <3>3, EntriesAppend
      <4>3. Entries(f[m]) = {s[i] : i \in 1..m} \cap S
        BY <4>2, <3>2, <3>4, <3>5
      <4>4. Good(m)
        BY <4>2, <4>3
      <4> QED BY <4>4, <2>1
    <3>6. CASE s[m] \notin S
      <4>1. f[m] = f[m - 1]
        BY <2>3, <2>5, <3>6
      <4>2. Entries(f[m]) = {s[i] : i \in 1..m} \cap S
        BY <4>1, <3>2, <3>4, <3>6
      <4>3. Good(m)
        BY <4>1, <4>2, <3>2
      <4> QED BY <4>3, <2>1
    <3> QED BY <3>5, <3>6
  <2> QED BY <2>4, <2>5
<1>5. Len(s) \in 0..Len(s)
  BY <1>1
<1>6. Good(Len(s))
  BY <1>4, <1>5
<1>7. Kept(s, S) = f[Len(s)]
  BY <1>2, KeptDef
<1> QED BY <1>6, <1>7 DEF Entries

\* Read backwards, a sequence has the same elements.
LEMMA EntriesBackward ==
  ASSUME NEW X, NEW s \in Seq(X)
  PROVE  LET t == [j \in 1..Len(s) |-> s[Len(s) + 1 - j]]
         IN  t \in Seq(X) /\ Entries(t) = Entries(s)
<1> DEFINE t == [j \in 1..Len(s) |-> s[Len(s) + 1 - j]]
<1>1. Len(s) \in Nat /\ \A j \in 1..Len(s) : Len(s) + 1 - j \in 1..Len(s) /\ s[j] \in X
  OBVIOUS
<1>2. \A j \in 1..Len(s) : s[Len(s) + 1 - j] \in X
  BY <1>1
<1>3. t \in Seq(X) /\ Len(t) = Len(s)
  BY <1>1, <1>2
<1>4. \A j \in 1..Len(s) : t[Len(s) + 1 - j] = s[j]
  <2>1. \A j \in 1..Len(s) : Len(s) + 1 - (Len(s) + 1 - j) = j
    BY <1>1
  <2> QED BY <2>1, <1>1
<1>5. \A j \in 1..Len(s) : t[j] = s[Len(s) + 1 - j]
  OBVIOUS
<1> HIDE DEF t
<1>6. Entries(t) = Entries(s)
  BY <1>1, <1>3, <1>4, <1>5 DEF Entries
<1> QED BY <1>3, <1>6 DEF t

LEMMA KeptIn ==
  ASSUME NEW X, NEW s \in Seq(X), NEW S
  PROVE  Kept(s, S) \in Seq(S) /\ Entries(Kept(s, S)) = Entries(s) \cap S
<1>1. PICK k : k = Kept(s, S)
  OBVIOUS
<1>2. k \in Seq(X) /\ Entries(k) = Entries(s) \cap S
  BY <1>1, KeptFacts
<1>3. Len(k) \in Nat /\ \A i \in 1..Len(k) : k[i] \in S
  BY <1>2 DEF Entries
<1>4. k \in Seq(S)
  BY <1>2, <1>3
<1> QED BY <1>1, <1>2, <1>4

-----------------------------------------------------------------------------
(* The nodes of a unit and the table.                                      *)

Links == [Entity -> Seq(Entity)]

\* The fields of a node.
GoodNode(n) ==
  /\ n.target \in Maybe /\ n.meth \in Maybe /\ n.left \in Expr /\ n.source \in Expr
  /\ n.ptr \in BOOLEAN /\ n.const \in BOOLEAN /\ n.params \in Seq(Param)
  /\ n.init \in {"none", "value", "new", "call"} /\ n.place \in {"param", "single", "multi"}
  /\ n.form \in {"function", "method", "operator", "construct", "indirect"}
  /\ n.kind \in Declaring => n.target \in Entity
  /\ n.kind = "call" => /\ \A j \in 1..Len(n.params) : n.args[j] \in Expr
                        /\ n.writes \subseteq 1..Len(n.args) /\ n.args \in Seq(Expr)

LEMMA ThisStands ==
  ASSUME NEW u, WellFormed(u), NEW i \in 1..Len(u), u[i].kind = "this"
  PROVE  \E j \in 1..(i - 1) :
           /\ u[j].kind = "method" /\ u[j].target = u[i].meth
           /\ \A k \in (j + 1)..(i - 1) : u[k].kind # "method"
BY Zenon DEF WellFormed

LEMMA SameEntry ==
  ASSUME NEW u, WellFormed(u), NEW n \in Entries(u), NEW k \in Entries(u),
         n.kind \in Declaring, k.kind \in Declaring, k.target = n.target
  PROVE  k.kind = n.kind /\ k.const = n.const /\ k.meth = n.meth
<1>1. PICK i \in 1..Len(u) : n = u[i]
  BY DEF Entries
<1>2. PICK j \in 1..Len(u) : k = u[j]
  BY DEF Entries
<1> QED BY <1>1, <1>2, Zenon DEF WellFormed

LEMMA NodeFacts ==
  ASSUME ConstTypeOK
  PROVE  /\ Len(unit) \in Nat /\ WellFormed(unit)
         /\ \A i \in 1..Len(unit) : GoodNode(unit[i])
<1>1. unit \in Seq(Node) /\ WellFormed(unit)
  BY ConstifyAssumption DEF ConstTypeOK
<1>2. ASSUME NEW i \in 1..Len(unit) PROVE GoodNode(unit[i])
  <2>1. unit[i] \in Node
    BY <1>1
  <2>2. /\ unit[i].target \in Maybe /\ unit[i].meth \in Maybe
        /\ unit[i].left \in Expr /\ unit[i].source \in Expr
        /\ unit[i].ptr \in BOOLEAN /\ unit[i].const \in BOOLEAN
        /\ unit[i].params \in Seq(Param) /\ unit[i].args \in Seq(Expr)
        /\ unit[i].init \in {"none", "value", "new", "call"}
        /\ unit[i].place \in {"param", "single", "multi"}
        /\ unit[i].form \in {"function", "method", "operator", "construct", "indirect"}
    BY <2>1 DEF Node
  <2>3. unit[i].kind \in Declaring => unit[i].target \in Entity
    BY <1>1 DEF WellFormed
  <2>4. ASSUME unit[i].kind = "call"
        PROVE  /\ \A j \in 1..Len(unit[i].params) : unit[i].args[j] \in Expr
               /\ unit[i].writes \subseteq 1..Len(unit[i].args)
    <3>1. Len(unit[i].params) + (IF unit[i].form = "operator" THEN 1 ELSE 0) <= Len(unit[i].args)
          /\ unit[i].writes \subseteq 1..Len(unit[i].args)
      BY <1>1, <2>4 DEF WellFormed
    <3>2. Len(unit[i].params) \in Nat /\ Len(unit[i].args) \in Nat
      BY <2>2
    <3>3. \A p, a \in Nat, b \in {0, 1} : p + b <= a => \A j \in 1..p : j \in 1..a
      OBVIOUS
    <3>4. (IF unit[i].form = "operator" THEN 1 ELSE 0) \in {0, 1}
      OBVIOUS
    <3>5. \A j \in 1..Len(unit[i].params) : j \in 1..Len(unit[i].args)
      BY <3>1, <3>2, <3>3, <3>4
    <3> QED BY <3>1, <3>5, <2>2
  <2> QED BY <2>2, <2>3, <2>4 DEF GoodNode
<1> QED BY <1>1, <1>2

LEMMA InnerFacts ==
  ASSUME NEW x \in Expr
  PROVE  Inner(x) \in Maybe /\ x.base \in Maybe /\ x.of \in Maybe
         /\ x.shape \in {"plain", "hidden", "stuck"}
BY DEF Inner, Expr, Maybe

LEMMA AddFacts ==
  ASSUME NEW D \in Links, NEW c \in Maybe, NEW d \in Maybe
  PROVE  /\ addDependencyHashTable(D, c, d) \in Links
         /\ \A e \in Entity : Entries(D[e]) \subseteq Entries(addDependencyHashTable(D, c, d)[e])
         /\ c # NoEntity /\ d # NoEntity => d \in Entries(addDependencyHashTable(D, c, d)[c])
<1>1. CASE c = NoEntity \/ d = NoEntity
  BY <1>1 DEF addDependencyHashTable
<1>2. CASE c # NoEntity /\ d # NoEntity
  <2>1. c \in Entity /\ d \in Entity /\ D[c] \in Seq(Entity)
    BY <1>2 DEF Maybe, Links
  <2>2. addDependencyHashTable(D, c, d) = [D EXCEPT ![c] = Append(D[c], d)]
    BY <1>2 DEF addDependencyHashTable
  <2>3. Append(D[c], d) \in Seq(Entity) /\ Entries(Append(D[c], d)) = Entries(D[c]) \cup {d}
    BY <2>1, EntriesAppend
  <2>4. \A e \in Entity : addDependencyHashTable(D, c, d)[e] = IF e = c THEN Append(D[c], d) ELSE D[e]
    BY <2>2 DEF Links
  <2>5. addDependencyHashTable(D, c, d) \in Links
    BY <2>2, <2>3 DEF Links
  <2> QED BY <2>1, <2>3, <2>4, <2>5
<1> QED BY <1>1, <1>2

LEMMA BothFacts ==
  ASSUME NEW D \in Links, NEW c \in Maybe, NEW d \in Maybe
  PROVE  /\ DependOnEachOther(D, c, d) \in Links
         /\ \A e \in Entity : Entries(D[e]) \subseteq Entries(DependOnEachOther(D, c, d)[e])
         /\ c # NoEntity /\ d # NoEntity => d \in Entries(DependOnEachOther(D, c, d)[c])
<1> DEFINE E == addDependencyHashTable(D, c, d)
<1>1. /\ E \in Links
      /\ \A e \in Entity : Entries(D[e]) \subseteq Entries(E[e])
      /\ c # NoEntity /\ d # NoEntity => d \in Entries(E[c])
  BY AddFacts
<1> HIDE DEF E
<1> DEFINE F == addDependencyHashTable(E, d, c)
<1>2. F \in Links /\ \A e \in Entity : Entries(E[e]) \subseteq Entries(F[e])
  BY <1>1, AddFacts
<1>3. DependOnEachOther(D, c, d) = F
  BY DEF DependOnEachOther, E
<1> HIDE DEF F
<1> QED BY <1>1, <1>2, <1>3 DEF Maybe

LEMMA ArgumentsFacts ==
  ASSUME isPtr \in [Entity -> BOOLEAN], NEW n, n.params \in Seq(Param),
         \A j \in 1..Len(n.params) : n.args[j] \in Expr, NEW e \in Entity
  PROVE  /\ Arguments(n, e) \in Seq(Entity)
         /\ \A j \in 1..Len(n.params) :
              n.params[j].name = e /\ isPtr[e] /\ Inner(n.args[j]) \in Entity
                => Inner(n.args[j]) \in Entries(Arguments(n, e))
<1> DEFINE at == [j \in 1..Len(n.params) |->
                    IF n.params[j].name = e /\ isPtr[e] THEN Inner(n.args[j]) ELSE NoEntity]
<1>1. Len(n.params) \in Nat
  OBVIOUS
<1>2. \A j \in 1..Len(n.params) : Inner(n.args[j]) \in Maybe
  BY InnerFacts
<1>3. at \in Seq(Maybe) /\ Len(at) = Len(n.params)
  BY <1>1, <1>2 DEF Maybe
<1>4. Arguments(n, e) = Kept(at, Entity)
  BY DEF Arguments
<1>5. \A j \in 1..Len(n.params) : n.params[j].name = e /\ isPtr[e] => at[j] = Inner(n.args[j])
  OBVIOUS
<1> HIDE DEF at
<1>6. Kept(at, Entity) \in Seq(Entity) /\ Entries(Kept(at, Entity)) = Entries(at) \cap Entity
  BY <1>3, KeptIn
<1> QED BY <1>3, <1>4, <1>5, <1>6 DEF Entries

LEMMA StartFacts ==
  ASSUME NEW s \in Seq(Maybe), Start(s)
  PROVE  stack' \in Seq(Entity) /\ Entries(stack') = Entries(s) \cap Entity
         /\ UNCHANGED <<tableVars, printed>>
<1>1. PICK t : t = [j \in 1..Len(s) |-> s[Len(s) + 1 - j]]
  OBVIOUS
<1>2. t \in Seq(Maybe) /\ Entries(t) = Entries(s)
  BY <1>1, EntriesBackward
<1>3. Kept(t, Entity) \in Seq(Entity) /\ Entries(Kept(t, Entity)) = Entries(t) \cap Entity
  BY <1>2, KeptIn
<1>4. stack' = Kept(t, Entity) /\ UNCHANGED <<tableVars, printed>>
  BY <1>1 DEF Start
<1> QED BY <1>2, <1>3, <1>4

-----------------------------------------------------------------------------
(* What the steps of each traversal do, whatever the node.                 *)

Visits(p) == pass = p /\ pass' = p /\ stack = <<>> /\ pos < Len(unit) /\ pos' = pos + 1 /\ unit' = unit

InitEffect ==
  /\ Visits("init") /\ stack' = stack /\ printed' = printed
  /\ isConst' \in [Entity -> BOOLEAN] /\ \A e \in Entity : isConst[e] => isConst'[e]
  /\ node.kind \in {"var", "method", "this"} => isConst'[node.target]
  /\ isPtr' \in [Entity -> BOOLEAN] /\ \A e \in Entity : isPtr[e] => isPtr'[e]
  /\ node.kind = "var" /\ node.ptr => isPtr'[node.target]
  /\ deps' \in Links /\ \A e \in Entity : Entries(deps[e]) \subseteq Entries(deps'[e])
  /\ \A e \in Entity : DependsOn(pos + 1, e) \subseteq Entries(deps'[e])
  /\ lastMeth' = IF node.kind = "method" THEN node.target ELSE lastMeth
  /\ \A x \in InitLooks(node, Known(pos + 1)) : x.shape # "stuck"
  /\ node.kind = "call" => node.form # "indirect"

ConstifyEffect ==
  /\ Visits("constify") /\ UNCHANGED <<tableVars, printed>>
  /\ stack' \in Seq(Entity) /\ Unconst(node) \subseteq Entries(stack')
  /\ \A x \in ConstifyLooks(node) : x.shape # "stuck"

PrintEffect ==
  /\ Visits("print") /\ UNCHANGED <<tableVars, stack>>
  /\ printed \subseteq printed'
  /\ \A e \in printed' \ printed :
       /\ e = node.target /\ e \in Entity /\ isConst[e]
       /\ node.kind = "method" \/ (node.kind = "var" /\ rewriteSingleDecl(node))
  /\ node.kind = "var" /\ rewriteSingleDecl(node) => node.target \in printed'

InitVisit ==
  \/ InitVisitVarDecl \/ InitVisitFieldDecl \/ InitVisitCXXMethodDecl
  \/ InitVisitCXXThisExpr \/ InitVisitBinaryOperator \/ InitVisitCallExpr
  \/ InitPasses

ConstifyVisit ==
  \/ ConstifyVisitCXXMethodDecl \/ ConstifyVisitBinaryOperator
  \/ ConstifyVisitUnaryOperator \/ ConstifyVisitReturnStmt
  \/ ConstifyVisitMemberCall \/ ConstifyVisitSystemCall \/ ConstifyVisitVarDecl
  \/ ConstifyPasses

PrintVisit == PrintVisitDecl \/ PrintVisitCXXMethodDecl \/ PrintPasses

\* What the node under way is.
LEMMA ThisNode ==
  ASSUME ConstTypeOK, pos < Len(unit)
  PROVE  pos + 1 \in 1..Len(unit) /\ node = unit[pos + 1] /\ GoodNode(node)
<1>1. pos \in Nat /\ Len(unit) \in Nat
  BY NodeFacts DEF ConstTypeOK
<1>2. pos + 1 \in 1..Len(unit)
  BY <1>1
<1> QED BY <1>2, NodeFacts DEF node

LEMMA VisitFacts ==
  ASSUME NEW p, NEW kind, Visit(p, kind)
  PROVE  Visits(p) /\ node.kind = kind /\ ~Fails(p, node)
BY DEF Visit, Visits

\* The method a "this" is linked to is the one it stands in.
LEMMA ThisInMethod ==
  ASSUME ConstTypeOK, LastMethod, pass = "init", pos < Len(unit), node.kind = "this"
  PROVE  lastMeth = node.meth /\ node.meth \in Entity
<1>1. pos \in Nat /\ pos + 1 \in 1..Len(unit) /\ WellFormed(unit) /\ node = unit[pos + 1]
  BY ThisNode, NodeFacts DEF ConstTypeOK
<1>2. PICK j \in 1..(pos + 1 - 1) :
        /\ unit[j].kind = "method" /\ unit[j].target = node.meth
        /\ \A k \in (j + 1)..(pos + 1 - 1) : unit[k].kind # "method"
  BY <1>1, ThisStands
<1>3. pos + 1 - 1 = pos
  BY <1>1
<1>4. lastMeth = unit[j].target
  BY <1>2, <1>3 DEF LastMethod
<1>5. j \in 1..Len(unit)
  BY <1>1, <1>2
<1>6. unit[j].target \in Entity
  BY <1>5, <1>2, NodeFacts DEF Declaring, GoodNode
<1> QED BY <1>2, <1>4, <1>6

\* The parameters declared as pointers so far are known to the table.
LEMMA KnownInTable ==
  ASSUME ConstTypeOK, LinksMade, pass = "init", pos < Len(unit)
  PROVE  Known(pos + 1) \subseteq KnownPointers
<1>1. pos \in Nat /\ Len(unit) \in Nat /\ pos + 1 - 1 = pos
  BY NodeFacts DEF ConstTypeOK
<1>2. ASSUME NEW e \in Entity, KnownPointer(e, pos + 1) PROVE isPtr[e]
  <2>1. PICK j \in 1..pos : unit[j].kind = "var" /\ unit[j].target = e /\ unit[j].ptr
    BY <1>1, <1>2 DEF KnownPointer
  <2>2. j \in 1..Len(unit) /\ j <= pos
    BY <1>1, <2>1
  <2> QED BY <2>1, <2>2 DEF LinksMade, Visited
<1> QED BY <1>2 DEF Known, KnownPointers

LEMMA MoreLooks ==
  ASSUME NEW n, NEW K, NEW L, K \subseteq L
  PROVE  InitLooks(n, K) \subseteq InitLooks(n, L)
BY DEF InitLooks

\* A step of the first traversal enters its node and makes its links.
LEMMA InitSteps ==
  ASSUME ConstTypeOK, LastMethod, LinksMade, InitVisit
  PROVE  InitEffect
<1>0. Visits("init") /\ ~Fails("init", node)
  BY VisitFacts DEF InitVisit, InitVisitVarDecl, InitVisitFieldDecl, InitVisitCXXMethodDecl,
     InitVisitCXXThisExpr, InitVisitBinaryOperator, InitVisitCallExpr, InitPasses
<1>1. pass = "init" /\ pos < Len(unit)
  BY <1>0 DEF Visits
<1>2. node = unit[pos + 1] /\ GoodNode(node) /\ node.target \in Maybe
      /\ (node.kind \in Declaring => node.target \in Entity)
      /\ node.ptr \in BOOLEAN
  BY <1>1, ThisNode DEF GoodNode
<1>3. isConst \in [Entity -> BOOLEAN] /\ isPtr \in [Entity -> BOOLEAN] /\ deps \in Links
  BY DEF ConstTypeOK, Links
<1>4. NoEntity \notin Entity
  BY ConstifyAssumption
<1>12. Inner(node.left) \in Maybe /\ Inner(node.source) \in Maybe
  BY <1>2, InnerFacts DEF GoodNode
<1>13. /\ \A x \in InitLooks(node, Known(pos + 1)) : x.shape # "stuck"
       /\ node.kind = "call" => node.form # "indirect"
  BY <1>0, <1>1, KnownInTable, MoreLooks DEF Fails
<1> USE <1>0, <1>1, <1>13
<1>5. CASE InitVisitVarDecl
  <2>1. node.kind = "var" /\ node.target \in Entity
    BY <1>5, <1>2, VisitFacts DEF InitVisitVarDecl, Declaring
  <2>2. /\ deps' \in Links /\ \A e \in Entity : Entries(deps[e]) \subseteq Entries(deps'[e])
        /\ node.ptr /\ valueInit(node) /\ Inner(node.source) # NoEntity
             => Inner(node.source) \in Entries(deps'[node.target])
    <3>1. CASE node.ptr /\ valueInit(node)
      <4>1. deps' = DependOnEachOther(deps, node.target, Inner(node.source))
        BY <1>5, <3>1 DEF InitVisitVarDecl
      <4> QED BY <4>1, <1>2, <1>3, <1>4, <1>12, <2>1, BothFacts
    <3>2. CASE ~(node.ptr /\ valueInit(node))
      BY <1>5, <3>2, <1>3 DEF InitVisitVarDecl
    <3> QED BY <3>1, <3>2
  <2>3. \A e \in Entity : DependsOn(pos + 1, e) \subseteq Entries(deps'[e])
    BY <2>1, <2>2, <1>2, <1>4 DEF DependsOn
  <2>4. /\ isConst' \in [Entity -> BOOLEAN] /\ \A e \in Entity : isConst[e] => isConst'[e]
        /\ isConst'[node.target]
    BY <1>5, <1>3, <2>1 DEF InitVisitVarDecl
  <2>5. /\ isPtr' \in [Entity -> BOOLEAN] /\ \A e \in Entity : isPtr[e] => isPtr'[e]
        /\ node.ptr => isPtr'[node.target]
    <3>1. isPtr' = [isPtr EXCEPT ![node.target] = isPtr[node.target] \/ node.ptr]
      BY <1>5 DEF InitVisitVarDecl
    <3> QED BY <3>1, <1>2, <1>3, <2>1
  <2>6. stack' = stack /\ printed' = printed /\ lastMeth' = lastMeth
    BY <1>5 DEF InitVisitVarDecl
  <2> QED BY <2>1, <2>2, <2>3, <2>4, <2>5, <2>6 DEF InitEffect
<1>6. CASE InitVisitFieldDecl
  <2>1. node.kind = "field" /\ node.target \in Entity
    BY <1>6, <1>2, VisitFacts DEF InitVisitFieldDecl, Declaring
  <2>2. UNCHANGED <<stack, printed, isConst, deps, lastMeth>>
    BY <1>6 DEF InitVisitFieldDecl
  <2>3. isPtr' \in [Entity -> BOOLEAN] /\ \A e \in Entity : isPtr[e] => isPtr'[e]
    <3>1. isPtr' = [isPtr EXCEPT ![node.target] = isPtr[node.target] \/ node.ptr]
      BY <1>6 DEF InitVisitFieldDecl
    <3> QED BY <3>1, <1>2, <1>3, <2>1
  <2>4. \A e \in Entity : DependsOn(pos + 1, e) = {}
    BY <2>1, <1>2 DEF DependsOn
  <2> QED BY <2>1, <2>2, <2>3, <2>4, <1>3 DEF InitEffect
<1>7. CASE InitVisitCXXMethodDecl
  <2>1. node.kind = "method" /\ node.target \in Entity
    BY <1>7, <1>2, VisitFacts DEF InitVisitCXXMethodDecl, Declaring
  <2>2. UNCHANGED <<stack, printed, isPtr, deps>> /\ lastMeth' = node.target
    BY <1>7 DEF InitVisitCXXMethodDecl
  <2>3. /\ isConst' \in [Entity -> BOOLEAN] /\ \A e \in Entity : isConst[e] => isConst'[e]
        /\ isConst'[node.target]
    BY <1>7, <1>3, <2>1 DEF InitVisitCXXMethodDecl
  <2>4. \A e \in Entity : DependsOn(pos + 1, e) = {}
    BY <2>1, <1>2 DEF DependsOn
  <2> QED BY <2>1, <2>2, <2>3, <2>4, <1>3 DEF InitEffect
<1>8. CASE InitVisitCXXThisExpr
  <2>1. node.kind = "this" /\ node.target \in Entity
    BY <1>8, <1>2, VisitFacts DEF InitVisitCXXThisExpr, Declaring
  <2>2. lastMeth = node.meth /\ node.meth \in Entity
    BY <2>1, ThisInMethod
  <2>3. UNCHANGED <<stack, printed, lastMeth>>
        /\ deps' = addDependencyHashTable(deps, node.target, node.meth)
    BY <1>8, <2>2 DEF InitVisitCXXThisExpr
  <2>4. /\ deps' \in Links /\ \A e \in Entity : Entries(deps[e]) \subseteq Entries(deps'[e])
        /\ node.meth \in Entries(deps'[node.target])
    BY <2>1, <2>2, <2>3, <1>2, <1>3, <1>4, AddFacts DEF Maybe
  <2>5. /\ isConst' \in [Entity -> BOOLEAN] /\ \A e \in Entity : isConst[e] => isConst'[e]
        /\ isConst'[node.target]
    BY <1>8, <1>3, <2>1 DEF InitVisitCXXThisExpr
  <2>6. isPtr' \in [Entity -> BOOLEAN] /\ \A e \in Entity : isPtr[e] => isPtr'[e]
    BY <1>8, <1>3, <2>1 DEF InitVisitCXXThisExpr
  <2>7. \A e \in Entity : DependsOn(pos + 1, e) \subseteq Entries(deps'[e])
    BY <2>1, <2>4, <1>2 DEF DependsOn
  <2> QED BY <2>1, <2>3, <2>4, <2>5, <2>6, <2>7 DEF InitEffect
<1>9. CASE InitVisitBinaryOperator
  <2>1. node.kind = "assign"
    BY <1>9, VisitFacts DEF InitVisitBinaryOperator
  <2>2. /\ deps' \in Links /\ \A e \in Entity : Entries(deps[e]) \subseteq Entries(deps'[e])
        /\ node.ptr /\ Inner(node.left) # NoEntity /\ Inner(node.source) # NoEntity
             => Inner(node.source) \in Entries(deps'[Inner(node.left)])
    <3>1. CASE node.ptr
      <4>1. deps' = DependOnEachOther(deps, Inner(node.left), Inner(node.source))
        BY <1>9, <3>1 DEF InitVisitBinaryOperator
      <4> QED BY <4>1, <1>3, <1>12, BothFacts
    <3>2. CASE ~node.ptr
      BY <1>9, <3>2, <1>3 DEF InitVisitBinaryOperator
    <3> QED BY <3>1, <3>2
  <2>3. \A e \in Entity : DependsOn(pos + 1, e) \subseteq Entries(deps'[e])
    BY <2>1, <2>2, <1>2, <1>4 DEF DependsOn
  <2>4. UNCHANGED <<stack, printed, isConst, isPtr, lastMeth>>
    BY <1>9 DEF InitVisitBinaryOperator
  <2> QED BY <2>1, <2>2, <2>3, <2>4, <1>3 DEF InitEffect
<1>10. CASE InitVisitCallExpr
  <2>1. node.kind = "call"
    BY <1>10, VisitFacts DEF InitVisitCallExpr
  <2> DEFINE D == IF node.form = "method"
                  THEN addDependencyHashTable(deps, node.target, Inner(node.left)) ELSE deps
  <2>2. D \in Links /\ \A e \in Entity : Entries(deps[e]) \subseteq Entries(D[e])
    BY <1>2, <1>3, <1>12, AddFacts
  <2>3. deps' = [e \in Entity |-> D[e] \o Arguments(node, e)]
    BY <1>10 DEF InitVisitCallExpr
  <2> HIDE DEF D
  <2>7. node.params \in Seq(Param) /\ \A j \in 1..Len(node.params) : node.args[j] \in Expr
    BY <1>2, <2>1 DEF GoodNode
  <2>8. Known(pos + 1) \subseteq KnownPointers
    BY KnownInTable
  <2>4. ASSUME NEW e \in Entity
        PROVE  /\ deps'[e] \in Seq(Entity) /\ Entries(deps[e]) \subseteq Entries(deps'[e])
               /\ DependsOn(pos + 1, e) \subseteq Entries(deps'[e])
    <3>1. D[e] \in Seq(Entity)
      BY <2>2 DEF Links
    <3>2. /\ Arguments(node, e) \in Seq(Entity)
          /\ \A j \in 1..Len(node.params) :
               node.params[j].name = e /\ isPtr[e] /\ Inner(node.args[j]) \in Entity
                 => Inner(node.args[j]) \in Entries(Arguments(node, e))
      BY <2>7, <1>3, ArgumentsFacts
    <3>3. /\ D[e] \o Arguments(node, e) \in Seq(Entity)
          /\ Entries(D[e] \o Arguments(node, e)) = Entries(D[e]) \cup Entries(Arguments(node, e))
      BY <3>1, <3>2, EntriesConcat
    <3>4. deps'[e] = D[e] \o Arguments(node, e)
      BY <2>3
    <3>5. KnownPointer(e, pos + 1) => isPtr[e]
      BY <2>8 DEF Known, KnownPointers
    <3>6. ASSUME NEW d \in DependsOn(pos + 1, e) PROVE d \in Entries(deps'[e])
      <4>1. d \in Entity /\ \E j \in 1..Len(node.params) :
              node.params[j].name = e /\ Inner(node.args[j]) = d /\ KnownPointer(e, pos + 1)
        BY <3>6, <2>1, <1>2 DEF DependsOn
      <4> QED BY <4>1, <3>2, <3>3, <3>4, <3>5
    <3> QED BY <2>2, <3>3, <3>4, <3>6
  <2>5. deps' \in Links
    BY <2>3, <2>4 DEF Links
  <2>6. UNCHANGED <<stack, printed, isConst, isPtr, lastMeth>>
    BY <1>10 DEF InitVisitCallExpr
  <2> QED BY <2>1, <2>4, <2>5, <2>6, <1>3 DEF InitEffect
<1>11. CASE InitPasses
  <2>1. \/ node.kind \in {"inc", "return"}
        \/ node.kind = "call" /\ (node.system \/ node.form = "construct")
    BY <1>11, VisitFacts DEF InitPasses
  <2>2. UNCHANGED <<stack, printed, isConst, isPtr, deps, lastMeth>>
    BY <1>11 DEF InitPasses, tableVars
  <2>3. \A e \in Entity : DependsOn(pos + 1, e) = {}
    BY <2>1, <1>2 DEF DependsOn
  <2> QED BY <2>1, <2>2, <2>3, <1>3 DEF InitEffect
<1> QED BY <1>5, <1>6, <1>7, <1>8, <1>9, <1>10, <1>11 DEF InitVisit

\* A step of the second traversal starts a propagation where the node says.
LEMMA ConstifySteps ==
  ASSUME ConstTypeOK, ConstifyVisit
  PROVE  ConstifyEffect
<1>0. Visits("constify") /\ ~Fails("constify", node)
  BY VisitFacts DEF ConstifyVisit, ConstifyVisitCXXMethodDecl, ConstifyVisitBinaryOperator,
     ConstifyVisitUnaryOperator, ConstifyVisitReturnStmt, ConstifyVisitMemberCall,
     ConstifyVisitSystemCall, ConstifyVisitVarDecl, ConstifyPasses
<1>1. GoodNode(node) /\ node.target \in Maybe /\ Inner(node.left) \in Maybe
  BY <1>0, ThisNode, InnerFacts DEF Visits, GoodNode
<1>2. ASSUME NEW s \in Seq(Maybe), Start(s), Unconst(node) \subseteq Entries(s)
      PROVE  ConstifyEffect
  <2>1. Unconst(node) \subseteq Entity
    BY DEF Unconst
  <2> QED BY <1>0, <1>2, <2>1, StartFacts DEF ConstifyEffect, Fails
<1>11. <<>> \in Seq(Maybe)
  OBVIOUS
<1>12. ASSUME NEW e \in Maybe, Start(<<e>>), Unconst(node) \subseteq {e} PROVE ConstifyEffect
  <2>1. <<e>> \in Seq(Maybe) /\ Entries(<<e>>) = {e}
    BY EntriesOne
  <2> QED BY <1>12, <2>1, <1>2
<1>13. ASSUME Start(<<>>), Unconst(node) = {} PROVE ConstifyEffect
  BY <1>2, <1>11, <1>13
<1>3. CASE ConstifyVisitCXXMethodDecl
  <2>1. node.kind = "method"
    BY <1>3, VisitFacts DEF ConstifyVisitCXXMethodDecl
  <2>2. Unconst(node) \subseteq IF Shared(unit, node) /\ ~node.const THEN {node.target} ELSE {}
    BY <2>1 DEF Unconst, ConstifyLooks
  <2>3. Start(IF Shared(unit, node) /\ ~node.const THEN <<node.target>> ELSE <<>>)
    BY <1>3 DEF ConstifyVisitCXXMethodDecl
  <2> QED BY <1>1, <1>12, <1>13, <2>2, <2>3
<1>4. CASE ConstifyVisitBinaryOperator
  <2>1. node.kind = "assign"
    BY <1>4, VisitFacts DEF ConstifyVisitBinaryOperator
  <2>2. Unconst(node) \subseteq {Inner(node.left)}
    BY <2>1 DEF Unconst, ConstifyLooks
  <2> QED BY <1>1, <1>12, <1>4, <2>2 DEF ConstifyVisitBinaryOperator
<1>5. CASE ConstifyVisitUnaryOperator
  <2>1. node.kind = "inc"
    BY <1>5, VisitFacts DEF ConstifyVisitUnaryOperator
  <2>2. Unconst(node) \subseteq {Inner(node.left)}
    BY <2>1 DEF Unconst, ConstifyLooks
  <2> QED BY <1>1, <1>12, <1>5, <2>2 DEF ConstifyVisitUnaryOperator
<1>6. CASE ConstifyVisitReturnStmt
  <2>1. node.kind = "return"
    BY <1>6, VisitFacts DEF ConstifyVisitReturnStmt
  <2>2. Unconst(node) \subseteq IF node.ptr THEN {Inner(node.left)} ELSE {}
    BY <2>1 DEF Unconst, ConstifyLooks
  <2>3. Start(IF node.ptr THEN <<Inner(node.left)>> ELSE <<>>)
    BY <1>6 DEF ConstifyVisitReturnStmt
  <2> QED BY <1>1, <1>12, <1>13, <2>2, <2>3
<1>7. CASE ConstifyVisitMemberCall
  <2>1. node.kind = "call" /\ node.form = "method"
    BY <1>7, VisitFacts DEF ConstifyVisitMemberCall
  <2>2. Unconst(node) \subseteq IF node.const THEN {} ELSE {Inner(node.left)}
    BY <2>1 DEF Unconst, ConstifyLooks
  <2>3. Start(IF node.const THEN <<>> ELSE <<Inner(node.left)>>)
    BY <1>7 DEF ConstifyVisitMemberCall
  <2> QED BY <1>1, <1>12, <1>13, <2>2, <2>3
<1>8. CASE ConstifyVisitSystemCall
  <2>1. node.kind = "call" /\ node.form \in {"function", "operator"} /\ node.system
    BY <1>8, VisitFacts DEF ConstifyVisitSystemCall
  <2>2. PICK s : s = [j \in 1..Len(node.params) |->
                        IF MayWrite(node.params[j]) THEN Inner(node.args[j]) ELSE NoEntity]
    OBVIOUS
  <2>3. Start(s)
    BY <1>8, <2>2 DEF ConstifyVisitSystemCall
  <2>4. Len(node.params) \in Nat /\ \A j \in 1..Len(node.params) : Inner(node.args[j]) \in Maybe
    BY <1>1, <2>1, InnerFacts DEF GoodNode
  <2>5. s \in Seq(Maybe) /\ Len(s) = Len(node.params)
    BY <2>2, <2>4 DEF Maybe
  <2>6. Unconst(node) \subseteq {Inner(node.args[j]) : j \in {k \in 1..Len(node.params) : MayWrite(node.params[k])}}
    BY <2>1 DEF Unconst, ConstifyLooks
  <2>7. \A j \in 1..Len(node.params) : MayWrite(node.params[j]) => s[j] = Inner(node.args[j])
    BY <2>2
  <2>8. Unconst(node) \subseteq Entries(s)
    BY <2>5, <2>6, <2>7 DEF Entries
  <2> QED BY <1>2, <2>3, <2>5, <2>8
<1>9. CASE ConstifyVisitVarDecl
  <2>1. node.kind = "var"
    BY <1>9, VisitFacts DEF ConstifyVisitVarDecl
  <2>2. Unconst(node) \subseteq IF node.ptr /\ node.init = "call" THEN {node.target} ELSE {}
    BY <2>1 DEF Unconst, ConstifyLooks
  <2>3. Start(IF node.ptr /\ node.init = "call" THEN <<node.target>> ELSE <<>>)
    BY <1>9 DEF ConstifyVisitVarDecl
  <2> QED BY <1>1, <1>12, <1>13, <2>2, <2>3
<1>10. CASE ConstifyPasses
  <2>1. \/ node.kind \in {"field", "this"}
        \/ /\ node.kind = "call"
           /\ node.form = "construct" \/ (node.form \in {"function", "operator"} /\ ~node.system)
    BY <1>10, VisitFacts DEF ConstifyPasses
  <2>2. Unconst(node) = {}
    BY <2>1 DEF Unconst, ConstifyLooks
  <2>3. stack = <<>> /\ UNCHANGED <<tableVars, stack, printed>>
    BY <1>0, <1>10 DEF ConstifyPasses, Visits
  <2>4. stack' \in Seq(Entity)
    BY <2>3
  <2> QED BY <1>0, <2>2, <2>3, <2>4 DEF ConstifyEffect, Fails
<1> QED BY <1>3, <1>4, <1>5, <1>6, <1>7, <1>8, <1>9, <1>10 DEF ConstifyVisit

LEMMA PrintSteps ==
  ASSUME ConstTypeOK, PrintVisit
  PROVE  PrintEffect
<1>0. Visits("print")
  BY VisitFacts DEF PrintVisit, PrintVisitDecl, PrintVisitCXXMethodDecl, PrintPasses
<1>1. node.kind \in Declaring => node.target \in Entity
  BY <1>0, ThisNode DEF Visits, GoodNode
<1>2. CASE PrintVisitDecl
  <2>1. node.kind = "var" /\ node.target \in Entity
    BY <1>1, <1>2, VisitFacts DEF PrintVisitDecl, Declaring
  <2>2. UNCHANGED <<tableVars, stack>>
        /\ printed' = IF rewriteSingleDecl(node) THEN printed \cup {node.target} ELSE printed
    BY <1>2 DEF PrintVisitDecl
  <2>3. rewriteSingleDecl(node) => isConst[node.target]
    BY DEF rewriteSingleDecl
  <2> QED BY <1>0, <2>1, <2>2, <2>3 DEF PrintEffect
<1>3. CASE PrintVisitCXXMethodDecl
  <2>1. node.kind = "method" /\ node.target \in Entity
    BY <1>1, <1>3, VisitFacts DEF PrintVisitCXXMethodDecl, Declaring
  <2>2. UNCHANGED <<tableVars, stack>>
        /\ printed' = IF isConst[node.target] /\ ~node.const
                        THEN printed \cup {node.target} ELSE printed
    BY <1>3 DEF PrintVisitCXXMethodDecl
  <2> QED BY <1>0, <2>1, <2>2 DEF PrintEffect
<1>4. CASE PrintPasses
  <2>1. node.kind # "var"
    BY <1>4, VisitFacts DEF PrintPasses
  <2>2. UNCHANGED <<tableVars, stack, printed>>
    BY <1>4 DEF PrintPasses
  <2> QED BY <1>0, <2>1, <2>2 DEF PrintEffect
<1> QED BY <1>2, <1>3, <1>4 DEF PrintVisit

-----------------------------------------------------------------------------
(* The invariant, one lemma for each kind of step.                         *)

\* A step that visits a node adds it to the nodes visited.
LEMMA OneMoreVisited ==
  ASSUME ConstTypeOK, NEW p \in {"init", "constify", "print"}, Visits(p),
         NEW q \in {"init", "constify", "print"}, NEW i \in 1..Len(unit), Visited(q, i)'
  PROVE  Visited(q, i) \/ (p = q /\ i = pos + 1)
<1>1. pos \in Nat
  BY NodeFacts DEF ConstTypeOK
<1>2. CASE p = q
  <2>1. p \notin After(q)
    BY <1>2 DEF After
  <2>2. i <= pos + 1
    BY <2>1 DEF Visited, Visits, After
  <2> QED BY <1>1, <1>2, <2>2 DEF Visited, Visits
<1>3. CASE p # q
  BY <1>3 DEF Visited, Visits, After
<1> QED BY <1>2, <1>3

LEMMA InitKeeps ==
  ASSUME PropagationInv, InitEffect
  PROVE  PropagationInv'
<1>1. ConstTypeOK /\ pass = "init" /\ pass' = "init" /\ Visits("init")
  BY DEF PropagationInv, ConstInv, InitEffect, Visits
<1>2. /\ pos \in Nat /\ Len(unit) \in Nat /\ pos + 1 \in 1..Len(unit) /\ node = unit[pos + 1]
      /\ GoodNode(node) /\ node.target \in Maybe /\ unit' = unit /\ pos' = pos + 1 /\ stack = <<>> /\ stack' = <<>>
  BY <1>1, ThisNode, NodeFacts DEF ConstTypeOK, Visits, InitEffect, GoodNode
<1>3. ConstTypeOK'
  <2>1. pos' \in 0..Len(unit')
    BY <1>2
  <2>2. lastMeth' \in Entity \cup {NoEntity}
    BY <1>1, <1>2 DEF InitEffect, ConstTypeOK, Maybe
  <2> QED BY <1>1, <1>2, <2>1, <2>2 DEF InitEffect, ConstTypeOK, Links
<1>4. EntriesMarked'
  <2>1. ASSUME NEW i \in 1..(pos + 1), unit[i].kind \in {"var", "method", "this"}
        PROVE  isConst'[unit[i].target]
    <3>1. CASE i = pos + 1
      BY <2>1, <3>1, <1>2 DEF InitEffect
    <3>2. CASE i # pos + 1
      <4>1. i \in 1..pos /\ i \in 1..Len(unit)
        BY <3>2, <1>2
      <4>2. isConst[unit[i].target] /\ unit[i].target \in Entity
        BY <2>1, <4>1, <1>1, NodeFacts DEF PropagationInv, ConstInv, EntriesMarked, Declaring, GoodNode
      <4> QED BY <4>2 DEF InitEffect
    <3> QED BY <3>1, <3>2
  <2> QED BY <2>1, <1>1, <1>2 DEF EntriesMarked
<1>5. LossPassedOn' /\ StackEmptied'
  BY <1>1, <1>2 DEF LossPassedOn, StackEmptied
<1>6. LastMethod'
  <2>1. ASSUME NEW i \in 1..(pos + 1), unit[i].kind = "method",
               \A k \in (i + 1)..(pos + 1) : unit[k].kind # "method"
        PROVE  lastMeth' = unit[i].target
    <3>1. CASE i = pos + 1
      BY <2>1, <3>1, <1>2 DEF InitEffect
    <3>2. CASE i # pos + 1
      <4>1. i \in 1..pos /\ pos + 1 \in (i + 1)..(pos + 1)
        BY <3>2, <1>2
      <4>2. node.kind # "method"
        BY <2>1, <4>1, <1>2
      <4>3. \A k \in (i + 1)..pos : unit[k].kind # "method"
        BY <2>1, <1>2
      <4>4. lastMeth = unit[i].target
        BY <2>1, <4>1, <4>3, <1>1 DEF PropagationInv, LastMethod
      <4> QED BY <4>2, <4>4 DEF InitEffect
    <3> QED BY <3>1, <3>2
  <2> QED BY <2>1, <1>2 DEF LastMethod
<1>7. LinksMade'
  <2>1. ASSUME NEW i \in 1..Len(unit), Visited("init", i)'
        PROVE  /\ unit[i].kind = "var" /\ unit[i].ptr => isPtr'[unit[i].target]
               /\ \A e \in Entity : DependsOn(i, e) \subseteq Entries(deps'[e])
    <3>1. CASE i = pos + 1
      BY <3>1, <1>2 DEF InitEffect
    <3>2. CASE Visited("init", i)
      <4>1. /\ unit[i].kind = "var" /\ unit[i].ptr => isPtr[unit[i].target]
            /\ \A e \in Entity : DependsOn(i, e) \subseteq Entries(deps[e])
        BY <3>2 DEF PropagationInv, LinksMade
      <4>2. unit[i].kind = "var" => unit[i].target \in Entity
        BY <1>1, NodeFacts DEF Declaring, GoodNode
      <4> QED BY <4>1, <4>2 DEF InitEffect
    <3> QED BY <2>1, <3>1, <3>2, <1>1, OneMoreVisited
  <2>2. \A i, e : DependsOn(i, e)' = DependsOn(i, e)
    BY <1>2 DEF DependsOn, KnownPointer, valueInit
  <2> QED BY <2>1, <2>2, <1>2 DEF LinksMade
<1>8. WritesLose'
  BY <1>1 DEF WritesLose, Visited, After
<1>9. PrintedRight'
  <2>1. printed = {} /\ printed' = {}
    BY <1>1 DEF PropagationInv, PrintedRight, InitEffect
  <2>2. \A i : ~Visited("print", i)'
    BY <1>1 DEF Visited, After
  <2> QED BY <2>1, <2>2 DEF PrintedRight
<1>10. NothingFailed'
  <2>1. ASSUME NEW i \in 1..Len(unit), Visited("init", i)'
        PROVE  /\ \A x \in InitLooks(unit[i], Known(i)) : x.shape # "stuck"
               /\ unit[i].kind = "call" => unit[i].form # "indirect"
    <3>1. CASE i = pos + 1
      BY <3>1, <1>2 DEF InitEffect
    <3>2. CASE Visited("init", i)
      BY <3>2 DEF PropagationInv, NothingFailed
    <3> QED BY <2>1, <3>1, <3>2, <1>1, OneMoreVisited
  <2>2. (\A i : ~Visited("constify", i)') /\ \A i : Known(i)' = Known(i)
    BY <1>1, <1>2 DEF Visited, After, Known, KnownPointer
  <2> QED BY <2>1, <2>2, <1>2 DEF NothingFailed
<1> QED BY <1>3, <1>4, <1>5, <1>6, <1>7, <1>8, <1>9, <1>10 DEF PropagationInv, ConstInv

LEMMA ConstifyKeeps ==
  ASSUME PropagationInv, ConstifyEffect
  PROVE  PropagationInv'
<1>1. ConstTypeOK /\ pass = "constify" /\ pass' = "constify" /\ Visits("constify")
  BY DEF PropagationInv, ConstInv, ConstifyEffect, Visits
<1>2. /\ pos \in Nat /\ Len(unit) \in Nat /\ pos + 1 \in 1..Len(unit) /\ node = unit[pos + 1]
      /\ unit' = unit /\ pos' = pos + 1 /\ stack = <<>>
  BY <1>1, ThisNode, NodeFacts DEF ConstTypeOK, Visits
<1>3. UNCHANGED <<lastMeth, isConst, isPtr, deps, printed>>
  BY DEF ConstifyEffect, tableVars
<1>4. Entries(stack) = {}
  BY <1>2 DEF Entries
<1>5. stack' \in Seq(Entity) /\ Unconst(node) \subseteq Entries(stack')
  BY DEF ConstifyEffect
<1>6. ConstTypeOK'
  <2>1. pos' \in 0..Len(unit')
    BY <1>2
  <2> QED BY <1>1, <1>2, <1>3, <1>5, <2>1 DEF ConstTypeOK
<1>7. EntriesMarked' /\ StackEmptied' /\ LastMethod'
  BY <1>1 DEF EntriesMarked, StackEmptied, LastMethod
<1>8. LossPassedOn'
  <2>1. LossPassedOn
    BY DEF PropagationInv, ConstInv
  <2> QED BY <2>1, <1>1, <1>2, <1>3, <1>4 DEF LossPassedOn
<1>9. LinksMade'
  <2>1. \A i : Visited("init", i) /\ Visited("init", i)'
    BY <1>1 DEF Visited, After
  <2>2. \A i, e : DependsOn(i, e)' = DependsOn(i, e)
    BY <1>2 DEF DependsOn, KnownPointer, valueInit
  <2> QED BY <2>1, <2>2, <1>2, <1>3 DEF PropagationInv, LinksMade
<1>10. WritesLose'
  <2>0. \A n : Unconst(n)' = Unconst(n)
    BY <1>2 DEF Unconst, Shared
  <2>1. ASSUME NEW i \in 1..Len(unit), Visited("constify", i)', NEW e \in Unconst(unit[i])
        PROVE  \/ e \in Entries(stack')
               \/ ~isConst[e] /\ \A d \in Entries(deps[e]) : Losing(d)'
    <3>1. CASE i = pos + 1
      BY <2>1, <3>1, <1>2, <1>5
    <3>2. CASE Visited("constify", i)
      BY <2>1, <3>2, <1>3, <1>4 DEF PropagationInv, WritesLose, Losing
    <3> QED BY <2>1, <3>1, <3>2, <1>1, OneMoreVisited
  <2> QED BY <2>0, <2>1, <1>2, <1>3 DEF WritesLose
<1>11. PrintedRight'
  <2>1. printed = {} /\ printed' = {}
    BY <1>1, <1>3 DEF PropagationInv, PrintedRight
  <2>2. \A i : ~Visited("print", i)'
    BY <1>1 DEF Visited, After
  <2> QED BY <2>1, <2>2 DEF PrintedRight
<1>12. NothingFailed'
  <2>1. ASSUME NEW i \in 1..Len(unit), Visited("constify", i)'
        PROVE  \A x \in ConstifyLooks(unit[i]) : x.shape # "stuck"
    <3>1. CASE i = pos + 1
      BY <3>1, <1>2 DEF ConstifyEffect
    <3>2. CASE Visited("constify", i)
      BY <3>2 DEF PropagationInv, NothingFailed
    <3> QED BY <2>1, <3>1, <3>2, <1>1, OneMoreVisited
  <2>2. (\A i : Visited("init", i)) /\ \A i : Known(i)' = Known(i)
    BY <1>1, <1>2 DEF Visited, After, Known, KnownPointer
  <2> QED BY <2>1, <2>2, <1>2 DEF PropagationInv, NothingFailed
<1> QED BY <1>6, <1>7, <1>8, <1>9, <1>10, <1>11, <1>12 DEF PropagationInv, ConstInv

\* A round of the loop: the top loses const and hands the loss to all it is
\* linked to.
LEMMA PropagateKeeps ==
  ASSUME PropagationInv, unconstifyByPropagation
  PROVE  PropagationInv'
<1> DEFINE cur == stack[Len(stack)]
<1>1. ConstTypeOK /\ stack \in Seq(Entity) /\ stack # <<>>
  BY DEF PropagationInv, ConstInv, ConstTypeOK, unconstifyByPropagation
<1>2. pass = "constify"
  BY <1>1 DEF PropagationInv, StackEmptied
<1>3. /\ isConst' = [isConst EXCEPT ![cur] = FALSE] /\ stack' = Rest \o Pushed(cur)
      /\ UNCHANGED <<unit, pass, pos, lastMeth, isPtr, deps, printed>>
  BY DEF unconstifyByPropagation
<1>4. Len(stack) \in Nat /\ Len(stack) \in 1..Len(stack) /\ cur \in Entity
  <2>1. Len(stack) \in Nat /\ Len(stack) # 0
    BY <1>1
  <2> QED BY <2>1, <1>1
<1>5. Rest \in Seq(Entity) /\ Entries(stack) = Entries(Rest) \cup {cur}
  <2>1. /\ Rest \in Seq(Entity) /\ Len(Rest) = Len(stack) - 1
        /\ \A i \in 1..(Len(stack) - 1) : Rest[i] = stack[i]
    BY <1>1, <1>4, AllButLast DEF Rest
  <2>2. 1..Len(stack) = (1..(Len(stack) - 1)) \cup {Len(stack)}
    BY <1>4
  <2> QED BY <2>1, <2>2 DEF Entries
<1> HIDE DEF cur
<1>6. /\ isConst \in [Entity -> BOOLEAN] /\ deps \in [Entity -> Seq(Entity)]
      /\ \A e \in Entity : isConst'[e] = (IF e = cur THEN FALSE ELSE isConst[e])
      /\ isConst' \in [Entity -> BOOLEAN]
  BY <1>1, <1>3, <1>4 DEF ConstTypeOK
<1>7. /\ Pushed(cur) \in Seq(Entity)
      /\ Entries(Pushed(cur)) = Entries(deps[cur]) \cap {d \in Entity : d # cur /\ isConst[d]}
  <2>1. deps[cur] \in Seq(Entity)
    BY <1>4, <1>6
  <2> QED BY <2>1, KeptFacts DEF Pushed
<1>8. stack' \in Seq(Entity) /\ Entries(stack') = Entries(Rest) \cup Entries(Pushed(cur))
  BY <1>3, <1>5, <1>7, EntriesConcat
<1>9. ASSUME NEW e \in Entity, Losing(e) PROVE Losing(e)'
  BY <1>5, <1>6, <1>8, <1>9 DEF Losing
<1>10. \A d \in Entries(deps[cur]) : Losing(d)'
  <2>1. ASSUME NEW d \in Entries(deps[cur]) PROVE Losing(d)'
    <3>1. d \in Entity
      BY <1>4, <1>6, EntriesIn
    <3>2. CASE d # cur /\ isConst[d]
      BY <2>1, <3>1, <3>2, <1>7, <1>8 DEF Losing
    <3>3. CASE d = cur \/ ~isConst[d]
      BY <3>1, <3>3, <1>6 DEF Losing
    <3> QED BY <3>2, <3>3
  <2> QED BY <2>1
<1>11. ~isConst'[cur]
  BY <1>4, <1>6
\* An entry that waited or had passed the loss on still does or has.
<1>12. ASSUME NEW e \in Entity,
              \/ e \in Entries(stack)
              \/ ~isConst[e] /\ \A d \in Entries(deps[e]) : Losing(d)
       PROVE  \/ e \in Entries(stack')
              \/ ~isConst'[e] /\ \A d \in Entries(deps[e]) : Losing(d)'
  <2>1. CASE e = cur
    BY <2>1, <1>10, <1>11
  <2>2. CASE e # cur /\ e \in Entries(stack)
    BY <2>2, <1>5, <1>8
  <2>3. CASE e # cur /\ e \notin Entries(stack)
    <3>1. \A d \in Entries(deps[e]) : d \in Entity
      BY <1>6, EntriesIn
    <3> QED BY <3>1, <2>3, <1>6, <1>9, <1>12
  <2> QED BY <2>1, <2>2, <2>3
<1>13. ConstTypeOK'
  BY <1>1, <1>3, <1>6, <1>8 DEF ConstTypeOK
<1>14. EntriesMarked' /\ StackEmptied' /\ LastMethod'
  BY <1>2, <1>3 DEF EntriesMarked, StackEmptied, LastMethod
<1>15. LossPassedOn'
  <2>1. ASSUME NEW n \in Entries(unit), n.kind \in {"var", "method", "this"}
        PROVE  LET e == n.target
               IN  isConst'[e] \/ e \in Entries(stack') \/
                     \A d \in Entries(deps[e]) : ~isConst'[d] \/ d \in Entries(stack')
    <3>1. n.target \in Entity
      BY <2>1, <1>1, NodeFacts DEF Entries, Declaring, GoodNode
    <3>2. LET e == n.target
          IN  isConst[e] \/ e \in Entries(stack) \/
                \A d \in Entries(deps[e]) : ~isConst[d] \/ d \in Entries(stack)
      BY <2>1, <1>2 DEF PropagationInv, ConstInv, LossPassedOn
    <3>3. CASE isConst[n.target] /\ n.target # cur
      BY <3>1, <3>3, <1>6
    <3>4. CASE ~(isConst[n.target] /\ n.target # cur)
      <4>1. CASE n.target = cur
        BY <4>1, <1>10 DEF Losing
      <4>2. CASE n.target # cur
        <5>1. ~isConst[n.target]
          BY <4>2, <3>4
        <5>2. \/ n.target \in Entries(stack)
              \/ ~isConst[n.target] /\ \A d \in Entries(deps[n.target]) : Losing(d)
          BY <3>2, <5>1 DEF Losing
        <5> QED BY <3>1, <5>2, <1>12 DEF Losing
      <4> QED BY <4>1, <4>2
    <3> QED BY <3>3, <3>4
  <2> QED BY <2>1, <1>3 DEF LossPassedOn
<1>16. LinksMade'
  <2>1. \A i : Visited("init", i) /\ Visited("init", i)'
    BY <1>2, <1>3 DEF Visited, After
  <2>2. \A i, e : DependsOn(i, e)' = DependsOn(i, e)
    BY <1>3 DEF DependsOn, KnownPointer, valueInit
  <2> QED BY <2>1, <2>2, <1>3 DEF PropagationInv, LinksMade
<1>17. WritesLose'
  <2>0. (\A n : Unconst(n)' = Unconst(n)) /\ \A i : Visited("constify", i)' <=> Visited("constify", i)
    BY <1>3 DEF Unconst, Shared, Visited
  <2>1. ASSUME NEW i \in 1..Len(unit), Visited("constify", i), NEW e \in Unconst(unit[i])
        PROVE  \/ e \in Entries(stack')
               \/ ~isConst'[e] /\ \A d \in Entries(deps[e]) : Losing(d)'
    <3>1. e \in Entity
      BY <2>1 DEF Unconst
    <3>2. \/ e \in Entries(stack)
          \/ ~isConst[e] /\ \A d \in Entries(deps[e]) : Losing(d)
      BY <2>1 DEF PropagationInv, WritesLose
    <3> QED BY <3>1, <3>2, <1>12
  <2> QED BY <2>0, <2>1, <1>3 DEF WritesLose
<1>18. PrintedRight'
  <2>1. printed = {} /\ printed' = {}
    BY <1>2, <1>3 DEF PropagationInv, PrintedRight
  <2>2. \A i : ~Visited("print", i)'
    BY <1>2, <1>3 DEF Visited, After
  <2> QED BY <2>1, <2>2 DEF PrintedRight
<1>19. NothingFailed'
  <2>1. (\A p, i : Visited(p, i)' => Visited(p, i)) /\ \A i : Known(i)' = Known(i)
    BY <1>3 DEF Visited, Known, KnownPointer
  <2> QED BY <2>1, <1>3 DEF PropagationInv, NothingFailed
<1> QED BY <1>19, <1>13, <1>14, <1>15, <1>16, <1>17, <1>18 DEF PropagationInv, ConstInv

LEMMA PrintKeeps ==
  ASSUME PropagationInv, PrintEffect
  PROVE  PropagationInv'
<1>1. ConstTypeOK /\ pass = "print" /\ pass' = "print" /\ Visits("print")
  BY DEF PropagationInv, ConstInv, PrintEffect, Visits
<1>2. /\ pos \in Nat /\ Len(unit) \in Nat /\ pos + 1 \in 1..Len(unit) /\ node = unit[pos + 1]
      /\ unit' = unit /\ pos' = pos + 1 /\ stack = <<>> /\ node \in Entries(unit)
  BY <1>1, ThisNode, NodeFacts DEF ConstTypeOK, Visits, Entries
<1>3. UNCHANGED <<lastMeth, isConst, isPtr, deps, stack>>
  BY DEF PrintEffect, tableVars
<1>4. ConstTypeOK'
  <2>1. pos' \in 0..Len(unit') /\ printed' \subseteq Entity
    BY <1>1, <1>2 DEF PrintEffect, ConstTypeOK
  <2> QED BY <1>1, <1>2, <1>3, <2>1 DEF ConstTypeOK
<1>5. EntriesMarked' /\ StackEmptied' /\ LastMethod'
  BY <1>1, <1>2, <1>3 DEF EntriesMarked, StackEmptied, LastMethod
<1>6. LossPassedOn'
  BY <1>1, <1>2, <1>3 DEF PropagationInv, ConstInv, LossPassedOn
<1>7. LinksMade'
  <2>1. \A i : Visited("init", i) /\ Visited("init", i)'
    BY <1>1 DEF Visited, After
  <2>2. \A i, e : DependsOn(i, e)' = DependsOn(i, e)
    BY <1>2 DEF DependsOn, KnownPointer, valueInit
  <2> QED BY <2>1, <2>2, <1>2, <1>3 DEF PropagationInv, LinksMade
<1>8. WritesLose'
  <2>1. \A i : Visited("constify", i) /\ Visited("constify", i)'
    BY <1>1 DEF Visited, After
  <2>2. \A n : Unconst(n)' = Unconst(n)
    BY <1>2 DEF Unconst, Shared
  <2>3. \A d : Losing(d)' <=> Losing(d)
    BY <1>3 DEF Losing
  <2> QED BY <2>1, <2>2, <2>3, <1>2, <1>3 DEF PropagationInv, WritesLose
<1>9. PrintedRight'
  <2>0. \A n : rewriteSingleDecl(n)' <=> rewriteSingleDecl(n)
    BY <1>3 DEF rewriteSingleDecl
  <2>1. ASSUME NEW e \in printed'
        PROVE  /\ isConst[e]
               /\ \E n \in Entries(unit) :
                    /\ n.target = e
                    /\ n.kind = "method" \/ (n.kind = "var" /\ rewriteSingleDecl(n))
    <3>1. CASE e \in printed
      BY <3>1 DEF PropagationInv, PrintedRight
    <3>2. CASE e \notin printed
      BY <2>1, <3>2, <1>2 DEF PrintEffect
    <3> QED BY <3>1, <3>2
  <2>2. ASSUME NEW i \in 1..Len(unit), Visited("print", i)',
               unit[i].kind = "var", rewriteSingleDecl(unit[i])
        PROVE  unit[i].target \in printed'
    <3>1. CASE i = pos + 1
      BY <2>2, <3>1, <1>2 DEF PrintEffect
    <3>2. CASE Visited("print", i)
      BY <2>2, <3>2 DEF PropagationInv, PrintedRight, PrintEffect
    <3> QED BY <2>2, <3>1, <3>2, <1>1, OneMoreVisited
  <2> QED BY <2>0, <2>1, <2>2, <1>1, <1>2, <1>3 DEF PrintedRight
<1>10. NothingFailed'
  <2>1. \A i : Visited("init", i) /\ Visited("constify", i) /\ Known(i)' = Known(i)
    BY <1>1, <1>2 DEF Visited, After, Known, KnownPointer
  <2> QED BY <2>1, <1>2 DEF PropagationInv, NothingFailed
<1> QED BY <1>10, <1>4, <1>5, <1>6, <1>7, <1>8, <1>9 DEF PropagationInv, ConstInv

\* The next traversal begins when the last node has been visited, so what a
\* traversal has done for the nodes so far it has done for all.
LEMMA NextPassKeeps ==
  ASSUME PropagationInv, NextPass
  PROVE  PropagationInv'
<1>1. ConstTypeOK /\ pos = Len(unit) /\ pos' = 0 /\ Len(unit) \in Nat /\ stack = <<>>
  BY NodeFacts DEF PropagationInv, ConstInv, NextPass
<1>2. UNCHANGED <<unit, lastMeth, isConst, isPtr, deps, stack, printed>>
  BY DEF NextPass, tableVars
<1>3. \/ pass = "init" /\ pass' = "constify"
      \/ pass = "constify" /\ pass' = "print"
      \/ pass = "print" /\ pass' = "done"
  BY DEF NextPass
<1>4. ASSUME NEW p \in {"init", "constify", "print"}, NEW i \in 1..Len(unit)
      PROVE  Visited(p, i)' => Visited(p, i)
  <2>1. i <= pos /\ ~(i <= 0)
    BY <1>1
  <2>2. ASSUME pass \in After(p) PROVE Visited(p, i)
    BY <2>2 DEF Visited
  <2>3. ASSUME pass = p PROVE Visited(p, i)
    BY <2>1, <2>3 DEF Visited
  <2>4. Visited(p, i)' => pass' \in After(p)
    BY <2>1, <1>1 DEF Visited, After
  <2>5. pass' \in After(p) => pass = p \/ pass \in After(p)
    BY <1>3 DEF After
  <2> QED BY <2>2, <2>3, <2>4, <2>5
<1>5. ConstTypeOK'
  <2>1. pass' \in {"init", "constify", "print", "done", "aborted"} /\ pos' \in 0..Len(unit')
    BY <1>1, <1>2, <1>3
  <2> QED BY <1>1, <1>2, <2>1 DEF ConstTypeOK
<1>6. EntriesMarked' /\ StackEmptied' /\ LastMethod'
  BY <1>1, <1>2, <1>3 DEF EntriesMarked, StackEmptied, LastMethod
<1>7. LossPassedOn'
  <2>1. CASE pass = "init"
    <3>1. \A n \in Entries(unit) : n.kind \in {"var", "method", "this"} => isConst[n.target]
      BY <2>1, <1>1 DEF PropagationInv, ConstInv, EntriesMarked, Entries
    <3> QED BY <3>1, <1>2 DEF LossPassedOn
  <2>2. CASE pass # "init"
    BY <2>2, <1>2, <1>3 DEF PropagationInv, ConstInv, LossPassedOn
  <2> QED BY <2>1, <2>2
<1>8. LinksMade'
  <2>1. \A i, e : DependsOn(i, e)' = DependsOn(i, e)
    BY <1>2 DEF DependsOn, KnownPointer, valueInit
  <2> QED BY <2>1, <1>2, <1>4 DEF PropagationInv, LinksMade
<1>9. WritesLose'
  <2>1. (\A n : Unconst(n)' = Unconst(n)) /\ \A d : Losing(d)' <=> Losing(d)
    BY <1>2 DEF Unconst, Shared, Losing
  <2> QED BY <2>1, <1>2, <1>4 DEF PropagationInv, WritesLose
<1>10. PrintedRight'
  <2>1. \A n : rewriteSingleDecl(n)' <=> rewriteSingleDecl(n)
    BY <1>2 DEF rewriteSingleDecl
  <2>2. printed' # {} => pass' \in {"print", "done"}
    BY <1>2, <1>3 DEF PropagationInv, PrintedRight
  <2> QED BY <2>1, <2>2, <1>2, <1>4 DEF PropagationInv, PrintedRight
<1>11. NothingFailed'
  <2>1. \A i : Known(i)' = Known(i)
    BY <1>2 DEF Known, KnownPointer
  <2> QED BY <2>1, <1>2, <1>4 DEF PropagationInv, NothingFailed
<1> QED BY <1>11, <1>5, <1>6, <1>7, <1>8, <1>9, <1>10 DEF PropagationInv, ConstInv

LEMMA PropagationInit == ConstInit => PropagationInv
<1> SUFFICES ASSUME ConstInit PROVE PropagationInv
  OBVIOUS
<1>1. unit \in Seq(Node) /\ Len(unit) \in Nat
  BY ConstifyAssumption DEF ConstInit
<1>2. ConstTypeOK
  <2>1. <<>> \in Seq(Entity)
    OBVIOUS
  <2> QED BY <1>1, <2>1 DEF ConstInit, ConstTypeOK
<1>3. \A p \in {"init", "constify", "print"} : \A i \in 1..Len(unit) : ~Visited(p, i)
  BY <1>1 DEF ConstInit, Visited, After
<1>4. EntriesMarked /\ LossPassedOn /\ StackEmptied /\ LastMethod
  BY DEF ConstInit, EntriesMarked, LossPassedOn, StackEmptied, LastMethod
<1>5. LinksMade /\ NothingFailed /\ WritesLose
  BY <1>3 DEF LinksMade, NothingFailed, WritesLose
<1>6. PrintedRight
  BY <1>3 DEF PrintedRight, ConstInit
<1> QED BY <1>2, <1>4, <1>5, <1>6 DEF PropagationInv, ConstInv

LEMMA PropagationStutter ==
  ASSUME PropagationInv, UNCHANGED constVars
  PROVE  PropagationInv'
<1>1. UNCHANGED <<unit, pass, pos, lastMeth, isConst, isPtr, deps, stack, printed>>
  BY DEF constVars, tableVars
<1>2. ConstInv'
  BY <1>1 DEF PropagationInv, ConstInv, ConstTypeOK, EntriesMarked, LossPassedOn
<1>3. \A p, i : Visited(p, i)' <=> Visited(p, i)
  BY <1>1 DEF Visited
<1>4. StackEmptied' /\ LastMethod'
  BY <1>1 DEF PropagationInv, StackEmptied, LastMethod
<1>5. LinksMade'
  <2>1. \A i, e : DependsOn(i, e)' = DependsOn(i, e)
    BY <1>1 DEF DependsOn, KnownPointer, valueInit
  <2> QED BY <2>1, <1>1, <1>3 DEF PropagationInv, LinksMade
<1>6. WritesLose'
  <2>1. (\A n : Unconst(n)' = Unconst(n)) /\ \A d : Losing(d)' <=> Losing(d)
    BY <1>1 DEF Unconst, Shared, Losing
  <2> QED BY <2>1, <1>1, <1>3 DEF PropagationInv, WritesLose
<1>7. PrintedRight'
  <2>1. \A n : rewriteSingleDecl(n)' <=> rewriteSingleDecl(n)
    BY <1>1 DEF rewriteSingleDecl
  <2> QED BY <2>1, <1>1, <1>3 DEF PropagationInv, PrintedRight
<1>8. NothingFailed'
  <2>1. (\A p, i : Visited(p, i)' => Visited(p, i)) /\ \A i : Known(i)' = Known(i)
    BY <1>1 DEF Visited, Known, KnownPointer
  <2> QED BY <2>1, <1>1 DEF PropagationInv, NothingFailed
<1> QED BY <1>8, <1>2, <1>4, <1>5, <1>6, <1>7 DEF PropagationInv

\* The tool fails before anything is printed.
LEMMA AbortKeeps ==
  ASSUME PropagationInv, Abort
  PROVE  PropagationInv'
<1>1. /\ UNCHANGED <<unit, pos, lastMeth, isConst, isPtr, deps, stack, printed>>
      /\ stack = <<>> /\ pass' = "aborted" /\ pass \in {"init", "constify"}
  BY DEF Abort, Fails, tableVars
<1>2. printed = {} /\ ConstTypeOK
  BY <1>1 DEF PropagationInv, ConstInv, PrintedRight
<1>3. ConstInv'
  BY <1>1, <1>2 DEF ConstInv, ConstTypeOK, EntriesMarked, LossPassedOn
<1>4. \A p \in {"init", "constify", "print"} : \A i : ~Visited(p, i)'
  BY <1>1 DEF Visited, After
<1> QED BY <1>1, <1>2, <1>3, <1>4
        DEF PropagationInv, StackEmptied, LastMethod, LinksMade, NothingFailed, WritesLose,
            PrintedRight

\* The invariant of the three traversals (ASTInitVisitor, ASTConstifyVisitor,
\* ASTPrintVisitor): the links of all nodes are there before const is taken
\* away, and all that is linked to a loss has lost const before anything is
\* printed, for every set of translation units.
THEOREM PropagationInvariance == ConstSpec => []PropagationInv
<1>1. ASSUME PropagationInv, [ConstNext]_constVars PROVE PropagationInv'
  <2>1. CASE InitVisit
    BY <1>1, <2>1, InitSteps, InitKeeps DEF PropagationInv, ConstInv
  <2>2. CASE ConstifyVisit
    BY <1>1, <2>2, ConstifySteps, ConstifyKeeps DEF PropagationInv, ConstInv
  <2>3. CASE unconstifyByPropagation
    BY <1>1, <2>3, PropagateKeeps
  <2>4. CASE PrintVisit
    BY <1>1, <2>4, PrintSteps, PrintKeeps DEF PropagationInv, ConstInv
  <2>5. CASE NextPass
    BY <1>1, <2>5, NextPassKeeps
  <2>6. CASE Abort
    BY <1>1, <2>6, AbortKeeps
  <2>7. CASE UNCHANGED constVars
    BY <1>1, <2>7, PropagationStutter
  <2> QED BY <1>1, <2>1, <2>2, <2>3, <2>4, <2>5, <2>6, <2>7
          DEF ConstNext, InitVisit, ConstifyVisit, PrintVisit
<1> QED BY <1>1, PropagationInit, PTL DEF ConstSpec

\* While const is taken away (unconstifyByPropagation), an entry that lost it
\* waits on the stack or has handed the loss on to all its dependencies.
THEOREM ConstLossPassedOn == ConstSpec => []ConstInv
<1>1. PropagationInv => ConstInv
  BY DEF PropagationInv
<1> QED BY <1>1, PropagationInvariance, PTL

-----------------------------------------------------------------------------
(* The output.                                                             *)

\* When the tool is done: what lost const is not printed, neither is what it is
\* linked to, and what was looked at was found or stands for nothing.
LEMMA AtTheEnd ==
  ASSUME PropagationInv, pass = "done"
  PROVE  /\ \A e \in printed : isConst[e]
         /\ \A i \in 1..Len(unit) : \A e \in Entity : DependsOn(i, e) \subseteq Entries(deps[e])
         /\ \A n \in Entries(unit) :
              n.kind \in {"var", "method", "this"} /\ ~isConst[n.target] =>
                \A d \in Entries(deps[n.target]) : ~isConst[d]
         /\ \A n \in Entries(unit) : \A e \in Unconst(n) :
              ~isConst[e] /\ \A d \in Entries(deps[e]) : ~isConst[d]
         /\ \A n \in Entries(unit) : n.kind = "var" /\ rewriteSingleDecl(n) => n.target \in printed
         /\ \A i \in 1..Len(unit) :
              /\ \A x \in InitLooks(unit[i], Known(i)) : x.shape # "stuck"
              /\ \A x \in ConstifyLooks(unit[i]) : x.shape # "stuck"
              /\ unit[i].kind = "call" => unit[i].form # "indirect"
<1>1. \A p \in {"init", "constify", "print"} : \A i : Visited(p, i)
  BY DEF Visited, After
<1>2. Entries(stack) = {}
  BY DEF PropagationInv, StackEmptied, Entries
<1>3. \A e \in printed : isConst[e]
  BY DEF PropagationInv, PrintedRight
<1>4. \A i \in 1..Len(unit) : \A e \in Entity : DependsOn(i, e) \subseteq Entries(deps[e])
  BY <1>1 DEF PropagationInv, LinksMade
<1>5. \A n \in Entries(unit) :
        n.kind \in {"var", "method", "this"} /\ ~isConst[n.target] =>
          \A d \in Entries(deps[n.target]) : ~isConst[d]
  BY <1>2 DEF PropagationInv, ConstInv, LossPassedOn
<1>6. \A n \in Entries(unit) : \A e \in Unconst(n) :
        ~isConst[e] /\ \A d \in Entries(deps[e]) : ~isConst[d]
  <2>1. ASSUME NEW n \in Entries(unit), NEW e \in Unconst(n)
        PROVE  ~isConst[e] /\ \A d \in Entries(deps[e]) : ~isConst[d]
    <3>1. PICK i \in 1..Len(unit) : n = unit[i]
      BY <2>1 DEF Entries
    <3>2. \/ e \in Entries(stack)
          \/ ~isConst[e] /\ \A d \in Entries(deps[e]) : Losing(d)
      BY <1>1, <2>1, <3>1 DEF PropagationInv, WritesLose
    <3> QED BY <1>2, <3>2 DEF Losing
  <2> QED BY <2>1
<1>7. \A n \in Entries(unit) : n.kind = "var" /\ rewriteSingleDecl(n) => n.target \in printed
  BY <1>1 DEF PropagationInv, PrintedRight, Entries
<1>8. \A i \in 1..Len(unit) :
        /\ \A x \in InitLooks(unit[i], Known(i)) : x.shape # "stuck"
        /\ \A x \in ConstifyLooks(unit[i]) : x.shape # "stuck"
        /\ unit[i].kind = "call" => unit[i].form # "indirect"
  BY <1>1 DEF PropagationInv, NothingFailed
<1> QED BY <1>3, <1>4, <1>5, <1>6, <1>7, <1>8

\* An expression that was looked at and that the tool can trace was found.
LEMMA Found ==
  ASSUME PropagationInv, pass = "done", NEW i \in 1..Len(unit), NEW x \in Expr,
         x \in InitLooks(unit[i], Known(i)) \/ x \in ConstifyLooks(unit[i]),
         Traced(unit, x), x.base # NoEntity
  PROVE  Inner(x) = x.base /\ x.base \in Entity
<1>1. x.shape # "stuck"
  BY AtTheEnd
<1>2. x.shape # "hidden"
  BY DEF Traced
<1>3. x.shape = "plain"
  BY <1>1, <1>2, InnerFacts
<1>4. x.base \in Maybe
  BY InnerFacts
<1> QED BY <1>3, <1>4 DEF Inner, Maybe

\* What lost const, and was not const in the source, is not const in the output.
LEMMA LostIsNotConst ==
  ASSUME PropagationInv, pass = "done", NEW e \in Entity,
         ~isConst[e], ~IsConst(unit, {}, e)
  PROVE  ~IsConst(unit, printed, e)
<1>1. e \notin printed
  BY AtTheEnd
<1>2. ~\E n \in Entries(unit) : n.kind = "method" /\ n.target = e /\ n.const
  BY DEF IsConst
<1>3. ASSUME NEW n \in Entries(unit), n.kind = "this", n.target = e,
             NEW m \in Entries(unit), m.kind = "method", m.target = n.meth,
             m.const \/ m.target \in printed
      PROVE  FALSE
  <2>1. ~m.const
    BY <1>3 DEF IsConst
  <2>2. PICK i \in 1..Len(unit) : n = unit[i]
    BY DEF Entries
  <2>3. n.meth \in Entity
    BY <1>3, NodeFacts DEF PropagationInv, ConstInv, Entries, Declaring, GoodNode
  <2>4. n.meth \in DependsOn(i, e)
    BY <1>3, <2>2, <2>3 DEF DependsOn
  <2>5. n.meth \in Entries(deps[e])
    BY <2>4, AtTheEnd
  <2>6. ~isConst[n.meth]
    BY <1>3, <2>5, AtTheEnd
  <2> QED BY <1>3, <2>1, <2>6, AtTheEnd
<1> QED BY <1>1, <1>2, <1>3 DEF IsConst

LEMMA MoreIsConst ==
  ASSUME NEW u, NEW P, NEW e, IsConst(u, {}, e)
  PROVE  IsConst(u, P, e)
BY DEF IsConst

\* A member that is written or handed on is one of a "this" that is not const.
LEMMA MemberOfNotConst ==
  ASSUME PropagationInv, pass = "done", NEW x, Traced(unit, x), x.of # NoEntity,
         ~IsConst(unit, {}, x.of)
  PROVE  ~IsConst(unit, printed, x.of)
<1> DEFINE e == x.of
<1>0. ConstTypeOK
  BY DEF PropagationInv, ConstInv
<1>1. PICK t \in Entries(unit), m \in Entries(unit) :
        /\ t.kind = "this" /\ t.target = e
        /\ m.kind = "method" /\ m.target = t.meth /\ Shared(unit, m)
  BY DEF Traced
<1>2. ~m.const
  BY <1>1 DEF IsConst
<1>3. m.target \in Entity
  BY <1>0, <1>1, NodeFacts DEF Entries, Declaring, GoodNode
<1>4. m.target \in Unconst(m)
  BY <1>1, <1>2, <1>3 DEF Unconst
<1>5. m.target \notin printed
  BY <1>4, AtTheEnd
<1>6. e \notin printed
  <2>1. ASSUME e \in printed PROVE FALSE
    <3>1. PICK k \in Entries(unit) : k.target = e /\ k.kind \in {"method", "var"}
      BY <2>1 DEF PropagationInv, PrintedRight
    <3>2. k.kind = t.kind
      BY <1>0, <1>1, <3>1, NodeFacts, SameEntry DEF Declaring
    <3> QED BY <1>1, <3>1, <3>2
  <2> QED BY <2>1
<1>7. ASSUME NEW s \in Entries(unit), s.kind = "this", s.target = e PROVE s.meth = t.meth
  BY <1>0, <1>1, <1>7, NodeFacts, SameEntry DEF Declaring
<1> QED BY <1>1, <1>5, <1>6, <1>7 DEF IsConst

\* What a node really writes, or lets be written, the tool looks at, or it
\* designates nothing.
LEMMA WrittenLookedAt ==
  ASSUME PropagationInv, pass = "done", Handled(unit), NEW i \in 1..Len(unit),
         NEW x \in Written(unit[i])
  PROVE  x \in ConstifyLooks(unit[i]) /\ x \in Expr
<1> DEFINE n == unit[i]
<1>0. GoodNode(n) /\ WellFormed(unit) /\ n \in Entries(unit)
  BY NodeFacts DEF PropagationInv, ConstInv, Entries
<1>1. CASE n.kind \in {"assign", "inc"}
  BY <1>0, <1>1 DEF Written, ConstifyLooks, GoodNode
<1>2. CASE n.kind = "return"
  <2>1. ~n.const /\ x = n.left
    BY <1>2 DEF Written
  <2>2. n.ptr
    BY <1>0, <1>2, <2>1 DEF Handled
  <2> QED BY <1>0, <1>2, <2>1, <2>2 DEF ConstifyLooks, GoodNode
<1>3. CASE n.kind = "call"
  <2>1. \/ \E j \in n.writes : x = n.args[j]
        \/ OnObject(n) /\ ~n.const /\ n.target = NoEntity /\ x = Object(n)
    BY <1>3 DEF Written
  <2>2. CallHandled(unit, i)
    BY <1>3 DEF Handled
  <2>3. n.form \in {"function", "method", "operator", "construct"}
    BY <1>0, <1>3, AtTheEnd DEF GoodNode
  <2>4. /\ n.writes \subseteq 1..Len(n.args) /\ Len(n.args) \in Nat /\ Len(n.params) \in Nat
        /\ n.left \in Expr /\ \A j \in 1..Len(n.params) : n.args[j] \in Expr
    BY <1>0, <1>3 DEF GoodNode
  <2>5. CASE n.form \in {"function", "operator"} /\ n.system
    <3>1. \A j \in n.writes \cup (IF n.form = "operator" /\ ~n.const THEN {1} ELSE {}) :
            j <= Len(n.params) /\ MayWrite(n.params[j])
      BY <2>2, <2>5 DEF CallHandled
    <3>2. PICK j \in n.writes \cup (IF n.form = "operator" /\ ~n.const THEN {1} ELSE {}) :
            x = n.args[j]
      BY <2>1, <2>5 DEF OnObject, Object
    <3>3. j \in 1..Len(n.args) \/ j = 1
      BY <2>4, <3>2
    <3>4. j \in 1..Len(n.params) /\ MayWrite(n.params[j])
      BY <3>1, <3>3, <2>4
    <3> QED BY <1>3, <2>4, <2>5, <3>2, <3>4 DEF ConstifyLooks
  <2>6. CASE n.form = "method"
    <3>1. n.writes = {}
      BY <2>2, <2>6 DEF CallHandled
    <3>2. ~n.const /\ x = n.left
      BY <2>1, <2>6, <3>1 DEF Object
    <3> QED BY <1>3, <2>4, <2>6, <3>2 DEF ConstifyLooks
  <2>7. CASE n.form = "construct"
    <3>1. n.writes = {}
      BY <2>2, <2>7 DEF CallHandled
    <3> QED BY <2>1, <2>7, <3>1 DEF OnObject
  <2>8. CASE n.form = "operator" /\ ~n.system
    <3>1. n.writes = {} /\ n.const
      BY <2>2, <2>8 DEF CallHandled
    <3> QED BY <2>1, <3>1
  <2>9. CASE n.form = "function" /\ ~n.system
    <3>1. n.writes = {}
      BY <2>2, <2>9 DEF CallHandled
    <3> QED BY <2>1, <2>9, <3>1 DEF OnObject
  <2> QED BY <2>3, <2>5, <2>6, <2>7, <2>8, <2>9
<1>4. CASE n.kind \notin {"assign", "inc", "return", "call"}
  BY <1>4 DEF Written
<1> QED BY <1>1, <1>2, <1>3, <1>4

\* Nothing that is const in the output is written.
LEMMA WrittenNotConst ==
  ASSUME PropagationInv, pass = "done", Handled(unit), NEW e \in Modified(unit)
  PROVE  ~IsConst(unit, printed, e)
<1>1. PICK n, x : n \in Entries(unit) /\ x \in Written(n) /\ e \in {x.base, x.of} /\ e # NoEntity
  <2> DEFINE W == UNION {Written(n) : n \in Entries(unit)}
  <2>1. e \in UNION {{x.base, x.of} : x \in W} /\ e # NoEntity
    BY DEF Modified
  <2>2. PICK x \in W : e \in {x.base, x.of}
    BY <2>1
  <2>3. PICK n \in Entries(unit) : x \in Written(n)
    BY <2>2
  <2> QED BY <2>1, <2>2, <2>3
<1>2. PICK i \in 1..Len(unit) : n = unit[i]
  BY <1>1 DEF Entries
<1>3. ~IsConst(unit, {}, e) /\ Traced(unit, x)
  BY <1>1 DEF Handled, Typed
<1>4. CASE e = x.base
  <2>1. x \in ConstifyLooks(n) /\ x \in Expr
    BY <1>1, <1>2, WrittenLookedAt
  <2>2. Inner(x) = e /\ e \in Entity
    BY <1>1, <1>2, <1>3, <1>4, <2>1, Found
  <2>3. e \in Unconst(n)
    BY <2>1, <2>2 DEF Unconst
  <2>4. ~isConst[e]
    BY <1>1, <2>3, AtTheEnd
  <2> QED BY <1>3, <2>2, <2>4, LostIsNotConst
<1>5. CASE e = x.of
  BY <1>1, <1>3, <1>5, MemberOfNotConst
<1> QED BY <1>1, <1>4, <1>5

\* The entry a pointer, reference or parameter is given has lost const when the
\* pointer is not printed as const.
LEMMA GivenLost ==
  ASSUME PropagationInv, pass = "done", Handled(unit), NEW i \in 1..Len(unit),
         NEW t, NEW x, <<t, x>> \in Given(unit[i]),
         t # NoEntity, x.base # NoEntity, ~IsConst(unit, printed, t)
  PROVE  x.base \in Entity /\ ~isConst[x.base]
<1> DEFINE n == unit[i]
<1>0. GoodNode(n) /\ WellFormed(unit) /\ n \in Entries(unit) /\ ConstTypeOK
  BY NodeFacts DEF PropagationInv, ConstInv, Entries
<1>1. t \notin printed
  BY DEF IsConst
<1>2. Traced(unit, x)
  BY <1>0 DEF Handled
<1>3. \/ n.kind = "var" /\ n.ptr /\ t = n.target /\ x = n.source
      \/ n.kind = "assign" /\ n.ptr /\ t = n.left.base /\ x = n.source
      \/ OnObject(n) /\ t = n.target /\ x = Object(n)
      \/ n.kind = "call" /\ \E j \in 1..Len(n.params) :
           /\ n.params[j].ptr /\ t = n.params[j].name
           /\ x = n.args[IF n.form = "operator" THEN j + 1 ELSE j]
  BY DEF Given
<1>4. CASE n.kind = "var" /\ n.ptr /\ t = n.target /\ x = n.source
  <2>1. n.init \notin {"none", "new"}
    BY <1>0, <1>4 DEF WellFormed, Designates
  <2>2. valueInit(n) /\ n.init # "none"
    BY <1>0, <2>1 DEF valueInit, GoodNode
  <2>3. x \in InitLooks(n, Known(i)) /\ x \in Expr /\ t \in Entity
    BY <1>0, <1>4, <2>2 DEF InitLooks, GoodNode, Declaring
  <2>4. Inner(x) = x.base /\ x.base \in Entity
    BY <1>2, <2>3, Found
  <2>5. ~isConst[t]
    BY <1>0, <1>1, <1>4, <2>2, AtTheEnd DEF rewriteSingleDecl
  <2>6. x.base \in DependsOn(i, t)
    BY <1>4, <2>2, <2>4 DEF DependsOn
  <2>7. x.base \in Entries(deps[t])
    BY <2>3, <2>6, AtTheEnd
  <2> QED BY <1>0, <1>4, <2>4, <2>5, <2>7, AtTheEnd
<1>5. CASE n.kind = "assign" /\ n.ptr /\ t = n.left.base /\ x = n.source
  <2>1. x \in InitLooks(n, Known(i)) /\ x \in Expr /\ n.left \in Expr
    BY <1>0, <1>5 DEF InitLooks, GoodNode
  <2>2. Inner(x) = x.base /\ x.base \in Entity
    BY <1>2, <2>1, Found
  <2>3. n.left \in ConstifyLooks(n) /\ n.left \in Written(n)
    BY <1>5 DEF ConstifyLooks, Written
  <2>4. Traced(unit, n.left)
    BY <1>0, <2>3 DEF Handled
  <2>5. Inner(n.left) = t /\ t \in Entity
    BY <1>5, <2>1, <2>3, <2>4, Found
  <2>6. t \in Unconst(n)
    BY <2>3, <2>5 DEF Unconst
  <2>7. x.base \in DependsOn(i, t)
    BY <1>5, <2>2, <2>5 DEF DependsOn
  <2>8. x.base \in Entries(deps[t])
    BY <2>5, <2>7, AtTheEnd
  <2> QED BY <1>0, <2>2, <2>6, <2>8, AtTheEnd
<1>6. CASE OnObject(n) /\ t = n.target /\ x = Object(n)
  <2>0. n.kind = "call" /\ n.form \in {"method", "operator"} /\ CallHandled(unit, i)
    BY <1>6 DEF OnObject, Handled
  <2>1. ~n.const
    <3>1. ASSUME n.const PROVE FALSE
      <4>1. \E j \in 1..Len(unit) : unit[j].kind = "method" /\ unit[j].target = t /\ unit[j].const
        BY <1>0, <1>6, <2>0, <3>1 DEF WellFormed
      <4> QED BY <4>1 DEF IsConst, Entries
    <3> QED BY <3>1
  <2>2. ~n.system
    BY <1>0, <1>6, <2>0 DEF WellFormed
  <2>3. n.form = "method"
    BY <2>0, <2>1, <2>2 DEF CallHandled
  <2>4. x = n.left /\ x \in ConstifyLooks(n) /\ x \in Expr
    BY <1>0, <1>6, <2>0, <2>1, <2>3 DEF Object, ConstifyLooks, GoodNode
  <2>5. Inner(x) = x.base /\ x.base \in Entity
    BY <1>2, <2>4, Found
  <2>6. x.base \in Unconst(n)
    BY <2>4, <2>5 DEF Unconst
  <2> QED BY <1>0, <2>5, <2>6, AtTheEnd
<1>7. ASSUME n.kind = "call",
             NEW j \in 1..Len(n.params), n.params[j].ptr, t = n.params[j].name,
             x = n.args[IF n.form = "operator" THEN j + 1 ELSE j]
      PROVE  x.base \in Entity /\ ~isConst[x.base]
  <2>1. ~n.system
    BY <1>0, <1>7 DEF WellFormed
  <2>2. CallHandled(unit, i)
    BY <1>7 DEF Handled
  <2>3. n.form \notin {"construct", "operator"}
    BY <1>7, <2>1, <2>2 DEF CallHandled
  <2>4. Linked(unit, i) /\ x = n.args[j]
    BY <1>7, <2>1, <2>2, <2>3 DEF CallHandled
  <2>5. PICK k \in 1..(i - 1) : unit[k].kind = "var" /\ unit[k].place = "param"
                                /\ unit[k].target = t /\ unit[k].ptr
    BY <1>7, <2>4 DEF Linked, Designates
  <2>6. k \in 1..Len(unit)
    BY <1>0, NodeFacts
  <2>7. unit[k] \in Entries(unit) /\ t \in Entity
    BY <1>0, <2>5, <2>6, NodeFacts DEF Entries, GoodNode, Declaring
  <2>8. KnownPointer(t, i) /\ t \in Known(i)
    BY <2>5, <2>7 DEF KnownPointer, Known
  <2>9. x \in InitLooks(n, Known(i)) /\ x \in Expr
    BY <1>0, <1>7, <2>1, <2>3, <2>4, <2>8 DEF InitLooks, GoodNode
  <2>10. Inner(x) = x.base /\ x.base \in Entity
    BY <1>2, <2>9, Found
  <2>11. x.base \in DependsOn(i, t)
    BY <1>7, <2>1, <2>3, <2>4, <2>8, <2>10 DEF DependsOn
  <2>12. x.base \in Entries(deps[t])
    BY <2>7, <2>11, AtTheEnd
  <2>13. ~isConst[t]
    BY <1>1, <2>5, <2>7, AtTheEnd DEF rewriteSingleDecl
  <2> QED BY <2>5, <2>7, <2>10, <2>12, <2>13, AtTheEnd
<1> QED BY <1>3, <1>4, <1>5, <1>6, <1>7

\* What is not const in the output is given nothing that is.
LEMMA GivenNotConst ==
  ASSUME PropagationInv, pass = "done", Handled(unit), NEW f \in Flows(unit),
         ~IsConst(unit, printed, f[1])
  PROVE  ~IsConst(unit, printed, f[2])
<1>1. ~IsConst(unit, {}, f[2])
  <2>1. ~IsConst(unit, {}, f[1])
    BY MoreIsConst
  <2> QED BY <2>1 DEF Handled, Typed
<1>2. PICK n, g :
        /\ n \in Entries(unit) /\ g \in Given(n)
        /\ f = <<g[1], g[2].base>> \/ f = <<g[1], g[2].of>>
        /\ f[1] # NoEntity /\ f[2] # NoEntity
  <2> DEFINE given == UNION {Given(n) : n \in Entries(unit)}
  <2>1. /\ f \in {<<g[1], g[2].base>> : g \in given} \cup {<<g[1], g[2].of>> : g \in given}
        /\ f[1] # NoEntity /\ f[2] # NoEntity
    BY DEF Flows
  <2>2. PICK g \in given : f = <<g[1], g[2].base>> \/ f = <<g[1], g[2].of>>
    BY <2>1
  <2>3. PICK n \in Entries(unit) : g \in Given(n)
    BY <2>2
  <2> QED BY <2>1, <2>2, <2>3
<1>3. PICK i \in 1..Len(unit) : n = unit[i]
  BY <1>2 DEF Entries
<1>4. f[1] = g[1] /\ g = <<g[1], g[2]>> /\ (f[2] = g[2].base \/ f[2] = g[2].of)
  BY <1>2 DEF Given
<1>5. Traced(unit, g[2])
  BY <1>2, <1>4 DEF Handled
<1>6. CASE f[2] = g[2].base
  <2>1. f[2] \in Entity /\ ~isConst[f[2]]
    BY <1>2, <1>3, <1>4, <1>6, GivenLost
  <2> QED BY <1>1, <2>1, LostIsNotConst
<1>7. CASE f[2] = g[2].of
  BY <1>1, <1>2, <1>5, <1>7, MemberOfNotConst
<1> QED BY <1>4, <1>6, <1>7

\* Only a variable with an initial value, or a parameter, is printed as const.
LEMMA PrintedHasValue ==
  ASSUME PropagationInv, Handled(unit), NEW n \in Entries(unit),
         n.kind = "var", n.target \in printed, n.place # "param"
  PROVE  n.init # "none"
<1>0. ConstTypeOK /\ WellFormed(unit)
  BY NodeFacts DEF PropagationInv, ConstInv
<1>1. PICK i \in 1..Len(unit) : n = unit[i]
  BY DEF Entries
<1>2. n.place \in {"param", "single", "multi"}
  BY <1>0, <1>1, NodeFacts DEF GoodNode
<1>3. PICK k \in Entries(unit) :
        k.target = n.target /\ (k.kind = "method" \/ (k.kind = "var" /\ rewriteSingleDecl(k)))
  BY DEF PropagationInv, PrintedRight
<1>4. PICK j \in 1..Len(unit) : k = unit[j]
  BY DEF Entries
<1>5. k.kind = n.kind
  BY <1>0, <1>1, <1>3, <1>4 DEF WellFormed, Declaring
<1>6. k = n
  BY <1>1, <1>3, <1>4, <1>5 DEF Handled
<1>7. n.place = "multi" => n.init # "none"
  BY DEF Handled
<1> QED BY <1>2, <1>3, <1>5, <1>6, <1>7 DEF rewriteSingleDecl

\* No constructor, destructor or static method is printed as const.
LEMMA FixedNotPrinted ==
  ASSUME PropagationInv, pass = "done", Handled(unit), NEW n \in Entries(unit),
         n.kind = "method", n.fixed
  PROVE  n.target \notin printed
<1>1. Shared(unit, n) /\ ~n.const
  BY DEF Handled
<1>2. n.target \in Entity
  BY NodeFacts DEF PropagationInv, ConstInv, Entries, Declaring, GoodNode
<1>3. n.target \in Unconst(n)
  BY <1>1, <1>2 DEF Unconst
<1> QED BY <1>3, AtTheEnd

\* What the tool prints (ASTPrintVisitor) is typed as far as const goes, for
\* all that is really written and handed on, in any units that have none of
\* what Handled names: no number of declarations, calls, links or circles of
\* links makes it write a const that does not compile.  A unit in which one of
\* the tool's assertions fails has no output.
THEOREM ConstOutputTyped ==
  ASSUME \A u \in Units : Handled(u)
  PROVE  ConstSpec => []OutputTyped
<1>1. PropagationInv => OutputTyped
  <2> SUFFICES ASSUME PropagationInv, pass = "done" PROVE Typed(unit, printed)
    BY DEF OutputTyped
  <2>1. Handled(unit)
    BY DEF PropagationInv, ConstInv, ConstTypeOK
  <2>2. \A e \in Modified(unit) : ~IsConst(unit, printed, e)
    BY <2>1, WrittenNotConst
  <2>3. \A f \in Flows(unit) : IsConst(unit, printed, f[2]) => IsConst(unit, printed, f[1])
    BY <2>1, GivenNotConst
  <2>4. \A n \in Entries(unit) : (n.kind = "var" /\ n.target \in printed /\ n.place # "param")
                                  => n.init # "none"
    BY <2>1, PrintedHasValue
  <2>5. \A n \in Entries(unit) : n.kind = "method" /\ n.fixed => n.target \notin printed
    BY <2>1, FixedNotPrinted
  <2> QED BY <2>2, <2>3, <2>4, <2>5 DEF Typed
<1> QED BY <1>1, PropagationInvariance, PTL

=============================================================================
