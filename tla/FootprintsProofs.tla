-------------------------- MODULE FootprintsProofs --------------------------
(***************************************************************************)
(* The visitor's footprints are sound, for every set of variables and of   *)
(* statements it handles: the table knows what each pointer and reference  *)
(* holds, and a statement touches nothing that its instruction lacks.      *)
(***************************************************************************)
EXTENDS Footprints, FiniteSetTheorems, WellFoundedInduction, TLAPS

LEMMA LeastOf ==
  ASSUME NEW S \in SUBSET Nat, NEW x \in S
  PROVE  \E n \in S : \A m \in S : n <= m
<1>1. PICK n \in S : \A m \in S : ~(<<m, n>> \in OpToRel(<, Nat))
  BY NatLessThanWellFounded, WFMin
<1>2. \A m \in S : ~(m < n)
  BY <1>1 DEF OpToRel
<1> QED BY <1>2

-----------------------------------------------------------------------------
(* Closure: the rounds reach a closed set, and the least one.              *)

Rounds(more, v, N, f) ==
  f = [n \in 0..N |-> IF n = 0 THEN {v} ELSE Round(more, f[n - 1])]

LEMMA ClosureDef ==
  ASSUME NEW more, NEW v
  PROVE  Closure(more, v) =
           (CHOOSE f : Rounds(more, v, Cardinality(Var), f))[Cardinality(Var)]
BY DEF Closure, Rounds

LEMMA RoundsExist ==
  ASSUME NEW more, NEW v, NEW N \in Nat
  PROVE  \E f : Rounds(more, v, N, f)
<1> SUFFICES ASSUME ~\E f : Rounds(more, v, N, f) PROVE FALSE
  OBVIOUS
<1> DEFINE bad == {n \in Nat : ~\E f : Rounds(more, v, n, f)}
<1>1. PICK m \in bad : \A n \in bad : m <= n
  <2>1. bad \in SUBSET Nat /\ N \in bad
    OBVIOUS
  <2> QED BY <2>1, LeastOf
<1>2. CASE m = 0
  <2> DEFINE g == [n \in 0..0 |-> {v}]
  <2>1. Rounds(more, v, 0, g)
    BY DEF Rounds
  <2> QED BY <2>1, <1>1, <1>2
<1>3. CASE m # 0
  <2>1. m \in Nat /\ m - 1 \in Nat /\ m - 1 \notin bad
    BY <1>1, <1>3
  <2>2. PICK f : Rounds(more, v, m - 1, f)
    BY <2>1
  <2> DEFINE last == Round(more, f[m - 1])
             g == [n \in 0..m |-> IF n = m THEN last ELSE f[n]]
  <2>3. ASSUME NEW n \in 0..m
        PROVE  g[n] = IF n = 0 THEN {v} ELSE Round(more, g[n - 1])
    <3>1. CASE n = m
      <4>1. m - 1 \in 0..m /\ m - 1 # m
        BY <2>1
      <4>2. g[m - 1] = f[m - 1]
        BY <4>1
      <4> QED BY <3>1, <4>2, <1>3
    <3>2. CASE n # m
      <4>1. n \in 0..(m - 1) /\ (n # 0 => n - 1 \in 0..m /\ n - 1 # m)
        BY <3>2, <2>1
      <4>2. g[n] = f[n] /\ (n # 0 => g[n - 1] = f[n - 1])
        BY <4>1, <3>2
      <4>3. f[n] = IF n = 0 THEN {v} ELSE Round(more, f[n - 1])
        BY <4>1, <2>2 DEF Rounds
      <4> QED BY <4>2, <4>3
    <3> QED BY <3>1, <3>2
  <2>4. Rounds(more, v, m, g)
    BY <2>3 DEF Rounds
  <2> QED BY <2>4, <1>1
<1> QED BY <1>2, <1>3

Closed(more, S) == \A a \in S : more[a] \subseteq S

LEMMA ClosureFacts ==
  ASSUME NEW more \in [Var -> SUBSET Var], NEW v \in Var
  PROVE  /\ v \in Closure(more, v)
         /\ Closure(more, v) \subseteq Var
         /\ Closed(more, Closure(more, v))
         /\ \A S : v \in S /\ Closed(more, S) => Closure(more, v) \subseteq S
<1> DEFINE N == Cardinality(Var)
<1>1. N \in Nat /\ IsFiniteSet(Var)
  BY FootprintAssumption, FS_CardinalityType
<1> HIDE DEF N
<1>2. PICK f : Rounds(more, v, N, f) /\ Closure(more, v) = f[N]
  <2> DEFINE g == CHOOSE f : Rounds(more, v, N, f)
  <2>1. Rounds(more, v, N, g)
    BY <1>1, RoundsExist
  <2>2. Closure(more, v) = g[N]
    BY ClosureDef DEF N
  <2> HIDE DEF g
  <2> QED BY <2>1, <2>2
<1>3. f[0] = {v} /\ \A n \in 1..N : f[n] = Round(more, f[n - 1])
  <2>1. ASSUME NEW n \in 0..N PROVE f[n] = IF n = 0 THEN {v} ELSE Round(more, f[n - 1])
    BY <1>2 DEF Rounds
  <2>2. 0 \in 0..N /\ \A n \in 1..N : n \in 0..N /\ n # 0
    BY <1>1
  <2> QED BY <2>1, <2>2
<1>4. ASSUME NEW S, v \in S, Closed(more, S)
      PROVE  \A n \in 0..N : v \in f[n] /\ f[n] \subseteq S
  <2> SUFFICES ASSUME ~\A n \in 0..N : v \in f[n] /\ f[n] \subseteq S PROVE FALSE
    OBVIOUS
  <2> DEFINE bad == {n \in 0..N : ~(v \in f[n] /\ f[n] \subseteq S)}
  <2>1. PICK m \in bad : \A n \in bad : m <= n
    <3>1. bad \in SUBSET Nat /\ \E n : n \in bad
      BY <1>1
    <3> QED BY <3>1, LeastOf
  <2>2. m # 0
    BY <1>3, <1>4
  <2>3. m \in 1..N /\ m - 1 \in 0..N /\ m - 1 \notin bad
    BY <2>1, <2>2, <1>1
  <2>4. v \in f[m - 1] /\ f[m - 1] \subseteq S
    BY <2>3
  <2>5. f[m] = Round(more, f[m - 1])
    BY <2>3, <1>3
  <2> QED BY <2>1, <2>4, <2>5, <1>4 DEF Round, Closed
<1>5. Closed(more, Var)
  BY DEF Closed
<1>6. \A n \in 0..N : v \in f[n] /\ f[n] \subseteq Var
  BY <1>4, <1>5
<1>7. \A n \in 0..N : Closed(more, f[n]) \/ Cardinality(f[n]) >= n + 1
  <2> SUFFICES ASSUME ~\A n \in 0..N : Closed(more, f[n]) \/ Cardinality(f[n]) >= n + 1
               PROVE  FALSE
    OBVIOUS
  <2> DEFINE bad == {n \in 0..N : ~(Closed(more, f[n]) \/ Cardinality(f[n]) >= n + 1)}
  <2>1. PICK m \in bad : \A n \in bad : m <= n
    <3>1. bad \in SUBSET Nat /\ \E n : n \in bad
      BY <1>1
    <3> QED BY <3>1, LeastOf
  <2>2. m # 0
    <3>1. Cardinality(f[0]) = 1
      BY <1>3, FS_Singleton
    <3> QED BY <3>1, <2>1
  <2>3. m \in 1..N /\ m - 1 \in 0..N /\ m - 1 \notin bad /\ m \in Nat
    BY <2>1, <2>2, <1>1
  <2>4. Closed(more, f[m - 1]) \/ Cardinality(f[m - 1]) >= m
    BY <2>3
  <2>5. f[m] = Round(more, f[m - 1]) /\ f[m - 1] \subseteq f[m] /\ f[m] \subseteq Var
    BY <2>3, <1>3, <1>6 DEF Round
  <2>6. CASE Closed(more, f[m - 1])
    <3>1. f[m] = f[m - 1]
      BY <2>5, <2>6 DEF Round, Closed
    <3> QED BY <3>1, <2>6, <2>1
  <2>7. CASE ~Closed(more, f[m - 1])
    <3>1. f[m] # f[m - 1]
      BY <2>5, <2>7 DEF Round, Closed
    <3>2. IsFiniteSet(f[m])
      BY <2>5, <1>1, FS_Subset
    <3>3. Cardinality(f[m - 1]) <= Cardinality(f[m]) /\ Cardinality(f[m - 1]) # Cardinality(f[m])
      BY <3>1, <3>2, <2>5, FS_Subset
    <3>4. Cardinality(f[m - 1]) \in Nat /\ Cardinality(f[m]) \in Nat
      BY <3>2, <2>5, FS_Subset, FS_CardinalityType
    <3>5. Cardinality(f[m]) >= m + 1
      BY <3>3, <3>4, <2>4, <2>7, <2>3
    <3> QED BY <3>5, <2>1
  <2> QED BY <2>6, <2>7
<1>8. Closed(more, f[N])
  <2>1. f[N] \in SUBSET Var /\ N \in 0..N
    BY <1>1, <1>6
  <2>2. Cardinality(f[N]) <= N /\ Cardinality(f[N]) \in Nat
    BY <2>1, <1>1, FS_Subset, FS_CardinalityType DEF N
  <2> QED BY <2>1, <2>2, <1>7, <1>1
<1>9. N \in 0..N
  BY <1>1
<1> QED BY <1>2, <1>4, <1>6, <1>8, <1>9

-----------------------------------------------------------------------------
(* Pairs of aliases: no pair leaves the table alone, one is linked.        *)

LinkedBy(how, T, q, n, f) ==
  f = [k \in 0..n |-> IF k = 0 THEN T ELSE Link(how, f[k - 1], q[k][1], q[k][2])]

LEMMA LinkedDef ==
  ASSUME NEW how, NEW T, NEW q, NEW n
  PROVE  Linked(how, T, q, n) = (CHOOSE f : LinkedBy(how, T, q, n, f))[n]
BY DEF Linked, LinkedBy

LEMMA LinkedNone ==
  ASSUME NEW how, NEW T, NEW q
  PROVE  Linked(how, T, q, 0) = T
<1>1. PICK f : f = CHOOSE g : LinkedBy(how, T, q, 0, g)
  OBVIOUS
<1>2. LinkedBy(how, T, q, 0, [k \in 0..0 |-> T])
  BY DEF LinkedBy
<1>3. LinkedBy(how, T, q, 0, f)
  BY <1>1, <1>2
<1>4. f[0] = T
  BY <1>3 DEF LinkedBy
<1> QED BY <1>1, <1>4, LinkedDef

LEMMA LinkedOne ==
  ASSUME NEW how, NEW T, NEW q
  PROVE  Linked(how, T, q, 1) = Link(how, T, q[1][1], q[1][2])
<1>1. PICK f : f = CHOOSE g : LinkedBy(how, T, q, 1, g)
  OBVIOUS
<1> DEFINE one == Link(how, T, q[1][1], q[1][2])
           h == [k \in 0..1 |-> IF k = 0 THEN T ELSE one]
<1>2. LinkedBy(how, T, q, 1, h)
  <2>1. ASSUME NEW k \in 0..1
        PROVE  h[k] = IF k = 0 THEN T ELSE Link(how, h[k - 1], q[k][1], q[k][2])
    <3>1. CASE k = 0
      BY <3>1
    <3>2. CASE k # 0
      <4>1. k = 1 /\ k - 1 = 0 /\ h[0] = T
        BY <3>2
      <4> QED BY <4>1
    <3> QED BY <3>1, <3>2
  <2> QED BY <2>1 DEF LinkedBy
<1>3. LinkedBy(how, T, q, 1, f)
  BY <1>1, <1>2
<1>4. ASSUME NEW k \in 0..1
      PROVE  f[k] = IF k = 0 THEN T ELSE Link(how, f[k - 1], q[k][1], q[k][2])
  BY <1>3 DEF LinkedBy
<1>5. f[0] = T /\ f[1] = Link(how, f[0], q[1][1], q[1][2])
  <2>1. 0 \in 0..1 /\ 1 \in 0..1 /\ 1 - 1 = 0 /\ 1 # 0
    OBVIOUS
  <2> QED BY <1>4, <2>1
<1> QED BY <1>1, <1>5, LinkedDef

LEMMA PairNone ==
  ASSUME NEW how, NEW T, NEW left, NEW right, left = {} \/ right = {}
  PROVE  ForEachPair(how, T, left, right) = {T}
<1>1. left \X right = {} /\ Cardinality(left \X right) = 0
  BY FS_EmptySet
<1>2. \E q : q \in Orders(left, right)
  <2> DEFINE q == [k \in 1..0 |-> T]
  <2>1. \A k \in 1..0 : FALSE
    OBVIOUS
  <2>2. q \in [1..0 -> left \X right]
    BY <2>1
  <2>3. \A pair \in left \X right : \E k \in 1..0 : q[k] = pair
    BY <1>1
  <2>4. q \in Orders(left, right)
    BY <1>1, <2>1, <2>2, <2>3 DEF Orders
  <2> QED BY <2>4
<1> QED BY <1>1, <1>2, LinkedNone DEF ForEachPair

LEMMA PairOne ==
  ASSUME NEW how, NEW T, NEW l, NEW r
  PROVE  ForEachPair(how, T, {l}, {r}) = {Link(how, T, l, r)}
<1>1. {l} \X {r} = {<<l, r>>} /\ Cardinality({l} \X {r}) = 1
  <2>1. {l} \X {r} = {<<l, r>>}
    OBVIOUS
  <2> QED BY <2>1, FS_Singleton
<1>2. \E q : q \in Orders({l}, {r})
  <2> DEFINE q == [k \in 1..1 |-> <<l, r>>]
  <2>1. q \in [1..1 -> {l} \X {r}] /\ q[1] = <<l, r>>
    BY <1>1
  <2>2. \A pair \in {l} \X {r} : \E k \in 1..1 : q[k] = pair
    BY <1>1, <2>1
  <2>3. \A i, j \in 1..1 : ~(i < j)
    OBVIOUS
  <2>4. q \in Orders({l}, {r})
    BY <1>1, <2>1, <2>2, <2>3 DEF Orders
  <2> QED BY <2>4
<1>3. ASSUME NEW q \in Orders({l}, {r})
      PROVE  Linked(how, T, q, 1) = Link(how, T, l, r)
  <2>1. q[1] = <<l, r>>
    <3>1. q \in [1..1 -> {<<l, r>>}]
      BY <1>1 DEF Orders
    <3> QED BY <3>1
  <2> QED BY <2>1, LinkedOne
<1> QED BY <1>1, <1>2, <1>3 DEF ForEachPair

-----------------------------------------------------------------------------
(* The sets that an instruction is made of.                                *)

LEMMA AliasTypes ==
  ASSUME NEW v \in Var
  PROVE  /\ Level[v] \in 0..2
         /\ getAliasType(v) = "Pointer" <=> Level[v] > 0
         /\ getAliasType(v) = "Reference" <=> v \in Ref
         /\ v \in Ref => Level[v] = 0
<1>1. Level[v] \in 0..2 /\ (v \in Ref => Level[v] = 0)
  BY FootprintAssumption
<1> QED BY <1>1 DEF getAliasType

LEMMA TableFacts ==
  ASSUME NEW T \in Table
  PROVE  /\ Referred(T) \in [Var -> SUBSET Var] /\ Names(T) \in [Var -> SUBSET Var]
         /\ \A v \in Var : /\ T.aliased[v] \subseteq Var /\ T.references[v] \subseteq Var
                           /\ Referred(T)[v] = IF v \in Ref THEN T.aliased[v] ELSE {}
                           /\ Names(T)[v] = T.references[v] \cup Referred(T)[v]
<1>1. T.aliased \in [Var -> SUBSET Var] /\ T.references \in [Var -> SUBSET Var]
  BY DEF Table
<1>2. \A v \in Var : Referred(T)[v] = IF v \in Ref THEN T.aliased[v] ELSE {}
  BY AliasTypes DEF Referred
<1>3. Referred(T) \in [Var -> SUBSET Var]
  BY <1>1, <1>2 DEF Referred
<1>4. \A v \in Var : Names(T)[v] = T.references[v] \cup Referred(T)[v]
  BY DEF Names
<1>5. Names(T) \in [Var -> SUBSET Var]
  BY <1>1, <1>3, <1>4 DEF Names
<1> QED BY <1>1, <1>2, <1>3, <1>4, <1>5

Deps(T, S) == UNION {getAliases(T, v) : v \in S}

LEMMA DepsFacts ==
  ASSUME NEW T \in Table, NEW S \in SUBSET Var
  PROVE  S \subseteq Deps(T, S) /\ Deps(T, S) \subseteq Var /\ Closed(Names(T), Deps(T, S))
<1>1. \A v \in Var : /\ v \in getAliases(T, v) /\ getAliases(T, v) \subseteq Var
                     /\ Closed(Names(T), getAliases(T, v))
  BY TableFacts, ClosureFacts DEF getAliases
<1>2. Closed(Names(T), Deps(T, S))
  <2> SUFFICES ASSUME NEW a \in Deps(T, S) PROVE Names(T)[a] \subseteq Deps(T, S)
    BY DEF Closed
  <2>1. PICK v \in S : a \in getAliases(T, v)
    BY DEF Deps
  <2>2. Names(T)[a] \subseteq getAliases(T, v)
    BY <1>1, <2>1 DEF Closed
  <2> QED BY <2>2 DEF Deps
<1> QED BY <1>1, <1>2 DEF Deps

LEMMA DependenciesDef ==
  ASSUME NEW T, NEW R, NEW W
  PROVE  /\ Dependencies(T, R, W).reads = Deps(T, R)
         /\ Dependencies(T, R, W).writes = Deps(T, W)
BY DEF Dependencies, Deps

\* A closed set with a reference has what the reference leads to.
LEMMA ReferredIn ==
  ASSUME NEW T \in Table, NEW X \in SUBSET Var, Closed(Names(T), X), NEW r \in X
  PROVE  Closure(Referred(T), r) \subseteq X
<1>1. Closed(Referred(T), X)
  BY TableFacts DEF Closed
<1> QED BY <1>1, TableFacts, ClosureFacts

OnlyInts(T) == \A v \in Var : Level[v] > 0 => T.references[v] = {}

LEMMA ModifiedSelf ==
  ASSUME NEW T \in Table, OnlyInts(T), NEW v \in Var, Level[v] > 0
  PROVE  getModifiedVariables(T, v, 0) = {v}
<1>1. Closed(Referred(T), {v})
  <2>1. v \notin Ref
    BY AliasTypes
  <2> QED BY <2>1, TableFacts DEF Closed
<1>2. Closure(Referred(T), v) = {v}
  <2>1. Closure(Referred(T), v) \subseteq {v} /\ v \in Closure(Referred(T), v)
    BY <1>1, TableFacts, ClosureFacts
  <2> QED BY <2>1
<1>3. getModifiedVariables(T, v, 0) = {v} \cup UNION {T.references[a] : a \in {v}}
  BY <1>2 DEF getModifiedVariables
<1> QED BY <1>3 DEF OnlyInts

LEMMA ModifiedZero ==
  ASSUME NEW T \in Table, NEW v \in Var
  PROVE  /\ Closure(Referred(T), v) \subseteq getModifiedVariables(T, v, 0)
         /\ v \in getModifiedVariables(T, v, 0)
<1>1. v \in Closure(Referred(T), v)
  BY TableFacts, ClosureFacts
<1> QED BY <1>1 DEF getModifiedVariables

LEMMA ModifiedOne ==
  ASSUME NEW T, NEW v \in Var, Level[v] > 0
  PROVE  getModifiedVariables(T, v, 1) = T.aliased[v]
<1>1. Targets(T, {v}) = T.aliased[v]
  BY AliasTypes DEF Targets, Aliased
<1> QED BY <1>1 DEF getModifiedVariables

LEMMA ModifiedTwo ==
  ASSUME NEW T \in Table, NEW v \in Var, Level[v] > 0, NEW a \in T.aliased[v], Level[a] > 0
  PROVE  T.aliased[a] \subseteq getModifiedVariables(T, v, 2)
<1>1. Targets(T, {v}) = T.aliased[v] /\ a \in Var
  BY AliasTypes, TableFacts DEF Targets, Aliased
<1>2. getModifiedVariables(T, v, 2) = Targets(T, T.aliased[v])
  BY <1>1 DEF getModifiedVariables
<1>3. getAliasType(a) = "Pointer"
  BY <1>1, AliasTypes
<1> QED BY <1>2, <1>3 DEF Targets, Aliased

LEMMA AccessedFacts ==
  ASSUME NEW T, NEW v
  PROVE  /\ \A d \in Int : v \in getPointerAccessedVariables(T, v, d)
         /\ \A d \in Int : d > 0 => T.aliased[v] \subseteq getPointerAccessedVariables(T, v, d)
<1>1. Aliased(T, {v}) = T.aliased[v]
  BY DEF Aliased
<1> QED BY <1>1 DEF getPointerAccessedVariables

LEMMA ModifiedType ==
  ASSUME NEW T \in Table, NEW v \in Var, NEW d
  PROVE  getModifiedVariables(T, v, d) \subseteq Var
<1>1. \A S \in SUBSET Var : Targets(T, S) \subseteq Var
  BY TableFacts DEF Targets, Aliased
<1>2. Closure(Referred(T), v) \subseteq Var
  BY TableFacts, ClosureFacts
<1>3. UNION {T.references[a] : a \in Closure(Referred(T), v)} \subseteq Var
  BY <1>2, TableFacts
<1>4. Targets(T, {v}) \subseteq Var /\ Targets(T, Targets(T, {v})) \subseteq Var
  BY <1>1
<1> QED BY <1>2, <1>3, <1>4 DEF getModifiedVariables

LEMMA AccessedType ==
  ASSUME NEW T \in Table, NEW v \in Var, NEW d
  PROVE  getPointerAccessedVariables(T, v, d) \subseteq Var
<1>1. \A S \in SUBSET Var : Aliased(T, S) \subseteq Var
  BY TableFacts DEF Aliased
<1>2. Aliased(T, {v}) \subseteq Var /\ Aliased(T, Aliased(T, {v})) \subseteq Var
  BY <1>1
<1> QED BY <1>2 DEF getPointerAccessedVariables

-----------------------------------------------------------------------------
(* What the program touches is found by following the table.               *)

\* The references of T lead to what they are bound to.
Known(T) == \A r \in Ref : pointsTo[r] \in Var => pointsTo[r] \in Closure(Referred(T), r)

\* The pointers that are followed from v hold what T says they may.
Followed(T, v, d) ==
  /\ d > 0 /\ pointsTo[v] \in Var => pointsTo[v] \in T.aliased[v]
  /\ d > 1 /\ pointsTo[v] \in Var =>
       /\ Level[pointsTo[v]] > 0
       /\ pointsTo[pointsTo[v]] \in Var => pointsTo[pointsTo[v]] \in T.aliased[pointsTo[v]]

LEMMA ObjectFacts ==
  ASSUME NEW v \in Var
  PROVE  /\ ObjectAt(v, 0) = IF v \in Ref THEN pointsTo[v] ELSE v
         /\ Level[v] > 0 => ObjectAt(v, 1) = pointsTo[v] /\ ObjectAt(v, 2) = Holds(pointsTo[v])
<1>1. Level[v] > 0 => v \notin Ref
  BY AliasTypes
<1> QED BY <1>1 DEF ObjectAt, Holds

LEMMA PathFacts ==
  ASSUME NEW e, e.v \in Var, e.d \in 0..2, e.d <= Level[e.v]
  PROVE  /\ e.d = 0 => Path(e) \subseteq {e.v}
         /\ e.d = 1 => Path(e) = {e.v}
         /\ e.d = 2 => Path(e) = {e.v, pointsTo[e.v]}
<1>1. CASE e.d = 0
  <2>1. 0..(0 - 1) = {}
    OBVIOUS
  <2> QED BY <1>1, <2>1 DEF Path
<1>2. CASE e.d = 1
  <2>1. 0..(1 - 1) = {0} /\ Level[e.v] > 0 /\ e.v \notin Ref
    BY <1>2, AliasTypes
  <2> QED BY <1>2, <2>1, ObjectFacts DEF Path
<1>3. CASE e.d = 2
  <2>1. 0..(2 - 1) = {0, 1} /\ Level[e.v] > 0 /\ e.v \notin Ref
    BY <1>3, AliasTypes
  <2> QED BY <1>3, <2>1, ObjectFacts DEF Path
<1> QED BY <1>1, <1>2, <1>3

\* What v itself stands for is in every closed set with v.
LEMMA NamedCovered ==
  ASSUME FootprintTypeOK, NEW T \in Table, Known(T),
         NEW X \in SUBSET Var, Closed(Names(T), X), NEW v \in X
  PROVE  ObjectAt(v, 0) \in Var => ObjectAt(v, 0) \in X
<1>1. CASE v \in Ref
  <2>1. Closure(Referred(T), v) \subseteq X
    BY ReferredIn
  <2> QED BY <1>1, <2>1, ObjectFacts DEF Known
<1>2. CASE v \notin Ref
  BY <1>2, ObjectFacts
<1> QED BY <1>1, <1>2

\* The object of an expression is among those the visitor finds for it.
LEMMA ObjectModified ==
  ASSUME FootprintTypeOK, NEW T \in Table, Known(T), NEW v \in Var, NEW d \in 0..2,
         d <= Level[v], Followed(T, v, d)
  PROVE  ObjectAt(v, d) \in Var => ObjectAt(v, d) \in getModifiedVariables(T, v, d)
<1>0. Level[v] \in 0..2 /\ (v \in Ref => Level[v] = 0)
  BY AliasTypes
<1>1. CASE d = 0
  <2>1. CASE v \in Ref
    BY <1>1, <2>1, ObjectFacts, ModifiedZero DEF Known
  <2>2. CASE v \notin Ref
    BY <1>1, <2>2, ObjectFacts, ModifiedZero
  <2> QED BY <2>1, <2>2
<1>2. CASE d = 1
  <2>1. Level[v] > 0 /\ d > 0
    BY <1>2, <1>0
  <2> QED BY <1>2, <2>1, ObjectFacts, ModifiedOne DEF Followed
<1>3. CASE d = 2
  <2>1. Level[v] > 0 /\ d > 0 /\ d > 1
    BY <1>3, <1>0
  <2>2. ObjectAt(v, d) = Holds(pointsTo[v])
    BY <1>3, <2>1, ObjectFacts
  <2>3. CASE pointsTo[v] \in Var
    <3>1. pointsTo[v] \in T.aliased[v] /\ Level[pointsTo[v]] > 0
      BY <2>1, <2>3 DEF Followed
    <3>2. T.aliased[pointsTo[v]] \subseteq getModifiedVariables(T, v, 2)
      BY <3>1, <2>1, ModifiedTwo
    <3> QED BY <3>2, <2>1, <2>2, <2>3, <1>3 DEF Followed, Holds
  <2>4. CASE pointsTo[v] \notin Var
    BY <2>2, <2>4 DEF Holds
  <2> QED BY <2>3, <2>4
<1> QED BY <1>1, <1>2, <1>3

\* An expression that is read touches what handleExpr says.
LEMMA ReadCovered ==
  ASSUME FootprintTypeOK, NEW T \in Table, Known(T), NEW X \in SUBSET Var, Closed(Names(T), X),
         NEW e, e.v \in Var, e.d \in 0..2, e.d <= Level[e.v], Followed(T, e.v, e.d),
         handleExpr(T, e) \subseteq X
  PROVE  (Path(e) \cup {Object(e)}) \cap Var \subseteq X
<1>0. Object(e) = ObjectAt(e.v, e.d)
  BY DEF Object
<1>1. CASE e.d = 0
  <2>1. e.v \in X
    BY <1>1 DEF handleExpr
  <2>2. Path(e) \subseteq {e.v}
    BY <1>1, PathFacts
  <2> QED BY <1>0, <1>1, <2>1, <2>2, NamedCovered
<1>2. CASE e.d \in {1, 2}
  <2>1. getModifiedVariables(T, e.v, e.d) \subseteq X
    BY <1>2 DEF handleExpr
  <2>2. getPointerAccessedVariables(T, e.v, e.d - 1) \subseteq X /\ e.d - 1 \in Int
    BY <1>2 DEF handleExpr
  <2>3. e.v \in X
    BY <2>2, AccessedFacts
  <2>4. Object(e) \in Var => Object(e) \in X
    BY <1>0, <2>1, ObjectModified
  <2>5. CASE e.d = 1
    BY <2>3, <2>4, <2>5, PathFacts
  <2>6. CASE e.d = 2
    <3>1. T.aliased[e.v] \subseteq X
      BY <2>6, <2>2, AccessedFacts
    <3>2. pointsTo[e.v] \in Var => pointsTo[e.v] \in X
      BY <3>1, <2>6 DEF Followed
    <3> QED BY <3>2, <2>3, <2>4, <2>6, PathFacts
  <2> QED BY <1>2, <2>5, <2>6
<1> QED BY <1>1, <1>2

OneArgReads(a) ==
  (IF a.d = -1 THEN {} ELSE Path(a) \cup {Object(a)})
    \cup (IF a.mode \in {"ptr", "ptrRO"} THEN {Value(a)} ELSE {})

LEMMA ArgReadsDef ==
  ASSUME NEW args
  PROVE  ArgReads(args) = UNION {OneArgReads(args[k]) : k \in 1..Len(args)}
BY DEF ArgReads, OneArgReads

\* An operand, and an argument of a call.
LEMMA OperandCovered ==
  ASSUME FootprintTypeOK, NEW T \in Table, Known(T), NEW X \in SUBSET Var, Closed(Names(T), X),
         NEW a \in Argument, HandledOperand(a), Followed(T, a.v, a.d), handleExpr(T, a) \subseteq X
  PROVE  OneArgReads(a) \cap Var \subseteq X
<1>1. a.v \in Var /\ a.d \in -1..2 /\ a.mode = "value" /\ a.d <= Level[a.v]
  BY DEF Argument, HandledOperand
<1>2. CASE a.d = -1
  BY <1>1, <1>2 DEF OneArgReads
<1>3. CASE a.d # -1
  <2>1. a.d \in 0..2
    BY <1>1, <1>3
  <2>2. (Path(a) \cup {Object(a)}) \cap Var \subseteq X
    BY <1>1, <2>1, ReadCovered
  <2>3. OneArgReads(a) = Path(a) \cup {Object(a)}
    BY <1>1, <1>3 DEF OneArgReads
  <2> QED BY <2>2, <2>3
<1> QED BY <1>2, <1>3

LEMMA ArgumentCovered ==
  ASSUME FootprintTypeOK, NEW T \in Table, Known(T), NEW X \in SUBSET Var, Closed(Names(T), X),
         NEW a \in Argument, HandledArgument(a), Followed(T, a.v, a.d),
         (IF a.mode = "value" THEN handleExpr(T, a) ELSE {a.v}) \subseteq X
  PROVE  OneArgReads(a) \cap Var \subseteq X
<1>1. a.v \in Var /\ a.d \in -1..2 /\ a.d <= Level[a.v] /\ a.mode \in Mode
  BY DEF Argument, HandledArgument
<1>2. CASE a.mode = "value"
  <2>1. HandledOperand(a)
    BY <1>1, <1>2 DEF HandledOperand
  <2> QED BY <1>2, <2>1, OperandCovered
<1>3. CASE a.mode # "value"
  <2>1. a.v \in X
    BY <1>3
  <2>2. a.d = -1 \/ a.d = 0
    BY <1>1, <1>3 DEF HandledArgument, Mode
  <2>3. a.mode \in {"ptr", "ptrRO"} => a.d = -1 /\ Value(a) = a.v
    BY DEF HandledArgument, Value
  <2>4. a.d = 0 => (Path(a) \cup {Object(a)}) \cap Var \subseteq X
    <3> HAVE a.d = 0
    <3>1. Path(a) \subseteq {a.v} /\ Object(a) = ObjectAt(a.v, 0)
      BY <1>1, PathFacts DEF Object
    <3> QED BY <3>1, <2>1, NamedCovered
  <2>5. CASE a.d = -1
    BY <2>5, <2>1, <2>3 DEF OneArgReads
  <2>6. CASE a.d = 0
    <3>1. OneArgReads(a) = Path(a) \cup {Object(a)}
      BY <2>6, <2>3 DEF OneArgReads
    <3> QED BY <3>1, <2>4, <2>6
  <2> QED BY <2>2, <2>5, <2>6
<1> QED BY <1>2, <1>3

OneArgWrites(a) ==
  CASE a.mode = "ref" -> {Object(a)}
    [] a.mode = "ptr" -> {Value(a)}
    [] OTHER          -> {}

LEMMA CalleeWritesDef ==
  ASSUME NEW args
  PROVE  CalleeWrites(args) = UNION {OneArgWrites(args[k]) : k \in 1..Len(args)}
BY DEF CalleeWrites, OneArgWrites

\* What a callee writes.
LEMMA WrittenCovered ==
  ASSUME FootprintTypeOK, NEW T \in Table, Known(T), NEW X \in SUBSET Var, Closed(Names(T), X),
         NEW a \in Argument, HandledArgument(a), a.mode \in {"ref", "ptr"} => a.v \in X
  PROVE  OneArgWrites(a) \cap Var \subseteq X
<1>1. CASE a.mode = "ref"
  <2>1. a.v \in X /\ Object(a) = ObjectAt(a.v, 0)
    BY <1>1 DEF HandledArgument, Object
  <2> QED BY <1>1, <2>1, NamedCovered DEF OneArgWrites
<1>2. CASE a.mode = "ptr"
  BY <1>2 DEF HandledArgument, Value, OneArgWrites
<1>3. CASE a.mode \notin {"ref", "ptr"}
  BY <1>3 DEF OneArgWrites
<1> QED BY <1>1, <1>2, <1>3

-----------------------------------------------------------------------------
(* Assignments to pointers: what becomes of the table.                     *)

\* Pointers to pointers have one target at most, a pointer to an int.
Single(T) == \A v \in Var : Level[v] = 2 => \A a, b \in T.aliased[v] : a = b /\ Level[a] = 1

LEMMA AddFacts ==
  ASSUME NEW T \in Table, NEW l \in Var, NEW r \in Var
  PROVE  \E U \in Table :
           /\ U = Link("add", T, l, r) /\ U.references = T.references
           /\ U.aliased[l] = T.aliased[l] \cup {r}
           /\ \A v \in Var : v # l => U.aliased[v] = T.aliased[v]
<1>0. /\ T.aliased \in [Var -> SUBSET Var] /\ T.references \in [Var -> SUBSET Var]
      /\ T = [aliased |-> T.aliased, references |-> T.references]
  BY DEF Table
<1> DEFINE U == [aliased |-> [T.aliased EXCEPT ![l] = @ \cup {r}], references |-> T.references]
<1>1. Link("add", T, l, r) = U
  BY <1>0 DEF Link, addAliasPtr
<1>2. U \in Table
  BY <1>0 DEF Table
<1>3. /\ U.references = T.references /\ U.aliased[l] = T.aliased[l] \cup {r}
      /\ \A v \in Var : v # l => U.aliased[v] = T.aliased[v]
  BY <1>0
<1> HIDE DEF U
<1> QED BY <1>1, <1>2, <1>3

LEMMA FuseFacts ==
  ASSUME NEW T \in Table, NEW l \in Var, NEW r \in Var
  PROVE  \E U \in Table :
           /\ U = Link("fuse", T, l, r) /\ U.references = T.references
           /\ U.aliased[l] = T.aliased[l] \cup T.aliased[r]
           /\ \A v \in Var : v # l => U.aliased[v] = T.aliased[v]
<1>0. /\ T.aliased \in [Var -> SUBSET Var] /\ T.references \in [Var -> SUBSET Var]
      /\ T = [aliased |-> T.aliased, references |-> T.references]
  BY DEF Table
<1> DEFINE U == [aliased |-> [T.aliased EXCEPT ![l] = @ \cup T.aliased[r]], references |-> T.references]
<1>1. Link("fuse", T, l, r) = U
  BY <1>0 DEF Link, fuseAliased
<1>2. U \in Table
  BY <1>0 DEF Table
<1>3. /\ U.references = T.references /\ U.aliased[l] = T.aliased[l] \cup T.aliased[r]
      /\ \A v \in Var : v # l => U.aliased[v] = T.aliased[v]
  BY <1>0
<1> HIDE DEF U
<1> QED BY <1>1, <1>2, <1>3

LEMMA ReplaceFacts ==
  ASSUME NEW T \in Table, NEW l \in Var, NEW r \in Var
  PROVE  \E U \in Table :
           /\ U = Link("replace", T, l, r) /\ U.references = T.references
           /\ U.aliased[l] = T.aliased[r]
           /\ \A v \in Var : v # l => U.aliased[v] = T.aliased[v]
<1>0. /\ T.aliased \in [Var -> SUBSET Var] /\ T.references \in [Var -> SUBSET Var]
      /\ T = [aliased |-> T.aliased, references |-> T.references]
  BY DEF Table
<1> DEFINE U == [aliased |-> [T.aliased EXCEPT ![l] = T.aliased[r]], references |-> T.references]
<1>1. Link("replace", T, l, r) = U
  BY <1>0 DEF Link, replaceAliasedToElement
<1>2. U \in Table
  BY <1>0 DEF Table
<1>3. /\ U.references = T.references /\ U.aliased[l] = T.aliased[r]
      /\ \A v \in Var : v # l => U.aliased[v] = T.aliased[v]
  BY <1>0
<1> HIDE DEF U
<1> QED BY <1>1, <1>2, <1>3

LEMMA RemoveFacts ==
  ASSUME NEW T \in Table, NEW l \in Var
  PROVE  /\ removeDependencyPtr(T, l) \in Table
         /\ removeDependencyPtr(T, l).references = T.references
         /\ removeDependencyPtr(T, l).aliased[l] = {}
         /\ \A v \in Var \ {l} : removeDependencyPtr(T, l).aliased[v] = T.aliased[v]
<1>0. /\ T.aliased \in [Var -> SUBSET Var] /\ T.references \in [Var -> SUBSET Var]
      /\ T = [aliased |-> T.aliased, references |-> T.references]
  BY DEF Table
<1>1. removeDependencyPtr(T, l) = [aliased |-> [T.aliased EXCEPT ![l] = {}],
                                   references |-> T.references]
  <2> DEFINE A == T.aliased
             R == T.references
             B == [T.aliased EXCEPT ![l] = {}]
  <2>1. removeDependencyPtr(T, l) = [T EXCEPT !.aliased = B]
    BY DEF removeDependencyPtr
  <2>2. T = [aliased |-> A, references |-> R]
    BY <1>0
  <2> HIDE DEF A, R, B
  <2>3. removeDependencyPtr(T, l) = [aliased |-> B, references |-> R]
    BY <2>1, <2>2
  <2> QED BY <2>3 DEF A, R, B
<1> QED BY <1>0, <1>1 DEF Table

AtMostOne(S) == S = {} \/ \E x \in Var : S = {x}

LEMMA SingleOne ==
  ASSUME NEW T \in Table, Single(T), NEW v \in Var, Level[v] = 2
  PROVE  AtMostOne(T.aliased[v]) /\ \A a \in T.aliased[v] : a \in Var /\ Level[a] = 1
<1>1. T.aliased[v] \subseteq Var
  BY TableFacts
<1>2. \A a, b \in T.aliased[v] : a = b /\ Level[a] = 1
  BY DEF Single
<1>3. CASE T.aliased[v] = {}
  BY <1>3 DEF AtMostOne
<1>4. CASE T.aliased[v] # {}
  <2>1. PICK a : a \in T.aliased[v]
    BY <1>4
  <2>2. T.aliased[v] = {a}
    BY <2>1, <1>2
  <2> QED BY <2>1, <2>2, <1>1, <1>2 DEF AtMostOne
<1> QED BY <1>3, <1>4

\* The left side of an assignment to a pointer stands for one pointer at most.
LEMMA LeftFacts ==
  ASSUME NEW T \in Table, Single(T), OnlyInts(T), NEW v \in Var, NEW d \in 0..2,
         Level[v] - d > 0
  PROVE  LET left == getModifiedVariables(T, v, d)
         IN  /\ AtMostOne(left)
             /\ \A l \in left : l \in Var /\ Level[l] = Level[v] - d
             /\ d = 0 => left = {v}
             /\ d = 1 => left = T.aliased[v] /\ Level[v] = 2
             /\ d \in {0, 1}
<1>0. Level[v] \in 0..2 /\ Level[v] > 0 /\ d \in {0, 1}
  BY AliasTypes
<1>1. CASE d = 0
  <2>1. getModifiedVariables(T, v, d) = {v}
    BY <1>0, <1>1, ModifiedSelf
  <2> QED BY <1>0, <1>1, <2>1 DEF AtMostOne
<1>2. CASE d = 1
  <2>1. getModifiedVariables(T, v, d) = T.aliased[v] /\ Level[v] = 2
    BY <1>0, <1>2, ModifiedOne
  <2> QED BY <1>2, <2>1, SingleOne
<1> QED BY <1>0, <1>1, <1>2

\* A table that has more targets for the pointers in left, and else the same.
Grown(T, U, left) ==
  /\ U \in Table /\ U.references = T.references
  /\ \A v \in Var : /\ T.aliased[v] \subseteq U.aliased[v]
                    /\ v \notin left => U.aliased[v] = T.aliased[v]

LEMMA PairsGrow ==
  ASSUME NEW T \in Table, NEW left, AtMostOne(left), NEW right, AtMostOne(right),
         NEW how \in {"add", "fuse"}, NEW U \in ForEachPair(how, T, left, right)
  PROVE  /\ Grown(T, U, left)
         /\ \A l \in left, r \in right :
              IF how = "add" THEN r \in U.aliased[l] ELSE T.aliased[r] \subseteq U.aliased[l]
<1>1. CASE left = {} \/ right = {}
  <2>1. U = T
    BY <1>1, PairNone
  <2> QED BY <1>1, <2>1 DEF Grown
<1>2. CASE left # {} /\ right # {}
  <2>1. PICK l \in Var, r \in Var : left = {l} /\ right = {r}
    BY <1>2 DEF AtMostOne
  <2>2. U = Link(how, T, l, r)
    BY <2>1, PairOne
  <2>3. /\ U \in Table /\ U.references = T.references
        /\ \A v \in Var : v # l => U.aliased[v] = T.aliased[v]
        /\ how = "add" => U.aliased[l] = T.aliased[l] \cup {r}
        /\ how = "fuse" => U.aliased[l] = T.aliased[l] \cup T.aliased[r]
    <3>1. CASE how = "add"
      <4>1. U = Link("add", T, l, r)
        BY <3>1, <2>2
      <4>2. PICK W \in Table :
              /\ W = Link("add", T, l, r) /\ W.references = T.references
              /\ W.aliased[l] = T.aliased[l] \cup {r}
              /\ \A v \in Var : v # l => W.aliased[v] = T.aliased[v]
        BY AddFacts
      <4> QED BY <3>1, <4>1, <4>2
    <3>2. CASE how = "fuse"
      <4>1. U = Link("fuse", T, l, r)
        BY <3>2, <2>2
      <4>2. PICK W \in Table :
              /\ W = Link("fuse", T, l, r) /\ W.references = T.references
              /\ W.aliased[l] = T.aliased[l] \cup T.aliased[r]
              /\ \A v \in Var : v # l => W.aliased[v] = T.aliased[v]
        BY FuseFacts
      <4> QED BY <3>2, <4>1, <4>2
    <3> QED BY <3>1, <3>2
  <2>4. U.aliased[l] = IF how = "add" THEN T.aliased[l] \cup {r} ELSE T.aliased[l] \cup T.aliased[r]
    BY <2>3
  <2> QED BY <2>1, <2>3, <2>4 DEF Grown
<1> QED BY <1>1, <1>2

\* What a callee may return of a pointer argument: the pointer, or the one that
\* a pointer to pointers leads to.
MaySend(a) ==
  IsPointerArg(a) /\ (Level[a.v] - a.d = 1 \/ (Level[a.v] = 2 /\ a.d = 0))

Sent(a) == IF Level[a.v] - a.d = 1 THEN Value(a) ELSE Holds(Value(a))

\* A pointer argument adds to the targets what the callee may return of it.
LEMMA MayReturnFacts ==
  ASSUME NEW T \in Table, Single(T), OnlyInts(T), NEW left, AtMostOne(left),
         NEW a \in Argument, HandledArgument(a), NEW U \in MayReturn(T, left, 1, a)
  PROVE  /\ Grown(T, U, left)
         /\ MaySend(a) /\ Followed(T, a.v, Level[a.v]) /\ Sent(a) \in Var
              => \A l \in left : Sent(a) \in U.aliased[l]
<1> DEFINE v == a.v
           depth == Level[v] - a.d - 1
           aliases == computeAliasesForRHS(T, v, a.d)
<1>0. v \in Var /\ a.d \in -1..2 /\ Level[v] \in 0..2
  BY AliasTypes DEF Argument
<1>1. CASE ~IsPointerArg(a) \/ depth < 0
  <2>1. U = T
    BY <1>1 DEF MayReturn
  <2>2. ~MaySend(a)
    BY <1>0, <1>1 DEF MaySend
  <2> QED BY <2>1, <2>2 DEF Grown
<1>2. CASE IsPointerArg(a) /\ ~(depth < 0) /\ a.d = -1
  <2>1. U \in ForEachPair("add", T, left, {v})
    BY <1>2 DEF MayReturn, computeAliasesForRHS
  <2>2. AtMostOne({v})
    BY <1>0 DEF AtMostOne
  <2>3. Grown(T, U, left) /\ \A l \in left, r \in {v} : r \in U.aliased[l]
    BY <2>1, <2>2, PairsGrow
  <2>4. MaySend(a) => Sent(a) = v
    BY <1>2 DEF MaySend, Sent, Value
  <2> QED BY <2>3, <2>4
<1>3. CASE IsPointerArg(a) /\ ~(depth < 0) /\ a.d # -1
  <2>0. Level[v] > a.d /\ a.d \in {0, 1} /\ Level[v] > 0
    BY <1>0, <1>3 DEF IsPointerArg
  <2>r. PICK right : right = UNION {getModifiedVariables(T, b, depth) : b \in aliases}
    OBVIOUS
  <2>1. U \in ForEachPair("fuse", T, left, right)
    BY <1>3, <2>0, <2>r DEF MayReturn
  <2>2. /\ AtMostOne(right) /\ (depth = 0 => IF a.d = 0 THEN right = {v}
                                             ELSE right = T.aliased[v] /\ Level[v] = 2)
        /\ depth = 1 /\ a.d = 0 => right = T.aliased[v]
    <3>1. CASE a.d = 0
      <4>1. aliases = {v}
        BY <3>1, <2>0, <1>0, ModifiedSelf DEF computeAliasesForRHS
      <4>2. right = getModifiedVariables(T, v, depth)
        BY <4>1, <2>r
      <4>3. depth \in {0, 1} /\ (depth = 1 => Level[v] = 2)
        BY <3>1, <2>0, <1>0
      <4>4. CASE depth = 0
        <5>1. right = {v}
          BY <4>2, <4>4, <2>0, <1>0, ModifiedSelf
        <5> QED BY <5>1, <4>4, <3>1, <1>0 DEF AtMostOne
      <4>5. CASE depth = 1
        <5>1. right = T.aliased[v]
          BY <4>2, <4>5, <2>0, <1>0, ModifiedOne
        <5>2. AtMostOne(T.aliased[v])
          BY <4>3, <4>5, <1>0, SingleOne
        <5> QED BY <5>1, <5>2, <4>5
      <4> QED BY <4>3, <4>4, <4>5, <3>1
    <3>2. CASE a.d = 1
      <4>1. Level[v] = 2 /\ depth = 0
        BY <3>2, <2>0, <1>0
      <4>2. aliases = T.aliased[v]
        BY <3>2, <2>0, <1>0, ModifiedOne DEF computeAliasesForRHS
      <4>3. \A b \in T.aliased[v] : getModifiedVariables(T, b, 0) = {b}
        BY <4>1, <1>0, SingleOne, ModifiedSelf
      <4>4. right = T.aliased[v]
        BY <4>1, <4>2, <4>3, <2>r
      <4>5. AtMostOne(T.aliased[v])
        BY <4>1, <1>0, SingleOne
      <4> QED BY <4>1, <4>4, <4>5, <3>2
    <3> QED BY <2>0, <3>1, <3>2
  <2>3. Grown(T, U, left) /\ \A l \in left, r \in right : T.aliased[r] \subseteq U.aliased[l]
    BY <2>1, <2>2, PairsGrow
  <2>4. ASSUME Level[v] - a.d = 1, Followed(T, v, a.d + 1), Value(a) \in Var
        PROVE  \A l \in left : Value(a) \in U.aliased[l]
    <3>0. depth = 0
      BY <2>4, <1>0
    <3>1. CASE a.d = 0
      <4>1. Value(a) = pointsTo[v]
        BY <3>1, <2>0, <1>0, ObjectFacts, AliasTypes DEF Value, Object, Holds
      <4>2. pointsTo[v] \in T.aliased[v]
        BY <4>1, <2>4, <3>1 DEF Followed
      <4> QED BY <4>1, <4>2, <3>0, <3>1, <2>2, <2>3
    <3>2. CASE a.d = 1
      <4>1. Value(a) = Holds(pointsTo[v])
        BY <3>2, <2>0, <1>0, ObjectFacts DEF Value, Object
      <4>2. pointsTo[v] \in Var /\ Value(a) = pointsTo[pointsTo[v]]
        BY <4>1, <2>4 DEF Holds
      <4>3. pointsTo[v] \in T.aliased[v] /\ Value(a) \in T.aliased[pointsTo[v]]
        BY <4>2, <2>4, <3>2 DEF Followed
      <4> QED BY <4>3, <3>0, <3>2, <2>2, <2>3
    <3> QED BY <2>0, <3>1, <3>2
  \* The pointer that a pointer to pointers leads to.
  <2>5. ASSUME Level[v] = 2, a.d = 0, Followed(T, v, 2), Holds(Value(a)) \in Var
        PROVE  \A l \in left : Holds(Value(a)) \in U.aliased[l]
    <3>1. Value(a) = pointsTo[v]
      BY <2>5, <2>0, <1>0, ObjectFacts, AliasTypes DEF Value, Object, Holds
    <3>2. pointsTo[v] \in Var /\ Holds(Value(a)) = pointsTo[pointsTo[v]]
      BY <3>1, <2>5 DEF Holds
    <3>3. pointsTo[v] \in T.aliased[v] /\ Holds(Value(a)) \in T.aliased[pointsTo[v]]
      BY <3>2, <2>5 DEF Followed
    <3>4. right = T.aliased[v]
      BY <2>2, <2>5
    <3> QED BY <3>3, <3>4, <2>3
  <2>6. ASSUME MaySend(a), Followed(T, a.v, Level[a.v]), Sent(a) \in Var
        PROVE  \A l \in left : Sent(a) \in U.aliased[l]
    <3>1. CASE Level[v] - a.d = 1
      <4>1. Level[v] = a.d + 1 /\ Sent(a) = Value(a)
        BY <3>1, <1>0 DEF Sent
      <4> QED BY <4>1, <3>1, <2>4, <2>6
    <3>2. CASE Level[v] - a.d # 1
      <4>1. Level[v] = 2 /\ a.d = 0 /\ Sent(a) = Holds(Value(a))
        BY <3>2, <2>6 DEF MaySend, Sent
      <4> QED BY <4>1, <2>5, <2>6
    <3> QED BY <3>1, <3>2
  <2> QED BY <2>3, <2>6
<1> QED BY <1>1, <1>2, <1>3

LEMMA GrownTrans ==
  ASSUME NEW T, NEW U, NEW W, NEW left, Grown(T, U, left), Grown(U, W, left)
  PROVE  Grown(T, W, left)
BY DEF Grown

\* What holds of a table goes on holding as pointers to ints get more targets.
LEMMA GrownKeeps ==
  ASSUME NEW T \in Table, NEW U, NEW left, Grown(T, U, left), \A l \in left : Level[l] = 1
  PROVE  /\ Single(T) => Single(U)
         /\ OnlyInts(T) => OnlyInts(U)
         /\ \A v \in Var, d \in Int : d <= Level[v] /\ Followed(T, v, d) => Followed(U, v, d)
<1>1. \A v \in Var : Level[v] = 2 => U.aliased[v] = T.aliased[v]
  BY DEF Grown
<1>2. Single(T) => Single(U)
  BY <1>1 DEF Single
<1>3. OnlyInts(T) => OnlyInts(U)
  BY DEF OnlyInts, Grown
<1>4. \A v \in Var : T.aliased[v] \subseteq U.aliased[v]
  BY DEF Grown
<1>5. ASSUME NEW v \in Var, NEW d \in Int, Followed(T, v, d) PROVE Followed(U, v, d)
  BY <1>4, <1>5 DEF Followed
<1> QED BY <1>2, <1>3, <1>5

ReturnsBy(T, left, level, args, n, f) ==
  f = [k \in 0..n |-> IF k = 0 THEN {T}
                      ELSE UNION {MayReturn(t, left, level, args[k]) : t \in f[k - 1]}]

LEMMA MayReturnAllDef ==
  ASSUME NEW T, NEW left, NEW level, NEW args
  PROVE  MayReturnAll(T, left, level, args) =
           (CHOOSE f : ReturnsBy(T, left, level, args, Len(args), f))[Len(args)]
BY DEF MayReturnAll, ReturnsBy

LEMMA ReturnsExist ==
  ASSUME NEW T, NEW left, NEW level, NEW args, NEW N \in Nat
  PROVE  \E f : ReturnsBy(T, left, level, args, N, f)
<1> SUFFICES ASSUME ~\E f : ReturnsBy(T, left, level, args, N, f) PROVE FALSE
  OBVIOUS
<1> DEFINE bad == {n \in Nat : ~\E f : ReturnsBy(T, left, level, args, n, f)}
           Step(k, S) == UNION {MayReturn(t, left, level, args[k]) : t \in S}
<1>1. PICK m \in bad : \A n \in bad : m <= n
  <2>1. bad \in SUBSET Nat /\ N \in bad
    OBVIOUS
  <2> QED BY <2>1, LeastOf
<1>2. CASE m = 0
  <2> DEFINE g == [n \in 0..0 |-> {T}]
  <2>1. ReturnsBy(T, left, level, args, 0, g)
    BY DEF ReturnsBy
  <2> QED BY <2>1, <1>1, <1>2
<1>3. CASE m # 0
  <2>1. m \in Nat /\ m - 1 \in Nat /\ m - 1 \notin bad
    BY <1>1, <1>3
  <2>2. PICK f : ReturnsBy(T, left, level, args, m - 1, f)
    BY <2>1
  <2>e. \A n \in 0..(m - 1) : f[n] = IF n = 0 THEN {T} ELSE Step(n, f[n - 1])
    BY <2>2 DEF ReturnsBy
  <2> DEFINE last == Step(m, f[m - 1])
             g == [n \in 0..m |-> IF n = m THEN last ELSE f[n]]
  <2> HIDE DEF Step
  <2>3. ASSUME NEW n \in 0..m
        PROVE  g[n] = IF n = 0 THEN {T} ELSE Step(n, g[n - 1])
    <3>1. CASE n = m
      <4>1. m - 1 \in 0..m /\ m - 1 # m
        BY <2>1
      <4>2. g[m - 1] = f[m - 1]
        BY <4>1
      <4> QED BY <3>1, <4>2, <1>3
    <3>2. CASE n # m
      <4>1. n \in 0..(m - 1) /\ (n # 0 => n - 1 \in 0..m /\ n - 1 # m)
        BY <3>2, <2>1
      <4>2. g[n] = f[n] /\ (n # 0 => g[n - 1] = f[n - 1])
        BY <4>1, <3>2
      <4> QED BY <4>1, <4>2, <2>e
    <3> QED BY <3>1, <3>2
  <2>4. ReturnsBy(T, left, level, args, m, g)
    BY <2>3 DEF ReturnsBy, Step
  <2> QED BY <2>4, <1>1
<1> QED BY <1>2, <1>3

\* A pointer the callee may return: it is among the targets afterwards.
Kept(a, left, U) ==
  MaySend(a) /\ Sent(a) \in Var => \A l \in left : Sent(a) \in U.aliased[l]

LEMMA MayReturnAllFacts ==
  ASSUME NEW T \in Table, Single(T), OnlyInts(T), NEW left, AtMostOne(left),
         \A l \in left : Level[l] = 1,
         NEW args \in Seq(Argument),
         \A k \in 1..Len(args) : /\ HandledArgument(args[k])
                                 /\ \A d \in Int : d <= Level[args[k].v] =>
                                      Followed(T, args[k].v, d),
         NEW U \in MayReturnAll(T, left, 1, args)
  PROVE  Grown(T, U, left) /\ \A k \in 1..Len(args) : Kept(args[k], left, U)
<1> DEFINE N == Len(args)
<1>0. N \in Nat /\ \A k \in 1..N : args[k] \in Argument
  OBVIOUS
<1>1. PICK f : f = CHOOSE g : ReturnsBy(T, left, 1, args, N, g)
  OBVIOUS
<1>2. ReturnsBy(T, left, 1, args, N, f)
  BY <1>0, <1>1, ReturnsExist
<1>3. U \in f[N]
  BY <1>1, MayReturnAllDef
<1>4. f[0] = {T} /\ \A k \in 1..N : f[k] = UNION {MayReturn(t, left, 1, args[k]) : t \in f[k - 1]}
  <2>1. \A k \in 0..N : f[k] = IF k = 0 THEN {T}
                               ELSE UNION {MayReturn(t, left, 1, args[k]) : t \in f[k - 1]}
    BY <1>2 DEF ReturnsBy
  <2>2. 0 \in 0..N /\ \A k \in 1..N : k \in 0..N /\ k # 0
    BY <1>0
  <2> QED BY <2>1, <2>2
<1> HIDE DEF N
<1> DEFINE Good(k) == \A W \in f[k] : Grown(T, W, left) /\ \A j \in 1..k : Kept(args[j], left, W)
           bad == {k \in 0..N : ~Good(k)}
<1>5. ASSUME bad # {} PROVE FALSE
  <2>1. PICK m \in bad : \A n \in bad : m <= n
    <3>1. bad \in SUBSET Nat /\ \E n : n \in bad
      BY <1>0, <1>5
    <3> QED BY <3>1, LeastOf
  <2>2. Good(0)
    <3>1. Grown(T, T, left)
      BY DEF Grown
    <3>2. \A j \in 1..0 : FALSE
      OBVIOUS
    <3> QED BY <1>4, <3>1, <3>2
  <2>3. m \in 0..N /\ m # 0
    BY <2>1, <2>2
  <2>4. m \in 1..N /\ m - 1 \in 0..N /\ m - 1 \notin bad /\ m \in Nat
    BY <2>1, <2>3, <1>0
  <2>5. Good(m - 1)
    BY <2>4
  <2> HIDE DEF bad
  <2>6. ASSUME NEW W \in f[m] PROVE Grown(T, W, left) /\ \A j \in 1..m : Kept(args[j], left, W)
    <3>1. PICK t \in f[m - 1] : W \in MayReturn(t, left, 1, args[m])
      BY <2>4, <2>6, <1>4
    <3>2. Grown(T, t, left) /\ \A j \in 1..(m - 1) : Kept(args[j], left, t)
      BY <2>5
    <3>3. t \in Table /\ Single(t) /\ OnlyInts(t)
      BY <3>2, GrownKeeps DEF Grown
    <3>4. args[m] \in Argument /\ HandledArgument(args[m])
      BY <2>4, <1>0 DEF N
    <3>5. Grown(t, W, left)
      BY <3>1, <3>3, <3>4, MayReturnFacts
    <3>6. Kept(args[m], left, W)
      <4> SUFFICES ASSUME MaySend(args[m]), Sent(args[m]) \in Var
                   PROVE  \A l \in left : Sent(args[m]) \in W.aliased[l]
        BY DEF Kept
      <4>1. /\ args[m].v \in Var /\ Level[args[m].v] \in Int
            /\ Level[args[m].v] <= Level[args[m].v] /\ m \in 1..Len(args)
        BY <3>4, <2>4, AliasTypes DEF Argument, N
      <4>2. Followed(T, args[m].v, Level[args[m].v])
        BY <4>1
      <4>3. Followed(t, args[m].v, Level[args[m].v])
        BY <4>1, <4>2, <3>2, GrownKeeps
      <4> QED BY <4>3, <3>1, <3>3, <3>4, MayReturnFacts
    <3>7. \A j \in 1..(m - 1) : Kept(args[j], left, W)
      <4>1. AtMostOne(left) => \A l \in left : l \in Var
        BY DEF AtMostOne
      <4>2. \A l \in left : t.aliased[l] \subseteq W.aliased[l]
        BY <4>1, <3>5 DEF Grown
      <4> QED BY <3>2, <4>2 DEF Kept
    <3>8. \A j \in 1..m : j = m \/ j \in 1..(m - 1)
      BY <2>4
    <3> QED BY <3>2, <3>5, <3>6, <3>7, <3>8, GrownTrans
  <2> QED BY <2>1, <2>6 DEF bad
<1>6. Good(N)
  <2>1. N \in 0..N
    BY <1>0
  <2> QED BY <1>5, <2>1
<1> QED BY <1>3, <1>6 DEF N

-----------------------------------------------------------------------------
(* What the invariant says of the table and the program together.          *)

TableInv ==
  FootprintTypeOK /\ PointsToKnown /\ PointerToPointer /\ ReferencesMirror /\ ReferencesLead

LEMMA NowFacts ==
  ASSUME TableInv
  PROVE  /\ aliasTable \in Table /\ Single(aliasTable) /\ OnlyInts(aliasTable) /\ Known(aliasTable)
         /\ \A v \in Var, d \in Int : d <= Level[v] => Followed(aliasTable, v, d)
         /\ \A v \in Var : Level[v] = 2 => pointsTo[v] \in aliasTable.aliased[v] \cup {Unset}
         /\ \A v \in Var : Level[v] > 0 /\ pointsTo[v] \in Var => pointsTo[v] \in aliasTable.aliased[v]
<1>1. aliasTable \in Table /\ Single(aliasTable) /\ OnlyInts(aliasTable) /\ Known(aliasTable)
  BY DEF TableInv, FootprintTypeOK, PointerToPointer, Single, ReferencesMirror, OnlyInts,
         ReferencesLead, Known
<1>2. \A v \in Var : Level[v] = 2 => pointsTo[v] \in aliasTable.aliased[v] \cup {Unset}
  BY DEF TableInv, PointerToPointer
<1>3. \A v \in Var : Level[v] > 0 /\ pointsTo[v] \in Var => pointsTo[v] \in aliasTable.aliased[v]
  BY AliasTypes DEF TableInv, PointsToKnown
<1>4. ASSUME NEW v \in Var, NEW d \in Int, d <= Level[v] PROVE Followed(aliasTable, v, d)
  <2>1. d > 0 => Level[v] > 0
    BY <1>4, AliasTypes
  <2>2. d > 1 => Level[v] = 2
    BY <1>4, AliasTypes
  <2>3. d > 1 /\ pointsTo[v] \in Var => Level[pointsTo[v]] = 1
    BY <2>1, <2>2, <1>1, <1>3 DEF Single
  <2> QED BY <2>1, <2>3, <1>3 DEF Followed
<1> QED BY <1>1, <1>2, <1>3, <1>4

\* What is assigned to a pointer of the given level.
Values(s, level) ==
  IF s.call THEN Returned(level, s)
  ELSE IF HasSingleDeclRef(s.args) THEN {Value(s.args[1])} ELSE {Foreign}

\* The table U that an assignment to a pointer leaves.
AssignOK(s, left, level, U) ==
  /\ U \in Table /\ U.references = aliasTable.references
  /\ \A w \in Var : w \notin left => U.aliased[w] = aliasTable.aliased[w]
  /\ \A k \in 1..Len(s.args) : Followed(U, s.args[k].v, s.args[k].d)
  /\ s \in Skippable => \A w \in Var : aliasTable.aliased[w] \subseteq U.aliased[w]
  /\ level = 2 => \A l \in left : \A a, b \in U.aliased[l] : a = b /\ Level[a] = 1
  /\ Defined(s.args) => \A val \in Values(s, level), l \in left :
       val \in Var \/ level = 2 => val \in U.aliased[l]

LEMMA StatementFacts ==
  ASSUME NEW s \in Statement
  PROVE  /\ s.lhs.v \in Var /\ s.lhs.d \in -1..2 /\ s.call \in BOOLEAN
         /\ s.args \in Seq(Argument) /\ Len(s.args) \in Nat
         /\ \A k \in 1..Len(s.args) :
              /\ s.args[k] \in Argument /\ s.args[k].v \in Var /\ s.args[k].d \in -1..2
              /\ s.args[k].mode \in Mode /\ Level[s.args[k].v] \in 0..2
         /\ s.callee.globals \subseteq Var
<1>0. s.callee.globals \subseteq Var
  BY DEF Statement, Callee
<1>1. s.lhs.v \in Var /\ s.lhs.d \in -1..2 /\ s.call \in BOOLEAN /\ s.args \in Seq(Argument)
  BY DEF Statement, Access
<1>2. Len(s.args) \in Nat /\ \A k \in 1..Len(s.args) : s.args[k] \in Argument
  BY <1>1
<1> QED BY <1>0, <1>1, <1>2, AliasTypes DEF Argument

\* What a call returns to a pointer to ints, when it is not its own.
LEMMA ReturnedFacts ==
  ASSUME NEW s \in Statement, HandledResult(s),
         \A k \in 1..Len(s.args) : HandledArgument(s.args[k]),
         NEW val \in Returned(1, s), val \in Var
  PROVE  \E k \in 1..Len(s.args) : MaySend(s.args[k]) /\ val = Sent(s.args[k])
<1>1. val # Foreign /\ ~Does(s, "refers")
  BY FootprintAssumption DEF HandledResult
<1>2. PICK a \in Args(s) : /\ val = Follow(PointerTo(a), PointerLevel(a) - 1) /\ IsPointerArg(a)
                           /\ PointerLevel(a) = 1 \/ (PointerLevel(a) > 1 /\ Does(s, "follows"))
  BY <1>1 DEF Returned
<1>3. PICK k \in 1..Len(s.args) : a = s.args[k]
  BY <1>2 DEF Args
<1>4. a.v \in Var /\ a.d \in -1..2 /\ Level[a.v] \in 0..2 /\ a.d <= Level[a.v]
  BY <1>3, StatementFacts DEF HandledArgument
<1>5. PointerTo(a) = Value(a) /\ PointerLevel(a) = Level[a.v] - a.d
  BY <1>2, <1>4 DEF IsPointerArg, PointerTo, PointerLevel
<1>6. CASE PointerLevel(a) = 1
  BY <1>2, <1>3, <1>5, <1>6 DEF MaySend, Sent, Follow
<1>7. CASE PointerLevel(a) # 1
  <2>1. a.d # -1
    BY <1>2, <1>3, <1>4, <1>5, <1>7 DEF HandledResult
  <2>2. Level[a.v] = 2 /\ a.d = 0 /\ PointerLevel(a) - 1 = 1
    BY <2>1, <1>2, <1>4, <1>5, <1>7
  <2>3. val = Holds(Value(a))
    BY <2>2, <1>2, <1>5 DEF Follow
  <2>4. MaySend(s.args[k])
    BY <2>2, <1>2, <1>3 DEF MaySend
  <2>5. Sent(s.args[k]) = Holds(Value(a))
    BY <2>2, <1>3 DEF Sent
  <2> QED BY <2>3, <2>4, <2>5
<1> QED BY <1>6, <1>7

\* A call with any number of arguments but one.
LEMMA CallAssignment ==
  ASSUME TableInv, NEW s \in Statement, HandledAssignment(s), s.call, Len(s.args) # 1,
         NEW left, left = getModifiedVariables(aliasTable, s.lhs.v, s.lhs.d),
         NEW level, level = Level[s.lhs.v] - s.lhs.d, level > 0,
         NEW U \in MayReturnAll(aliasTable, left, level, s.args)
  PROVE  AssignOK(s, left, level, U)
<1>0. s.lhs.v \in Var /\ s.lhs.d \in 0..2 /\ Level[s.lhs.v] \in 0..2 /\ level = 1
  BY StatementFacts, AliasTypes DEF HandledAssignment
<1>1. AtMostOne(left) /\ \A l \in left : l \in Var /\ Level[l] = 1
  BY <1>0, NowFacts, LeftFacts
<1>2. \A k \in 1..Len(s.args) : HandledArgument(s.args[k])
  BY DEF HandledAssignment
<1>3. \A k \in 1..Len(s.args) : \A d \in Int : d <= Level[s.args[k].v] => Followed(aliasTable, s.args[k].v, d)
  BY NowFacts, StatementFacts
<1>4. Grown(aliasTable, U, left) /\ \A k \in 1..Len(s.args) : Kept(s.args[k], left, U)
  BY <1>0, <1>1, <1>2, <1>3, NowFacts, StatementFacts, MayReturnAllFacts
<1>5. \A k \in 1..Len(s.args) : Followed(U, s.args[k].v, s.args[k].d)
  <2> SUFFICES ASSUME NEW k \in 1..Len(s.args) PROVE Followed(U, s.args[k].v, s.args[k].d)
    OBVIOUS
  <2>1. s.args[k].v \in Var /\ s.args[k].d \in Int /\ s.args[k].d <= Level[s.args[k].v]
    BY <1>2, StatementFacts DEF HandledArgument
  <2> QED BY <2>1, <1>1, <1>3, <1>4, NowFacts, GrownKeeps
<1>6. ASSUME NEW val \in Values(s, level), NEW l \in left, val \in Var
      PROVE  val \in U.aliased[l]
  <2>1. HandledResult(s) /\ val \in Returned(1, s)
    BY <1>0, <1>6 DEF Values, HandledAssignment
  <2>2. PICK k \in 1..Len(s.args) : MaySend(s.args[k]) /\ val = Sent(s.args[k])
    BY <2>1, <1>2, <1>6, ReturnedFacts
  <2> QED BY <2>2, <1>4, <1>6 DEF Kept
<1> QED BY <1>0, <1>4, <1>5, <1>6 DEF AssignOK, Grown

\* One variable on the right.
LEMMA OneAssignment ==
  ASSUME TableInv, NEW s \in Statement, HandledAssignment(s), Len(s.args) = 1,
         NEW left, left = getModifiedVariables(aliasTable, s.lhs.v, s.lhs.d),
         NEW level, level = Level[s.lhs.v] - s.lhs.d, level > 0,
         NEW U \in handlePointersBinaryAssignment(aliasTable, left, level, s.call, s.args)
  PROVE  AssignOK(s, left, level, U)
<1> DEFINE T == aliasTable
           e == s.args[1]
           v == e.v
           depth == Level[v] - level
<1>0. s.lhs.v \in Var /\ s.lhs.d \in 0..2 /\ Level[s.lhs.v] \in 0..2 /\ level \in {1, 2}
  BY StatementFacts, AliasTypes DEF HandledAssignment
<1>1. /\ v \in Var /\ Level[v] \in 0..2 /\ e.d \in -1..2 /\ e.d <= Level[v]
      /\ e \in Argument /\ 1 \in 1..Len(s.args)
  BY StatementFacts DEF HandledAssignment, HandledArgument, HandledOperand
<1>2. AtMostOne(left) /\ \A l \in left : l \in Var /\ Level[l] = level
  BY <1>0, NowFacts, LeftFacts
<1>3. s \notin Skippable /\ (~s.call => Level[v] - e.d = level) /\ (level = 2 => ~s.call)
  BY <1>0 DEF HandledAssignment
<1>4. depth \in -1..1 /\ (depth = 1 => Level[v] = 2 /\ level = 1) /\ (level = 2 => depth = e.d /\ e.d < 1)
  BY <1>0, <1>1, <1>3
<1>5. U \in IF depth = -1
              THEN UNION {ForEachPair("add", removeDependencyPtr(T, l), left, {v}) : l \in left}
              ELSE ForEachPair("replace", T, left, getModifiedVariables(T, v, depth))
  BY DEF handlePointersBinaryAssignment, HasSingleDeclRef, getPtrDepthAccess, computeAliasesForRHS
<1>t. T \in Table /\ Single(T) /\ OnlyInts(T)
  BY NowFacts
\* What is assigned, when it is not the callee's own.
<1>6. ASSUME Defined(s.args), NEW val \in Values(s, level), val \in Var \/ level = 2
      PROVE  /\ Value(e) # Unset /\ (e.d >= 0 => Object(e) # Unset)
             /\ \/ val = Value(e) /\ Level[v] - e.d = level
                \/ /\ val = Holds(Value(e)) /\ val \in Var
                   /\ Level[v] = 2 /\ e.d = 0 /\ level = 1 /\ depth = 1
  <2>1. CASE s.call
    <3>1. val \in Var /\ level = 1 /\ HandledResult(s) /\ val \in Returned(1, s)
          /\ \A k \in 1..Len(s.args) : HandledArgument(s.args[k])
      BY <2>1, <1>0, <1>3, <1>6 DEF Values, HandledAssignment
    <3>2. PICK k \in 1..Len(s.args) : MaySend(s.args[k]) /\ val = Sent(s.args[k])
      BY <3>1, ReturnedFacts
    <3>3. MaySend(e) /\ val = Sent(e)
      BY <3>2
    <3>4. Level[v] > e.d
      BY <3>3, <1>1 DEF MaySend
    <3>5. Value(e) # Unset /\ (e.d >= 0 => Object(e) # Unset)
      BY <3>4, <1>1, <1>6 DEF Defined
    <3>6. CASE Level[v] - e.d = 1
      BY <3>1, <3>3, <3>5, <3>6 DEF Sent
    <3>7. CASE Level[v] - e.d # 1
      BY <3>1, <3>3, <3>5, <3>7 DEF Sent, MaySend
    <3> QED BY <3>6, <3>7
  <2>2. CASE ~s.call
    <3>1. val = Value(e)
      BY <2>2, <1>6 DEF Values, HasSingleDeclRef
    <3>2. Level[v] > e.d
      BY <2>2, <1>3, <1>0, <1>1
    <3> QED BY <3>1, <3>2, <2>2, <1>3, <1>1, <1>6 DEF Defined
  <2> QED BY <2>1, <2>2
<1> HIDE DEF T
\* &v: it takes the place of the targets.
<1>7. CASE depth = -1
  <2>1. PICK l0 \in left : U \in ForEachPair("add", removeDependencyPtr(T, l0), left, {v})
    BY <1>5, <1>7
  <2>2. left = {l0} /\ l0 \in Var /\ Level[l0] = level
    BY <2>1, <1>2 DEF AtMostOne
  <2> DEFINE R == removeDependencyPtr(T, l0)
  <2>3. /\ R \in Table /\ R.references = T.references /\ R.aliased[l0] = {}
        /\ \A w \in Var \ {l0} : R.aliased[w] = T.aliased[w]
    BY <2>2, <1>t, RemoveFacts
  <2> HIDE DEF R
  <2>4. U = Link("add", R, l0, v)
    BY <2>1, <2>2, PairOne DEF R
  <2>5. PICK W \in Table : /\ W = Link("add", R, l0, v) /\ W.references = R.references
                           /\ W.aliased[l0] = R.aliased[l0] \cup {v}
                           /\ \A w \in Var : w # l0 => W.aliased[w] = R.aliased[w]
    BY <2>2, <2>3, <1>1, AddFacts
  <2>6. /\ U \in Table /\ U.references = T.references /\ U.aliased[l0] = {v}
        /\ \A w \in Var : w # l0 => U.aliased[w] = T.aliased[w]
    BY <2>3, <2>4, <2>5
  <2>7. e.d \in {-1, 0} /\ ~(e.d > 0) /\ ~(e.d > 1)
    BY <1>7, <1>0, <1>1, <1>3
  <2>8. Followed(U, v, e.d)
    BY <2>7 DEF Followed
  <2>9. ASSUME Defined(s.args), NEW val \in Values(s, level), val \in Var \/ level = 2
        PROVE  val = v
    <3>1. val = Value(e) /\ Level[v] - e.d = level
      BY <2>9, <1>6, <1>7
    <3>2. e.d = -1
      BY <3>1, <1>7, <1>0, <1>1
    <3> QED BY <3>1, <3>2 DEF Value
  <2>10. level = 2 => Level[v] = 1
    BY <1>7, <1>1
  <2>11. \A k \in 1..Len(s.args) : Followed(U, s.args[k].v, s.args[k].d)
    BY <2>8
  <2> QED BY <2>2, <2>6, <2>9, <2>10, <2>11, <1>3 DEF AssignOK, T
\* v or *v: its targets replace the old ones.
<1>8. CASE depth # -1
  <2>1. depth \in {0, 1} /\ Level[v] > 0
    BY <1>8, <1>4, <1>0, <1>1
  <2>2. PICK right : right = getModifiedVariables(T, v, depth)
    OBVIOUS
  <2>3. /\ AtMostOne(right) /\ \A r \in right : r \in Var /\ Level[r] = level
        /\ depth = 0 => right = {v}
        /\ depth = 1 => right = T.aliased[v]
    <3>1. Level[v] - depth > 0 /\ Level[v] - depth = level /\ depth \in 0..2
      BY <2>1, <1>0, <1>1
    <3> QED BY <3>1, <2>2, <1>1, <1>t, LeftFacts
  <2>4. U \in ForEachPair("replace", T, left, right)
    BY <1>5, <1>8, <2>2
  <2>5. CASE left = {} \/ right = {}
    <3>1. U = T
      BY <2>4, <2>5, PairNone
    <3>2. \A k \in 1..Len(s.args) : Followed(U, s.args[k].v, s.args[k].d)
      BY <3>1, <1>1, NowFacts DEF T
    <3>3. ASSUME Defined(s.args), NEW val \in Values(s, level), NEW l \in left,
                 val \in Var \/ level = 2
          PROVE  FALSE
      <4>1. right = {} /\ depth = 1
        BY <2>5, <2>3, <2>1, <3>3
      <4>2. /\ Value(e) # Unset /\ (e.d >= 0 => Object(e) # Unset)
            /\ Level[v] - e.d = level \/ (Level[v] = 2 /\ e.d = 0)
        BY <1>6, <3>3
      <4>3. Level[v] = 2 /\ e.d \in {0, 1}
        BY <4>1, <4>2, <1>0, <1>1, <1>4
      <4>4. pointsTo[v] = IF e.d = 1 THEN Object(e) ELSE Value(e)
        <5>1. e.d = 1 => Object(e) = pointsTo[v]
          BY <4>3, <1>1, ObjectFacts DEF Object
        <5>2. e.d = 0 => Value(e) = pointsTo[v]
          BY <4>3, <1>1, ObjectFacts, AliasTypes DEF Value, Object, Holds
        <5> QED BY <4>3, <5>1, <5>2
      <4>5. pointsTo[v] \in T.aliased[v]
        BY <4>2, <4>3, <4>4, <1>1, NowFacts DEF T
      <4> QED BY <4>1, <4>5, <2>3
    <3>4. level = 2 => \A l \in left : \A a, b \in U.aliased[l] : a = b /\ Level[a] = 1
      BY <3>1, <1>2, <1>t DEF Single
    <3> QED BY <3>1, <3>2, <3>3, <3>4, <1>3, <1>t DEF AssignOK, T
  <2>6. CASE left # {} /\ right # {}
    <3>1. PICK l0 \in Var, r0 \in Var : left = {l0} /\ right = {r0}
      BY <2>6, <1>2, <2>3 DEF AtMostOne
    <3>2. U = Link("replace", T, l0, r0)
      BY <3>1, <2>4, PairOne
    <3>3. PICK W \in Table : /\ W = Link("replace", T, l0, r0) /\ W.references = T.references
                             /\ W.aliased[l0] = T.aliased[r0]
                             /\ \A w \in Var : w # l0 => W.aliased[w] = T.aliased[w]
      BY <1>t, ReplaceFacts
    <3>4. /\ U \in Table /\ U.references = T.references /\ U.aliased[l0] = T.aliased[r0]
          /\ \A w \in Var : w # l0 => U.aliased[w] = T.aliased[w]
      BY <3>2, <3>3
    <3>5. U.aliased[r0] = T.aliased[r0] /\ (depth = 1 => U.aliased[v] = T.aliased[v])
      <4>1. depth = 1 => v # l0
        BY <1>1, <1>2, <1>4, <3>1
      <4> QED BY <4>1, <3>4, <1>1
    \* Where v leads is r0's target, before and after.
    <3>6. /\ depth = 0 => r0 = v
          /\ depth = 1 /\ pointsTo[v] # Unset => pointsTo[v] = r0
          /\ depth = 1 => pointsTo[v] \in T.aliased[v] \cup {Unset}
      <4>1. depth = 1 => T.aliased[v] = {r0} /\ Level[v] = 2
        BY <2>3, <3>1, <1>4
      <4>2. depth = 1 => pointsTo[v] \in T.aliased[v] \cup {Unset}
        BY <4>1, <1>1, NowFacts DEF T
      <4> QED BY <4>1, <4>2, <2>3, <3>1
    <3>7. Followed(U, v, e.d)
      <4>1. Followed(T, v, e.d)
        BY <1>1, NowFacts DEF T
      <4>2. depth = 0 => e.d <= 1 \/ level = 2
        BY <1>1, <1>0
      <4>3. level = 2 => ~(e.d > 0) /\ ~(e.d > 1)
        BY <1>4, <1>1
      <4>4. CASE depth = 0
        <5>1. U.aliased[v] = T.aliased[v] /\ ~(e.d > 1)
          BY <4>2, <4>3, <4>4, <3>5, <3>6, <1>1
        <5> QED BY <5>1, <4>1 DEF Followed
      <4>5. CASE depth = 1
        <5>1. U.aliased[v] = T.aliased[v] /\ Unset \notin Var
          BY <4>5, <3>5, FootprintAssumption
        <5>2. pointsTo[v] \in Var => U.aliased[pointsTo[v]] = T.aliased[pointsTo[v]]
          BY <4>5, <5>1, <3>5, <3>6
        <5> QED BY <5>1, <5>2, <4>1 DEF Followed
      <4> QED BY <2>1, <4>4, <4>5
    <3>8. ASSUME Defined(s.args), NEW val \in Values(s, level), val \in Var \/ level = 2
          PROVE  val \in T.aliased[r0]
      <4>0. CASE val = Holds(Value(e)) /\ val \in Var /\ Level[v] = 2 /\ e.d = 0 /\ depth = 1
        <5>1. Value(e) = pointsTo[v]
          BY <4>0, <1>1, ObjectFacts, AliasTypes DEF Value, Object, Holds
        <5>2. pointsTo[v] = r0
          BY <5>1, <4>0, <3>6, <3>8, <1>6
        <5>3. val = pointsTo[r0] /\ Level[r0] > 0
          BY <5>1, <5>2, <4>0, <2>3, <3>1, <1>0 DEF Holds
        <5> QED BY <5>3, <4>0, NowFacts DEF T
      <4>p. SUFFICES ASSUME val = Value(e), Level[v] - e.d = level PROVE val \in T.aliased[r0]
        BY <4>0, <3>8, <1>6
      <4>1. val = Value(e) /\ Level[v] - e.d = level /\ val # Unset /\ (e.d >= 0 => Object(e) # Unset)
        BY <4>p, <3>8, <1>6
      <4>2. e.d = depth
        BY <4>1, <1>0, <1>1
      <4>3. CASE depth = 0
        <5>1. v \notin Ref /\ val = pointsTo[v]
          BY <4>1, <4>2, <4>3, <2>1, <1>1, ObjectFacts, AliasTypes DEF Value, Object, Holds
        <5>2. level = 2 => Level[v] = 2
          BY <4>1, <4>2, <4>3, <1>1
        <5>3. pointsTo[v] \in T.aliased[v]
          BY <5>1, <5>2, <4>1, <2>1, <1>1, <3>8, NowFacts DEF T
        <5> QED BY <5>1, <5>3, <4>3, <3>6
      <4>4. CASE depth = 1
        <5>1. Object(e) = pointsTo[v]
          BY <4>2, <4>4, <2>1, <1>1, ObjectFacts DEF Object
        <5>2. pointsTo[v] = r0
          BY <5>1, <4>1, <4>2, <4>4, <3>6
        <5>3. val = pointsTo[r0]
          BY <5>1, <5>2, <4>1, <4>2, <4>4 DEF Value, Holds
        <5>4. Level[r0] = 1 /\ val \in Var
          BY <2>3, <3>1, <3>8, <1>4, <4>4
        <5> QED BY <5>3, <5>4, NowFacts DEF T
      <4> QED BY <2>1, <4>3, <4>4
    <3>9. level = 2 => \A a, b \in T.aliased[r0] : a = b /\ Level[a] = 1
      BY <2>3, <3>1, <1>t DEF Single
    <3>10. \A k \in 1..Len(s.args) : Followed(U, s.args[k].v, s.args[k].d)
      BY <3>7
    <3> QED BY <3>1, <3>4, <3>8, <3>9, <3>10, <1>3 DEF AssignOK, T
  <2> QED BY <2>5, <2>6
<1> QED BY <1>7, <1>8

\* Any assignment.
LEMMA AssignTablesFacts ==
  ASSUME TableInv, NEW s \in Statement, HandledAssignment(s),
         NEW left, left = getModifiedVariables(aliasTable, s.lhs.v, s.lhs.d),
         NEW level, level = Level[s.lhs.v] - s.lhs.d,
         NEW U \in AssignTables(s, left, level)
  PROVE  /\ s.lhs.v \in Var /\ s.lhs.d \in 0..2 /\ s.lhs.d <= Level[s.lhs.v] /\ level \in 0..2
         /\ level = 0 => U = aliasTable
         /\ level > 0 => AssignOK(s, left, level, U)
<1>0. /\ s.lhs.v \in Var /\ s.lhs.d \in 0..2 /\ s.lhs.d <= Level[s.lhs.v] /\ level \in 0..2
      /\ s.call \in BOOLEAN
  BY StatementFacts, AliasTypes DEF HandledAssignment
<1>1. level = 0 => U = aliasTable
  BY DEF AssignTables
<1>2. ASSUME level > 0 PROVE AssignOK(s, left, level, U)
  <2>1. U \in handlePointersBinaryAssignment(aliasTable, left, level, s.call, s.args)
    BY <1>2 DEF AssignTables
  <2>2. CASE Len(s.args) = 1
    BY <1>2, <2>1, <2>2, OneAssignment
  <2>3. CASE Len(s.args) # 1 /\ s.call
    <3>1. U \in MayReturnAll(aliasTable, left, level, s.args)
      BY <2>1, <2>3 DEF handlePointersBinaryAssignment, HasSingleDeclRef
    <3> QED BY <1>2, <2>3, <3>1, CallAssignment
  <2>4. CASE Len(s.args) # 1 /\ ~s.call
    <3>1. U = aliasTable
      BY <2>1, <2>4 DEF handlePointersBinaryAssignment, HasSingleDeclRef
    <3>2. level = 1
      BY <1>0, <1>2, <2>4 DEF HandledAssignment
    <3>3. \A k \in 1..Len(s.args) : Followed(U, s.args[k].v, s.args[k].d)
      <4> SUFFICES ASSUME NEW k \in 1..Len(s.args) PROVE Followed(U, s.args[k].v, s.args[k].d)
        OBVIOUS
      <4>1. s.args[k].v \in Var /\ s.args[k].d \in Int /\ s.args[k].d <= Level[s.args[k].v]
        BY <2>4, StatementFacts DEF HandledAssignment, HandledOperand
      <4> QED BY <3>1, <4>1, NowFacts
    <3>4. \A val \in Values(s, level) : val \notin Var
      BY <2>4, FootprintAssumption DEF Values, HasSingleDeclRef
    <3> QED BY <3>1, <3>2, <3>3, <3>4, NowFacts DEF AssignOK
  <2> QED BY <1>0, <2>2, <2>3, <2>4
<1> QED BY <1>0, <1>1, <1>2

LEMMA ObjectType ==
  ASSUME FootprintTypeOK, NEW e, e.v \in Var, e.d \in -1..2
  PROVE  /\ e.d >= 0 => Object(e) \in Var \cup {Unset, Foreign}
         /\ Value(e) \in Var \cup {Unset, Foreign}
<1> DEFINE All == Var \cup {Unset, Foreign}
<1>1. \A o \in All : Holds(o) \in All
  BY DEF Holds, FootprintTypeOK
<1>2. ASSUME e.d >= 0 PROVE Object(e) \in All
  <2>1. (IF e.v \in Ref THEN pointsTo[e.v] ELSE e.v) \in All
    BY DEF FootprintTypeOK
  <2>2. e.d = 0 \/ e.d = 1 \/ e.d = 2
    BY <1>2
  <2> HIDE DEF All
  <2> QED BY <1>1, <2>1, <2>2 DEF Object, ObjectAt
<1>3. CASE e.d = -1
  BY <1>2, <1>3 DEF Value
<1>4. CASE e.d # -1
  <2>1. e.d >= 0
    BY <1>4
  <2> QED BY <1>1, <1>2, <1>4, <2>1 DEF Value
<1> QED BY <1>2, <1>3, <1>4

\* The target of an assignment to a pointer that is executed.
LEMMA TargetFacts ==
  ASSUME TableInv, NEW s \in Statement, s.lhs.v \in Var, s.lhs.d \in 0..2,
         NEW left, left = getModifiedVariables(aliasTable, s.lhs.v, s.lhs.d),
         Level[s.lhs.v] - s.lhs.d > 0, Object(s.lhs) # Unset
  PROVE  Object(s.lhs) \in Var /\ left = {Object(s.lhs)}
<1>1. /\ AtMostOne(left) /\ s.lhs.d \in {0, 1}
      /\ s.lhs.d = 0 => left = {s.lhs.v}
      /\ s.lhs.d = 1 => left = aliasTable.aliased[s.lhs.v] /\ Level[s.lhs.v] = 2
  BY NowFacts, LeftFacts
<1>2. CASE s.lhs.d = 0
  <2>1. Level[s.lhs.v] > 0
    BY <1>2, AliasTypes
  <2>2. s.lhs.v \notin Ref
    BY <2>1, AliasTypes
  <2> QED BY <1>1, <1>2, <2>2, ObjectFacts DEF Object
<1>3. CASE s.lhs.d = 1
  <2>1. Object(s.lhs) = pointsTo[s.lhs.v]
    BY <1>1, <1>3, ObjectFacts DEF Object
  <2>2. pointsTo[s.lhs.v] \in left
    BY <1>1, <1>3, <2>1, NowFacts
  <2> QED BY <1>1, <2>1, <2>2 DEF AtMostOne
<1> QED BY <1>1, <1>2, <1>3

\* The values of an assignment.
LEMMA ValuesType ==
  ASSUME FootprintTypeOK, NEW s \in Statement, NEW level \in Int,
         s.call => \A k \in 1..Len(s.args) : HandledArgument(s.args[k])
  PROVE  Values(s, level) \subseteq Var \cup {Unset, Foreign}
<1>0. pointsTo \in [Var -> Var \cup {Unset, Foreign}]
  BY DEF FootprintTypeOK
<1> DEFINE All == Var \cup {Unset, Foreign}
<1>1. \A k \in 1..Len(s.args) : Value(s.args[k]) \in All
  BY StatementFacts, ObjectType
<1>2. \A o \in All : \A n : Follow(o, n) \in All
  <2>1. \A o \in All : Holds(o) \in All
    BY <1>0 DEF Holds
  <2> HIDE DEF All
  <2> QED BY <2>1 DEF Follow
<1>3. s.call => \A a \in Args(s) : PointerTo(a) \in All
  <2> SUFFICES ASSUME s.call, NEW a \in Args(s) PROVE PointerTo(a) \in All
    OBVIOUS
  <2>1. /\ a.v \in Var /\ a.d \in -1..2 /\ Level[a.v] \in 0..2 /\ a.mode \in Mode
        /\ HandledArgument(a)
    BY StatementFacts DEF Args
  <2>2. CASE a.mode \notin {"ref", "refRO"}
    BY <2>1, <2>2, ObjectType DEF PointerTo
  <2>3. CASE a.mode \in {"ref", "refRO"}
    <3>1. a.d = 0
      BY <2>1, <2>3 DEF HandledArgument
    <3>2. Object(a) \in All
      BY <2>1, <3>1, ObjectType
    <3> QED BY <2>3, <3>2 DEF PointerTo
  <2> QED BY <2>2, <2>3
<1>4. \A g \in s.callee.globals : ObjectAt(g, 0) \in All
  BY <1>0, StatementFacts, ObjectFacts
<1>5. s.call => Returned(level, s) \subseteq All
  <2>1. Foreign \in All
    OBVIOUS
  <2> HIDE DEF All
  <2>2. s.call => \A a \in Args(s) : \A n : Follow(PointerTo(a), n) \in All
    BY <1>2, <1>3
  <2>3. \A g \in s.callee.globals : \A n : Follow(ObjectAt(g, 0), n) \in All
    BY <1>2, <1>4
  <2> QED BY <2>1, <2>2, <2>3 DEF Returned
<1>6. HasSingleDeclRef(s.args) => {Value(s.args[1])} \subseteq All
  BY <1>1, StatementFacts DEF HasSingleDeclRef
<1> QED BY <1>5, <1>6 DEF Values

\* A callee that sets no pointer leaves what they hold.
LEMMA AfterCallFacts ==
  ASSUME FootprintTypeOK, NEW s \in Statement, HandledCallee(s)
  PROVE  AfterCall(s) \subseteq {pointsTo}
<1>1. CASE ~Does(s, "sets")
  BY <1>1 DEF AfterCall
<1>2. CASE Does(s, "sets")
  <2>1. \A a \in Written(s) : PointerLevel(a) \in Int /\ PointerLevel(a) <= 1
    <3>1. \A a \in Written(s) : PointerLevel(a) <= 1
      BY <1>2 DEF HandledCallee
    <3>2. \A a \in Written(s) : a.d \in -1..2 /\ Level[a.v] \in 0..2
      BY StatementFacts DEF Written, Args
    <3> QED BY <3>1, <3>2 DEF PointerLevel
  <2>2. Settable(s) = {}
    BY <1>2, <2>1 DEF Settable, HandledCallee
  <2>3. \A set : [v \in Var |-> IF v \in Settable(s) THEN set[v] ELSE pointsTo[v]] = pointsTo
    BY <2>2 DEF FootprintTypeOK
  <2> QED BY <1>2, <2>3 DEF AfterCall
<1> QED BY <1>1, <1>2

-----------------------------------------------------------------------------
(* The invariant after a step.                                             *)

AllHandled == \A s \in Statements : Handled(s)

LEMMA BindHandled ==
  ASSUME AllHandled, NEW s \in Statements, s.op = "bind"
  PROVE  HandledBind(s)
BY DEF AllHandled, Handled, HandledForm

\* Every step but a binding leaves the references and what they are bound to.
LEMMA TableKept ==
  ASSUME AllHandled, TableInv, NEW U \in Table, NEW P, aliasTable' = U, pointsTo' = P,
         instr' \in Footprint, touched' \in Footprint /\ named' \in BOOLEAN,
         U.references = aliasTable.references, P \in [Var -> Var \cup {Unset, Foreign}],
         \A v \in Var : Level[v] = 0 =>
           /\ U.aliased[v] = aliasTable.aliased[v]
           /\ P[v] \in {pointsTo[v], Unset},
         \A v \in Var : Level[v] > 0 /\ P[v] \in Var => P[v] \in U.aliased[v],
         \A v \in Var : Level[v] = 2 => P[v] \in U.aliased[v] \cup {Unset},
         Single(U)
  PROVE  TableInv' /\ Names(U) = Names(aliasTable)
<1>0. Unset \notin Var /\ Foreign \notin Var /\ Ref \subseteq Var /\ \A r \in Ref : Level[r] = 0
  BY FootprintAssumption
<1>1. Referred(U) = Referred(aliasTable)
  BY <1>0, AliasTypes DEF Referred
<1>2. FootprintTypeOK'
  BY DEF FootprintTypeOK
<1>3. \A r \in Ref : P[r] \in Var => P[r] \in Closure(Referred(U), r)
  BY <1>0, <1>1 DEF TableInv, ReferencesLead
<1>4. ReferencesLead'
  <2>1. ASSUME NEW s \in Statements, s.op = "bind"
        PROVE  U.aliased[s.lhs.v] \in {{}, ArgVars(s.args)}
    <3>1. s.lhs.v \in Ref
      BY <2>1, BindHandled DEF HandledBind
    <3>2. aliasTable.aliased[s.lhs.v] \in {{}, ArgVars(s.args)}
      BY <2>1 DEF TableInv, ReferencesLead
    <3> QED BY <3>1, <3>2, <1>0
  <2> QED BY <2>1, <1>3 DEF ReferencesLead
<1>5. ReferencesMirror'
  BY <1>0 DEF TableInv, ReferencesMirror
<1>6. PointerToPointer'
  BY DEF PointerToPointer, Single
<1>7. PointsToKnown'
  <2> SUFFICES ASSUME NEW v \in Var, P[v] \in Var
               PROVE  P[v] \in IF v \in Ref THEN getModifiedVariables(U, v, 0) ELSE U.aliased[v]
    BY DEF PointsToKnown
  <2>1. CASE v \in Ref
    BY <2>1, <1>3, ModifiedZero
  <2>2. CASE v \notin Ref /\ Level[v] = 0
    BY <2>2, <1>0 DEF TableInv, PointsToKnown
  <2>3. CASE v \notin Ref /\ Level[v] # 0
    <3>1. Level[v] > 0
      BY <2>3, AliasTypes
    <3> QED BY <2>3, <3>1
  <2> QED BY <2>1, <2>2, <2>3
<1>8. Names(U) = Names(aliasTable)
  BY <1>1 DEF Names
<1> QED BY <1>2, <1>4, <1>5, <1>6, <1>7, <1>8 DEF TableInv

\* The instruction of every statement is closed under names.
LEMMA InstrFacts ==
  ASSUME NEW T \in Table, NEW R \in SUBSET Var, NEW W \in SUBSET Var,
         aliasTable' = T, instr' = Dependencies(T, R, W)
  PROVE  /\ instr' \in Footprint /\ InstrClosed'
         /\ instr'.reads \in SUBSET Var /\ instr'.writes \in SUBSET Var
         /\ R \subseteq instr'.reads /\ W \subseteq instr'.writes
         /\ Closed(Names(T), instr'.reads) /\ Closed(Names(T), instr'.writes)
<1>1. instr'.reads = Deps(T, R) /\ instr'.writes = Deps(T, W)
  BY DependenciesDef
<1>2. instr' = [reads |-> Deps(T, R), writes |-> Deps(T, W)]
  BY DEF Dependencies, Deps
<1>3. /\ R \subseteq Deps(T, R) /\ Deps(T, R) \subseteq Var /\ Closed(Names(T), Deps(T, R))
      /\ W \subseteq Deps(T, W) /\ Deps(T, W) \subseteq Var /\ Closed(Names(T), Deps(T, W))
  BY DepsFacts
<1>4. instr' \in Footprint
  BY <1>2, <1>3 DEF Footprint
<1>5. InstrClosed'
  BY <1>1, <1>3 DEF InstrClosed, Closed
<1> QED BY <1>1, <1>3, <1>4, <1>5

LEMMA TouchFacts ==
  ASSUME NEW s, NEW R, NEW W, Touch(s, R, W),
         Named(s) => R \cap Var \subseteq instr'.reads /\ W \cap Var \subseteq instr'.writes
  PROVE  touched' \in Footprint /\ named' \in BOOLEAN /\ FootprintSound'
<1>1. named' = Named(s) /\ Named(s) \in BOOLEAN
  BY DEF Touch, Named
<1>2. touched' \in Footprint
  BY DEF Touch, Footprint
<1>3. named' => Named(s)
  BY <1>1
<1>4. FootprintSound'
  BY <1>3 DEF Touch, FootprintSound
<1> QED BY <1>1, <1>2, <1>4

LEMMA NotTakenFacts ==
  ASSUME NEW s, NotTaken(s)
  PROVE  s \in Skippable /\ pointsTo' = pointsTo /\ touched' \in Footprint /\ named' \in BOOLEAN /\ FootprintSound'
<1>1. s \in Skippable /\ pointsTo' = pointsTo /\ Touch(s, {}, {})
  BY DEF NotTaken
<1> QED BY <1>1, TouchFacts

-----------------------------------------------------------------------------
(* The operands of a statement, together.                                  *)

LEMMA ExprType ==
  ASSUME NEW T \in Table, NEW e, e.v \in Var
  PROVE  handleExpr(T, e) \subseteq Var
BY ModifiedType, AccessedType DEF handleExpr

LEMMA OperandsCovered ==
  ASSUME FootprintTypeOK, NEW T \in Table, Known(T), NEW X \in SUBSET Var, Closed(Names(T), X),
         NEW s \in Statement,
         \A k \in 1..Len(s.args) :
           HandledOperand(s.args[k]) /\ Followed(T, s.args[k].v, s.args[k].d),
         UNION {handleExpr(T, s.args[k]) : k \in 1..Len(s.args)} \subseteq X
  PROVE  ArgReads(s.args) \cap Var \subseteq X
<1>1. \A k \in 1..Len(s.args) : OneArgReads(s.args[k]) \cap Var \subseteq X
  <2> SUFFICES ASSUME NEW k \in 1..Len(s.args) PROVE OneArgReads(s.args[k]) \cap Var \subseteq X
    OBVIOUS
  <2>1. s.args[k] \in Argument /\ handleExpr(T, s.args[k]) \subseteq X
    BY StatementFacts
  <2> QED BY <2>1, OperandCovered
<1> QED BY <1>1, ArgReadsDef

CallReads(T, a) == IF a.mode = "value" THEN handleExpr(T, a) ELSE {a.v}

LEMMA CallExprFacts ==
  ASSUME NEW T, NEW s \in Statement
  PROVE  /\ \A k \in 1..Len(s.args) : CallReads(T, s.args[k]) \subseteq handleCallExpr(T, s.args).reads
         /\ \A k \in 1..Len(s.args) :
              s.args[k].mode \in {"ref", "ptr"} => s.args[k].v \in handleCallExpr(T, s.args).writes
         /\ T \in Table => /\ handleCallExpr(T, s.args).reads \subseteq Var
                           /\ handleCallExpr(T, s.args).writes \subseteq Var
<1> DEFINE all == {s.args[k] : k \in 1..Len(s.args)}
<1>1. /\ handleCallExpr(T, s.args).reads = UNION {CallReads(T, a) : a \in all}
      /\ handleCallExpr(T, s.args).writes = {a.v : a \in {b \in all : b.mode \in {"ref", "ptr"}}}
  BY DEF handleCallExpr, CallReads
<1>2. \A a \in all : a \in Argument /\ a.v \in Var
  BY StatementFacts
<1>3. T \in Table => \A a \in all : CallReads(T, a) \subseteq Var
  BY <1>2, ExprType DEF CallReads
<1>4. \A k \in 1..Len(s.args) : s.args[k] \in all
  OBVIOUS
<1> HIDE DEF all
<1> QED BY <1>1, <1>2, <1>3, <1>4

LEMMA CallCovered ==
  ASSUME FootprintTypeOK, NEW T \in Table, Known(T), NEW X \in SUBSET Var, Closed(Names(T), X),
         NEW s \in Statement,
         \A k \in 1..Len(s.args) :
           HandledArgument(s.args[k]) /\ Followed(T, s.args[k].v, s.args[k].d)
  PROVE  /\ handleCallExpr(T, s.args).reads \subseteq X => ArgReads(s.args) \cap Var \subseteq X
         /\ handleCallExpr(T, s.args).writes \subseteq X => CalleeWrites(s.args) \cap Var \subseteq X
<1>1. ASSUME handleCallExpr(T, s.args).reads \subseteq X, NEW k \in 1..Len(s.args)
      PROVE  OneArgReads(s.args[k]) \cap Var \subseteq X
  <2>1. s.args[k] \in Argument /\ CallReads(T, s.args[k]) \subseteq X
    BY <1>1, StatementFacts, CallExprFacts
  <2> QED BY <2>1, ArgumentCovered DEF CallReads
<1>2. ASSUME handleCallExpr(T, s.args).writes \subseteq X, NEW k \in 1..Len(s.args)
      PROVE  OneArgWrites(s.args[k]) \cap Var \subseteq X
  <2>1. s.args[k] \in Argument /\ (s.args[k].mode \in {"ref", "ptr"} => s.args[k].v \in X)
    BY <1>2, StatementFacts, CallExprFacts
  <2> QED BY <2>1, WrittenCovered
<1> QED BY <1>1, <1>2, ArgReadsDef, CalleeWritesDef

\* What a callee follows from an argument, if it keeps to what the call names.
LEMMA FoundNamed ==
  ASSUME NEW s \in Statement, NEW S \in SUBSET Args(s),
         \A k \in 1..Len(s.args) : HandledArgument(s.args[k]), Calls(s), Named(s)
  PROVE  \A o \in Found(s, S) : \E a \in S : /\ a.mode # "value"
                                             /\ o \in {ObjectAt(a.v, 0), a.v}
<1> SUFFICES ASSUME NEW o \in Found(s, S)
             PROVE  \E a \in S : a.mode # "value" /\ o \in {ObjectAt(a.v, 0), a.v}
  OBVIOUS
<1>1. PICK a \in S : Does(s, "follows") /\ \E n \in 0..(PointerLevel(a) - 1) : o = Follow(PointerTo(a), n)
  BY DEF Found
<1>2. PICK n \in 0..(PointerLevel(a) - 1) : o = Follow(PointerTo(a), n)
  BY <1>1
<1>3. a.v \in Var /\ a.d \in -1..2 /\ a.mode \in Mode /\ HandledArgument(a)
  BY StatementFacts DEF Args
<1>4. Level[a.v] = 0 /\ (a.mode = "value" => a.d = 0) /\ a.d \in {-1, 0}
  BY <1>1, <1>3 DEF Named, HandledArgument
<1>5. CASE a.mode \in {"ref", "refRO"}
  <2>1. a.d = 0 /\ PointerLevel(a) = 1
    BY <1>3, <1>4, <1>5 DEF HandledArgument, PointerLevel
  <2>2. n = 0
    BY <2>1, <1>2
  <2>3. o = ObjectAt(a.v, 0)
    BY <2>1, <2>2, <1>2, <1>5 DEF Follow, PointerTo, Object
  <2> QED BY <2>3, <1>5
<1>6. CASE a.mode \notin {"ref", "refRO"}
  <2>1. PointerLevel(a) = 0 - a.d
    BY <1>4, <1>6 DEF PointerLevel
  <2>2. a.d = -1 /\ n = 0
    BY <2>1, <1>2, <1>4
  <2>3. o = a.v
    BY <2>2, <1>2, <1>6 DEF Follow, PointerTo, Value
  <2> QED BY <2>2, <2>3, <1>4
<1> QED BY <1>5, <1>6

\* All that a call touches whose callee keeps to what the call names.
LEMMA NamedCallCovered ==
  ASSUME FootprintTypeOK, NEW T \in Table, Known(T),
         NEW X \in SUBSET Var, Closed(Names(T), X), NEW Y \in SUBSET Var, Closed(Names(T), Y),
         NEW s \in Statement, Calls(s), Named(s),
         \A k \in 1..Len(s.args) :
           HandledArgument(s.args[k]) /\ Followed(T, s.args[k].v, s.args[k].d),
         handleCallExpr(T, s.args).reads \subseteq X,
         handleCallExpr(T, s.args).writes \subseteq Y
  PROVE  ReadByCall(s) \cap Var \subseteq X /\ WrittenByCall(s) \cap Var \subseteq Y
<1>1. ArgReads(s.args) \cap Var \subseteq X /\ CalleeWrites(s.args) \cap Var \subseteq Y
  BY CallCovered
<1>2. \A a \in Args(s) : a.mode # "value" => a.v \in X
  <2>1. \A k \in 1..Len(s.args) : CallReads(T, s.args[k]) \subseteq X
    BY CallExprFacts
  <2> QED BY <2>1 DEF Args, CallReads
<1>3. \A a \in Written(s) : a \in Args(s) /\ a.mode # "value" /\ a.v \in Y
  <2>1. \A k \in 1..Len(s.args) : s.args[k].mode \in {"ref", "ptr"} => s.args[k].v \in Y
    BY CallExprFacts
  <2> QED BY <2>1 DEF Args, Written
<1>4. Found(s, Args(s)) \cap Var \subseteq X
  <2>1. \A o \in Found(s, Args(s)) : \E a \in Args(s) : /\ a.mode # "value"
                                                        /\ o \in {ObjectAt(a.v, 0), a.v}
    BY FoundNamed
  <2>2. \A v \in X : ObjectAt(v, 0) \in Var => ObjectAt(v, 0) \in X
    BY NamedCovered
  <2> QED BY <2>1, <2>2, <1>2
<1>5. Found(s, Written(s)) \cap Var \subseteq Y
  <2>0. Written(s) \in SUBSET Args(s)
    BY DEF Written
  <2>1. \A o \in Found(s, Written(s)) : \E a \in Written(s) : /\ a.mode # "value"
                                                              /\ o \in {ObjectAt(a.v, 0), a.v}
    BY <2>0, FoundNamed
  <2>2. \A v \in Y : ObjectAt(v, 0) \in Var => ObjectAt(v, 0) \in Y
    BY NamedCovered
  <2> QED BY <2>1, <2>2, <1>3
<1>6. s.callee.globals \subseteq X /\ s.callee.globals \subseteq Y
  BY <1>2, <1>3 DEF Named
<1>7. GlobalObjects(s) \cap Var \subseteq X
  BY <1>6, NamedCovered DEF GlobalObjects
<1>8. GlobalObjects(s) \cap Var \subseteq Y
  BY <1>6, NamedCovered DEF GlobalObjects
<1> QED BY <1>1, <1>4, <1>5, <1>6, <1>7, <1>8 DEF ReadByCall, WrittenByCall

-----------------------------------------------------------------------------
(* One lemma per statement form.                                           *)

\* The table after an assignment, and what the old pointers are in it.
LEMMA AssignedTable ==
  ASSUME TableInv, NEW s \in Statement, HandledAssignment(s),
         NEW left, left = getModifiedVariables(aliasTable, s.lhs.v, s.lhs.d),
         NEW level, level = Level[s.lhs.v] - s.lhs.d,
         NEW U \in AssignTables(s, left, level)
  PROVE  /\ U \in Table /\ U.references = aliasTable.references /\ Single(U) /\ Known(U)
         /\ \A v \in Var : Level[v] = 0 => U.aliased[v] = aliasTable.aliased[v]
         /\ \A k \in 1..Len(s.args) : Followed(U, s.args[k].v, s.args[k].d)
<1>0. /\ s.lhs.v \in Var /\ s.lhs.d \in 0..2 /\ level \in 0..2
      /\ level = 0 => U = aliasTable
      /\ level > 0 => AssignOK(s, left, level, U)
  BY AssignTablesFacts
<1>1. CASE level = 0
  <2>1. U = aliasTable
    BY <1>0, <1>1
  <2>2. ASSUME NEW k \in 1..Len(s.args) PROVE Followed(U, s.args[k].v, s.args[k].d)
    <3>1. s.args[k].v \in Var /\ s.args[k].d \in Int /\ s.args[k].d <= Level[s.args[k].v]
      BY StatementFacts DEF HandledAssignment, HandledOperand, HandledArgument
    <3> QED BY <3>1, <2>1, NowFacts
  <2> QED BY <2>1, <2>2, NowFacts
<1>2. CASE level > 0
  <2>1. AssignOK(s, left, level, U)
    BY <1>0, <1>2
  <2>2. \A l \in left : l \in Var /\ Level[l] = level
    BY <1>0, <1>2, NowFacts, LeftFacts
  <2>3. \A v \in Var : Level[v] = 0 => U.aliased[v] = aliasTable.aliased[v]
    BY <2>1, <2>2, <1>2 DEF AssignOK
  <2>4. Referred(U) = Referred(aliasTable)
    BY <2>3, AliasTypes DEF Referred
  <2>5. Known(U)
    BY <2>4, NowFacts DEF Known
  <2>6. Single(U)
    <3> SUFFICES ASSUME NEW v \in Var, Level[v] = 2, NEW a \in U.aliased[v], NEW b \in U.aliased[v]
                 PROVE  a = b /\ Level[a] = 1
      BY DEF Single
    <3>1. CASE v \in left
      BY <3>1, <2>1, <2>2 DEF AssignOK
    <3>2. CASE v \notin left
      BY <3>2, <2>1, NowFacts DEF AssignOK, Single
    <3> QED BY <3>1, <3>2
  <2> QED BY <2>1, <2>3, <2>5, <2>6 DEF AssignOK
<1> QED BY <1>0, <1>1, <1>2

\* Its instruction has what an execution reads and writes.
LEMMA AssignmentCovered ==
  ASSUME TableInv, NEW s \in Statement, HandledAssignment(s),
         NEW left, left = getModifiedVariables(aliasTable, s.lhs.v, s.lhs.d),
         NEW level, level = Level[s.lhs.v] - s.lhs.d,
         NEW U \in AssignTables(s, left, level),
         aliasTable' = U, instr' = handleBinaryAssignment(U, left, s)
  PROVE  /\ instr' \in Footprint /\ InstrClosed'
         /\ Named(s) =>
              /\ ((IF s.call THEN ReadByCall(s) ELSE ArgReads(s.args)) \cup Path(s.lhs)
                    \cup (IF s.op = "op=" THEN {Object(s.lhs)} ELSE {})) \cap Var \subseteq instr'.reads
              /\ ({Object(s.lhs)} \cup (IF s.call THEN WrittenByCall(s) ELSE {}))
                    \cap Var \subseteq instr'.writes
<1>0. /\ s.lhs.v \in Var /\ s.lhs.d \in 0..2 /\ s.lhs.d <= Level[s.lhs.v] /\ level \in 0..2
      /\ level = 0 => U = aliasTable
  BY AssignTablesFacts
<1>1. /\ U \in Table /\ Known(U)
      /\ \A k \in 1..Len(s.args) : Followed(U, s.args[k].v, s.args[k].d)
  BY AssignedTable
<1>2. PICK rhs : rhs = handleRHS(U, s)
  OBVIOUS
<1>3. PICK access : access = IF s.lhs.d > 0 THEN getPointerAccessedVariables(U, s.lhs.v, s.lhs.d) ELSE {}
  OBVIOUS
<1> DEFINE R == {s.lhs.v} \cup getAllReadDeclRefExprInsideExpr(s.args) \cup rhs.reads
                  \cup (IF s.op = "op=" THEN left ELSE {}) \cup access
           W == left \cup rhs.writes
<1>4. instr' = Dependencies(U, R, W)
  BY <1>2, <1>3 DEF handleBinaryAssignment
<1>5. rhs.reads \subseteq Var /\ rhs.writes \subseteq Var
  <2>1. CASE s.call
    BY <2>1, <1>1, <1>2, CallExprFacts DEF handleRHS
  <2>2. CASE ~s.call
    <3>1. \A k \in 1..Len(s.args) : handleExpr(U, s.args[k]) \subseteq Var
      BY <1>1, StatementFacts, ExprType
    <3>2. UNION {handleExpr(U, s.args[k]) : k \in 1..Len(s.args)} \subseteq Var
      BY <3>1
    <3> QED BY <2>2, <3>2, <1>2 DEF handleRHS
  <2> QED BY <2>1, <2>2
<1>6. R \subseteq Var /\ W \subseteq Var
  <2>1. left \subseteq Var
    BY <1>0, NowFacts, ModifiedType
  <2>2. access \subseteq Var
    BY <1>0, <1>1, <1>3, AccessedType
  <2>3. getAllReadDeclRefExprInsideExpr(s.args) \subseteq Var
    BY StatementFacts DEF getAllReadDeclRefExprInsideExpr
  <2> QED BY <2>1, <2>2, <2>3, <1>0, <1>5
<1>r. {s.lhs.v} \cup rhs.reads \cup access \subseteq R /\ (s.op = "op=" => left \subseteq R)
  OBVIOUS
<1>w. left \cup rhs.writes \subseteq W
  OBVIOUS
<1> HIDE DEF R, W
<1>7. /\ instr' \in Footprint /\ InstrClosed'
      /\ instr'.reads \in SUBSET Var /\ instr'.writes \in SUBSET Var
      /\ R \subseteq instr'.reads /\ W \subseteq instr'.writes
      /\ Closed(Names(U), instr'.reads) /\ Closed(Names(U), instr'.writes)
  BY <1>1, <1>4, <1>6, InstrFacts
<1>p. PICK X \in SUBSET Var : X = instr'.reads
  BY <1>7
<1>q. PICK Y \in SUBSET Var : Y = instr'.writes
  BY <1>7
<1>t. FootprintTypeOK
  BY DEF TableInv
<1>8. Object(s.lhs) \in Var => Object(s.lhs) \in left
  BY <1>0, <1>t, NowFacts, ObjectModified DEF Object
<1>9. Path(s.lhs) \cap Var \subseteq X
  <2>1. s.lhs.v \in X
    BY <1>r, <1>7, <1>p
  <2>2. CASE s.lhs.d = 0 \/ s.lhs.d = 1
    BY <2>1, <2>2, <1>0, PathFacts
  <2>3. CASE s.lhs.d = 2
    <3>1. U = aliasTable /\ access = getPointerAccessedVariables(U, s.lhs.v, 2) /\ Level[s.lhs.v] = 2
      BY <2>3, <1>0, <1>3, AliasTypes
    <3>2. aliasTable.aliased[s.lhs.v] \subseteq X
      BY <3>1, <1>r, <1>7, <1>p, AccessedFacts
    <3>3. pointsTo[s.lhs.v] \in Var => pointsTo[s.lhs.v] \in X
      BY <3>1, <3>2, <1>0, NowFacts
    <3> QED BY <2>1, <2>3, <3>3, <1>0, PathFacts
  <2> QED BY <1>0, <2>2, <2>3
<1>10. CASE s.call
  <2>1. rhs = handleCallExpr(U, s.args)
    BY <1>2, <1>10 DEF handleRHS
  <2>2. \A k \in 1..Len(s.args) : HandledArgument(s.args[k])
    BY <1>10 DEF HandledAssignment
  <2>3. rhs.reads \subseteq X /\ rhs.writes \subseteq Y /\ Calls(s)
    BY <1>10, <1>r, <1>w, <1>7, <1>p, <1>q DEF Calls
  <2>4. Named(s) => ReadByCall(s) \cap Var \subseteq X /\ WrittenByCall(s) \cap Var \subseteq Y
    BY <2>1, <2>2, <2>3, <1>1, <1>7, <1>p, <1>q, <1>t, NamedCallCovered
  <2> QED BY <2>4, <1>7, <1>8, <1>9, <1>10, <1>r, <1>w, <1>p, <1>q
<1>11. CASE ~s.call
  <2>1. rhs.reads = UNION {handleExpr(U, s.args[k]) : k \in 1..Len(s.args)}
    BY <1>2, <1>11 DEF handleRHS
  <2>2. \A k \in 1..Len(s.args) : HandledOperand(s.args[k])
    BY <1>11 DEF HandledAssignment
  <2>3. UNION {handleExpr(U, s.args[k]) : k \in 1..Len(s.args)} \subseteq X
    BY <2>1, <1>r, <1>7, <1>p
  <2>4. ArgReads(s.args) \cap Var \subseteq X
    BY <2>2, <2>3, <1>1, <1>7, <1>p, <1>t, OperandsCovered
  <2> QED BY <2>4, <1>7, <1>8, <1>9, <1>11, <1>r, <1>w, <1>p, <1>q
<1> QED BY <1>10, <1>11

LEMMA AssignmentStep ==
  ASSUME AllHandled, TableInv, NEW s \in Statements, Assignment(s)
  PROVE  FootprintInv'
<1>0. s \in Statement /\ HandledAssignment(s)
  BY FootprintAssumption DEF AllHandled, Handled, HandledForm, Assignment
<1>1. PICK level : level = Level[s.lhs.v] - s.lhs.d
  OBVIOUS
<1>2. PICK left : left = getModifiedVariables(aliasTable, s.lhs.v, s.lhs.d)
  OBVIOUS
<1>3. PICK U \in AssignTables(s, left, level) :
        aliasTable' = U /\ instr' = handleBinaryAssignment(U, left, s)
  BY <1>1, <1>2 DEF Assignment
<1>4. /\ s.lhs.v \in Var /\ s.lhs.d \in 0..2 /\ level \in 0..2
      /\ level = 0 => U = aliasTable
      /\ level > 0 => AssignOK(s, left, level, U)
  BY <1>0, <1>1, <1>2, AssignTablesFacts
<1>5. /\ U \in Table /\ U.references = aliasTable.references /\ Single(U)
      /\ \A v \in Var : Level[v] = 0 => U.aliased[v] = aliasTable.aliased[v]
  BY <1>0, <1>1, <1>2, AssignedTable
<1>6. /\ instr' \in Footprint /\ InstrClosed'
      /\ Named(s) =>
           /\ ((IF s.call THEN ReadByCall(s) ELSE ArgReads(s.args)) \cup Path(s.lhs)
                 \cup (IF s.op = "op=" THEN {Object(s.lhs)} ELSE {})) \cap Var \subseteq instr'.reads
           /\ ({Object(s.lhs)} \cup (IF s.call THEN WrittenByCall(s) ELSE {}))
                 \cap Var \subseteq instr'.writes
  BY <1>0, <1>1, <1>2, <1>3, AssignmentCovered
<1>7. \A l \in left : level > 0 => l \in Var /\ Level[l] = level
  BY <1>1, <1>2, <1>4, NowFacts, LeftFacts
<1>8. pointsTo \in [Var -> Var \cup {Unset, Foreign}]
  BY DEF TableInv, FootprintTypeOK
<1>a. s.call => AfterCall(s) \subseteq {pointsTo}
  <2>1. s.call => HandledCallee(s)
    BY FootprintAssumption DEF AllHandled, Handled, Calls
  <2> QED BY <2>1, <1>0, AfterCallFacts DEF TableInv
<1>9. CASE RunAssignment(s, level)
  <2>1. /\ Object(s.lhs) # Unset /\ Defined(s.args)
        /\ touched' \in Footprint /\ named' \in BOOLEAN /\ FootprintSound'
    <3>1. Touch(s, (IF s.call THEN ReadByCall(s) ELSE ArgReads(s.args)) \cup Path(s.lhs)
                     \cup (IF s.op = "op=" THEN {Object(s.lhs)} ELSE {}),
                {Object(s.lhs)} \cup (IF s.call THEN WrittenByCall(s) ELSE {}))
      BY <1>9 DEF RunAssignment
    <3>2. touched' \in Footprint /\ named' \in BOOLEAN /\ FootprintSound'
      BY <3>1, <1>6, TouchFacts
    <3> QED BY <3>2, <1>9 DEF RunAssignment
  <2>2. CASE level = 0
    <3>1. pointsTo' = pointsTo
      BY <1>9, <1>a, <2>2 DEF RunAssignment
    <3>2. TableInv'
      BY <2>1, <2>2, <3>1, <1>3, <1>4, <1>5, <1>6, <1>8, NowFacts, TableKept
    <3> QED BY <3>2, <2>1, <1>6 DEF FootprintInv, TableInv
  <2>3. CASE level > 0
    <3>1. PICK target \in Var : target = Object(s.lhs) /\ left = {target}
      BY <2>1, <2>3, <1>0, <1>1, <1>2, <1>4, TargetFacts
    <3>2. PICK val \in Values(s, level) : pointsTo' = [pointsTo EXCEPT ![target] = val]
      BY <1>9, <1>a, <2>3, <3>1 DEF RunAssignment, Values
    <3>h. s.call => \A k \in 1..Len(s.args) : HandledArgument(s.args[k])
      BY <1>0 DEF HandledAssignment
    <3>t. level \in Int
      BY <1>4
    <3>v. Values(s, level) \subseteq Var \cup {Unset, Foreign}
      BY <3>h, <3>t, <1>0, ValuesType DEF TableInv
    <3>3. val \in Var \cup {Unset, Foreign} /\ Level[target] = level
      BY <3>1, <3>2, <3>v, <2>3, <1>7
    <3>4. PICK P \in [Var -> Var \cup {Unset, Foreign}] : pointsTo' = P /\ P[target] = val
                /\ \A v \in Var : v # target => P[v] = pointsTo[v]
      BY <3>2, <3>3, <1>8
    <3>5. AssignOK(s, left, level, U)
      BY <2>3, <1>4
    <3>6. /\ val \in Var \/ level = 2 => val \in U.aliased[target]
          /\ \A v \in Var : v # target => U.aliased[v] = aliasTable.aliased[v]
      BY <3>1, <3>5, <2>1 DEF AssignOK
    <3>7. \A v \in Var : Level[v] = 0 => P[v] = pointsTo[v]
      BY <3>3, <3>4, <2>3
    <3>8. \A v \in Var : Level[v] > 0 /\ P[v] \in Var => P[v] \in U.aliased[v]
      BY <3>4, <3>6, NowFacts
    <3>9. \A v \in Var : Level[v] = 2 => P[v] \in U.aliased[v] \cup {Unset}
      BY <3>3, <3>4, <3>6, NowFacts
    <3>10. TableInv'
      BY <2>1, <3>4, <3>7, <3>8, <3>9, <1>3, <1>5, <1>6, TableKept
    <3> QED BY <3>10, <2>1, <1>6 DEF FootprintInv, TableInv
  <2> QED BY <1>4, <2>2, <2>3
<1>10. CASE NotTaken(s)
  <2>1. s \in Skippable /\ pointsTo' = pointsTo /\ touched' \in Footprint /\ named' \in BOOLEAN /\ FootprintSound'
    BY <1>10, NotTakenFacts
  <2>2. level # 2
    BY <2>1, <1>0, <1>1 DEF HandledAssignment
  <2>3. \A v \in Var : aliasTable.aliased[v] \subseteq U.aliased[v]
    BY <2>1, <1>4 DEF AssignOK
  <2>4. \A v \in Var : Level[v] > 0 /\ pointsTo[v] \in Var => pointsTo[v] \in U.aliased[v]
    BY <2>3, NowFacts
  <2>5. \A v \in Var : Level[v] = 2 => pointsTo[v] \in U.aliased[v] \cup {Unset}
    BY <2>3, NowFacts
  <2>6. TableInv'
    BY <2>1, <2>4, <2>5, <1>3, <1>5, <1>6, <1>8, TableKept
  <2> QED BY <2>1, <2>6, <1>6 DEF FootprintInv, TableInv
<1> QED
  <2>1. RunAssignment(s, level) \/ NotTaken(s)
    BY <1>1 DEF Assignment
  <2> QED BY <2>1, <1>9, <1>10

\* The other steps but a binding leave the table.
LEMMA TableUnchanged ==
  ASSUME AllHandled, TableInv, aliasTable' = aliasTable, NEW P, pointsTo' = P,
         P = pointsTo \/ \E p \in Var : P = [pointsTo EXCEPT ![p] = Unset],
         instr' \in Footprint, touched' \in Footprint /\ named' \in BOOLEAN
  PROVE  TableInv'
<1>1. pointsTo \in [Var -> Var \cup {Unset, Foreign}] /\ Unset \notin Var
  BY FootprintAssumption DEF TableInv, FootprintTypeOK
<1>2. P \in [Var -> Var \cup {Unset, Foreign}] /\ \A v \in Var : P[v] \in {pointsTo[v], Unset}
  BY <1>1
<1> QED BY <1>1, <1>2, NowFacts, TableKept

LEMMA IncrementStep ==
  ASSUME AllHandled, TableInv, NEW s \in Statements, Increment(s)
  PROVE  FootprintInv'
<1> DEFINE T == aliasTable
<1>a. s \in Statement /\ Handled(s)
  BY FootprintAssumption DEF AllHandled
<1>b. Len(s.args) = 1 /\ HandledOperand(s.args[1]) /\ s.args[1].d >= 0
  BY <1>a DEF Handled, HandledForm, Increment
<1>0. PICK e \in Argument : e = s.args[1]
  BY <1>a, <1>b, StatementFacts
<1>1. /\ s \in Statement /\ Len(s.args) = 1 /\ HandledOperand(e)
      /\ e.v \in Var /\ e.d \in 0..2 /\ e.d <= Level[e.v]
  BY <1>0, <1>a, <1>b DEF HandledOperand, Argument
<1>2. T \in Table /\ Known(T) /\ Followed(T, e.v, e.d) /\ FootprintTypeOK
  BY <1>1, NowFacts DEF TableInv
<1>3. PICK aliases : aliases = getModifiedVariables(T, e.v, e.d)
  OBVIOUS
<1>4. PICK access : access = getPointerAccessedVariables(T, e.v, e.d)
  OBVIOUS
<1>5. instr' = Dependencies(T, {e.v} \cup aliases \cup access, aliases) /\ aliasTable' = T
  BY <1>0, <1>3, <1>4 DEF Increment, handleUnaryOperator
<1>6. PICK read \in SUBSET Var : read = {e.v} \cup aliases \cup access /\ aliases \in SUBSET Var
  BY <1>1, <1>2, <1>3, <1>4, ModifiedType, AccessedType
<1>7. PICK X \in SUBSET Var, Y \in SUBSET Var :
        /\ instr' \in Footprint /\ InstrClosed' /\ X = instr'.reads /\ Y = instr'.writes
        /\ {e.v} \cup aliases \cup access \subseteq X /\ aliases \subseteq Y
        /\ Closed(Names(T), X) /\ Closed(Names(T), Y)
  <2>1. instr' = Dependencies(T, read, aliases)
    BY <1>5, <1>6
  <2>2. /\ instr' \in Footprint /\ InstrClosed'
        /\ instr'.reads \in SUBSET Var /\ instr'.writes \in SUBSET Var
        /\ read \subseteq instr'.reads /\ aliases \subseteq instr'.writes
        /\ Closed(Names(T), instr'.reads) /\ Closed(Names(T), instr'.writes)
    BY <2>1, <1>2, <1>5, <1>6, InstrFacts
  <2> QED BY <2>2, <1>6
<1>8. ArgReads(s.args) \cap Var \subseteq X
  <2>1. handleExpr(T, e) \subseteq X
    <3>1. getPointerAccessedVariables(T, e.v, e.d - 1) \subseteq access
      BY <1>1, <1>4 DEF getPointerAccessedVariables
    <3> QED BY <3>1, <1>3, <1>7 DEF handleExpr
  <2>2. OneArgReads(e) \cap Var \subseteq X
    BY <2>1, <1>1, <1>2, <1>7, OperandCovered
  <2>3. ArgReads(s.args) = UNION {OneArgReads(s.args[k]) : k \in 1..1}
    BY <1>1, ArgReadsDef
  <2> QED BY <2>2, <2>3, <1>0
<1>9. Object(e) \in Var => Object(e) \in Y
  BY <1>1, <1>2, <1>3, <1>7, ObjectModified DEF Object
<1>10. touched' \in Footprint /\ named' \in BOOLEAN /\ FootprintSound' /\ pointsTo' = pointsTo
  <2>1. CASE NotTaken(s)
    BY <2>1, NotTakenFacts
  <2>2. CASE ~NotTaken(s)
    <3>1. Touch(s, ArgReads(s.args), {Object(e)}) /\ pointsTo' = pointsTo
      BY <2>2, <1>0 DEF Increment
    <3> QED BY <3>1, <1>7, <1>8, <1>9, TouchFacts
  <2> QED BY <2>1, <2>2
<1>11. TableInv'
  BY <1>5, <1>7, <1>10, TableUnchanged
<1> QED BY <1>7, <1>10, <1>11 DEF FootprintInv, TableInv

LEMMA CallStep ==
  ASSUME AllHandled, TableInv, NEW s \in Statements, Call(s)
  PROVE  FootprintInv'
<1> DEFINE T == aliasTable
<1>1. s \in Statement /\ \A k \in 1..Len(s.args) : HandledArgument(s.args[k])
  BY FootprintAssumption DEF AllHandled, Handled, HandledForm, Call
<1>2. T \in Table /\ Known(T) /\ FootprintTypeOK
  BY NowFacts DEF TableInv
<1>3. \A k \in 1..Len(s.args) : Followed(T, s.args[k].v, s.args[k].d)
  <2> SUFFICES ASSUME NEW k \in 1..Len(s.args) PROVE Followed(T, s.args[k].v, s.args[k].d)
    OBVIOUS
  <2>1. s.args[k].v \in Var /\ s.args[k].d \in Int /\ s.args[k].d <= Level[s.args[k].v]
    BY <1>1, StatementFacts DEF HandledArgument
  <2> QED BY <2>1, NowFacts
<1>4. PICK callee : callee = handleCallExpr(T, s.args)
  OBVIOUS
<1>5. PICK read \in SUBSET Var : read = getAllReadDeclRefExprInsideExpr(s.args) \cup callee.reads
  <2>1. getAllReadDeclRefExprInsideExpr(s.args) \subseteq Var
    BY <1>1, StatementFacts DEF getAllReadDeclRefExprInsideExpr
  <2> QED BY <2>1, <1>1, <1>2, <1>4, CallExprFacts
<1>6. instr' = Dependencies(T, read, callee.writes) /\ aliasTable' = T
  BY <1>4, <1>5 DEF Call
<1>7. callee.writes \in SUBSET Var
  BY <1>1, <1>2, <1>4, CallExprFacts
<1>8. PICK X \in SUBSET Var, Y \in SUBSET Var :
        /\ instr' \in Footprint /\ InstrClosed' /\ X = instr'.reads /\ Y = instr'.writes
        /\ callee.reads \subseteq X /\ callee.writes \subseteq Y
        /\ Closed(Names(T), X) /\ Closed(Names(T), Y)
  <2>1. /\ instr' \in Footprint /\ InstrClosed'
        /\ instr'.reads \in SUBSET Var /\ instr'.writes \in SUBSET Var
        /\ read \subseteq instr'.reads /\ callee.writes \subseteq instr'.writes
        /\ Closed(Names(T), instr'.reads) /\ Closed(Names(T), instr'.writes)
    BY <1>2, <1>6, <1>7, InstrFacts
  <2> QED BY <2>1, <1>5
<1>9. Calls(s)
  BY DEF Call, Calls
<1>10. Named(s) => ReadByCall(s) \cap Var \subseteq X /\ WrittenByCall(s) \cap Var \subseteq Y
  BY <1>1, <1>2, <1>3, <1>4, <1>8, <1>9, NamedCallCovered
<1>11. touched' \in Footprint /\ named' \in BOOLEAN /\ FootprintSound' /\ pointsTo' = pointsTo
  <2>1. CASE NotTaken(s)
    BY <2>1, NotTakenFacts
  <2>2. CASE ~NotTaken(s)
    <3>1. Touch(s, ReadByCall(s), WrittenByCall(s)) /\ pointsTo' \in AfterCall(s)
      BY <2>2 DEF Call
    <3>2. HandledCallee(s)
      BY <1>9, FootprintAssumption DEF AllHandled, Handled
    <3>3. pointsTo' = pointsTo
      BY <3>1, <3>2, <1>1, <1>2, AfterCallFacts
    <3> QED BY <3>1, <3>3, <1>8, <1>10, TouchFacts
  <2> QED BY <2>1, <2>2
<1>12. TableInv'
  BY <1>6, <1>8, <1>11, TableUnchanged
<1> QED BY <1>8, <1>11, <1>12 DEF FootprintInv, TableInv

LEMMA MemberCallStep ==
  ASSUME AllHandled, TableInv, NEW s \in Statements, MemberCall(s)
  PROVE  FootprintInv'
<1> DEFINE T == aliasTable
<1>a. s \in Statement /\ Handled(s)
  BY FootprintAssumption DEF AllHandled
<1>b. Len(s.args) = 1 /\ HandledOperand(s.args[1]) /\ s.args[1].d = 0
  BY <1>a DEF Handled, HandledForm, MemberCall
<1>0. PICK e \in Argument : e = s.args[1]
  BY <1>a, <1>b, StatementFacts
<1>1. s \in Statement /\ Len(s.args) = 1 /\ HandledOperand(e) /\ e.v \in Var /\ e.d = 0
  BY <1>0, <1>a, <1>b DEF Argument
<1>2. T \in Table /\ Known(T) /\ FootprintTypeOK /\ Followed(T, e.v, e.d)
  BY <1>1, NowFacts DEF TableInv, Followed
<1>3. PICK written \in SUBSET Var : written = IF s.op = "method" THEN {e.v} ELSE {}
  BY <1>1
<1>c. Calls(s) /\ HandledCallee(s)
  BY <1>a DEF MemberCall, Calls, Handled
<1>4. instr' = Dependencies(T, {e.v}, written) /\ aliasTable' = T /\ pointsTo' = pointsTo
  <2>1. AfterCall(s) \subseteq {pointsTo}
    BY <1>c, <1>1, <1>2, AfterCallFacts
  <2> QED BY <2>1, <1>0, <1>1, <1>3 DEF MemberCall
<1>5. PICK X \in SUBSET Var, Y \in SUBSET Var :
        /\ instr' \in Footprint /\ InstrClosed' /\ X = instr'.reads /\ Y = instr'.writes
        /\ {e.v} \subseteq X /\ written \subseteq Y
        /\ Closed(Names(T), X) /\ Closed(Names(T), Y)
  BY <1>1, <1>2, <1>4, InstrFacts
<1>6. ArgReads(s.args) \cap Var \subseteq X
  <2>1. handleExpr(T, e) \subseteq X
    BY <1>1, <1>5 DEF handleExpr
  <2>2. OneArgReads(e) \cap Var \subseteq X
    BY <2>1, <1>1, <1>2, <1>5, OperandCovered
  <2>3. ArgReads(s.args) = UNION {OneArgReads(s.args[k]) : k \in 1..1}
    BY <1>1, ArgReadsDef
  <2> QED BY <2>2, <2>3, <1>0
<1>7. (IF s.op = "method" THEN {Object(e)} ELSE {}) \cap Var \subseteq Y
  <2>1. s.op = "method" => (Object(e) \in Var => Object(e) \in Y)
    BY <1>1, <1>2, <1>3, <1>5, NamedCovered DEF Object
  <2> QED BY <2>1
\* The object is handed over as a value, so the method has nothing to follow.
<1>8. Named(s) => ReadByCall(s) = ArgReads(s.args) /\ WrittenByCall(s) = {}
  <2>0. Args(s) = {e} /\ e.mode = "value"
    BY <1>0, <1>1 DEF Args, HandledOperand
  <2>1. Written(s) = {}
    BY <2>0 DEF Written
  <2>2. Named(s) => s.callee.globals = {}
    BY <2>1, <1>c DEF Named
  <2>3. Named(s) => \A S \in SUBSET Args(s) : Found(s, S) = {}
    <3> SUFFICES ASSUME Named(s), Does(s, "follows"), NEW S \in SUBSET Args(s), NEW a \in S
                 PROVE  0..(PointerLevel(a) - 1) = {}
      BY DEF Found
    <3>1. a = e /\ Level[a.v] = 0
      BY <2>0, <1>c DEF Named
    <3>2. PointerLevel(a) = 0
      BY <3>1, <2>0, <1>1 DEF PointerLevel
    <3> QED BY <3>2
  <2>4. CalleeWrites(s.args) = {}
    <3>1. \A k \in 1..Len(s.args) : OneArgWrites(s.args[k]) = {}
      BY <2>0 DEF Args, OneArgWrites
    <3> QED BY <3>1, CalleeWritesDef
  <2>5. Written(s) \in SUBSET Args(s) /\ Args(s) \in SUBSET Args(s)
    BY DEF Written
  <2> QED BY <2>2, <2>3, <2>4, <2>5 DEF ReadByCall, WrittenByCall, GlobalObjects
<1>9. touched' \in Footprint /\ named' \in BOOLEAN /\ FootprintSound'
  <2>1. Touch(s, ReadByCall(s), (IF s.op = "method" THEN {Object(e)} ELSE {}) \cup WrittenByCall(s))
    BY <1>0 DEF MemberCall
  <2> QED BY <2>1, <1>5, <1>6, <1>7, <1>8, TouchFacts
<1>10. TableInv'
  BY <1>4, <1>5, <1>9, TableUnchanged
<1> QED BY <1>5, <1>9, <1>10 DEF FootprintInv, TableInv

LEMMA DeleteStep ==
  ASSUME AllHandled, TableInv, NEW s \in Statements, Delete(s)
  PROVE  FootprintInv'
<1>a. s \in Statement /\ Handled(s)
  BY FootprintAssumption DEF AllHandled
<1>b. Len(s.args) = 1
  BY <1>a DEF Handled, HandledForm, Delete
<1>1. PICK p \in Var : p = s.args[1].v
  BY <1>a, <1>b, StatementFacts
<1>2. /\ instr' = Dependencies(aliasTable, {p}, {p}) /\ aliasTable' = aliasTable
      /\ Touch(s, {p}, {}) /\ pointsTo' = [pointsTo EXCEPT ![p] = Unset]
  BY <1>1 DEF Delete
<1>3. instr' \in Footprint /\ InstrClosed' /\ {p} \subseteq instr'.reads
  <2>1. aliasTable \in Table /\ {p} \in SUBSET Var
    BY NowFacts
  <2> QED BY <2>1, <1>2, InstrFacts
<1>4. touched' \in Footprint /\ named' \in BOOLEAN /\ FootprintSound'
  BY <1>2, <1>3, TouchFacts
<1>5. TableInv'
  BY <1>2, <1>3, <1>4, TableUnchanged
<1> QED BY <1>3, <1>4, <1>5 DEF FootprintInv, TableInv

\* A reference names the variables it is bound to, and they have it as a
\* reference, whether it is bound now or was before.
LEMMA BoundTable ==
  ASSUME AllHandled, TableInv, NEW s \in Statements, s.op = "bind",
         NEW T, T = BindTable(s.lhs.v, ArgVars(s.args))
  PROVE  /\ T \in Table /\ T.aliased[s.lhs.v] = ArgVars(s.args)
         /\ \A v \in Var : v # s.lhs.v => T.aliased[v] = aliasTable.aliased[v]
         /\ \A v \in Var : T.references[v] = aliasTable.references[v]
                             \cup IF v \in ArgVars(s.args) THEN {s.lhs.v} ELSE {}
<1>1. s \in Statement /\ s.lhs.v \in Ref /\ Ref \subseteq Var
  BY FootprintAssumption, BindHandled DEF HandledBind
<1>2. PICK ref \in Var : ref = s.lhs.v
  BY <1>1
<1>3. PICK vars \in SUBSET Var : vars = ArgVars(s.args)
  BY <1>1, StatementFacts DEF ArgVars
<1>4. /\ aliasTable \in Table /\ aliasTable.aliased \in [Var -> SUBSET Var]
      /\ aliasTable.references \in [Var -> SUBSET Var]
  BY NowFacts DEF Table
<1>5. CASE aliasTable.aliased[ref] # {}
  <2>1. T = aliasTable
    BY <1>2, <1>5 DEF BindTable
  <2>2. aliasTable.aliased[ref] = vars
    BY <1>2, <1>3, <1>5 DEF TableInv, ReferencesLead
  <2>3. \A v \in vars : ref \in aliasTable.references[v]
    BY <2>2, <1>1, <1>2 DEF TableInv, ReferencesMirror
  <2> QED BY <2>1, <2>2, <2>3, <1>2, <1>3, <1>4
<1>6. CASE aliasTable.aliased[ref] = {}
  <2>1. T = [aliased    |-> [aliasTable.aliased EXCEPT ![ref] = @ \cup vars],
             references |-> [v \in Var |-> IF v \in vars THEN aliasTable.references[v] \cup {ref}
                                                          ELSE aliasTable.references[v]]]
    BY <1>2, <1>3, <1>6 DEF BindTable, addAliasReference
  <2>2. T \in Table
    BY <2>1, <1>4 DEF Table
  <2>3. T.aliased[ref] = vars /\ \A v \in Var : v # ref => T.aliased[v] = aliasTable.aliased[v]
    BY <2>1, <1>4, <1>6
  <2>4. \A v \in Var : T.references[v] = aliasTable.references[v] \cup IF v \in vars THEN {ref} ELSE {}
    BY <2>1, <1>4
  <2> QED BY <2>2, <2>3, <2>4, <1>2, <1>3
<1> QED BY <1>5, <1>6

LEMMA BindStep ==
  ASSUME AllHandled, TableInv, NEW s \in Statements, Bind(s)
  PROVE  FootprintInv'
<1>1. s \in Statement /\ s.op = "bind" /\ HandledBind(s) /\ FootprintTypeOK
  BY FootprintAssumption, BindHandled DEF Bind, TableInv
<1>2. PICK ref \in Ref : ref = s.lhs.v /\ ref \in Var
  BY <1>1, FootprintAssumption DEF HandledBind
<1>3. PICK vars \in SUBSET Var : vars = ArgVars(s.args)
  BY <1>1, StatementFacts DEF ArgVars
<1>a. ASSUME NEW k \in 1..Len(s.args)
      PROVE  /\ s.args[k] \in Argument /\ s.args[k].v \in vars /\ s.args[k].v \in Var
             /\ s.args[k].d = 0 /\ Level[s.args[k].v] = 0
             /\ s.args[k].mode \in {"value", "ref", "refRO"} /\ HandledArgument(s.args[k])
  <2>1. /\ s.args[k] \in Argument /\ s.args[k].v \in vars /\ s.args[k].v \in Var
        /\ s.args[k].d = 0 /\ Level[s.args[k].v] = 0
        /\ s.args[k].mode \in {"value", "ref", "refRO"}
    BY <1>1, <1>3, StatementFacts DEF HandledBind, ArgVars
  <2> QED BY <2>1 DEF HandledArgument
<1>4. PICK T : T = BindTable(ref, vars)
  OBVIOUS
<1>5. /\ T \in Table /\ T.aliased[ref] = vars
      /\ \A v \in Var : v # ref => T.aliased[v] = aliasTable.aliased[v]
      /\ \A v \in Var : T.references[v] = aliasTable.references[v]
                          \cup IF v \in vars THEN {ref} ELSE {}
  BY <1>1, <1>2, <1>3, <1>4, BoundTable
<1>6. aliasTable' = T /\ instr' = Dependencies(T, {ref} \cup vars, {ref})
  BY <1>2, <1>3, <1>4 DEF Bind
<1>c. s.call => Calls(s) /\ AfterCall(s) \subseteq {pointsTo}
  <2>1. s.call => Calls(s) /\ HandledCallee(s)
    BY FootprintAssumption DEF AllHandled, Handled, Calls
  <2> QED BY <2>1, <1>1, AfterCallFacts
<1>7. PICK k0 \in 1..Len(s.args) : pointsTo' = [pointsTo EXCEPT ![ref] = Object(s.args[k0])]
  <2>1. PICK o \in {Object(a) : a \in Args(s)} \cup (IF s.call THEN GlobalObjects(s) ELSE {}) :
          pointsTo' = [pointsTo EXCEPT ![ref] = o]
    BY <1>2, <1>c DEF Bind
  <2>2. ASSUME s.call, NEW g \in s.callee.globals
        PROVE  \E k \in 1..Len(s.args) : ObjectAt(g, 0) = Object(s.args[k])
    <3>1. g \in ArgVars(s.args)
      BY <1>1, <2>2 DEF HandledBind
    <3>2. PICK k \in 1..Len(s.args) : g = s.args[k].v
      BY <3>1 DEF ArgVars
    <3> QED BY <3>2, <1>a DEF Object
  <2>3. \E k \in 1..Len(s.args) : o = Object(s.args[k])
    BY <2>1, <2>2 DEF Args, GlobalObjects
  <2> QED BY <2>1, <2>3
\* The references still lead to what they are bound to.
<1>8. \A r \in Var : Closure(Referred(aliasTable), r) \subseteq Closure(Referred(T), r)
  <2>1. \A a \in Var : Referred(aliasTable)[a] \subseteq Referred(T)[a]
    <3>1. \A a \in Var : aliasTable.aliased[a] \subseteq T.aliased[a]
      BY <1>1, <1>2, <1>3, <1>5 DEF TableInv, ReferencesLead
    <3> QED BY <3>1, <1>5, NowFacts, TableFacts
  <2> SUFFICES ASSUME NEW r \in Var
               PROVE  Closure(Referred(aliasTable), r) \subseteq Closure(Referred(T), r)
    OBVIOUS
  <2>2. /\ r \in Closure(Referred(T), r) /\ Closure(Referred(T), r) \subseteq Var
        /\ Closed(Referred(T), Closure(Referred(T), r))
    BY <1>5, TableFacts, ClosureFacts
  <2>3. Closed(Referred(aliasTable), Closure(Referred(T), r))
    BY <2>1, <2>2 DEF Closed
  <2> QED BY <2>2, <2>3, NowFacts, TableFacts, ClosureFacts
<1>9. Known(T)
  BY <1>8, NowFacts, FootprintAssumption DEF Known
<1>10. PICK X \in SUBSET Var, Y \in SUBSET Var :
        /\ instr' \in Footprint /\ InstrClosed' /\ X = instr'.reads /\ Y = instr'.writes
        /\ {ref} \cup vars \subseteq X /\ ref \in Y
        /\ Closed(Names(T), X) /\ Closed(Names(T), Y)
  <2>1. {ref} \cup vars \in SUBSET Var /\ {ref} \in SUBSET Var
    BY <1>2
  <2>2. /\ instr' \in Footprint /\ InstrClosed'
        /\ instr'.reads \in SUBSET Var /\ instr'.writes \in SUBSET Var
        /\ {ref} \cup vars \subseteq instr'.reads /\ {ref} \subseteq instr'.writes
        /\ Closed(Names(T), instr'.reads) /\ Closed(Names(T), instr'.writes)
    BY <2>1, <1>5, <1>6, InstrFacts
  <2> QED BY <2>2
<1>11. vars \subseteq Y
  <2>1. Referred(T)[ref] = vars /\ Referred(T)[ref] \subseteq Names(T)[ref]
    BY <1>2, <1>5, TableFacts
  <2> QED BY <2>1, <1>10 DEF Closed
<1>12. touched' \in Footprint /\ named' \in BOOLEAN /\ FootprintSound'
  <2>1. Path(s.args[1]) \cap Var \subseteq X
    <3>1. 1 \in 1..Len(s.args)
      BY <1>1, <1>7, StatementFacts
    <3>2. Path(s.args[1]) \subseteq {s.args[1].v}
      BY <3>1, <1>a, PathFacts
    <3> QED BY <3>1, <3>2, <1>a, <1>10
  <2>2. s.call /\ Named(s) => ReadByCall(s) \cap Var \subseteq X /\ WrittenByCall(s) \cap Var \subseteq Y
    <3>1. \A k \in 1..Len(s.args) :
            HandledArgument(s.args[k]) /\ Followed(T, s.args[k].v, s.args[k].d)
      BY <1>a DEF Followed
    <3>2. handleCallExpr(T, s.args).reads \subseteq X /\ handleCallExpr(T, s.args).writes \subseteq Y
      <4>1. \A k \in 1..Len(s.args) : CallReads(T, s.args[k]) \subseteq vars
        BY <1>a DEF CallReads, handleExpr
      <4>2. handleCallExpr(T, s.args).reads \subseteq vars /\ handleCallExpr(T, s.args).writes \subseteq vars
        BY <4>1, <1>a DEF handleCallExpr, CallReads
      <4> QED BY <4>2, <1>10, <1>11
    <3> QED BY <3>1, <3>2, <1>1, <1>5, <1>9, <1>10, <1>c, NamedCallCovered
  <2>3. Touch(s, IF s.call THEN ReadByCall(s) ELSE Path(s.args[1]),
                 {ref} \cup (IF s.call THEN WrittenByCall(s) ELSE {}))
    BY <1>2 DEF Bind
  <2> QED BY <2>1, <2>2, <2>3, <1>10, TouchFacts
\* What it is bound to is one of its variables, or what that one leads to.
<1>13. PICK o \in Var \cup {Unset, Foreign} : o = Object(s.args[k0]) /\ (o \in Var => o \in Closure(Referred(T), ref))
  <2>1. PICK v \in vars : v = s.args[k0].v /\ v \in Var /\ Object(s.args[k0]) = ObjectAt(v, 0)
    BY <1>a, <1>7 DEF Object
  <2>2. Object(s.args[k0]) \in Var \cup {Unset, Foreign}
    BY <1>1, <1>a, <1>7, ObjectType
  <2>3. v \in Closure(Referred(T), ref) /\ Closure(Referred(T), v) \subseteq Closure(Referred(T), ref)
    <3>1. ref \in Closure(Referred(T), ref) /\ Closed(Referred(T), Closure(Referred(T), ref))
      BY <1>2, <1>5, TableFacts, ClosureFacts
    <3>2. v \in Closure(Referred(T), ref)
      <4>1. Referred(T)[ref] = vars
        BY <1>2, <1>5, TableFacts
      <4> QED BY <4>1, <3>1, <2>1 DEF Closed
    <3> QED BY <3>1, <3>2, <2>1, <1>5, TableFacts, ClosureFacts
  <2>4. ObjectAt(v, 0) \in Var => ObjectAt(v, 0) \in Closure(Referred(T), ref)
    BY <2>1, <2>3, <1>9, ObjectFacts DEF Known
  <2> QED BY <2>1, <2>2, <2>4
<1>14. PICK P \in [Var -> Var \cup {Unset, Foreign}] :
         pointsTo' = P /\ P[ref] = o /\ \A v \in Var : v # ref => P[v] = pointsTo[v]
  <2>1. pointsTo \in [Var -> Var \cup {Unset, Foreign}]
    BY <1>1 DEF FootprintTypeOK
  <2> QED BY <2>1, <1>2, <1>7, <1>13
<1>15. \A r \in Ref : P[r] \in Var => P[r] \in Closure(Referred(T), r)
  BY <1>9, <1>13, <1>14, FootprintAssumption DEF Known
<1>16. FootprintTypeOK'
  BY <1>5, <1>6, <1>10, <1>12, <1>14 DEF FootprintTypeOK
<1>17. ReferencesLead'
  <2>1. ASSUME NEW t \in Statements, t.op = "bind"
        PROVE  T.aliased[t.lhs.v] \in {{}, ArgVars(t.args)}
    <3>1. t.lhs.v \in Var
      BY <2>1, BindHandled, FootprintAssumption DEF HandledBind
    <3>2. CASE t.lhs.v = ref
      BY <2>1, <3>2, <1>1, <1>2, <1>3, <1>5 DEF HandledBind
    <3>3. CASE t.lhs.v # ref
      BY <2>1, <3>1, <3>3, <1>5 DEF TableInv, ReferencesLead
    <3> QED BY <3>2, <3>3
  <2> QED BY <2>1, <1>6, <1>14, <1>15 DEF ReferencesLead
<1>18. ReferencesMirror'
  <2>1. ASSUME NEW v \in Var
        PROVE  /\ T.references[v] = {r \in Ref : v \in T.aliased[r]}
               /\ Level[v] > 0 => T.references[v] = {}
    <3>1. aliasTable.references[v] = {r \in Ref : v \in aliasTable.aliased[r]}
      BY DEF TableInv, ReferencesMirror
    <3>2. Level[v] > 0 => aliasTable.references[v] = {} /\ v \notin vars
      <4>1. \A w \in vars : Level[w] = 0
        BY <1>a, <1>3 DEF ArgVars
      <4> QED BY <4>1 DEF TableInv, ReferencesMirror
    <3>3. \A r \in Ref : v \in T.aliased[r] <=> (v \in aliasTable.aliased[r] \/ (r = ref /\ v \in vars))
      BY <1>1, <1>2, <1>3, <1>5, FootprintAssumption DEF TableInv, ReferencesLead
    <3>4. T.references[v] = {r \in Ref : v \in T.aliased[r]}
      BY <3>1, <3>3, <1>2, <1>5
    <3> QED BY <3>2, <3>4, <1>5
  <2> QED BY <2>1, <1>6 DEF ReferencesMirror
<1>19. PointerToPointer'
  <2>1. \A v \in Var : Level[v] = 2 => v # ref
    BY <1>2, AliasTypes
  <2> QED BY <2>1, <1>5, <1>6, <1>14 DEF TableInv, PointerToPointer
<1>20. PointsToKnown'
  <2> SUFFICES ASSUME NEW v \in Var, P[v] \in Var
               PROVE  P[v] \in IF v \in Ref THEN getModifiedVariables(T, v, 0) ELSE T.aliased[v]
    BY <1>6, <1>14 DEF PointsToKnown
  <2>1. CASE v \in Ref
    BY <2>1, <1>5, <1>15, ModifiedZero
  <2>2. CASE v \notin Ref
    BY <2>2, <1>2, <1>5, <1>14 DEF TableInv, PointsToKnown
  <2> QED BY <2>1, <2>2
<1> QED BY <1>10, <1>12, <1>16, <1>17, <1>18, <1>19, <1>20 DEF FootprintInv

-----------------------------------------------------------------------------
(* The theorems.                                                           *)

LEMMA FootprintInvInit ==
  ASSUME FootprintInit
  PROVE  FootprintInv
<1>0. Unset \notin Var
  BY FootprintAssumption
<1>1. FootprintTypeOK
  BY DEF FootprintInit, FootprintTypeOK, Table, Footprint, Nothing
<1>2. \A v \in Var : /\ aliasTable.aliased[v] = {} /\ aliasTable.references[v] = {}
                     /\ pointsTo[v] = Unset
  BY DEF FootprintInit
<1>3. PointsToKnown
  BY <1>0, <1>2 DEF PointsToKnown
<1>4. PointerToPointer
  BY <1>2 DEF PointerToPointer
<1>5. ReferencesMirror
  BY <1>2, FootprintAssumption DEF ReferencesMirror
<1>6. ReferencesLead
  <2>1. \A s \in Statements : s.lhs.v \in Var
    BY FootprintAssumption, StatementFacts
  <2> QED BY <2>1, <1>0, <1>2, FootprintAssumption DEF ReferencesLead
<1>7. InstrClosed /\ FootprintSound
  BY DEF FootprintInit, InstrClosed, FootprintSound, Nothing
<1> QED BY <1>1, <1>3, <1>4, <1>5, <1>6, <1>7 DEF FootprintInv

LEMMA FootprintInvNext ==
  ASSUME AllHandled, FootprintInv, [FootprintNext]_footprintVars
  PROVE  FootprintInv'
<1>0. TableInv
  BY DEF FootprintInv, TableInv
<1>1. CASE UNCHANGED footprintVars
  BY <1>1 DEF footprintVars, FootprintInv, FootprintTypeOK, PointsToKnown, FootprintSound,
              PointerToPointer, ReferencesMirror, ReferencesLead, InstrClosed
<1>2. CASE FootprintNext
  <2>1. PICK s \in Statements : Assignment(s) \/ Increment(s) \/ Call(s) \/ Bind(s)
                                  \/ MemberCall(s) \/ Delete(s)
    BY <1>2 DEF FootprintNext
  <2> QED BY <2>1, <1>0, AssignmentStep, IncrementStep, CallStep, BindStep, MemberCallStep, DeleteStep
<1> QED BY <1>1, <1>2

\* A closed set has a reference exactly when it has what that leads to.
LEMMA MeetingNames ==
  ASSUME FootprintInv, NEW X \in SUBSET Var, Closed(Names(aliasTable), X),
         NEW r \in Ref, pointsTo[r] \in Var
  PROVE  r \in X <=> pointsTo[r] \in X
<1>0. /\ aliasTable \in Table /\ r \in Var /\ Ref \subseteq Var
      /\ pointsTo[r] \in Closure(Referred(aliasTable), r)
  BY FootprintAssumption DEF FootprintInv, FootprintTypeOK, ReferencesLead
<1>1. r \in X => pointsTo[r] \in X
  BY <1>0, ReferredIn
<1>2. ASSUME r \notin X PROVE pointsTo[r] \notin X
  <2>1. Closed(Referred(aliasTable), Var \ X)
    <3> SUFFICES ASSUME NEW a \in Var, a \notin X, NEW b \in Referred(aliasTable)[a]
                 PROVE  b \in Var \ X
      BY DEF Closed
    <3>1. a \in Ref /\ b \in aliasTable.aliased[a] /\ b \in Var
      BY <1>0, TableFacts
    <3>2. a \in aliasTable.references[b]
      BY <3>1 DEF FootprintInv, ReferencesMirror
    <3>3. a \in Names(aliasTable)[b]
      BY <1>0, <3>1, <3>2, TableFacts
    <3> QED BY <3>1, <3>3 DEF Closed
  <2>2. Closure(Referred(aliasTable), r) \subseteq Var \ X
    BY <1>0, <1>2, <2>1, TableFacts, ClosureFacts
  <2> QED BY <1>0, <2>2
<1> QED BY <1>1, <1>2

LEMMA NamesMeetFromInv ==
  ASSUME FootprintInv
  PROVE  NamesMeet
<1>1. /\ instr.reads \in SUBSET Var /\ instr.writes \in SUBSET Var
      /\ Closed(Names(aliasTable), instr.reads) /\ Closed(Names(aliasTable), instr.writes)
  BY DEF FootprintInv, FootprintTypeOK, Footprint, InstrClosed, Closed
<1>2. ASSUME NEW r \in Ref, pointsTo[r] \in Var
      PROVE  /\ r \in instr.reads <=> pointsTo[r] \in instr.reads
             /\ r \in instr.writes <=> pointsTo[r] \in instr.writes
  BY <1>1, <1>2, MeetingNames
<1> QED BY <1>2 DEF NamesMeet

\* In every run over statements that the visitor handles, the table and the
\* instructions stay as FootprintInv says: pointers to pointers have one known
\* target, references and their names mirror each other, and instructions are
\* closed under names.
THEOREM FootprintInvariance ==
  ASSUME \A s \in Statements : Handled(s)
  PROVE  FootprintSpec => []FootprintInv
<1>1. AllHandled
  BY DEF AllHandled
<1>2. FootprintInit => FootprintInv
  BY FootprintInvInit
<1>3. FootprintInv /\ [FootprintNext]_footprintVars => FootprintInv'
  BY <1>1, FootprintInvNext
<1> QED BY <1>2, <1>3, PTL DEF FootprintSpec

\* addAliasPtr, fuseAliased, replaceAliasedToElement and removeDependencyPtr
\* keep an entry for every variable, whatever their order.
THEOREM FootprintTypeCorrect ==
  ASSUME \A s \in Statements : Handled(s)
  PROVE  FootprintSpec => []FootprintTypeOK
<1>1. FootprintInv => FootprintTypeOK
  BY DEF FootprintInv
<1> QED BY <1>1, FootprintInvariance, PTL

\* handlePointersBinaryAssignment drops no target that a pointer still has:
\* what a pointer or reference holds is among its aliases in the table, when
\* no callee sets pointers of the function's (HandledCallee).
THEOREM TargetsKnown ==
  ASSUME \A s \in Statements : Handled(s)
  PROVE  FootprintSpec => []PointsToKnown
<1>1. FootprintInv => PointsToKnown
  BY DEF FootprintInv
<1> QED BY <1>1, FootprintInvariance, PTL

\* A handled statement whose callee keeps to what the call names (Named) reads
\* and writes nothing that its instruction does not depend on, however the
\* pointers and references it uses were set by the statements before.
THEOREM FootprintsSound ==
  ASSUME \A s \in Statements : Handled(s)
  PROVE  FootprintSpec => []FootprintSound
<1>1. FootprintInv => FootprintSound
  BY DEF FootprintInv
<1> QED BY <1>1, FootprintInvariance, PTL

\* getAliases finds the references of a variable and the variables of a
\* reference alike: an instruction depends on both or on neither.
THEOREM NamesAlwaysMeet ==
  ASSUME \A s \in Statements : Handled(s)
  PROVE  FootprintSpec => []NamesMeet
<1>1. FootprintInv => NamesMeet
  BY NamesMeetFromInv
<1> QED BY <1>1, FootprintInvariance, PTL
=============================================================================
