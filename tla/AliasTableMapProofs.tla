------------------------ MODULE AliasTableMapProofs ------------------------
(***************************************************************************)
(* The alias table for every set of accesses: TableInv is inductive, every *)
(* element keeps the one aliasArg made for it (OneAliasPerElement), and    *)
(* the walk over the nested maps finds what the subscripts say             *)
(* (WalkFindsElements).                                                    *)
(***************************************************************************)
EXTENDS AliasTableMap, WellFoundedInduction, TLAPS

Subscript == Int \cup {Decl[e] : e \in Expr}

(***************************************************************************)
(* Paths.                                                                  *)
(***************************************************************************)

LEMMA PathFacts ==
  ASSUME NEW e \in Expr
  PROVE  /\ Indexes[e] \in Seq(Int) /\ Len(Indexes[e]) \in Nat
         /\ PathOf(e) \in Seq(Subscript)
         /\ Len(PathOf(e)) = Len(Indexes[e]) + 1
         /\ PathOf(e)[1] = Decl[e]
         /\ \A k \in 1..Len(Indexes[e]) : PathOf(e)[k + 1] = Indexes[e][k]
<1>1. Indexes[e] \in Seq(Int) /\ Len(Indexes[e]) \in Nat
  BY TableAssumption
<1>2. <<Decl[e]>> \in Seq(Subscript) /\ Indexes[e] \in Seq(Subscript)
  BY <1>1 DEF Subscript
<1> QED BY <1>1, <1>2 DEF PathOf

\* Sequences of equal length and elements are equal.
LEMMA SameSeq ==
  ASSUME NEW S, NEW s \in Seq(S), NEW t \in Seq(S), Len(s) = Len(t),
         \A k \in 1..Len(s) : s[k] = t[k]
  PROVE  s = t
OBVIOUS

LEMMA SamePath ==
  ASSUME NEW e \in Expr, NEW f \in Expr, PathOf(e) = PathOf(f)
  PROVE  /\ Decl[e] = Decl[f] /\ Indexes[e] = Indexes[f]
         /\ e \in Spelling <=> f \in Spelling
         /\ e = f \/ e \in Spelling
<1>1. Decl[e] = Decl[f]
  BY PathFacts
<1>2. Len(Indexes[e]) = Len(Indexes[f])
  BY PathFacts
<1>3. ASSUME NEW k \in 1..Len(Indexes[e]) PROVE Indexes[e][k] = Indexes[f][k]
  <2>1. PathOf(e)[k + 1] = Indexes[e][k]
    BY PathFacts
  <2>2. k \in 1..Len(Indexes[f])
    BY <1>2
  <2>3. PathOf(f)[k + 1] = Indexes[f][k]
    BY <2>2, PathFacts
  <2> QED BY <2>1, <2>3
<1>4. Indexes[e] = Indexes[f]
  BY <1>2, <1>3, SameSeq, PathFacts
<1> QED BY <1>1, <1>4, TableAssumption DEF Spelling, hasUnknownIndex

\* What lies on the way to a path.
LEMMA AboveFacts ==
  ASSUME NEW path \in Seq(Subscript), NEW q \in Above(path)
  PROVE  /\ q \in Seq(Subscript)
         /\ Len(q) \in 1..(Len(path) - 1)
         /\ \A k \in 1..Len(q) : q[k] = path[k]
         /\ Above(q) \subseteq Above(path)
         /\ q # path
<1>1. PICK n \in 1..(Len(path) - 1) : q = SubSeq(path, 1, n)
  BY DEF Above
<1>2. q \in Seq(Subscript) /\ Len(q) = n /\ \A k \in 1..n : q[k] = path[k]
  BY <1>1
<1>3. \A m \in 1..(n - 1) : SubSeq(q, 1, m) = SubSeq(path, 1, m)
  <2> TAKE m \in 1..(n - 1)
  <2>1. /\ SubSeq(q, 1, m) \in Seq(Subscript) /\ Len(SubSeq(q, 1, m)) = m
        /\ \A k \in 1..m : SubSeq(q, 1, m)[k] = q[k]
    BY <1>2
  <2>2. /\ SubSeq(path, 1, m) \in Seq(Subscript) /\ Len(SubSeq(path, 1, m)) = m
        /\ \A k \in 1..m : SubSeq(path, 1, m)[k] = path[k]
    BY <1>1
  <2> QED BY <2>1, <2>2, <1>2, SameSeq
<1>4. Above(q) \subseteq Above(path)
  BY <1>1, <1>2, <1>3 DEF Above
<1> QED BY <1>1, <1>2, <1>4

\* An expression on the way to another one is its variable or a row.
LEMMA AboveRow ==
  ASSUME NEW e \in Expr, NEW f \in Expr, PathOf(e) \in Above(PathOf(f))
  PROVE  Decl[e] = Decl[f] /\ (Row(e) \/ Indexes[e] = <<>>)
<1>1. /\ Len(PathOf(e)) \in 1..(Len(PathOf(f)) - 1)
      /\ \A k \in 1..Len(PathOf(e)) : PathOf(e)[k] = PathOf(f)[k]
  BY PathFacts, AboveFacts
<1>2. Decl[e] = Decl[f]
  BY <1>1, PathFacts
<1>3. Len(Indexes[f]) > Len(Indexes[e])
  BY <1>1, PathFacts
<1> QED BY <1>2, <1>3 DEF Row

\* The variable of an expression.
LEMMA BaseFacts ==
  ASSUME NEW e \in Expr
  PROVE  /\ Base(e) \in Expr /\ Base(e) \notin Spelling
         /\ Decl[Base(e)] = Decl[e] /\ Indexes[Base(e)] = <<>>
         /\ PathOf(Base(e)) = <<Decl[e]>>
         /\ ~Row(Base(e))
<1>1. Base(e) \in Expr /\ Decl[Base(e)] = Decl[e] /\ Indexes[Base(e)] = <<>>
  BY TableAssumption DEF Base
<1>2. Base(e) \notin Spelling /\ ~Row(Base(e))
  BY <1>1 DEF Spelling, hasUnknownIndex, Row
<1>3. PathOf(Base(e)) = <<Decl[e]>>
  BY <1>1 DEF PathOf
<1> QED BY <1>1, <1>2, <1>3

\* A path with one element is that of a variable.
LEMMA ShortPath ==
  ASSUME NEW e \in Expr, NEW q \in Seq(Subscript), Len(q) = 1, q[1] = Decl[e]
  PROVE  q = <<Decl[e]>>
<1>1. <<Decl[e]>> \in Seq(Subscript) /\ Len(<<Decl[e]>>) = 1 /\ <<Decl[e]>>[1] = Decl[e]
  BY DEF Subscript
<1> QED BY <1>1, SameSeq

-----------------------------------------------------------------------------
(***************************************************************************)
(* One insertion.  Slot is getAliasArg at a place that is there.           *)
(***************************************************************************)

Slot(T, q, x) == IF x \in Spelling THEN T[q].unknown[x] ELSE T[q].alias

Tables == UNION {[D -> Place] : D \in SUBSET Seq(Subscript)}

LEMMA InTables ==
  ASSUME NEW D \in SUBSET Seq(Subscript), NEW R \in [D -> Place]
  PROVE  R \in Tables
BY DEF Tables

\* What insert leaves and what it adds.
InsertEffect(T, R, e, id) ==
  /\ R \in Tables
  /\ DOMAIN R = DOMAIN T \cup Above(PathOf(e)) \cup {PathOf(e)}
  /\ \A q \in DOMAIN T : \A x \in Expr :
       \/ Slot(R, q, x) = Slot(T, q, x)
       \/ /\ q = PathOf(e) /\ x = e /\ e \in Spelling
          /\ Slot(T, q, x) = NoAlias /\ Slot(R, q, x) = id
  /\ \A q \in Above(PathOf(e)) : q \notin DOMAIN T =>
       \A x \in Expr : Slot(R, q, x) = NoAlias
  /\ PathOf(e) \notin DOMAIN T =>
       \A x \in Expr : Slot(R, PathOf(e), x) = IF SameSlot(e, x) THEN id ELSE NoAlias
  /\ e \in Spelling => Slot(R, PathOf(e), e) # NoAlias
  /\ \A q \in Above(PathOf(e)) : R[q].sub
  /\ R[PathOf(e)].sub \/ R[PathOf(e)].own
  /\ \A q \in DOMAIN T : (T[q].sub => R[q].sub) /\ (T[q].own => R[q].own)

LEMMA StructFacts ==
  ASSUME NEW e \in Expr, NEW id \in AliasId
  PROVE  /\ aliasArgStruct(e, id) \in Place
         /\ EmptySubArray \in Place
         /\ \A T \in Tables : \A q \in Seq(Subscript) : toSubArray(T, q) \in Place
<1>1. aliasArgStruct(e, id) \in Place /\ EmptySubArray \in Place
  BY TableAssumption DEF aliasArgStruct, EmptySubArray, NoneSpelled, NoAlias, AliasId, Place
<1>2. ASSUME NEW T \in Tables, NEW q \in Seq(Subscript) PROVE toSubArray(T, q) \in Place
  <2>1. CASE at(T, q)
    <3>1. T[q] \in Place
      BY <2>1 DEF at, Tables
    <3> QED BY <2>1, <3>1 DEF toSubArray, Place
  <2>2. CASE ~at(T, q)
    BY <2>2, <1>1 DEF toSubArray
  <2> QED BY <2>1, <2>2
<1> QED BY <1>1, <1>2

LEMMA Inserted ==
  ASSUME NEW T \in Tables, NEW e \in Expr, NEW id \in AliasId, id # NoAlias,
         ~(at(T, PathOf(e)) /\ Len(PathOf(e)) = 1)
  PROVE  InsertEffect(T, insert(T, e, id), e, id)
<1> DEFINE path == PathOf(e)
           up == Above(path)
           U == [q \in DOMAIN T \cup up |-> IF q \in up THEN toSubArray(T, q) ELSE T[q]]
           new == aliasArgStruct(e, id)
           old == [toSubArray(T, path) EXCEPT !.unknown = AddSpelled(@, new.unknown)]
           P == IF at(T, path) THEN old ELSE new
           R == insert(T, e, id)
<1>1. path \in Seq(Subscript) /\ up \subseteq Seq(Subscript) /\ path \notin up
  BY PathFacts, AboveFacts
<1>2. DOMAIN T \subseteq Seq(Subscript) /\ \A q \in DOMAIN T : T[q] \in Place
  BY DEF Tables
<1>3. R = Put(U, path, P)
  BY DEF insert
<1>4. P \in Place
  <2>1. new \in Place /\ toSubArray(T, path) \in Place
    BY StructFacts, <1>1
  <2>2. AddSpelled(toSubArray(T, path).unknown, new.unknown) \in [Spelling -> AliasId]
    BY <2>1 DEF AddSpelled, Place
  <2>3. old \in Place
    BY <2>1, <2>2 DEF Place
  <2> QED BY <2>1, <2>3
<1>5. /\ DOMAIN R = DOMAIN T \cup up \cup {path}
      /\ R[path] = P
      /\ \A q \in up : R[q] = toSubArray(T, q)
      /\ \A q \in DOMAIN T : q \notin up /\ q # path => R[q] = T[q]
      /\ R = [q \in DOMAIN R |-> R[q]]
  BY <1>1, <1>3 DEF Put
<1>6. R \in Tables
  <2>1. \A q \in DOMAIN R : R[q] \in Place
    BY <1>1, <1>2, <1>4, <1>5, StructFacts
  <2>2. DOMAIN R \in SUBSET Seq(Subscript)
    BY <1>1, <1>2, <1>5
  <2>3. R \in [DOMAIN R -> Place]
    BY <2>1, <1>5
  <2> HIDE DEF R
  <2> QED BY <2>2, <2>3, InTables
<1>7. ASSUME NEW q \in up, NEW x \in Expr
      PROVE  Slot(R, q, x) = IF q \in DOMAIN T THEN Slot(T, q, x) ELSE NoAlias
  <2>1. CASE q \in DOMAIN T
    <3>1. R[q] = [T[q] EXCEPT !.sub = TRUE] /\ T[q] \in Place
      BY <2>1, <1>2, <1>5, <1>7 DEF toSubArray, at
    <3> QED BY <2>1, <3>1 DEF Slot, Place
  <2>2. CASE q \notin DOMAIN T
    <3>1. R[q] = EmptySubArray
      BY <2>2, <1>5, <1>7 DEF toSubArray, at
    <3> QED BY <2>2, <3>1 DEF Slot, EmptySubArray, NoneSpelled
  <2> QED BY <2>1, <2>2
<1>8. ASSUME path \notin DOMAIN T, NEW x \in Expr
      PROVE  Slot(R, path, x) = IF SameSlot(e, x) THEN id ELSE NoAlias
  BY <1>5, <1>8 DEF at, Slot, SameSlot, aliasArgStruct
<1>9. ASSUME path \in DOMAIN T, NEW x \in Expr
      PROVE  \/ Slot(R, path, x) = Slot(T, path, x) /\ (x = e /\ e \in Spelling => Slot(T, path, x) # NoAlias)
             \/ /\ x = e /\ e \in Spelling
                /\ Slot(T, path, x) = NoAlias /\ Slot(R, path, x) = id
  <2>1. T[path] \in Place /\ R[path] = old
    BY <1>2, <1>5, <1>9 DEF at
  <2>2. toSubArray(T, path) = [T[path] EXCEPT !.sub = TRUE]
    BY <1>9 DEF toSubArray, at
  <2>3. /\ R[path].alias = T[path].alias
        /\ R[path].unknown = AddSpelled(T[path].unknown, new.unknown)
    BY <2>1, <2>2 DEF Place
  <2>4. \A s \in Spelling : new.unknown[s] = IF s = e THEN id ELSE NoAlias
    BY DEF aliasArgStruct
  <2> QED BY <2>3, <2>4 DEF Slot, AddSpelled
<1>10. ASSUME NEW q \in DOMAIN T, NEW x \in Expr
       PROVE  \/ Slot(R, q, x) = Slot(T, q, x)
              \/ /\ q = path /\ x = e /\ e \in Spelling
                 /\ Slot(T, q, x) = NoAlias /\ Slot(R, q, x) = id
  <2>1. CASE q \in up
    BY <2>1, <1>7
  <2>2. CASE q = path
    BY <2>2, <1>9, <1>10
  <2>3. CASE q \notin up /\ q # path
    BY <2>3, <1>5 DEF Slot
  <2> QED BY <2>1, <2>2, <2>3
<1>11. e \in Spelling => Slot(R, path, e) # NoAlias
  BY <1>8, <1>9 DEF SameSlot
<1>12. \A q \in up : R[q].sub
  <2> SUFFICES ASSUME NEW q \in up PROVE toSubArray(T, q).sub
    BY <1>5
  <2> QED BY <1>2 DEF toSubArray, at, EmptySubArray, Place
<1>13. R[path].sub \/ R[path].own
  <2>1. CASE at(T, path)
    <3>1. R[path] = old /\ toSubArray(T, path) = [T[path] EXCEPT !.sub = TRUE] /\ T[path] \in Place
      BY <2>1, <1>2, <1>5 DEF toSubArray, at
    <3> QED BY <3>1 DEF Place
  <2>2. CASE ~at(T, path)
    BY <2>2, <1>5 DEF aliasArgStruct
  <2> QED BY <2>1, <2>2
<1>14. ASSUME NEW q \in DOMAIN T
       PROVE  (T[q].sub => R[q].sub) /\ (T[q].own => R[q].own)
  <2>1. toSubArray(T, q) = [T[q] EXCEPT !.sub = TRUE] /\ T[q] \in Place
    BY <1>2, <1>14 DEF toSubArray, at
  <2>2. CASE q \in up
    BY <2>1, <2>2, <1>5 DEF Place
  <2>3. CASE q = path
    <3>1. R[path] = old
      BY <2>3, <1>5, <1>14 DEF at
    <3> QED BY <3>1, <2>1, <2>3 DEF Place
  <2>4. CASE q \notin up /\ q # path
    BY <2>4, <1>5
  <2> QED BY <2>2, <2>3, <2>4
<1> QED BY <1>5, <1>6, <1>7, <1>8, <1>10, <1>11, <1>12, <1>13, <1>14 DEF InsertEffect

-----------------------------------------------------------------------------
(***************************************************************************)
(* The parts of TableInv for any table, number of aliasArgs made and set   *)
(* of expressions asked for.                                               *)
(***************************************************************************)

Reached(T) ==
  \A q \in DOMAIN T :
    /\ \E e \in Expr : PathOf(e) = q \/ q \in Above(PathOf(e))
    /\ Above(q) \subseteq DOMAIN T
    /\ Len(q) = 1 => \A x \in Expr : x \notin Spelling => Slot(T, q, x) # NoAlias

Filled(T) ==
  \A e \in Expr : PathOf(e) \in DOMAIN T /\ e \notin Spelling /\ ~Row(e) =>
    Slot(T, PathOf(e), e) # NoAlias

Known(T, G) ==
  \A q \in DOMAIN T : \A x \in Expr : Slot(T, q, x) # NoAlias =>
    \/ \E e \in G : PathOf(e) = q /\ SameSlot(e, x)
    \/ Len(q) = 1 /\ x \notin Spelling

Once(T, id) ==
  \A p, q \in DOMAIN T : \A e, f \in Expr :
    /\ Slot(T, p, e) < id
    /\ Slot(T, p, e) = Slot(T, q, f) /\ Slot(T, p, e) # NoAlias => p = q /\ SameSlot(e, f)

Sound(T, id, G) ==
  /\ T \in Tables
  /\ id \in AliasId /\ id # NoAlias
  /\ G \subseteq Expr
  /\ Reached(T) /\ Nested(T) /\ Filled(T) /\ Known(T, G) /\ Once(T, id)

\* Where the aliasArgs of the new table come from.
LEMMA Origin ==
  ASSUME NEW T, NEW R, NEW e \in Expr, NEW id, InsertEffect(T, R, e, id),
         NEW q \in DOMAIN R, NEW x \in Expr, Slot(R, q, x) # NoAlias
  PROVE  \/ q \in DOMAIN T /\ Slot(R, q, x) = Slot(T, q, x)
         \/ q = PathOf(e) /\ SameSlot(e, x) /\ Slot(R, q, x) = id
<1>1. CASE q \in DOMAIN T
  BY <1>1 DEF InsertEffect, SameSlot
<1>2. CASE q \notin DOMAIN T
  BY <1>2 DEF InsertEffect
<1> QED BY <1>1, <1>2

LEMMA InsertSound ==
  ASSUME NEW T, NEW id, NEW G, Sound(T, id, G), NEW e \in Expr, NEW H,
         ~(at(T, PathOf(e)) /\ Len(PathOf(e)) = 1),
         Len(PathOf(e)) = 1 \/ <<Decl[e]>> \in DOMAIN T,
         G \subseteq H, H \subseteq Expr, e \in H \/ Len(PathOf(e)) = 1,
         id + 1 \in AliasId
  PROVE  /\ InsertEffect(T, insert(T, e, id), e, id)
         /\ Sound(insert(T, e, id), id + 1, H)
<1>1. /\ T \in Tables /\ id \in AliasId /\ id # NoAlias
      /\ Reached(T) /\ Nested(T) /\ Filled(T) /\ Known(T, G) /\ Once(T, id)
  BY DEF Sound
<1> DEFINE R == insert(T, e, id)
           path == PathOf(e)
<1>2. InsertEffect(T, R, e, id)
  BY <1>1, Inserted
<1> HIDE DEF R
<1>3. /\ R \in Tables
      /\ DOMAIN R = DOMAIN T \cup Above(path) \cup {path}
  BY <1>2 DEF InsertEffect
<1>4. /\ path \in Seq(Subscript) /\ path \notin Above(path)
      /\ \A q \in Above(path) : q \in Seq(Subscript) /\ Len(q) \in 1..(Len(path) - 1)
                                 /\ q[1] = Decl[e] /\ Above(q) \subseteq Above(path)
  <2>1. path \in Seq(Subscript) /\ path[1] = Decl[e] /\ Len(path) \in Nat
    BY PathFacts
  <2>2. path \notin Above(path)
    BY <2>1, AboveFacts
  <2>3. ASSUME NEW q \in Above(path)
        PROVE  q \in Seq(Subscript) /\ Len(q) \in 1..(Len(path) - 1)
                 /\ q[1] = Decl[e] /\ Above(q) \subseteq Above(path)
    <3>1. /\ q \in Seq(Subscript) /\ Len(q) \in 1..(Len(path) - 1) /\ Above(q) \subseteq Above(path)
          /\ \A k \in 1..Len(q) : q[k] = path[k]
      BY <2>1, <2>3, AboveFacts
    <3>2. 1 \in 1..Len(q)
      BY <3>1
    <3> QED BY <2>1, <3>1, <3>2
  <2> QED BY <2>1, <2>2, <2>3
<1>5. Len(path) = 1 => e \notin Spelling /\ path \notin DOMAIN T /\ Above(path) = {}
  <2> SUFFICES ASSUME Len(path) = 1
               PROVE  e \notin Spelling /\ path \notin DOMAIN T /\ Above(path) = {}
    OBVIOUS
  <2>1. Len(Indexes[e]) = 0
    BY PathFacts
  <2>2. e \notin Spelling
    BY <2>1 DEF Spelling, hasUnknownIndex
  <2>3. Above(path) = {}
    BY DEF Above
  <2> QED BY <2>2, <2>3 DEF at
<1>6. ASSUME NEW q \in Above(path), Len(q) = 1 PROVE q \in DOMAIN T
  <2>1. q = <<Decl[e]>>
    BY <1>4, <1>6, ShortPath
  <2> QED BY <2>1, <1>5, <1>6
<1>7. Reached(R)
  <2> SUFFICES ASSUME NEW q \in DOMAIN R
               PROVE  /\ \E f \in Expr : PathOf(f) = q \/ q \in Above(PathOf(f))
                      /\ Above(q) \subseteq DOMAIN R
                      /\ Len(q) = 1 => \A x \in Expr : x \notin Spelling => Slot(R, q, x) # NoAlias
    BY DEF Reached
  <2>1. CASE q \in DOMAIN T
    <3>1. ASSUME NEW x \in Expr, x \notin Spelling PROVE Slot(R, q, x) = Slot(T, q, x)
      BY <2>1, <3>1, <1>2 DEF InsertEffect
    <3> QED BY <2>1, <3>1, <1>1, <1>3 DEF Reached
  <2>2. CASE q \notin DOMAIN T /\ q \in Above(path)
    BY <2>2, <1>3, <1>4, <1>6
  <2>3. CASE q \notin DOMAIN T /\ q = path
    <3>1. ASSUME Len(q) = 1, NEW x \in Expr, x \notin Spelling PROVE Slot(R, q, x) # NoAlias
      BY <2>3, <3>1, <1>1, <1>2, <1>5 DEF InsertEffect, SameSlot
    <3> QED BY <2>3, <3>1, <1>3
  <2> QED BY <2>1, <2>2, <2>3, <1>3
<1>8. Filled(R)
  <2> SUFFICES ASSUME NEW f \in Expr, PathOf(f) \in DOMAIN R, f \notin Spelling, ~Row(f)
               PROVE  Slot(R, PathOf(f), f) # NoAlias
    BY DEF Filled
  <2>1. CASE PathOf(f) \in DOMAIN T
    <3>1. Slot(R, PathOf(f), f) = Slot(T, PathOf(f), f)
      BY <2>1, <1>2 DEF InsertEffect
    <3> QED BY <2>1, <3>1, <1>1 DEF Filled
  <2>2. CASE PathOf(f) \notin DOMAIN T /\ PathOf(f) \in Above(path)
    <3>1. Indexes[f] = <<>>
      BY <2>2, AboveRow
    <3>2. Len(PathOf(f)) = 1
      BY <3>1, PathFacts
    <3> QED BY <2>2, <3>2, <1>6
  <2>3. CASE PathOf(f) \notin DOMAIN T /\ PathOf(f) = path
    <3>1. e \notin Spelling
      BY <2>3, SamePath
    <3> QED BY <2>3, <3>1, <1>1, <1>2 DEF InsertEffect, SameSlot
  <2> QED BY <2>1, <2>2, <2>3, <1>3
<1>9. Known(R, H)
  <2> SUFFICES ASSUME NEW q \in DOMAIN R, NEW x \in Expr, Slot(R, q, x) # NoAlias
               PROVE  \/ \E f \in H : PathOf(f) = q /\ SameSlot(f, x)
                      \/ Len(q) = 1 /\ x \notin Spelling
    BY DEF Known
  <2>1. CASE q \in DOMAIN T /\ Slot(R, q, x) = Slot(T, q, x)
    BY <2>1, <1>1 DEF Known
  <2>2. CASE q = path /\ SameSlot(e, x)
    BY <2>2, <1>5 DEF SameSlot
  <2> QED BY <2>1, <2>2, <1>2, Origin
<1>10. Once(R, id + 1)
  <2>1. id \in Nat /\ \A p \in DOMAIN R, x \in Expr : Slot(R, p, x) \in Nat
    BY <1>1, <1>3, TableAssumption DEF AliasId, Tables, Slot, Place
  <2>2. ASSUME NEW p \in DOMAIN R, NEW x \in Expr PROVE Slot(R, p, x) < id + 1
    <3>1. CASE Slot(R, p, x) = NoAlias
      BY <3>1, <2>1 DEF NoAlias
    <3>2. CASE p \in DOMAIN T /\ Slot(R, p, x) = Slot(T, p, x)
      <4>1. Slot(R, p, x) < id
        BY <3>2, <1>1 DEF Once
      <4> QED BY <4>1, <2>1, <2>2
    <3>3. CASE Slot(R, p, x) = id
      BY <3>3, <2>1
    <3> QED BY <3>1, <3>2, <3>3, <1>2, Origin
  <2>3. ASSUME NEW p \in DOMAIN R, NEW q \in DOMAIN R, NEW x \in Expr, NEW y \in Expr,
               Slot(R, p, x) = Slot(R, q, y), Slot(R, p, x) # NoAlias
        PROVE  p = q /\ SameSlot(x, y)
    <3>1. \/ p \in DOMAIN T /\ Slot(R, p, x) = Slot(T, p, x)
          \/ p = path /\ SameSlot(e, x) /\ Slot(R, p, x) = id
      BY <2>3, <1>2, Origin
    <3>2. \/ q \in DOMAIN T /\ Slot(R, q, y) = Slot(T, q, y)
          \/ q = path /\ SameSlot(e, y) /\ Slot(R, q, y) = id
      BY <2>3, <1>2, Origin
    <3>3. ASSUME NEW r \in DOMAIN T, NEW z \in Expr PROVE Slot(T, r, z) # id
      <4>1. Slot(T, r, z) < id
        BY <1>1 DEF Once
      <4> QED BY <4>1, <2>1
    <3>4. CASE p \in DOMAIN T /\ Slot(R, p, x) = Slot(T, p, x)
      <4>1. q \in DOMAIN T /\ Slot(R, q, y) = Slot(T, q, y)
        BY <3>2, <3>3, <3>4, <2>3
      <4> QED BY <4>1, <3>4, <2>3, <1>1 DEF Once
    <3>5. CASE p = path /\ SameSlot(e, x) /\ Slot(R, p, x) = id
      <4>1. q = path /\ SameSlot(e, y)
        BY <3>2, <3>3, <3>5, <2>3
      <4> QED BY <4>1, <3>5 DEF SameSlot
    <3> QED BY <3>1, <3>4, <3>5
  <2> QED BY <2>2, <2>3 DEF Once
<1>11. id + 1 # NoAlias
  BY <1>1, TableAssumption DEF AliasId, NoAlias
<1>13. Nested(R)
  <2>1. ASSUME NEW q \in DOMAIN R PROVE R[q].sub \/ R[q].own
    <3>1. q \in DOMAIN T \/ q \in Above(path) \/ q = path
      BY <2>1, <1>3
    <3> QED BY <3>1, <1>1, <1>2 DEF InsertEffect, Nested
  <2>2. ASSUME NEW q \in DOMAIN R, NEW a \in Above(q), a \in DOMAIN R PROVE R[a].sub
    <3>1. CASE a \in Above(path)
      BY <3>1, <1>2 DEF InsertEffect
    <3>2. CASE a \notin Above(path)
      <4>1. q \in DOMAIN T
        BY <3>2, <2>2, <1>3, <1>4
      <4>2. a \in DOMAIN T
        BY <4>1, <2>2, <1>1 DEF Reached
      <4> QED BY <4>1, <4>2, <2>2, <1>1, <1>2 DEF InsertEffect, Nested
    <3> QED BY <3>1, <3>2
  <2> QED BY <2>1, <2>2 DEF Nested
<1>12. Sound(R, id + 1, H)
  BY <1>13, <1>3, <1>7, <1>8, <1>9, <1>10, <1>11 DEF Sound
<1> QED BY <1>2, <1>12 DEF R

-----------------------------------------------------------------------------
(***************************************************************************)
(* getOrAddAliasArg.                                                       *)
(***************************************************************************)

\* What is kept after an insertion that takes place when something is missing.
AddEffect(T, id, R, next, e, missing, H) ==
  /\ Sound(R, next, H)
  /\ next \in {id, id + 1}
  /\ DOMAIN T \subseteq DOMAIN R
  /\ \A q \in DOMAIN T : \A x \in Expr :
       Slot(R, q, x) = Slot(T, q, x) \/ (q = PathOf(e) /\ x = e /\ e \in Spelling)
  /\ missing => /\ PathOf(e) \in DOMAIN R
                /\ e \in Spelling => Slot(R, PathOf(e), e) # NoAlias
  /\ ~missing => R = T

LEMMA Added ==
  ASSUME NEW T, NEW id, NEW G, Sound(T, id, G), NEW e \in Expr, NEW H,
         NEW missing \in BOOLEAN,
         missing => ~(at(T, PathOf(e)) /\ Len(PathOf(e)) = 1),
         Len(PathOf(e)) = 1 \/ <<Decl[e]>> \in DOMAIN T,
         G \subseteq H, H \subseteq Expr, e \in H \/ Len(PathOf(e)) = 1,
         id + 1 \in AliasId
  PROVE  \E R, next :
           /\ addElementToAliasTable([T |-> T, id |-> id], e, missing) = [T |-> R, id |-> next]
           /\ AddEffect(T, id, R, next, e, missing, H)
<1>1. CASE missing
  <2>1. addElementToAliasTable([T |-> T, id |-> id], e, missing) = [T |-> insert(T, e, id), id |-> id + 1]
    BY <1>1 DEF addElementToAliasTable
  <2>2. PICK R : R = insert(T, e, id)
    OBVIOUS
  <2>3. InsertEffect(T, R, e, id) /\ Sound(R, id + 1, H)
    BY <1>1, <2>2, InsertSound
  <2>4. AddEffect(T, id, R, id + 1, e, missing, H)
    BY <1>1, <2>3 DEF AddEffect, InsertEffect
  <2> QED BY <2>1, <2>2, <2>4
<1>2. CASE ~missing
  <2>1. addElementToAliasTable([T |-> T, id |-> id], e, missing) = [T |-> T, id |-> id]
    BY <1>2 DEF addElementToAliasTable
  <2>2. Known(T, H)
    BY DEF Sound, Known
  <2>3. Sound(T, id, H)
    BY <2>2 DEF Sound
  <2>4. AddEffect(T, id, T, id, e, missing, H)
    BY <1>2, <2>3 DEF AddEffect
  <2> QED BY <2>1, <2>4
<1> QED BY <1>1, <1>2

\* Every expression asked for has its place, and the alias kept there.
Handed(T, g) ==
  /\ g \in [DOMAIN g -> AliasId]
  /\ \A e \in DOMAIN g :
       /\ PathOf(e) \in DOMAIN T
       /\ g[e] = Slot(T, PathOf(e), e)
       /\ ~Row(e) => g[e] # NoAlias

LEMMA Kept ==
  ASSUME NEW q \in DOMAIN table, NEW x
  PROVE  getAliasArg(table, q, x) = Slot(table, q, x)
BY DEF getAliasArg, Slot, at

LEMMA InvSound ==
  ASSUME TableInv
  PROVE  Sound(table, curId, DOMAIN given) /\ Handed(table, given)
<1>1. /\ TableTypeOK /\ PlacesReached /\ PlacesFilled /\ KeptIsGiven /\ GivenIsKept /\ KeptOnce
  BY DEF TableInv
<1>2. DOMAIN table \in SUBSET Seq(Subscript)
  <2> SUFFICES ASSUME NEW q \in DOMAIN table PROVE q \in Seq(Subscript)
    OBVIOUS
  <2>1. PICK e \in Expr : PathOf(e) = q \/ q \in Above(PathOf(e))
    BY <1>1 DEF PlacesReached
  <2> QED BY <2>1, PathFacts, AboveFacts
<1>3. table \in Tables
  BY <1>1, <1>2, InTables DEF TableTypeOK
<1>4. curId \in AliasId /\ curId # NoAlias /\ DOMAIN given \subseteq Expr
  BY <1>1, TableAssumption DEF TableTypeOK, AliasId, NoAlias
<1>5. Reached(table)
  BY <1>1 DEF PlacesReached, Reached, Slot
<1>6. Filled(table)
  BY <1>1 DEF PlacesFilled, Filled, Slot
<1>7. Known(table, DOMAIN given)
  BY <1>1, Kept DEF KeptIsGiven, Known
<1>8. Once(table, curId)
  BY <1>1, Kept DEF KeptOnce, Once
<1>9. Handed(table, given)
  BY <1>1, Kept DEF GivenIsKept, Handed, TableTypeOK
<1>10. Nested(table)
  BY <1>1 DEF TableTypeOK
<1> QED BY <1>10, <1>3, <1>4, <1>5, <1>6, <1>7, <1>8, <1>9 DEF Sound

LEMMA SoundInv ==
  Sound(table, curId, DOMAIN given) /\ Handed(table, given) => TableInv
<1> SUFFICES ASSUME Sound(table, curId, DOMAIN given), Handed(table, given)
             PROVE  TableInv
  OBVIOUS
<1>1. /\ table \in Tables /\ curId \in AliasId /\ curId # NoAlias /\ DOMAIN given \subseteq Expr
      /\ Reached(table) /\ Nested(table) /\ Filled(table) /\ Known(table, DOMAIN given) /\ Once(table, curId)
  BY DEF Sound
<1>2. TableTypeOK
  <2>1. table \in [DOMAIN table -> Place]
    BY <1>1 DEF Tables
  <2>2. curId \in 1..MaxId
    BY <1>1, TableAssumption DEF AliasId, NoAlias
  <2> QED BY <2>1, <2>2, <1>1 DEF TableTypeOK, Handed
<1>3. PlacesReached
  <2> SUFFICES ASSUME NEW q \in DOMAIN table, Len(q) = 1 PROVE table[q].alias # NoAlias
    BY <1>1 DEF PlacesReached, Reached
  <2>1. PICK e \in Expr : PathOf(e) = q \/ q \in Above(PathOf(e))
    BY <1>1 DEF Reached
  <2>2. Base(e) \in Expr /\ Base(e) \notin Spelling
    BY BaseFacts
  <2> QED BY <2>2, <1>1 DEF Reached, Slot
<1>4. PlacesFilled
  BY <1>1 DEF PlacesFilled, Filled, Slot
<1>5. KeptIsGiven
  BY <1>1, Kept DEF KeptIsGiven, Known
<1>6. KeptOnce
  BY <1>1, Kept DEF KeptOnce, Once
<1>7. GivenIsKept
  BY Kept DEF GivenIsKept, Handed
<1> QED BY <1>2, <1>3, <1>4, <1>5, <1>6, <1>7 DEF TableInv

\* Asking for an expression keeps the table as it should be: the variable, the
\* place and the spelling are entered where they are missing.
LEMMA AskedFor ==
  ASSUME TableInv, NEW e \in Expr, getOrAddAliasArg(e)
  PROVE  TableInv'
<1> DEFINE path == PathOf(e)
           base == Base(e)
           G == DOMAIN given
           H == DOMAIN given \cup {e}
<1>1. /\ Sound(table, curId, G) /\ Handed(table, given) /\ G \subseteq Expr
      /\ given \in [G -> AliasId] /\ G \subseteq H /\ H \subseteq Expr /\ e \in H
  BY InvSound DEF TableInv, TableTypeOK
<1>2. /\ curId \in Nat /\ curId + 1 \in AliasId /\ curId + 2 \in AliasId /\ curId + 3 \in AliasId
  BY TableAssumption DEF getOrAddAliasArg, TableInv, TableTypeOK, AliasId
<1>3. /\ base \in Expr /\ base \notin Spelling /\ Decl[base] = Decl[e]
      /\ PathOf(base) = <<Decl[e]>> /\ Len(PathOf(base)) = 1
  BY BaseFacts
<1>4. PICK m1 \in BOOLEAN : m1 <=> getAliasArg(table, PathOf(base), base) = NoAlias
  <2>1. CASE getAliasArg(table, PathOf(base), base) = NoAlias
    BY <2>1
  <2>2. CASE getAliasArg(table, PathOf(base), base) # NoAlias
    BY <2>2
  <2> QED BY <2>1, <2>2
<1>5. m1 = (getAliasArg(table, PathOf(base), base) = NoAlias)
  BY <1>4
<1>6. PICK T1, id1 :
        /\ addElementToAliasTable([T |-> table, id |-> curId], base, m1) = [T |-> T1, id |-> id1]
        /\ AddEffect(table, curId, T1, id1, base, m1, G)
  <2>1. m1 => ~at(table, PathOf(base))
    <3> SUFFICES ASSUME m1, at(table, PathOf(base)) PROVE FALSE
      OBVIOUS
    <3>1. Slot(table, PathOf(base), base) = NoAlias
      BY <1>4, Kept DEF at
    <3> QED BY <3>1, <1>1, <1>3 DEF at, Sound, Reached
  <2> HIDE DEF base, G
  <2> QED BY <2>1, <1>1, <1>2, <1>3, Added
<1>7. /\ Sound(T1, id1, G) /\ id1 \in {curId, curId + 1}
      /\ DOMAIN table \subseteq DOMAIN T1
      /\ \A q \in DOMAIN table : \A x \in Expr : Slot(T1, q, x) = Slot(table, q, x)
      /\ <<Decl[e]>> \in DOMAIN T1
  <2>1. ~m1 => PathOf(base) \in DOMAIN table
    BY <1>4 DEF getAliasArg, at
  <2> QED BY <2>1, <1>3, <1>6 DEF AddEffect
<1>8. PICK m2 \in BOOLEAN : m2 <=> getAliasArg(T1, path, base) = NoAlias
  <2>1. CASE getAliasArg(T1, path, base) = NoAlias
    BY <2>1
  <2>2. CASE getAliasArg(T1, path, base) # NoAlias
    BY <2>2
  <2> QED BY <2>1, <2>2
<1>9. PICK T2, id2 :
        /\ addElementToAliasTable([T |-> T1, id |-> id1], e, m2) = [T |-> T2, id |-> id2]
        /\ AddEffect(T1, id1, T2, id2, e, m2, H)
  <2>1. m2 => ~(at(T1, path) /\ Len(path) = 1)
    <3> SUFFICES ASSUME m2, at(T1, path), Len(path) = 1 PROVE FALSE
      OBVIOUS
    <3>1. Slot(T1, path, base) = NoAlias
      BY <1>8 DEF getAliasArg, Slot
    <3> QED BY <3>1, <1>3, <1>7 DEF at, Sound, Reached
  <2>2. id1 + 1 \in AliasId
    BY <1>2, <1>7
  <2> QED BY <2>1, <2>2, <1>1, <1>7, Added
<1>10. /\ Sound(T2, id2, H) /\ id2 \in {id1, id1 + 1}
       /\ DOMAIN T1 \subseteq DOMAIN T2
       /\ \A q \in DOMAIN T1 : \A x \in Expr :
            Slot(T2, q, x) = Slot(T1, q, x) \/ (q = path /\ x = e /\ e \in Spelling)
       /\ path \in DOMAIN T2
  <2>1. ~m2 => path \in DOMAIN T1
    BY <1>8 DEF getAliasArg, at
  <2> QED BY <2>1, <1>9 DEF AddEffect
<1>11. PICK m3 \in BOOLEAN : m3 <=> getAliasArg(T2, path, e) = NoAlias
  <2>1. CASE getAliasArg(T2, path, e) = NoAlias
    BY <2>1
  <2>2. CASE getAliasArg(T2, path, e) # NoAlias
    BY <2>2
  <2> QED BY <2>1, <2>2
<1>12. getAliasArg(T2, path, e) = Slot(T2, path, e)
  BY <1>10 DEF getAliasArg, Slot, at
<1>13. PICK T3, id3 :
        /\ addElementToAliasTable([T |-> T2, id |-> id2], e, m3) = [T |-> T3, id |-> id3]
        /\ AddEffect(T2, id2, T3, id3, e, m3, H)
  <2>1. m3 => ~(at(T2, path) /\ Len(path) = 1)
    <3> SUFFICES ASSUME m3, Len(path) = 1 PROVE FALSE
      OBVIOUS
    <3>1. Len(Indexes[e]) = 0
      BY PathFacts
    <3>2. e \notin Spelling
      BY <3>1 DEF Spelling, hasUnknownIndex
    <3> QED BY <3>2, <1>10, <1>11, <1>12 DEF Sound, Reached
  <2>2. id2 + 1 \in AliasId
    BY <1>2, <1>7, <1>10
  <2>3. <<Decl[e]>> \in DOMAIN T2
    BY <1>7, <1>10
  <2> QED BY <2>1, <2>2, <2>3, <1>1, <1>10, Added
<1>14. /\ Sound(T3, id3, H) /\ path \in DOMAIN T3
       /\ DOMAIN T2 \subseteq DOMAIN T3
       /\ \A q \in DOMAIN T2 : \A x \in Expr :
            Slot(T3, q, x) = Slot(T2, q, x) \/ (q = path /\ x = e /\ e \in Spelling)
       /\ e \in Spelling => Slot(T3, path, e) # NoAlias
  BY <1>10, <1>11, <1>12, <1>13 DEF AddEffect
<1>15. getAliasArg(T3, path, e) = Slot(T3, path, e)
  BY <1>14 DEF getAliasArg, Slot, at
<1>16. /\ table' = T3 /\ curId' = id3
       /\ given' = [f \in H |-> IF f = e THEN getAliasArg(T3, path, e) ELSE given[f]]
  <2>1. m2 = (getAliasArg(T1, path, base) = NoAlias) /\ m3 = (getAliasArg(T2, path, e) = NoAlias)
    BY <1>8, <1>11
  <2> QED BY <2>1, <1>5, <1>6, <1>9, <1>13 DEF getOrAddAliasArg
<1>17. Slot(T3, path, e) \in AliasId
  <2>1. T3[path] \in Place
    BY <1>14 DEF Sound, Tables
  <2> QED BY <2>1 DEF Slot, Place
<1>18. given' \in [H -> AliasId]
  BY <1>1, <1>15, <1>16, <1>17
<1>19. ASSUME NEW f \in H
       PROVE  /\ PathOf(f) \in DOMAIN T3
              /\ given'[f] = Slot(T3, PathOf(f), f)
              /\ ~Row(f) => given'[f] # NoAlias
  <2>1. CASE f = e
    <3>1. given'[e] = Slot(T3, path, e)
      BY <1>15, <1>16
    <3>2. e \notin Spelling /\ ~Row(e) => Slot(T3, path, e) # NoAlias
      BY <1>14 DEF Sound, Filled
    <3> QED BY <2>1, <3>1, <3>2, <1>14
  <2>2. CASE f # e
    <3>1. f \in G /\ f \in Expr /\ given'[f] = given[f]
      BY <2>2, <1>1, <1>16, <1>19
    <3>2. PathOf(f) \in DOMAIN table /\ given[f] = Slot(table, PathOf(f), f)
           /\ (~Row(f) => given[f] # NoAlias)
      BY <3>1, <1>1 DEF Handed
    <3>3. PathOf(f) \in DOMAIN T1 /\ PathOf(f) \in DOMAIN T2 /\ PathOf(f) \in DOMAIN T3
      BY <3>2, <1>7, <1>10, <1>14
    <3>4. Slot(T1, PathOf(f), f) = Slot(table, PathOf(f), f)
      BY <3>1, <3>2, <1>7
    <3>5. Slot(T2, PathOf(f), f) = Slot(T1, PathOf(f), f)
      BY <2>2, <3>1, <3>3, <1>10
    <3>6. Slot(T3, PathOf(f), f) = Slot(T2, PathOf(f), f)
      BY <2>2, <3>1, <3>3, <1>14
    <3> QED BY <3>1, <3>2, <3>3, <3>4, <3>5, <3>6
  <2> QED BY <2>1, <2>2
<1>20. Handed(table, given)'
  BY <1>16, <1>18, <1>19 DEF Handed, Slot
<1>21. Sound(table, curId, DOMAIN given)'
  <2>1. Sound(table', curId', DOMAIN given')
    BY <1>14, <1>16
  <2> QED BY <2>1 DEF Sound, Reached, Nested, Filled, Known, Once, Slot
<1> QED BY <1>20, <1>21, SoundInv, PTL
-----------------------------------------------------------------------------
(***************************************************************************)
(* The walk.  Its recursion is over the number of subscripts: a function   *)
(* that satisfies it exists, and every one that does finds the places that *)
(* agree with the subscripts so far.                                       *)
(***************************************************************************)

Walks(T, e, L, f) ==
  f = [n \in 0..L |-> IF n = 0 THEN {<<Decl[e]>>}
                      ELSE UNION {getDirectChildren(T, path, Indexes[e][n]) : path \in f[n - 1]}]

LEMMA WalkDef ==
  ASSUME NEW T, NEW e \in Expr
  PROVE  getArrayElementChildren(T, e) =
           UNION {getAllAlias(T, path) :
                    path \in (CHOOSE f : Walks(T, e, Len(Indexes[e]), f))[Len(Indexes[e])]}
BY DEF getArrayElementChildren, Walks

LEMMA LeastNumber ==
  ASSUME NEW S \in SUBSET Nat, NEW x \in S
  PROVE  \E n \in S : \A m \in S : n <= m
<1>1. PICK n \in S : \A m \in S : ~(<<m, n>> \in OpToRel(<, Nat))
  BY NatLessThanWellFounded, WFMin
<1>2. \A m \in S : ~(m < n)
  BY <1>1 DEF OpToRel
<1> QED BY <1>2

LEMMA WalkExists ==
  ASSUME NEW T, NEW e \in Expr, NEW L \in Nat
  PROVE  \E f : Walks(T, e, L, f)
<1> SUFFICES ASSUME ~\E f : Walks(T, e, L, f) PROVE FALSE
  OBVIOUS
<1> DEFINE bad == {n \in Nat : ~\E f : Walks(T, e, n, f)}
<1>1. PICK m \in bad : \A n \in bad : m <= n
  <2>1. bad \in SUBSET Nat /\ L \in bad
    OBVIOUS
  <2> QED BY <2>1, LeastNumber
<1>2. CASE m = 0
  <2> DEFINE g == [n \in 0..0 |-> {<<Decl[e]>>}]
  <2>1. Walks(T, e, 0, g)
    BY DEF Walks
  <2> QED BY <2>1, <1>1, <1>2
<1>3. CASE m # 0
  <2>1. m \in Nat /\ m - 1 \in Nat /\ m - 1 \notin bad
    BY <1>1, <1>3
  <2>2. PICK f : Walks(T, e, m - 1, f)
    BY <2>1
  <2> DEFINE last == UNION {getDirectChildren(T, path, Indexes[e][m]) : path \in f[m - 1]}
             g == [n \in 0..m |-> IF n = m THEN last ELSE f[n]]
  <2>3. ASSUME NEW n \in 0..m
        PROVE  g[n] = IF n = 0 THEN {<<Decl[e]>>}
                      ELSE UNION {getDirectChildren(T, path, Indexes[e][n]) : path \in g[n - 1]}
    <3>1. CASE n = m
      <4>1. m - 1 \in 0..m /\ m - 1 # m
        BY <2>1
      <4>2. g[m - 1] = f[m - 1]
        BY <4>1
      <4> QED BY <3>1, <4>2, <1>3
    <3>2. CASE n # m
      <4>1. n \in 0..(m - 1) /\ n \in 0..m /\ (n # 0 => n - 1 \in 0..m /\ n - 1 # m)
        BY <2>1, <3>2
      <4>2. g[n] = f[n] /\ (n # 0 => g[n - 1] = f[n - 1])
        BY <4>1, <3>2
      <4>3. f[n] = IF n = 0 THEN {<<Decl[e]>>}
                   ELSE UNION {getDirectChildren(T, path, Indexes[e][n]) : path \in f[n - 1]}
        BY <4>1, <2>2 DEF Walks
      <4> QED BY <4>2, <4>3
    <3> QED BY <3>1, <3>2
  <2>4. Walks(T, e, m, g)
    BY <2>3 DEF Walks
  <2> HIDE DEF g
  <2> QED BY <2>4, <1>1
<1> QED BY <1>2, <1>3

\* The places with n subscripts that agree with those of e.
Agree(T, e, n) ==
  {q \in DOMAIN T : /\ Len(q) = n + 1
                    /\ q[1] = Decl[e]
                    /\ \A k \in 1..n : Indexes[e][k] \in {Unknown, q[k + 1]}}

LEMMA OneFurther ==
  ASSUME NEW T \in Tables, Reached(T), NEW e \in Expr, NEW n \in Nat, n # 0
  PROVE  UNION {getDirectChildren(T, path, Indexes[e][n]) : path \in Agree(T, e, n - 1)}
           = Agree(T, e, n)
<1>0. n - 1 \in Nat /\ (n - 1) + 1 = n /\ n \in 1..n
  OBVIOUS
<1>1. ASSUME NEW path \in Agree(T, e, n - 1), NEW q \in getDirectChildren(T, path, Indexes[e][n])
      PROVE  q \in Agree(T, e, n)
  <2>1. /\ path \in DOMAIN T /\ Len(path) = n /\ path[1] = Decl[e]
        /\ \A k \in 1..(n - 1) : Indexes[e][k] \in {Unknown, path[k + 1]}
    BY <1>0 DEF Agree
  <2>2. /\ q \in DOMAIN T /\ Len(q) = n + 1 /\ SubSeq(q, 1, n) = path
        /\ Indexes[e][n] \in {Unknown, q[n + 1]}
    BY <2>1 DEF getDirectChildren
  <2>3. q \in Seq(Subscript)
    BY <2>2 DEF Tables
  <2>4. \A k \in 1..n : path[k] = q[k]
    BY <2>2, <2>3
  <2>5. ASSUME NEW k \in 1..n PROVE Indexes[e][k] \in {Unknown, q[k + 1]}
    <3>1. CASE k = n
      BY <3>1, <2>2
    <3>2. CASE k # n
      <4>1. k \in 1..(n - 1) /\ k + 1 \in 1..n
        BY <3>2
      <4>2. path[k + 1] = q[k + 1]
        BY <4>1, <2>4
      <4> QED BY <4>1, <4>2, <2>1
    <3> QED BY <3>1, <3>2
  <2>6. q[1] = Decl[e]
    BY <2>1, <2>4
  <2> QED BY <2>2, <2>5, <2>6 DEF Agree
<1>2. ASSUME NEW q \in Agree(T, e, n)
      PROVE  \E path \in Agree(T, e, n - 1) : q \in getDirectChildren(T, path, Indexes[e][n])
  <2>1. /\ q \in DOMAIN T /\ Len(q) = n + 1 /\ q[1] = Decl[e]
        /\ \A k \in 1..n : Indexes[e][k] \in {Unknown, q[k + 1]}
    BY DEF Agree
  <2>2. q \in Seq(Subscript)
    BY <2>1 DEF Tables
  <2>3. PICK path : path = SubSeq(q, 1, n)
    OBVIOUS
  <2>4. path \in Seq(Subscript) /\ Len(path) = n /\ \A k \in 1..n : path[k] = q[k]
    BY <2>1, <2>2, <2>3
  <2>5. path \in DOMAIN T
    <3>1. path \in Above(q)
      BY <2>1, <2>3 DEF Above
    <3> QED BY <3>1, <2>1 DEF Reached
  <2>6. path[1] = Decl[e]
    BY <2>1, <2>4
  <2>7. ASSUME NEW k \in 1..(n - 1) PROVE Indexes[e][k] \in {Unknown, path[k + 1]}
    <3>1. k \in 1..n /\ k + 1 \in 1..n
      OBVIOUS
    <3> QED BY <3>1, <2>1, <2>4
  <2>8. path \in Agree(T, e, n - 1)
    BY <2>4, <2>5, <2>6, <2>7, <1>0 DEF Agree
  <2>9. Indexes[e][n] \in {Unknown, q[n + 1]}
    BY <2>1, <1>0
  <2>10. q \in getDirectChildren(T, path, Indexes[e][n])
    BY <2>1, <2>3, <2>4, <2>9 DEF getDirectChildren
  <2> QED BY <2>8, <2>10
<1> QED BY <1>1, <1>2

LEMMA WalkAgrees ==
  ASSUME NEW T \in Tables, Reached(T), NEW e \in Expr, <<Decl[e]>> \in DOMAIN T,
         NEW L \in Nat, NEW f, Walks(T, e, L, f)
  PROVE  f[L] = Agree(T, e, L)
<1> SUFFICES ASSUME f[L] # Agree(T, e, L) PROVE FALSE
  OBVIOUS
<1> DEFINE bad == {n \in 0..L : f[n] # Agree(T, e, n)}
<1>1. PICK m \in bad : \A n \in bad : m <= n
  <2>1. bad \in SUBSET Nat /\ L \in bad
    OBVIOUS
  <2> QED BY <2>1, LeastNumber
<1>2. m \in 0..L /\ f[m] # Agree(T, e, m)
  BY <1>1
<1>3. CASE m = 0
  <2>1. f[0] = {<<Decl[e]>>}
    BY <1>2, <1>3 DEF Walks
  <2>2. ASSUME NEW q \in Agree(T, e, 0) PROVE q = <<Decl[e]>>
    BY <2>2, ShortPath DEF Agree, Tables
  <2>3. <<Decl[e]>> \in Agree(T, e, 0)
    BY DEF Agree
  <2> QED BY <2>1, <2>2, <2>3, <1>2, <1>3
<1>4. CASE m # 0
  <2>1. m \in Nat /\ m - 1 \in 0..L /\ ~(m <= m - 1)
    BY <1>2, <1>4
  <2>2. f[m - 1] = Agree(T, e, m - 1)
    BY <2>1, <1>1
  <2>3. f[m] = UNION {getDirectChildren(T, path, Indexes[e][m]) : path \in f[m - 1]}
    BY <1>2, <1>4 DEF Walks
  <2> QED BY <2>1, <2>2, <2>3, <1>2, <1>4, OneFurther
<1> QED BY <1>3, <1>4

-----------------------------------------------------------------------------
(***************************************************************************)
(* The theorems.                                                           *)
(***************************************************************************)

\* The table holds, at every place, what was handed out for it, and nothing
\* twice.
THEOREM TableInvariance == TableSpec => []TableInv
<1>1. TableInit => TableInv
  <2> SUFFICES ASSUME TableInit PROVE TableInv
    OBVIOUS
  <2>1. table = <<>> /\ given = <<>> /\ curId = 1
    BY DEF TableInit
  <2>2. DOMAIN table = {} /\ DOMAIN given = {}
    BY <2>1
  <2>3. TableTypeOK
    <3>1. table \in [DOMAIN table -> Place] /\ given \in [DOMAIN given -> AliasId]
      BY <2>1
    <3> QED BY <2>1, <2>2, <3>1, TableAssumption DEF TableTypeOK, Nested
  <2> QED BY <2>2, <2>3 DEF TableInv, PlacesReached, PlacesFilled, KeptIsGiven,
        GivenIsKept, KeptOnce
<1>2. TableInv /\ [TableNext]_tableVars => TableInv'
  <2>1. ASSUME TableInv, NEW e \in Expr, getOrAddAliasArg(e) PROVE TableInv'
    BY <2>1, AskedFor
  <2>2. ASSUME TableInv, UNCHANGED tableVars PROVE TableInv'
    BY <2>2 DEF tableVars, TableInv, TableTypeOK, Nested, PlacesReached, PlacesFilled, KeptIsGiven,
       GivenIsKept, KeptOnce
  <2> QED BY <2>1, <2>2 DEF TableNext
<1> QED BY <1>1, <1>2, PTL DEF TableSpec

\* The table and what is handed out keep their types.
THEOREM TableTypeCorrect == TableSpec => []TableTypeOK
<1>1. TableInv => TableTypeOK
  BY DEF TableInv
<1> QED BY <1>1, TableInvariance, PTL

\* Every access to an element is given the one aliasArg that was made for it,
\* and two elements never share one, whatever the accesses and their order.
THEOREM TableOneAlias == TableSpec => []OneAliasPerElement
<1>1. TableInv => OneAliasPerElement
  <2> SUFFICES ASSUME TableInv PROVE OneAliasPerElement
    OBVIOUS
  <2>1. GivenIsKept /\ KeptOnce /\ DOMAIN given \subseteq Expr
    BY DEF TableInv, TableTypeOK
  <2>2. ASSUME NEW e \in DOMAIN given, NEW f \in DOMAIN given, e # f, given[e] = given[f],
               given[e] # NoAlias
        PROVE  FALSE
    <3>1. /\ given[e] = getAliasArg(table, PathOf(e), e) /\ PathOf(e) \in DOMAIN table
          /\ given[f] = getAliasArg(table, PathOf(f), f) /\ PathOf(f) \in DOMAIN table
          /\ e \in Expr /\ f \in Expr
      BY <2>1 DEF GivenIsKept
    <3>2. PathOf(e) = PathOf(f) /\ SameSlot(e, f)
      BY <2>1, <2>2, <3>1 DEF KeptOnce
    <3> QED BY <2>2, <3>1, <3>2, SamePath DEF SameSlot
  <2> QED BY <2>1, <2>2 DEF OneAliasPerElement, GivenIsKept
<1> QED BY <1>1, TableInvariance, PTL

\* The walk that TaskGraph builds its links from finds exactly the elements
\* that the subscripts say, for every set of accesses and in every order.
THEOREM TableWalkFinds == TableSpec => []WalkFindsElements
<1>1. TableInv => WalkFindsElements
  <2> SUFFICES ASSUME TableInv, NEW e \in DOMAIN given, given[e] # NoAlias
               PROVE  getArrayElementChildren(table, e) =
                        {given[f] : f \in {g \in DOMAIN given :
                           /\ Decl[g] = Decl[e]
                           /\ Len(Indexes[g]) = Len(Indexes[e])
                           /\ \A k \in 1..Len(Indexes[e]) : Indexes[e][k] \in {Unknown, Indexes[g][k]}}}
                        \ {NoAlias}
    BY DEF WalkFindsElements
  <2> DEFINE L == Len(Indexes[e])
             match(g) == /\ Decl[g] = Decl[e]
                         /\ Len(Indexes[g]) = L
                         /\ \A k \in 1..L : Indexes[e][k] \in {Unknown, Indexes[g][k]}
  <2>1. /\ table \in Tables /\ DOMAIN given \subseteq Expr /\ e \in Expr /\ L \in Nat
        /\ Reached(table) /\ Known(table, DOMAIN given) /\ Handed(table, given)
        /\ PathOf(e) \in DOMAIN table
    BY InvSound, PathFacts DEF Sound, Handed
  <2>2. <<Decl[e]>> \in DOMAIN table
    <3>1. PathOf(e) \in Seq(Subscript) /\ Len(PathOf(e)) = L + 1 /\ PathOf(e)[1] = Decl[e]
      BY <2>1, PathFacts
    <3>2. CASE L = 0
      BY <3>1, <3>2, <2>1, ShortPath
    <3>3. CASE L # 0
      <4>1. SubSeq(PathOf(e), 1, 1) \in Above(PathOf(e))
        BY <3>1, <3>3, <2>1 DEF Above
      <4>2. SubSeq(PathOf(e), 1, 1) = <<Decl[e]>>
        <5>1. /\ SubSeq(PathOf(e), 1, 1) \in Seq(Subscript)
              /\ Len(SubSeq(PathOf(e), 1, 1)) = 1
              /\ SubSeq(PathOf(e), 1, 1)[1] = Decl[e]
          BY <3>1, <3>3, <2>1
        <5> QED BY <5>1, <2>1, ShortPath
      <4> QED BY <4>1, <4>2, <2>1 DEF Reached
    <3> QED BY <3>2, <3>3
  <2>3. getArrayElementChildren(table, e) = UNION {getAllAlias(table, q) : q \in Agree(table, e, L)}
    <3>1. PICK f : f = CHOOSE g : Walks(table, e, L, g)
      OBVIOUS
    <3>2. Walks(table, e, L, f)
      BY <3>1, <2>1, WalkExists
    <3>3. f[L] = Agree(table, e, L)
      BY <3>2, <2>1, <2>2, WalkAgrees
    <3>4. getArrayElementChildren(table, e) = UNION {getAllAlias(table, q) : q \in f[L]}
      BY <3>1, <2>1, WalkDef
    <3> QED BY <3>3, <3>4
  <2>4. ASSUME NEW q \in Agree(table, e, L), NEW a \in getAllAlias(table, q)
        PROVE  \E g \in DOMAIN given : match(g) /\ given[g] = a /\ a # NoAlias
    <3>1. q \in DOMAIN table /\ Len(q) = L + 1 /\ q[1] = Decl[e]
          /\ \A k \in 1..L : Indexes[e][k] \in {Unknown, q[k + 1]}
      BY DEF Agree
    <3>2. Base(e) \in Expr /\ Base(e) \notin Spelling /\ Spelling \subseteq Expr
      BY <2>1, BaseFacts DEF Spelling
    <3>3. PICK x \in Expr : Slot(table, q, x) = a /\ a # NoAlias
      <4>1. CASE a = table[q].alias
        BY <4>1, <3>2, <2>4 DEF getAllAlias, Slot
      <4>2. CASE \E s \in Spelling : a = table[q].unknown[s]
        BY <4>2, <3>2, <2>4 DEF getAllAlias, Slot
      <4> QED BY <4>1, <4>2, <2>4 DEF getAllAlias
    <3>4. PICK g \in DOMAIN given : PathOf(g) = q /\ SameSlot(g, x)
      <4>1. CASE Len(q) = 1 /\ x \notin Spelling
        <5>1. L = 0
          <6>1. L \in Nat /\ L + 1 = 1
            BY <4>1, <3>1, <2>1
          <6> HIDE DEF L
          <6> QED BY <6>1
        <5>2. e \notin Spelling
          BY <5>1 DEF Spelling, hasUnknownIndex
        <5>3. PathOf(e) \in Seq(Subscript) /\ Len(PathOf(e)) = 1 /\ PathOf(e)[1] = Decl[e]
          <6>1. PathOf(e) \in Seq(Subscript) /\ Len(PathOf(e)) = L + 1 /\ PathOf(e)[1] = Decl[e]
            BY <2>1, PathFacts
          <6> QED BY <5>1, <6>1
        <5>4. q \in Seq(Subscript)
          BY <3>1, <2>1 DEF Tables
        <5>5. PathOf(e) = q
          BY <5>3, <5>4, <4>1, <3>1, <2>1, ShortPath
        <5> QED BY <5>2, <5>5, <4>1 DEF SameSlot
      <4> QED BY <4>1, <3>1, <3>3, <2>1 DEF Known
    <3>5. given[g] = a
      BY <3>3, <3>4, <2>1 DEF Handed, Slot, SameSlot
    <3>6. g \in Expr /\ Len(Indexes[g]) \in Nat /\ Len(q) = Len(Indexes[g]) + 1
          /\ q[1] = Decl[g] /\ \A k \in 1..Len(Indexes[g]) : q[k + 1] = Indexes[g][k]
      BY <3>4, <2>1, PathFacts
    <3>7. Len(Indexes[g]) = L
      BY <3>1, <3>6, <2>1
    <3>8. match(g)
      BY <3>1, <3>6, <3>7
    <3> QED BY <3>3, <3>5, <3>8
  <2>5. ASSUME NEW g \in DOMAIN given, match(g), given[g] # NoAlias
        PROVE  \E q \in Agree(table, e, L) : given[g] \in getAllAlias(table, q)
    <3>1. g \in Expr /\ PathOf(g) \in DOMAIN table /\ given[g] = Slot(table, PathOf(g), g)
      BY <2>1 DEF Handed
    <3>2. /\ Len(PathOf(g)) = L + 1 /\ PathOf(g)[1] = Decl[e]
          /\ \A k \in 1..L : PathOf(g)[k + 1] = Indexes[g][k]
      BY <3>1, <2>5, PathFacts
    <3>3. PathOf(g) \in Agree(table, e, L)
      BY <3>1, <3>2, <2>5 DEF Agree
    <3>4. given[g] \in getAllAlias(table, PathOf(g))
      BY <3>1, <2>5 DEF getAllAlias, Slot
    <3> QED BY <3>3, <3>4
  <2>6. ASSUME NEW a
        PROVE  a \in getArrayElementChildren(table, e)
                 <=> a \in {given[f] : f \in {g \in DOMAIN given : match(g)}} \ {NoAlias}
    <3>1. ASSUME a \in getArrayElementChildren(table, e)
          PROVE  a \in {given[f] : f \in {g \in DOMAIN given : match(g)}} \ {NoAlias}
      <4>1. PICK q \in Agree(table, e, L) : a \in getAllAlias(table, q)
        BY <3>1, <2>3
      <4> QED BY <4>1, <2>4
    <3>2. ASSUME a \in {given[f] : f \in {g \in DOMAIN given : match(g)}} \ {NoAlias}
          PROVE  a \in getArrayElementChildren(table, e)
      <4>1. PICK g \in DOMAIN given : match(g) /\ given[g] = a /\ a # NoAlias
        BY <3>2
      <4> QED BY <4>1, <2>3, <2>5
    <3> QED BY <3>1, <3>2
  <2> QED BY <2>6
<1> QED BY <1>1, TableInvariance, PTL
=============================================================================
