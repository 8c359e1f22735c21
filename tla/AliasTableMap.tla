---------------------------- MODULE AliasTableMap ----------------------------
(***************************************************************************)
(* Where the AliasTable keeps its aliasArgs: the map from variables to     *)
(* nested maps of subscripts (transforms/TaskGraph/src/                    *)
(* AliasTableAliasMap.cpp and AliasTableIndexMap.cpp), getOrAddAliasArg,   *)
(* which hands out the aliasArg of an expression, and the walk that finds  *)
(* the elements an access may denote.                                      *)
(*                                                                         *)
(* A place of the table is a path: a variable and subscripts.  At a place  *)
(* there is an aliasArgStruct or, once subscripts follow it, a sub array   *)
(* that may own an aliasArgStruct (own).  A struct holds one aliasArg for  *)
(* known subscripts and one per spelling for unknown ones.  aliasArgs are  *)
(* numbered in the order in which they are made, 0 standing for nullptr.   *)
(***************************************************************************)
EXTENDS Integers, Sequences, FiniteSets

CONSTANTS
  Expr,     \* the variables and array accesses of the function
  Decl,     \* Decl[e]: the variable
  Indexes,  \* Indexes[e]: the values of the subscripts, -1 for an unknown one
  MaxId     \* bound on the number of aliasArgs made

Unknown == -1
NoAlias == 0
AliasId == 0..MaxId

hasUnknownIndex(e) == \E k \in 1..Len(Indexes[e]) : Indexes[e][k] = Unknown

\* The spelling of unknown subscripts, "" when all are known.
Spelling == {e \in Expr : hasUnknownIndex(e)}

ASSUME TableAssumption ==
  /\ MaxId \in Nat \ {0}
  /\ \A e \in Expr : Indexes[e] \in Seq(Int)
  /\ \A e \in Expr : \E b \in Expr : Decl[b] = Decl[e] /\ Indexes[b] = <<>>
  /\ \A e, f \in Expr :
       (Decl[e] = Decl[f] /\ Indexes[e] = Indexes[f] /\ e # f) => e \in Spelling

VARIABLES
  table,    \* the places in use and what is there
  curId,    \* the number of the next aliasArg
  given     \* what getOrAddAliasArg returned for each expression asked for

tableVars == <<table, curId, given>>

PathOf(e) == <<Decl[e]>> \o Indexes[e]

Place == [sub : BOOLEAN, own : BOOLEAN, alias : AliasId, unknown : [Spelling -> AliasId]]

NoneSpelled == [s \in Spelling |-> NoAlias]
EmptySubArray == [sub |-> TRUE, own |-> FALSE, alias |-> NoAlias, unknown |-> NoneSpelled]

\* Whether there is anything at a place.
at(T, path) == path \in DOMAIN T

Put(T, path, place) ==
  [q \in DOMAIN T \cup {path} |-> IF q = path THEN place ELSE T[q]]
-----------------------------------------------------------------------------
\* A new struct with one aliasArg.
aliasArgStruct(e, id) ==
  [sub |-> FALSE, own |-> TRUE,
   alias   |-> IF e \in Spelling THEN NoAlias ELSE id,
   unknown |-> [s \in Spelling |-> IF s = e THEN id ELSE NoAlias]]

\* The aliasArg kept for e, or for the place of e when its spelling is left out.
getAliasArg(T, path, spelling) ==
  IF ~at(T, path) THEN NoAlias
  ELSE IF spelling \in Spelling THEN T[path].unknown[spelling] ELSE T[path].alias

\* Slip: the struct that was at the place is not handed to the sub array.
toSubArray_Fresh(T, path) ==
  IF at(T, path) /\ T[path].sub THEN T[path] ELSE EmptySubArray

\* Slip: the new sub array is not put in the place of the struct.
toSubArray_NotPut(T, path) == IF at(T, path) THEN T[path] ELSE EmptySubArray

\* A place that subscripts follow becomes a sub array; the struct that was
\* there becomes its own.
toSubArray(T, path) ==
  IF at(T, path) THEN [T[path] EXCEPT !.sub = TRUE] ELSE EmptySubArray

\* The places on the way to a path.
Above(path) == {SubSeq(path, 1, n) : n \in 1..(Len(path) - 1)}

\* aliasArgStruct's +=: the spellings that are not known yet are added.
AddSpelled(old, new) ==
  [s \in Spelling |-> IF old[s] # NoAlias THEN old[s] ELSE new[s]]

\* AliasTableMapStruct::insert and IndexTableMapStruct::insert.  A place that
\* is taken becomes a sub array, and of the new struct only the spelled aliases
\* are added to what it owns: for an array element that has elements of its own
\* already, nothing is.
insert(T, e, id) ==
  LET path == PathOf(e)
      U    == [q \in DOMAIN T \cup Above(path) |->
                 IF q \in Above(path) THEN toSubArray(T, q) ELSE T[q]]
      new  == aliasArgStruct(e, id)
  IN  IF ~at(T, path) THEN Put(U, path, new)
      ELSE IF Len(path) = 1
        THEN IF T[path].own THEN U ELSE Put(U, path, [new EXCEPT !.sub = TRUE])
        ELSE Put(U, path, [toSubArray(T, path) EXCEPT !.unknown = AddSpelled(@, new.unknown)])

\* Adding spelled aliases to a sub array without a struct of its own follows a
\* null pointer.
InsertAborts(T, e) ==
  /\ e \in Spelling
  /\ at(T, PathOf(e))
  /\ ~T[PathOf(e)].own

\* The variable an element is part of, which is an expression as well.
Base(e) == CHOOSE b \in Expr : Decl[b] = Decl[e] /\ Indexes[b] = <<>>

addElementToAliasTable(st, e, missing) ==
  IF missing THEN [T |-> insert(st.T, e, st.id), id |-> st.id + 1] ELSE st

\* The variable is added first, then the place, then the spelling.  A place
\* counts as missing when it has no aliasArg for known subscripts, so that an
\* unknown one is inserted again every time, to no effect.
getOrAddAliasArg(e) ==
  LET path == PathOf(e)
      base == Base(e)
      st0  == [T |-> table, id |-> curId]
      st1  == addElementToAliasTable(st0, base, getAliasArg(table, PathOf(base), base) = NoAlias)
      st2  == addElementToAliasTable(st1, e, getAliasArg(st1.T, path, base) = NoAlias)
      st3  == addElementToAliasTable(st2, e, getAliasArg(st2.T, path, e) = NoAlias)
  IN  /\ curId + 3 <= MaxId
      /\ ~InsertAborts(table, e)
      /\ table' = st3.T
      /\ curId' = st3.id
      /\ given' = [f \in DOMAIN given \cup {e} |->
                     IF f = e THEN getAliasArg(st3.T, path, e) ELSE given[f]]

\* The aliasArgs kept at a place.
getAllAlias(T, path) ==
  ({T[path].alias} \cup {T[path].unknown[s] : s \in Spelling}) \ {NoAlias}

\* Slip: an unknown subscript only follows the entries that are unknown too.
getDirectChildren_Exact(T, path, index) == {q \in DOMAIN T : q = Append(path, index)}

\* The places one subscript further: all of them for an unknown one.
getDirectChildren(T, path, index) ==
  {q \in DOMAIN T : /\ Len(q) = Len(path) + 1
                    /\ SubSeq(q, 1, Len(path)) = path
                    /\ index \in {Unknown, q[Len(q)]}}

\* The aliasArgs with as many subscripts as e among those met on the walk
\* along the subscripts of e.
getArrayElementChildren(T, e) ==
  LET visit[n \in 0..Len(Indexes[e])] ==
        IF n = 0 THEN {<<Decl[e]>>}
        ELSE UNION {getDirectChildren(T, path, Indexes[e][n]) : path \in visit[n - 1]}
  IN  UNION {getAllAlias(T, path) : path \in visit[Len(Indexes[e])]}

TableInit == table = <<>> /\ curId = 1 /\ given = <<>>

TableNext == \E e \in Expr : getOrAddAliasArg(e)

TableSpec == TableInit /\ [][TableNext]_tableVars
-----------------------------------------------------------------------------
\* A row: an access to an array that other accesses subscript further.
Row(e) == /\ Indexes[e] # <<>>
          /\ \E f \in Expr : Decl[f] = Decl[e] /\ Len(Indexes[f]) > Len(Indexes[e])

\* The alternatives of the variants fit the nested maps: what lies on the way to
\* a place is a sub array, and what is no sub array is a struct.
Nested(T) ==
  \A q \in DOMAIN T :
    /\ T[q].sub \/ T[q].own
    /\ \A a \in Above(q) : a \in DOMAIN T => T[a].sub

TableTypeOK ==
  /\ table \in [DOMAIN table -> Place]
  /\ Nested(table)
  /\ curId \in 1..MaxId
  /\ DOMAIN given \subseteq Expr
  /\ given \in [DOMAIN given -> AliasId]

\* Every access to an element is given the one aliasArg that was made for it
\* at first: conflicts are found by comparing aliasArgs, so a second one for
\* the same element, or the loss of one when its place becomes a sub array,
\* would hide them.  (Rows are left out: a row that comes after one of its
\* elements is given none.)
OneAliasPerElement ==
  /\ \A e \in DOMAIN given :
       /\ given[e] = getAliasArg(table, PathOf(e), e)
       /\ ~Row(e) => given[e] # NoAlias
  /\ \A e, f \in DOMAIN given :
       (e # f /\ given[e] = given[f]) => given[e] = NoAlias

\* The walk over the nested maps finds the elements that the subscripts say,
\* in whatever order the accesses came: all of those of the same depth whose
\* subscripts agree wherever e's is known.  TaskGraph builds its links from
\* that set.
WalkFindsElements ==
  \A e \in DOMAIN given : given[e] # NoAlias =>
    getArrayElementChildren(table, e) =
      {given[f] : f \in {g \in DOMAIN given :
         /\ Decl[g] = Decl[e]
         /\ Len(Indexes[g]) = Len(Indexes[e])
         /\ \A k \in 1..Len(Indexes[e]) : Indexes[e][k] \in {Unknown, Indexes[g][k]}}}
      \ {NoAlias}
-----------------------------------------------------------------------------
(* Why the properties hold: what the table keeps, place by place.          *)

\* The places of the table are reached from a variable, which is there with
\* its aliasArg before any of its elements.
PlacesReached ==
  \A q \in DOMAIN table :
    /\ \E e \in Expr : PathOf(e) = q \/ q \in Above(PathOf(e))
    /\ Above(q) \subseteq DOMAIN table
    /\ Len(q) = 1 => table[q].alias # NoAlias

\* A place without an aliasArg of its own is a row or has unknown subscripts.
PlacesFilled ==
  \A e \in Expr : PathOf(e) \in DOMAIN table /\ e \notin Spelling /\ ~Row(e) =>
    table[PathOf(e)].alias # NoAlias

\* Whether one aliasArg of a place is for both: all expressions with known
\* subscripts share one.
SameSlot(e, f) == e = f \/ {e, f} \cap Spelling = {}

\* The aliasArgs kept are the ones handed out, but for the variables: these
\* are entered with their elements.
KeptIsGiven ==
  \A q \in DOMAIN table : \A f \in Expr : getAliasArg(table, q, f) # NoAlias =>
    \/ \E e \in DOMAIN given : PathOf(e) = q /\ SameSlot(e, f)
    \/ Len(q) = 1 /\ f \notin Spelling

GivenIsKept ==
  \A e \in DOMAIN given :
    /\ PathOf(e) \in DOMAIN table
    /\ given[e] = getAliasArg(table, PathOf(e), e)
    /\ ~Row(e) => given[e] # NoAlias

\* No aliasArg is kept twice, and the next one is new.
KeptOnce ==
  \A p, q \in DOMAIN table : \A e, f \in Expr :
    LET a == getAliasArg(table, p, e)
    IN  /\ a < curId
        /\ a = getAliasArg(table, q, f) /\ a # NoAlias =>
             p = q /\ SameSlot(e, f)

TableInv ==
  TableTypeOK /\ PlacesReached /\ PlacesFilled /\ KeptIsGiven /\ GivenIsKept /\ KeptOnce
=============================================================================
