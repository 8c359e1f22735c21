---------------------------- MODULE GraphProofs ----------------------------
(***************************************************************************)
(* Proofs about the dependency graph, for every alias table and every      *)
(* instruction list: its construction orders what conflicts and nothing    *)
(* else, and optimizeGraph's reduction, fusion and clauses lose no         *)
(* statement and no ordering (OptInv is inductive and implies it).         *)
(***************************************************************************)
EXTENDS GraphOptimizer, FiniteSetTheorems, WellFoundedInduction, TLAPS

(***************************************************************************)
(* Reaches is a reflexive-transitive closure: links are paths, paths       *)
(* compose, and more links never lose a path.                              *)
(***************************************************************************)

LEMMA ReachesLink ==
  ASSUME NEW E, NEW k \in E
  PROVE  Reaches(E, k.from, k.to)
BY DEF Reaches

LEMMA ReachesTrans ==
  ASSUME NEW E, NEW i, NEW j, NEW k, Reaches(E, i, j), Reaches(E, j, k)
  PROVE  Reaches(E, i, k)
BY DEF Reaches

LEMMA ReachesMono ==
  ASSUME NEW E, NEW F, E \subseteq F, NEW i, NEW j, Reaches(E, i, j)
  PROVE  Reaches(F, i, j)
BY DEF Reaches

LEMMA ElementsType ==
  ASSUME NEW S
  PROVE  Elements(S) \subseteq Alias
BY DEF Elements, getArrayElementChildren

(***************************************************************************)
(* What one call of handleInstructionDeps adds to the links.               *)
(***************************************************************************)

\* A read link comes from the recorded writer of an element that is read.
LEMMA ReadLinksSound ==
  ASSUME NEW n, NEW W, NEW k \in ReadLinks(n, W)
  PROVE  /\ k = addLink(k.from, n, k.alias)
         /\ \E e \in ReadElements(n) : k.from = W[e] /\ W[e] # NoNode
         /\ prog[n].reads \subseteq Alias => k.alias \in Alias
<1>1. PICK a \in prog[n].reads, e \in Alias :
        e \in getArrayElementChildren(a) /\ W[e] # NoNode /\ k = addLink(W[e], n, Label(a, e))
  BY DEF ReadLinks, getArrayElementChildren
<1>2. e \in ReadElements(n)
  BY <1>1 DEF ReadElements, Elements
<1> QED BY <1>1, <1>2 DEF addLink, Label

\* A write link comes from a recorded reader of an element that is written,
\* or from its recorded writer.
LEMMA WriteLinksSound ==
  ASSUME NEW n, NEW R, NEW W, NEW k \in WriteLinks(n, R, W)
  PROVE  /\ k = addLink(k.from, n, k.alias)
         /\ \E e \in WriteElements(n) :
              k.from \in R[e] \/ (k.from = W[e] /\ W[e] # NoNode)
         /\ prog[n].writes \subseteq Alias => k.alias \in Alias
<1>1. PICK a \in prog[n].writes, e \in Alias :
        /\ e \in getArrayElementChildren(a)
        /\ \E m \in IF R[e] # {} THEN R[e] ELSE {W[e]} \ {NoNode} :
             k = addLink(m, n, Label(a, e))
  BY DEF WriteLinks, getArrayElementChildren
<1>2. e \in WriteElements(n)
  BY <1>1 DEF WriteElements, Elements
<1> QED BY <1>1, <1>2 DEF addLink, Label

\* A reader is linked from the recorded writer of everything it reads.
LEMMA ReadLinkAdded ==
  ASSUME NEW n, NEW W, NEW e \in ReadElements(n), W[e] # NoNode
  PROVE  \E k \in ReadLinks(n, W) : k.from = W[e] /\ k.to = n
<1>1. PICK a \in prog[n].reads : e \in getArrayElementChildren(a)
  BY DEF ReadElements, Elements
<1>2. addLink(W[e], n, Label(a, e)) \in ReadLinks(n, W)
  BY <1>1 DEF ReadLinks
<1> QED BY <1>2 DEF addLink

\* A writer is linked from every recorded reader of what it writes.
LEMMA ReaderLinkAdded ==
  ASSUME NEW n, NEW R, NEW W, NEW e \in WriteElements(n), NEW r \in R[e]
  PROVE  \E k \in WriteLinks(n, R, W) : k.from = r /\ k.to = n
<1>1. PICK a \in prog[n].writes : e \in getArrayElementChildren(a)
  BY DEF WriteElements, Elements
<1>2. r \in IF R[e] # {} THEN R[e] ELSE {W[e]} \ {NoNode}
  OBVIOUS
<1>3. addLink(r, n, Label(a, e)) \in WriteLinks(n, R, W)
  BY <1>1, <1>2 DEF WriteLinks
<1> QED BY <1>3 DEF addLink

\* Without recorded reader it is linked from the recorded writer.
LEMMA WriterLinkAdded ==
  ASSUME NEW n, NEW R, NEW W, NEW e \in WriteElements(n), R[e] = {}, W[e] # NoNode
  PROVE  \E k \in WriteLinks(n, R, W) : k.from = W[e] /\ k.to = n
<1>1. PICK a \in prog[n].writes : e \in getArrayElementChildren(a)
  BY DEF WriteElements, Elements
<1>2. W[e] \in IF R[e] # {} THEN R[e] ELSE {W[e]} \ {NoNode}
  OBVIOUS
<1>3. addLink(W[e], n, Label(a, e)) \in WriteLinks(n, R, W)
  BY <1>1, <1>2 DEF WriteLinks
<1> QED BY <1>3 DEF addLink

-----------------------------------------------------------------------------
\* The graph construction starts in the invariant: nothing is handled yet.
LEMMA BuildInvInit ==
  BuildInit => BuildInv
<1> SUFFICES ASSUME BuildInit PROVE BuildInv
  OBVIOUS
<1>1. prog \in Seq(Instruction) /\ WellFormed(prog) /\ Len(prog) \in Nat
  BY ProgramsAssumption DEF BuildInit
<1>2. BuildTypeOK
  BY <1>1 DEF BuildTypeOK, BuildInit, Node, Loop, NoNode
<1>3. MapsExact /\ WriterReachesReaders
  BY DEF BuildInit, MapsExact, WriterReachesReaders, NoNode
<1>4. WritersReach /\ ReadersReach /\ LinksJustified /\ ConflictsOrdered
  BY DEF BuildInit, WritersReach, ReadersReach, LinksJustified, ConflictsOrdered
<1> QED BY <1>2, <1>3, <1>4 DEF BuildInv

\* The loop of an instruction is one of the loops the maps are kept for.
LEMMA LoopInRange ==
  ASSUME prog \in Seq(Instruction), WellFormed(prog), NEW i \in Node
  PROVE  prog[i].loop \in Loop
<1>1. Len(prog) \in Nat /\ i \in 1..Len(prog) /\ prog[i] \in Instruction
  BY DEF Node
<1>2. prog[i].loop \in Nat
  BY <1>1 DEF Instruction
<1>3. prog[i].loop < i
  BY <1>1 DEF WellFormed
<1> QED BY <1>1, <1>2, <1>3 DEF Loop

\* Handling one more instruction preserves the invariant.
LEMMA BuildInvStep ==
  BuildInv /\ InstructionToGraph => BuildInv'
<1> SUFFICES ASSUME BuildInv, InstructionToGraph PROVE BuildInv'
  OBVIOUS
<1> DEFINE n == built + 1
           l == prog[n].loop
           R == dataUsedInRead[l]
           W == dataUsedInWrite[l]
<1>1. /\ prog' = prog /\ built' = n /\ Len(prog) \in Nat
      /\ built \in Nat /\ n \in Node /\ l \in Loop /\ 1..built' = (1..built) \cup {n}
      /\ prog[n] \in Instruction
      /\ prog[n].reads \in SUBSET Alias /\ prog[n].writes \in SUBSET Alias
      /\ n \notin 1..built
  <2>1. /\ prog \in Seq(Instruction) /\ WellFormed(prog)
        /\ built \in 0..Len(prog) /\ built < Len(prog)
        /\ prog' = prog /\ built' = n
    BY DEF BuildInv, BuildTypeOK, InstructionToGraph
  <2>2. Len(prog) \in Nat /\ n \in Node /\ built \in Nat
    BY <2>1 DEF Node
  <2>3. prog[n] \in Instruction
    BY <2>1, <2>2 DEF Node
  <2>4. l \in Nat /\ prog[n].reads \in SUBSET Alias /\ prog[n].writes \in SUBSET Alias
    BY <2>3 DEF Instruction
  <2>5. l < n
    BY <2>1, <2>2 DEF WellFormed, Node
  <2>6. l \in Loop /\ 1..built' = (1..built) \cup {n} /\ n \notin 1..built
    BY <2>1, <2>2, <2>4, <2>5 DEF Node, Loop
  <2> QED BY <2>1, <2>2, <2>3, <2>4, <2>6
<1>2. links' = links \cup ReadLinks(n, W) \cup WriteLinks(n, R, W)
  BY DEF InstructionToGraph, handleInstructionDeps
<1>3. /\ \A x \in Loop, e \in Alias : \A r :
           r \in dataUsedInRead'[x][e] <=>
             \/ x # l /\ r \in dataUsedInRead[x][e]
             \/ x = l /\ e \notin WriteElements(n) /\ r \in R[e]
             \/ x = l /\ e \in ReadElements(n) /\ r = n
      /\ dataUsedInRead' \in [Loop -> [Alias -> SUBSET Node]]
  <2>1. /\ dataUsedInRead \in [Loop -> [Alias -> SUBSET Node]]
        /\ dataUsedInRead' = [dataUsedInRead EXCEPT ![l] = ReadersAfter(n, R)]
    BY DEF BuildInv, BuildTypeOK, InstructionToGraph, handleInstructionDeps
  <2>2. ReadersAfter(n, R) \in [Alias -> SUBSET Node]
    BY <1>1, <2>1 DEF ReadersAfter
  <2>3. \A e \in Alias : \A r : r \in ReadersAfter(n, R)[e] <=>
             \/ e \notin WriteElements(n) /\ r \in R[e]
             \/ e \in ReadElements(n) /\ r = n
    BY DEF ReadersAfter, ReadElements, WriteElements
  <2> QED BY <2>1, <2>2, <2>3, <1>1
<1>4. /\ \A x \in Loop, e \in Alias :
           dataUsedInWrite'[x][e] =
             IF x = l /\ e \in WriteElements(n) THEN n ELSE dataUsedInWrite[x][e]
      /\ dataUsedInWrite' \in [Loop -> [Alias -> Loop]]
  BY <1>1 DEF BuildInv, BuildTypeOK, InstructionToGraph, handleInstructionDeps,
              WriterAfter, ReadElements, WriteElements, Node, Loop
<1>5. /\ \A i : ReadElements(i)' = ReadElements(i)
      /\ \A i : WriteElements(i)' = WriteElements(i)
      /\ \A i : ReadElements(i) \subseteq Alias
      /\ \A i : WriteElements(i) \subseteq Alias
  BY <1>1, ElementsType DEF ReadElements, WriteElements
<1>6. \A i, j : ReachesOrEqual(i, j) => ReachesOrEqual(i, j)'
  <2>1. \A i, j : Reaches(links, i, j) => Reaches(links', i, j)
    BY <1>2, ReachesMono
  <2>2. \A i, j : Reaches(links', i, j) => Reaches(links, i, j)'
    BY <1>1 DEF Reaches, Node
  <2> QED BY <2>1, <2>2 DEF ReachesOrEqual
<1>7. R = dataUsedInRead[l] /\ W = dataUsedInWrite[l] /\ l = prog[n].loop
  OBVIOUS
<1> HIDE DEF n, l, R, W
<1>8. \A k \in links' \ links :
        /\ k = addLink(k.from, n, k.alias)
        /\ k.alias \in Alias
        /\ \/ \E e \in ReadElements(n) : k.from = W[e] /\ W[e] # NoNode
           \/ \E e \in WriteElements(n) :
                k.from \in R[e] \/ (k.from = W[e] /\ W[e] # NoNode)
  <2> SUFFICES ASSUME NEW k \in ReadLinks(n, W) \cup WriteLinks(n, R, W)
               PROVE  /\ k = addLink(k.from, n, k.alias)
                      /\ k.alias \in Alias
                      /\ \/ \E e \in ReadElements(n) : k.from = W[e] /\ W[e] # NoNode
                         \/ \E e \in WriteElements(n) :
                              k.from \in R[e] \/ (k.from = W[e] /\ W[e] # NoNode)
    BY <1>2
  <2>1. CASE k \in ReadLinks(n, W)
    BY <2>1, <1>1, ReadLinksSound
  <2>2. CASE k \in WriteLinks(n, R, W)
    BY <2>2, <1>1, WriteLinksSound
  <2> QED BY <2>1, <2>2
<1>9. BuildTypeOK'
  <2>1. \A k \in links' : k \in [from : Node, to : Node, alias : Alias]
    <3> SUFFICES ASSUME NEW k \in links', k \notin links
                 PROVE  k \in [from : Node, to : Node, alias : Alias]
      BY DEF BuildInv, BuildTypeOK
    <3>1. k = addLink(k.from, n, k.alias) /\ k.alias \in Alias
      BY <1>8
    <3>2. k.from \in Node
      <4>1. \A e \in Alias : R[e] \subseteq Node /\ W[e] \in Loop
        BY <1>1, <1>7 DEF BuildInv, BuildTypeOK
      <4>2. \A e \in Alias : W[e] # NoNode => W[e] \in Node
        BY <4>1, <1>1 DEF Loop, Node, NoNode
      <4> QED BY <4>1, <4>2, <1>5, <1>8
    <3> QED BY <3>1, <3>2, <1>1 DEF addLink
  <2> QED BY <2>1, <1>1, <1>3, <1>4 DEF BuildTypeOK, BuildInv, Node, Loop
<1>10. MapsExact'
  <2> SUFFICES ASSUME NEW x \in Loop, NEW e \in Alias
               PROVE  /\ \A r \in dataUsedInRead'[x][e] :
                           r \in 1..built' /\ prog[r].loop = x /\ e \in ReadElements(r)
                      /\ dataUsedInWrite'[x][e] # NoNode =>
                           LET w == dataUsedInWrite'[x][e]
                           IN w \in 1..built' /\ prog[w].loop = x /\ e \in WriteElements(w)
    BY <1>1, <1>5 DEF MapsExact, Loop
  <2>1. MapsExact
    BY DEF BuildInv
  <2>2. ASSUME NEW r \in dataUsedInRead'[x][e]
        PROVE  r \in 1..built' /\ prog[r].loop = x /\ e \in ReadElements(r)
    <3>1. r \in dataUsedInRead[x][e] \/ (r = n /\ x = l /\ e \in ReadElements(n))
      BY <2>2, <1>3, <1>7
    <3> QED BY <3>1, <2>1, <1>1, <1>7 DEF MapsExact
  <2>3. ASSUME dataUsedInWrite'[x][e] # NoNode
        PROVE  LET w == dataUsedInWrite'[x][e]
               IN w \in 1..built' /\ prog[w].loop = x /\ e \in WriteElements(w)
    <3>1. CASE x = l /\ e \in WriteElements(n)
      BY <3>1, <1>1, <1>4, <1>7
    <3>2. CASE ~(x = l /\ e \in WriteElements(n))
      <4>1. dataUsedInWrite'[x][e] = dataUsedInWrite[x][e]
        BY <3>2, <1>4
      <4> QED BY <4>1, <2>1, <2>3, <1>1 DEF MapsExact
    <3> QED BY <3>1, <3>2
  <2> QED BY <2>2, <2>3
<1>11. \A e \in ReadElements(n) : W[e] # NoNode => Reaches(links', W[e], n)
  <2> SUFFICES ASSUME NEW e \in ReadElements(n), W[e] # NoNode
               PROVE  Reaches(links', W[e], n)
    OBVIOUS
  <2>1. PICK k \in ReadLinks(n, W) : k.from = W[e] /\ k.to = n
    BY ReadLinkAdded
  <2> QED BY <2>1, <1>2, ReachesLink
<1>12. \A e \in WriteElements(n) : \A r \in R[e] : Reaches(links', r, n)
  <2> SUFFICES ASSUME NEW e \in WriteElements(n), NEW r \in R[e]
               PROVE  Reaches(links', r, n)
    OBVIOUS
  <2>1. PICK k \in WriteLinks(n, R, W) : k.from = r /\ k.to = n
    BY ReaderLinkAdded
  <2> QED BY <2>1, <1>2, ReachesLink
<1>13. \A i, j : ReachesOrEqual(i, j) => i = j \/ Reaches(links', i, j)
  BY <1>2, ReachesMono DEF ReachesOrEqual
<1>14. \A e \in WriteElements(n) : W[e] # NoNode => Reaches(links', W[e], n)
  <2> SUFFICES ASSUME NEW e \in WriteElements(n), W[e] # NoNode
               PROVE  Reaches(links', W[e], n)
    OBVIOUS
  <2>1. CASE R[e] = {}
    <3>1. PICK k \in WriteLinks(n, R, W) : k.from = W[e] /\ k.to = n
      BY <2>1, WriterLinkAdded
    <3> QED BY <3>1, <1>2, ReachesLink
  <2>2. CASE R[e] # {}
    <3>1. PICK r \in R[e] : TRUE
      BY <2>2
    <3>2. ReachesOrEqual(W[e], r)
      BY <1>1, <1>5, <1>7 DEF BuildInv, WriterReachesReaders
    <3> QED BY <3>2, <1>12, <1>13, ReachesTrans
  <2> QED BY <2>1, <2>2
<1>15. \A i \in 1..built : \A e \in WriteElements(i) :
         prog[i].loop = l /\ e \in ReadElements(n) \cup WriteElements(n)
           => Reaches(links', i, n)
  <2> SUFFICES ASSUME NEW i \in 1..built, NEW e \in WriteElements(i), prog[i].loop = l,
                      e \in ReadElements(n) \cup WriteElements(n)
               PROVE  Reaches(links', i, n)
    OBVIOUS
  <2>1. W[e] # NoNode /\ ReachesOrEqual(i, W[e])
    BY <1>7 DEF BuildInv, WritersReach
  <2> QED BY <2>1, <1>11, <1>13, <1>14, ReachesTrans
<1>16. \A i \in 1..built : \A e \in ReadElements(i) :
         prog[i].loop = l /\ e \in WriteElements(n) => Reaches(links', i, n)
  <2> SUFFICES ASSUME NEW i \in 1..built, NEW e \in ReadElements(i), prog[i].loop = l,
                      e \in WriteElements(n)
               PROVE  Reaches(links', i, n)
    OBVIOUS
  <2>1. i \in R[e] \/ (W[e] # NoNode /\ ReachesOrEqual(i, W[e]))
    BY <1>7 DEF BuildInv, ReadersReach
  <2> QED BY <2>1, <1>12, <1>13, <1>14, ReachesTrans
<1>17. \A i, j : Reaches(links', i, j) <=> Reaches(links, i, j)'
  BY <1>1 DEF Reaches, Node
<1>23. \A i \in 1..built' : prog[i].loop \in Loop
  <2>1. prog \in Seq(Instruction) /\ WellFormed(prog)
    BY DEF BuildInv, BuildTypeOK
  <2>2. 1..built' \subseteq Node
    BY <1>1 DEF Node
  <2> QED BY <2>1, <2>2, LoopInRange
<1>18. WritersReach'
  <2> SUFFICES ASSUME NEW i \in 1..built', NEW e \in WriteElements(i)
               PROVE  LET w == dataUsedInWrite'[prog[i].loop][e]
                      IN  w # NoNode /\ (i = w \/ Reaches(links', i, w))
    BY <1>1, <1>5, <1>17 DEF WritersReach, ReachesOrEqual
  <2>1. e \in Alias /\ prog[i].loop \in Loop
    BY <1>5, <1>23
  <2>2. CASE prog[i].loop = l /\ e \in WriteElements(n)
    <3>1. dataUsedInWrite'[prog[i].loop][e] = n /\ n # NoNode
      BY <2>1, <2>2, <1>1, <1>4 DEF NoNode
    <3>2. i = n \/ Reaches(links', i, n)
      BY <2>2, <1>1, <1>15
    <3> QED BY <3>1, <3>2
  <2>3. CASE ~(prog[i].loop = l /\ e \in WriteElements(n))
    <3>1. dataUsedInWrite'[prog[i].loop][e] = dataUsedInWrite[prog[i].loop][e]
      BY <2>1, <2>3, <1>4
    <3>2. i \in 1..built
      BY <2>3, <1>1, <1>7
    <3> QED BY <3>1, <3>2, <1>13 DEF BuildInv, WritersReach
  <2> QED BY <2>2, <2>3
<1>19. ReadersReach'
  <2> SUFFICES ASSUME NEW i \in 1..built', NEW e \in ReadElements(i)
               PROVE  LET w == dataUsedInWrite'[prog[i].loop][e]
                      IN  \/ i \in dataUsedInRead'[prog[i].loop][e]
                          \/ w # NoNode /\ (i = w \/ Reaches(links', i, w))
    BY <1>1, <1>5, <1>17 DEF ReadersReach, ReachesOrEqual
  <2>1. e \in Alias /\ prog[i].loop \in Loop
    BY <1>5, <1>23
  <2>2. CASE i = n
    BY <2>1, <2>2, <1>3, <1>7
  <2>3. CASE i \in 1..built /\ prog[i].loop = l /\ e \in WriteElements(n)
    <3>1. dataUsedInWrite'[prog[i].loop][e] = n /\ n # NoNode
      BY <2>1, <2>3, <1>1, <1>4 DEF NoNode
    <3>2. Reaches(links', i, n)
      BY <2>3, <1>16
    <3> QED BY <3>1, <3>2
  <2>4. CASE i \in 1..built /\ ~(prog[i].loop = l /\ e \in WriteElements(n))
    <3>1. dataUsedInWrite'[prog[i].loop][e] = dataUsedInWrite[prog[i].loop][e]
      BY <2>1, <2>4, <1>4
    <3>2. i \in dataUsedInRead[prog[i].loop][e] => i \in dataUsedInRead'[prog[i].loop][e]
      BY <2>1, <2>4, <1>3, <1>7
    <3> QED BY <2>4, <3>1, <3>2, <1>13 DEF BuildInv, ReadersReach
  <2> QED BY <2>2, <2>3, <2>4, <1>1
<1>20. WriterReachesReaders'
  <2> SUFFICES ASSUME NEW x \in Loop, NEW e \in Alias, NEW r \in dataUsedInRead'[x][e],
                      dataUsedInWrite'[x][e] # NoNode
               PROVE  LET w == dataUsedInWrite'[x][e]
                      IN  w = r \/ Reaches(links', w, r)
    BY <1>1, <1>17 DEF WriterReachesReaders, ReachesOrEqual, Loop
  <2>1. CASE x = l /\ e \in WriteElements(n)
    BY <2>1, <1>3, <1>4
  <2>2. CASE ~(x = l /\ e \in WriteElements(n))
    <3>1. dataUsedInWrite'[x][e] = dataUsedInWrite[x][e]
      BY <2>2, <1>4
    <3>2. CASE r \in dataUsedInRead[x][e]
      BY <3>1, <3>2, <1>13 DEF BuildInv, WriterReachesReaders
    <3>3. CASE x = l /\ e \in ReadElements(n) /\ r = n
      BY <3>1, <3>3, <1>7, <1>11
    <3> QED BY <2>2, <3>2, <3>3, <1>3, <1>7
  <2> QED BY <2>1, <2>2
<1>21. LinksJustified'
  <2> SUFFICES ASSUME NEW k \in links'
               PROVE  k.from < k.to /\ k.to <= built' /\ Conflict(k.from, k.to)
    BY <1>1, <1>5 DEF LinksJustified, Conflict
  <2>1. CASE k \in links
    BY <2>1, <1>1 DEF BuildInv, LinksJustified, BuildTypeOK, Node
  <2>2. CASE k \notin links
    <3>1. k.to = n
      BY <2>2, <1>8 DEF addLink
    <3>2. k.from \in 1..built /\ Conflict(k.from, n)
      BY <2>2, <1>1, <1>5, <1>7, <1>8 DEF BuildInv, MapsExact, Conflict
    <3> QED BY <3>1, <3>2, <1>1
  <2> QED BY <2>1, <2>2
<1>22. ConflictsOrdered'
  <2> SUFFICES ASSUME NEW i \in 1..built', NEW j \in 1..built', i < j, Conflict(i, j)
               PROVE  Reaches(links', i, j)
    BY <1>1, <1>5, <1>17 DEF ConflictsOrdered, Conflict
  <2>1. CASE j \in 1..built
    BY <2>1, <1>1, <1>2, ReachesMono DEF BuildInv, ConflictsOrdered
  <2>2. CASE j = n
    <3>1. n \in Nat
      BY <1>1 DEF Node
    <3>2. i # n
      BY <2>2, <3>1
    <3>3. i \in 1..built
      BY <3>2, <1>1
    <3>4. prog[i].loop = l
      BY <2>2, <1>7 DEF Conflict
    <3> QED BY <2>2, <3>3, <3>4, <1>15, <1>16 DEF Conflict
  <2> QED BY <2>1, <2>2, <1>1
<1> QED
  BY <1>9, <1>10, <1>18, <1>19, <1>20, <1>21, <1>22 DEF BuildInv

LEMMA BuildStutter == BuildInv /\ UNCHANGED buildVars => BuildInv'
<1> SUFFICES ASSUME BuildInv, UNCHANGED buildVars PROVE BuildInv'
  OBVIOUS
<1> USE DEF BuildInv, buildVars
<1>1. /\ \A i : ReadElements(i)' = ReadElements(i)
      /\ \A i : WriteElements(i)' = WriteElements(i)
      /\ \A i, j : Conflict(i, j)' <=> Conflict(i, j)
  BY DEF ReadElements, WriteElements, Conflict
<1>2. \A i, j : Reaches(links, i, j)' <=> Reaches(links, i, j)
  BY DEF Reaches, Node
<1>3. BuildTypeOK'
  BY DEF BuildTypeOK, Node, Loop
<1>4. MapsExact'
  BY <1>1 DEF MapsExact, Loop
<1>5. WritersReach'
  BY <1>1, <1>2 DEF WritersReach, ReachesOrEqual
<1>6. ReadersReach'
  BY <1>1, <1>2 DEF ReadersReach, ReachesOrEqual
<1>7. WriterReachesReaders'
  BY <1>2 DEF WriterReachesReaders, ReachesOrEqual, Loop
<1>8. LinksJustified' /\ ConflictsOrdered'
  BY <1>1, <1>2 DEF LinksJustified, ConflictsOrdered
<1> QED BY <1>3, <1>4, <1>5, <1>6, <1>7, <1>8

-----------------------------------------------------------------------------
\* The inductive invariant of the graph construction: after any number of
\* instructions the two maps of handleInstructionDeps name the last accesses,
\* and every earlier access reaches them through the links.
THEOREM BuildInvariance == BuildSpec => []BuildInv
BY BuildInvInit, BuildInvStep, BuildStutter, PTL DEF BuildSpec

\* The graph, its labels and the two maps stay well-typed.
THEOREM BuildTypeCorrect == BuildSpec => []BuildTypeOK
<1>1. BuildInv => BuildTypeOK
  BY DEF BuildInv
<1> QED BY <1>1, BuildInvariance, PTL

\* Whatever the instruction list, conflicting instructions are ordered by the
\* links handleInstructionDeps adds.
THEOREM BuildOrdersConflicts == BuildSpec => []ConflictsOrdered
<1>1. BuildInv => ConflictsOrdered
  BY DEF BuildInv
<1> QED BY <1>1, BuildInvariance, PTL

\* Whatever the instruction list, only conflicting instructions of one loop
\* body are linked, always forward.
THEOREM BuildLinksJustified == BuildSpec => []LinksJustified
<1>1. BuildInv => LinksJustified
  BY DEF BuildInv
<1> QED BY <1>1, BuildInvariance, PTL

-----------------------------------------------------------------------------
\* With at most one subscript, aliases whose subscripts match share an element
\* of the walk of getArrayElementChildren.
LEMMA MatchingShareElement ==
  ASSUME OneDimensional, NEW a \in Alias, NEW b \in Alias, MayOverlap(a, b)
  PROVE  getArrayElementChildren(a) \cap getArrayElementChildren(b) # {}
<1>1. /\ Indexes[a] \in Seq(Int) /\ Indexes[b] \in Seq(Int)
      /\ Len(Indexes[a]) = Len(Indexes[b]) /\ Len(Indexes[a]) <= 1
      /\ Decl[a] = Decl[b]
  BY AliasAssumption DEF OneDimensional, MayOverlap, indexesMatch
<1>2. a \in getArrayElementChildren(a) /\ b \in getArrayElementChildren(b)
  BY DEF getArrayElementChildren
<1>3. CASE Len(Indexes[a]) = 0
  BY <1>1, <1>2, <1>3 DEF getArrayElementChildren
<1>4. CASE Len(Indexes[a]) = 1
  <2>1. \/ Indexes[a][1] = Indexes[b][1]
        \/ Indexes[a][1] = UnknownIndex
        \/ Indexes[b][1] = UnknownIndex
    BY <1>4 DEF MayOverlap, indexesMatch
  <2>2. 1..Len(Indexes[a]) = {1} /\ 1..Len(Indexes[b]) = {1}
    BY <1>1, <1>4
  <2>3. CASE Indexes[a][1] \in {UnknownIndex, Indexes[b][1]}
    <3>1. b \in getArrayElementChildren(a)
      BY <2>2, <2>3, <1>1 DEF getArrayElementChildren
    <3> QED BY <3>1, <1>2
  <2>4. CASE Indexes[b][1] \in {UnknownIndex, Indexes[a][1]}
    <3>1. a \in getArrayElementChildren(b)
      BY <2>2, <2>4, <1>1 DEF getArrayElementChildren
    <3> QED BY <3>1, <1>2
  <2> QED BY <2>1, <2>3, <2>4
<1>5. Len(Indexes[a]) \in Nat
  BY <1>1
<1>6. \A x \in Nat : x <= 1 => x = 0 \/ x = 1
  OBVIOUS
<1>7. Len(Indexes[a]) <= 1
  BY <1>1
<1> QED BY <1>3, <1>4, <1>5, <1>6, <1>7

\* For scalars and one-dimensional arrays every possible overlap is ordered,
\* unknown subscripts included.
THEOREM BuildOrdersOverlaps ==
  ASSUME OneDimensional
  PROVE  BuildSpec => []OverlapsOrdered
<1>1. BuildInv => OverlapsOrdered
  <2> SUFFICES ASSUME BuildInv, NEW i \in 1..built, NEW j \in 1..built, i < j,
                      prog[i].loop = prog[j].loop,
                      NEW a \in prog[i].reads \cup prog[i].writes,
                      NEW b \in prog[j].reads \cup prog[j].writes,
                      MayOverlap(a, b), a \in prog[i].writes \/ b \in prog[j].writes
               PROVE  Reaches(links, i, j)
    BY DEF OverlapsOrdered
  <2>1. prog[i] \in Instruction /\ prog[j] \in Instruction
    BY DEF BuildInv, BuildTypeOK
  <2>2. a \in Alias /\ b \in Alias
    BY <2>1 DEF Instruction
  <2>3. PICK e : e \in getArrayElementChildren(a) /\ e \in getArrayElementChildren(b)
    BY <2>2, MatchingShareElement
  <2>4. /\ a \in prog[i].writes => e \in WriteElements(i)
        /\ a \in prog[i].reads => e \in ReadElements(i)
        /\ b \in prog[j].writes => e \in WriteElements(j)
        /\ b \in prog[j].reads => e \in ReadElements(j)
    BY <2>3 DEF WriteElements, ReadElements, Elements
  <2>5. Conflict(i, j)
    BY <2>4 DEF Conflict
  <2> QED BY <2>5 DEF BuildInv, ConflictsOrdered
<1> QED BY <1>1, BuildInvariance, PTL

-----------------------------------------------------------------------------
(***************************************************************************)
(* The optimisation.                                                       *)
(***************************************************************************)

\* A set of numbers has a least one.
LEMMA LeastNat ==
  ASSUME NEW T, T \subseteq Nat, T # {}
  PROVE  \E x \in T : \A y \in T : x <= y
<1>1. PICK x \in T : \A y \in T : ~ (<<y, x>> \in OpToRel(<, Nat))
  BY NatLessThanWellFounded, WFMin
<1>2. \A y \in T : ~(y < x)
  BY <1>1 DEF OpToRel
<1> QED BY <1>2

-----------------------------------------------------------------------------
(***************************************************************************)
(* Paths in a graph whose links go forward.                                *)
(***************************************************************************)

Forward(E) == \A k \in E : k.from \in Node /\ k.to \in Node /\ k.from < k.to

LEMMA ReachesRefl ==
  ASSUME NEW E, NEW i PROVE Reaches(E, i, i)
BY DEF Reaches

\* A path never goes back.
LEMMA ReachesForward ==
  ASSUME NEW E, Forward(E), NEW i \in Node, NEW j \in Node, Reaches(E, i, j)
  PROVE  i <= j
<1> DEFINE S == {x \in Node : i <= x}
<1>1. \A x \in Node : x \in Int
  BY DEF Node
<1>2. S \in SUBSET Node /\ i \in S
  BY <1>1
<1>3. \A k \in E : k.from \in S => k.to \in S
  BY <1>1 DEF Forward
<1> QED BY <1>2, <1>3 DEF Reaches

\* A path that starts behind n uses no link of n.
LEMMA ReachesBehind ==
  ASSUME NEW E, NEW F, Forward(E), NEW n \in Node, NEW s \in Node, NEW m \in Node,
         n < s, \A k \in E : k.from # n => k \in F, Reaches(E, s, m)
  PROVE  Reaches(F, s, m)
<1> SUFFICES ASSUME NEW S \in SUBSET Node, s \in S,
                    \A k \in F : k.from \in S => k.to \in S
             PROVE  m \in S
  BY DEF Reaches
<1> DEFINE T == {x \in S : n < x}
<1>1. \A x \in Node : x \in Int
  BY DEF Node
<1>2. T \in SUBSET Node /\ s \in T
  OBVIOUS
<1>3. ASSUME NEW k \in E, k.from \in T PROVE k.to \in T
  <2>1. k.from # n /\ n < k.to
    BY <1>1, <1>3 DEF Forward
  <2> QED BY <2>1, <1>3
<1>4. m \in T
  BY <1>2, <1>3 DEF Reaches
<1> QED BY <1>4

\* Removing the links of n to the nodes that n reaches over another next node
\* keeps every path.  The first next node on the way to a removed one is kept.
LEMMA ReductionKeeps ==
  ASSUME NEW E, NEW F, Forward(E), NEW n \in Node,
         F \subseteq E,
         \A k \in E : k \notin F =>
           /\ k.from = n
           /\ \E x \in E : x.from = n /\ x.to # k.to /\ Reaches(E, x.to, k.to),
         NEW i, NEW j
  PROVE  Reaches(E, i, j) <=> Reaches(F, i, j)
<1>0. \A x \in Node : x \in Nat
  BY DEF Node
<1>1. ASSUME NEW k \in E, k \notin F PROVE Reaches(F, k.from, k.to)
  <2> DEFINE T == {x.to : x \in {y \in E : y.from = n /\ y.to # k.to /\ Reaches(E, y.to, k.to)}}
  <2>1. T \subseteq Nat /\ T # {}
    BY <1>0, <1>1 DEF Forward
  <2>2. PICK s \in T : \A y \in T : s <= y
    BY <2>1, LeastNat
  <2>3. PICK x \in E : x.from = n /\ x.to = s /\ s # k.to /\ Reaches(E, s, k.to)
    BY <2>2
  <2>4. k.from = n /\ k.to \in Node /\ s \in Node /\ n < s /\ s <= k.to
    BY <2>3, <1>1, ReachesForward DEF Forward
  <2>5. x \in F
    <3> SUFFICES ASSUME x \notin F PROVE FALSE
      OBVIOUS
    <3>1. PICK y \in E : y.from = n /\ y.to # s /\ Reaches(E, y.to, s)
      BY <2>3
    <3>2. y.to \in Node /\ y.to <= s
      BY <3>1, <2>4, ReachesForward DEF Forward
    <3>3. y.to < s
      BY <3>1, <3>2, <2>4, <1>0
    <3>4. y.to # k.to
      BY <3>3, <3>2, <2>4, <1>0
    <3>5. Reaches(E, y.to, k.to)
      BY <3>1, <2>3, ReachesTrans
    <3>6. y.to \in T
      BY <3>1, <3>4, <3>5
    <3>7. s <= y.to
      BY <3>6, <2>2
    <3> QED BY <3>3, <3>7, <3>2, <2>4, <1>0
  <2>6. Reaches(F, n, s)
    BY <2>3, <2>5, ReachesLink
  <2>7. \A y \in E : y.from # n => y \in F
    OBVIOUS
  <2>8. Reaches(F, s, k.to)
    BY <2>3, <2>4, <2>7, ReachesBehind
  <2> QED BY <2>4, <2>6, <2>8, ReachesTrans
<1>2. ASSUME Reaches(E, i, j) PROVE Reaches(F, i, j)
  <2> SUFFICES ASSUME NEW S \in SUBSET Node, i \in S,
                      \A k \in F : k.from \in S => k.to \in S
               PROVE  j \in S
    BY DEF Reaches
  <2>1. \A k \in E : k.from \in S => k.to \in S
    BY <1>1 DEF Reaches
  <2> QED BY <2>1, <1>2 DEF Reaches
<1>3. Reaches(F, i, j) => Reaches(E, i, j)
  BY ReachesMono
<1> QED BY <1>2, <1>3

\* m follows n alone, n precedes m alone, and in F the links of m are n's.
Fuses(E, F, n, m) ==
  /\ \A k \in E : k.from = n => k.to = m
  /\ \A k \in E : k.to = m => k.from = n
  /\ \A k \in E : k.from \notin {n, m} => k \in F
  /\ \A k \in E : k.from = m => \E x \in F : x.from = n /\ x.to = k.to

\* The links of the fused node keep every path, m standing for n.
LEMMA FusionKeeps ==
  ASSUME NEW E, NEW F, Forward(E), NEW n \in Node, NEW m \in Node, Fuses(E, F, n, m),
         NEW i \in Node, NEW j \in Node, Reaches(E, i, j)
  PROVE  Reaches(F, IF i = m THEN n ELSE i, IF j = m THEN n ELSE j)
<1> DEFINE At(x) == IF x = m THEN n ELSE x
<1> SUFFICES ASSUME NEW S \in SUBSET Node, At(i) \in S,
                    \A k \in F : k.from \in S => k.to \in S
             PROVE  At(j) \in S
  BY DEF Reaches
<1> USE DEF Fuses
<1> DEFINE T == {x \in Node : At(x) \in S}
<1>1. T \in SUBSET Node /\ i \in T
  OBVIOUS
<1>2. ASSUME NEW k \in E, k.from \in T PROVE k.to \in T
  <2>0. k.to \in Node
    BY DEF Forward
  <2>1. CASE k.from = n
    BY <2>0, <2>1, <1>2
  <2>2. CASE k.from = m /\ m # n
    <3>1. PICK x \in F : x.from = n /\ x.to = k.to
      BY <2>2
    <3>2. k.to # m
      BY <2>2
    <3> QED BY <3>1, <3>2, <2>0, <2>2, <1>2
  <2>3. CASE k.from \notin {n, m}
    BY <2>0, <2>3, <1>2
  <2> QED BY <2>1, <2>2, <2>3
<1>3. j \in T
  BY <1>1, <1>2 DEF Reaches
<1> QED BY <1>3
-----------------------------------------------------------------------------
(***************************************************************************)
(* Aliases that may denote the same element.                               *)
(***************************************************************************)

\* Two accesses with an element in common may overlap.
LEMMA CommonChild ==
  ASSUME NEW a \in Alias, NEW b \in Alias, NEW e,
         e \in getArrayElementChildren(a), e \in getArrayElementChildren(b)
  PROVE  MayOverlap(b, a)
BY DEF getArrayElementChildren, MayOverlap, indexesMatch

\* What overlaps an element of an access overlaps the access.
LEMMA OverlapParent ==
  ASSUME NEW a \in Alias, NEW b \in Alias, NEW e \in Alias,
         e = a \/ e \in getArrayElementChildren(a), MayOverlap(b, e)
  PROVE  MayOverlap(b, a)
BY DEF getArrayElementChildren, MayOverlap, indexesMatch

\* SameOrMatching finds every access that may overlap: a plain variable has
\* one alias.
LEMMA OverlapMatches ==
  ASSUME NEW a \in Alias, NEW b \in Alias, MayOverlap(b, a)
  PROVE  SameOrMatching(b, a) /\ SameOrMatching(a, b)
<1>1. /\ Indexes[a] \in Seq(Int) /\ Indexes[b] \in Seq(Int)
      /\ Len(Indexes[a]) = Len(Indexes[b]) /\ Decl[a] = Decl[b]
  BY AliasAssumption DEF MayOverlap, indexesMatch
<1>2. CASE Indexes[a] = <<>>
  <2>1. Indexes[b] = <<>>
    BY <1>1, <1>2
  <2>2. a = b
    BY <2>1, <1>1, <1>2, AliasAssumption
  <2> QED BY <2>2 DEF SameOrMatching
<1>3. CASE Indexes[a] # <<>>
  <2>1. Indexes[b] # <<>>
    BY <1>1, <1>3
  <2> QED BY <2>1, <1>1, <1>3 DEF SameOrMatching, MayOverlap, indexesMatch
<1> QED BY <1>2, <1>3
-----------------------------------------------------------------------------
(***************************************************************************)
(* Facts about the state that the steps share.                             *)
(***************************************************************************)

FrameType == [graph : Loop, phase : {"reduce", "fuse"}, pos : Nat \ {0}]

\* The instruction list and the numbers of its nodes.
LEMMA ProgFacts ==
  ASSUME BuildTypeOK
  PROVE  /\ Len(prog) \in Nat /\ Node \subseteq Nat /\ Loop \subseteq Nat
         /\ \A n \in Node :
              /\ n \in Loop /\ n # 0
              /\ prog[n] \in Instruction
              /\ prog[n].scope \in Loop /\ prog[n].loop \in Loop
              /\ prog[n].scope < n
              /\ prog[n].reads \subseteq Alias /\ prog[n].writes \subseteq Alias
<1>1. Len(prog) \in Nat /\ Node \subseteq Nat /\ Loop \subseteq Nat /\ \A n \in Node : n \in Loop /\ n # 0
  BY DEF BuildTypeOK, Node, Loop
<1> SUFFICES ASSUME NEW n \in Node
             PROVE  /\ prog[n] \in Instruction
                    /\ prog[n].scope \in Loop /\ prog[n].loop \in Loop
                    /\ prog[n].scope < n
                    /\ prog[n].reads \subseteq Alias /\ prog[n].writes \subseteq Alias
  BY <1>1
<1>2. prog[n] \in Instruction
  BY DEF BuildTypeOK, Node
<1>3. prog[n].scope < n /\ prog[n].loop < n
  BY DEF BuildTypeOK, WellFormed, Node
<1>4. prog[n].scope \in Nat /\ prog[n].loop \in Nat
  BY <1>2 DEF Instruction
<1>5. prog[n].scope \in Loop /\ prog[n].loop \in Loop
  BY <1>1, <1>3, <1>4 DEF Loop, Node
<1> QED BY <1>2, <1>3, <1>5 DEF Instruction

\* An instruction that conflicts with another has a node.
LEMMA ConflictHasNode ==
  ASSUME BuildTypeOK, NEW i \in Node, NEW j \in Node, Conflict(i, j)
  PROVE  hasNode(i) /\ hasNode(j)
<1>1. \A n \in Node : ~hasNode(n) => prog[n].reads = {} /\ prog[n].writes = {}
  BY DEF BuildTypeOK, WellFormed, Node, hasNode, Touches
<1>2. Elements({}) = {}
  BY DEF Elements
<1> QED BY <1>1, <1>2 DEF Conflict, ReadElements, WriteElements

\* An ascending sequence lies between its first and its last element.
LEMMA AscendingEnds ==
  ASSUME NEW S, S \subseteq Nat, NEW s \in Seq(S), s # <<>>,
         \A j, k \in 1..Len(s) : j < k => s[j] < s[k]
  PROVE  /\ s[1] \in S /\ s[Len(s)] \in S
         /\ s[1] <= s[Len(s)]
         /\ \A k \in 1..Len(s) : s[k] \in S /\ s[1] <= s[k] /\ s[k] <= s[Len(s)]
<1>1. Len(s) \in Nat /\ 1 \in 1..Len(s) /\ Len(s) \in 1..Len(s)
  <2>1. Len(s) \in Nat /\ Len(s) # 0
    OBVIOUS
  <2> QED BY <2>1
<1>2. \A k \in 1..Len(s) : s[k] \in Nat /\ s[k] \in S
  <2>1. \A k \in 1..Len(s) : s[k] \in S
    OBVIOUS
  <2> QED BY <2>1
<1>3. ASSUME NEW k \in 1..Len(s) PROVE s[1] <= s[k] /\ s[k] <= s[Len(s)]
  <2>1. k = 1 \/ 1 < k
    BY <1>1
  <2>2. k = Len(s) \/ k < Len(s)
    BY <1>1
  <2> QED BY <2>1, <2>2, <1>1, <1>2
<1> QED BY <1>1, <1>2, <1>3

\* The links of the optimized graph go forward too.
LEMMA LinksForward ==
  ASSUME OptTypeOK, GraphInv
  PROVE  Forward(links)
<1> SUFFICES ASSUME NEW k \in links
             PROVE  k.from \in Node /\ k.to \in Node /\ k.from < k.to
  BY DEF Forward
<1>1. k.from \in Node /\ k.to \in Node
  BY DEF OptTypeOK, BuildTypeOK
<1>2. k.from \in Live /\ k.to \in Live /\ Last(k.from) < group[k.to][1]
  BY DEF GraphInv, LinksBetweenGroups
<1>3. group[k.from] \in Seq(Node) /\ group[k.from] # <<>> /\ group[k.to] \in Seq(Node)
  BY <1>1, <1>2 DEF OptTypeOK, Live
<1>4. group[k.from][1] = k.from /\ group[k.to][1] = k.to
  BY <1>2 DEF GraphInv, GroupsInOrder
<1>5. k.from <= Last(k.from) /\ Last(k.from) \in Node
  <2>1. Node \subseteq Nat
    BY DEF Node
  <2>2. \A i, j \in 1..Len(group[k.from]) : i < j => group[k.from][i] < group[k.from][j]
    BY <1>2 DEF GraphInv, GroupsInOrder
  <2>3. group[k.from][1] <= group[k.from][Len(group[k.from])]
        /\ group[k.from][Len(group[k.from])] \in Node
    BY <2>1, <2>2, <1>3, AscendingEnds
  <2> QED BY <2>3, <1>4 DEF Last
<1> QED BY <1>1, <1>2, <1>4, <1>5 DEF Node

\* A graph whose nodes and links do not change keeps its invariant.
LEMMA GraphUnchanged ==
  ASSUME GraphInv, UNCHANGED <<buildVars, nodeVars>>
  PROVE  GraphInv'
<1> USE DEF buildVars, nodeVars
<1>1. UNCHANGED <<Node, Loop, Live>> /\ (\A i, n : InGroup(i, n)' <=> InGroup(i, n))
  BY DEF Node, Loop, Live, InGroup
<1>2. /\ \A i, j : Conflict(i, j)' <=> Conflict(i, j)
      /\ \A i, j : Reaches(links, i, j)' <=> Reaches(links, i, j)
      /\ \A i : (hasNode(i)' <=> hasNode(i)) /\ Deps(i)' = Deps(i)
      /\ \A i : (complexInstruction(i)' <=> complexInstruction(i))
  BY <1>1 DEF Conflict, ReadElements, WriteElements, Reaches, hasNode, Deps, complexInstruction
<1>3. NodesInOrder'
  BY <1>1 DEF GraphInv, NodesInOrder
<1>4. GroupsInOrder'
  BY <1>1, <1>2 DEF GraphInv, GroupsInOrder
<1>5. OneGroup'
  BY <1>1, <1>2 DEF GraphInv, OneGroup
<1>6. LinksBetweenGroups'
  BY <1>1 DEF GraphInv, LinksBetweenGroups, Last
<1>7. PathsKept'
  BY <1>1, <1>2 DEF GraphInv, PathsKept
<1>8. LabelsShared'
  BY <1>1, <1>2 DEF GraphInv, LabelsShared
<1> QED BY <1>3, <1>4, <1>5, <1>6, <1>7, <1>8 DEF GraphInv
-----------------------------------------------------------------------------
(***************************************************************************)
(* The graph as it is built.                                               *)
(***************************************************************************)

\* Nodes of one instruction: what BuildInv says of instructions holds of nodes.
LEMMA BuiltGraph == AsBuilt /\ NodesInOrder /\ LabelsShared => GraphInv
<1> SUFFICES ASSUME AsBuilt, NodesInOrder, LabelsShared PROVE GraphInv
  OBVIOUS
<1>1. /\ BuildTypeOK /\ built \in Nat /\ 1..built \subseteq Node /\ Node \subseteq Nat
      /\ ConflictsOrdered /\ LinksJustified
  BY DEF AsBuilt, BuildInv, BuildTypeOK, Node
<1>2. \A n \in Node : n \in Live <=> n <= built /\ hasNode(n)
  <2>1. \A n : <<n>> # <<>>
    OBVIOUS
  <2>2. \A n \in Node : group[n] = IF n <= built /\ hasNode(n) THEN <<n>> ELSE <<>>
    BY DEF AsBuilt
  <2> QED BY <2>1, <2>2, Zenon DEF Live
<1>3. \A n \in Live : n \in Node /\ group[n] = <<n>>
  BY <1>2 DEF AsBuilt, Live
<1>4. \A n \in Live : Len(group[n]) = 1 /\ group[n][1] = n /\ n <= built /\ hasNode(n)
  BY <1>2, <1>3
<1>5. \A n \in Live : \A i : InGroup(i, n) <=> i = n
  BY <1>4 DEF InGroup
<1>6. GroupsInOrder
  BY <1>4 DEF GroupsInOrder
<1>7. OneGroup
  <2>1. \A i \in 1..built : hasNode(i) => i \in Live
    BY <1>1, <1>2
  <2> QED BY <2>1, <1>5 DEF OneGroup
<1>8. LinksBetweenGroups
  <2> SUFFICES ASSUME NEW k \in links
               PROVE  {k.from, k.to} \subseteq Live /\ Last(k.from) < group[k.to][1]
    BY DEF LinksBetweenGroups
  <2>1. /\ k.from \in Node /\ k.to \in Node
        /\ k.from < k.to /\ k.to <= built /\ Conflict(k.from, k.to)
    BY <1>1 DEF LinksJustified, BuildTypeOK
  <2>2. k.from <= built
    <3>1. k.from \in Nat /\ k.to \in Nat /\ built \in Nat
      BY <2>1, <1>1
    <3> QED BY <3>1, <2>1
  <2>3. k.from \in Live /\ k.to \in Live
    BY <2>1, <2>2, <1>1, <1>2, ConflictHasNode
  <2> QED BY <2>1, <2>3, <1>4 DEF Last
<1>9. PathsKept
  BY <1>1, <1>5 DEF PathsKept, ConflictsOrdered
<1> QED BY <1>6, <1>7, <1>8, <1>9 DEF GraphInv

LEMMA OptInvInit == OptInit => OptInv
<1> SUFFICES ASSUME OptInit PROVE OptInv
  OBVIOUS
<1>1. BuildInv /\ links = {} /\ built = 0 /\ pass = "build" /\ stack = <<>>
  BY BuildInvInit DEF OptInit, BuildInit
<1>2. Live = {} /\ Node \subseteq Nat \ {0}
  BY DEF OptInit, Live, Node
<1>3. OptTypeOK
  <2>1. stack \in Seq(FrameType)
    BY <1>1
  <2> QED BY <1>1, <2>1 DEF OptTypeOK, OptInit, BuildInv, FrameType
<1>4. AsBuilt
  <2>1. \A n \in Node : ~(n <= built)
    BY <1>1, <1>2
  <2> QED BY <1>1, <1>2, <2>1 DEF AsBuilt, OptInit
<1>5. NodesInOrder
  BY <1>2 DEF NodesInOrder, OptInit
<1>6. LabelsShared
  BY <1>1 DEF LabelsShared
<1>7. GraphInv
  BY <1>4, <1>5, <1>6, BuiltGraph
<1>8. PassesInOrder /\ ClausesComplete
  BY <1>1, <1>4 DEF PassesInOrder, ClausesComplete
<1> QED BY <1>3, <1>7, <1>8 DEF OptInv

\* The label of a read link and the accesses it joins.
LEMMA ReadLinkLabel ==
  ASSUME NEW n, NEW W, NEW k \in ReadLinks(n, W)
  PROVE  \E a \in prog[n].reads : \E e \in getArrayElementChildren(a) :
           /\ W[e] # NoNode
           /\ k = addLink(W[e], n, Label(a, e))
BY DEF ReadLinks

\* The label of a write link and the accesses it joins.
LEMMA WriteLinkLabel ==
  ASSUME NEW n, NEW R, NEW W, NEW k \in WriteLinks(n, R, W)
  PROVE  \E a \in prog[n].writes : \E e \in getArrayElementChildren(a) :
           \/ \E r \in R[e] : k = addLink(r, n, Label(a, e))
           \/ W[e] # NoNode /\ k = addLink(W[e], n, Label(a, e))
BY DEF WriteLinks

\* The links of one more instruction carry an access of that instruction that
\* the earlier one overlaps.
LEMMA NewLabels ==
  ASSUME BuildInv, InstructionToGraph, NEW k \in links', k \notin links
  PROVE  /\ k.to = built + 1
         /\ k.from \in 1..built
         /\ \E a \in Touches(prog[k.to]) :
              /\ k.alias = a \/ k.alias \in getArrayElementChildren(a)
              /\ \E b \in Touches(prog[k.from]) : MayOverlap(b, a)
<1> DEFINE n == built + 1
           l == prog[n].loop
           R == dataUsedInRead[l]
           W == dataUsedInWrite[l]
<1>1. BuildTypeOK /\ n \in Node /\ 1..built \subseteq Node
  BY DEF BuildInv, BuildTypeOK, InstructionToGraph, Node
<1>2. k \in ReadLinks(n, W) \cup WriteLinks(n, R, W)
  BY DEF InstructionToGraph, handleInstructionDeps
<1>3. l \in Loop
  BY <1>1, ProgFacts
<1>4. \A e \in Alias :
        /\ W[e] # NoNode => W[e] \in 1..built /\ e \in WriteElements(W[e])
        /\ \A r \in R[e] : r \in 1..built /\ e \in ReadElements(r)
  BY <1>3 DEF BuildInv, MapsExact
<1> HIDE DEF n, l, R, W
<1>5. PICK a \in Touches(prog[n]), e \in Alias :
        /\ e \in getArrayElementChildren(a)
        /\ k.to = n /\ k.alias = Label(a, e)
        /\ k.from \in 1..built
        /\ e \in WriteElements(k.from) \cup ReadElements(k.from)
  <2>1. CASE k \in ReadLinks(n, W)
    <3>1. PICK a \in prog[n].reads : \E e \in getArrayElementChildren(a) :
            W[e] # NoNode /\ k = addLink(W[e], n, Label(a, e))
      BY <2>1, ReadLinkLabel
    <3>2. PICK e \in getArrayElementChildren(a) :
            W[e] # NoNode /\ k = addLink(W[e], n, Label(a, e))
      BY <3>1
    <3>3. e \in Alias /\ a \in Touches(prog[n])
      BY <3>1 DEF getArrayElementChildren, Touches
    <3> QED BY <3>2, <3>3, <1>4 DEF addLink
  <2>2. CASE k \in WriteLinks(n, R, W)
    <3>1. PICK a \in prog[n].writes : \E e \in getArrayElementChildren(a) :
            \/ \E r \in R[e] : k = addLink(r, n, Label(a, e))
            \/ W[e] # NoNode /\ k = addLink(W[e], n, Label(a, e))
      BY <2>2, WriteLinkLabel
    <3>2. PICK e \in getArrayElementChildren(a) :
            \/ \E r \in R[e] : k = addLink(r, n, Label(a, e))
            \/ W[e] # NoNode /\ k = addLink(W[e], n, Label(a, e))
      BY <3>1
    <3>3. e \in Alias /\ a \in Touches(prog[n])
      BY <3>1 DEF getArrayElementChildren, Touches
    <3> QED BY <3>2, <3>3, <1>4 DEF addLink
  <2> QED BY <2>1, <2>2, <1>2
<1>6. PICK b \in Touches(prog[k.from]) : e \in getArrayElementChildren(b)
  BY <1>5 DEF WriteElements, ReadElements, Elements, Touches
<1>7. a \in Alias /\ b \in Alias
  <2>1. \A i \in Node : Touches(prog[i]) \subseteq Alias
    BY <1>1, ProgFacts DEF Touches
  <2> QED BY <2>1, <1>1, <1>5
<1>8. MayOverlap(b, a)
  BY <1>5, <1>6, <1>7, CommonChild
<1>9. k.alias = a \/ k.alias \in getArrayElementChildren(a)
  BY <1>5 DEF Label
<1> QED BY <1>5, <1>6, <1>8, <1>9 DEF n

\* An ascending sequence stays so when a greater element is appended.
LEMMA AppendGreater ==
  ASSUME NEW S, S \subseteq Nat, NEW s \in Seq(S), NEW x \in S,
         \A j, k \in 1..Len(s) : j < k => s[j] < s[k],
         \A k \in 1..Len(s) : s[k] < x
  PROVE  /\ Append(s, x) \in Seq(S)
         /\ \A j, k \in 1..Len(Append(s, x)) : j < k => Append(s, x)[j] < Append(s, x)[k]
         /\ \A y : (\E k \in 1..Len(Append(s, x)) : Append(s, x)[k] = y)
                     <=> y = x \/ \E k \in 1..Len(s) : s[k] = y
<1> DEFINE t == Append(s, x)
<1>1. /\ t \in Seq(S) /\ Len(s) \in Nat /\ Len(t) = Len(s) + 1
      /\ t[Len(s) + 1] = x
      /\ \A k \in 1..Len(s) : t[k] = s[k]
  OBVIOUS
<1> HIDE DEF t
<1>2. 1..Len(t) = (1..Len(s)) \cup {Len(s) + 1}
  BY <1>1
<1>3. \A j, k \in 1..Len(t) : j < k => t[j] < t[k]
  <2> SUFFICES ASSUME NEW j \in 1..Len(t), NEW k \in 1..Len(t), j < k PROVE t[j] < t[k]
    OBVIOUS
  <2>1. j \in 1..Len(s)
    BY <1>1
  <2>2. CASE k \in 1..Len(s)
    BY <2>1, <2>2, <1>1
  <2>3. CASE k = Len(s) + 1
    BY <2>1, <2>3, <1>1
  <2> QED BY <2>2, <2>3, <1>2
<1>4. \A y : (\E k \in 1..Len(t) : t[k] = y) <=> y = x \/ \E k \in 1..Len(s) : s[k] = y
  BY <1>1, <1>2
<1> QED BY <1>1, <1>3, <1>4 DEF t

\* Handling one more instruction.
LEMMA GenerateStep == OptInv /\ generateGraph => OptInv'
<1> SUFFICES ASSUME OptInv, generateGraph PROVE OptInv'
  OBVIOUS
<1> DEFINE n == built + 1
<1>1. /\ pass = "build" /\ AsBuilt /\ BuildInv /\ InstructionToGraph /\ newNode(n)
      /\ UNCHANGED <<pass, stack, inOutDep, inDep>> /\ prog' = prog /\ built' = n
  BY DEF OptInv, PassesInOrder, AsBuilt, generateGraph, clauseVars, InstructionToGraph
<1>2. BuildInv'
  BY <1>1, BuildInvStep
<1>3. /\ BuildTypeOK /\ built \in Nat /\ n \in Node /\ Node' = Node /\ Loop' = Loop
      /\ \A i : hasNode(i)' <=> hasNode(i)
      /\ Node \subseteq Nat /\ stack = <<>>
  BY <1>1 DEF OptInv, PassesInOrder, BuildInv, BuildTypeOK, InstructionToGraph, Node, Loop, hasNode
<1>4. /\ prog[n].scope \in Loop
      /\ prog[n].reads \subseteq Alias /\ prog[n].writes \subseteq Alias
  BY <1>3, ProgFacts
<1>5. /\ nodes \in [Loop -> Seq(Node)] /\ group \in [Node -> Seq(Node)]
      /\ depRead \in [Node -> SUBSET Alias] /\ depWrite \in [Node -> SUBSET Alias]
      /\ inOutDep \in [Node -> SUBSET Alias] /\ inDep \in [Node -> SUBSET Alias]
  BY DEF OptInv, OptTypeOK
<1> HIDE DEF n
<1>6. /\ group' \in [Node -> Seq(Node)]
      /\ depRead' \in [Node -> SUBSET Alias] /\ depWrite' \in [Node -> SUBSET Alias]
      /\ \A i \in Node : i # n => /\ group'[i] = group[i]
                                 /\ depRead'[i] = depRead[i] /\ depWrite'[i] = depWrite[i]
      /\ hasNode(n) => /\ group'[n] = <<n>>
                       /\ depRead'[n] = prog[n].reads /\ depWrite'[n] = prog[n].writes
      /\ ~hasNode(n) => group'[n] = group[n]
  <2>1. CASE hasNode(n)
    <3>1. <<n>> \in Seq(Node)
      BY <1>3
    <3> QED BY <3>1, <2>1, <1>1, <1>3, <1>4, <1>5 DEF newNode
  <2>2. CASE ~hasNode(n)
    BY <2>2, <1>1, <1>5 DEF newNode, nodeVars
  <2> QED BY <2>1, <2>2
<1>7. AsBuilt'
  <2> SUFFICES ASSUME NEW i \in Node
               PROVE  /\ group'[i] = IF i <= built' /\ hasNode(i) THEN <<i>> ELSE <<>>
                      /\ group'[i] # <<>> =>
                           depRead'[i] = prog[i].reads /\ depWrite'[i] = prog[i].writes
    BY <1>1, <1>2, <1>3 DEF AsBuilt, Live
  <2>1. /\ group[i] = IF i <= built /\ hasNode(i) THEN <<i>> ELSE <<>>
        /\ group[i] # <<>> => depRead[i] = prog[i].reads /\ depWrite[i] = prog[i].writes
    BY <1>1 DEF AsBuilt, Live
  <2>2. CASE i = n
    <3>1. ~(i <= built) /\ i <= built'
      BY <2>2, <1>1, <1>3 DEF n
    <3>2. group[i] = <<>>
      BY <2>1, <3>1
    <3>3. hasNode(i) => group'[i] = <<i>> /\ depRead'[i] = prog[i].reads /\ depWrite'[i] = prog[i].writes
      BY <2>2, <1>6
    <3>4. ~hasNode(i) => group'[i] = <<>>
      BY <2>2, <3>2, <1>6
    <3> QED BY <3>1, <3>3, <3>4
  <2>3. CASE i # n
    <3>1. i <= built' <=> i <= built
      BY <2>3, <1>1, <1>3 DEF n
    <3>2. group'[i] = group[i] /\ depRead'[i] = depRead[i] /\ depWrite'[i] = depWrite[i]
      BY <2>3, <1>6
    <3> QED BY <3>1, <3>2, <2>1
  <2> QED BY <2>2, <2>3
<1>8. Live' = IF hasNode(n) THEN Live \cup {n} ELSE Live
  <2>1. <<n>> # <<>>
    OBVIOUS
  <2> QED BY <2>1, <1>3, <1>6 DEF Live
<1>9. nodes' \in [Loop -> Seq(Node)] /\ NodesInOrder'
  <2>1. NodesInOrder
    BY DEF OptInv, GraphInv
  <2>2. CASE ~hasNode(n)
    BY <2>1, <2>2, <1>1, <1>3, <1>5, <1>8 DEF newNode, nodeVars, NodesInOrder
  <2>3. CASE hasNode(n)
    <3> DEFINE g == prog[n].scope
    <3>1. g \in Loop /\ nodes' = [nodes EXCEPT ![g] = Append(@, n)] /\ nodes[g] \in Seq(Node)
      BY <2>3, <1>1, <1>4, <1>5 DEF newNode
    <3>2. \A k \in 1..Len(nodes[g]) : nodes[g][k] < n
      <4> SUFFICES ASSUME NEW k \in 1..Len(nodes[g]) PROVE nodes[g][k] < n
        OBVIOUS
      <4>1. nodes[g][k] \in Node
        BY <3>1
      <4>2. nodes[g][k] \in Live
        BY <4>1, <3>1, <2>1 DEF NodesInOrder
      <4>3. nodes[g][k] <= built
        BY <4>1, <4>2, <1>1 DEF AsBuilt, Live
      <4>4. nodes[g][k] \in Nat
        BY <4>1, <1>3
      <4> QED BY <4>3, <4>4, <1>3 DEF n
    <3>3. \A j, k \in 1..Len(nodes[g]) : j < k => nodes[g][j] < nodes[g][k]
      BY <3>1, <2>1 DEF NodesInOrder
    <3> DEFINE t == Append(nodes[g], n)
    <3>4. /\ t \in Seq(Node)
          /\ \A j, k \in 1..Len(t) : j < k => t[j] < t[k]
          /\ \A y : (\E k \in 1..Len(t) : t[k] = y)
                      <=> y = n \/ \E k \in 1..Len(nodes[g]) : nodes[g][k] = y
      BY <3>1, <3>2, <3>3, <1>3, AppendGreater
    <3>5. /\ nodes' \in [Loop -> Seq(Node)]
          /\ nodes'[g] = t
          /\ \A h \in Loop : h # g => nodes'[h] = nodes[h]
      BY <3>1, <3>4, <1>5
    <3> HIDE DEF t
    <3>6. ASSUME NEW h \in Loop
          PROVE  /\ \A j, k \in 1..Len(nodes'[h]) : j < k => nodes'[h][j] < nodes'[h][k]
                 /\ \A i \in Node :
                      i \in Live' /\ prog[i].scope = h
                        <=> \E k \in 1..Len(nodes'[h]) : nodes'[h][k] = i
      <4>1. \A i \in Node :
              i \in Live /\ prog[i].scope = h <=> \E k \in 1..Len(nodes[h]) : nodes[h][k] = i
        BY <2>1 DEF NodesInOrder
      <4>2. CASE h = g
        BY <4>1, <4>2, <3>4, <3>5, <2>3, <1>8
      <4>3. CASE h # g
        <5>1. \A j, k \in 1..Len(nodes[h]) : j < k => nodes[h][j] < nodes[h][k]
          BY <2>1 DEF NodesInOrder
        <5> QED BY <5>1, <4>1, <4>3, <3>5, <2>3, <1>8
      <4> QED BY <4>2, <4>3
    <3> QED BY <3>5, <3>6, <1>1, <1>3 DEF NodesInOrder
  <2> QED BY <2>2, <2>3
<1>10. LabelsShared'
  <2> SUFFICES ASSUME NEW k \in links'
               PROVE  \E a \in Deps(k.to)' :
                        /\ k.alias = a \/ k.alias \in getArrayElementChildren(a)
                        /\ \E b \in Deps(k.from)' : MayOverlap(b, a)
    BY DEF LabelsShared
  <2>1. k.from \in Node /\ k.to \in Node
    BY <1>2, <1>3 DEF BuildInv, BuildTypeOK
  <2>2. \A i \in Live' : Deps(i)' = Touches(prog[i])
    BY <1>1, <1>3, <1>7 DEF AsBuilt, Deps, Touches, Live
  <2>3. k.from \in Live' /\ k.to \in Live'
    <3>1. k.from < k.to /\ k.to <= built' /\ Conflict(k.from, k.to)'
      BY <1>2 DEF BuildInv, LinksJustified
    <3>2. Conflict(k.from, k.to)
      BY <3>1, <1>1 DEF Conflict, ReadElements, WriteElements
    <3>3. hasNode(k.from) /\ hasNode(k.to)
      BY <3>2, <2>1, <1>3, ConflictHasNode
    <3>4. k.from <= built' /\ k.to <= built'
      <4>1. k.from \in Nat /\ k.to \in Nat /\ built' \in Nat
        BY <2>1, <1>1, <1>3 DEF n
      <4> QED BY <4>1, <3>1
    <3>5. group'[k.from] = <<k.from>> /\ group'[k.to] = <<k.to>>
      BY <3>3, <3>4, <2>1, <1>3, <1>7 DEF AsBuilt
    <3>6. <<k.from>> # <<>> /\ <<k.to>> # <<>>
      OBVIOUS
    <3> QED BY <3>5, <3>6, <2>1, <1>3 DEF Live
  <2>4. CASE k \notin links
    BY <2>2, <2>3, <2>4, <1>1, NewLabels
  <2>5. CASE k \in links
    <3>1. {k.from, k.to} \subseteq Live
      BY <2>5 DEF OptInv, GraphInv, LinksBetweenGroups
    <3>2. Deps(k.from) = Touches(prog[k.from]) /\ Deps(k.to) = Touches(prog[k.to])
      BY <3>1, <2>1, <1>1 DEF AsBuilt, Deps, Touches
    <3>3. \E a \in Deps(k.to) :
            /\ k.alias = a \/ k.alias \in getArrayElementChildren(a)
            /\ \E b \in Deps(k.from) : MayOverlap(b, a)
      BY <2>5 DEF OptInv, GraphInv, LabelsShared
    <3> QED BY <3>2, <3>3, <2>2, <2>3
  <2> QED BY <2>4, <2>5
<1>11. GraphInv'
  BY <1>7, <1>9, <1>10, BuiltGraph, PTL
<1>12. OptTypeOK'
  BY <1>1, <1>2, <1>3, <1>5, <1>6, <1>9 DEF OptInv, OptTypeOK, BuildInv
<1>13. PassesInOrder' /\ ClausesComplete'
  BY <1>1, <1>7 DEF OptInv, PassesInOrder, ClausesComplete
<1> QED BY <1>11, <1>12, <1>13 DEF OptInv
-----------------------------------------------------------------------------
(***************************************************************************)
(* The graphs around an instruction.  Around is a recursive function: that *)
(* it exists is shown for one more instruction at a time.                  *)
(***************************************************************************)

\* f is Around, for the instructions up to n.
AroundUpTo(f, n) ==
  \A i \in 0..n : f[i] = IF i = 0 THEN {} ELSE {prog[i].scope} \cup f[prog[i].scope]

LEMMA AroundExists ==
  ASSUME BuildTypeOK, NEW n \in Loop
  PROVE  \E f : f = [i \in 0..n |-> f[i]] /\ AroundUpTo(f, n)
<1> DEFINE Good(m) == \E f : f = [i \in 0..m |-> f[i]] /\ AroundUpTo(f, m)
           T == {m \in Loop : ~Good(m)}
<1> SUFFICES ASSUME T # {} PROVE FALSE
  OBVIOUS
<1>1. PICK m \in T : \A x \in T : m <= x
  BY LeastNat, ProgFacts
<1>2. m \in Nat /\ m \in Loop /\ ~Good(m)
  BY <1>1, ProgFacts
<1>3. CASE m = 0
  <2> DEFINE f == [i \in 0..0 |-> {}]
  <2>1. f = [i \in 0..0 |-> f[i]] /\ AroundUpTo(f, 0)
    BY DEF AroundUpTo
  <2> QED BY <2>1, <1>2, <1>3
<1>4. CASE m # 0
  <2>1. m - 1 \in Loop /\ m \in Node /\ m - 1 \in Nat
    BY <1>2, <1>4 DEF Loop, Node, BuildTypeOK
  <2>2. Good(m - 1)
    <3>1. ~(m <= m - 1)
      BY <1>2
    <3> QED BY <3>1, <2>1, <1>1
  <2>3. PICK f : f = [i \in 0..m - 1 |-> f[i]] /\ AroundUpTo(f, m - 1)
    BY <2>2
  <2>4. prog[m].scope \in 0..m - 1
    <3>1. prog[m].scope \in Loop /\ prog[m].scope < m
      BY <2>1, ProgFacts
    <3>2. prog[m].scope \in Nat
      BY <3>1, ProgFacts
    <3> QED BY <3>1, <3>2, <1>2
  <2> DEFINE g == [i \in 0..m |-> IF i = m THEN {prog[m].scope} \cup f[prog[m].scope] ELSE f[i]]
  <2>5. g = [i \in 0..m |-> g[i]]
    OBVIOUS
  <2>6. AroundUpTo(g, m)
    <3> SUFFICES ASSUME NEW i \in 0..m
                 PROVE  g[i] = IF i = 0 THEN {} ELSE {prog[i].scope} \cup g[prog[i].scope]
      BY DEF AroundUpTo
    <3>1. CASE i = m
      BY <3>1, <2>4, <1>2, <1>4
    <3>2. CASE i # m
      <4>1. i \in 0..m - 1 /\ g[i] = f[i]
        BY <3>2, <1>2
      <4>2. i # 0 => prog[i].scope \in 0..m - 1 /\ g[prog[i].scope] = f[prog[i].scope]
        <5> SUFFICES ASSUME i # 0
                     PROVE  prog[i].scope \in 0..m - 1 /\ g[prog[i].scope] = f[prog[i].scope]
          OBVIOUS
        <5>1. i \in Node
          BY <4>1, <2>1, <1>2 DEF Node, Loop, BuildTypeOK
        <5>2. prog[i].scope \in Nat /\ prog[i].scope < i
          BY <5>1, ProgFacts
        <5>3. prog[i].scope \in 0..m - 1 /\ prog[i].scope # m
          BY <5>2, <4>1, <1>2
        <5> QED BY <5>3, <1>2
      <4> HIDE DEF g
      <4> QED BY <4>1, <4>2, <2>3 DEF AroundUpTo
    <3> QED BY <3>1, <3>2
  <2> QED BY <2>5, <2>6, <1>2
<1> QED BY <1>3, <1>4

\* The equation that Around is defined by.
LEMMA AroundDef ==
  ASSUME BuildTypeOK, NEW i \in Loop
  PROVE  Around[i] = IF i = 0 THEN {} ELSE {prog[i].scope} \cup Around[prog[i].scope]
<1> DEFINE Def(f) == [j \in Loop |-> IF j = 0 THEN {} ELSE {prog[j].scope} \cup f[prog[j].scope]]
<1>1. Loop = 0..Len(prog) /\ Len(prog) \in Loop
  BY DEF Loop, BuildTypeOK
<1>2. PICK f : f = [j \in Loop |-> f[j]] /\ AroundUpTo(f, Len(prog))
  BY <1>1, AroundExists
<1>3. f = Def(f)
  BY <1>1, <1>2 DEF AroundUpTo
<1>4. Around = CHOOSE h : h = Def(h)
  BY DEF Around
<1> HIDE DEF Def
<1>5. Around = Def(Around)
  BY <1>3, <1>4
<1> QED BY <1>5 DEF Def

\* Everything is inside the function's own graph.
LEMMA RootAround ==
  ASSUME BuildTypeOK, NEW n \in Node
  PROVE  0 \in Around[n]
<1> DEFINE T == {m \in Node : 0 \notin Around[m]}
<1> SUFFICES ASSUME T # {} PROVE FALSE
  OBVIOUS
<1>1. PICK m \in T : \A x \in T : m <= x
  BY LeastNat, ProgFacts
<1>2. /\ m \in Loop /\ m # 0 /\ m \in Nat /\ prog[m].scope \in Loop /\ prog[m].scope < m
      /\ prog[m].scope \in Nat
  BY <1>1, ProgFacts
<1>3. Around[m] = {prog[m].scope} \cup Around[prog[m].scope]
  BY <1>2, AroundDef
<1>4. CASE prog[m].scope = 0
  BY <1>1, <1>3, <1>4
<1>5. CASE prog[m].scope # 0
  <2>1. prog[m].scope \in Node
    BY <1>2, <1>5 DEF Node, Loop, BuildTypeOK
  <2>2. 0 \in Around[prog[m].scope]
    BY <2>1, <1>1, <1>2
  <2> QED BY <2>2, <1>1, <1>3
<1> QED BY <1>4, <1>5
-----------------------------------------------------------------------------
(***************************************************************************)
(* The steps of the optimisation.                                          *)
(***************************************************************************)

LEMMA OptimizeStep == OptInv /\ optimizeGraph => OptInv'
<1> SUFFICES ASSUME OptInv, optimizeGraph PROVE OptInv'
  OBVIOUS
<1>1. /\ pass = "build" /\ built = Len(prog) /\ pass' = "optimize"
      /\ stack' = <<Frame(0, "reduce")>>
      /\ UNCHANGED <<buildVars, nodeVars, clauseVars>>
  BY DEF optimizeGraph
<1>2. GraphInv'
  BY <1>1, GraphUnchanged DEF OptInv
<1>3. Frame(0, "reduce") \in FrameType /\ Frame(0, "reduce").graph = 0
  <2>1. 0 \in Loop
    BY DEF OptInv, OptTypeOK, BuildTypeOK, Loop
  <2> QED BY <2>1 DEF Frame, FrameType
<1>4. stack' \in Seq(FrameType) /\ stack' # <<>> /\ stack'[Len(stack')].graph = 0
  BY <1>1, <1>3
<1>5. OptTypeOK'
  BY <1>1, <1>4 DEF OptInv, OptTypeOK, BuildTypeOK, buildVars, nodeVars, clauseVars,
                    FrameType, Node, Loop
<1>6. PassesInOrder' /\ ClausesComplete'
  BY <1>1, <1>4 DEF PassesInOrder, ClausesComplete, buildVars
<1> QED BY <1>2, <1>5, <1>6 DEF OptInv

\* What holds while a frame is pending.
LEMMA TopFacts ==
  ASSUME OptInv, stack # <<>>
  PROVE  /\ pass = "optimize" /\ built = Len(prog)
         /\ stack \in Seq(FrameType) /\ Top \in FrameType /\ Top = stack[1]
         /\ Top.graph \in Loop /\ Top.pos \in Nat \ {0}
         /\ nodes[Top.graph] \in Seq(Node)
         /\ ~Finished => /\ Current \in Node /\ Current \in Live
                         /\ prog[Current].scope = Top.graph
                         /\ Current \in Loop
<1>1. pass = "optimize" /\ built = Len(prog) /\ stack \in Seq(FrameType)
  BY DEF OptInv, PassesInOrder, OptTypeOK, FrameType
<1>2. Top \in FrameType /\ Top = stack[1]
  BY <1>1 DEF Top
<1>3. Top.graph \in Loop /\ Top.pos \in Nat \ {0}
  BY <1>2 DEF FrameType
<1>4. nodes[Top.graph] \in Seq(Node)
  BY <1>3 DEF OptInv, OptTypeOK
<1>5. ASSUME ~Finished
      PROVE  /\ Current \in Node /\ Current \in Live /\ prog[Current].scope = Top.graph
             /\ Current \in Loop
  <2>1. Top.pos \in 1..Len(nodes[Top.graph])
    BY <1>3, <1>4, <1>5 DEF Finished
  <2>2. Current \in Node
    BY <2>1, <1>4 DEF Current
  <2>3. Current \in Live /\ prog[Current].scope = Top.graph
    BY <2>1, <2>2, <1>3 DEF Current, OptInv, GraphInv, NodesInOrder
  <2> QED BY <2>2, <2>3 DEF Node, Loop
<1> QED BY <1>1, <1>2, <1>3, <1>4, <1>5

\* The frames under the innermost one stay when it moves on, is replaced or
\* starts another one.
LEMMA FramesRooted ==
  ASSUME NEW st \in Seq(FrameType), st # <<>>, st[Len(st)].graph = 0,
         NEW f \in FrameType
  PROVE  /\ LET r == <<f>> \o Tail(st)
            IN  f.graph = st[1].graph =>
                  r \in Seq(FrameType) /\ r # <<>> /\ r[Len(r)].graph = 0
         /\ LET r == [st EXCEPT ![1].pos = @ + 1]
            IN  r \in Seq(FrameType) /\ r # <<>> /\ r[Len(r)].graph = 0
         /\ LET r == <<f>> \o st
            IN  r \in Seq(FrameType) /\ r # <<>> /\ r[Len(r)].graph = 0
<1>1. Len(st) \in Nat /\ Len(st) >= 1 /\ st[1] \in FrameType
  OBVIOUS
<1>2. LET r == <<f>> \o Tail(st)
      IN  f.graph = st[1].graph =>
            r \in Seq(FrameType) /\ r # <<>> /\ r[Len(r)].graph = 0
  <2> DEFINE r == <<f>> \o Tail(st)
  <2>1. /\ r \in Seq(FrameType) /\ Len(r) = Len(st) /\ r[1] = f
        /\ \A k \in 2..Len(st) : r[k] = st[k]
    OBVIOUS
  <2>2. r # <<>>
    BY <2>1, <1>1
  <2> HIDE DEF r
  <2>3. ASSUME f.graph = st[1].graph PROVE r[Len(r)].graph = 0
    <3>1. CASE Len(st) = 1
      BY <3>1, <2>1, <2>3
    <3>2. CASE Len(st) >= 2
      BY <3>2, <2>1, <1>1
    <3>3. \A x \in Nat : x >= 1 => x = 1 \/ x >= 2
      OBVIOUS
    <3>4. Len(st) = 1 \/ Len(st) >= 2
      BY <3>3, <1>1
    <3> QED BY <3>1, <3>2, <3>4
  <2>4. f.graph = st[1].graph => r \in Seq(FrameType) /\ r # <<>> /\ r[Len(r)].graph = 0
    BY <2>1, <2>2, <2>3
  <2> QED BY <2>4 DEF r
<1>3. LET r == [st EXCEPT ![1].pos = @ + 1]
      IN  r \in Seq(FrameType) /\ r # <<>> /\ r[Len(r)].graph = 0
  <2> DEFINE h == [st[1] EXCEPT !.pos = @ + 1]
             r == [st EXCEPT ![1] = h]
  <2>1. h \in FrameType /\ h.graph = st[1].graph
    BY <1>1 DEF FrameType
  <2> HIDE DEF h
  <2>2. r \in Seq(FrameType) /\ Len(r) = Len(st) /\ \A k \in 1..Len(st) : r[k] = IF k = 1 THEN h ELSE st[k]
    BY <1>1, <2>1
  <2>3. r # <<>>
    BY <2>2, <1>1
  <2> HIDE DEF r
  <2>4. r[Len(r)].graph = 0
    BY <2>1, <2>2, <1>1
  <2> QED BY <2>2, <2>3, <2>4 DEF r, h
<1>4. LET r == <<f>> \o st
      IN  r \in Seq(FrameType) /\ r # <<>> /\ r[Len(r)].graph = 0
  <2> DEFINE r == <<f>> \o st
  <2>1. r \in Seq(FrameType) /\ Len(r) = Len(st) + 1 /\ r[Len(st) + 1] = st[Len(st)]
    BY <1>1
  <2>2. r # <<>>
    BY <2>1, <1>1
  <2> QED BY <2>1, <2>2
<1> QED BY <1>2, <1>3, <1>4

LEMMA FuseNextStep == OptInv /\ FuseNext => OptInv'
<1> SUFFICES ASSUME OptInv, FuseNext PROVE OptInv'
  OBVIOUS
<1> DEFINE rest == [stack EXCEPT ![1].pos = @ + 1]
<1>1. /\ stack # <<>> /\ ~Finished
      /\ stack' = IF complexInstruction(Current) THEN <<Frame(Current, "reduce")>> \o rest ELSE rest
      /\ UNCHANGED <<buildVars, pass, nodeVars, clauseVars>>
  BY DEF FuseNext
<1>2. GraphInv'
  BY <1>1, GraphUnchanged DEF OptInv
<1>3. pass = "optimize" /\ stack \in Seq(FrameType) /\ Current \in Loop
  BY <1>1, TopFacts
<1>4. Frame(Current, "reduce") \in FrameType
  BY <1>3 DEF Frame, FrameType
<1>5. stack[Len(stack)].graph = 0
  BY <1>1 DEF OptInv, PassesInOrder
<1>6. rest \in Seq(FrameType) /\ rest # <<>> /\ rest[Len(rest)].graph = 0
  BY <1>1, <1>3, <1>4, <1>5, FramesRooted
<1> HIDE DEF rest
<1>7. stack' \in Seq(FrameType) /\ stack' # <<>> /\ stack'[Len(stack')].graph = 0
  BY <1>1, <1>4, <1>6, FramesRooted
<1>8. OptTypeOK'
  BY <1>1, <1>7 DEF OptInv, OptTypeOK, BuildTypeOK, buildVars, nodeVars, clauseVars,
                    FrameType, Node, Loop
<1>9. PassesInOrder' /\ ClausesComplete'
  BY <1>1, <1>3, <1>7 DEF OptInv, PassesInOrder, ClausesComplete, buildVars
<1> QED BY <1>2, <1>8, <1>9 DEF OptInv

\* The clauses are completed; with the last frame the pass is over.  Everything
\* is inside the function's own graph (Around), so every node is completed then.
LEMMA ComputeStep == OptInv /\ nodesComputeInOut => OptInv'
<1> SUFFICES ASSUME OptInv, nodesComputeInOut PROVE OptInv'
  OBVIOUS
<1> DEFINE inside(n) == group[n] # <<>> /\ Top.graph \in Around[n]
<1>1. /\ stack # <<>>
      /\ inOutDep' = [n \in Node |-> IF inside(n) THEN inOutDep[n] \cup computeInOutDep(n)
                                                  ELSE inOutDep[n]]
      /\ inDep' = [n \in Node |-> IF inside(n)
                                    THEN inDep[n] \cup (computeInDep(n) \ inOutDep'[n])
                                    ELSE inDep[n]]
      /\ stack' = Tail(stack)
      /\ pass' = IF stack' = <<>> THEN "optimized" ELSE pass
      /\ UNCHANGED <<buildVars, nodeVars>>
  BY DEF nodesComputeInOut
<1>2. GraphInv'
  BY <1>1, GraphUnchanged DEF OptInv
<1>3. /\ pass = "optimize" /\ stack \in Seq(FrameType) /\ Top = stack[1]
      /\ stack[Len(stack)].graph = 0 /\ built = Len(prog) /\ BuildTypeOK
  BY <1>1, TopFacts DEF OptInv, PassesInOrder, OptTypeOK
<1>4. /\ stack' \in Seq(FrameType)
      /\ stack' # <<>> => stack'[Len(stack')].graph = 0
      /\ stack' = <<>> => Top.graph = 0
  <2>1. /\ Len(stack) \in Nat /\ Len(stack) >= 1
        /\ Tail(stack) \in Seq(FrameType) /\ Len(Tail(stack)) = Len(stack) - 1
        /\ \A k \in 1..Len(Tail(stack)) : Tail(stack)[k] = stack[k + 1]
    BY <1>1, <1>3
  <2>2. ASSUME stack' # <<>> PROVE stack'[Len(stack')].graph = 0
    <3>1. Len(stack') \in 1..Len(stack')
      BY <2>1, <2>2, <1>1
    <3> QED BY <3>1, <2>1, <1>1, <1>3
  <2>3. ASSUME stack' = <<>> PROVE Top.graph = 0
    <3>1. Len(stack) = 1
      <4>0. Tail(stack) = <<>>
        BY <2>3, <1>1, Zenon
      <4>1. Len(Tail(stack)) = 0
        BY <4>0
      <4> QED BY <4>1, <2>1
    <3> QED BY <3>1, <1>3
  <2> QED BY <2>1, <2>2, <2>3, <1>1
<1>5. /\ inOutDep' \in [Node -> SUBSET Alias] /\ inDep' \in [Node -> SUBSET Alias]
  <2>1. /\ depRead \in [Node -> SUBSET Alias] /\ depWrite \in [Node -> SUBSET Alias]
        /\ inOutDep \in [Node -> SUBSET Alias] /\ inDep \in [Node -> SUBSET Alias]
    BY DEF OptInv, OptTypeOK
  <2>2. \A n \in Node : computeInOutDep(n) \subseteq Alias /\ computeInDep(n) \subseteq Alias
    BY <2>1 DEF computeInOutDep, computeInDep, Deps
  <2> HIDE DEF inside
  <2> QED BY <2>1, <2>2, <1>1
<1>6. OptTypeOK'
  BY <1>1, <1>3, <1>4, <1>5 DEF OptInv, OptTypeOK, BuildTypeOK, buildVars, nodeVars,
                    FrameType, Node, Loop
<1>7. PassesInOrder'
  BY <1>1, <1>3, <1>4 DEF PassesInOrder, buildVars
<1>8. ClausesComplete'
  <2> SUFFICES ASSUME stack' = <<>>, NEW n \in Live
               PROVE  /\ computeInOutDep(n) \subseteq inOutDep'[n]
                      /\ computeInDep(n) \subseteq inOutDep'[n] \cup inDep'[n]
    <3>1. Live' = Live
      BY <1>1 DEF Live, Node, nodeVars, buildVars
    <3>2. \A n : computeInOutDep(n)' = computeInOutDep(n) /\ computeInDep(n)' = computeInDep(n)
      BY <1>1 DEF computeInOutDep, computeInDep, isLooped, InPrev, Deps, Prev, nodeVars, buildVars
    <3>3. pass' \notin {"build", "optimize"} => stack' = <<>>
      BY <1>1, <1>3
    <3> QED BY <3>1, <3>2, <3>3 DEF ClausesComplete
  <2>1. inside(n) /\ n \in Node
    BY <1>3, <1>4, RootAround DEF Live
  <2> HIDE DEF inside
  <2> QED BY <2>1, <1>1
<1> QED BY <1>2, <1>6, <1>7, <1>8 DEF OptInv

\* The reduction removes implied links only.
LEMMA ReducePaths ==
  ASSUME OptInv, transitiveReduction, NEW i, NEW j
  PROVE  Reaches(links, i, j) <=> Reaches(links', i, j)
<1>1. CASE Finished
  BY <1>1 DEF transitiveReduction
<1>2. CASE ~Finished
  <2> DEFINE n == Current
  <2>1. n \in Node
    BY <1>2, TopFacts DEF transitiveReduction
  <2>2. links' = {k \in links : ~(k.from = n /\ k.to \in Visited(n))}
    BY <1>2 DEF transitiveReduction
  <2>3. Forward(links)
    BY LinksForward DEF OptInv
  <2> HIDE DEF n
  <2>4. ASSUME NEW k \in links, k \notin links'
        PROVE  /\ k.from = n
               /\ \E x \in links : x.from = n /\ x.to # k.to /\ Reaches(links, x.to, k.to)
    <3>1. k.from = n /\ k.to \in Visited(n)
      BY <2>2, <2>4
    <3> QED BY <3>1 DEF Visited, Next
  <2> QED BY <2>1, <2>2, <2>3, <2>4, ReductionKeeps
<1> QED BY <1>1, <1>2

LEMMA ReduceStep == OptInv /\ transitiveReduction => OptInv'
<1> SUFFICES ASSUME OptInv, transitiveReduction PROVE OptInv'
  OBVIOUS
<1>1. /\ stack # <<>> /\ links' \subseteq links
      /\ UNCHANGED <<prog, built, mapVars, pass, nodeVars, clauseVars>>
      /\ stack' = IF Finished THEN <<Frame(Top.graph, "fuse")>> \o Tail(stack)
                  ELSE [stack EXCEPT ![1].pos = @ + 1]
  BY DEF transitiveReduction
<1>2. /\ pass = "optimize" /\ stack \in Seq(FrameType) /\ Top.graph \in Loop
      /\ Top = stack[1] /\ stack[Len(stack)].graph = 0
  BY <1>1, TopFacts DEF OptInv, PassesInOrder
<1>3. Frame(Top.graph, "fuse") \in FrameType /\ Frame(Top.graph, "fuse").graph = stack[1].graph
  BY <1>2 DEF Frame, FrameType
<1>4. stack' \in Seq(FrameType) /\ stack' # <<>> /\ stack'[Len(stack')].graph = 0
  BY <1>1, <1>2, <1>3, FramesRooted
<1>5. OptTypeOK'
  BY <1>1, <1>4 DEF OptInv, OptTypeOK, BuildTypeOK, mapVars, nodeVars, clauseVars,
                    FrameType, Node, Loop
<1>6. PassesInOrder' /\ ClausesComplete'
  BY <1>1, <1>2, <1>4 DEF OptInv, PassesInOrder, ClausesComplete
<1>7. /\ UNCHANGED <<Node, Loop, Live>> /\ (\A i, n : InGroup(i, n)' <=> InGroup(i, n))
      /\ \A i, j : Conflict(i, j)' <=> Conflict(i, j)
      /\ \A i : (hasNode(i)' <=> hasNode(i)) /\ Deps(i)' = Deps(i)
      /\ \A i : (complexInstruction(i)' <=> complexInstruction(i))
      /\ \A i : Last(i)' = Last(i)
  BY <1>1 DEF Node, Loop, Live, InGroup, Conflict, ReadElements, WriteElements, hasNode,
              Deps, complexInstruction, Last, nodeVars
<1>8. NodesInOrder'
  BY <1>1, <1>7 DEF OptInv, GraphInv, NodesInOrder, nodeVars
<1>9. GroupsInOrder'
  BY <1>1, <1>7 DEF OptInv, GraphInv, GroupsInOrder, nodeVars
<1>10. OneGroup'
  BY <1>1, <1>7 DEF OptInv, GraphInv, OneGroup
<1>11. LinksBetweenGroups'
  BY <1>1, <1>7 DEF OptInv, GraphInv, LinksBetweenGroups, nodeVars
<1>12. PathsKept'
  <2>1. \A i, j : Reaches(links, i, j) => Reaches(links, i, j)'
    <3>1. \A i, j : Reaches(links', i, j) <=> Reaches(links, i, j)'
      BY <1>7 DEF Reaches
    <3> QED BY <3>1, ReducePaths
  <2> QED BY <2>1, <1>1, <1>7 DEF OptInv, GraphInv, PathsKept
<1>13. LabelsShared'
  BY <1>1, <1>7 DEF OptInv, GraphInv, LabelsShared
<1> QED BY <1>5, <1>6, <1>8, <1>9, <1>10, <1>11, <1>12, <1>13 DEF OptInv, GraphInv
-----------------------------------------------------------------------------
(***************************************************************************)
(* Fusion of a node with the next one.                                     *)
(***************************************************************************)

Ascending(s) == \A j, k \in 1..Len(s) : j < k => s[j] < s[k]

Has(s, x) == \E k \in 1..Len(s) : s[k] = x

\* Two ascending sequences, one below the other, make an ascending sequence.
LEMMA AscendingConcat ==
  ASSUME NEW s \in Seq(Node), NEW t \in Seq(Node), s # <<>>, t # <<>>,
         Ascending(s), Ascending(t), s[Len(s)] < t[1]
  PROVE  /\ s \o t \in Seq(Node) /\ s \o t # <<>>
         /\ (s \o t)[1] = s[1] /\ (s \o t)[Len(s \o t)] = t[Len(t)]
         /\ Len(s \o t) = Len(s) + Len(t)
         /\ Ascending(s \o t)
         /\ \A x : Has(s \o t, x) <=> Has(s, x) \/ Has(t, x)
<1> PICK r : r = s \o t
  OBVIOUS
<1> SUFFICES /\ r \in Seq(Node) /\ r # <<>> /\ r[1] = s[1] /\ r[Len(r)] = t[Len(t)]
             /\ Len(r) = Len(s) + Len(t)
             /\ \A j, k \in 1..Len(r) : j < k => r[j] < r[k]
             /\ \A x : (\E k \in 1..Len(r) : r[k] = x)
                  <=> (\E k \in 1..Len(s) : s[k] = x) \/ (\E k \in 1..Len(t) : t[k] = x)
  BY DEF Ascending, Has
<1>a. Node \subseteq Nat
  BY DEF Node
<1>0. /\ \A j, k \in 1..Len(s) : j < k => s[j] < s[k]
      /\ \A j, k \in 1..Len(t) : j < k => t[j] < t[k]
  BY DEF Ascending
<1> USE <1>0, <1>a
<1>1. /\ Len(s) \in Nat /\ Len(t) \in Nat /\ Len(s) # 0 /\ Len(t) # 0
      /\ r \in Seq(Node) /\ Len(r) = Len(s) + Len(t)
      /\ \A k \in 1..Len(r) : r[k] = IF k <= Len(s) THEN s[k] ELSE t[k - Len(s)]
  OBVIOUS
<1>2. /\ \A k \in 1..Len(s) : s[k] \in Node /\ s[k] \in Nat /\ s[k] <= s[Len(s)]
      /\ \A k \in 1..Len(t) : t[k] \in Node /\ t[k] \in Nat /\ t[1] <= t[k]
      /\ s[Len(s)] \in Nat /\ t[1] \in Nat
  BY AscendingEnds
<1>3. r # <<>>
  BY <1>1
<1>4. r[1] = s[1] /\ r[Len(r)] = t[Len(t)]
  BY <1>1
<1>5. ASSUME NEW j \in 1..Len(r), NEW k \in 1..Len(r), j < k PROVE r[j] < r[k]
  <2>1. CASE k <= Len(s)
    <3>1. j \in 1..Len(s) /\ k \in 1..Len(s) /\ r[j] = s[j] /\ r[k] = s[k]
      BY <2>1, <1>1, <1>5
    <3> QED BY <3>1, <1>5
  <2>2. CASE j <= Len(s) /\ ~(k <= Len(s))
    <3>1. j \in 1..Len(s) /\ k - Len(s) \in 1..Len(t) /\ r[j] = s[j] /\ r[k] = t[k - Len(s)]
      BY <2>2, <1>1
    <3>2. s[j] \in Nat /\ s[j] <= s[Len(s)] /\ t[k - Len(s)] \in Nat /\ t[1] <= t[k - Len(s)]
      BY <3>1, <1>2
    <3> QED BY <3>1, <3>2, <1>2
  <2>3. CASE ~(j <= Len(s))
    <3>1. /\ j - Len(s) \in 1..Len(t) /\ k - Len(s) \in 1..Len(t) /\ j - Len(s) < k - Len(s)
          /\ r[j] = t[j - Len(s)] /\ r[k] = t[k - Len(s)]
      BY <2>3, <1>1, <1>5
    <3> QED BY <3>1
  <2> QED BY <2>1, <2>2, <2>3
<1>6. ASSUME NEW x
      PROVE  (\E k \in 1..Len(r) : r[k] = x)
               <=> (\E k \in 1..Len(s) : s[k] = x) \/ (\E k \in 1..Len(t) : t[k] = x)
  <2>1. ASSUME NEW k \in 1..Len(r), r[k] = x
        PROVE  (\E i \in 1..Len(s) : s[i] = x) \/ (\E i \in 1..Len(t) : t[i] = x)
    <3>1. k <= Len(s) => k \in 1..Len(s)
      BY <1>1
    <3>2. ~(k <= Len(s)) => k - Len(s) \in 1..Len(t)
      BY <1>1
    <3> QED BY <3>1, <3>2, <2>1, <1>1
  <2>2. \A k \in 1..Len(s) : k \in 1..Len(r) /\ r[k] = s[k]
    BY <1>1
  <2>3. ASSUME NEW k \in 1..Len(t)
        PROVE  k + Len(s) \in 1..Len(r) /\ r[k + Len(s)] = t[k]
    <3>1. k + Len(s) \in 1..Len(r) /\ ~(k + Len(s) <= Len(s)) /\ (k + Len(s)) - Len(s) = k
      BY <1>1
    <3> QED BY <3>1, <1>1
  <2> QED BY <2>1, <2>2, <2>3
<1> QED BY <1>1, <1>3, <1>4, <1>5, <1>6

\* Erasing an element of an ascending sequence removes it and no other one.
LEMMA EraseAscending ==
  ASSUME NEW s \in Seq(Node), NEW x \in Node, Ascending(s), Has(s, x)
  PROVE  /\ erase(s, x) \in Seq(Node) /\ Ascending(erase(s, x))
         /\ \A y : Has(erase(s, x), y) <=> y # x /\ Has(s, y)
<1>a. Node \subseteq Nat
  BY DEF Node
<1>0. /\ \A j, k \in 1..Len(s) : j < k => s[j] < s[k]
      /\ \E k \in 1..Len(s) : s[k] = x
  BY DEF Ascending, Has
<1> USE <1>0, <1>a
<1> DEFINE p == CHOOSE k \in 1..Len(s) : s[k] = x
           r == erase(s, x)
<1>1. p \in 1..Len(s) /\ s[p] = x
  OBVIOUS
<1>2. r = [k \in 1..Len(s) - 1 |-> IF k < p THEN s[k] ELSE s[k + 1]]
  BY DEF erase
<1> HIDE DEF p, r
<1>3. Len(s) \in Nat /\ Len(s) - 1 \in Nat /\ p \in Nat
  <2>1. Len(s) \in Nat
    OBVIOUS
  <2> QED BY <2>1, <1>1
<1>4. \A k \in 1..Len(s) : s[k] \in Node /\ s[k] \in Nat
  <2>1. \A k \in 1..Len(s) : s[k] \in Node
    OBVIOUS
  <2> QED BY <2>1
<1>5. \A k \in 1..Len(s) - 1 : k \in 1..Len(s) /\ k + 1 \in 1..Len(s) /\ k \in Nat
  BY <1>3
<1>6. /\ r \in Seq(Node) /\ Len(r) = Len(s) - 1
      /\ \A k \in 1..Len(s) - 1 : r[k] = IF k < p THEN s[k] ELSE s[k + 1]
  <2>1. r \in [1..Len(s) - 1 -> Node]
    BY <1>2, <1>4, <1>5
  <2>2. r \in Seq(Node) /\ Len(r) = Len(s) - 1
    BY <2>1, <1>3
  <2> QED BY <2>2, <1>2
<1>7. ASSUME NEW j \in 1..Len(r), NEW k \in 1..Len(r), j < k PROVE r[j] < r[k]
  <2>1. /\ j \in 1..Len(s) /\ j + 1 \in 1..Len(s) /\ k \in 1..Len(s) /\ k + 1 \in 1..Len(s)
        /\ j \in Nat /\ k \in Nat
    BY <1>5, <1>6
  <2>2. CASE k < p
    BY <2>1, <2>2, <1>3, <1>6, <1>7
  <2>3. CASE j < p /\ ~(k < p)
    BY <2>1, <2>3, <1>3, <1>6, <1>7
  <2>4. CASE ~(j < p)
    BY <2>1, <2>4, <1>3, <1>6, <1>7
  <2> QED BY <2>2, <2>3, <2>4, <2>1, <1>3, <1>7
<1>8. ASSUME NEW k \in 1..Len(r) PROVE r[k] # x /\ \E i \in 1..Len(s) : s[i] = r[k]
  <2>1. k \in 1..Len(s) /\ k + 1 \in 1..Len(s) /\ k \in Nat
    BY <1>5, <1>6
  <2>2. CASE k < p
    <3>1. s[k] < s[p]
      BY <2>1, <2>2, <1>1
    <3> QED BY <3>1, <2>1, <2>2, <1>1, <1>4, <1>6
  <2>3. CASE ~(k < p)
    <3>1. p < k + 1
      BY <2>1, <2>3, <1>3
    <3>2. s[p] < s[k + 1]
      BY <3>1, <2>1, <1>1
    <3> QED BY <3>2, <2>1, <2>3, <1>1, <1>4, <1>6
  <2> QED BY <2>2, <2>3
<1>9. ASSUME NEW i \in 1..Len(s), s[i] # x PROVE \E k \in 1..Len(r) : r[k] = s[i]
  <2>1. i # p /\ i \in Nat
    BY <1>1, <1>9
  <2>2. CASE i < p
    <3>1. i \in 1..Len(r)
      BY <2>2, <1>1, <1>3, <1>6
    <3> QED BY <3>1, <2>2, <1>6
  <2>3. CASE p < i
    <3>1. i - 1 \in 1..Len(r) /\ ~(i - 1 < p) /\ (i - 1) + 1 = i
      BY <2>1, <2>3, <1>1, <1>3, <1>6
    <3> QED BY <3>1, <1>6
  <2> QED BY <2>1, <2>2, <2>3, <1>3
<1>10. \A y : (\E k \in 1..Len(r) : r[k] = y) <=> y # x /\ \E k \in 1..Len(s) : s[k] = y
  BY <1>8, <1>9
<1> QED BY <1>6, <1>7, <1>10 DEF r, Ascending, Has

\* Two nodes that can be fused: all of n precedes all of m.
LEMMA FusablePair ==
  ASSUME OptInv, NEW n \in Node, NEW m \in Node, Fusable(n, m)
  PROVE  /\ n \in Live /\ m \in Live /\ n < m /\ n # m
         /\ prog[m].scope = prog[n].scope
         /\ Last(n) < group[m][1]
         /\ \A k \in links : k.from = n => k.to = m
         /\ \A k \in links : k.to = m => k.from = n
<1>1. m \in Next(n)
  BY DEF Fusable
<1>2. PICK k \in links : k.from = n /\ k.to = m
  BY <1>1 DEF Next
<1>3. n < m
  BY <1>2, LinksForward DEF OptInv, Forward
<1>4. n # m
  BY <1>3 DEF Node
<1>5. n \in Live /\ m \in Live /\ Last(n) < group[m][1]
  BY <1>2 DEF OptInv, GraphInv, LinksBetweenGroups
<1>6. \A x \in links : x.from = n => x.to = m
  BY DEF Fusable, Next
<1>7. \A x \in links : x.to = m => x.from = n
  BY DEF Fusable, Prev
<1> QED BY <1>3, <1>4, <1>5, <1>6, <1>7 DEF Fusable

\* The nodes after n has absorbed m.
LEMMA FusedGroups ==
  ASSUME OptInv, NEW n \in Node, NEW m \in Node, Fusable(n, m), fuseNodes(n, m), prog' = prog
  PROVE  /\ group' \in [Node -> Seq(Node)]
         /\ group'[n][1] = n /\ Last(n)' = Last(m)
         /\ Len(group'[n]) = Len(group[n]) + Len(group[m])
         /\ Ascending(group'[n])
         /\ \A i : Has(group'[n], i) <=> Has(group[n], i) \/ Has(group[m], i)
         /\ \A x \in Node : x \notin {n, m} => group'[x] = group[x]
         /\ Live' = Live \ {m}
<1>1. /\ n \in Live /\ m \in Live /\ n # m /\ Last(n) < group[m][1]
      /\ Node \subseteq Nat
  BY FusablePair DEF Node
<1>2. /\ group \in [Node -> Seq(Node)] /\ group[n] # <<>> /\ group[m] # <<>>
      /\ group' = [group EXCEPT ![n] = @ \o group[m], ![m] = <<>>]
  BY <1>1 DEF OptInv, OptTypeOK, Live, fuseNodes
<1>3. /\ group[n] \in Seq(Node) /\ group[m] \in Seq(Node) /\ group[n][1] = n
      /\ Ascending(group[n]) /\ Ascending(group[m])
  BY <1>1, <1>2 DEF OptInv, GraphInv, GroupsInOrder, Ascending
<1> DEFINE r == group[n] \o group[m]
<1>4. /\ r \in Seq(Node) /\ r # <<>> /\ r[1] = group[n][1] /\ r[Len(r)] = Last(m)
      /\ Len(r) = Len(group[n]) + Len(group[m])
      /\ Ascending(r)
      /\ \A x : Has(r, x) <=> Has(group[n], x) \/ Has(group[m], x)
  <2>1. /\ group[n] \in Seq(Node) /\ group[m] \in Seq(Node) /\ Node \subseteq Nat
        /\ group[n] # <<>> /\ group[m] # <<>> /\ Ascending(group[n]) /\ Ascending(group[m])
        /\ group[n][Len(group[n])] < group[m][1]
    BY <1>1, <1>2, <1>3 DEF Last
  <2> QED BY ONLY <2>1, AscendingConcat DEF Last
<1> HIDE DEF r
<1>5. group' = [group EXCEPT ![n] = r, ![m] = <<>>]
  BY <1>2 DEF r
<1>6. /\ group'[n] = r /\ group'[m] = <<>>
      /\ \A x \in Node : x \notin {n, m} => group'[x] = group[x]
      /\ group' \in [Node -> Seq(Node)]
  <2>1. <<>> \in Seq(Node)
    OBVIOUS
  <2> QED BY <2>1, <1>1, <1>2, <1>4, <1>5
<1>7. Last(n)' = Last(m)
  BY <1>4, <1>6 DEF Last
<1>8. \A i : Has(group'[n], i) <=> Has(group[n], i) \/ Has(group[m], i)
  BY <1>4, <1>6
<1>9. Live' = Live \ {m}
  <2>1. Node' = Node
    BY DEF Node
  <2>2. \A x \in Node : group'[x] # <<>> <=> group[x] # <<>> /\ x # m
    BY <1>2, <1>4, <1>6
  <2> QED BY <2>1, <2>2 DEF Live
<1> QED BY <1>3, <1>4, <1>6, <1>7, <1>8, <1>9

\* The links after n has absorbed m.
LEMMA FusedLinks ==
  ASSUME OptInv, NEW n \in Node, NEW m \in Node, Fusable(n, m), fuseNodes(n, m)
  PROVE  /\ links' \subseteq [from : Node, to : Node, alias : Alias]
         /\ \A k \in links' :
              \/ k \in links /\ k.from \notin {n, m} /\ k.to # m
              \/ /\ k.from = n /\ k.to \notin {n, m}
                 /\ \E x \in links : x.from = m /\ x.to = k.to /\ x.alias = k.alias
         /\ \A k \in links : k.from \notin {n, m} => k \in links'
         /\ \A k \in links : k.from = m => \E x \in links' : x.from = n /\ x.to = k.to
<1>1. /\ n < m
      /\ \A k \in links : k.from = n => k.to = m
      /\ \A k \in links : k.to = m => k.from = n
  BY FusablePair
<1>2. links' = {k \in links : k.from \notin {n, m}}
                 \cup {[k EXCEPT !.from = n] : k \in {x \in links : x.from = m}}
  BY DEF fuseNodes
<1>3. links \subseteq [from : Node, to : Node, alias : Alias] /\ Forward(links)
  BY LinksForward DEF OptInv, OptTypeOK, BuildTypeOK
<1>4. \A k \in links :
        LET r == [k EXCEPT !.from = n]
        IN  r.from = n /\ r.to = k.to /\ r.alias = k.alias /\ r \in [from : Node, to : Node, alias : Alias]
  BY <1>3
<1> DEFINE moved(k) == [k EXCEPT !.from = n]
<1>5. \A k \in links :
        /\ moved(k).from = n /\ moved(k).to = k.to /\ moved(k).alias = k.alias
        /\ moved(k) \in [from : Node, to : Node, alias : Alias]
  BY <1>4
<1>6. links' = {k \in links : k.from \notin {n, m}} \cup {moved(k) : k \in {x \in links : x.from = m}}
  BY <1>2
<1> HIDE DEF moved
<1>7. links' \subseteq [from : Node, to : Node, alias : Alias]
  BY <1>3, <1>5, <1>6
<1>8. ASSUME NEW k \in links'
      PROVE  \/ k \in links /\ k.from \notin {n, m} /\ k.to # m
             \/ /\ k.from = n /\ k.to \notin {n, m}
                /\ \E x \in links : x.from = m /\ x.to = k.to /\ x.alias = k.alias
  <2>1. CASE k \in links /\ k.from \notin {n, m}
    BY <2>1, <1>1
  <2>2. ASSUME NEW x \in links, x.from = m, k = moved(x)
        PROVE  k.from = n /\ k.to \notin {n, m} /\ x.to = k.to /\ x.alias = k.alias
    <3>1. x.to \in Node /\ m < x.to
      BY <2>2, <1>3 DEF Forward
    <3>2. x.to \notin {n, m}
      BY <3>1, <1>1 DEF Node
    <3> QED BY <3>2, <2>2, <1>5
  <2> QED BY <2>1, <2>2, <1>6
<1>9. \A k \in links : k.from = m => \E x \in links' : x.from = n /\ x.to = k.to
  BY <1>5, <1>6
<1>10. \A k \in links : k.from \notin {n, m} => k \in links'
  BY <1>6
<1> QED BY <1>7, <1>8, <1>9, <1>10

LEMMA FuseStepStep == OptInv /\ FuseStep => OptInv'
<1> SUFFICES ASSUME OptInv, FuseStep PROVE OptInv'
  OBVIOUS
<1>0. /\ stack # <<>> /\ ~Finished /\ Current \in Node /\ Top.graph \in Loop
  BY TopFacts DEF FuseStep
<1> PICK n \in Node : n = Current
  BY <1>0
<1> PICK g \in Loop : g = Top.graph
  BY <1>0
<1>1. /\ stack # <<>> /\ ~Finished /\ ~complexInstruction(n)
      /\ UNCHANGED <<prog, built, dataUsedInRead, dataUsedInWrite, pass, stack, inOutDep, inDep>>
  BY DEF FuseStep, mapVars, clauseVars
<1>2. PICK m \in Node : Fusable(n, m) /\ fuseNodes(n, m)
  BY DEF FuseStep
<1>3. /\ pass = "optimize" /\ built = Len(prog) /\ n \in Node /\ n \in Live
      /\ g \in Loop /\ prog[n].scope = g /\ BuildTypeOK /\ Node \subseteq Nat
      /\ Node' = Node /\ Loop' = Loop
  BY <1>1, TopFacts DEF OptInv, OptTypeOK, Node, Loop
<1>4. nodes' = [nodes EXCEPT ![g] = erase(@, m)]
  BY <1>2 DEF fuseNodes
<1>5. /\ n \in Live /\ m \in Live /\ n < m /\ n # m /\ prog[m].scope = g
      /\ \A k \in links : k.from = n => k.to = m
      /\ \A k \in links : k.to = m => k.from = n
  BY <1>2, <1>3, FusablePair
<1>6. /\ group' \in [Node -> Seq(Node)]
      /\ group'[n][1] = n /\ Last(n)' = Last(m)
      /\ Len(group'[n]) = Len(group[n]) + Len(group[m])
      /\ Ascending(group'[n])
      /\ \A i : Has(group'[n], i) <=> Has(group[n], i) \/ Has(group[m], i)
      /\ \A x \in Node : x \notin {n, m} => group'[x] = group[x]
      /\ Live' = Live \ {m}
  BY <1>1, <1>2, <1>3, FusedGroups
<1>7. /\ links' \subseteq [from : Node, to : Node, alias : Alias]
      /\ \A k \in links' :
           \/ k \in links /\ k.from \notin {n, m} /\ k.to # m
           \/ /\ k.from = n /\ k.to \notin {n, m}
              /\ \E x \in links : x.from = m /\ x.to = k.to /\ x.alias = k.alias
      /\ \A k \in links : k.from \notin {n, m} => k \in links'
      /\ \A k \in links : k.from = m => \E x \in links' : x.from = n /\ x.to = k.to
  BY <1>2, <1>3, FusedLinks
<1>8. /\ depRead' \in [Node -> SUBSET Alias] /\ depWrite' \in [Node -> SUBSET Alias]
      /\ depRead'[n] = depRead[n] \cup depRead[m] /\ depWrite'[n] = depWrite[n] \cup depWrite[m]
      /\ \A x \in Node : x # n => depRead'[x] = depRead[x] /\ depWrite'[x] = depWrite[x]
  <2>1. /\ depRead \in [Node -> SUBSET Alias] /\ depWrite \in [Node -> SUBSET Alias]
        /\ depRead' = [depRead EXCEPT ![n] = @ \cup depRead[m]]
        /\ depWrite' = [depWrite EXCEPT ![n] = @ \cup depWrite[m]]
    BY <1>2 DEF OptInv, OptTypeOK, fuseNodes
  <2> QED BY <2>1, <1>3
<1>9. \A x \in Live' : \A i : Has(group'[x], i) =>
        \E y \in Live : Has(group[y], i) /\ x = IF y = m THEN n ELSE y
  <2>1. \A x \in Live' : x # n => x \in Live /\ x # m /\ group'[x] = group[x]
    BY <1>6 DEF Live
  <2> QED BY <2>1, <1>5, <1>6
<1>10. nodes' \in [Loop -> Seq(Node)] /\ NodesInOrder'
  <2>1. nodes \in [Loop -> Seq(Node)] /\ NodesInOrder
    BY DEF OptInv, OptTypeOK, GraphInv
  <2>2. nodes[g] \in Seq(Node) /\ Has(nodes[g], m) /\ Ascending(nodes[g])
    BY <2>1, <1>3, <1>5 DEF NodesInOrder, Ascending, Has
  <2>3. /\ erase(nodes[g], m) \in Seq(Node) /\ Ascending(erase(nodes[g], m))
        /\ \A y : Has(erase(nodes[g], m), y) <=> y # m /\ Has(nodes[g], y)
    BY <2>2, EraseAscending
  <2>4. /\ nodes' \in [Loop -> Seq(Node)] /\ nodes'[g] = erase(nodes[g], m)
        /\ \A h \in Loop : h # g => nodes'[h] = nodes[h]
    BY <2>1, <2>3, <1>3, <1>4
  <2>5. ASSUME NEW h \in Loop
        PROVE  /\ Ascending(nodes'[h])
               /\ \A i \in Node : i \in Live' /\ prog[i].scope = h <=> Has(nodes'[h], i)
    <3>1. /\ \A i \in Node : i \in Live /\ prog[i].scope = h <=> Has(nodes[h], i)
          /\ Ascending(nodes[h])
      BY <2>1 DEF NodesInOrder, Ascending, Has
    <3>2. CASE h = g
      BY <3>1, <3>2, <2>3, <2>4, <1>6
    <3>3. CASE h # g
      BY <3>1, <3>3, <2>4, <1>5, <1>6
    <3> QED BY <3>2, <3>3
  <2>6. NodesInOrder'
    BY <2>5, <1>1, <1>3 DEF NodesInOrder, Ascending, Has
  <2> QED BY <2>4, <2>6
<1>11. GroupsInOrder'
  <2>1. ASSUME NEW x \in Live
        PROVE  /\ group[x][1] = x
               /\ \A j, k \in 1..Len(group[x]) : j < k => group[x][j] < group[x][k]
               /\ \A k \in 1..Len(group[x]) :
                    /\ group[x][k] <= built
                    /\ hasNode(group[x][k])
                    /\ prog[group[x][k]].scope = prog[x].scope
                    /\ complexInstruction(group[x][k]) => Len(group[x]) = 1
    BY DEF OptInv, GraphInv, GroupsInOrder
  <2>2. ASSUME NEW i, Has(group'[n], i)
        PROVE  /\ i <= built /\ hasNode(i) /\ prog[i].scope = prog[n].scope
               /\ ~complexInstruction(i)
    <3>1. \A x \in {n, m} : Has(group[x], i) =>
            /\ i <= built /\ hasNode(i) /\ prog[i].scope = prog[n].scope
            /\ complexInstruction(i) => Len(group[x]) = 1
      BY <2>1, <1>3, <1>5 DEF Has
    <3>2. ASSUME NEW x \in {n, m}, Has(group[x], i), Len(group[x]) = 1 PROVE i = x
      <4>1. \A k \in 1..1 : k = 1
        OBVIOUS
      <4>2. group[x][1] = x
        BY <2>1, <1>5
      <4> QED BY <4>1, <4>2, <3>2 DEF Has
    <3>3. ~complexInstruction(n) /\ ~complexInstruction(m)
      BY <1>1, <1>2 DEF Fusable
    <3> QED BY <3>1, <3>2, <3>3, <2>2, <1>6
  <2>3. ASSUME NEW x \in Live'
        PROVE  /\ group'[x][1] = x /\ Ascending(group'[x])
               /\ \A k \in 1..Len(group'[x]) :
                    /\ group'[x][k] <= built
                    /\ hasNode(group'[x][k])
                    /\ prog[group'[x][k]].scope = prog[x].scope
                    /\ complexInstruction(group'[x][k]) => Len(group'[x]) = 1
    <3>1. CASE x = n
      <4>1. \A k \in 1..Len(group'[n]) : Has(group'[n], group'[n][k])
        BY DEF Has
      <4> QED BY <4>1, <2>2, <3>1, <1>6
    <3>2. CASE x # n
      <4>1. x \in Live /\ group'[x] = group[x]
        BY <3>2, <1>6 DEF Live
      <4> QED BY <4>1, <2>1 DEF Ascending
    <3> QED BY <3>1, <3>2
  <2> QED BY <2>3, <1>1 DEF GroupsInOrder, Ascending, hasNode, complexInstruction
<1>12. OneGroup'
  <2>1. /\ \A i \in 1..built : hasNode(i) => \E x \in Live : Has(group[x], i)
        /\ \A i \in Node : \A x, y \in Live : Has(group[x], i) /\ Has(group[y], i) => x = y
    BY DEF OptInv, GraphInv, OneGroup, InGroup, Has
  <2>2. ASSUME NEW i \in 1..built, hasNode(i) PROVE \E x \in Live' : Has(group'[x], i)
    <3>1. PICK x \in Live : Has(group[x], i)
      BY <2>1, <2>2
    <3>2. CASE x \in {n, m}
      BY <3>1, <3>2, <1>5, <1>6
    <3>3. CASE x \notin {n, m}
      BY <3>1, <3>3, <1>6 DEF Live
    <3> QED BY <3>2, <3>3
  <2>3. ASSUME NEW i \in Node, NEW x \in Live', NEW y \in Live',
               Has(group'[x], i), Has(group'[y], i)
        PROVE  x = y
    <3>1. PICK x0 \in Live : Has(group[x0], i) /\ x = IF x0 = m THEN n ELSE x0
      BY <2>3, <1>9
    <3>2. PICK y0 \in Live : Has(group[y0], i) /\ y = IF y0 = m THEN n ELSE y0
      BY <2>3, <1>9
    <3> QED BY <3>1, <3>2, <2>1
  <2> QED BY <2>2, <2>3, <1>1, <1>3 DEF OneGroup, InGroup, Has, hasNode
<1>13. LinksBetweenGroups'
  <2> SUFFICES ASSUME NEW k \in links'
               PROVE  {k.from, k.to} \subseteq Live' /\ Last(k.from)' < group'[k.to][1]
    BY DEF LinksBetweenGroups
  <2>0. \A x \in links : {x.from, x.to} \subseteq Live /\ Last(x.from) < group[x.to][1]
    BY DEF OptInv, GraphInv, LinksBetweenGroups
  <2>1. \A x \in Live : x # m => group'[x][1] = group[x][1]
    <3>1. group[n][1] = n
      BY <1>5 DEF OptInv, GraphInv, GroupsInOrder
    <3> QED BY <3>1, <1>6 DEF Live
  <2>2. CASE k \in links /\ k.from \notin {n, m} /\ k.to # m
    <3>1. Last(k.from)' = Last(k.from)
      BY <2>2, <2>0, <1>6 DEF Last, Live
    <3> QED BY <3>1, <2>0, <2>1, <2>2, <1>6
  <2>3. CASE k.from = n /\ k.to \notin {n, m}
              /\ \E x \in links : x.from = m /\ x.to = k.to /\ x.alias = k.alias
    <3>1. PICK x \in links : x.from = m /\ x.to = k.to
      BY <2>3
    <3>2. Last(m) < group[k.to][1] /\ k.to \in Live
      BY <3>1, <2>0
    <3>3. Last(k.from)' = Last(m)
      BY <2>3, <1>6
    <3> QED BY <3>2, <3>3, <2>1, <2>3, <1>5, <1>6
  <2> QED BY <2>2, <2>3, <1>7
<1>14. PathsKept'
  <2>1. Forward(links)
    BY LinksForward DEF OptInv
  <2>2. Fuses(links, links', n, m)
    BY <1>5, <1>7 DEF Fuses
  <2>3. ASSUME NEW x \in Node, NEW y \in Node, Reaches(links, x, y)
        PROVE  Reaches(links', IF x = m THEN n ELSE x, IF y = m THEN n ELSE y)
    BY <2>1, <2>2, <2>3, FusionKeeps
  <2>4. ASSUME NEW i \in 1..built, NEW j \in 1..built, i < j, Conflict(i, j),
               NEW x \in Live', NEW y \in Live', Has(group'[x], i), Has(group'[y], j)
        PROVE  x = y \/ Reaches(links', x, y)
    <3>1. PICK x0 \in Live : Has(group[x0], i) /\ x = IF x0 = m THEN n ELSE x0
      BY <2>4, <1>9
    <3>2. PICK y0 \in Live : Has(group[y0], j) /\ y = IF y0 = m THEN n ELSE y0
      BY <2>4, <1>9
    <3>3. x0 = y0 \/ Reaches(links, x0, y0)
      BY <2>4, <3>1, <3>2 DEF OptInv, GraphInv, PathsKept, InGroup, Has
    <3>4. x0 \in Node /\ y0 \in Node
      BY DEF Live
    <3> QED BY <2>3, <3>1, <3>2, <3>3, <3>4
  <2>5. \A i, j : Reaches(links', i, j) <=> Reaches(links, i, j)'
    BY <1>3 DEF Reaches
  <2>6. \A i, j : Conflict(i, j)' <=> Conflict(i, j)
    BY <1>1 DEF Conflict, ReadElements, WriteElements
  <2> QED BY <2>4, <2>5, <2>6, <1>1 DEF PathsKept, InGroup, Has
<1>15. LabelsShared'
  <2> PICK D : D = [x \in Node |-> depRead[x] \cup depWrite[x]]
    OBVIOUS
  <2> PICK E : E = [x \in Node |-> depRead'[x] \cup depWrite'[x]]
    OBVIOUS
  <2>0. \A x \in links :
          /\ x.from \in Node /\ x.to \in Node
          /\ \E a \in D[x.to] :
               /\ x.alias = a \/ x.alias \in getArrayElementChildren(a)
               /\ \E b \in D[x.from] : MayOverlap(b, a)
    BY DEF OptInv, OptTypeOK, BuildTypeOK, GraphInv, LabelsShared, Deps
  <2>1. D[m] \subseteq E[n] /\ \A x \in Node : D[x] \subseteq E[x]
    BY <1>8
  <2>2. ASSUME NEW k \in links'
        PROVE  \E a \in E[k.to] :
                 /\ k.alias = a \/ k.alias \in getArrayElementChildren(a)
                 /\ \E b \in E[k.from] : MayOverlap(b, a)
    <3>1. PICK x \in links :
            /\ x.to = k.to /\ x.alias = k.alias
            /\ x.from = k.from \/ (x.from = m /\ k.from = n)
      BY <1>7
    <3>2. D[x.to] \subseteq E[k.to] /\ D[x.from] \subseteq E[k.from]
      BY <2>0, <2>1, <3>1
    <3>3. PICK a \in D[x.to] :
            /\ x.alias = a \/ x.alias \in getArrayElementChildren(a)
            /\ \E b \in D[x.from] : MayOverlap(b, a)
      BY <2>0
    <3> QED BY <3>1, <3>2, <3>3
  <2>3. \A k \in links' : k.from \in Node /\ k.to \in Node
    BY <1>7
  <2> QED BY <2>2, <2>3 DEF LabelsShared, Deps
<1>16. OptTypeOK'
  BY <1>1, <1>3, <1>6, <1>7, <1>8, <1>10 DEF OptInv, OptTypeOK, BuildTypeOK
<1>17. PassesInOrder' /\ ClausesComplete'
  BY <1>1, <1>3 DEF OptInv, PassesInOrder, ClausesComplete
<1> QED
  BY <1>10, <1>11, <1>12, <1>13, <1>14, <1>15, <1>16, <1>17 DEF OptInv, GraphInv
-----------------------------------------------------------------------------
(***************************************************************************)
(* The theorems about the optimisation.                                    *)
(***************************************************************************)

LEMMA OptStutter == OptInv /\ UNCHANGED optVars => OptInv'
<1> SUFFICES ASSUME OptInv, UNCHANGED optVars PROVE OptInv'
  OBVIOUS
<1>1. UNCHANGED <<buildVars, nodeVars, pass, stack, clauseVars>>
  BY DEF optVars
<1>2. GraphInv'
  BY <1>1, GraphUnchanged DEF OptInv
<1>3. UNCHANGED <<prog, built, links, dataUsedInRead, dataUsedInWrite, nodes, group,
                  depRead, depWrite, pass, stack, inOutDep, inDep>>
  BY <1>1 DEF buildVars, nodeVars, clauseVars
<1>4. OptTypeOK'
  BY <1>3 DEF OptInv, OptTypeOK, BuildTypeOK, Node, Loop
<1>5. BuildInv => BuildInv'
  BY <1>1, BuildStutter
<1>6. PassesInOrder'
  BY <1>3, <1>5 DEF OptInv, PassesInOrder, AsBuilt, Node, Live, hasNode
<1>7. ClausesComplete'
  BY <1>3 DEF OptInv, ClausesComplete, computeInOutDep, computeInDep, Live, Node, Deps, Prev,
              InPrev, isLooped
<1> QED BY <1>2, <1>4, <1>6, <1>7 DEF OptInv

LEMMA OptInvStep == OptInv /\ [OptNext]_optVars => OptInv'
BY GenerateStep, OptimizeStep, ReduceStep, FuseStepStep, FuseNextStep, ComputeStep, OptStutter
   DEF OptNext

\* OptInv holds in every reachable state of the optimisation.
THEOREM OptInvariance == OptSpec => []OptInv
BY OptInvInit, OptInvStep, PTL DEF OptSpec

\* The optimisation keeps its types.
THEOREM OptTypeCorrect == OptSpec => []OptTypeOK
<1>1. OptInv => OptTypeOK
  BY DEF OptInv
<1> QED BY <1>1, OptInvariance, PTL

\* nodesFusion only fuses neighbours that all precede what they are linked to.
THEOREM OptLinksBetweenGroups == OptSpec => []LinksBetweenGroups
<1>1. OptInv => LinksBetweenGroups
  BY DEF OptInv, GraphInv
<1> QED BY <1>1, OptInvariance, PTL

\* What OptInv says of the nodes is GroupsPartition.
LEMMA PartitionFromInv == OptInv => GroupsPartition
<1> SUFFICES ASSUME OptInv PROVE GroupsPartition
  OBVIOUS
<1>1. \A i \in 1..built : i \in Node
  BY DEF OptInv, OptTypeOK, BuildTypeOK, Node
<1>2. \A i \in 1..built : hasNode(i) => \E n \in Live :
        InGroup(i, n) /\ \A m \in Live : InGroup(i, m) => m = n
  BY <1>1 DEF OptInv, GraphInv, OneGroup
<1>3. ASSUME NEW n \in Live
      PROVE  /\ \A k \in 1..Len(group[n]) - 1 : group[n][k] < group[n][k + 1]
             /\ \A k \in 1..Len(group[n]) : prog[group[n][k]].scope = prog[n].scope
  <2>1. Len(group[n]) \in Nat
    BY DEF Live, OptInv, OptTypeOK
  <2>2. \A k \in 1..Len(group[n]) - 1 : k \in 1..Len(group[n]) /\ k + 1 \in 1..Len(group[n]) /\ k < k + 1
    BY <2>1
  <2> QED BY <2>2 DEF OptInv, GraphInv, GroupsInOrder
<1>4. ASSUME NEW n \in Live
      PROVE  Cardinality({k \in DOMAIN nodes[prog[n].scope] : nodes[prog[n].scope][k] = n}) = 1
  <2>1. n \in Node /\ n \in Nat /\ prog[n].scope \in Loop
    BY ProgFacts DEF Live, Node, OptInv, OptTypeOK
  <2> PICK s : s = nodes[prog[n].scope]
    OBVIOUS
  <2>2. s \in Seq(Node) /\ DOMAIN s = 1..Len(s) /\ Len(s) \in Nat
    BY <2>1 DEF OptInv, OptTypeOK
  <2>3. /\ \A j, k \in 1..Len(s) : j < k => s[j] < s[k]
        /\ \E k \in 1..Len(s) : s[k] = n
    BY <2>1 DEF OptInv, GraphInv, NodesInOrder
  <2>4. PICK p \in 1..Len(s) : s[p] = n
    BY <2>3
  <2>5. ASSUME NEW k \in 1..Len(s), s[k] = n PROVE k = p
    <3>1. ~(k < p) /\ ~(p < k)
      BY <2>1, <2>3, <2>4, <2>5
    <3> QED BY <3>1, <2>2
  <2>6. {k \in DOMAIN s : s[k] = n} = {p}
    BY <2>2, <2>4, <2>5
  <2> QED BY <2>6, FS_Singleton
<1> QED BY <1>2, <1>3, <1>4 DEF GroupsPartition

\* Fusion neither loses nor duplicates a statement.
THEOREM OptGroupsPartition == OptSpec => []GroupsPartition
BY PartitionFromInv, OptInvariance, PTL

\* Neither the reduction nor the fusion loses an ordering of the graph.
THEOREM OptOrderKept == OptSpec => []OrderKept
<1>1. OptInv => OrderKept
  <2> SUFFICES ASSUME OptInv, pass # "build", NEW i \in Node, NEW j \in Node, i < j, Conflict(i, j)
               PROVE  GroupOf(i) = GroupOf(j) \/ Reaches(links, GroupOf(i), GroupOf(j))
    BY DEF OrderKept
  <2>1. i \in 1..built /\ j \in 1..built
    BY DEF OptInv, PassesInOrder, Node
  <2>2. hasNode(i) /\ hasNode(j)
    BY ConflictHasNode DEF OptInv, OptTypeOK
  <2>3. /\ GroupOf(i) \in Live /\ InGroup(i, GroupOf(i))
        /\ GroupOf(j) \in Live /\ InGroup(j, GroupOf(j))
    BY <2>1, <2>2 DEF OptInv, GraphInv, OneGroup, GroupOf
  <2> QED BY <2>1, <2>3 DEF OptInv, GraphInv, PathsKept
<1> QED BY <1>1, OptInvariance, PTL

\* The depend clauses of the second node of a link hold the access it was made
\* for, and what the first node writes over the link is inout.
LEMMA LinkClauses ==
  ASSUME OptInv, pass = "optimized", NEW k \in links
  PROVE  /\ k.from \in Live /\ k.alias \in Alias
         /\ \E a \in Alias :
              /\ k.alias = a \/ k.alias \in getArrayElementChildren(a)
              /\ a \in inOutDep[k.to] \cup inDep[k.to]
         /\ \A b \in depWrite[k.from] : MayOverlap(b, k.alias) => b \in inOutDep[k.from]
<1>1. /\ k.from \in Live /\ k.to \in Live /\ k.from \in Node /\ k.to \in Node /\ k.alias \in Alias
  BY DEF OptInv, OptTypeOK, BuildTypeOK, GraphInv, LinksBetweenGroups
<1>2. \A n \in Node : Deps(n) \subseteq Alias /\ depWrite[n] \subseteq Alias
  BY DEF OptInv, OptTypeOK, Deps
<1>3. PICK a \in Deps(k.to) : /\ k.alias = a \/ k.alias \in getArrayElementChildren(a)
                              /\ \E b \in Deps(k.from) : MayOverlap(b, a)
  BY DEF OptInv, GraphInv, LabelsShared
<1>4. k.from \in Prev(k.to)
  BY DEF Prev
<1>5. a \in Alias /\ a \in computeInDep(k.to)
  BY <1>1, <1>2, <1>3, <1>4, OverlapMatches DEF computeInDep, InPrev
<1>6. /\ computeInDep(k.to) \subseteq inOutDep[k.to] \cup inDep[k.to]
      /\ computeInOutDep(k.from) \subseteq inOutDep[k.from]
  BY <1>1 DEF OptInv, ClausesComplete
<1>7. ASSUME NEW b \in depWrite[k.from], MayOverlap(b, k.alias) PROVE b \in inOutDep[k.from]
  <2>1. b \in Alias
    BY <1>1, <1>2
  <2>2. SameOrMatching(k.alias, b)
    BY <2>1, <1>1, <1>7, OverlapMatches
  <2>3. b \in computeInOutDep(k.from)
    BY <2>2 DEF computeInOutDep
  <2> QED BY <2>3, <1>6
<1> QED BY <1>1, <1>3, <1>5, <1>6, <1>7

\* A link for what its first node writes is an order between the two tasks.
THEOREM OptWrittenLinksCovered == OptSpec => []WrittenLinksCovered
<1>1. OptInv => WrittenLinksCovered
  <2> SUFFICES ASSUME OptInv, pass = "optimized", NEW k \in links,
                      NEW b \in depWrite[k.from], MayOverlap(b, k.alias)
               PROVE  ClausesOrder(k.from, k.to)
    BY DEF WrittenLinksCovered
  <2>1. k.alias \in Alias /\ b \in inOutDep[k.from] /\ k.from \in Live
    BY LinkClauses
  <2>2. PICK a \in Alias : /\ k.alias = a \/ k.alias \in getArrayElementChildren(a)
                           /\ a \in inOutDep[k.to] \cup inDep[k.to]
    BY LinkClauses
  <2>3. b \in Alias
    BY <2>1 DEF OptInv, OptTypeOK, Live
  <2>4. MayOverlap(b, a)
    BY <2>1, <2>2, <2>3, OverlapParent
  <2> QED BY <2>1, <2>2, <2>4 DEF ClausesOrder
<1> QED BY <1>1, OptInvariance, PTL

\* The clauses alone order what a loop body writes.
THEOREM OptLoopWritesCovered == OptSpec => []LoopWritesCovered
<1>1. OptInv => LoopWritesCovered
  <2> SUFFICES ASSUME OptInv, pass = "optimized", NEW n \in Live, prog[n].loop # 0,
                      NEW d \in depWrite[n]
               PROVE  /\ \A m \in Live : prog[m].loop = prog[n].loop =>
                           \A e \in depWrite[m] : MayOverlap(d, e) => ClausesOrder(n, m)
                      /\ \A k \in links : k.from = prog[n].loop /\ MayOverlap(d, k.alias)
                                            => ClausesOrder(n, k.to)
    BY DEF LoopWritesCovered
  <2>1. ASSUME NEW m \in Live, prog[m].loop # 0, NEW e \in depWrite[m]
        PROVE  e \in inOutDep[m]
    <3>1. e \in computeInOutDep(m)
      BY <2>1 DEF computeInOutDep, isLooped
    <3> QED BY <3>1 DEF OptInv, ClausesComplete
  <2>2. d \in inOutDep[n] /\ d \in Alias
    BY <2>1 DEF OptInv, OptTypeOK, Live
  <2>3. ASSUME NEW m \in Live, prog[m].loop = prog[n].loop, NEW e \in depWrite[m], MayOverlap(d, e)
        PROVE  ClausesOrder(n, m)
    BY <2>1, <2>2, <2>3 DEF ClausesOrder
  <2>4. ASSUME NEW k \in links, MayOverlap(d, k.alias) PROVE ClausesOrder(n, k.to)
    <3>1. k.alias \in Alias
      BY LinkClauses
    <3>2. PICK a \in Alias : /\ k.alias = a \/ k.alias \in getArrayElementChildren(a)
                             /\ a \in inOutDep[k.to] \cup inDep[k.to]
      BY LinkClauses
    <3>3. MayOverlap(d, a)
      BY <2>2, <2>4, <3>1, <3>2, OverlapParent
    <3> QED BY <2>2, <3>2, <3>3 DEF ClausesOrder
  <2> QED BY <2>3, <2>4
<1> QED BY <1>1, OptInvariance, PTL

\* transitiveReduction removes implied links only.
THEOREM OptReductionKeepsPaths == OptSpec => ReductionKeepsPaths
<1>1. OptInv /\ [OptNext]_optVars =>
        [pass = "optimize" /\ group' = group =>
           \A i, j \in Node : Reaches(links, i, j) <=> Reaches(links', i, j)]_optVars
  <2> SUFFICES ASSUME OptInv, OptNext, pass = "optimize", group' = group,
                      NEW i \in Node, NEW j \in Node
               PROVE  Reaches(links, i, j) <=> Reaches(links', i, j)
    OBVIOUS
  <2>1. CASE generateGraph \/ optimizeGraph
    BY <2>1 DEF generateGraph, optimizeGraph
  <2>2. CASE transitiveReduction
    BY <2>2, ReducePaths
  <2>3. CASE FuseStep
    <3>1. PICK m \in Node : Fusable(Current, m) /\ fuseNodes(Current, m)
      BY <2>3 DEF FuseStep
    <3>2. Current \in Node
      BY <2>3, TopFacts DEF FuseStep
    <3>3. prog' = prog
      BY <2>3 DEF FuseStep
    <3>4. m \in Live /\ Live' = Live \ {m}
      BY <3>1, <3>2, <3>3, FusablePair, FusedGroups
    <3>5. Live' = Live
      BY <3>3 DEF Live, Node
    <3> QED BY <3>4, <3>5
  <2>4. CASE FuseNext \/ nodesComputeInOut
    BY <2>4 DEF FuseNext, nodesComputeInOut, buildVars
  <2> QED BY <2>1, <2>2, <2>3, <2>4 DEF OptNext
<1> QED BY <1>1, OptInvInit, OptInvStep, PTL DEF OptSpec, ReductionKeepsPaths
=============================================================================
