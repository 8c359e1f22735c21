---------------------------- MODULE OutputProofs ----------------------------
(***************************************************************************)
(* Proofs about the output, for every alias table and every instruction    *)
(* list.  The order manager: OrderInv is inductive, and implies that the   *)
(* written groups are the fused nodes, that conflicting statements are     *)
(* written in program order, and which functions the assertions stop on.   *)
(* The run of the written program: RunInv is inductive, so nothing is left *)
(* out at the end of the taskgroup; and when the clauses cover every       *)
(* conflict the run implements OrderedStatements, so it has no data race.  *)
(***************************************************************************)
EXTENDS OmpTasks, GraphProofs

(***************************************************************************)
(* How statements are nested.                                              *)
(***************************************************************************)

\* The graphs around a statement, from the one right around it.
LEMMA AroundNode ==
  ASSUME BuildTypeOK, NEW n \in Node
  PROVE  /\ Around[n] = {prog[n].scope} \cup Around[prog[n].scope]
         /\ prog[n].scope \in Node \/ (prog[n].scope = 0 /\ Around[prog[n].scope] = {})
         /\ n \in Nat /\ prog[n].scope \in Nat /\ prog[n].scope < n
<1>1. /\ n \in Loop /\ n # 0 /\ prog[n].scope \in Loop /\ prog[n].scope < n
      /\ n \in Nat /\ prog[n].scope \in Nat /\ Len(prog) \in Nat
  BY ProgFacts
<1>2. 0 \in Loop
  BY <1>1 DEF Loop
<1>3. prog[n].scope # 0 => prog[n].scope \in Node
  BY <1>1 DEF Node, Loop
<1> QED BY <1>1, <1>2, <1>3, AroundDef

\* Induction over the nesting: what holds of a statement whenever it holds of
\* the one around it holds of all.
LEMMA NestingInduction ==
  ASSUME BuildTypeOK, NEW T,
         \A n \in Node : (prog[n].scope \in Node => prog[n].scope \in T) => n \in T,
         NEW n \in Node
  PROVE  n \in T
<1> SUFFICES ASSUME n \notin T PROVE FALSE
  OBVIOUS
<1>1. {m \in Node : m \notin T} # {} /\ {m \in Node : m \notin T} \subseteq Nat
  BY ProgFacts
<1>2. PICK m \in {x \in Node : x \notin T} : \A x \in {y \in Node : y \notin T} : m <= x
  BY <1>1, LeastNat
<1>3. m \in Nat /\ prog[m].scope \in Nat /\ prog[m].scope < m
  BY <1>2, AroundNode
<1>4. ~(m <= prog[m].scope)
  BY <1>3
<1> QED BY <1>2, <1>4

\* What is around a statement comes before it.
LEMMA AroundSmaller ==
  ASSUME BuildTypeOK, NEW n \in Node, NEW k \in Around[n]
  PROVE  k \in Nat /\ k < n /\ (k # 0 => k \in Node)
<1> DEFINE T == {m \in Node : \A x \in Around[m] : x \in Nat /\ x < m /\ (x # 0 => x \in Node)}
<1>1. ASSUME NEW m \in Node, prog[m].scope \in Node => prog[m].scope \in T PROVE m \in T
  <2> SUFFICES ASSUME NEW x \in Around[m] PROVE x \in Nat /\ x < m /\ (x # 0 => x \in Node)
    OBVIOUS
  <2>1. /\ Around[m] = {prog[m].scope} \cup Around[prog[m].scope]
        /\ prog[m].scope \in Node \/ (prog[m].scope = 0 /\ Around[prog[m].scope] = {})
        /\ m \in Nat /\ prog[m].scope \in Nat /\ prog[m].scope < m
    BY AroundNode
  <2>2. CASE x = prog[m].scope
    BY <2>1, <2>2
  <2>3. CASE x # prog[m].scope
    <3>1. x \in Around[prog[m].scope] /\ prog[m].scope \in T
      BY <2>1, <2>3, <1>1
    <3>2. x \in Nat /\ x < prog[m].scope /\ (x # 0 => x \in Node)
      BY <3>1
    <3> QED BY <3>2, <2>1
  <2> QED BY <2>2, <2>3
<1> HIDE DEF T
<1>2. n \in T
  BY <1>1, NestingInduction
<1> QED BY <1>2 DEF T

\* What is around the surroundings is around the statement.
LEMMA AroundTrans ==
  ASSUME BuildTypeOK, NEW n \in Node, NEW t \in Around[n], NEW b \in Around[t]
  PROVE  b \in Around[n]
<1> DEFINE T == {m \in Node : \A x \in Around[m] : Around[x] \subseteq Around[m]}
<1>1. ASSUME NEW m \in Node, prog[m].scope \in Node => prog[m].scope \in T PROVE m \in T
  BY <1>1, AroundNode
<1> HIDE DEF T
<1>2. n \in T
  BY <1>1, NestingInduction
<1> QED BY <1>2 DEF T

\* Two statements around the same one are nested.
LEMMA AroundChain ==
  ASSUME BuildTypeOK, NEW n \in Node,
         NEW x \in {n} \cup Around[n], NEW y \in {n} \cup Around[n], x < y
  PROVE  x \in Around[y]
<1> DEFINE T == {m \in Node : \A u, v \in {m} \cup Around[m] : u < v => u \in Around[v]}
<1>1. ASSUME NEW m \in Node, prog[m].scope \in Node => prog[m].scope \in T PROVE m \in T
  <2> SUFFICES ASSUME NEW u \in {m} \cup Around[m], NEW v \in {m} \cup Around[m], u < v
               PROVE  u \in Around[v]
    OBVIOUS
  <2>1. /\ Around[m] = {prog[m].scope} \cup Around[prog[m].scope]
        /\ prog[m].scope \in Node \/ (prog[m].scope = 0 /\ Around[prog[m].scope] = {})
        /\ m \in Nat
    BY AroundNode
  <2>2. \A z \in Around[m] : z \in Nat /\ z < m
    BY AroundSmaller
  <2>3. u # m
    <3> SUFFICES ASSUME u = m PROVE FALSE
      OBVIOUS
    <3> QED BY <2>1, <2>2
  <2>4. CASE v = m
    BY <2>3, <2>4
  <2>5. CASE v # m
    <3>1. u \in {prog[m].scope} \cup Around[prog[m].scope] /\ v \in {prog[m].scope} \cup Around[prog[m].scope]
      BY <2>1, <2>3, <2>5
    <3>2. CASE prog[m].scope \in Node
      <4>1. prog[m].scope \in T
        BY <3>2, <1>1
      <4> QED BY <3>1, <4>1
    <3>3. CASE prog[m].scope = 0 /\ Around[prog[m].scope] = {}
      <4>1. u = 0 /\ v = 0
        BY <3>1, <3>3
      <4> QED BY <4>1
    <3> QED BY <2>1, <3>2, <3>3
  <2> QED BY <2>4, <2>5
<1> HIDE DEF T
<1>2. n \in T
  BY <1>1, NestingInduction
<1> QED BY <1>2 DEF T

\* Every graph around a statement has a statement that encloses it there.
LEMMA EnclosingExists ==
  ASSUME BuildTypeOK, NEW n \in Node, NEW s \in Around[n]
  PROVE  \E k \in {n} \cup Around[n] : k # 0 /\ prog[k].scope = s
<1> DEFINE T == {m \in Node : \A u \in Around[m] :
                   \E k \in {m} \cup Around[m] : k # 0 /\ prog[k].scope = u}
<1>1. ASSUME NEW m \in Node, prog[m].scope \in Node => prog[m].scope \in T PROVE m \in T
  <2> SUFFICES ASSUME NEW u \in Around[m]
               PROVE  \E k \in {m} \cup Around[m] : k # 0 /\ prog[k].scope = u
    OBVIOUS
  <2>1. /\ Around[m] = {prog[m].scope} \cup Around[prog[m].scope]
        /\ prog[m].scope \in Node \/ (prog[m].scope = 0 /\ Around[prog[m].scope] = {})
        /\ m # 0
    BY AroundNode, ProgFacts
  <2>2. CASE u = prog[m].scope
    BY <2>1, <2>2
  <2>3. CASE u # prog[m].scope
    <3>1. u \in Around[prog[m].scope] /\ prog[m].scope \in T
      BY <2>1, <2>3, <1>1
    <3> QED BY <3>1, <2>1
  <2> QED BY <2>2, <2>3
<1> HIDE DEF T
<1>2. n \in T
  BY <1>1, NestingInduction
<1> QED BY <1>2 DEF T

\* There is only one: Enclosing is what its name says.
LEMMA EnclosingIs ==
  ASSUME BuildTypeOK, NEW n \in Node, NEW k \in {n} \cup Around[n], k # 0
  PROVE  k \in Node /\ Enclosing(n, prog[k].scope) = k
<1>1. \A x \in {n} \cup Around[n] : x # 0 => x \in Node
  BY AroundSmaller
<1>2. ASSUME NEW x \in {n} \cup Around[n], NEW y \in {n} \cup Around[n], x # 0, y # 0,
             prog[x].scope = prog[y].scope, x < y
      PROVE  FALSE
  <2>1. x \in Node /\ y \in Node
    BY <1>1, <1>2
  <2>2. x \in Around[y]
    BY <1>2, AroundChain
  <2>3. /\ Around[y] = {prog[y].scope} \cup Around[prog[y].scope]
        /\ prog[y].scope \in Node \/ Around[prog[y].scope] = {}
        /\ x \in Nat /\ prog[x].scope \in Nat /\ prog[x].scope < x
    BY <2>1, AroundNode
  <2>4. CASE x = prog[y].scope
    BY <2>3, <2>4, <1>2
  <2>5. CASE x \in Around[prog[y].scope] /\ prog[y].scope \in Node
    <3>1. x < prog[y].scope
      BY <2>5, AroundSmaller
    <3> QED BY <3>1, <2>3, <1>2
  <2> QED BY <2>2, <2>3, <2>4, <2>5
<1>3. ASSUME NEW x \in {n} \cup Around[n], x # 0, prog[x].scope = prog[k].scope PROVE x = k
  <2>1. x \in Nat /\ k \in Nat
    BY <1>1, <1>3, ProgFacts
  <2>2. ~(x < k) /\ ~(k < x)
    BY <1>2, <1>3
  <2> QED BY <2>1, <2>2
<1>4. PICK s : s = prog[k].scope
  OBVIOUS
<1>5. Enclosing(n, s) = k
  BY <1>3, <1>4 DEF Enclosing
<1> QED BY <1>1, <1>4, <1>5

\* The list is a pre-order: what is between a statement and one inside it is
\* inside it too.
LEMMA Contiguous ==
  ASSUME BuildTypeOK, NEW n \in Node, NEW b \in Around[n], NEW x \in Node, b < x, x < n
  PROVE  b \in Around[x]
<1>0. \A m, k \in Node : prog[m].scope < k /\ k < m => prog[m].scope <= prog[k].scope
  <2> SUFFICES ASSUME NEW m \in Node, NEW k \in Node, prog[m].scope < k, k < m
               PROVE  prog[m].scope <= prog[k].scope
    OBVIOUS
  <2>1. m \in 1..Len(prog) /\ k \in 1..m - 1
    BY DEF Node, BuildTypeOK
  <2> QED BY <2>1 DEF BuildTypeOK, WellFormed
<1>1. ASSUME NEW m \in Node, NEW k \in Node, prog[m].scope < k, k < m
      PROVE  prog[m].scope \in Around[k]
  <2> DEFINE s == prog[m].scope
             T == {z \in Node : s < z /\ z < m => s \in Around[z]}
  <2>1. ASSUME NEW z \in Node, prog[z].scope \in Node => prog[z].scope \in T PROVE z \in T
    <3> SUFFICES ASSUME s < z, z < m PROVE s \in Around[z]
      OBVIOUS
    <3>1. /\ Around[z] = {prog[z].scope} \cup Around[prog[z].scope]
          /\ prog[z].scope \in Node \/ prog[z].scope = 0
          /\ prog[z].scope \in Nat /\ prog[z].scope < z /\ z \in Nat
      BY AroundNode
    <3>2. s <= prog[z].scope /\ s \in Nat /\ m \in Nat
      BY <1>0, AroundNode
    <3>3. CASE prog[z].scope = s
      BY <3>1, <3>3
    <3>4. CASE prog[z].scope # s
      <4>1. s < prog[z].scope /\ prog[z].scope < m /\ prog[z].scope # 0
        BY <3>1, <3>2, <3>4
      <4> QED BY <4>1, <3>1, <2>1
    <3> QED BY <3>3, <3>4
  <2> HIDE DEF T
  <2>2. k \in T
    BY <2>1, NestingInduction
  <2> QED BY <2>2, <1>1 DEF T
<1> DEFINE T == {m \in Node : \A u \in Around[m] : \A v \in Node : u < v /\ v < m => u \in Around[v]}
<1>2. ASSUME NEW m \in Node, prog[m].scope \in Node => prog[m].scope \in T PROVE m \in T
  <2> SUFFICES ASSUME NEW u \in Around[m], NEW v \in Node, u < v, v < m PROVE u \in Around[v]
    OBVIOUS
  <2>1. /\ Around[m] = {prog[m].scope} \cup Around[prog[m].scope]
        /\ prog[m].scope \in Node \/ (prog[m].scope = 0 /\ Around[prog[m].scope] = {})
        /\ prog[m].scope \in Nat /\ v \in Nat
    BY AroundNode
  <2>2. CASE u = prog[m].scope
    BY <2>2, <1>1
  <2>3. CASE u # prog[m].scope
    <3>1. u \in Around[prog[m].scope] /\ prog[m].scope \in T
      BY <2>1, <2>3, <1>2
    <3>2. CASE v < prog[m].scope
      BY <3>1, <3>2
    <3>3. CASE v = prog[m].scope
      BY <3>1, <3>3
    <3>4. CASE prog[m].scope < v
      <4>1. prog[m].scope \in Around[v]
        BY <3>4, <1>1
      <4> QED BY <4>1, <3>1, AroundTrans
    <3> QED BY <2>1, <3>2, <3>3, <3>4
  <2> QED BY <2>2, <2>3
<1> HIDE DEF T
<1>3. n \in T
  BY <1>2, NestingInduction
<1> QED BY <1>3 DEF T

\* The innermost common scope of two statements exists.
LEMMA CommonScopeIs ==
  ASSUME BuildTypeOK, NEW i \in Node, NEW j \in Node
  PROVE  /\ CommonScope(i, j) \in Around[i] \cap Around[j]
         /\ \A t \in Around[i] \cap Around[j] : t <= CommonScope(i, j)
<1> DEFINE C == Around[i] \cap Around[j]
           D == {i - t : t \in C}
<1>1. \A t \in C : t \in Nat /\ t < i
  BY AroundSmaller
<1>2. 0 \in C
  BY RootAround
<1>3. i \in Nat
  BY ProgFacts
<1> HIDE DEF C
<1>4. D \subseteq Nat /\ D # {}
  BY <1>1, <1>2, <1>3
<1>5. PICK d \in D : \A e \in D : d <= e
  BY <1>4, LeastNat
<1>6. PICK s \in C : d = i - s
  BY <1>5
<1>7. \A t \in C : t <= s
  <2> SUFFICES ASSUME NEW t \in C PROVE t <= s
    OBVIOUS
  <2>1. i - s <= i - t
    BY <1>5, <1>6
  <2> QED BY <2>1, <1>1, <1>3
<1> QED BY <1>7 DEF C, CommonScope

-----------------------------------------------------------------------------
(***************************************************************************)
(* The statements of a node.                                               *)
(***************************************************************************)

LEMMA StatementsOf ==
  ASSUME OptInv, NEW n \in Live
  PROVE  /\ n \in Node /\ n \in Statements(n) /\ Last(n) \in Statements(n)
         /\ \A i \in Statements(n) :
              /\ i \in Node /\ i \in Nat /\ hasNode(i) /\ prog[i].scope = prog[n].scope
              /\ n <= i /\ i <= Last(n)
              /\ complexInstruction(i) => Last(n) = i
<1>1. n \in Node /\ group[n] \in Seq(Node) /\ group[n] # <<>> /\ Node \subseteq Nat
  BY ProgFacts DEF OptInv, OptTypeOK, Live
<1>2. /\ group[n][1] = n
      /\ \A j, k \in 1..Len(group[n]) : j < k => group[n][j] < group[n][k]
      /\ \A k \in 1..Len(group[n]) :
           /\ hasNode(group[n][k])
           /\ prog[group[n][k]].scope = prog[n].scope
           /\ complexInstruction(group[n][k]) => Len(group[n]) = 1
  BY DEF OptInv, GraphInv, GroupsInOrder
<1>3. Len(group[n]) \in Nat /\ 1 \in 1..Len(group[n]) /\ Len(group[n]) \in 1..Len(group[n])
  BY <1>1
<1>4. n \in Statements(n) /\ Last(n) \in Statements(n)
  BY <1>2, <1>3 DEF Statements, Last
<1>5. ASSUME NEW k \in 1..Len(group[n])
      PROVE  /\ group[n][k] \in Node /\ group[n][k] \in Nat
             /\ n <= group[n][k] /\ group[n][k] <= Last(n)
             /\ Len(group[n]) = 1 => Last(n) = group[n][k]
  <2>1. group[n][k] \in Node /\ group[n][k] \in Nat /\ Last(n) \in Nat
    <3>1. \A j \in 1..Len(group[n]) : group[n][j] \in Node
      BY <1>1
    <3> QED BY <3>1, <1>1, <1>3 DEF Last
  <2>2. k = 1 \/ 1 < k
    BY <1>3
  <2>3. k = Len(group[n]) \/ k < Len(group[n])
    BY <1>3
  <2>4. n <= group[n][k]
    BY <1>1, <1>2, <1>3, <2>1, <2>2
  <2>5. group[n][k] <= Last(n)
    BY <1>2, <1>3, <2>1, <2>3 DEF Last
  <2>6. Len(group[n]) = 1 => k = Len(group[n])
    OBVIOUS
  <2> QED BY <2>1, <2>4, <2>5, <2>6 DEF Last
<1> QED BY <1>1, <1>2, <1>4, <1>5 DEF Statements

LEMMA StatementsInGroup ==
  ASSUME NEW n, NEW i
  PROVE  InGroup(i, n) <=> i \in Statements(n)
BY DEF InGroup, Statements

\* A statement is in one node.
LEMMA OneNode ==
  ASSUME OptInv, NEW n \in Live, NEW m \in Live, NEW i \in Statements(n), i \in Statements(m)
  PROVE  n = m
<1>1. i \in Node
  BY StatementsOf
<1> QED BY <1>1, StatementsInGroup DEF OptInv, GraphInv, OneGroup

\* Once all instructions are handled, a statement with a node is in it.
LEMMA HasGroup ==
  ASSUME OptInv, pass # "build", NEW i \in Node, hasNode(i)
  PROVE  \E n \in Live : i \in Statements(n)
<1>1. i \in 1..built
  BY DEF OptInv, PassesInOrder, Node
<1> QED BY <1>1, StatementsInGroup DEF OptInv, GraphInv, OneGroup

\* fuseInstructions keeps the group of the node's last statement.
LEMMA FurthestIsLast ==
  ASSUME OptInv, NEW n \in Live
  PROVE  Furthest(Statements(n)) = Last(n)
<1>1. /\ Last(n) \in Statements(n) /\ \A i \in Statements(n) : i \in Nat /\ i <= Last(n)
  BY StatementsOf
<1>2. \A x \in Statements(n) : (\A j \in Statements(n) : j <= x) => x = Last(n)
  BY <1>1
<1> QED BY <1>1, <1>2 DEF Furthest

\* A for's header comes before its body: a node that starts with a registered
\* statement has no other.
LEMMA AllRegistered ==
  ASSUME OptInv, NEW n \in Live, Registered(n), NEW i \in Statements(n)
  PROVE  Registered(i)
<1>1. /\ i \in Node /\ i \in Nat /\ n \in Node /\ n \in Nat /\ n <= i
      /\ prog[i].scope = prog[n].scope
  BY StatementsOf, ProgFacts DEF OptInv, OptTypeOK
<1>2. CASE n = i
  BY <1>2
<1>3. CASE n # i
  <2>1. n \in 1..i - 1 /\ i \in 1..Len(prog)
    BY <1>1, <1>3 DEF Node
  <2> QED BY <2>1, <1>1 DEF OptInv, OptTypeOK, BuildTypeOK, WellFormed, Registered
<1> QED BY <1>2, <1>3

-----------------------------------------------------------------------------
(***************************************************************************)
(* OrderInv is inductive.                                                  *)
(***************************************************************************)

LEMMA OrderInvInit == OrderInit => OrderInv
<1> SUFFICES ASSUME OrderInit PROVE OrderInv
  OBVIOUS
<1>1. OptInv /\ pass = "build" /\ pending = {}
  BY OptInvInit DEF OrderInit, OptInit
<1>2. /\ instructionLinks = [i \in Node |-> IF Registered(i) THEN i ELSE NoGroup]
      /\ instructionGroups = [i \in Node |-> IF Registered(i) THEN {i} ELSE {}]
      /\ nodesGroup = [i \in Node |-> NoNode]
  BY DEF OrderInit, addInstructionToManager
<1>3. \A i \in Node : i # NoGroup
  BY ProgFacts, <1>1 DEF OptInv, OptTypeOK, NoGroup
<1>4. \A i \in Node : Untouched(i)
  BY <1>2 DEF Untouched
<1>5. /\ instructionLinks \in [Node -> Node \cup {NoGroup}]
      /\ instructionGroups \in [Node -> SUBSET Node]
      /\ nodesGroup \in [Node -> Node \cup {NoNode}]
  BY <1>2
<1>6. \A i, g \in Node : i \in instructionGroups[g] <=> instructionLinks[i] = g
  BY <1>2, <1>3
<1> QED BY <1>1, <1>4, <1>5, <1>6 DEF OrderInv, OrderTypeOK, OptInv, ManagerInv

\* The later passes leave the optimized graph alone.
LEMMA LaterPass ==
  ASSUME OptInv, UNCHANGED <<buildVars, stack, nodeVars, clauseVars>>,
         pass \notin {"build", "optimize"},
         pass' \in {"order", "aborted", "written", "run", "finished"}
  PROVE  OptInv'
<1>1. GraphInv'
  BY GraphUnchanged DEF OptInv
<1>2. UNCHANGED <<prog, built, links, dataUsedInRead, dataUsedInWrite, nodes, group,
                  depRead, depWrite, stack, inOutDep, inDep>>
  BY DEF buildVars, nodeVars, clauseVars
<1>3. OptTypeOK'
  BY <1>2 DEF OptInv, OptTypeOK, BuildTypeOK, Node, Loop
<1>4. PassesInOrder'
  BY <1>2 DEF OptInv, PassesInOrder
<1>5. ClausesComplete'
  BY <1>2 DEF OptInv, ClausesComplete, computeInOutDep, computeInDep, Live, Node, Deps, Prev,
              InPrev, isLooped
<1> QED BY <1>1, <1>3, <1>4, <1>5 DEF OptInv

\* The maps of the manager, typed and in agreement.
MapsAgree ==
  /\ instructionLinks \in [Node -> Node \cup {NoGroup}]
  /\ instructionGroups \in [Node -> SUBSET Node]
  /\ nodesGroup \in [Node -> Node \cup {NoNode}]
  /\ \A i, g \in Node : i \in instructionGroups[g] <=> instructionLinks[i] = g

LEMMA OrderInvParts ==
  OrderInv <=> OptInv /\ MapsAgree /\ ManagerInv
<1>1. Live \subseteq Node
  BY DEF Live
<1> QED BY <1>1 DEF OrderInv, OrderTypeOK, MapsAgree, OptInv, ManagerInv

LEMMA MapsUnchanged ==
  ASSUME MapsAgree, UNCHANGED managerVars, prog' = prog
  PROVE  MapsAgree'
BY DEF MapsAgree, managerVars, Node

\* While the graph is built and optimized no statement moves.
LEMMA CompileStep ==
  ASSUME OrderInv, OptNext, UNCHANGED <<managerVars, pending>>
  PROVE  OrderInv'
<1>1. OptInv'
  BY OptInvStep DEF OrderInv
<1>2. /\ pass \in {"build", "optimize", "optimized"} /\ pass' \in {"build", "optimize", "optimized"}
      /\ prog' = prog
  <2>0. stack # <<>> => pass = "optimize"
    BY DEF OrderInv, OptInv, PassesInOrder
  <2>1. CASE generateGraph
    BY <2>1 DEF generateGraph, InstructionToGraph
  <2>2. CASE optimizeGraph
    BY <2>2 DEF optimizeGraph, buildVars
  <2>3. CASE transitiveReduction \/ FuseStep
    BY <2>0, <2>3 DEF transitiveReduction, FuseStep
  <2>4. CASE FuseNext \/ nodesComputeInOut
    BY <2>0, <2>4 DEF FuseNext, nodesComputeInOut, buildVars
  <2> QED BY <2>1, <2>2, <2>3, <2>4 DEF OptNext
<1>3. MapsAgree'
  BY <1>2, MapsUnchanged, OrderInvParts
<1>4. pending = {} /\ \A i \in Node : Untouched(i)
  BY <1>2 DEF OrderInv, ManagerInv
<1>5. pending' = {} /\ \A i \in Node' : Untouched(i)'
  BY <1>2, <1>4 DEF Untouched, Registered, managerVars, Node
<1>6. ManagerInv'
  BY <1>2, <1>5 DEF ManagerInv
<1> QED BY <1>1, <1>3, <1>6, OrderInvParts, PTL

\* The passes that move no statement.
LEMMA PassOnlyStep ==
  ASSUME OrderInv, startUpdate \/ abort \/ modifyFile
  PROVE  OrderInv'
<1>1. /\ UNCHANGED <<buildVars, stack, nodeVars, clauseVars, managerVars>>
      /\ pass \in {"optimized", "order"} /\ pass' \in {"order", "aborted", "written"}
  BY DEF startUpdate, abort, modifyFile
<1>2. OptInv'
  BY <1>1, LaterPass DEF OrderInv
<1>3. UNCHANGED <<prog, group, instructionLinks, instructionGroups, nodesGroup>>
  BY <1>1 DEF buildVars, nodeVars, managerVars
<1>4. MapsAgree'
  BY <1>1, <1>3, MapsUnchanged, OrderInvParts
<1>5. Live' = Live
  BY <1>3 DEF Live, Node
<1>6. CASE startUpdate
  <2>1. /\ pending' = Live /\ pass = "optimized" /\ pass' = "order"
        /\ \A i \in Node : Untouched(i)
    BY <1>6 DEF startUpdate, OrderInv, ManagerInv
  <2>2. \A n \in Live : Statements(n) \subseteq Node
    BY StatementsOf DEF OrderInv
  <2>3. ManagerInv'
    BY <2>1, <2>2, <1>3, <1>5 DEF ManagerInv, Untouched, Registered, Statements, Node
  <2> QED BY <2>3, <1>2, <1>4, OrderInvParts, PTL
<1>7. CASE abort \/ modifyFile
  <2>1. /\ pass = "order" /\ pending' = pending
        /\ pass' = "aborted" => pending # {} /\ ~AssertionsHold(NextNode)
        /\ pass' = "written" => pending = {}
        /\ pass' \in {"aborted", "written"}
    BY <1>7 DEF abort, modifyFile
  <2>2. /\ pending \subseteq Live
        /\ \A n \in Live \ pending : Fused(n)
        /\ \A n \in pending : \A i \in Statements(n) : Untouched(i)
        /\ \A i \in Node : ~hasNode(i) => Untouched(i)
    BY <2>1 DEF OrderInv, ManagerInv
  <2>3. /\ \A n : Fused(n)' <=> Fused(n)
        /\ \A i : Untouched(i)' <=> Untouched(i)
        /\ \A i : hasNode(i)' <=> hasNode(i)
        /\ \A n : Statements(n)' = Statements(n)
    BY <1>3 DEF Fused, Untouched, hasNode, Statements, Registered, Last
  <2>4. pass' = "aborted" => \E i \in Node : prog[i].kind = "header"
    <3> SUFFICES ASSUME pending # {}, ~AssertionsHold(NextNode)
                 PROVE  \E i \in Node : prog[i].kind = "header"
      BY <2>1
    <3>1. NextNode \in Live
      <4>1. pending \subseteq Nat
        BY <2>2, ProgFacts DEF Live, OrderInv, OptInv, OptTypeOK
      <4>2. \E n \in pending : \A m \in pending : n <= m
        BY <4>1, LeastNat
      <4> QED BY <4>2, <2>2 DEF NextNode
    <3>2. PICK n \in Live : n = NextNode
      BY <3>1
    <3>3. group[n][1] = n
      BY DEF OrderInv, OptInv, GraphInv, GroupsInOrder
    <3>4. n \in Node /\ Statements(n) \subseteq Node
      BY StatementsOf DEF OrderInv
    <3> QED BY <3>2, <3>3, <3>4 DEF AssertionsHold, Registered
  <2>5. ManagerInv'
    BY <2>1, <2>2, <2>3, <2>4, <1>3, <1>5 DEF ManagerInv, Node
  <2> QED BY <2>5, <1>2, <1>4, OrderInvParts, PTL
<1> QED BY <1>6, <1>7

\* Before its turn, a statement's group holds nothing else.
LEMMA OwnGroup ==
  ASSUME OrderInv, pass = "order", NEW n \in pending, Registered(n), NEW s \in Statements(n)
  PROVE  /\ s \in Node /\ Registered(s)
         /\ instructionLinks[s] = s /\ instructionGroups[s] = {s} /\ nodesGroup[s] = NoNode
<1>1. /\ pending \subseteq Live /\ n \in Live
      /\ \A m \in Live \ pending : Fused(m)
      /\ \A m \in pending : \A i \in Statements(m) : Untouched(i)
      /\ \A i \in Node : ~hasNode(i) => Untouched(i)
  BY DEF OrderInv, ManagerInv
<1>2. s \in Node /\ s # NoGroup
  BY <1>1, StatementsOf, ProgFacts DEF OrderInv, OptInv, OptTypeOK, NoGroup
<1>3. Registered(s)
  BY <1>1, AllRegistered DEF OrderInv
<1>4. instructionLinks[s] = s /\ nodesGroup[s] = NoNode
  BY <1>1, <1>3 DEF Untouched
<1>5. ASSUME NEW i \in Node, instructionLinks[i] = s PROVE i = s
  <2>1. CASE Untouched(i)
    BY <2>1, <1>2, <1>5 DEF Untouched
  <2>2. CASE hasNode(i)
    <3>1. PICK m \in Live : i \in Statements(m)
      BY <2>2, HasGroup DEF OrderInv
    <3>2. CASE m \in pending
      BY <3>1, <3>2, <2>1, <1>1
    <3>3. CASE m \notin pending
      <4>1. instructionLinks[i] = Last(m) /\ Last(m) \in Statements(m)
        BY <3>1, <3>3, <1>1, StatementsOf DEF Fused, OrderInv
      <4>2. n = m
        BY <4>1, <1>1, <1>5, OneNode DEF OrderInv
      <4> QED BY <4>2, <3>3
    <3> QED BY <3>2, <3>3
  <2> QED BY <2>1, <2>2, <1>1
<1>6. \A i \in Node : i \in instructionGroups[s] <=> instructionLinks[i] = s
  BY <1>2 DEF OrderInv, OrderTypeOK
<1>7. instructionGroups[s] \subseteq Node
  BY <1>2 DEF OrderInv, OrderTypeOK
<1> QED BY <1>2, <1>3, <1>4, <1>5, <1>6, <1>7

\* What fuseInstructions and addNodeToGroup do.
LEMMA FusedMaps ==
  ASSUME OrderInv, pass = "order", NEW n \in pending,
         AssertionsHold(n), fuseInstructions(n), addNodeToGroup(n)
  PROVE  /\ n \in Live /\ Registered(n)
         /\ instructionLinks' =
              [i \in Node |-> IF i \in Statements(n) THEN Last(n) ELSE instructionLinks[i]]
         /\ instructionGroups' =
              [g \in Node |-> IF g = Last(n) THEN Statements(n)
                              ELSE IF g \in Statements(n) THEN {} ELSE instructionGroups[g]]
         /\ nodesGroup' = [nodesGroup EXCEPT ![Last(n)] = n]
<1>1. n \in Live /\ group[n][1] = n
  BY DEF OrderInv, ManagerInv, OptInv, GraphInv, GroupsInOrder
<1>2. Registered(n)
  BY <1>1 DEF AssertionsHold
<1>3. PICK S : S = Statements(n)
  OBVIOUS
<1>4. PICK last : last = Last(n)
  OBVIOUS
<1>5. Furthest(Statements(n)) = last /\ last \in S /\ n \in S /\ S \subseteq Node
  BY <1>1, <1>3, <1>4, FurthestIsLast, StatementsOf DEF OrderInv
<1>6. \A s \in S : /\ Registered(s) /\ instructionLinks[s] = s /\ instructionGroups[s] = {s}
                   /\ nodesGroup[s] = NoNode
  BY <1>2, <1>3, OwnGroup
<1>7. Moved(n, last) = S \ {last}
  BY <1>3, <1>5, <1>6 DEF Moved
<1>8. {instructionLinks[i] : i \in Moved(n, last)} \ {instructionLinks[last]} = S \ {last}
  BY <1>5, <1>6, <1>7
<1>9. UNION {instructionGroups[s] : s \in S \ {last}} = S \ {last}
  BY <1>6
<1>10. /\ instructionLinks' =
            [i \in Node |-> IF i \in S \ {last} THEN last ELSE instructionLinks[i]]
       /\ instructionGroups' =
            [g \in Node |-> CASE g \in S \ {last} -> {}
                              [] g = last -> instructionGroups[g] \cup (S \ {last})
                              [] OTHER -> instructionGroups[g]]
  <2>1. instructionLinks[last] = last
    BY <1>5, <1>6
  <2> QED BY <2>1, <1>5, <1>8, <1>9 DEF fuseInstructions
<1>11. instructionLinks' =
         [i \in Node |-> IF i \in S THEN last ELSE instructionLinks[i]]
  BY <1>5, <1>6, <1>10
<1>12. instructionGroups' =
         [g \in Node |-> IF g = last THEN S
                         ELSE IF g \in S THEN {} ELSE instructionGroups[g]]
  <2>1. instructionGroups[last] \cup (S \ {last}) = S
    BY <1>5, <1>6
  <2> QED BY <2>1, <1>10
<1>13. instructionLinks'[n] = last /\ nodesGroup[last] = NoNode
  BY <1>5, <1>6, <1>11
<1>14. nodesGroup' = [nodesGroup EXCEPT ![last] = n]
  BY <1>1, <1>13 DEF addNodeToGroup
<1> QED BY <1>1, <1>2, <1>3, <1>4, <1>11, <1>12, <1>14

\* A node's turn.
LEMMA UpdateStep ==
  ASSUME OrderInv, updateInstructionOrderNode
  PROVE  OrderInv'
<1>1. /\ pass = "order" /\ pending # {} /\ UNCHANGED optVars
      /\ \A m \in Live \ pending : Fused(m)
      /\ \A m \in pending : \A i \in Statements(m) : Untouched(i)
      /\ \A i \in Node : ~hasNode(i) => Untouched(i)
      /\ pending \subseteq Live
  BY DEF updateInstructionOrderNode, OrderInv, ManagerInv
<1>2. NextNode \in pending
  <2>1. pending \subseteq Nat
    BY <1>1, ProgFacts DEF Live, OrderInv, OptInv, OptTypeOK
  <2>2. \E n \in pending : \A m \in pending : n <= m
    BY <2>1, <1>1, LeastNat
  <2> QED BY <2>2 DEF NextNode
<1>3. PICK n \in pending : n = NextNode
  BY <1>2
<1>4. /\ AssertionsHold(n) /\ fuseInstructions(n) /\ addNodeToGroup(n)
      /\ pending' = pending \ {n}
  BY <1>3 DEF updateInstructionOrderNode
<1>5. OptInv'
  BY <1>1, OptStutter DEF OrderInv
<1>6. UNCHANGED <<prog, group, pass>>
  BY <1>1 DEF optVars, buildVars, nodeVars
<1>7. PICK S : S = Statements(n)
  OBVIOUS
<1>8. PICK last : last = Last(n)
  OBVIOUS
<1>9. /\ n \in Live /\ Registered(n)
      /\ instructionLinks' = [i \in Node |-> IF i \in S THEN last ELSE instructionLinks[i]]
      /\ instructionGroups' = [g \in Node |-> IF g = last THEN S
                                              ELSE IF g \in S THEN {} ELSE instructionGroups[g]]
      /\ nodesGroup' = [nodesGroup EXCEPT ![last] = n]
  BY <1>1, <1>4, <1>7, <1>8, FusedMaps
<1>10. n \in Node /\ last \in S /\ n \in S /\ S \subseteq Node /\ \A i \in S : hasNode(i)
  BY <1>7, <1>8, <1>9, StatementsOf DEF OrderInv
<1>11. \A s \in S : /\ Registered(s) /\ instructionLinks[s] = s /\ instructionGroups[s] = {s}
                    /\ nodesGroup[s] = NoNode
  BY <1>1, <1>7, <1>9, OwnGroup
<1>12. /\ instructionLinks \in [Node -> Node \cup {NoGroup}]
       /\ instructionGroups \in [Node -> SUBSET Node]
       /\ nodesGroup \in [Node -> Node \cup {NoNode}]
       /\ \A i, g \in Node : i \in instructionGroups[g] <=> instructionLinks[i] = g
  BY DEF OrderInv, OrderTypeOK
<1>13. /\ instructionLinks' \in [Node -> Node \cup {NoGroup}]
       /\ instructionGroups' \in [Node -> SUBSET Node]
       /\ nodesGroup' \in [Node -> Node \cup {NoNode}]
  BY <1>9, <1>10, <1>12
<1>14. \A i, g \in Node : i \in instructionGroups'[g] <=> instructionLinks'[i] = g
  <2> SUFFICES ASSUME NEW i \in Node, NEW g \in Node
               PROVE  i \in instructionGroups'[g] <=> instructionLinks'[i] = g
    OBVIOUS
  <2>0. i \in instructionGroups[g] <=> instructionLinks[i] = g
    BY <1>12
  <2>1. CASE g = last
    <3>1. instructionGroups'[g] = S
      BY <2>1, <1>9
    <3>2. i \in S => instructionLinks'[i] = last
      BY <1>9
    <3>3. i \notin S => instructionLinks'[i] = instructionLinks[i] /\ i \notin instructionGroups[g]
      BY <2>1, <1>9, <1>10, <1>11
    <3> QED BY <2>0, <2>1, <3>1, <3>2, <3>3
  <2>2. CASE g # last /\ g \in S
    <3>1. instructionGroups'[g] = {}
      BY <2>2, <1>9
    <3>2. i \in S => instructionLinks'[i] # g
      BY <2>2, <1>9
    <3>3. i \notin S => instructionLinks'[i] = instructionLinks[i] /\ i \notin instructionGroups[g]
      BY <2>2, <1>9, <1>11
    <3> QED BY <2>0, <3>1, <3>2, <3>3
  <2>3. CASE g \notin S
    <3>1. instructionGroups'[g] = instructionGroups[g] /\ g # last
      BY <2>3, <1>9, <1>10
    <3>2. i \in S => instructionLinks'[i] # g /\ instructionLinks[i] # g
      BY <2>3, <3>1, <1>9, <1>11
    <3>3. i \notin S => instructionLinks'[i] = instructionLinks[i]
      BY <1>9
    <3> QED BY <2>0, <3>1, <3>2, <3>3
  <2> QED BY <2>1, <2>2, <2>3
<1>15. MapsAgree'
  BY <1>6, <1>13, <1>14 DEF MapsAgree, Node
<1>16. \A i \in Node : i \notin S =>
         instructionLinks'[i] = instructionLinks[i] /\ nodesGroup'[i] = nodesGroup[i]
  BY <1>9, <1>10, <1>12
<1>17. ASSUME NEW m \in Live, m # n
       PROVE  Statements(m) \subseteq Node \ S /\ Last(m) \in Statements(m)
  BY <1>7, <1>9, <1>17, OneNode, StatementsOf DEF OrderInv
<1>18. ASSUME NEW m \in Live \ pending'
       PROVE  /\ \A i \in Statements(m) : Registered(i) /\ instructionLinks'[i] = Last(m)
              /\ nodesGroup'[Last(m)] = m
  <2>1. CASE m = n
    <3>1. nodesGroup'[last] = n
      BY <1>9, <1>10, <1>12
    <3> QED BY <3>1, <2>1, <1>7, <1>8, <1>9, <1>10, <1>11
  <2>2. CASE m # n
    <3>1. Fused(m)
      BY <2>2, <1>1, <1>4
    <3> QED BY <3>1, <2>2, <1>16, <1>17 DEF Fused
  <2> QED BY <2>1, <2>2
<1>19. ASSUME NEW m \in pending', NEW i \in Statements(m)
       PROVE  /\ instructionLinks'[i] = IF Registered(i) THEN i ELSE NoGroup
              /\ nodesGroup'[i] = NoNode
  <2>1. m \in pending /\ m \in Live /\ m # n
    BY <1>1, <1>4
  <2>2. i \in Node /\ i \notin S /\ Untouched(i)
    BY <2>1, <1>1, <1>17
  <2> QED BY <2>2, <1>16 DEF Untouched
<1>20. ASSUME NEW i \in Node, ~hasNode(i)
       PROVE  /\ instructionLinks'[i] = IF Registered(i) THEN i ELSE NoGroup
              /\ nodesGroup'[i] = NoNode
  BY <1>1, <1>10, <1>16, <1>20 DEF Untouched
<1>21. /\ Live' = Live /\ Node' = Node /\ pending' \subseteq Live
       /\ \A m : Statements(m)' = Statements(m) /\ Last(m)' = Last(m)
       /\ \A i : (Registered(i)' <=> Registered(i)) /\ (hasNode(i)' <=> hasNode(i))
  BY <1>1, <1>4, <1>6 DEF Live, Node, Statements, Last, Registered, hasNode
<1>22. ManagerInv'
  <2>1. \A m \in (Live \ pending)' : Fused(m)'
    BY <1>18, <1>21 DEF Fused
  <2>2. \A m \in pending' : \A i \in Statements(m)' : Untouched(i)'
    BY <1>19, <1>21 DEF Untouched
  <2>3. \A i \in Node' : ~hasNode(i)' => Untouched(i)'
    BY <1>20, <1>21 DEF Untouched
  <2> QED BY <2>1, <2>2, <2>3, <1>1, <1>6, <1>21 DEF ManagerInv
<1> QED BY <1>5, <1>15, <1>22, OrderInvParts, PTL

LEMMA OrderStutter == OrderInv /\ UNCHANGED orderVars => OrderInv'
<1> SUFFICES ASSUME OrderInv, UNCHANGED orderVars PROVE OrderInv'
  OBVIOUS
<1>1. OptInv'
  BY OptStutter DEF OrderInv, orderVars
<1>2. UNCHANGED <<prog, group, pass, instructionLinks, instructionGroups, nodesGroup, pending>>
  BY DEF orderVars, optVars, buildVars, nodeVars, managerVars
<1>3. MapsAgree'
  BY <1>2, MapsUnchanged, OrderInvParts DEF managerVars
<1>4. /\ Live' = Live /\ Node' = Node
      /\ \A n : (Fused(n)' <=> Fused(n)) /\ Statements(n)' = Statements(n)
      /\ \A i : (Untouched(i)' <=> Untouched(i)) /\ (hasNode(i)' <=> hasNode(i))
  BY <1>2 DEF Live, Node, Fused, Untouched, hasNode, Statements, Registered, Last
<1>5. ManagerInv'
  BY <1>2, <1>4 DEF ManagerInv, OrderInv
<1> QED BY <1>1, <1>3, <1>5, OrderInvParts, PTL

LEMMA OrderInvStep == OrderInv /\ [OrderNext]_orderVars => OrderInv'
BY CompileStep, PassOnlyStep, UpdateStep, OrderStutter DEF OrderNext
-----------------------------------------------------------------------------
(***************************************************************************)
(* The theorems about the order manager.                                   *)
(***************************************************************************)

\* OrderInv holds in every reachable state, from the first instruction to the
\* written output.
THEOREM OrderInvariance == OrderSpec => []OrderInv
BY OrderInvInit, OrderInvStep, PTL DEF OrderSpec

\* The two maps of the order manager agree at every step.
THEOREM OrderTypeCorrect == OrderSpec => []OrderTypeOK
<1>1. OrderInv => OrderTypeOK
  BY DEF OrderInv
<1> QED BY <1>1, OrderInvariance, PTL

\* Where a statement is written.
LEMMA WrittenAt ==
  ASSUME OrderInv, pass \in {"written", "run", "finished"}, NEW i \in Node, Registered(i)
  PROVE  /\ instructionLinks[i] \in Node /\ i <= instructionLinks[i]
         /\ ~hasNode(i) \/ complexInstruction(i) => instructionLinks[i] = i
         /\ \A n \in Live : i \in Statements(n) => instructionLinks[i] = Last(n)
<1>1. /\ \A n \in Live : Fused(n)
      /\ \A x \in Node : ~hasNode(x) => Untouched(x)
  BY DEF OrderInv, ManagerInv
<1>2. i \in Nat
  BY ProgFacts DEF OrderInv, OptInv, OptTypeOK
<1>3. CASE ~hasNode(i)
  <2>1. instructionLinks[i] = i
    BY <1>1, <1>3 DEF Untouched
  <2> QED BY <2>1, <1>1, <1>2 DEF Fused
<1>4. CASE hasNode(i)
  <2>1. PICK n \in Live : i \in Statements(n)
    BY <1>4, HasGroup DEF OrderInv
  <2>2. instructionLinks[i] = Last(n)
    BY <2>1, <1>1 DEF Fused
  <2>3. Last(n) \in Node /\ i <= Last(n) /\ (complexInstruction(i) => Last(n) = i)
    BY <2>1, StatementsOf DEF OrderInv
  <2> QED BY <2>2, <2>3, <1>1, <1>4 DEF Fused
<1> QED BY <1>3, <1>4

\* Each written group is one node, and getNode finds it.
THEOREM OrderGroupsAreNodes == OrderSpec => []GroupsAreNodes
<1>1. OrderInv => GroupsAreNodes
  <2> SUFFICES ASSUME OrderInv, pass = "written", NEW g \in Groups,
                      NEW i \in instructionGroups[g], hasNode(i)
               PROVE  /\ nodesGroup[g] # NoNode
                      /\ instructionGroups[g] = Statements(nodesGroup[g])
    BY DEF GroupsAreNodes
  <2>1. /\ g \in Node /\ instructionGroups[g] \subseteq Node
        /\ \A x \in Node : x \in instructionGroups[g] <=> instructionLinks[x] = g
    BY DEF Groups, OrderInv, OrderTypeOK
  <2>2. PICK n \in Live : i \in Statements(n)
    BY <2>1, HasGroup DEF OrderInv
  <2>3. /\ \A m \in Live : Fused(m)
        /\ \A x \in Node : ~hasNode(x) => Untouched(x)
    BY DEF OrderInv, ManagerInv
  <2>4. g = Last(n) /\ nodesGroup[g] = n
    BY <2>1, <2>2, <2>3 DEF Fused
  <2>5. n # NoNode /\ Last(n) \in Statements(n) /\ Statements(n) \subseteq Node /\ g # NoGroup
    BY <2>1, StatementsOf, ProgFacts DEF OrderInv, OptInv, OptTypeOK, NoNode, NoGroup
  <2>6. ASSUME NEW x \in Node, instructionLinks[x] = g PROVE x \in Statements(n)
    <3>1. CASE ~hasNode(x)
      <4>1. x = g
        BY <3>1, <2>3, <2>5, <2>6 DEF Untouched
      <4> QED BY <4>1, <2>4, <2>5
    <3>2. CASE hasNode(x)
      <4>1. PICK m \in Live : x \in Statements(m)
        BY <3>2, HasGroup DEF OrderInv
      <4>2. g = Last(m) /\ Last(m) \in Statements(m)
        BY <4>1, <2>3, <2>6, StatementsOf DEF Fused, OrderInv
      <4>3. m = n
        BY <4>2, <2>4, <2>5, OneNode DEF OrderInv
      <4> QED BY <4>1, <4>3
    <3> QED BY <3>1, <3>2
  <2>7. \A x \in Statements(n) : instructionLinks[x] = g
    BY <2>3, <2>4 DEF Fused
  <2> QED BY <2>1, <2>4, <2>5, <2>6, <2>7
<1> QED BY <1>1, OrderInvariance, PTL

\* Two statements of one scope enclose themselves there.
LEMMA SameScope ==
  ASSUME BuildTypeOK, NEW i \in Node, NEW j \in Node, prog[i].scope = prog[j].scope
  PROVE  LET s == CommonScope(i, j)
         IN  Enclosing(i, s) = i /\ Enclosing(j, s) = j
<1>1. /\ Around[i] = {prog[i].scope} \cup Around[prog[i].scope]
      /\ prog[i].scope \in Node \/ Around[prog[i].scope] = {}
      /\ prog[i].scope \in Nat
  BY AroundNode
<1>2. Around[j] = Around[i]
  BY <1>1, AroundNode
<1>3. PICK s : s = CommonScope(i, j)
  OBVIOUS
<1>4. s \in Around[i] /\ prog[i].scope <= s
  BY <1>1, <1>2, <1>3, CommonScopeIs
<1>5. s = prog[i].scope
  <2>1. CASE s \in Around[prog[i].scope] /\ prog[i].scope \in Node
    <3>1. s \in Nat /\ s < prog[i].scope
      BY <2>1, AroundSmaller
    <3> QED BY <3>1, <1>1, <1>4
  <2> QED BY <2>1, <1>1, <1>4
<1>6. i # 0 /\ j # 0
  BY ProgFacts
<1>7. Enclosing(i, s) = i /\ Enclosing(j, s) = j
  BY <1>5, <1>6, EnclosingIs
<1> QED BY <1>3, <1>7

\* No statement moves in front of a declaration that precedes it.
THEOREM OrderDeclarationsFirst == OrderSpec => []DeclarationsFirst
<1>1. OrderInv => DeclarationsFirst
  <2> SUFFICES ASSUME OrderInv, pass = "written", NEW d \in Node, NEW i \in Node, d < i,
                      prog[d].kind = "decl", prog[i].scope = prog[d].scope, Registered(i)
               PROVE  WrittenBefore(d, i)
    BY DEF DeclarationsFirst
  <2>1. Registered(d) /\ ~hasNode(d)
    BY DEF Registered, hasNode, NoInstruction
  <2>2. instructionLinks[d] = d /\ i <= instructionLinks[i] /\ instructionLinks[i] \in Node
    BY <2>1, WrittenAt
  <2>3. d \in Nat /\ i \in Nat /\ instructionLinks[i] \in Nat
    BY <2>2, ProgFacts DEF OrderInv, OptInv, OptTypeOK
  <2>4. instructionLinks[d] < instructionLinks[i]
    BY <2>2, <2>3
  <2>5. PICK s : s = CommonScope(d, i)
    OBVIOUS
  <2>6. Enclosing(d, s) = d /\ Enclosing(i, s) = i
    BY <2>5, SameScope DEF OrderInv, OptInv, OptTypeOK
  <2> QED BY <2>4, <2>5, <2>6 DEF WrittenBefore
<1> QED BY <1>1, OrderInvariance, PTL

\* What is around a statement is an if, a for or a block.
LEMMA AroundComplex ==
  ASSUME BuildTypeOK, NEW n \in Node, NEW k \in Around[n], k # 0
  PROVE  complexInstruction(k) /\ Registered(k) /\ hasNode(k)
<1> DEFINE T == {m \in Node : \A x \in Around[m] : x # 0 => complexInstruction(x)}
<1>1. ASSUME NEW m \in Node, prog[m].scope \in Node => prog[m].scope \in T PROVE m \in T
  <2>1. prog[m].scope # 0 => complexInstruction(prog[m].scope)
    BY DEF BuildTypeOK, WellFormed, Node, complexInstruction
  <2> QED BY <2>1, <1>1, AroundNode
<1> HIDE DEF T
<1>2. n \in T
  BY <1>1, NestingInduction
<1>3. complexInstruction(k)
  BY <1>2 DEF T
<1> QED BY <1>3 DEF complexInstruction, Registered, hasNode, Complex, NoInstruction

\* All of a node comes before all of a node that it reaches.
LEMMA PathOrders ==
  ASSUME OptInv, NEW n \in Live, NEW m \in Live, n # m, Reaches(links, n, m)
  PROVE  Last(n) < m
<1> DEFINE S == {x \in Node : x = n \/ (x \in Live /\ Last(n) < x)}
<1>0. \A x \in Live : x \in Node /\ x \in Nat /\ Last(x) \in Nat /\ x <= Last(x)
  BY StatementsOf
<1>1. ASSUME NEW k \in links, k.from \in S PROVE k.to \in S
  <2>1. k.from \in Live /\ k.to \in Live /\ Last(k.from) < group[k.to][1]
    BY DEF OptInv, GraphInv, LinksBetweenGroups
  <2>2. group[k.to][1] = k.to
    BY <2>1 DEF OptInv, GraphInv, GroupsInOrder
  <2>3. /\ k.to \in Node /\ k.to \in Nat /\ Last(n) \in Nat
        /\ k.from \in Nat /\ Last(k.from) \in Nat /\ k.from <= Last(k.from)
    BY <2>1, <1>0
  <2>4. Last(n) < k.to
    BY <2>1, <2>2, <2>3, <1>1
  <2> QED BY <2>1, <2>3, <2>4
<1>2. S \in SUBSET Node /\ n \in S
  BY <1>0
<1>3. m \in S
  BY <1>1, <1>2 DEF Reaches
<1> QED BY <1>3

\* The statements that enclose i and j where they part: the first one ends
\* before the second one starts.
LEMMA Parting ==
  ASSUME BuildTypeOK, NEW i \in Node, NEW j \in Node, i < j, i \notin Around[j],
         NEW s, s = CommonScope(i, j)
  PROVE  \E a \in {i} \cup Around[i], b \in {j} \cup Around[j] :
           /\ a = Enclosing(i, s) /\ b = Enclosing(j, s)
           /\ a \in Node /\ b \in Node /\ a < b
           /\ prog[a].scope = s /\ prog[b].scope = s
<1>1. s \in Around[i] /\ s \in Around[j] /\ \A t \in Around[i] \cap Around[j] : t <= s
  BY CommonScopeIs
<1>2. PICK a \in {i} \cup Around[i] : a # 0 /\ prog[a].scope = s
  BY <1>1, EnclosingExists
<1>3. PICK b \in {j} \cup Around[j] : b # 0 /\ prog[b].scope = s
  BY <1>1, EnclosingExists
<1>4. a \in Node /\ b \in Node /\ a = Enclosing(i, s) /\ b = Enclosing(j, s)
  BY <1>2, <1>3, EnclosingIs
<1>5. a \in Nat /\ b \in Nat /\ i \in Nat /\ j \in Nat /\ s \in Nat /\ s < a /\ s < b
  BY <1>2, <1>3, <1>4, AroundNode
<1>6. (a = i \/ a < i) /\ (b = j \/ b < j)
  BY <1>2, <1>3, AroundSmaller
<1>7. ~(b \in Around[i] /\ b \in Around[j]) /\ ~(a \in Around[i] /\ a \in Around[j])
  BY <1>1, <1>5
<1>8. a # b
  <2> SUFFICES ASSUME a = b PROVE FALSE
    OBVIOUS
  <2>1. a # i
    BY <1>3, <1>5
  <2>2. a # j
    BY <1>5, <1>6
  <2> QED BY <2>1, <2>2, <1>2, <1>3, <1>7
<1>9. ~(b < a)
  <2> SUFFICES ASSUME b < a PROVE FALSE
    OBVIOUS
  <2>1. b < i /\ b < j
    BY <1>5, <1>6
  <2>2. b \in Around[j]
    BY <2>1, <1>3, <1>5
  <2>3. b \in Around[i]
    BY <2>1, <2>2, Contiguous
  <2> QED BY <2>2, <2>3, <1>7
<1>10. a < b
  BY <1>5, <1>8, <1>9
<1> QED BY <1>2, <1>3, <1>4, <1>10

\* Moving statements together never swaps two that conflict, in whatever
\* scopes they are.
THEOREM OrderConflictsWrittenInOrder == OrderSpec => []ConflictsWrittenInOrder
<1>1. OrderInv => ConflictsWrittenInOrder
  <2> SUFFICES ASSUME OrderInv, pass = "written", NEW i \in Node, NEW j \in Node, i < j,
                      Registered(i), Registered(j), Conflict(i, j), i \notin Around[j]
               PROVE  WrittenBefore(i, j)
    BY DEF ConflictsWrittenInOrder, WrittenBefore
  <2>0. BuildTypeOK /\ OptInv
    BY DEF OrderInv, OptInv, OptTypeOK
  <2>1. PICK s : s = CommonScope(i, j)
    OBVIOUS
  <2>2. PICK a \in {i} \cup Around[i], b \in {j} \cup Around[j] :
          /\ a = Enclosing(i, s) /\ b = Enclosing(j, s)
          /\ a \in Node /\ b \in Node /\ a < b
          /\ prog[a].scope = s /\ prog[b].scope = s
    BY <2>0, <2>1, Parting
  <2> SUFFICES \/ instructionLinks[a] < instructionLinks[b]
               \/ instructionLinks[a] = instructionLinks[b]
    BY <2>1, <2>2 DEF WrittenBefore
  <2>3. \A x \in Node : \A t \in Around[x] : t # 0 => complexInstruction(t) /\ Registered(t) /\ hasNode(t)
    BY <2>0, AroundComplex
  <2>4. a # 0 /\ b # 0 /\ \A x \in Node : x \in Nat
    BY <2>0, <2>2, ProgFacts
  <2>5. Registered(a) /\ Registered(b)
    BY <2>2, <2>3, <2>4
  <2>6. /\ instructionLinks[a] \in Node /\ instructionLinks[b] \in Node
        /\ a <= instructionLinks[a] /\ b <= instructionLinks[b]
        /\ complexInstruction(a) => instructionLinks[a] = a
        /\ complexInstruction(b) => instructionLinks[b] = b
    BY <2>2, <2>5, WrittenAt
  <2>7. CASE complexInstruction(a)
    <3>1. /\ a \in Nat /\ b \in Nat /\ instructionLinks[b] \in Nat
      BY <2>2, <2>4, <2>6
    <3> QED BY <3>1, <2>2, <2>6, <2>7
  <2>8. CASE ~complexInstruction(a)
    <3>1. a = i
      BY <2>2, <2>3, <2>4, <2>8
    <3>2. hasNode(i) /\ hasNode(j)
      BY <2>0, ConflictHasNode
    <3>3. PICK n \in Live : i \in Statements(n)
      BY <2>0, <3>2, HasGroup
    <3>4. PICK m \in Live : j \in Statements(m)
      BY <2>0, <3>2, HasGroup
    <3>5. n = m \/ Reaches(links, n, m)
      <4>1. i \in 1..built /\ j \in 1..built
        BY <2>0 DEF OptInv, PassesInOrder, Node
      <4> QED BY <4>1, <2>0, <3>3, <3>4, StatementsInGroup DEF OptInv, GraphInv, PathsKept
    <3>6. instructionLinks[i] = Last(n) /\ instructionLinks[j] = Last(m)
      BY <3>3, <3>4, WrittenAt
    <3>7. CASE b = j
      <4>1. CASE n = m
        BY <3>1, <3>6, <3>7, <4>1
      <4>2. CASE n # m
        <5>1. Last(n) < m
          BY <2>0, <3>5, <4>2, PathOrders
        <5>2. m <= Last(m) /\ m \in Nat /\ Last(m) \in Nat /\ Last(n) \in Nat
          BY <2>0, StatementsOf
        <5> QED BY <5>1, <5>2, <3>1, <3>6, <3>7
      <4> QED BY <4>1, <4>2
    <3>8. CASE b # j
      <4>1. b \in Around[j] /\ complexInstruction(b)
        BY <2>2, <2>3, <2>4, <3>8
      <4>2. /\ prog[m].scope = prog[j].scope /\ m \in Node
            /\ prog[Last(n)].scope = prog[i].scope /\ Last(n) \in Node
        BY <2>0, <3>3, <3>4, StatementsOf
      <4>3. b \in Around[m]
        BY <2>0, <4>1, <4>2, AroundNode
      <4>4. s < b /\ s \in Nat /\ b \in Nat /\ Last(n) \in Nat /\ prog[Last(n)].scope = s
        BY <2>0, <2>2, <2>4, <3>1, <4>2, AroundNode
      <4>5. b \notin Around[Last(n)]
        <5>1. /\ Around[Last(n)] = {s} \cup Around[s]
              /\ s \in Node \/ Around[s] = {}
          BY <2>0, <4>2, <4>4, AroundNode
        <5>2. \A t \in Around[s] : s \in Node => t < s
          BY <2>0, AroundSmaller
        <5> QED BY <5>1, <5>2, <4>4
      <4>6. n # m
        <5> SUFFICES ASSUME n = m PROVE FALSE
          OBVIOUS
        <5>1. prog[m].scope = s
          <6>1. prog[i].scope = prog[n].scope
            BY <2>0, <3>3, StatementsOf
          <6> QED BY <6>1, <3>1, <2>2
        <5>2. Around[m] = {s} \cup Around[s] /\ Around[Last(n)] = {s} \cup Around[s]
          BY <5>1, <4>2, <4>4, <2>0, AroundNode
        <5> QED BY <5>2, <4>3, <4>5
      <4>7. Last(n) < m
        BY <2>0, <3>5, <4>6, PathOrders
      <4>8. ~(b < Last(n))
        BY <2>0, <4>2, <4>3, <4>5, <4>7, Contiguous
      <4>9. instructionLinks[a] = Last(n) /\ instructionLinks[b] = b
        BY <2>6, <3>1, <3>6, <4>1
      <4>10. Last(n) < b \/ Last(n) = b
        BY <4>4, <4>8
      <4> QED BY <4>9, <4>10
    <3> QED BY <3>7, <3>8
  <2> QED BY <2>7, <2>8
<1> QED BY <1>1, OrderInvariance, PTL

-----------------------------------------------------------------------------
(***************************************************************************)
(* What depends on the program and its groups only.                        *)
(***************************************************************************)

\* The order of the program is fixed by its instruction list.
LEMMA ProgramOrderKept ==
  ASSUME prog' = prog
  PROVE  Node' = Node /\ End' = End /\ Before' = Before /\ Governs' = Governs
<1>1. Node' = Node /\ Loop' = Loop /\ End' = End
  BY DEF Node, Loop, End
<1>2. Around' = Around
  BY <1>1 DEF Around
<1>3. \A s : Inside(s)' = Inside(s)
  BY <1>1, <1>2 DEF Inside
<1>4. Governs' = Governs
  BY <1>1, <1>3 DEF Governs
<1>5. \A i, j : Conflict(i, j)' <=> Conflict(i, j)
  BY DEF Conflict, ReadElements, WriteElements
<1>6. Before' = Before
  BY <1>1, <1>4, <1>5 DEF Before
<1> QED BY <1>1, <1>4, <1>6

\* What the steps of the run leave alone.
Output == <<prog, instructionLinks, instructionGroups, nodesGroup, inOutDep, inDep>>

LEMMA OutputKept ==
  ASSUME UNCHANGED Output
  PROVE  /\ Groups' = Groups
         /\ \A g : isTaskValid(g)' <=> isTaskValid(g)
         /\ \A g, h : WaitsFor(g, h)' <=> WaitsFor(g, h)
         /\ \A g, h : DependOrders(g, h)' <=> DependOrders(g, h)
         /\ \A g, h : Follows(g, h)' <=> Follows(g, h)
         /\ Covered' <=> Covered
<1>1. /\ Node' = Node /\ Before' = Before /\ Groups' = Groups
      /\ UNCHANGED <<prog, instructionLinks, instructionGroups, nodesGroup, inOutDep, inDep>>
  BY ProgramOrderKept DEF Output, Groups
<1>2. \A g : isTaskValid(g)' <=> isTaskValid(g)
  BY <1>1 DEF isTaskValid
<1>3. \A g : Clauses(g)' = Clauses(g) /\ getNode(g)' = getNode(g)
  BY <1>1 DEF Clauses, getNode
<1>4. \A g, h : DependOrders(g, h)' <=> DependOrders(g, h)
  BY <1>1, <1>3 DEF DependOrders
<1>5. \A n : createDependsString(n)' = createDependsString(n)
  BY <1>1 DEF createDependsString
<1>6. \A g : createPragmaTaskWait(g)' = createPragmaTaskWait(g)
  BY <1>1, <1>3, <1>5 DEF createPragmaTaskWait
<1>7. \A g, h : WaitsFor(g, h)' <=> WaitsFor(g, h)
  BY <1>1, <1>3, <1>6 DEF WaitsFor
<1>8. \A g, h : Follows(g, h)' <=> Follows(g, h)
  BY <1>2, <1>4, <1>7 DEF Follows
<1>9. \A g, h : CoveredPath(g, h)' <=> CoveredPath(g, h)
  BY <1>1, <1>8 DEF CoveredPath
<1>10. \A i : GroupNumber(i)' = GroupNumber(i)
  BY <1>1 DEF GroupNumber
<1>11. Covered' <=> Covered
  BY <1>1, <1>9, <1>10 DEF Covered
<1> QED BY <1>1, <1>2, <1>4, <1>7, <1>8, <1>11

(***************************************************************************)
(* The written groups.                                                     *)
(***************************************************************************)

\* Once the output is written every statement is registered and in one group,
\* that of a statement at or after it; a group holds the statement it is
\* numbered by.
LEMMA GroupFacts ==
  ASSUME OrderInv, pass \in {"written", "run", "finished"}
  PROVE  /\ Node \subseteq Nat /\ End \in Nat /\ 0 \notin Node /\ End \notin Node
         /\ \A i \in Node : i < End
         /\ \A g \in Groups : g \in Node /\ instructionGroups[g] \subseteq Node
                              /\ g \in instructionGroups[g]
         /\ \A i \in Node : /\ instructionLinks[i] \in Groups
                            /\ i \in instructionGroups[instructionLinks[i]]
                            /\ i <= instructionLinks[i]
         /\ \A g \in Groups : \A i \in instructionGroups[g] : instructionLinks[i] = g
<1>1. /\ Node \subseteq Nat /\ 0 \notin Node /\ BuildTypeOK /\ OptInv
      /\ instructionGroups \in [Node -> SUBSET Node]
      /\ \A i, g \in Node : i \in instructionGroups[g] <=> instructionLinks[i] = g
  BY ProgFacts DEF OrderInv, OptInv, OptTypeOK, OrderTypeOK
<1>2. End \in Nat /\ End \notin Node /\ \A i \in Node : i < End
  BY <1>1 DEF End, Node, BuildTypeOK
<1>3. \A i \in Node : Registered(i)
  <2> SUFFICES ASSUME NEW i \in Node, ~Registered(i) PROVE FALSE
    OBVIOUS
  <2>1. hasNode(i)
    BY DEF hasNode, NoInstruction, Registered
  <2>2. PICK n \in Live : i \in Statements(n)
    BY <2>1, <1>1, HasGroup
  <2>3. Fused(n)
    BY DEF OrderInv, ManagerInv
  <2> QED BY <2>2, <2>3 DEF Fused
<1>4. \A i \in Node : instructionLinks[i] \in Node /\ i <= instructionLinks[i]
  BY <1>3, WrittenAt
<1>5. \A i \in Node : i \in instructionGroups[instructionLinks[i]] /\ instructionLinks[i] \in Groups
  BY <1>1, <1>4 DEF Groups
<1>6. ASSUME NEW g \in Groups PROVE g \in instructionGroups[g]
  <2>1. PICK i \in Node : instructionLinks[i] = g /\ g \in Node
    BY <1>1 DEF Groups
  <2>2. CASE hasNode(i)
    <3>1. PICK n \in Live : i \in Statements(n)
      BY <2>2, <1>1, HasGroup
    <3>2. Fused(n) /\ Last(n) \in Statements(n)
      BY <1>1, StatementsOf DEF OrderInv, ManagerInv
    <3>3. g = Last(n) /\ instructionLinks[Last(n)] = Last(n)
      BY <2>1, <3>1, <3>2 DEF Fused
    <3> QED BY <3>3, <2>1, <1>1
  <2>3. CASE ~hasNode(i)
    <3>1. instructionLinks[i] = i
      BY <2>3, <1>3, WrittenAt
    <3> QED BY <3>1, <2>1, <1>1
  <2> QED BY <2>2, <2>3
<1>7. \A g \in Groups : g \in Node /\ instructionGroups[g] \subseteq Node
  BY <1>1 DEF Groups
<1>8. \A g \in Groups : \A i \in instructionGroups[g] : instructionLinks[i] = g
  BY <1>1, <1>7
<1> QED BY <1>1, <1>2, <1>4, <1>5, <1>6, <1>7, <1>8

\* A group that the thread executes itself is one statement.
LEMMA InlineGroup ==
  ASSUME OrderInv, pass \in {"written", "run", "finished"}, NEW g \in Groups, ~isTaskValid(g)
  PROVE  instructionGroups[g] = {g}
<1>1. /\ g \in instructionGroups[g] /\ instructionGroups[g] \subseteq Node
      /\ ~(Cardinality(instructionGroups[g]) > 1)
  BY GroupFacts DEF isTaskValid
<1>2. IsFiniteSet(Node) /\ Len(prog) \in Nat
  BY FS_Interval DEF Node, OrderInv, OptInv, OptTypeOK, BuildTypeOK
<1>3. IsFiniteSet(instructionGroups[g])
  BY <1>1, <1>2, FS_Subset
<1>4. SUFFICES ASSUME NEW i \in instructionGroups[g], i # g PROVE FALSE
  BY <1>1
<1>5. {i, g} \subseteq instructionGroups[g]
  BY <1>1
<1>6. Cardinality({i, g}) = 2
  <2>1. IsFiniteSet({g}) /\ Cardinality({g}) = 1
    BY FS_Singleton
  <2>2. Cardinality({g} \cup {i}) = 2
    BY <2>1, <1>4, FS_AddElement
  <2>3. {i, g} = {g} \cup {i}
    OBVIOUS
  <2> QED BY <2>2, <2>3
<1>7. Cardinality({i, g}) <= Cardinality(instructionGroups[g]) /\ Cardinality(instructionGroups[g]) \in Nat
  BY <1>3, <1>5, FS_Subset, FS_CardinalityType
<1> QED BY <1>1, <1>6, <1>7

\* The thread goes on at the next group with something left to do: what it
\* passes has nothing.
LEMMA NextGroupFacts ==
  ASSUME OrderInv, pass \in {"written", "run", "finished"}, NEW g \in Nat, NEW st
  PROVE  /\ NextGroup(g, st) \in Groups \cup {End}
         /\ NextGroup(g, st) # End => g <= NextGroup(g, st)
         /\ \A h \in Groups : g <= h /\ h < NextGroup(g, st) =>
              \A i \in instructionGroups[h] : st[i] # "todo"
<1> DEFINE left == {h \in Groups : h >= g /\ \E i \in instructionGroups[h] : st[i] = "todo"}
<1>1. Node \subseteq Nat /\ \A h \in Groups : h \in Node /\ h \in Nat
  BY GroupFacts
<1>2. CASE left = {}
  <2>1. NextGroup(g, st) = End
    BY <1>2 DEF NextGroup
  <2> QED BY <2>1, <1>1, <1>2
<1>3. CASE left # {}
  <2>1. left \subseteq Nat
    BY <1>1
  <2>2. \E h \in left : \A k \in left : h <= k
    BY <1>3, <2>1, LeastNat
  <2>3. NextGroup(g, st) = CHOOSE h \in left : \A k \in left : h <= k
    BY <1>3 DEF NextGroup
  <2>4. PICK n : n = NextGroup(g, st)
    OBVIOUS
  <2>5. n \in left /\ \A k \in left : n <= k
    BY <2>2, <2>3, <2>4
  <2>6. ASSUME NEW h \in Groups, g <= h, h < n, NEW i \in instructionGroups[h], st[i] = "todo"
        PROVE  FALSE
    <3>1. h \in left /\ h \in Nat /\ n \in Nat
      BY <2>6, <1>1, <2>5
    <3> QED BY <3>1, <2>5, <2>6
  <2>7. n \in Groups /\ g <= n
    BY <2>5, <1>1
  <2> QED BY <2>4, <2>6, <2>7
<1> QED BY <1>2, <1>3

-----------------------------------------------------------------------------
(***************************************************************************)
(* RunInv is inductive.                                                    *)
(***************************************************************************)

LEMMA RunInvInit == OmpInit => RunInv
<1> SUFFICES ASSUME OmpInit PROVE RunInv
  OBVIOUS
<1>1. OrderInv /\ pass = "build"
  BY OrderInvInit DEF OmpInit, OrderInit, OptInit
<1>2. Len(prog) \in Nat
  BY <1>1 DEF OrderInv, OptInv, OptTypeOK, BuildTypeOK
<1>3. /\ status \in [Node -> {"todo", "running", "done", "skipped"}]
      /\ at \in 1..End /\ created = {} /\ \A i \in Node : status[i] = "todo"
  BY <1>2 DEF OmpInit, End
<1> QED BY <1>1, <1>3 DEF RunInv, OmpTypeOK, NothingLost

\* Nothing runs while the program is compiled.
LEMMA CompileKeeps ==
  ASSUME RunInv, compile
  PROVE  /\ RunInv' /\ prog' = prog
<1>1. OrderInv' /\ UNCHANGED <<status, at, created>>
  BY OrderInvStep DEF RunInv, compile, runVars
<1>2. /\ prog' = prog /\ pass \notin {"run", "finished"} /\ pass' \notin {"run", "finished"}
  <2>1. stack # <<>> => pass = "optimize"
    BY DEF RunInv, OrderInv, OptInv, PassesInOrder
  <2>2. CASE OptNext
    <3>1. CASE generateGraph
      BY <3>1 DEF generateGraph, InstructionToGraph
    <3>2. CASE optimizeGraph
      BY <3>2 DEF optimizeGraph, buildVars
    <3>3. CASE transitiveReduction \/ FuseStep
      BY <2>1, <3>3 DEF transitiveReduction, FuseStep
    <3>4. CASE FuseNext \/ nodesComputeInOut
      BY <2>1, <3>4 DEF FuseNext, nodesComputeInOut, buildVars
    <3> QED BY <2>2, <3>1, <3>2, <3>3, <3>4 DEF OptNext
  <2>3. CASE startUpdate \/ abort \/ modifyFile
    BY <2>3 DEF startUpdate, abort, modifyFile, buildVars
  <2>4. CASE updateInstructionOrderNode
    BY <2>4 DEF updateInstructionOrderNode, optVars, buildVars
  <2> QED BY <2>2, <2>3, <2>4 DEF compile, OrderNext
<1>3. Node' = Node /\ End' = End
  BY <1>2, ProgramOrderKept
<1>4. created = {} /\ \A i \in Node : status[i] = "todo"
  BY <1>2 DEF RunInv
<1>5. OmpTypeOK'
  BY <1>1, <1>3, <1>4 DEF RunInv, OmpTypeOK
<1>6. NothingLost'
  BY <1>2 DEF NothingLost
<1> QED BY <1>1, <1>2, <1>3, <1>4, <1>5, <1>6 DEF RunInv

\* A change of pass after the output is written.
LEMMA PassChange ==
  ASSUME OrderInv, pass \in {"written", "run"}, pass' \in {"run", "finished"},
         UNCHANGED <<buildVars, stack, nodeVars, clauseVars, managerVars, pending>>
  PROVE  OrderInv' /\ UNCHANGED Output
<1>1. OptInv'
  BY LaterPass DEF OrderInv
<1>2. /\ UNCHANGED <<prog, group, instructionLinks, instructionGroups, nodesGroup, pending>>
      /\ UNCHANGED Output
  BY DEF buildVars, nodeVars, managerVars, clauseVars, Output
<1>3. MapsAgree'
  BY <1>2, MapsUnchanged, OrderInvParts
<1>4. /\ Live' = Live /\ Node' = Node
      /\ \A n : (Fused(n)' <=> Fused(n)) /\ Statements(n)' = Statements(n)
      /\ \A i : (Untouched(i)' <=> Untouched(i)) /\ (hasNode(i)' <=> hasNode(i))
  BY <1>2 DEF Live, Node, Fused, Untouched, hasNode, Statements, Registered, Last
<1>5. ManagerInv'
  BY <1>2, <1>4 DEF ManagerInv, OrderInv
<1> QED BY <1>1, <1>2, <1>3, <1>5, OrderInvParts, PTL

LEMMA LaunchKeeps ==
  ASSUME RunInv, launch
  PROVE  RunInv' /\ prog' = prog
<1>1. /\ pass = "written" /\ pass' = "run" /\ UNCHANGED <<status, created>>
      /\ \A i \in Node : prog[i].kind # "for"
      /\ OnlyCovered => Covered
      /\ at' = NextGroup(1, status)
  BY DEF launch
<1>2. OrderInv /\ created = {} /\ \A i \in Node : status[i] = "todo"
  BY <1>1 DEF RunInv
<1>3. OrderInv' /\ UNCHANGED Output
  BY <1>1, <1>2, PassChange DEF launch
<1>4. prog' = prog /\ instructionGroups' = instructionGroups /\ Node' = Node /\ End' = End
  BY <1>3, ProgramOrderKept DEF Output
<1>5. Groups' = Groups /\ (Covered' <=> Covered)
  BY <1>3, OutputKept
<1>6. /\ Node \subseteq Nat /\ End \in Nat /\ \A i \in Node : i < End /\ i # 0
      /\ \A g \in Groups : g \in Node /\ instructionGroups[g] \subseteq Node
                           /\ g \in instructionGroups[g]
  BY <1>1, <1>2, GroupFacts
<1>7. /\ at' \in Groups \cup {End} /\ (at' # End => 1 <= at')
      /\ \A h \in Groups : 1 <= h /\ h < at' => \A i \in instructionGroups[h] : status[i] # "todo"
  BY <1>1, <1>2, NextGroupFacts
<1>8. \A i \in Node : status'[i] = "todo"
  BY <1>1, <1>2
<1>9. at' \in 1..End
  <2>1. at' = End \/ (at' \in Node /\ 1 <= at' /\ at' < End /\ at' \in Nat)
    BY <1>6, <1>7
  <2>2. End >= 1 /\ End \in Nat
    BY <1>2 DEF End, OrderInv, OptInv, OptTypeOK, BuildTypeOK
  <2> QED BY <2>1, <2>2
<1>10. OmpTypeOK'
  BY <1>1, <1>2, <1>4, <1>9 DEF RunInv, OmpTypeOK
<1>11. ASSUME NEW g \in Groups, g < at' PROVE FALSE
  <2>1. g \in instructionGroups[g] /\ g \in Node
    BY <1>6
  <2>2. g \in Nat /\ g # 0
    BY <2>1, <1>6
  <2>3. 1 <= g
    BY <2>2
  <2> QED BY <2>1, <2>3, <1>2, <1>7, <1>11
<1>12. \A g \in Groups : ~Started(g)'
  BY <1>4, <1>6, <1>8 DEF Started
<1>13. ThreadInv'
  BY <1>4, <1>5, <1>7, <1>11, <1>12 DEF ThreadInv
<1>14. SkipInv'
  BY <1>4, <1>5, <1>6, <1>8 DEF SkipInv
<1>15. FollowInv'
  BY <1>5, <1>12 DEF FollowInv
<1>16. NothingLost'
  BY <1>1 DEF NothingLost
<1> QED BY <1>1, <1>3, <1>4, <1>5, <1>10, <1>13, <1>14, <1>15, <1>16 DEF RunInv

\* A step of the run: what it must keep.
LEMMA RunStepKeeps ==
  ASSUME RunInv, pass = "run", UNCHANGED orderVars,
         OmpTypeOK', ThreadInv', SkipInv', FollowInv'
  PROVE  RunInv'
<1>1. OrderInv' /\ pass' = pass /\ UNCHANGED Output
  BY OrderStutter DEF RunInv, orderVars, optVars, Output, buildVars, managerVars, clauseVars
<1>2. prog' = prog /\ Node' = Node /\ (Covered' <=> Covered)
  BY <1>1, OutputKept, ProgramOrderKept DEF Output
<1> QED BY <1>1, <1>2 DEF RunInv, NothingLost

\* What is known while the program runs.
LEMMA RunFacts ==
  ASSUME RunInv, pass = "run", UNCHANGED orderVars
  PROVE  /\ OrderInv /\ UNCHANGED Output /\ pass' = "run"
         /\ prog' = prog /\ instructionGroups' = instructionGroups
         /\ Node' = Node /\ End' = End /\ Groups' = Groups
         /\ \A g : isTaskValid(g)' <=> isTaskValid(g)
         /\ \A g, h : Follows(g, h)' <=> Follows(g, h)
         /\ OmpTypeOK /\ ThreadInv /\ SkipInv /\ FollowInv
<1>1. UNCHANGED Output /\ pass' = pass
  BY DEF orderVars, optVars, Output, buildVars, managerVars, clauseVars
<1> QED BY <1>1, OutputKept, ProgramOrderKept DEF RunInv, Output

\* The thread goes on behind the group it is at.
LEMMA ThreadMoves ==
  ASSUME OrderInv, pass = "run", at \in Groups, NEW st, at' = NextGroup(at + 1, st)
  PROVE  /\ at' \in Groups \cup {End} /\ at' \in 1..End /\ at < at' /\ at' \in Nat
         /\ \A g \in Groups : at < g /\ g < at' => \A i \in instructionGroups[g] : st[i] # "todo"
<1>1. /\ Node \subseteq Nat /\ End \in Nat /\ 0 \notin Node
      /\ \A g \in Groups : g \in Node /\ g < End
  BY GroupFacts
<1>2. at \in Nat /\ at + 1 \in Nat /\ at < End /\ at # 0
  <2>1. at \in Node /\ at < End
    BY <1>1
  <2>2. at \in Nat /\ at # 0
    BY <2>1, <1>1
  <2> QED BY <2>1, <2>2
<1>3. /\ at' \in Groups \cup {End} /\ (at' # End => at + 1 <= at')
      /\ \A g \in Groups : at + 1 <= g /\ g < at' => \A i \in instructionGroups[g] : st[i] # "todo"
  BY <1>2, NextGroupFacts
<1>4. at' \in Nat /\ at' <= End
  <2>1. CASE at' = End
    BY <2>1, <1>1
  <2>2. CASE at' \in Groups
    <3>1. at' \in Node /\ at' < End
      BY <2>2, <1>1
    <3>2. at' \in Nat
      BY <3>1, <1>1
    <3> QED BY <3>1, <3>2, <1>1
  <2> QED BY <2>1, <2>2, <1>3
<1>5. at < at' /\ at' \in 1..End
  BY <1>1, <1>2, <1>3, <1>4
<1>6. \A g \in Groups : at < g => at + 1 <= g
  BY <1>1, <1>2
<1> QED BY <1>3, <1>4, <1>5, <1>6

LEMMA CreateTaskKeeps ==
  ASSUME RunInv, createTask
  PROVE  RunInv'
<1>1. /\ pass = "run" /\ at # End /\ isTaskValid(at) /\ created' = created \cup {at}
      /\ at' = NextGroup(at + 1, status) /\ UNCHANGED orderVars /\ status' = status
  BY DEF createTask
<1>2. /\ OrderInv /\ UNCHANGED Output /\ pass' = "run"
      /\ prog' = prog /\ instructionGroups' = instructionGroups
      /\ Node' = Node /\ End' = End /\ Groups' = Groups
      /\ \A g : isTaskValid(g)' <=> isTaskValid(g)
      /\ \A g, h : Follows(g, h)' <=> Follows(g, h)
      /\ OmpTypeOK /\ ThreadInv /\ SkipInv /\ FollowInv
  BY <1>1, RunFacts
<1>3. at \in Groups
  BY <1>1, <1>2 DEF ThreadInv
<1>4. /\ at' \in Groups \cup {End} /\ at' \in 1..End /\ at < at' /\ at' \in Nat
      /\ \A g \in Groups : at < g /\ g < at' =>
           \A i \in instructionGroups[g] : status[i] # "todo"
  BY <1>1, <1>2, <1>3, ThreadMoves
<1>5. /\ Node \subseteq Nat /\ \A g \in Groups : g \in Node /\ instructionGroups[g] \subseteq Node
      /\ \A g \in Groups : g \in instructionGroups[g]
  BY <1>1, <1>2, GroupFacts
<1>6. \A g \in Groups : g \in Nat
  BY <1>5
<1>7. /\ status \in [Node -> {"todo", "running", "done", "skipped"}]
      /\ created \subseteq {g \in Groups : g < at /\ isTaskValid(g)}
  BY <1>2 DEF OmpTypeOK
<1>8. OmpTypeOK'
  <2>1. \A g \in created' : g \in Groups /\ isTaskValid(g) /\ g < at'
    BY <1>1, <1>3, <1>4, <1>6, <1>7
  <2> QED BY <2>1, <1>1, <1>2, <1>4, <1>7 DEF OmpTypeOK
<1>9. /\ \A g \in Groups : GroupOver(g)' <=> GroupOver(g)
      /\ \A g \in Groups : Started(g)' <=> Started(g)
  BY <1>1, <1>2 DEF GroupOver, Started
<1>10. ASSUME NEW g \in Groups, g < at' PROVE g \in created' \/ GroupOver(g)
  <2>1. CASE g < at
    BY <2>1, <1>1, <1>2 DEF ThreadInv
  <2>2. CASE g = at
    BY <2>2, <1>1
  <2>3. CASE at < g
    <3>1. ~Started(g) /\ \A i \in instructionGroups[g] : status[i] # "todo" /\ i \in Node
      BY <2>3, <1>2, <1>4, <1>5, <1>10 DEF ThreadInv
    <3> QED BY <3>1, <1>7 DEF Started, GroupOver
  <2> QED BY <2>1, <2>2, <2>3, <1>3, <1>6
<1>11. ASSUME NEW g \in Groups, g > at' \/ g = at' PROVE ~Started(g)
  <2>1. g > at
    BY <1>3, <1>4, <1>6, <1>11
  <2> QED BY <2>1, <1>2 DEF ThreadInv
<1>12. ThreadInv'
  BY <1>2, <1>4, <1>9, <1>10, <1>11 DEF ThreadInv
<1>13. SkipInv'
  <2>1. ASSUME NEW g \in Groups, g = at' PROVE status[g] # "running"
    BY <1>5, <1>11, <2>1 DEF Started
  <2> QED BY <2>1, <1>1, <1>2 DEF SkipInv
<1>14. FollowInv'
  BY <1>2, <1>9 DEF FollowInv
<1> QED BY <1>1, <1>8, <1>12, <1>13, <1>14, RunStepKeeps

\* When a statement of group h starts, the groups that h follows are over:
\* the taskwait or the depend clauses have waited for them.
Starts(h) ==
  /\ pass = "run" /\ h \in Groups
  /\ \/ h = at /\ ~isTaskValid(h) /\ \A g \in created : WaitsFor(h, g) => Complete(g)
     \/ h \in created /\ taskReady(h)

LEMMA StartsAfter ==
  ASSUME RunInv, NEW h \in Groups, Starts(h), NEW g \in Groups, Follows(g, h)
  PROVE  GroupOver(g)
<1>1. OmpTypeOK /\ ThreadInv /\ OrderInv /\ pass = "run"
  BY DEF RunInv, Starts
<1>2. \A k \in Groups : k \in Nat
  BY <1>1, GroupFacts
<1>3. \A k \in created : k \in Groups /\ k < at /\ isTaskValid(k)
  BY <1>1 DEF OmpTypeOK
<1>4. at \in Nat
  BY <1>1, GroupFacts DEF OmpTypeOK
<1>5. g < at
  BY <1>2, <1>3, <1>4 DEF Starts, Follows
<1>6. CASE g \in created
  <2>1. isTaskValid(g)
    BY <1>3, <1>6
  <2>2. Complete(g)
    BY <2>1, <1>3, <1>6 DEF Starts, Follows, taskReady
  <2> QED BY <2>2 DEF Complete, GroupOver
<1>7. CASE g \notin created
  BY <1>1, <1>5, <1>7 DEF ThreadInv
<1> QED BY <1>6, <1>7

LEMMA StartKeeps ==
  ASSUME RunInv, NEW h \in Groups, Starts(h), NEW x \in instructionGroups[h],
         status[x] = "todo", status' = [status EXCEPT ![x] = "running"],
         UNCHANGED <<orderVars, at, created>>
  PROVE  RunInv'
<1>1. pass = "run" /\ UNCHANGED orderVars /\ at' = at /\ created' = created
  BY DEF Starts
<1>2. /\ OrderInv /\ UNCHANGED Output /\ pass' = "run"
      /\ prog' = prog /\ instructionGroups' = instructionGroups
      /\ Node' = Node /\ End' = End /\ Groups' = Groups
      /\ \A g : isTaskValid(g)' <=> isTaskValid(g)
      /\ \A g, k : Follows(g, k)' <=> Follows(g, k)
      /\ OmpTypeOK /\ ThreadInv /\ SkipInv /\ FollowInv
  BY <1>1, RunFacts
<1>3. /\ \A g \in Groups : g \in Nat /\ g \in Node /\ instructionGroups[g] \subseteq Node
                           /\ g \in instructionGroups[g]
      /\ \A g \in Groups : \A i \in instructionGroups[g] : instructionLinks[i] = g
  BY <1>1, <1>2, GroupFacts
<1>4. /\ status \in [Node -> {"todo", "running", "done", "skipped"}]
      /\ \A g \in created : g \in Groups /\ g < at /\ isTaskValid(g)
      /\ at \in Nat
  BY <1>1, <1>2, GroupFacts DEF OmpTypeOK
<1>5. x \in Node /\ status'[x] = "running" /\ \A i \in Node : i # x => status'[i] = status[i]
  BY <1>3, <1>4
<1>6. \A g \in Groups : g # h => \A i \in instructionGroups[g] : i # x /\ i \in Node
  BY <1>3
<1>7. ASSUME NEW g \in Groups PROVE GroupOver(g)' <=> GroupOver(g)
  <2>1. CASE g = h
    BY <2>1, <1>2, <1>5 DEF GroupOver
  <2>2. CASE g # h
    BY <2>2, <1>2, <1>5, <1>6 DEF GroupOver
  <2> QED BY <2>1, <2>2
<1>8. \A g \in Groups : g # h => (Started(g)' <=> Started(g))
  BY <1>2, <1>5, <1>6 DEF Started
<1>9. OmpTypeOK'
  <2>1. status' \in [Node -> {"todo", "running", "done", "skipped"}]
    BY <1>4, <1>5
  <2> QED BY <2>1, <1>1, <1>2 DEF OmpTypeOK
<1>10. h = at \/ h < at
  BY <1>4 DEF Starts
<1>11. h = at => ~isTaskValid(h)
  BY <1>4 DEF Starts
<1>12. ThreadInv'
  <2>1. \A g \in Groups : g > at \/ (g = at /\ isTaskValid(g)) => g # h
    BY <1>3, <1>4, <1>10, <1>11
  <2>2. \A g \in Groups : g > at \/ (g = at /\ isTaskValid(g)) => ~Started(g)'
    BY <2>1, <1>2, <1>8 DEF ThreadInv
  <2> QED BY <2>2, <1>1, <1>2, <1>7 DEF ThreadInv
<1>13. SkipInv'
  <2>1. \A i \in Node : ~(status[i] = "skipped" /\ prog[i].scope = 0)
    BY <1>2, <1>5 DEF SkipInv
  <2>2. \A i \in Node' : ~(status'[i] = "skipped" /\ prog'[i].scope = 0)
    BY <2>1, <1>2, <1>5
  <2>3. ASSUME NEW g \in Groups, g = at, status'[g] = "running", prog[g].kind = "goto",
               NEW k \in created
        PROVE  \A i \in instructionGroups[k] : status'[i] = "done"
    <3>1. CASE h = at
      <4>1. \A c \in created : Complete(c)
        <5>1. \A c : WaitsFor(h, c)
          BY <2>3, <3>1 DEF WaitsFor
        <5> QED BY <5>1, <3>1, <1>4 DEF Starts
      <4>2. k # h /\ k \in Groups
        BY <3>1, <1>4
      <4> QED BY <4>1, <4>2, <1>5, <1>6 DEF Complete
    <3>2. CASE h # at
      <4>1. h \in created /\ g # h
        BY <3>2, <2>3 DEF Starts
      <4>2. status[g] = "running"
        BY <4>1, <2>3, <1>3, <1>5, <1>6
      <4>3. Complete(h)
        BY <4>1, <4>2, <2>3, <1>2 DEF SkipInv
      <4> QED BY <4>3 DEF Complete
    <3> QED BY <3>1, <3>2
  <2> QED BY <2>2, <2>3, <1>1, <1>2 DEF SkipInv, Complete
<1>14. FollowInv'
  <2>1. ASSUME NEW g \in Groups, NEW k \in Groups, Follows(g, k), Started(k)'
        PROVE  GroupOver(g)
    <3>1. CASE k = h
      BY <3>1, <2>1, StartsAfter
    <3>2. CASE k # h
      BY <3>2, <2>1, <1>2, <1>8 DEF FollowInv
    <3> QED BY <3>1, <3>2
  <2> QED BY <2>1, <1>2, <1>7 DEF FollowInv
<1> QED BY <1>1, <1>9, <1>12, <1>13, <1>14, RunStepKeeps

LEMMA TaskEndKeeps ==
  ASSUME RunInv, taskEnd
  PROVE  RunInv'
<1>0. PICK h \in created : \E i \in instructionGroups[h] :
        status[i] = "running" /\ status' = [status EXCEPT ![i] = "done"]
  BY DEF taskEnd
<1>1. PICK x \in instructionGroups[h] :
        status[x] = "running" /\ status' = [status EXCEPT ![x] = "done"]
  BY <1>0
<1>2. pass = "run" /\ UNCHANGED orderVars /\ at' = at /\ created' = created
  BY DEF taskEnd
<1>3. /\ OrderInv /\ UNCHANGED Output /\ pass' = "run"
      /\ prog' = prog /\ instructionGroups' = instructionGroups
      /\ Node' = Node /\ End' = End /\ Groups' = Groups
      /\ \A g : isTaskValid(g)' <=> isTaskValid(g)
      /\ \A g, k : Follows(g, k)' <=> Follows(g, k)
      /\ OmpTypeOK /\ ThreadInv /\ SkipInv /\ FollowInv
  BY <1>2, RunFacts
<1>4. /\ status \in [Node -> {"todo", "running", "done", "skipped"}]
      /\ \A g \in created : g \in Groups /\ g < at
      /\ at \in Nat
  BY <1>2, <1>3, GroupFacts DEF OmpTypeOK
<1>5. /\ \A g \in Groups : g \in Nat /\ g \in Node /\ instructionGroups[g] \subseteq Node
                           /\ g \in instructionGroups[g]
      /\ \A g \in Groups : \A i \in instructionGroups[g] : instructionLinks[i] = g
      /\ h \in Groups
  BY <1>2, <1>3, <1>4, GroupFacts
<1>6. x \in Node /\ status'[x] = "done" /\ \A i \in Node : i # x => status'[i] = status[i]
  BY <1>1, <1>4, <1>5
<1>7. \A g \in Groups : (GroupOver(g) => GroupOver(g)') /\ (Started(g)' <=> Started(g))
  <2> SUFFICES ASSUME NEW g \in Groups
               PROVE  (GroupOver(g) => GroupOver(g)') /\ (Started(g)' <=> Started(g))
    OBVIOUS
  <2>1. \A i \in instructionGroups[g] : i \in Node
    BY <1>5
  <2>2. GroupOver(g) => GroupOver(g)'
    BY <2>1, <1>3, <1>6 DEF GroupOver
  <2>3. \A i \in instructionGroups[g] :
          status'[i] \in {"running", "done"} <=> status[i] \in {"running", "done"}
    BY <2>1, <1>1, <1>6
  <2> QED BY <2>2, <2>3, <1>3 DEF Started
<1>8. OmpTypeOK'
  <2>1. status' \in [Node -> {"todo", "running", "done", "skipped"}]
    BY <1>1, <1>4, <1>6
  <2> QED BY <2>1, <1>2, <1>3 DEF OmpTypeOK
<1>9. ThreadInv'
  BY <1>2, <1>3, <1>7 DEF ThreadInv
<1>10. SkipInv'
  <2>1. \A i \in Node : ~(status[i] = "skipped" /\ prog[i].scope = 0)
    BY <1>1, <1>3, <1>6 DEF SkipInv
  <2>2. \A i \in Node' : ~(status'[i] = "skipped" /\ prog'[i].scope = 0)
    BY <2>1, <1>3, <1>6
  <2>3. ASSUME NEW g \in Groups, g = at, status'[g] = "running", prog[g].kind = "goto",
               NEW k \in created
        PROVE  \A i \in instructionGroups[k] : status'[i] = "done"
    <3>1. status[g] = "running"
      BY <2>3, <1>5, <1>6
    <3>2. Complete(k) /\ k \in Groups
      BY <3>1, <2>3, <1>3, <1>4 DEF SkipInv
    <3> QED BY <3>2, <1>5, <1>6 DEF Complete
  <2> QED BY <2>2, <2>3, <1>2, <1>3 DEF SkipInv, Complete
<1>11. FollowInv'
  BY <1>3, <1>7 DEF FollowInv
<1> QED BY <1>2, <1>8, <1>9, <1>10, <1>11, RunStepKeeps

\* The statements that are not executed after the inline group at are inside
\* it; after a goto they are all that is left to do.
LEMMA NotTakenFacts ==
  ASSUME RunInv, pass = "run", at \in Groups, status[at] = "running", NEW K \in NotTaken(at)
  PROVE  /\ prog[at].kind = "if" => K \subseteq Inside(at)
         /\ prog[at].kind = "goto" =>
              K = {i \in Node : status[i] = "todo" /\ instructionLinks[i] \notin created}
         /\ prog[at].kind \notin {"if", "goto"} => K = {}
<1>1. BuildTypeOK /\ at \in Node /\ OrderInv
  BY GroupFacts DEF RunInv, OrderInv, OptInv, OptTypeOK
<1>2. ASSUME prog[at].kind = "if" PROVE K \subseteq Inside(at)
  <2> DEFINE branches == {b \in Node : prog[b].scope = at}
  <2>1. PICK T \in SUBSET branches :
          K = (branches \ T) \cup UNION {Inside(b) : b \in branches \ T}
    BY <1>2 DEF NotTaken
  <2>2. \A b \in branches : b \in Node /\ at \in Around[b]
    BY <1>1, AroundNode
  <2>3. branches \subseteq Inside(at)
    BY <2>2 DEF Inside
  <2>4. ASSUME NEW b \in branches, NEW i \in Inside(b) PROVE i \in Inside(at)
    BY <2>2, <1>1, AroundTrans DEF Inside
  <2> QED BY <2>1, <2>3, <2>4
<1>3. prog[at].kind = "goto" =>
        K = {i \in Node : status[i] = "todo" /\ instructionLinks[i] \notin created}
  BY DEF NotTaken, GroupNumber
<1>4. prog[at].kind \notin {"if", "goto"} => K = {}
  BY DEF NotTaken
<1> QED BY <1>2, <1>3, <1>4

\* What is inside the statement at is in later groups, so it has not started,
\* and it is not a statement of the body itself.
LEMMA InsideLater ==
  ASSUME RunInv, pass = "run", at \in Groups, NEW i \in Inside(at)
  PROVE  /\ i \in Node /\ at < instructionLinks[i] /\ prog[i].scope # 0
         /\ status[i] \in {"todo", "skipped"}
<1>1. BuildTypeOK /\ OrderInv /\ OmpTypeOK /\ ThreadInv
  BY DEF RunInv, OrderInv, OptInv, OptTypeOK
<1>2. /\ at \in Node /\ Node \subseteq Nat /\ 0 \notin Node
      /\ \A x \in Node : /\ instructionLinks[x] \in Groups /\ instructionLinks[x] \in Node
                         /\ x \in instructionGroups[instructionLinks[x]]
                         /\ x <= instructionLinks[x]
  BY <1>1, GroupFacts
<1>3. i \in Node /\ at \in Around[i]
  BY DEF Inside
<1>4. at < i
  BY <1>1, <1>3, AroundSmaller
<1>5. instructionLinks[i] \in Nat /\ i \in Nat /\ at \in Nat
  BY <1>2, <1>3
<1>6. at < instructionLinks[i]
  BY <1>2, <1>3, <1>4, <1>5
<1>7. ~Started(instructionLinks[i])
  BY <1>1, <1>2, <1>3, <1>5, <1>6 DEF ThreadInv
<1>8. status[i] \in {"todo", "skipped"}
  BY <1>1, <1>2, <1>3, <1>7 DEF Started, OmpTypeOK
<1>9. prog[i].scope # 0
  BY <1>1, <1>2, <1>3, AroundNode
<1> QED BY <1>3, <1>6, <1>8, <1>9

LEMMA InlineEndKeeps ==
  ASSUME RunInv, inlineEnd
  PROVE  RunInv'
<1>1. PICK K \in NotTaken(at) :
        /\ status' = [i \in Node |-> IF i = at THEN "done"
                                     ELSE IF i \in K THEN "skipped" ELSE status[i]]
        /\ at' = NextGroup(at + 1, status')
  BY DEF inlineEnd
<1>2. /\ pass = "run" /\ at # End /\ status[at] = "running" /\ UNCHANGED orderVars
      /\ created' = created
  BY DEF inlineEnd
<1>3. /\ OrderInv /\ UNCHANGED Output /\ pass' = "run"
      /\ prog' = prog /\ instructionGroups' = instructionGroups
      /\ Node' = Node /\ End' = End /\ Groups' = Groups
      /\ \A g : isTaskValid(g)' <=> isTaskValid(g)
      /\ \A g, k : Follows(g, k)' <=> Follows(g, k)
      /\ OmpTypeOK /\ ThreadInv /\ SkipInv /\ FollowInv
  BY <1>2, RunFacts
<1>4. at \in Groups
  BY <1>2, <1>3 DEF ThreadInv
<1>5. /\ \A g \in Groups : g \in Nat /\ g \in Node /\ instructionGroups[g] \subseteq Node
                           /\ g \in instructionGroups[g]
      /\ \A g \in Groups : \A i \in instructionGroups[g] : instructionLinks[i] = g
      /\ \A i \in Node : instructionLinks[i] \in Groups /\ i \in instructionGroups[instructionLinks[i]]
  BY <1>2, <1>3, GroupFacts
<1>6. /\ status \in [Node -> {"todo", "running", "done", "skipped"}]
      /\ \A g \in created : g \in Groups /\ g < at /\ isTaskValid(g)
      /\ at \in Nat /\ at \in Node
  BY <1>3, <1>4, <1>5 DEF OmpTypeOK
<1>7. ~isTaskValid(at) /\ instructionGroups[at] = {at}
  <2>1. Started(at)
    BY <1>2, <1>4, <1>5 DEF Started
  <2>2. ~isTaskValid(at)
    BY <2>1, <1>3, <1>4 DEF ThreadInv
  <2> QED BY <2>2, <1>2, <1>3, <1>4, InlineGroup
<1>8. /\ at' \in Groups \cup {End} /\ at' \in 1..End /\ at < at' /\ at' \in Nat
      /\ \A g \in Groups : at < g /\ g < at' =>
           \A i \in instructionGroups[g] : status'[i] # "todo"
  <2>1. PICK st : st = status'
    OBVIOUS
  <2>2. at' = NextGroup(at + 1, st)
    BY <1>1, <2>1
  <2>3. /\ at' \in Groups \cup {End} /\ at' \in 1..End /\ at < at' /\ at' \in Nat
        /\ \A g \in Groups : at < g /\ g < at' =>
             \A i \in instructionGroups[g] : st[i] # "todo"
    BY <2>2, <1>2, <1>3, <1>4, ThreadMoves
  <2> QED BY <2>1, <2>3
<1>9. /\ prog[at].kind = "if" => K \subseteq Inside(at)
      /\ prog[at].kind = "goto" =>
           K = {i \in Node : status[i] = "todo" /\ instructionLinks[i] \notin created}
      /\ prog[at].kind \notin {"if", "goto"} => K = {}
  BY <1>2, <1>4, NotTakenFacts
<1>10. \A i \in Node : i \in K => status[i] \in {"todo", "skipped"}
  BY <1>2, <1>4, <1>9, InsideLater
<1>11. \A i \in Node :
         /\ status'[i] = status[i] \/ (status'[i] = "skipped" /\ status[i] = "todo" /\ i \in K) 
              \/ (i = at /\ status'[i] = "done")
         /\ i # at => (status'[i] \in {"running", "done"} <=> status[i] \in {"running", "done"})
  BY <1>1, <1>10
<1>12. status' \in [Node -> {"todo", "running", "done", "skipped"}] /\ status'[at] = "done"
  BY <1>1, <1>6
<1>13. OmpTypeOK'
  <2>1. ASSUME NEW g \in created PROVE g < at'
    <3>1. g \in Nat /\ g < at
      BY <1>5, <1>6
    <3> QED BY <3>1, <1>6, <1>8
  <2> QED BY <2>1, <1>2, <1>3, <1>6, <1>8, <1>12 DEF OmpTypeOK
<1>14. ASSUME NEW g \in Groups PROVE GroupOver(g) => GroupOver(g)'
  <2>1. \A i \in instructionGroups[g] : i \in Node
    BY <1>5
  <2> QED BY <2>1, <1>3, <1>11 DEF GroupOver
<1>15. \A g \in Groups : g # at => (Started(g)' <=> Started(g))
  <2> SUFFICES ASSUME NEW g \in Groups, g # at PROVE Started(g)' <=> Started(g)
    OBVIOUS
  <2>1. \A i \in instructionGroups[g] : i \in Node /\ i # at
    BY <1>4, <1>5
  <2> QED BY <2>1, <1>3, <1>11 DEF Started
<1>16. \A g \in Groups : g = at => GroupOver(g)'
  BY <1>3, <1>7, <1>12 DEF GroupOver
<1>17. ThreadInv'
  <2>1. ASSUME NEW g \in Groups, g < at' PROVE g \in created \/ GroupOver(g)'
    <3>1. CASE g < at
      BY <3>1, <1>3, <1>14 DEF ThreadInv
    <3>2. CASE g = at
      BY <3>2, <1>16
    <3>3. CASE at < g
      <4>0. g > at /\ g # at
        BY <3>3, <1>5, <1>6
      <4>1. ~Started(g) /\ g # at
        BY <4>0, <1>3 DEF ThreadInv
      <4>2. ~Started(g)'
        BY <4>1, <1>15
      <4>3. \A i \in instructionGroups[g] : status'[i] # "todo" /\ i \in Node
        BY <3>3, <2>1, <1>5, <1>8
      <4> QED BY <4>2, <4>3, <1>3, <1>12 DEF Started, GroupOver
    <3> QED BY <3>1, <3>2, <3>3, <1>5, <1>6
  <2>2. ASSUME NEW g \in Groups, g > at' \/ g = at' PROVE ~Started(g)'
    <3>1. g > at /\ g # at
      BY <2>2, <1>5, <1>6, <1>8
    <3> QED BY <3>1, <1>3, <1>15 DEF ThreadInv
  <2> QED BY <2>1, <2>2, <1>2, <1>3, <1>8 DEF ThreadInv
<1>18. \A g \in Groups : g = at' => status'[g] # "running"
  <2> SUFFICES ASSUME NEW g \in Groups, g = at' PROVE status'[g] # "running"
    OBVIOUS
  <2>1. g > at /\ g # at
    BY <1>5, <1>6, <1>8
  <2>2. ~Started(g)'
    BY <2>1, <1>3, <1>15 DEF ThreadInv
  <2> QED BY <2>2, <1>3, <1>5 DEF Started
<1>19. (\E i \in Node : status'[i] = "skipped" /\ prog[i].scope = 0) =>
         \A i \in Node : status'[i] \in {"done", "skipped"}
  <2>1. \A i \in Node : ~(status[i] = "skipped" /\ prog[i].scope = 0)
    BY <1>2, <1>3, <1>6 DEF SkipInv
  <2>2. CASE prog[at].kind = "goto"
    <3>1. \A h \in created : Complete(h)
      BY <2>2, <1>2, <1>3, <1>4 DEF SkipInv
    <3> SUFFICES ASSUME NEW i \in Node PROVE status'[i] \in {"done", "skipped"}
      OBVIOUS
    <3>2. PICK g \in Groups : g = instructionLinks[i] /\ i \in instructionGroups[g]
      BY <1>5
    <3>3. CASE g \in created
      <4>1. status[i] = "done"
        BY <3>1, <3>2, <3>3 DEF Complete
      <4> QED BY <4>1, <1>11
    <3>4. CASE g \notin created /\ g < at
      <4>1. status[i] \in {"done", "skipped"}
        BY <3>2, <3>4, <1>3 DEF ThreadInv, GroupOver
      <4> QED BY <4>1, <1>11
    <3>5. CASE g = at
      BY <3>2, <3>5, <1>7, <1>12
    <3>6. CASE at < g
      <4>1. status[i] \in {"todo", "skipped"}
        BY <3>2, <3>6, <1>3, <1>5, <1>6 DEF ThreadInv, Started
      <4>2. status[i] = "todo" => i \in K
        <5>1. g \notin created
          BY <3>6, <1>5, <1>6
        <5> QED BY <5>1, <3>2, <2>2, <1>9
      <4> QED BY <4>1, <4>2, <1>1
    <3> QED BY <3>3, <3>4, <3>5, <3>6, <1>5, <1>6
  <2>3. CASE prog[at].kind # "goto"
    <3>1. \A i \in K : prog[i].scope # 0
      BY <2>3, <1>2, <1>4, <1>9, InsideLater
    <3>2. \A i \in Node : ~(status'[i] = "skipped" /\ prog[i].scope = 0)
      BY <3>1, <2>1, <1>11
    <3> QED BY <3>2
  <2> QED BY <2>2, <2>3
<1>20. SkipInv'
  BY <1>3, <1>18, <1>19 DEF SkipInv
<1>21. FollowInv'
  <2>1. ASSUME NEW g \in Groups, NEW h \in Groups, Follows(g, h), Started(h)'
        PROVE  GroupOver(g)
    <3>1. Started(h)
      <4>1. CASE h = at
        BY <4>1, <1>2, <1>4, <1>5 DEF Started
      <4>2. CASE h # at
        BY <4>2, <2>1, <1>15
      <4> QED BY <4>1, <4>2
    <3> QED BY <3>1, <2>1, <1>3 DEF FollowInv
  <2> QED BY <2>1, <1>3, <1>14 DEF FollowInv
<1> QED BY <1>2, <1>13, <1>17, <1>20, <1>21, RunStepKeeps

\* At the end of the taskgroup the tasks are complete and the thread has passed
\* every group.
LEMMA TaskgroupEndKeeps ==
  ASSUME RunInv, taskgroupEnd
  PROVE  RunInv' /\ prog' = prog /\ status' = status
<1>1. /\ pass = "run" /\ pass' = "finished" /\ at = End
      /\ \A g \in created : Complete(g)
      /\ UNCHANGED <<status, at, created>>
  BY DEF taskgroupEnd, runVars
<1>2. /\ OrderInv /\ OmpTypeOK /\ ThreadInv /\ SkipInv /\ FollowInv
      /\ \A i \in Node : prog[i].kind # "for"
      /\ OnlyCovered => Covered
  BY <1>1 DEF RunInv
<1>3. OrderInv' /\ UNCHANGED Output
  BY <1>1, <1>2, PassChange DEF taskgroupEnd
<1>4. prog' = prog /\ instructionGroups' = instructionGroups /\ Node' = Node /\ End' = End
  BY <1>3, ProgramOrderKept DEF Output
<1>5. /\ Groups' = Groups /\ (Covered' <=> Covered)
      /\ \A g : isTaskValid(g)' <=> isTaskValid(g)
      /\ \A g, h : Follows(g, h)' <=> Follows(g, h)
  BY <1>3, OutputKept
<1>6. /\ \A g \in Groups : GroupOver(g)' <=> GroupOver(g)
      /\ \A g \in Groups : Started(g)' <=> Started(g)
      /\ \A g : Complete(g)' <=> Complete(g)
  BY <1>1, <1>4 DEF GroupOver, Started, Complete
<1>7. ThreadInv' /\ FollowInv'
  BY <1>1, <1>2, <1>4, <1>5, <1>6 DEF ThreadInv, FollowInv
<1>8. SkipInv'
  BY <1>1, <1>2, <1>4, <1>5, <1>6 DEF SkipInv
<1>9. OmpTypeOK'
  BY <1>1, <1>2, <1>4, <1>5 DEF OmpTypeOK
<1>10. NothingLost'
  <2> SUFFICES ASSUME NEW i \in Node PROVE status[i] \in {"done", "skipped"}
    BY <1>1, <1>4 DEF NothingLost
  <2>1. PICK g \in Groups : i \in instructionGroups[g] /\ g < at
    BY <1>1, <1>2, GroupFacts
  <2>2. Complete(g) \/ GroupOver(g)
    BY <2>1, <1>1, <1>2 DEF ThreadInv
  <2> QED BY <2>1, <2>2 DEF Complete, GroupOver
<1> QED BY <1>1, <1>2, <1>3, <1>4, <1>5, <1>7, <1>8, <1>9, <1>10 DEF RunInv

LEMMA RunStutter == RunInv /\ UNCHANGED vars => RunInv'
<1> SUFFICES ASSUME RunInv, UNCHANGED vars PROVE RunInv'
  OBVIOUS
<1>1. UNCHANGED <<status, at, created>> /\ UNCHANGED orderVars
  BY DEF vars, runVars
<1>2. OrderInv' /\ pass' = pass /\ UNCHANGED Output
  BY <1>1, OrderStutter DEF RunInv, orderVars, optVars, Output, buildVars, managerVars, clauseVars
<1>3. prog' = prog /\ instructionGroups' = instructionGroups /\ Node' = Node /\ End' = End
  BY <1>2, ProgramOrderKept DEF Output
<1>4. /\ Groups' = Groups /\ (Covered' <=> Covered)
      /\ \A g : isTaskValid(g)' <=> isTaskValid(g)
      /\ \A g, h : Follows(g, h)' <=> Follows(g, h)
  BY <1>2, OutputKept
<1>5. /\ \A g \in Groups : GroupOver(g)' <=> GroupOver(g)
      /\ \A g \in Groups : Started(g)' <=> Started(g)
      /\ \A g : Complete(g)' <=> Complete(g)
  BY <1>1, <1>3 DEF GroupOver, Started, Complete
<1>6. (ThreadInv' <=> ThreadInv) /\ (FollowInv' <=> FollowInv)
  BY <1>1, <1>3, <1>4, <1>5 DEF ThreadInv, FollowInv
<1>7. SkipInv' <=> SkipInv
  BY <1>1, <1>3, <1>4, <1>5 DEF SkipInv
<1>8. (OmpTypeOK' <=> OmpTypeOK) /\ (NothingLost' <=> NothingLost)
  BY <1>1, <1>2, <1>3, <1>4 DEF OmpTypeOK, NothingLost
<1> QED BY <1>1, <1>2, <1>3, <1>4, <1>6, <1>7, <1>8 DEF RunInv

\* A step that starts a statement x of group h.
StartsStatement(h, x) ==
  /\ Starts(h) /\ x \in instructionGroups[h] /\ status[x] = "todo"
  /\ \A k \in instructionGroups[h] : k < x => status[k] = "done"
  /\ status' = [status EXCEPT ![x] = "running"]
  /\ UNCHANGED <<orderVars, at, created>>

LEMMA StartSteps ==
  ASSUME RunInv, inlineStart \/ taskStart
  PROVE  \E h \in Groups : \E x \in instructionGroups[h] : StartsStatement(h, x)
<1>1. OrderInv /\ pass = "run" /\ ThreadInv /\ OmpTypeOK
  BY DEF RunInv, inlineStart, taskStart
<1>2. CASE inlineStart
  <2>1. at \in Groups /\ ~isTaskValid(at)
    BY <1>1, <1>2 DEF inlineStart, ThreadInv
  <2>2. instructionGroups[at] = {at} /\ at \in Nat
    BY <2>1, <1>1, InlineGroup, GroupFacts
  <2>3. Starts(at)
    BY <2>1, <1>2, <1>1 DEF inlineStart, Starts
  <2>4. StartsStatement(at, at)
    BY <2>2, <2>3, <1>2 DEF inlineStart, StartsStatement
  <2> QED BY <2>1, <2>2, <2>4
<1>3. CASE taskStart
  <2>1. PICK h \in created :
          /\ taskReady(h)
          /\ \E i \in instructionGroups[h] :
               /\ status[i] = "todo"
               /\ \A k \in instructionGroups[h] : k < i => status[k] = "done"
               /\ status' = [status EXCEPT ![i] = "running"]
    BY <1>3 DEF taskStart
  <2>2. h \in Groups
    BY <1>1 DEF OmpTypeOK
  <2>3. Starts(h) /\ UNCHANGED <<orderVars, at, created>>
    BY <2>1, <2>2, <1>1, <1>3 DEF Starts, taskStart
  <2> QED BY <2>1, <2>2, <2>3 DEF StartsStatement
<1> QED BY <1>2, <1>3

LEMMA RunInvStep == RunInv /\ [OmpNext]_vars => RunInv'
<1> SUFFICES ASSUME RunInv, [OmpNext]_vars PROVE RunInv'
  OBVIOUS
<1>1. CASE inlineStart \/ taskStart
  <2>1. PICK h \in Groups : \E x \in instructionGroups[h] : StartsStatement(h, x)
    BY <1>1, StartSteps
  <2>2. PICK x \in instructionGroups[h] : StartsStatement(h, x)
    BY <2>1
  <2> QED BY <2>2, StartKeeps DEF StartsStatement
<1> QED BY <1>1, CompileKeeps, LaunchKeeps, CreateTaskKeeps, InlineEndKeeps, TaskEndKeeps,
           TaskgroupEndKeeps, RunStutter DEF OmpNext
-----------------------------------------------------------------------------
(***************************************************************************)
(* The theorems about the run.                                             *)
(***************************************************************************)

\* RunInv holds from the first instruction compiled to the end of the run.
THEOREM OmpInvariance == OmpSpec => []RunInv
BY RunInvInit, RunInvStep, PTL DEF OmpSpec

\* Statements, thread and tasks stay typed, and only groups that the thread has
\* passed are tasks.
THEOREM OmpTypeCorrect == OmpSpec => []OmpTypeOK
<1>1. RunInv => OmpTypeOK
  BY DEF RunInv
<1> QED BY <1>1, OmpInvariance, PTL

\* When the taskgroup ends, every statement has run or was skipped by an if or
\* a goto.
THEOREM OmpNothingLost == OmpSpec => []NothingLost
<1>1. RunInv => NothingLost
  BY DEF RunInv
<1> QED BY <1>1, OmpInvariance, PTL

-----------------------------------------------------------------------------
(***************************************************************************)
(* The run implements OrderedStatements.                                   *)
(***************************************************************************)

\* A statement starts when those the sequential program puts before it are
\* over.  If one were not, its group would not be over; by the covering path
\* neither would a group that h follows, since a group on the path that is over
\* has been executed and so came after those it follows.
LEMMA StartsInOrder ==
  ASSUME RunInv, OnlyCovered, NEW h \in Groups, NEW x \in instructionGroups[h],
         StartsStatement(h, x), NEW r \in Node, <<r, x>> \in Before
  PROVE  status[r] \in {"done", "skipped"}
<1>1. /\ OrderInv /\ pass = "run" /\ Starts(h) /\ status[x] = "todo"
      /\ \A k \in instructionGroups[h] : k < x => status[k] = "done"
      /\ OmpTypeOK /\ ThreadInv /\ SkipInv /\ FollowInv /\ Covered
  BY DEF RunInv, StartsStatement, Starts
<1>2. /\ \A g \in Groups : g \in Nat /\ g \in Node /\ instructionGroups[g] \subseteq Node
                           /\ g \in instructionGroups[g]
      /\ \A g \in Groups : \A i \in instructionGroups[g] : instructionLinks[i] = g
      /\ instructionLinks[r] \in Groups /\ r \in instructionGroups[instructionLinks[r]]
  BY <1>1, GroupFacts
<1>3. PICK g \in Groups : g = instructionLinks[r] /\ r \in instructionGroups[g]
  BY <1>2
<1>4. x \in Node /\ instructionLinks[x] = h /\ r < x
  BY <1>2 DEF Before
<1>5. g = h \/ (g < h /\ CoveredPath(g, h))
  BY <1>1, <1>3, <1>4 DEF Covered, GroupNumber
<1>6. CASE g = h
  BY <1>1, <1>3, <1>4, <1>6
<1>7. CASE g # h
  <2> DEFINE S == {m \in Groups : ~GroupOver(m) /\ m # h}
  <2> SUFFICES ASSUME ~GroupOver(g) PROVE FALSE
    BY <1>3 DEF GroupOver
  <2>1. g \in S
    BY <1>7
  <2>2. ASSUME NEW k \in S, NEW m \in Groups, Follows(k, m), m = h \/ prog[m].scope = 0
        PROVE  m \in S
    <3>1. m # h
      <4> SUFFICES ASSUME m = h PROVE FALSE
        OBVIOUS
      <4>1. GroupOver(k)
        BY <2>2, <1>1, StartsAfter
      <4> QED BY <4>1
    <3>2. ~GroupOver(m)
      <4> SUFFICES ASSUME GroupOver(m) PROVE FALSE
        OBVIOUS
      <4>1. status[m] \in {"done", "skipped"} /\ m \in Node
        BY <1>2 DEF GroupOver
      <4>2. status[m] # "skipped"
        BY <4>1, <3>1, <2>2, <1>1, <1>4 DEF SkipInv
      <4>3. Started(m)
        BY <4>1, <4>2, <1>2 DEF Started
      <4>4. GroupOver(k)
        BY <4>3, <2>2, <1>1 DEF FollowInv
      <4> QED BY <4>4
    <3> QED BY <3>1, <3>2
  <2>3. S \in SUBSET Groups /\ h \notin S
    OBVIOUS
  <2> HIDE DEF S
  <2>4. h \in S
    BY <2>1, <2>2, <2>3, <1>5, <1>7 DEF CoveredPath
  <2> QED BY <2>3, <2>4
<1> QED BY <1>6, <1>7

\* Only statements that are still to do, and that the ended one governs, are
\* skipped.
LEMMA EndsInOrder ==
  ASSUME RunInv, OnlyCovered, inlineEnd
  PROVE  /\ at \in Node /\ status[at] = "running"
         /\ \E K \in SUBSET {i \in Governs[at] : status[i] = "todo"} :
              status' = [i \in Node |-> IF i = at THEN "done"
                                        ELSE IF i \in K THEN "skipped" ELSE status[i]]
<1>1. PICK K \in NotTaken(at) :
        status' = [i \in Node |-> IF i = at THEN "done"
                                  ELSE IF i \in K THEN "skipped" ELSE status[i]]
  BY DEF inlineEnd
<1>2. /\ OrderInv /\ pass = "run" /\ at # End /\ status[at] = "running"
      /\ OmpTypeOK /\ ThreadInv /\ SkipInv /\ Covered
  BY DEF RunInv, inlineEnd
<1>3. at \in Groups
  BY <1>2 DEF ThreadInv
<1>4. /\ at \in Node /\ at \in Nat /\ Node \subseteq Nat
      /\ \A g \in Groups : g \in Nat /\ g \in Node /\ g \in instructionGroups[g]
      /\ \A g \in Groups : \A i \in instructionGroups[g] : instructionLinks[i] = g
      /\ \A i \in Node : instructionLinks[i] \in Groups /\ i \in instructionGroups[instructionLinks[i]]
  BY <1>2, <1>3, GroupFacts
<1>5. /\ prog[at].kind = "if" => K \subseteq Inside(at)
      /\ prog[at].kind = "goto" =>
           K = {i \in Node : status[i] = "todo" /\ instructionLinks[i] \notin created}
      /\ prog[at].kind \notin {"if", "goto"} => K = {}
  BY <1>2, <1>3, NotTakenFacts
<1> DEFINE Left == {i \in K : status[i] = "todo"}
<1>6. \A i \in Node : i \in K /\ i \notin Left => status[i] = "skipped"
  BY <1>2, <1>3, <1>5, InsideLater
<1>7. status' = [i \in Node |-> IF i = at THEN "done"
                                ELSE IF i \in Left THEN "skipped" ELSE status[i]]
  <2>1. \A i \in Node : (IF i = at THEN "done" ELSE IF i \in K THEN "skipped" ELSE status[i])
                      = (IF i = at THEN "done" ELSE IF i \in Left THEN "skipped" ELSE status[i])
    BY <1>6
  <2> QED BY <2>1, <1>1
<1>8. Left \subseteq Governs[at]
  <2>1. CASE prog[at].kind = "if"
    <3>1. Governs[at] = Inside(at)
      BY <2>1, <1>4 DEF Governs, Complex
    <3> QED BY <3>1, <2>1, <1>5
  <2>2. CASE prog[at].kind = "goto"
    <3>1. Governs[at] = {i \in Node : i > at}
      BY <2>2, <1>4 DEF Governs, Complex
    <3>2. ASSUME NEW i \in K PROVE i \in Node /\ i > at
      <4>1. i \in Node /\ status[i] = "todo" /\ instructionLinks[i] \notin created /\ i # at
        BY <2>2, <3>2, <1>2, <1>5
      <4>2. ASSUME i < at PROVE FALSE
        <5>1. instructionLinks[i] < at
          BY <4>1, <4>2, <2>2, <1>2, <1>3, <1>4 DEF Covered, GroupNumber
        <5>2. GroupOver(instructionLinks[i])
          BY <5>1, <4>1, <1>2, <1>4 DEF ThreadInv
        <5> QED BY <5>2, <4>1, <1>4 DEF GroupOver
      <4> QED BY <4>1, <4>2, <1>4
    <3> QED BY <3>1, <3>2
  <2>3. CASE prog[at].kind \notin {"if", "goto"}
    BY <2>3, <1>5
  <2> QED BY <2>1, <2>2, <2>3
<1> QED BY <1>2, <1>4, <1>7, <1>8

LEMMA OrderedInit == OmpInit => Ordered!Init
<1> SUFFICES ASSUME OmpInit PROVE Ordered!Init
  OBVIOUS
<1>1. status = [i \in Node |-> "todo"] /\ DOMAIN status = Node
  BY DEF OmpInit
<1>2. Before \subseteq Node \X Node
  BY DEF Before
<1>3. Governs \in [Node -> SUBSET Node]
  BY DEF Governs, Inside
<1> QED BY <1>1, <1>2, <1>3 DEF Ordered!Init, Ordered!Statement

\* Every step of the compiler and of the run is a step of OrderedStatements or
\* leaves its variables alone.
LEMMA OrderedStep ==
  ASSUME OnlyCovered, RunInv, [OmpNext]_vars
  PROVE  [Ordered!Next]_<<status, Before, Governs>>
<1>1. DOMAIN status = Node
  BY DEF RunInv, OmpTypeOK
<1>2. prog' = prog => Before' = Before /\ Governs' = Governs
  BY ProgramOrderKept
<1>3. UNCHANGED orderVars => prog' = prog
  BY DEF orderVars, optVars, buildVars
<1>4. CASE inlineStart \/ taskStart
  <2>1. PICK h \in Groups : \E i \in instructionGroups[h] : StartsStatement(h, i)
    BY <1>4, StartSteps
  <2>2. PICK x \in instructionGroups[h] : StartsStatement(h, x)
    BY <2>1
  <2>3. x \in Node
    BY DEF RunInv, OrderInv, OrderTypeOK, Groups
  <2>4. \A r \in Node : <<r, x>> \in Before => status[r] \in {"done", "skipped"}
    BY <2>2, StartsInOrder
  <2>5. Ordered!Start(x)
    BY <2>2, <2>3, <2>4, <1>1, <1>2, <1>3
       DEF StartsStatement, Ordered!Start, Ordered!Statement, Ordered!Over
  <2> QED BY <2>3, <2>5, <1>1 DEF Ordered!Next, Ordered!Statement
<1>5. CASE inlineEnd
  <2>1. at \in Node /\ Ordered!End(at)
    BY <1>5, <1>1, <1>2, <1>3, EndsInOrder DEF Ordered!End, Ordered!Statement, inlineEnd
  <2> QED BY <2>1, <1>1 DEF Ordered!Next, Ordered!Statement
<1>6. CASE taskEnd
  <2>1. PICK h \in created : \E i \in instructionGroups[h] :
          status[i] = "running" /\ status' = [status EXCEPT ![i] = "done"]
    BY <1>6 DEF taskEnd
  <2>2. PICK x \in instructionGroups[h] :
          status[x] = "running" /\ status' = [status EXCEPT ![x] = "done"]
    BY <2>1
  <2>3. x \in Node /\ status \in [Node -> {"todo", "running", "done", "skipped"}]
    BY DEF RunInv, OmpTypeOK, OrderInv, OrderTypeOK, Groups
  <2>4. status' = [r \in Node |-> IF r = x THEN "done" ELSE IF r \in {} THEN "skipped" ELSE status[r]]
    BY <2>2, <2>3
  <2>5. \E K \in SUBSET {r \in Governs[x] : status[r] = "todo"} :
          status' = [r \in Node |-> IF r = x THEN "done" ELSE IF r \in K THEN "skipped" ELSE status[r]]
    <3> WITNESS {} \in SUBSET {r \in Governs[x] : status[r] = "todo"}
    <3> QED BY <2>4
  <2>6. UNCHANGED <<Before, Governs>>
    BY <1>2, <1>3, <1>6 DEF taskEnd
  <2>7. Ordered!End(x)
    BY <2>2, <2>5, <2>6, <1>1 DEF Ordered!End, Ordered!Statement
  <2> QED BY <2>3, <2>7, <1>1 DEF Ordered!Next, Ordered!Statement
<1>7. CASE compile
  BY <1>7, <1>2, CompileKeeps DEF compile, runVars
<1>8. CASE launch
  BY <1>8, <1>2, LaunchKeeps DEF launch
<1>9. CASE createTask
  BY <1>9, <1>2, <1>3 DEF createTask
<1>10. CASE taskgroupEnd
  BY <1>10, <1>2, TaskgroupEndKeeps
<1>11. CASE UNCHANGED vars
  BY <1>11, <1>2, <1>3 DEF vars, runVars
<1> QED BY <1>4, <1>5, <1>6, <1>7, <1>8, <1>9, <1>10, <1>11 DEF OmpNext

\* The written program, run in parallel, implements OrderedStatements whenever
\* its clauses cover every conflict: whatever the instruction list, the tasks and
\* the interleaving, a statement starts only when the sequential program's earlier
\* ones that it depends on are over, and only an if or a goto skips any.
THEOREM OmpImplementsOrder == OnlyCovered => (OmpSpec => ImplementsOrder)
<1> SUFFICES ASSUME OnlyCovered PROVE OmpSpec => ImplementsOrder
  OBVIOUS
<1>1. RunInv /\ [OmpNext]_vars => [Ordered!Next]_<<status, Before, Governs>>
  BY OrderedStep
<1> QED BY <1>1, OrderedInit, OmpInvariance, PTL
       DEF OmpSpec, ImplementsOrder, Ordered!Spec, Ordered!abstractVars

\* The proofs about OrderedStatements, for the run.
Race == INSTANCE OrderedStatementsProofs WITH before <- Before, governs <- Governs

\* So there is no data race, and no statement works on a value that is not
\* there yet, when the clauses cover every conflict.
THEOREM OmpNoDataRace == OnlyCovered => (OmpSpec => []NoDataRace)
<1> SUFFICES ASSUME OnlyCovered PROVE OmpSpec => []NoDataRace
  OBVIOUS
<1>1. Race!Spec => []Race!Sequenced
  BY Race!NoRace
<1>2. Race!Spec <=> Ordered!Spec
  BY DEF Race!Spec, Ordered!Spec, Race!Init, Ordered!Init, Race!Next, Ordered!Next, Race!abstractVars,
         Ordered!abstractVars, Race!Start, Ordered!Start, Race!End, Ordered!End,
         Race!Statement, Ordered!Statement, Race!Over, Ordered!Over
<1>3. Race!Sequenced <=> NoDataRace
  BY DEF Race!Sequenced, NoDataRace, Ordered!Sequenced, Race!Statement, Ordered!Statement,
         Race!Over, Ordered!Over
<1> QED BY <1>1, <1>2, <1>3, OmpImplementsOrder, PTL DEF ImplementsOrder
=============================================================================
