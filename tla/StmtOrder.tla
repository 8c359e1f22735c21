----------------------------- MODULE StmtOrder -----------------------------
(***************************************************************************)
(* The order manager (InstructionsOrderManager.hpp/.cpp) that decides where *)
(* each statement is written: every statement opens a group of its own when *)
(* the visitor meets it, and updateInstructionOrderFromGraph moves the      *)
(* statements of a fused node into one group and records the node there.    *)
(*                                                                         *)
(* A group is numbered by the statement that opened it.  That orders the    *)
(* groups of a scope as groupCounter does, and the groups inside an if or a *)
(* for after the one of the if or the for and before the next one around    *)
(* it: OutputHandler writes the groups in ascending order.                  *)
(***************************************************************************)
EXTENDS GraphOptimizer

VARIABLES
  instructionLinks,    \* statement |-> its group, NoGroup if not registered
  instructionGroups,   \* group |-> its statements, {} once erased
  nodesGroup,          \* group |-> the node whose clauses it is written with
  pending              \* nodes that updateInstructionOrderNode has yet to see

managerVars == <<instructionLinks, instructionGroups, nodesGroup>>
orderVars == <<optVars, managerVars, pending>>

NoGroup == 0

\* ignoreStmtPragma is set while a for's header is traversed.
Registered(i) == prog[i].kind # "header"

addInstructionToManager ==
  /\ instructionLinks = [i \in Node |-> IF Registered(i) THEN i ELSE NoGroup]
  /\ instructionGroups = [i \in Node |-> IF Registered(i) THEN {i} ELSE {}]
  /\ nodesGroup = [i \in Node |-> NoNode]

OrderInit ==
  /\ OptInit
  /\ addInstructionToManager
  /\ pending = {}

startUpdate ==
  /\ pass = "optimized"
  /\ pass' = "order"
  /\ pending' = Live
  /\ UNCHANGED <<buildVars, stack, nodeVars, clauseVars, managerVars>>
-----------------------------------------------------------------------------
Statements(n) == {group[n][k] : k \in 1..Len(group[n])}

\* Slip: the first statement is chosen.
Furthest_First(S) == CHOOSE i \in S : \A j \in S : i <= j

\* Of the statements to put together, the one furthest in the code.
Furthest(S) == CHOOSE i \in S : \A j \in S : j <= i

\* fuseInstructions calls moveInstruction(last, i) for every other statement i
\* of the node: the whole group of i joins the group of last, and i's group is
\* erased.  Nothing moves unless both are registered.
Moved(n, last) ==
  {i \in Statements(n) \ {last} : Registered(i) /\ Registered(last)}

\* Slip: the moved statements still point to their old groups.
fuseInstructions_OldLinks(n) ==
  LET last == Furthest(Statements(n))
      target == instructionLinks[last]
      sources == {instructionLinks[i] : i \in Moved(n, last)} \ {target}
      joined == UNION {instructionGroups[s] : s \in sources}
  IN  /\ instructionLinks' = instructionLinks
      /\ instructionGroups' =
           [g \in Node |-> CASE g \in sources -> {}
                             [] g = target -> instructionGroups[g] \cup joined
                             [] OTHER -> instructionGroups[g]]

fuseInstructions(n) ==
  LET last == Furthest(Statements(n))
      target == instructionLinks[last]
      sources == {instructionLinks[i] : i \in Moved(n, last)} \ {target}
      joined == UNION {instructionGroups[s] : s \in sources}
  IN  /\ instructionLinks' =
           [i \in Node |-> IF i \in joined THEN target ELSE instructionLinks[i]]
      /\ instructionGroups' =
           [g \in Node |-> CASE g \in sources -> {}
                             [] g = target -> instructionGroups[g] \cup joined
                             [] OTHER -> instructionGroups[g]]

\* Slip: the node is recorded for the group as it was before the move.
addNodeToGroup_TooEarly(n) ==
  LET g == instructionLinks[group[n][1]]
  IN  nodesGroup' = IF nodesGroup[g] = NoNode
                      THEN [nodesGroup EXCEPT ![g] = n] ELSE nodesGroup

\* The first node recorded for a group stays.
addNodeToGroup(n) ==
  LET g == instructionLinks'[group[n][1]]
  IN  nodesGroup' = IF nodesGroup[g] = NoNode
                      THEN [nodesGroup EXCEPT ![g] = n] ELSE nodesGroup

\* The assertions of moveInstruction and of addNodeToGroup.
AssertionsHold(n) ==
  LET last == Furthest(Statements(n))
  IN  /\ \A i \in Statements(n) \ {last} : Registered(i) \/ Registered(last)
      /\ Registered(group[n][1])

\* The recursion over the optimized graphs meets the nodes in ascending order.
NextNode == CHOOSE n \in pending : \A m \in pending : n <= m

updateInstructionOrderNode ==
  /\ pass = "order"
  /\ pending # {}
  /\ AssertionsHold(NextNode)
  /\ fuseInstructions(NextNode)
  /\ addNodeToGroup(NextNode)
  /\ pending' = pending \ {NextNode}
  /\ UNCHANGED optVars

\* A failed assertion ends the compiler before anything is written.
abort ==
  /\ pass = "order"
  /\ pending # {}
  /\ ~AssertionsHold(NextNode)
  /\ pass' = "aborted"
  /\ UNCHANGED <<buildVars, stack, nodeVars, clauseVars, managerVars, pending>>

modifyFile ==
  /\ pass = "order"
  /\ pending = {}
  /\ pass' = "written"
  /\ UNCHANGED <<buildVars, stack, nodeVars, clauseVars, managerVars, pending>>

OrderNext ==
  \/ OptNext /\ UNCHANGED <<managerVars, pending>>
  \/ startUpdate
  \/ updateInstructionOrderNode
  \/ abort
  \/ modifyFile

OrderSpec == OrderInit /\ [][OrderNext]_orderVars /\ WF_orderVars(OrderNext)
-----------------------------------------------------------------------------
Groups == {g \in Node : instructionGroups[g] # {}}

\* The statement of scope s that i is, or is nested in.
Enclosing(i, s) == CHOOSE k \in {i} \cup Around[i] : k # 0 /\ prog[k].scope = s

\* The innermost scope around both i and j.
CommonScope(i, j) ==
  CHOOSE s \in Around[i] \cap Around[j] :
    \A t \in Around[i] \cap Around[j] : t <= s

\* i is written before j: in an earlier group, or earlier in the same group.
WrittenBefore(i, j) ==
  \/ i \in Around[j]
  \/ LET s == CommonScope(i, j)
         a == Enclosing(i, s)
         b == Enclosing(j, s)
     IN  \/ instructionLinks[a] < instructionLinks[b]
         \/ instructionLinks[a] = instructionLinks[b] /\ a < b

\* The two maps of the manager agree at every step.
OrderTypeOK ==
  /\ OptTypeOK
  /\ instructionLinks \in [Node -> Node \cup {NoGroup}]
  /\ instructionGroups \in [Node -> SUBSET Node]
  /\ nodesGroup \in [Node -> Node \cup {NoNode}]
  /\ pending \subseteq Node
  /\ \A i, g \in Node : i \in instructionGroups[g] <=> instructionLinks[i] = g

\* A group is written with the clauses of the node that its statements were
\* fused into: getNode never returns another node's, or none.
GroupsAreNodes ==
  pass = "written" =>
    \A g \in Groups :
      (\E i \in instructionGroups[g] : hasNode(i)) =>
        /\ nodesGroup[g] # NoNode
        /\ instructionGroups[g] = Statements(nodesGroup[g])

\* Moving statements together never swaps two that conflict: they are
\* written in program order, in whatever scopes they are.
ConflictsWrittenInOrder ==
  pass = "written" =>
    \A i, j \in Node :
      i < j /\ Registered(i) /\ Registered(j) /\ Conflict(i, j) => WrittenBefore(i, j)

\* The comment in moveInstruction: the group further in the code is kept, so
\* that no statement moves in front of a declaration that precedes it.
DeclarationsFirst ==
  pass = "written" =>
    \A d, i \in Node :
      d < i /\ prog[d].kind = "decl" /\ prog[i].scope = prog[d].scope
            /\ Registered(i) => WrittenBefore(d, i)
-----------------------------------------------------------------------------
(* The inductive invariant behind the properties above.                    *)

\* i is in the group that it opened, and no node is recorded there.
Untouched(i) ==
  /\ instructionLinks[i] = IF Registered(i) THEN i ELSE NoGroup
  /\ nodesGroup[i] = NoNode

\* The statements of n are in the group of the last one, with the node.
Fused(n) ==
  /\ \A i \in Statements(n) : Registered(i) /\ instructionLinks[i] = Last(n)
  /\ nodesGroup[Last(n)] = n

ManagerInv ==
  /\ pending \subseteq Live
  /\ pass \in {"build", "optimize", "optimized"} =>
       pending = {} /\ \A i \in Node : Untouched(i)
  /\ pass \notin {"build", "optimize", "optimized"} =>
       /\ \A n \in Live \ pending : Fused(n)
       /\ \A n \in pending : \A i \in Statements(n) : Untouched(i)
       /\ \A i \in Node : ~hasNode(i) => Untouched(i)
  /\ pass \in {"written", "run", "finished"} => pending = {}
  /\ pass = "aborted" => \E i \in Node : prog[i].kind = "header"

OrderInv ==
  /\ OptInv
  /\ OrderTypeOK
  /\ ManagerInv

=============================================================================
