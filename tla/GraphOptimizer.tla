--------------------------- MODULE GraphOptimizer ---------------------------
(***************************************************************************)
(* optimizeGraph of transforms/TaskGraph/src/Graph.cpp on the graph that   *)
(* module TaskGraph builds: transitive reduction, fusion of chains into    *)
(* one node, and the sets inOutDep and inDep from which the depend clauses *)
(* are written (Node.cpp).                                                 *)
(*                                                                         *)
(* The subgraph of an if, a for or a block is optimized when fusion meets  *)
(* that node, before the graph around it is finished.  The recursion is an *)
(* explicit stack of frames.  A subgraph is named by its instruction, the  *)
(* function's own graph by 0; a fused node by its first instruction.       *)
(***************************************************************************)
EXTENDS TaskGraph

VARIABLES
  pass,        \* "build", "optimize" or "optimized"
  stack,       \* pending calls of optimizeGraph, innermost first
  nodes,       \* nodes[g]: the nodes of graph g, in order
  group,       \* group[n]: the instructions of node n (instructionPtr)
  depRead,     \* dependencies of n with isRead ...
  depWrite,    \* ... and with isWrite
  inOutDep,    \* aliases of n's depend(inout: ) clause
  inDep        \* aliases of n's depend(in: ) clause

nodeVars == <<nodes, group, depRead, depWrite>>
clauseVars == <<inOutDep, inDep>>
optVars == <<buildVars, pass, stack, nodeVars, clauseVars>>
mapVars == <<dataUsedInRead, dataUsedInWrite>>

Frame(g, phase) == [graph |-> g, phase |-> phase, pos |-> 1]
Top == Head(stack)
Current == nodes[Top.graph][Top.pos]
Finished == Top.pos > Len(nodes[Top.graph])

hasNode(i) == prog[i].kind \notin NoInstruction

OptInit ==
  /\ BuildInit
  /\ pass = "build"
  /\ stack = <<>>
  /\ nodes = [g \in Loop |-> <<>>]
  /\ group = [n \in Node |-> <<>>]
  /\ depRead = [n \in Node |-> {}]
  /\ depWrite = [n \in Node |-> {}]
  /\ inOutDep = [n \in Node |-> {}]
  /\ inDep = [n \in Node |-> {}]

Next(n) == {k.to : k \in {x \in links : x.from = n}}
Prev(n) == {k.from : k \in {x \in links : x.to = n}}
Deps(n) == depRead[n] \cup depWrite[n]

\* A node is made with the dependencies of its instruction.  (The nodes of a
\* graph are made together, but none is looked at before its own turn.)
newNode(n) ==
  IF hasNode(n)
    THEN /\ nodes' = [nodes EXCEPT ![prog[n].scope] = Append(@, n)]
         /\ group' = [group EXCEPT ![n] = <<n>>]
         /\ depRead' = [depRead EXCEPT ![n] = prog[n].reads]
         /\ depWrite' = [depWrite EXCEPT ![n] = prog[n].writes]
    ELSE UNCHANGED nodeVars

generateGraph ==
  /\ pass = "build"
  /\ InstructionToGraph
  /\ newNode(built + 1)
  /\ UNCHANGED <<pass, stack, clauseVars>>

optimizeGraph ==
  /\ pass = "build"
  /\ built = Len(prog)
  /\ pass' = "optimize"
  /\ stack' = <<Frame(0, "reduce")>>
  /\ UNCHANGED <<buildVars, nodeVars, clauseVars>>
-----------------------------------------------------------------------------
\* Slip: the direct successors count as visited too.
Visited_Direct(n) == {m \in Node : \E s \in Next(n) : Reaches(links, s, m)}

\* Nodes at the end of a path of two or more links from n.
Visited(n) ==
  {m \in Node : \E s \in Next(n) : s # m /\ Reaches(links, s, m)}

transitiveReduction ==
  /\ stack # <<>>
  /\ Top.phase = "reduce"
  /\ IF Finished
       THEN /\ stack' = <<Frame(Top.graph, "fuse")>> \o Tail(stack)
            /\ UNCHANGED links
       ELSE /\ links' = {k \in links : ~(k.from = Current /\ k.to \in Visited(Current))}
            /\ stack' = [stack EXCEPT ![1].pos = @ + 1]
  /\ UNCHANGED <<prog, built, mapVars, pass, nodeVars, clauseVars>>
-----------------------------------------------------------------------------
noFusion(i) == prog[i].kind \in {"delete", "if", "for"}

complexInstruction(n) == prog[n].kind \in Complex

\* No label of n's links matches one of n's dependencies, or one is the same.
hasCommonArrayElement(n) ==
  LET labels == {k.alias : k \in {x \in links : x.from = n}}
  IN  \/ \A a \in labels, d \in Deps(n) : ~indexesMatch(a, d)
      \/ labels \cap Deps(n) # {}

\* Slip: the next node may have other previous nodes.
Fusable_AnyPrev(n, m) ==
  /\ Next(n) = {m}
  /\ prog[m].scope = prog[n].scope
  /\ ~complexInstruction(m)
  /\ ~noFusion(group[m][1])
  /\ hasCommonArrayElement(n)

\* Slip: the node may have other next nodes.
Fusable_AnyNext(n, m) ==
  /\ m \in Next(n)
  /\ Prev(m) = {n}
  /\ prog[m].scope = prog[n].scope
  /\ ~complexInstruction(m)
  /\ ~noFusion(group[m][1])
  /\ hasCommonArrayElement(n)

\* The next node must not be marked noFusion; the node itself may be.
Fusable(n, m) ==
  /\ Next(n) = {m}
  /\ Prev(m) = {n}
  /\ prog[m].scope = prog[n].scope
  /\ ~complexInstruction(m)
  /\ ~noFusion(group[m][1])
  /\ hasCommonArrayElement(n)

\* Slip: the element after x is removed.
erase_OffByOne(s, x) ==
  LET p == CHOOSE k \in 1..Len(s) : s[k] = x
  IN  [k \in 1..Len(s) - 1 |-> IF k <= p THEN s[k] ELSE s[k + 1]]

\* The vector s without its element x.
erase(s, x) ==
  LET p == CHOOSE k \in 1..Len(s) : s[k] = x
  IN  [k \in 1..Len(s) - 1 |-> IF k < p THEN s[k] ELSE s[k + 1]]

\* Slip: the links of the absorbed node are lost.
fuseNodes_NoLinks(n, m) ==
  /\ links' = {k \in links : k.from \notin {n, m}}
  /\ nodes' = [nodes EXCEPT ![Top.graph] = erase(@, m)]
  /\ group' = [group EXCEPT ![n] = @ \o group[m], ![m] = <<>>]
  /\ depRead' = [depRead EXCEPT ![n] = @ \cup depRead[m]]
  /\ depWrite' = [depWrite EXCEPT ![n] = @ \cup depWrite[m]]

\* m's links become n's, m's instructions and dependencies are added to n's.
fuseNodes(n, m) ==
  /\ links' = {k \in links : k.from \notin {n, m}}
                \cup {[k EXCEPT !.from = n] : k \in {x \in links : x.from = m}}
  /\ nodes' = [nodes EXCEPT ![Top.graph] = erase(@, m)]
  /\ group' = [group EXCEPT ![n] = @ \o group[m], ![m] = <<>>]
  /\ depRead' = [depRead EXCEPT ![n] = @ \cup depRead[m]]
  /\ depWrite' = [depWrite EXCEPT ![n] = @ \cup depWrite[m]]

CanFuse == \E m \in Node : Fusable(Current, m)

FuseStep ==
  /\ stack # <<>>
  /\ Top.phase = "fuse"
  /\ ~Finished
  /\ ~complexInstruction(Current)
  /\ \E m \in Node : Fusable(Current, m) /\ fuseNodes(Current, m)
  /\ UNCHANGED <<prog, built, mapVars, pass, stack, clauseVars>>

\* Slip: the position does not move past a complex node.
FuseNext_Again ==
  /\ stack # <<>>
  /\ Top.phase = "fuse"
  /\ ~Finished
  /\ complexInstruction(Current) \/ ~CanFuse
  /\ stack' = IF complexInstruction(Current)
                THEN <<Frame(Current, "reduce")>> \o stack
                ELSE [stack EXCEPT ![1].pos = @ + 1]
  /\ UNCHANGED <<buildVars, pass, nodeVars, clauseVars>>

\* The node cannot grow any more, or it is complex and its subgraph is next.
FuseNext ==
  /\ stack # <<>>
  /\ Top.phase = "fuse"
  /\ ~Finished
  /\ complexInstruction(Current) \/ ~CanFuse
  /\ LET rest == [stack EXCEPT ![1].pos = @ + 1]
     IN  stack' = IF complexInstruction(Current)
                    THEN <<Frame(Current, "reduce")>> \o rest ELSE rest
  /\ UNCHANGED <<buildVars, pass, nodeVars, clauseVars>>
-----------------------------------------------------------------------------
SameOrMatching(a, d) == a = d \/ (Indexes[d] # <<>> /\ indexesMatch(a, d))

InPrev(n, d) == \E p \in Prev(n) : \E a \in Deps(p) : SameOrMatching(a, d)

\* Slip: the nodes of a loop body are not marked.
isLooped_Never(n) == FALSE

isLooped(n) == prog[n].loop # 0

\* Slip: what the next nodes need is not considered.
computeInOutDep_PrevOnly(n) == {d \in depWrite[n] : isLooped(n) \/ InPrev(n, d)}

\* A written alias is inout when its node is in a loop, when a link to a next
\* node carries it or when a previous node accesses it.
computeInOutDep(n) ==
  {d \in depWrite[n] :
     \/ isLooped(n)
     \/ \E k \in links : k.from = n /\ SameOrMatching(k.alias, d)
     \/ InPrev(n, d)}

\* Any other alias that a previous node accesses is in.
computeInDep(n) == {d \in Deps(n) : InPrev(n, d)}

\* The graphs around an instruction.
Around[i \in Loop] == IF i = 0 THEN {} ELSE {prog[i].scope} \cup Around[prog[i].scope]

\* The sets are never cleared: those of a subgraph are completed again with
\* the graph around it.
nodesComputeInOut ==
  LET inside(n) == group[n] # <<>> /\ Top.graph \in Around[n]
  IN  /\ stack # <<>>
      /\ Top.phase = "fuse"
      /\ Finished
      /\ inOutDep' = [n \in Node |-> IF inside(n) THEN inOutDep[n] \cup computeInOutDep(n)
                                                  ELSE inOutDep[n]]
      /\ inDep' = [n \in Node |-> IF inside(n)
                                    THEN inDep[n] \cup (computeInDep(n) \ inOutDep'[n])
                                    ELSE inDep[n]]
      /\ stack' = Tail(stack)
      /\ pass' = IF stack' = <<>> THEN "optimized" ELSE pass
      /\ UNCHANGED <<buildVars, nodeVars>>

OptNext ==
  \/ generateGraph
  \/ optimizeGraph
  \/ transitiveReduction
  \/ FuseStep
  \/ FuseNext
  \/ nodesComputeInOut

OptSpec == OptInit /\ [][OptNext]_optVars /\ WF_optVars(OptNext)
-----------------------------------------------------------------------------
Live == {n \in Node : group[n] # <<>>}

InGroup(i, n) == \E k \in 1..Len(group[n]) : group[n][k] = i

GroupOf(i) == CHOOSE n \in Live : InGroup(i, n)

Last(n) == group[n][Len(group[n])]

OptTypeOK ==
  /\ BuildTypeOK
  /\ pass \in {"build", "optimize", "optimized", "order", "aborted", "written",
              "run", "finished"}
  /\ stack \in Seq([graph : Loop, phase : {"reduce", "fuse"}, pos : Nat \ {0}])
  /\ nodes \in [Loop -> Seq(Node)]
  /\ group \in [Node -> Seq(Node)]
  /\ depRead \in [Node -> SUBSET Alias]
  /\ depWrite \in [Node -> SUBSET Alias]
  /\ inOutDep \in [Node -> SUBSET Alias]
  /\ inDep \in [Node -> SUBSET Alias]

\* Fusion neither loses nor duplicates a statement: every instruction is in
\* exactly one node, which stands once in the graph of its scope, and the
\* instructions of a node keep the program order.
GroupsPartition ==
  /\ \A i \in 1..built : hasNode(i) => \E n \in Live :
       InGroup(i, n) /\ \A m \in Live : InGroup(i, m) => m = n
  /\ \A n \in Live :
       /\ \A k \in 1..Len(group[n]) - 1 : group[n][k] < group[n][k + 1]
       /\ \A k \in 1..Len(group[n]) : prog[group[n][k]].scope = prog[n].scope
       /\ Cardinality({k \in DOMAIN nodes[prog[n].scope] :
                         nodes[prog[n].scope][k] = n}) = 1

\* No step of the optimisation loses an ordering: two conflicting
\* instructions end in the same node, or the node of the first reaches the
\* node of the second.
OrderKept ==
  pass # "build" =>
    \A i, j \in Node :
      i < j /\ Conflict(i, j) =>
        GroupOf(i) = GroupOf(j) \/ Reaches(links, GroupOf(i), GroupOf(j))

\* A fused node can be emitted as a whole at the place of its last statement:
\* all of it precedes all of any node it is linked to.
LinksBetweenGroups ==
  \A k \in links :
    /\ {k.from, k.to} \subseteq Live
    /\ Last(k.from) < group[k.to][1]

\* The reduction removes implied links only: reachability never changes.
ReductionKeepsPaths ==
  [][pass = "optimize" /\ group' = group =>
       \A i, j \in Node : Reaches(links, i, j) <=> Reaches(links', i, j)]_optVars

\* Two accesses in the depend clauses of two tasks that order them.
ClausesOrder(n, m) ==
  \E d \in inOutDep[n] \cup inDep[n], e \in inOutDep[m] \cup inDep[m] :
    MayOverlap(d, e) /\ (d \in inOutDep[n] \/ e \in inOutDep[m])

\* A link made for what its first node writes survives into the clauses: if a
\* link carries an alias that its first node may write, the depend clauses of
\* the two nodes order them, whatever was reduced or fused around them.
WrittenLinksCovered ==
  pass = "optimized" =>
    \A k \in links :
      (\E b \in depWrite[k.from] : MayOverlap(b, k.alias))
        => ClausesOrder(k.from, k.to)

\* The maps start empty in a loop body, so no link leads from one iteration to
\* the next or out of the body: the clauses alone order what the body writes,
\* before the writes of another iteration and before the statements that the
\* loop is linked to.
LoopWritesCovered ==
  pass = "optimized" =>
    \A n \in Live : prog[n].loop # 0 => \A d \in depWrite[n] :
      /\ \A m \in Live : prog[m].loop = prog[n].loop =>
           \A e \in depWrite[m] : MayOverlap(d, e) => ClausesOrder(n, m)
      /\ \A k \in links : k.from = prog[n].loop /\ MayOverlap(d, k.alias)
                            => ClausesOrder(n, k.to)

\* Optimisation terminates: the while loop of nodesFusion and the recursion
\* into the subgraphs end.
OptimizationEnds == <>(pass = "optimized")
-----------------------------------------------------------------------------
(* The inductive invariant behind the safety properties above.             *)

\* Until the optimisation, the graph is as TaskGraph builds it and every node
\* has one instruction.
AsBuilt ==
  /\ BuildInv
  /\ \A n \in Node :
       /\ group[n] = IF n <= built /\ hasNode(n) THEN <<n>> ELSE <<>>
       /\ n \in Live => depRead[n] = prog[n].reads /\ depWrite[n] = prog[n].writes

\* The last frame is the one of the function's own graph.
PassesInOrder ==
  /\ pass = "build" => AsBuilt
  /\ pass # "build" => built = Len(prog)
  /\ pass = "optimize" <=> stack # <<>>
  /\ stack # <<>> => stack[Len(stack)].graph = 0

\* Nodes stand in their graph by ascending first instruction.
NodesInOrder ==
  \A g \in Loop :
    /\ \A j, k \in 1..Len(nodes[g]) : j < k => nodes[g][j] < nodes[g][k]
    /\ \A n \in Node :
         n \in Live /\ prog[n].scope = g <=> \E k \in 1..Len(nodes[g]) : nodes[g][k] = n

\* A node's instructions are of one scope and ascending; an if, a for or a
\* block stays alone.
GroupsInOrder ==
  \A n \in Live :
    /\ group[n][1] = n
    /\ \A j, k \in 1..Len(group[n]) : j < k => group[n][j] < group[n][k]
    /\ \A k \in 1..Len(group[n]) :
         /\ group[n][k] <= built
         /\ hasNode(group[n][k])
         /\ prog[group[n][k]].scope = prog[n].scope
         /\ complexInstruction(group[n][k]) => Len(group[n]) = 1

\* Every instruction handled is in one node.
OneGroup ==
  /\ \A i \in 1..built : hasNode(i) => \E n \in Live : InGroup(i, n)
  /\ \A i \in Node : \A n, m \in Live : InGroup(i, n) /\ InGroup(i, m) => n = m

\* OrderKept for whichever nodes the two instructions are in.
PathsKept ==
  \A i, j \in 1..built : i < j /\ Conflict(i, j) =>
    \A n, m \in Live :
      InGroup(i, n) /\ InGroup(j, m) => n = m \/ Reaches(links, n, m)

\* The alias of a link is the access of the second node that it was made for,
\* or an element of it, and the first node accesses that too.
LabelsShared ==
  \A k \in links :
    \E a \in Deps(k.to) :
      /\ k.alias = a \/ k.alias \in getArrayElementChildren(a)
      /\ \E b \in Deps(k.from) : MayOverlap(b, a)

\* Once optimized, the clauses hold what the last links and dependencies need.
ClausesComplete ==
  pass \notin {"build", "optimize"} =>
    \A n \in Live :
      /\ computeInOutDep(n) \subseteq inOutDep[n]
      /\ computeInDep(n) \subseteq inOutDep[n] \cup inDep[n]

GraphInv ==
  /\ NodesInOrder
  /\ GroupsInOrder
  /\ OneGroup
  /\ LinksBetweenGroups
  /\ PathsKept
  /\ LabelsShared

OptInv ==
  /\ OptTypeOK
  /\ PassesInOrder
  /\ GraphInv
  /\ ClausesComplete

=============================================================================
