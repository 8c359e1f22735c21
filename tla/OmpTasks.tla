------------------------------ MODULE OmpTasks ------------------------------
(***************************************************************************)
(* The program that OutputHandler writes, run by OpenMP.  One thread of    *)
(* the team walks through the groups in the order they are written; it     *)
(* makes a task of a group, or executes the group itself after the         *)
(* taskwait that precedes it (isPragmaValid, createPragmaTaskWait).  The    *)
(* tasks run at any time after that, as soon as their depend clauses allow. *)
(* The taskgroup around the body waits for all of them.                     *)
(*                                                                         *)
(* What OpenMP itself does (a task is ready when the sibling tasks created  *)
(* before it whose depend clauses name the same storage, one of the two as  *)
(* inout, are complete) is external to the repository.  Different aliases   *)
(* are taken to be different storage: scalars and elements with known       *)
(* subscripts.  Programs with loops are not run.                            *)
(***************************************************************************)
EXTENDS StmtOrder

CONSTANT OnlyCovered   \* run only the outputs whose clauses cover every conflict

ASSUME OnlyCoveredAssumption == OnlyCovered \in BOOLEAN

VARIABLES
  status,    \* statement |-> "todo", "running", "done" or "skipped"
  at,        \* the group the thread is at, past the last one at the end
  created    \* groups that are tasks already

runVars == <<status, at, created>>
vars == <<orderVars, runVars>>

End == Len(prog) + 1

OmpInit ==
  /\ OrderInit
  /\ status = [i \in Node |-> "todo"]
  /\ at = 1
  /\ created = {}

compile == OrderNext /\ UNCHANGED runVars
-----------------------------------------------------------------------------
\* A group of several statements, or of one that is not a declaration, a
\* delete, a goto or complex, is a task.
isTaskValid(g) ==
  \/ Cardinality(instructionGroups[g]) > 1
  \/ \A i \in instructionGroups[g] : prog[i].kind = "simple"

getNode(g) == nodesGroup[g]

Clauses(g) == inOutDep[getNode(g)] \cup inDep[getNode(g)]

\* The text that createDependsString returns, as a list of clauses.
createDependsString(n) ==
  {c \in {[type |-> "inout", items |-> inOutDep[n]], [type |-> "in", items |-> inDep[n]]} :
     c.items # {}}

\* The taskwait in front of an if: the clauses of its node, written inside a
\* depend(inout: ...) again.  The one in front of a delete names its pointer.
createPragmaTaskWait(g) ==
  IF prog[g].kind = "if"
    THEN [type |-> "inout", items |-> {}, nested |-> createDependsString(getNode(g))]
    ELSE [type |-> "inout", items |-> prog[g].writes, nested |-> {}]

\* "The output is readable C++17 code with OpenMP directives": what a depend
\* clause lists are variables, not clauses.
OutputCompiles ==
  pass = "written" =>
    \A g \in Groups :
      prog[g].kind = "if" /\ ~isTaskValid(g) => createPragmaTaskWait(g).nested = {}

\* Two tasks that OpenMP runs in the order of their creation.
DependOrders(g, h) ==
  \/ inOutDep[getNode(g)] \cap Clauses(h) # {}
  \/ Clauses(g) \cap inOutDep[getNode(h)] # {}

\* The tasks that the taskwait in front of an inline group waits for: those
\* that name a deleted pointer; all of them for a goto; no taskwait is written
\* in front of a declaration, a block, or an if without dependencies.
WaitsFor(h, g) ==
  CASE prog[h].kind = "delete" -> createPragmaTaskWait(h).items \cap Clauses(g) # {}
    [] prog[h].kind = "goto" -> TRUE
    [] OTHER -> FALSE
-----------------------------------------------------------------------------
\* The statements that are inside s.
Inside(s) == {i \in Node : s \in Around[i]}

\* What the sequential program orders: conflicting statements, and those that
\* an if or a goto decides about.
Governs ==
  [s \in Node |-> CASE prog[s].kind \in Complex -> Inside(s)
                    [] prog[s].kind = "goto" -> {i \in Node : i > s}
                    [] OTHER -> {}]

Before ==
  {p \in Node \X Node :
     /\ p[1] < p[2]
     /\ Conflict(p[1], p[2]) \/ p[2] \in Governs[p[1]]}

GroupNumber(i) == instructionLinks[i]

\* h is not before g is over: OpenMP orders the two tasks, or the thread
\* executes one of them itself.
Follows(g, h) ==
  /\ g < h
  /\ \/ ~isTaskValid(g)
     \/ isTaskValid(h) /\ DependOrders(g, h)
     \/ ~isTaskValid(h) /\ WaitsFor(h, g)

\* g is before h, by groups that are always executed between them.
CoveredPath(g, h) ==
  \A S \in SUBSET Groups :
    /\ g \in S
    /\ \A k \in S, m \in Groups :
         Follows(k, m) /\ (m = h \/ prog[m].scope = 0) => m \in S
    => h \in S

Covered ==
  /\ \A p \in Before :
       LET g == GroupNumber(p[1])
           h == GroupNumber(p[2])
       IN  g = h \/ (g < h /\ CoveredPath(g, h))
  /\ \A i, s \in Node : prog[s].kind = "goto" /\ i < s => GroupNumber(i) < GroupNumber(s)
-----------------------------------------------------------------------------
\* The first group from g on that has something left to do.
NextGroup(g, st) ==
  LET left == {h \in Groups : h >= g /\ \E i \in instructionGroups[h] : st[i] = "todo"}
  IN  IF left = {} THEN End ELSE CHOOSE h \in left : \A k \in left : h <= k

launch ==
  /\ pass = "written"
  /\ OutputCompiles
  /\ \A i \in Node : prog[i].kind # "for"
  /\ OnlyCovered => Covered
  /\ pass' = "run"
  /\ at' = NextGroup(1, status)
  /\ UNCHANGED <<buildVars, stack, nodeVars, clauseVars, managerVars, pending, status, created>>

Complete(g) == \A i \in instructionGroups[g] : status[i] = "done"

\* Slip: the same group is written again.
createTask_Again ==
  /\ pass = "run"
  /\ at # End
  /\ isTaskValid(at)
  /\ created' = created \cup {at}
  /\ UNCHANGED <<orderVars, status, at>>

createTask ==
  /\ pass = "run"
  /\ at # End
  /\ isTaskValid(at)
  /\ created' = created \cup {at}
  /\ at' = NextGroup(at + 1, status)
  /\ UNCHANGED <<orderVars, status>>

\* Slip: no taskwait is written.
inlineStart_NoWait ==
  /\ pass = "run"
  /\ at # End
  /\ ~isTaskValid(at)
  /\ status[at] = "todo"
  /\ status' = [status EXCEPT ![at] = "running"]
  /\ UNCHANGED <<orderVars, at, created>>

inlineStart ==
  /\ pass = "run"
  /\ at # End
  /\ ~isTaskValid(at)
  /\ status[at] = "todo"
  /\ \A g \in created : WaitsFor(at, g) => Complete(g)
  /\ status' = [status EXCEPT ![at] = "running"]
  /\ UNCHANGED <<orderVars, at, created>>

\* The statements that do not run after the statement at g: those of the
\* branches of an if that are not taken (one branch is taken, or none when
\* there is no else); what a goto jumps over.
NotTaken(g) ==
  LET branches == {b \in Node : prog[b].scope = g}
      taken == {T \in SUBSET branches :
                  Cardinality(T) <= 1 /\ (Cardinality(branches) = 2 => T # {})}
      inside(B) == B \cup UNION {Inside(b) : b \in B}
  IN  CASE prog[g].kind = "if" -> {inside(branches \ T) : T \in taken}
        [] prog[g].kind = "goto" ->
             {{i \in Node : status[i] = "todo" /\ GroupNumber(i) \notin created}}
        [] OTHER -> {{}}

\* Slip: the code after a goto or an if is lost.
inlineEnd_Stuck ==
  /\ pass = "run"
  /\ at # End
  /\ status[at] = "running"
  /\ \E K \in NotTaken(at) :
       status' = [i \in Node |-> IF i = at THEN "done"
                                 ELSE IF i \in K THEN "skipped" ELSE status[i]]
  /\ UNCHANGED <<orderVars, created, at>>

inlineEnd ==
  /\ pass = "run"
  /\ at # End
  /\ status[at] = "running"
  /\ \E K \in NotTaken(at) :
       /\ status' = [i \in Node |-> IF i = at THEN "done"
                                    ELSE IF i \in K THEN "skipped" ELSE status[i]]
       /\ at' = NextGroup(at + 1, status')
  /\ UNCHANGED <<orderVars, created>>

taskReady(g) == \A h \in created : h < g /\ DependOrders(h, g) => Complete(h)

taskStart ==
  /\ pass = "run"
  /\ \E g \in created :
       /\ taskReady(g)
       /\ \E i \in instructionGroups[g] :
            /\ status[i] = "todo"
            /\ \A k \in instructionGroups[g] : k < i => status[k] = "done"
            /\ status' = [status EXCEPT ![i] = "running"]
  /\ UNCHANGED <<orderVars, at, created>>

taskEnd ==
  /\ pass = "run"
  /\ \E g \in created : \E i \in instructionGroups[g] :
       /\ status[i] = "running"
       /\ status' = [status EXCEPT ![i] = "done"]
  /\ UNCHANGED <<orderVars, at, created>>

\* Slip: the function returns without the wait of the taskgroup.
taskgroupEnd_NoWait ==
  /\ pass = "run"
  /\ at = End
  /\ pass' = "finished"
  /\ UNCHANGED <<buildVars, stack, nodeVars, clauseVars, managerVars, pending, runVars>>

taskgroupEnd ==
  /\ pass = "run"
  /\ at = End
  /\ \A g \in created : Complete(g)
  /\ pass' = "finished"
  /\ UNCHANGED <<buildVars, stack, nodeVars, clauseVars, managerVars, pending, runVars>>

OmpNext ==
  \/ compile
  \/ launch
  \/ createTask
  \/ inlineStart
  \/ inlineEnd
  \/ taskStart
  \/ taskEnd
  \/ taskgroupEnd

\* Some thread of the team always takes the next step it can take.
OmpSpec == OmpInit /\ [][OmpNext]_vars /\ WF_vars(OmpNext)
-----------------------------------------------------------------------------
OmpTypeOK ==
  /\ status \in [Node -> {"todo", "running", "done", "skipped"}]
  /\ at \in 1..End
  /\ created \subseteq {g \in Groups : g < at /\ isTaskValid(g)}

Ordered == INSTANCE OrderedStatements WITH before <- Before, governs <- Governs

\* The written program runs its statements as the sequential program orders
\* them: it implements OrderedStatements.
ImplementsOrder == Ordered!Spec

\* "Missing or incorrect annotations can produce hard-to-reproduce data
\* races": no statement starts while one it must follow is not over.
NoDataRace == Ordered!Sequenced

\* No wait is for ever: the thread gets past every taskwait and every task
\* becomes ready.
Finishes == pass = "run" ~> pass = "finished"

\* At the end of the taskgroup nothing is left out: every statement has run,
\* or was skipped by an if or a goto.
NothingLost == pass = "finished" => \A i \in Node : status[i] \in {"done", "skipped"}
-----------------------------------------------------------------------------
(* The inductive invariant behind the properties above.                    *)

GroupOver(g) == \A i \in instructionGroups[g] : status[i] \in {"done", "skipped"}

Started(g) == \E i \in instructionGroups[g] : status[i] \in {"running", "done"}

\* The groups behind the thread are tasks or over, those ahead have not begun.
ThreadInv ==
  /\ at \in Groups \cup {End}
  /\ \A g \in Groups : g < at => g \in created \/ GroupOver(g)
  /\ \A g \in Groups : g > at \/ (g = at /\ isTaskValid(g)) => ~Started(g)

\* A goto is executed alone, and only a goto skips a statement of the body
\* itself: then nothing is left to do.
SkipInv ==
  /\ \A g \in Groups : g = at /\ status[g] = "running" /\ prog[g].kind = "goto" =>
       \A h \in created : Complete(h)
  /\ (\E i \in Node : status[i] = "skipped" /\ prog[i].scope = 0) =>
       \A i \in Node : status[i] \in {"done", "skipped"}

\* A group starts after those it follows.
FollowInv == \A g, h \in Groups : Follows(g, h) /\ Started(h) => GroupOver(g)

RunInv ==
  /\ OrderInv
  /\ OmpTypeOK
  /\ NothingLost
  /\ pass \notin {"run", "finished"} => created = {} /\ \A i \in Node : status[i] = "todo"
  /\ pass \in {"run", "finished"} =>
       /\ \A i \in Node : prog[i].kind # "for"
       /\ OnlyCovered => Covered
       /\ ThreadInv
       /\ SkipInv
       /\ FollowInv

=============================================================================
