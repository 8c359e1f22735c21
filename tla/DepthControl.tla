---------------------------- MODULE DepthControl ----------------------------
(***************************************************************************)
(* The depth control that codeModification.cpp and OutputHandler.cpp write  *)
(* into every function, at run time.  __apac_depth is thread-private: a     *)
(* function copies it to __apac_depth_local when it is called, makes tasks  *)
(* only when the copy is below __apac_depth_max, and otherwise calls its    *)
(* _apacSeq version, which makes none.  A task that contains a call begins  *)
(* with __apac_depth = __apac_depth_local + 1.  Nothing ever restores the   *)
(* variable: a thread that waits in a taskgroup runs other tasks, which     *)
(* overwrite it.                                                            *)
(*                                                                         *)
(* Each thread has a stack of frames: the task regions it is in and the     *)
(* functions called from them.  Which task a thread may start is OpenMP's   *)
(* task scheduling constraint and is external to the repository.            *)
(***************************************************************************)
EXTENDS Integers, Sequences, FiniteSets

CONSTANTS
  Thread,      \* the team of the parallel region of main
  Master,      \* the thread that executes main
  DepthMax,    \* __apac_depth_max
  MaxCalls,    \* bound: calls in one task
  MaxStmts,    \* bound: statements with a call in one function body
  MaxTasks,    \* bound: tasks created in a run
  MaxStack     \* bound: nested functions and tasks on one thread

ASSUME DepthAssumption ==
  /\ Master \in Thread
  /\ {DepthMax, MaxCalls, MaxStmts, MaxTasks, MaxStack} \subseteq Nat

VARIABLES
  task,           \* the tasks in the order of creation, main's region first
  apac_depth,     \* thread |-> its copy of __apac_depth
  stack           \* thread |-> its frames, innermost first

vars == <<task, apac_depth, stack>>

Id == 1..Len(task)

Main == [depth |-> 0, nest |-> 0, ancestors |-> {}, calls |-> 1, status |-> "running"]

\* A task region with its calls left, or a function with the statements left
\* that make a task or a call, the tasks of its taskgroup and the depth it
\* was entered with.
Frame(kind, t, left, local) ==
  [kind |-> kind, task |-> t, left |-> left, local |-> local, group |-> {}]

Init ==
  /\ task = <<Main>>
  /\ apac_depth = [s \in Thread |-> 0]
  /\ stack = [s \in Thread |-> IF s = Master THEN <<Frame("task", 1, 1, 0)>> ELSE <<>>]

Top(s) == Head(stack[s])
Busy(s, kind) == stack[s] # <<>> /\ Top(s).kind = kind
OneLess(s) == <<[Top(s) EXCEPT !.left = @ - 1]>> \o Tail(stack[s])

\* Slip: one level more.
depthOk_Inclusive(local) == local <= DepthMax

\* __apac_depth_ok
depthOk(local) == local < DepthMax

\* The entry of a function: with the depth used up its _apacSeq version runs
\* to its end.
enter(s) ==
  LET local == apac_depth[s]
  IN  \E n \in 0..MaxStmts :
        stack' = [stack EXCEPT ![s] =
                    IF depthOk(local)
                      THEN <<Frame("function", Top(s).task, n, local)>> \o OneLess(s)
                      ELSE OneLess(s)]

\* A call in a task.
callInTask(s) ==
  /\ Busy(s, "task")
  /\ Top(s).left > 0
  /\ enter(s)
  /\ UNCHANGED <<task, apac_depth>>

\* A call in a statement that is not a task, such as a declaration.
callInline(s) ==
  /\ Busy(s, "function")
  /\ Top(s).left > 0
  /\ Len(stack[s]) < MaxStack
  /\ enter(s)
  /\ UNCHANGED <<task, apac_depth>>

\* Slip: the task is given the depth of the thread, not the function's own.
newTask_ThreadDepth(s, calls) ==
  LET t == Top(s).task
  IN  [depth |-> apac_depth[s], nest |-> task[t].nest + 1,
       ancestors |-> task[t].ancestors \cup {t}, calls |-> calls, status |-> "created"]

\* __apac_depth_local is firstprivate in the task.
newTask(s, calls) ==
  LET t == Top(s).task
  IN  [depth |-> Top(s).local + 1, nest |-> task[t].nest + 1,
       ancestors |-> task[t].ancestors \cup {t}, calls |-> calls, status |-> "created"]

createTask(s) ==
  /\ Busy(s, "function")
  /\ Top(s).left > 0
  /\ Len(task) < MaxTasks
  /\ \E calls \in 0..MaxCalls : task' = Append(task, newTask(s, calls))
  /\ stack' = [stack EXCEPT ![s] =
                 <<[Top(s) EXCEPT !.left = @ - 1, !.group = @ \cup {Len(task) + 1}]>>
                   \o Tail(stack[s])]
  /\ UNCHANGED apac_depth

\* A thread that is in a task may start only descendants of that task.
schedulable(s, t) ==
  \/ stack[s] = <<>>
  \/ Busy(s, "function") /\ Top(s).task \in task[t].ancestors

\* Only a task with a call sets the depth.
depthAtStart(s, t) ==
  IF task[t].calls > 0 THEN task[t].depth ELSE apac_depth[s]

startTask(s) ==
  \E t \in Id :
    /\ task[t].status = "created"
    /\ schedulable(s, t)
    /\ task' = [task EXCEPT ![t].status = "running"]
    /\ stack' = [stack EXCEPT ![s] = <<Frame("task", t, task[t].calls, 0)>> \o @]
    /\ apac_depth' = [apac_depth EXCEPT ![s] = depthAtStart(s, t)]

endTask(s) ==
  /\ Busy(s, "task")
  /\ Top(s).left = 0
  /\ task' = [task EXCEPT ![Top(s).task].status = "done"]
  /\ stack' = [stack EXCEPT ![s] = Tail(@)]
  /\ UNCHANGED apac_depth

\* Slip: the taskgroup is left while its tasks are running.
taskgroupEnd_NoWait(s) ==
  /\ Busy(s, "function")
  /\ Top(s).left = 0 \/ Len(task) = MaxTasks
  /\ stack' = [stack EXCEPT ![s] = Tail(@)]
  /\ UNCHANGED <<task, apac_depth>>

\* Slip: the end waits for every task, as a barrier does.
taskgroupEnd_Barrier(s) ==
  /\ Busy(s, "function")
  /\ Top(s).left = 0 \/ Len(task) = MaxTasks
  /\ \A t \in Id : task[t].status = "done"
  /\ stack' = [stack EXCEPT ![s] = Tail(@)]
  /\ UNCHANGED <<task, apac_depth>>

\* A function returns when its taskgroup is complete; statements that the
\* bounds leave no room for are dropped.
taskgroupEnd(s) ==
  /\ Busy(s, "function")
  /\ Top(s).left = 0 \/ Len(task) = MaxTasks
  /\ \A t \in Top(s).group : task[t].status = "done"
  /\ stack' = [stack EXCEPT ![s] = Tail(@)]
  /\ UNCHANGED <<task, apac_depth>>

Step(s) ==
  \/ callInTask(s)
  \/ callInline(s)
  \/ createTask(s)
  \/ startTask(s)
  \/ endTask(s)
  \/ taskgroupEnd(s)

Next == \E s \in Thread : Step(s)

\* Every thread keeps taking the steps it can take.
Spec == Init /\ [][Next]_vars /\ \A s \in Thread : WF_vars(Step(s))
-----------------------------------------------------------------------------
FrameType ==
  [kind : {"task", "function"}, task : Nat, left : Nat, local : Nat, group : SUBSET Nat]

DepthTypeOK ==
  /\ task \in Seq([depth : Nat, nest : Nat, ancestors : SUBSET Nat, calls : Nat,
                   status : {"created", "running", "done"}])
  /\ apac_depth \in [Thread -> Nat]
  /\ stack \in [Thread -> Seq(FrameType)]

\* "Recursion depth control prevents unbounded task creation": tasks are never
\* nested deeper than __apac_depth_max, on whatever threads they run and
\* whatever those have run before.
NestBounded == \A t \in Id : task[t].nest <= DepthMax

\* A taskgroup keeps its promise: when a task is over so is everything that
\* was created inside it.
DescendantsDone ==
  \A t \in Id : \A u \in task[t].ancestors :
    task[u].status = "done" => task[t].status = "done"

\* No thread waits for ever: main returns, although waiting threads may only
\* start descendants of their own task.
Returns == <>(\A s \in Thread : stack[s] = <<>>)
-----------------------------------------------------------------------------
(* Why the bound holds: the depth a thread works with is never below the    *)
(* true nesting of the task it is in, although it may be above.             *)

TasksDeepEnough ==
  \A t \in Id :
    /\ task[t].nest <= task[t].depth
    /\ task[t].depth <= DepthMax
    /\ \A u \in task[t].ancestors : u \in Id /\ task[u].nest < task[t].nest

FrameDeepEnough(f, depth) ==
  /\ f.task \in Id
  /\ f.left > 0 \/ f.kind = "function" => task[f.task].calls > 0
  /\ task[f.task].calls > 0 => task[f.task].nest <= depth
  /\ f.kind = "function" => task[f.task].nest <= f.local /\ f.local < DepthMax

FramesDeepEnough ==
  \A s \in Thread : \A k \in 1..Len(stack[s]) : FrameDeepEnough(stack[s][k], apac_depth[s])

\* The frames of a thread are of ever deeper tasks.
StackDeepens ==
  \A s \in Thread : \A j, k \in 1..Len(stack[s]) :
    j <= k => task[stack[s][k].task].nest <= task[stack[s][j].task].nest

DepthInv == DepthTypeOK /\ TasksDeepEnough /\ FramesDeepEnough /\ StackDeepens
-----------------------------------------------------------------------------
(* Why a taskgroup keeps its promise.                                       *)

\* A task is on one stack while it runs, below the functions called from it.
FramesNested ==
  /\ \A s \in Thread : \A k \in 1..Len(stack[s]) :
       /\ stack[s][k].kind = "task" => task[stack[s][k].task].status = "running"
       /\ stack[s][k].kind = "function" =>
            \E j \in 1..Len(stack[s]) :
              k < j /\ stack[s][j].kind = "task" /\ stack[s][j].task = stack[s][k].task
  /\ \A s, r \in Thread : \A j \in 1..Len(stack[s]), k \in 1..Len(stack[r]) :
       stack[s][j].kind = "task" /\ stack[r][k].kind = "task"
         /\ stack[s][j].task = stack[r][k].task => s = r /\ j = k

\* A task that is not over has the function that created it waiting for it.
TasksAwaited ==
  \A t \in Id : task[t].status # "done" /\ task[t].ancestors # {} =>
    \E s \in Thread : \E k \in 1..Len(stack[s]) :
      /\ stack[s][k].kind = "function"
      /\ t \in stack[s][k].group
      /\ task[t].ancestors = task[stack[s][k].task].ancestors \cup {stack[s][k].task}

JoinInv == DepthInv /\ FramesNested /\ TasksAwaited /\ DescendantsDone
=============================================================================
