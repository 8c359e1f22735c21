------------------------- MODULE DepthControlProofs -------------------------
(***************************************************************************)
(* For any number of threads, any depth limit and any program: DepthInv is  *)
(* inductive and bounds the nesting of tasks (NestBounded), and JoinInv is  *)
(* inductive and makes a finished task leave nothing behind                *)
(* (DescendantsDone).                                                      *)
(***************************************************************************)
EXTENDS DepthControl, WellFoundedInduction, TLAPS

TaskType ==
  [depth : Nat, nest : Nat, ancestors : SUBSET Nat, calls : Nat,
   status : {"created", "running", "done"}]

\* What a stack holds after its innermost frame is replaced (OneLess).
LEMMA Replaced ==
  ASSUME NEW S, NEW st \in Seq(S), st # <<>>, NEW f \in S
  PROVE  LET r == <<f>> \o Tail(st)
         IN  /\ r \in Seq(S)
             /\ Len(r) = Len(st)
             /\ r[1] = f
             /\ \A k \in 2..Len(st) : r[k] = st[k]
  OBVIOUS

\* What a stack holds after a function is called or a task begins.
LEMMA Pushed ==
  ASSUME NEW S, NEW st \in Seq(S), NEW f \in S
  PROVE  LET r == <<f>> \o st
         IN  /\ r \in Seq(S)
             /\ Len(r) = Len(st) + 1
             /\ r[1] = f
             /\ \A k \in 2..Len(r) : k - 1 \in 1..Len(st) /\ r[k] = st[k - 1]
  OBVIOUS

\* What a stack holds after a function returns or a task ends.
LEMMA Popped ==
  ASSUME NEW S, NEW st \in Seq(S), st # <<>>
  PROVE  /\ Tail(st) \in Seq(S)
         /\ Len(Tail(st)) = Len(st) - 1
         /\ \A k \in 1..Len(Tail(st)) : k + 1 \in 1..Len(st) /\ Tail(st)[k] = st[k + 1]
  OBVIOUS

\* The innermost frame is a frame.
LEMMA TopFrame ==
  ASSUME NEW S, NEW st \in Seq(S), st # <<>>
  PROVE  /\ Head(st) \in S
         /\ Head(st) = st[1]
         /\ 1 \in 1..Len(st)
  OBVIOUS
-----------------------------------------------------------------------------
\* What every step leaves alone in the tasks that exist.
TasksKept ==
  /\ Id \subseteq Id'
  /\ \A t \in Id : task'[t].nest = task[t].nest /\ task'[t].calls = task[t].calls

\* The types of the tasks' fields.
LEMMA TaskFields ==
  ASSUME DepthTypeOK, NEW t \in Id
  PROVE  /\ task[t] \in TaskType
         /\ task[t].nest \in Nat /\ task[t].depth \in Nat /\ task[t].calls \in Nat
         /\ task[t].ancestors \in SUBSET Nat
<1>1. task \in Seq(TaskType)
  BY DEF DepthTypeOK, TaskType
<1>2. task[t] \in TaskType
  BY <1>1 DEF Id
<1>3. QED
  BY <1>2 DEF TaskType

ThreadInv(s) ==
  /\ \A k \in 1..Len(stack[s]) : FrameDeepEnough(stack[s][k], apac_depth[s])
  /\ \A j, k \in 1..Len(stack[s]) :
       j <= k => task[stack[s][k].task].nest <= task[stack[s][j].task].nest

\* The invariant, thread by thread.
LEMMA ByThread ==
  DepthInv <=> DepthTypeOK /\ TasksDeepEnough /\ \A s \in Thread : ThreadInv(s)
  BY DEF DepthInv, FramesDeepEnough, StackDeepens, ThreadInv

\* A thread that does not take the step keeps its part of the invariant.
LEMMA OtherThread ==
  ASSUME NEW s \in Thread, ThreadInv(s), TasksKept,
         stack'[s] = stack[s], apac_depth'[s] = apac_depth[s]
  PROVE  ThreadInv(s)'
  BY DEF ThreadInv, FrameDeepEnough, TasksKept

\* A step that takes the innermost frame away.
LEMMA PoppedThread ==
  ASSUME DepthTypeOK, NEW s \in Thread, ThreadInv(s), TasksKept, stack[s] # <<>>,
         stack'[s] = Tail(stack[s]), apac_depth'[s] = apac_depth[s]
  PROVE  ThreadInv(s)'
<1>1. stack[s] \in Seq(FrameType)
  BY DEF DepthTypeOK
<1>2. /\ Len(stack'[s]) = Len(stack[s]) - 1
      /\ Len(stack[s]) \in Nat
      /\ \A k \in 1..Len(stack'[s]) : k + 1 \in 1..Len(stack[s]) /\ stack'[s][k] = stack[s][k + 1]
  BY <1>1, Popped
<1>3. QED
  BY <1>2 DEF ThreadInv, FrameDeepEnough, TasksKept

\* A step that changes the statements or calls left in the innermost frame.
LEMMA ReplacedThread ==
  ASSUME DepthTypeOK, NEW s \in Thread, ThreadInv(s), TasksKept, stack[s] # <<>>,
         NEW f \in FrameType, f.task = Top(s).task, f.kind = Top(s).kind,
         f.local = Top(s).local, f.left <= Top(s).left,
         stack'[s] = <<f>> \o Tail(stack[s]), apac_depth'[s] = apac_depth[s]
  PROVE  ThreadInv(s)'
<1>1. stack[s] \in Seq(FrameType)
  BY DEF DepthTypeOK
<1>2. /\ Len(stack'[s]) = Len(stack[s])
      /\ Len(stack[s]) \in Nat
      /\ stack'[s][1] = f
      /\ \A k \in 2..Len(stack[s]) : stack'[s][k] = stack[s][k]
  BY <1>1, Replaced
<1>3. Top(s) = stack[s][1] /\ Top(s) \in FrameType /\ 1 \in 1..Len(stack[s])
  BY <1>1, TopFrame DEF Top
<1>4. \A k \in 1..Len(stack[s]) :
        stack'[s][k].task = stack[s][k].task /\ FrameDeepEnough(stack'[s][k], apac_depth[s])
  <2>1. FrameDeepEnough(f, apac_depth[s])
    BY <1>3 DEF ThreadInv, FrameDeepEnough, FrameType
  <2>2. QED
    BY <1>2, <1>3, <2>1 DEF ThreadInv
<1>5. (\A k \in 1..Len(stack[s]) : FrameDeepEnough(stack[s][k], apac_depth[s]))'
  BY <1>2, <1>4 DEF FrameDeepEnough, TasksKept
<1>6. \A k \in 1..Len(stack[s]) :
        task'[stack'[s][k].task].nest = task[stack[s][k].task].nest
  BY <1>4 DEF FrameDeepEnough, TasksKept
<1>7. QED
  BY <1>2, <1>5, <1>6 DEF ThreadInv

\* A step that puts a frame of an equally deep or deeper task on a stack.
LEMMA PushedThread ==
  ASSUME DepthTypeOK, NEW s \in Thread, TasksKept,
         NEW st \in Seq(FrameType), NEW f \in FrameType,
         \A k \in 1..Len(st) : st[k].task \in Id /\ f.task \in Id
                               /\ task[st[k].task].nest <= task[f.task].nest,
         \A j, k \in 1..Len(st) : j <= k => task[st[k].task].nest <= task[st[j].task].nest,
         \A k \in 1..Len(st) : FrameDeepEnough(st[k], apac_depth'[s]),
         FrameDeepEnough(f, apac_depth'[s]),
         stack'[s] = <<f>> \o st
  PROVE  ThreadInv(s)'
<1>1. /\ Len(stack'[s]) = Len(st) + 1
      /\ Len(st) \in Nat
      /\ stack'[s][1] = f
      /\ \A k \in 2..Len(stack'[s]) : k - 1 \in 1..Len(st) /\ stack'[s][k] = st[k - 1]
  BY Pushed
<1>2. \A k \in 1..Len(stack'[s]) : FrameDeepEnough(stack'[s][k], apac_depth'[s])
  BY <1>1
<1>3. ASSUME NEW j \in 1..Len(stack'[s]), NEW k \in 1..Len(stack'[s]), j <= k
      PROVE  task[stack'[s][k].task].nest <= task[stack'[s][j].task].nest
  <2>1. CASE j = 1 /\ k = 1
    <3>1. f.task \in Id
      BY DEF FrameDeepEnough
    <3>2. task[f.task].nest \in Nat
      BY <3>1, TaskFields
    <3>3. QED
      BY <1>1, <2>1, <3>2
  <2>2. CASE j = 1 /\ k # 1
    BY <1>1, <2>2
  <2>3. CASE j # 1
    <3>1. j - 1 \in 1..Len(st) /\ k - 1 \in 1..Len(st) /\ j - 1 <= k - 1
      BY <1>1, <1>3, <2>3
    <3>2. stack'[s][j] = st[j - 1] /\ stack'[s][k] = st[k - 1]
      BY <1>1, <1>3, <2>3
    <3>3. QED
      BY <3>1, <3>2
  <2>4. QED
    BY <2>1, <2>2, <2>3
<1>4. QED
  BY <1>2, <1>3 DEF ThreadInv, FrameDeepEnough, TasksKept
-----------------------------------------------------------------------------
\* The tasks of a step that leaves them alone, or only changes a status.
LEMMA StatusStep ==
  ASSUME DepthInv, NEW t \in Id, NEW x \in {"created", "running", "done"},
         task' = task \/ task' = [task EXCEPT ![t].status = x]
  PROVE  TasksKept /\ TasksDeepEnough' /\ task' \in Seq(TaskType) /\ Id' = Id
<1>1. task \in Seq(TaskType)
  BY DEF DepthInv, DepthTypeOK, TaskType
<1>2. CASE task' = task
  BY <1>1, <1>2 DEF TasksKept, DepthInv, TasksDeepEnough, Id
<1>3. CASE task' = [task EXCEPT ![t].status = x]
  <2>1. task[t] \in TaskType
    BY <1>1 DEF Id
  <2>2. [task[t] EXCEPT !.status = x] \in TaskType
    BY <2>1 DEF TaskType
  <2>3. task' = [task EXCEPT ![t] = [task[t] EXCEPT !.status = x]]
    BY <1>3
  <2>4. task' \in Seq(TaskType) /\ Len(task') = Len(task)
    BY <1>1, <2>2, <2>3 DEF Id
  <2>5. Id' = Id
    BY <2>4 DEF Id
  <2>6. \A u \in Id : /\ task'[u].nest = task[u].nest
                      /\ task'[u].calls = task[u].calls
                      /\ task'[u].depth = task[u].depth
                      /\ task'[u].ancestors = task[u].ancestors
    <3>1. SUFFICES ASSUME NEW u \in Id
                   PROVE  /\ task'[u].nest = task[u].nest
                          /\ task'[u].calls = task[u].calls
                          /\ task'[u].depth = task[u].depth
                          /\ task'[u].ancestors = task[u].ancestors
      OBVIOUS
    <3>2. CASE u = t
      <4>1. task'[u] = [task[t] EXCEPT !.status = x]
        BY <1>1, <2>3, <3>2 DEF Id
      <4>2. QED
        BY <2>1, <4>1, <3>2 DEF TaskType
    <3>3. CASE u # t
      BY <1>1, <2>3, <3>3 DEF Id
    <3>4. QED
      BY <3>2, <3>3
  <2>7. TasksKept
    BY <2>5, <2>6 DEF TasksKept
  <2>8. TasksDeepEnough'
    BY <2>5, <2>6 DEF DepthInv, TasksDeepEnough
  <2>9. QED
    BY <2>4, <2>5, <2>7, <2>8
<1>4. QED
  BY <1>2, <1>3

\* A call keeps the invariant: the copy of the depth is at least the nesting
\* of the task, because that task or one inside it set the variable.
LEMMA CallStep ==
  ASSUME DepthInv, NEW s \in Thread, stack[s] # <<>>, Top(s).left > 0,
         enter(s), UNCHANGED <<task, apac_depth>>
  PROVE  DepthInv'
<1> DEFINE g == [Top(s) EXCEPT !.left = @ - 1]
           st == <<g>> \o Tail(stack[s])
<1>1. stack[s] \in Seq(FrameType) /\ stack \in [Thread -> Seq(FrameType)] /\ apac_depth[s] \in Nat
  BY DEF DepthInv, DepthTypeOK
<1>2. Top(s) \in FrameType /\ Top(s) = stack[s][1] /\ 1 \in 1..Len(stack[s])
  BY <1>1, TopFrame DEF Top
<1>3. /\ g \in FrameType
      /\ g.task = Top(s).task /\ g.kind = Top(s).kind /\ g.local = Top(s).local
      /\ g.left <= Top(s).left
  BY <1>2 DEF FrameType
<1>4. OneLess(s) = st
  BY DEF OneLess
<1>5. /\ FrameDeepEnough(Top(s), apac_depth[s])
      /\ \A j, k \in 1..Len(stack[s]) :
           j <= k => task[stack[s][k].task].nest <= task[stack[s][j].task].nest
      /\ \A k \in 1..Len(stack[s]) : FrameDeepEnough(stack[s][k], apac_depth[s])
  BY <1>2, ByThread DEF ThreadInv
<1>6. /\ st \in Seq(FrameType)
      /\ Len(st) = Len(stack[s])
      /\ st[1] = g
      /\ \A k \in 2..Len(stack[s]) : st[k] = stack[s][k]
  BY <1>1, <1>3, Replaced
<1>7. TasksKept
  BY DEF TasksKept, Id
<1> HIDE DEF g, st
<1>8. CASE ~depthOk(apac_depth[s])
  <2>1. stack' = [stack EXCEPT ![s] = st]
    BY <1>4, <1>8 DEF enter
  <2>2. stack' \in [Thread -> Seq(FrameType)] /\ stack'[s] = st
    BY <2>1, <1>1, <1>6
  <2>3. ThreadInv(s)'
    BY <1>3, <1>7, <2>2, ReplacedThread, ByThread DEF st
  <2>4. \A u \in Thread : u # s => ThreadInv(u)'
    BY <1>1, <1>7, <2>1, OtherThread, ByThread
  <2>5. DepthTypeOK' /\ TasksDeepEnough'
    BY <2>2 DEF DepthInv, DepthTypeOK, TasksDeepEnough, Id
  <2>6. QED
    BY <2>3, <2>4, <2>5 DEF DepthInv, FramesDeepEnough, StackDeepens, ThreadInv
<1>9. CASE depthOk(apac_depth[s])
  <2>1. PICK n \in 0..MaxStmts :
          stack' = [stack EXCEPT ![s] =
                      <<Frame("function", Top(s).task, n, apac_depth[s])>> \o st]
    BY <1>4, <1>9 DEF enter
  <2> DEFINE f == Frame("function", Top(s).task, n, apac_depth[s])
  <2>2. n \in Nat
    BY DepthAssumption
  <2>3. f \in FrameType
    BY <1>1, <1>2, <2>2 DEF Frame, FrameType
  <2>4. FrameDeepEnough(f, apac_depth[s])
    BY <1>1, <1>2, <1>5, <1>9, DepthAssumption
      DEF Frame, FrameDeepEnough, depthOk, FrameType
  <2>5. FrameDeepEnough(g, apac_depth[s])
    BY <1>2, <1>3, <1>5 DEF FrameDeepEnough, FrameType
  <2>6. \A k \in 1..Len(st) : FrameDeepEnough(st[k], apac_depth[s])
                              /\ st[k].task = stack[s][k].task
    BY <1>2, <1>3, <1>5, <1>6, <2>5
  <2>7. f.task = stack[s][1].task
    BY <1>2 DEF Frame
  <2>8. \A k \in 1..Len(st) : st[k].task \in Id /\ f.task \in Id
                              /\ task[st[k].task].nest <= task[f.task].nest
    BY <1>2, <1>5, <1>6, <2>4, <2>6, <2>7 DEF FrameDeepEnough
  <2>9. \A j, k \in 1..Len(st) : j <= k => task[st[k].task].nest <= task[st[j].task].nest
    BY <1>5, <1>6, <2>6
  <2>10. stack' \in [Thread -> Seq(FrameType)] /\ stack'[s] = <<f>> \o st
    BY <2>1, <1>1, <1>6, <2>3, Pushed
  <2> HIDE DEF f
  <2>11. ThreadInv(s)'
    BY <1>6, <1>7, <2>3, <2>4, <2>6, <2>8, <2>9, <2>10, PushedThread DEF DepthInv
  <2>12. \A u \in Thread : u # s => ThreadInv(u)'
    BY <1>1, <1>7, <2>1, OtherThread, ByThread
  <2>13. DepthTypeOK' /\ TasksDeepEnough'
    BY <2>10 DEF DepthInv, DepthTypeOK, TasksDeepEnough, Id
  <2>14. QED
    BY <2>11, <2>12, <2>13 DEF DepthInv, FramesDeepEnough, StackDeepens, ThreadInv
<1>10. QED
  BY <1>8, <1>9

\* A new task is one level deeper than its creator, and so is the depth it
\* is given.
LEMMA CreateStep ==
  ASSUME DepthInv, NEW s \in Thread, createTask(s)
  PROVE  DepthInv'
<1> DEFINE t == Top(s).task
           g == [Top(s) EXCEPT !.left = @ - 1, !.group = @ \cup {Len(task) + 1}]
<1>1. /\ stack[s] \in Seq(FrameType) /\ stack \in [Thread -> Seq(FrameType)]
      /\ task \in Seq(TaskType) /\ Len(task) \in Nat
      /\ stack[s] # <<>> /\ Top(s).kind = "function" /\ Top(s).left > 0
  BY DEF DepthInv, DepthTypeOK, TaskType, createTask, Busy
<1>2. Top(s) \in FrameType /\ Top(s) = stack[s][1] /\ 1 \in 1..Len(stack[s])
  BY <1>1, TopFrame DEF Top
<1>3. FrameDeepEnough(Top(s), apac_depth[s])
  BY <1>2, ByThread DEF ThreadInv
<1>4. /\ t \in Id
      /\ task[t].nest <= Top(s).local
      /\ Top(s).local < DepthMax
      /\ Top(s).local \in Nat
      /\ task[t].nest \in Nat /\ task[t].ancestors \in SUBSET Nat
  BY <1>1, <1>2, <1>3, TaskFields DEF FrameDeepEnough, FrameType, DepthInv
<1>5. PICK calls \in 0..MaxCalls : task' = Append(task, newTask(s, calls))
  BY DEF createTask
<1> DEFINE new == newTask(s, calls)
<1>6. calls \in Nat
  BY DepthAssumption
<1>7. /\ new \in TaskType
      /\ new.nest = task[t].nest + 1
      /\ new.depth = Top(s).local + 1
      /\ new.ancestors = task[t].ancestors \cup {t}
  BY <1>4, <1>6 DEF newTask, TaskType, Id
<1> HIDE DEF t, new
<1>8. /\ task' \in Seq(TaskType) /\ Len(task') = Len(task) + 1
      /\ task'[Len(task) + 1] = new
      /\ \A u \in Id : task'[u] = task[u]
  BY <1>1, <1>5, <1>7 DEF new, Id
<1>9. Id' = Id \cup {Len(task) + 1} /\ TasksKept
  BY <1>1, <1>8 DEF Id, TasksKept
<1>10. TasksDeepEnough'
  <2>1. SUFFICES ASSUME NEW u \in Id'
                 PROVE  /\ task'[u].nest <= task'[u].depth
                        /\ task'[u].depth <= DepthMax
                        /\ \A v \in task'[u].ancestors : v \in Id' /\ task'[v].nest < task'[u].nest
    BY DEF TasksDeepEnough
  <2>2. \A v \in task[t].ancestors : v \in Id /\ task[v].nest < task[t].nest
    BY <1>4 DEF DepthInv, TasksDeepEnough
  <2>3. CASE u \in Id
    BY <1>8, <1>9, <2>3 DEF DepthInv, TasksDeepEnough
  <2>4. CASE u = Len(task) + 1
    <3>1. \A v \in new.ancestors : v \in Id /\ task[v].nest \in Nat /\ task[v].nest <= task[t].nest
      BY <1>4, <1>7, <2>2, TaskFields DEF DepthInv
    <3>2. new.nest <= new.depth /\ new.depth <= DepthMax
      BY <1>4, <1>7, DepthAssumption
    <3>3. \A v \in new.ancestors : task[v].nest < new.nest
      BY <1>4, <1>7, <3>1
    <3>4. QED
      BY <1>8, <1>9, <2>4, <3>1, <3>2, <3>3
  <2>5. QED
    BY <1>9, <2>3, <2>4
<1>11. /\ g \in FrameType
       /\ g.task = Top(s).task /\ g.kind = Top(s).kind /\ g.local = Top(s).local
       /\ g.left <= Top(s).left
  <2>1. /\ Top(s).left - 1 \in Nat
        /\ Top(s).group \cup {Len(task) + 1} \in SUBSET Nat
    BY <1>1, <1>2 DEF FrameType
  <2> DEFINE changed(f, n, G) == [f EXCEPT !.left = n, !.group = G]
             n == Top(s).left - 1
             G == Top(s).group \cup {Len(task) + 1}
  <2>2. ASSUME NEW f \in FrameType, NEW m \in Nat, NEW H \in SUBSET Nat
        PROVE  /\ changed(f, m, H) \in FrameType
               /\ changed(f, m, H).task = f.task
               /\ changed(f, m, H).kind = f.kind
               /\ changed(f, m, H).local = f.local
               /\ changed(f, m, H).left = m
    BY DEF FrameType
  <2>3. g = changed(Top(s), n, G)
    OBVIOUS
  <2>4. n \in Nat /\ G \in SUBSET Nat /\ n <= Top(s).left
    BY <1>2, <2>1 DEF FrameType
  <2> HIDE DEF g, n, G, changed
  <2>5. QED
    BY <1>2, <2>2, <2>3, <2>4
<1> HIDE DEF g
<1>12. stack' = [stack EXCEPT ![s] = <<g>> \o Tail(stack[s])] /\ UNCHANGED apac_depth
  BY DEF createTask, g
<1>13. stack' \in [Thread -> Seq(FrameType)] /\ stack'[s] = <<g>> \o Tail(stack[s])
  BY <1>1, <1>11, <1>12, Replaced
<1>14. ThreadInv(s)'
  BY <1>1, <1>9, <1>11, <1>12, <1>13, ReplacedThread, ByThread
<1>15. \A u \in Thread : u # s => ThreadInv(u)'
  BY <1>1, <1>9, <1>12, OtherThread, ByThread
<1>16. DepthTypeOK'
  BY <1>8, <1>12, <1>13 DEF DepthInv, DepthTypeOK, TaskType
<1>17. QED
  BY <1>10, <1>14, <1>15, <1>16 DEF DepthInv, FramesDeepEnough, StackDeepens, ThreadInv

\* A task that a waiting thread starts is inside the one it waits in, so the
\* depth it sets is enough for every frame below it.
LEMMA StartStep ==
  ASSUME DepthInv, NEW s \in Thread, startTask(s)
  PROVE  DepthInv'
<1>1. PICK t \in Id :
        /\ schedulable(s, t)
        /\ task' = [task EXCEPT ![t].status = "running"]
        /\ stack' = [stack EXCEPT ![s] = <<Frame("task", t, task[t].calls, 0)>> \o @]
        /\ apac_depth' = [apac_depth EXCEPT ![s] = depthAtStart(s, t)]
  BY DEF startTask
<1> DEFINE f == Frame("task", t, task[t].calls, 0)
<1>2. /\ TasksKept /\ TasksDeepEnough' /\ task' \in Seq(TaskType)
  BY <1>1, StatusStep
<1>3. /\ stack[s] \in Seq(FrameType) /\ stack \in [Thread -> Seq(FrameType)]
      /\ apac_depth \in [Thread -> Nat]
  BY DEF DepthInv, DepthTypeOK
<1>4. /\ task[t].nest \in Nat /\ task[t].depth \in Nat /\ task[t].calls \in Nat
      /\ task[t].nest <= task[t].depth
  BY TaskFields DEF DepthInv, TasksDeepEnough
<1>5. f \in FrameType /\ f.task = t /\ f.kind = "task" /\ f.left = task[t].calls
  BY <1>4 DEF Frame, FrameType, Id
<1> HIDE DEF f
<1>6. /\ stack'[s] = <<f>> \o stack[s]
      /\ stack' \in [Thread -> Seq(FrameType)]
      /\ apac_depth'[s] = depthAtStart(s, t)
      /\ apac_depth' \in [Thread -> Nat]
  <2>1. depthAtStart(s, t) \in Nat
    BY <1>3, <1>4 DEF depthAtStart
  <2>2. <<f>> \o stack[s] \in Seq(FrameType)
    BY <1>3, <1>5, Pushed
  <2>3. QED
    BY <1>1, <1>3, <2>1, <2>2 DEF f
<1>7. /\ \A k \in 1..Len(stack[s]) : FrameDeepEnough(stack[s][k], apac_depth[s])
      /\ \A j, k \in 1..Len(stack[s]) :
           j <= k => task[stack[s][k].task].nest <= task[stack[s][j].task].nest
  BY ByThread DEF ThreadInv
<1>8. \A k \in 1..Len(stack[s]) :
        stack[s][k].task \in Id /\ task[stack[s][k].task].nest <= task[t].nest
  <2>1. SUFFICES ASSUME NEW k \in 1..Len(stack[s])
                 PROVE  stack[s][k].task \in Id /\ task[stack[s][k].task].nest <= task[t].nest
    OBVIOUS
  <2>2. stack[s] # <<>>
    BY <1>3
  <2>3. Top(s) = stack[s][1] /\ 1 \in 1..Len(stack[s]) /\ 1 <= k
    BY <1>3, <2>2, TopFrame DEF Top
  <2>4. stack[s][k].task \in Id /\ stack[s][1].task \in Id
    BY <1>7, <2>3 DEF FrameDeepEnough
  <2>5. task[stack[s][k].task].nest <= task[stack[s][1].task].nest
    BY <1>7, <2>3
  <2>6. task[stack[s][1].task].nest < task[t].nest
    BY <1>1, <2>2, <2>3 DEF schedulable, Busy, DepthInv, TasksDeepEnough
  <2>7. task[stack[s][k].task].nest \in Nat /\ task[stack[s][1].task].nest \in Nat
    BY <2>4, TaskFields DEF DepthInv
  <2>8. QED
    BY <1>4, <2>4, <2>5, <2>6, <2>7
<1>9. \A k \in 1..Len(stack[s]) : FrameDeepEnough(stack[s][k], apac_depth'[s])
  <2>1. SUFFICES ASSUME NEW k \in 1..Len(stack[s])
                 PROVE  FrameDeepEnough(stack[s][k], apac_depth'[s])
    OBVIOUS
  <2>2. CASE task[t].calls > 0
    <3>1. apac_depth'[s] = task[t].depth
      BY <1>6, <2>2 DEF depthAtStart
    <3>2. task[stack[s][k].task].nest \in Nat
      BY <1>8, TaskFields DEF DepthInv
    <3>3. task[stack[s][k].task].nest <= apac_depth'[s]
      BY <1>4, <1>8, <3>1, <3>2
    <3>4. QED
      BY <1>7, <3>3 DEF FrameDeepEnough
  <2>3. CASE ~(task[t].calls > 0)
    BY <1>6, <1>7, <2>3 DEF depthAtStart
  <2>4. QED
    BY <2>2, <2>3
<1>10. FrameDeepEnough(f, apac_depth'[s])
  BY <1>4, <1>5, <1>6 DEF FrameDeepEnough, depthAtStart
<1>11. \A k \in 1..Len(stack[s]) : stack[s][k].task \in Id /\ f.task \in Id
                                   /\ task[stack[s][k].task].nest <= task[f.task].nest
  BY <1>5, <1>8
<1>12. ThreadInv(s)'
  BY <1>2, <1>3, <1>5, <1>6, <1>7, <1>9, <1>10, <1>11, PushedThread DEF DepthInv
<1>13. \A u \in Thread : u # s => ThreadInv(u)'
  BY <1>1, <1>2, <1>3, OtherThread, ByThread
<1>14. DepthTypeOK'
  BY <1>2, <1>6 DEF DepthTypeOK, TaskType
<1>15. QED
  BY <1>2, <1>12, <1>13, <1>14 DEF DepthInv, FramesDeepEnough, StackDeepens, ThreadInv

\* Leaving a task or a function shortens the stack and changes no depth.
LEMMA LeaveStep ==
  ASSUME DepthInv, NEW s \in Thread, endTask(s) \/ taskgroupEnd(s)
  PROVE  DepthInv'
<1>1. /\ stack[s] # <<>> /\ stack' = [stack EXCEPT ![s] = Tail(@)]
      /\ UNCHANGED apac_depth
      /\ task' = task \/ task' = [task EXCEPT ![Top(s).task].status = "done"]
  BY DEF endTask, taskgroupEnd, Busy
<1>2. /\ stack[s] \in Seq(FrameType) /\ stack \in [Thread -> Seq(FrameType)]
  BY DEF DepthInv, DepthTypeOK
<1>3. Top(s) = stack[s][1] /\ 1 \in 1..Len(stack[s])
  BY <1>1, <1>2, TopFrame DEF Top
<1>4. Top(s).task \in Id
  BY <1>3, ByThread DEF ThreadInv, FrameDeepEnough
<1>5. TasksKept /\ TasksDeepEnough' /\ task' \in Seq(TaskType)
  BY <1>1, <1>4, StatusStep
<1>6. stack' \in [Thread -> Seq(FrameType)] /\ stack'[s] = Tail(stack[s])
  BY <1>1, <1>2, Popped
<1>7. ThreadInv(s)'
  BY <1>1, <1>5, <1>6, PoppedThread, ByThread
<1>8. \A u \in Thread : u # s => ThreadInv(u)'
  BY <1>1, <1>2, <1>5, OtherThread, ByThread
<1>9. DepthTypeOK'
  BY <1>1, <1>5, <1>6 DEF DepthInv, DepthTypeOK, TaskType
<1>10. QED
  BY <1>5, <1>7, <1>8, <1>9 DEF DepthInv, FramesDeepEnough, StackDeepens, ThreadInv

\* The depth that each thread works with covers the nesting of every task it
\* is in, whatever the tasks it ran while waiting left in __apac_depth.
THEOREM DepthCovers == Spec => []DepthInv
<1>1. Init => DepthInv
  <2>1. SUFFICES ASSUME Init PROVE DepthInv
    OBVIOUS
  <2>2. Main \in TaskType
    BY DEF Main, TaskType
  <2>3. task \in Seq(TaskType) /\ Id = {1} /\ task[1] = Main
    BY <2>1, <2>2 DEF Init, Id
  <2>4. Frame("task", 1, 1, 0) \in FrameType
    BY DEF Frame, FrameType
  <2>5. \A s \in Thread : stack[s] \in Seq(FrameType)
    BY <2>1, <2>4 DEF Init
  <2>6. stack \in [Thread -> Seq(FrameType)]
    BY <2>1, <2>5 DEF Init
  <2>7. DepthTypeOK
    BY <2>1, <2>3, <2>6 DEF DepthTypeOK, TaskType, Init
  <2>8. TasksDeepEnough
    BY <2>3, DepthAssumption DEF TasksDeepEnough, Main
  <2>9. ASSUME NEW s \in Thread, NEW k \in 1..Len(stack[s])
        PROVE  stack[s][k] = Frame("task", 1, 1, 0)
    BY <2>1, <2>9 DEF Init
  <2>10. FrameDeepEnough(Frame("task", 1, 1, 0), 0)
    BY <2>3 DEF FrameDeepEnough, Frame, Main
  <2>11. FramesDeepEnough
    BY <2>1, <2>9, <2>10 DEF FramesDeepEnough, Init
  <2>12. StackDeepens
    <3>1. task[Frame("task", 1, 1, 0).task].nest = 0
      BY <2>3 DEF Frame, Main
    <3>2. QED
      BY <2>9, <3>1 DEF StackDeepens
  <2>13. QED
    BY <2>7, <2>8, <2>11, <2>12 DEF DepthInv
<1>2. DepthInv /\ [Next]_vars => DepthInv'
  <2>1. ASSUME DepthInv, NEW s \in Thread, Step(s)
        PROVE  DepthInv'
    <3>1. CASE callInTask(s)
      BY <2>1, <3>1, CallStep DEF callInTask, Busy
    <3>2. CASE callInline(s)
      BY <2>1, <3>2, CallStep DEF callInline, Busy
    <3>3. CASE createTask(s)
      BY <2>1, <3>3, CreateStep
    <3>4. CASE startTask(s)
      BY <2>1, <3>4, StartStep
    <3>5. CASE endTask(s) \/ taskgroupEnd(s)
      BY <2>1, <3>5, LeaveStep
    <3>6. QED
      BY <2>1, <3>1, <3>2, <3>3, <3>4, <3>5 DEF Step
  <2>2. ASSUME DepthInv, UNCHANGED vars
        PROVE  DepthInv'
    <3>1. UNCHANGED <<task, apac_depth, stack>>
      BY <2>2 DEF vars
    <3>2. QED
      BY <2>2, <3>1 DEF DepthInv, DepthTypeOK, TasksDeepEnough, FramesDeepEnough,
        FrameDeepEnough, StackDeepens, Id
  <2>3. QED
    BY <2>1, <2>2 DEF Next
<1>3. QED
  BY <1>1, <1>2, PTL DEF Spec

\* No task is nested deeper than __apac_depth_max.
THEOREM DepthBounds == Spec => []NestBounded
<1>1. DepthInv => NestBounded
  <2>1. ASSUME DepthInv, NEW t \in Id
        PROVE  task[t].nest <= DepthMax
    <3>1. task[t].nest \in Nat /\ task[t].depth \in Nat
      BY <2>1, TaskFields DEF DepthInv
    <3>2. task[t].nest <= task[t].depth /\ task[t].depth <= DepthMax
      BY <2>1 DEF DepthInv, TasksDeepEnough
    <3>3. QED
      BY <3>1, <3>2, DepthAssumption
  <2>2. QED
    BY <2>1 DEF NestBounded
<1>2. QED
  BY <1>1, DepthCovers, PTL
-----------------------------------------------------------------------------
(***************************************************************************)
(* The taskgroups: JoinInv is inductive.  FramesNested and TasksAwaited are *)
(* stated for any stacks S and tasks T, so that a step can be followed as a *)
(* sequence of changes to them.                                             *)
(***************************************************************************)

Stacks == [Thread -> Seq(FrameType)]

Nested(S, T) ==
  /\ \A s \in Thread : \A k \in 1..Len(S[s]) :
       /\ S[s][k].kind = "task" => T[S[s][k].task].status = "running"
       /\ S[s][k].kind = "function" =>
            \E j \in 1..Len(S[s]) :
              k < j /\ S[s][j].kind = "task" /\ S[s][j].task = S[s][k].task
  /\ \A s, r \in Thread : \A j \in 1..Len(S[s]), k \in 1..Len(S[r]) :
       S[s][j].kind = "task" /\ S[r][k].kind = "task"
         /\ S[s][j].task = S[r][k].task => s = r /\ j = k

\* Task t has a function waiting for it.
Awaited(S, T, t) ==
  \E s \in Thread : \E k \in 1..Len(S[s]) :
    /\ S[s][k].kind = "function"
    /\ t \in S[s][k].group
    /\ T[t].ancestors = T[S[s][k].task].ancestors \cup {S[s][k].task}

\* A task is on one stack.
LEMMA OneFrame ==
  ASSUME NEW S, NEW T, Nested(S, T), NEW s \in Thread, NEW r \in Thread,
         NEW j \in 1..Len(S[s]), NEW k \in 1..Len(S[r]),
         S[s][j].kind = "task", S[r][k].kind = "task", S[s][j].task = S[r][k].task
  PROVE  s = r /\ j = k
BY DEF Nested

\* The innermost frame changes, its task and its kind do not, and it still
\* waits for what it waited for.
LEMMA NestedReplaced ==
  ASSUME NEW S \in Stacks, NEW T, Nested(S, T), NEW s \in Thread, S[s] # <<>>,
         NEW g \in FrameType, g.kind = S[s][1].kind, g.task = S[s][1].task,
         S[s][1].group \subseteq g.group
  PROVE  LET R == [S EXCEPT ![s] = <<g>> \o Tail(S[s])]
         IN  /\ R \in Stacks /\ Nested(R, T)
             /\ \A t : Awaited(S, T, t) => Awaited(R, T, t)
<1>1. PICK R : R = [S EXCEPT ![s] = <<g>> \o Tail(S[s])]
  OBVIOUS
<1>2. PICK st : st = <<g>> \o Tail(S[s])
  OBVIOUS
<1>3. /\ st \in Seq(FrameType) /\ Len(st) = Len(S[s]) /\ st[1] = g
      /\ \A k \in 2..Len(S[s]) : st[k] = S[s][k]
  BY <1>2, Replaced DEF Stacks
<1>4. R \in Stacks /\ R[s] = st /\ \A r \in Thread : r # s => R[r] = S[r]
  BY <1>1, <1>2, <1>3 DEF Stacks
<1>5. \A k \in 1..Len(S[s]) : st[k].kind = S[s][k].kind /\ st[k].task = S[s][k].task
                              /\ S[s][k].group \subseteq st[k].group
  <2> SUFFICES ASSUME NEW k \in 1..Len(S[s])
               PROVE  st[k].kind = S[s][k].kind /\ st[k].task = S[s][k].task
                      /\ S[s][k].group \subseteq st[k].group
    OBVIOUS
  <2>1. k = 1 \/ k \in 2..Len(S[s])
    BY DEF Stacks
  <2> QED BY <2>1, <1>3
<1>6. \A r \in Thread :
        /\ Len(R[r]) = Len(S[r])
        /\ \A k \in 1..Len(S[r]) : R[r][k].kind = S[r][k].kind /\ R[r][k].task = S[r][k].task
                                   /\ S[r][k].group \subseteq R[r][k].group
  BY <1>3, <1>4, <1>5
<1>7. Nested(R, T)
  <2>1. ASSUME NEW r \in Thread, NEW k \in 1..Len(R[r])
        PROVE  /\ R[r][k].kind = "task" => T[R[r][k].task].status = "running"
               /\ R[r][k].kind = "function" =>
                    \E j \in 1..Len(R[r]) :
                      k < j /\ R[r][j].kind = "task" /\ R[r][j].task = R[r][k].task
    <3>1. k \in 1..Len(S[r]) /\ R[r][k].kind = S[r][k].kind /\ R[r][k].task = S[r][k].task
      BY <1>6
    <3>2. ASSUME S[r][k].kind = "function"
          PROVE  \E j \in 1..Len(R[r]) : k < j /\ R[r][j].kind = "task" /\ R[r][j].task = R[r][k].task
      <4>1. PICK j \in 1..Len(S[r]) : k < j /\ S[r][j].kind = "task" /\ S[r][j].task = S[r][k].task
        BY <3>1, <3>2 DEF Nested
      <4> QED BY <4>1, <3>1, <1>6
    <3>3. S[r][k].kind = "task" => T[S[r][k].task].status = "running"
      BY <3>1 DEF Nested
    <3> QED BY <3>1, <3>2, <3>3
  <2>2. ASSUME NEW q \in Thread, NEW r \in Thread,
               NEW j \in 1..Len(R[q]), NEW k \in 1..Len(R[r]),
               R[q][j].kind = "task", R[r][k].kind = "task", R[q][j].task = R[r][k].task
        PROVE  q = r /\ j = k
    <3>1. /\ j \in 1..Len(S[q]) /\ R[q][j].kind = S[q][j].kind /\ R[q][j].task = S[q][j].task
          /\ k \in 1..Len(S[r]) /\ R[r][k].kind = S[r][k].kind /\ R[r][k].task = S[r][k].task
      BY <1>6
    <3>2. S[q][j].kind = "task" /\ S[r][k].kind = "task" /\ S[q][j].task = S[r][k].task
      BY <3>1, <2>2
    <3> QED BY <3>1, <3>2, OneFrame
  <2> QED BY <2>1, <2>2 DEF Nested
<1>8. \A t : Awaited(S, T, t) => Awaited(R, T, t)
  BY <1>6 DEF Awaited
<1> QED BY <1>1, <1>4, <1>7, <1>8

\* A frame is put on a stack: a function of the task at its top, or a task that
\* is on no stack.
LEMMA NestedPushed ==
  ASSUME NEW S \in Stacks, NEW T, Nested(S, T), NEW s \in Thread, NEW f \in FrameType,
         \/ f.kind = "function" /\ S[s] # <<>> /\ f.task = S[s][1].task
         \/ /\ f.kind = "task" /\ T[f.task].status = "running"
            /\ \A r \in Thread : \A k \in 1..Len(S[r]) :
                 S[r][k].kind = "task" => S[r][k].task # f.task
  PROVE  LET R == [S EXCEPT ![s] = <<f>> \o S[s]]
         IN  /\ R \in Stacks /\ Nested(R, T)
             /\ \A t : Awaited(S, T, t) => Awaited(R, T, t)
<1>1. PICK R : R = [S EXCEPT ![s] = <<f>> \o S[s]]
  OBVIOUS
<1>2. PICK st : st = <<f>> \o S[s]
  OBVIOUS
<1>3. /\ st \in Seq(FrameType) /\ Len(st) = Len(S[s]) + 1 /\ st[1] = f
      /\ \A k \in 2..Len(st) : k - 1 \in 1..Len(S[s]) /\ st[k] = S[s][k - 1]
      /\ S[s] \in Seq(FrameType) /\ Len(S[s]) \in Nat
  BY <1>2, Pushed DEF Stacks
<1>4. R \in Stacks /\ R[s] = st /\ \A r \in Thread : r # s => R[r] = S[r]
  BY <1>1, <1>2, <1>3 DEF Stacks
<1>5. \A k \in 1..Len(S[s]) : k + 1 \in 1..Len(st) /\ st[k + 1] = S[s][k]
  BY <1>3
<1>6. \A k \in 1..Len(st) : k = 1 \/ k \in 2..Len(st)
  BY <1>3
<1>7. ASSUME NEW k \in 1..Len(st)
      PROVE  /\ st[k].kind = "task" => T[st[k].task].status = "running"
             /\ st[k].kind = "function" =>
                  \E j \in 1..Len(st) : k < j /\ st[j].kind = "task" /\ st[j].task = st[k].task
  <2>1. CASE k = 1
    <3>1. CASE f.kind = "function" /\ S[s] # <<>> /\ f.task = S[s][1].task
      <4>0. 1 \in 1..Len(S[s]) /\ S[s][1] \in FrameType
        BY <3>1, <1>3
      <4>1. S[s][1].kind \in {"task", "function"}
        BY <4>0 DEF FrameType
      <4>2. PICK j \in 1..Len(S[s]) : S[s][j].kind = "task" /\ S[s][j].task = S[s][1].task
        BY <4>0, <4>1 DEF Nested
      <4>3. j + 1 \in 1..Len(st) /\ 1 < j + 1 /\ st[j + 1] = S[s][j]
        BY <1>3, <1>5
      <4> QED BY <4>2, <4>3, <3>1, <2>1, <1>3
    <3>2. CASE f.kind = "task" /\ T[f.task].status = "running"
      BY <3>2, <2>1, <1>3
    <3> QED BY <3>1, <3>2
  <2>2. CASE k \in 2..Len(st)
    <3>1. k - 1 \in 1..Len(S[s]) /\ st[k] = S[s][k - 1]
      BY <2>2, <1>3
    <3>2. ASSUME st[k].kind = "function"
          PROVE  \E j \in 1..Len(st) : k < j /\ st[j].kind = "task" /\ st[j].task = st[k].task
      <4>1. PICK j \in 1..Len(S[s]) : k - 1 < j /\ S[s][j].kind = "task"
                                      /\ S[s][j].task = S[s][k - 1].task
        BY <3>1, <3>2 DEF Nested
      <4>2. j + 1 \in 1..Len(st) /\ k < j + 1 /\ st[j + 1] = S[s][j]
        BY <4>1, <1>3, <1>5
      <4> QED BY <4>1, <4>2, <3>1
    <3>3. st[k].kind = "task" => T[st[k].task].status = "running"
      BY <3>1 DEF Nested
    <3> QED BY <3>2, <3>3
  <2> QED BY <2>1, <2>2, <1>6
<1>8. ASSUME NEW j \in 1..Len(st), NEW k \in 1..Len(st),
             st[j].kind = "task", st[k].kind = "task", st[j].task = st[k].task
      PROVE  j = k
  <2>1. j = 1 /\ k # 1 => FALSE
    BY <1>3, <1>6, <1>8
  <2>2. k = 1 /\ j # 1 => FALSE
    BY <1>3, <1>6, <1>8
  <2>3. CASE j # 1 /\ k # 1
    <3>1. /\ j - 1 \in 1..Len(S[s]) /\ st[j] = S[s][j - 1]
          /\ k - 1 \in 1..Len(S[s]) /\ st[k] = S[s][k - 1]
      BY <2>3, <1>3, <1>6
    <3>2. j - 1 = k - 1
      BY <3>1, <1>8 DEF Nested
    <3> QED BY <3>2
  <2> QED BY <2>1, <2>2, <2>3
<1>9. ASSUME NEW r \in Thread, r # s, NEW j \in 1..Len(st), NEW k \in 1..Len(S[r]),
             st[j].kind = "task", S[r][k].kind = "task", st[j].task = S[r][k].task
      PROVE  FALSE
  <2>1. CASE j = 1
    BY <2>1, <1>3, <1>9
  <2>2. CASE j # 1
    <3>1. j - 1 \in 1..Len(S[s]) /\ st[j] = S[s][j - 1]
      BY <2>2, <1>3, <1>6
    <3> QED BY <3>1, <1>9 DEF Nested
  <2> QED BY <2>1, <2>2
<1>10. Nested(R, T)
  <2>1. ASSUME NEW r \in Thread, NEW k \in 1..Len(R[r])
        PROVE  /\ R[r][k].kind = "task" => T[R[r][k].task].status = "running"
               /\ R[r][k].kind = "function" =>
                    \E j \in 1..Len(R[r]) :
                      k < j /\ R[r][j].kind = "task" /\ R[r][j].task = R[r][k].task
    <3>1. CASE r = s
      BY <3>1, <1>4, <1>7
    <3>2. CASE r # s
      BY <3>2, <1>4 DEF Nested
    <3> QED BY <3>1, <3>2
  <2>2. ASSUME NEW q \in Thread, NEW r \in Thread,
               NEW j \in 1..Len(R[q]), NEW k \in 1..Len(R[r]),
               R[q][j].kind = "task", R[r][k].kind = "task", R[q][j].task = R[r][k].task
        PROVE  q = r /\ j = k
    <3>1. CASE q = s /\ r = s
      BY <3>1, <2>2, <1>4, <1>8
    <3>2. CASE q = s /\ r # s
      BY <3>2, <2>2, <1>4, <1>9
    <3>3. CASE q # s /\ r = s
      BY <3>3, <2>2, <1>4, <1>9
    <3>4. CASE q # s /\ r # s
      <4>1. R[q] = S[q] /\ R[r] = S[r]
        BY <3>4, <1>4
      <4> QED BY <4>1, <2>2 DEF Nested
    <3> QED BY <3>1, <3>2, <3>3, <3>4
  <2> QED BY <2>1, <2>2 DEF Nested
<1>11. \A t : Awaited(S, T, t) => Awaited(R, T, t)
  <2> SUFFICES ASSUME NEW t, NEW r \in Thread, NEW k \in 1..Len(S[r]),
                      S[r][k].kind = "function", t \in S[r][k].group,
                      T[t].ancestors = T[S[r][k].task].ancestors \cup {S[r][k].task}
               PROVE  Awaited(R, T, t)
    BY DEF Awaited
  <2>1. PICK m \in 1..Len(R[r]) : R[r][m] = S[r][k]
    <3>1. CASE r = s
      BY <3>1, <1>4, <1>5
    <3>2. CASE r # s
      BY <3>2, <1>4
    <3> QED BY <3>1, <3>2
  <2> QED BY <2>1 DEF Awaited
<1> QED BY <1>1, <1>4, <1>10, <1>11

\* The innermost frame is left.
LEMMA NestedPopped ==
  ASSUME NEW S \in Stacks, NEW T, Nested(S, T), NEW s \in Thread, S[s] # <<>>
  PROVE  LET R == [S EXCEPT ![s] = Tail(S[s])]
         IN  /\ R \in Stacks /\ Nested(R, T)
             /\ \A t : Awaited(S, T, t) =>
                  Awaited(R, T, t) \/ (S[s][1].kind = "function" /\ t \in S[s][1].group)
<1>1. PICK R : R = [S EXCEPT ![s] = Tail(S[s])]
  OBVIOUS
<1>2. PICK st : st = Tail(S[s])
  OBVIOUS
<1>3. /\ st \in Seq(FrameType) /\ Len(st) = Len(S[s]) - 1 /\ Len(S[s]) \in Nat
      /\ \A k \in 1..Len(st) : k + 1 \in 1..Len(S[s]) /\ st[k] = S[s][k + 1]
  BY <1>2, Popped DEF Stacks
<1>4. R \in Stacks /\ R[s] = st /\ \A r \in Thread : r # s => R[r] = S[r]
  BY <1>1, <1>2, <1>3 DEF Stacks
<1>5. \A j \in 1..Len(S[s]) : j = 1 \/ (j - 1 \in 1..Len(st) /\ st[j - 1] = S[s][j])
  BY <1>3
<1>6. Nested(R, T)
  <2>1. ASSUME NEW r \in Thread, NEW k \in 1..Len(R[r])
        PROVE  /\ R[r][k].kind = "task" => T[R[r][k].task].status = "running"
               /\ R[r][k].kind = "function" =>
                    \E j \in 1..Len(R[r]) :
                      k < j /\ R[r][j].kind = "task" /\ R[r][j].task = R[r][k].task
    <3>1. CASE r = s
      <4>1. k \in 1..Len(st) /\ k + 1 \in 1..Len(S[s]) /\ R[r][k] = S[s][k + 1]
        BY <3>1, <1>3, <1>4
      <4>2. ASSUME S[s][k + 1].kind = "function"
            PROVE  \E j \in 1..Len(st) : k < j /\ st[j].kind = "task" /\ st[j].task = S[s][k + 1].task
        <5>1. PICK j \in 1..Len(S[s]) : k + 1 < j /\ S[s][j].kind = "task"
                                        /\ S[s][j].task = S[s][k + 1].task
          BY <4>1, <4>2 DEF Nested
        <5>2. j - 1 \in 1..Len(st) /\ k < j - 1 /\ st[j - 1] = S[s][j]
          BY <5>1, <4>1, <1>3, <1>5
        <5> QED BY <5>1, <5>2
      <4>3. S[s][k + 1].kind = "task" => T[S[s][k + 1].task].status = "running"
        BY <4>1 DEF Nested
      <4> QED BY <4>1, <4>2, <4>3, <3>1, <1>4
    <3>2. CASE r # s
      BY <3>2, <1>4 DEF Nested
    <3> QED BY <3>1, <3>2
  <2>2. ASSUME NEW q \in Thread, NEW r \in Thread,
               NEW j \in 1..Len(R[q]), NEW k \in 1..Len(R[r]),
               R[q][j].kind = "task", R[r][k].kind = "task", R[q][j].task = R[r][k].task
        PROVE  q = r /\ j = k
    <3>1. CASE q = s /\ r = s
      <4>1. /\ j + 1 \in 1..Len(S[s]) /\ R[q][j] = S[s][j + 1]
            /\ k + 1 \in 1..Len(S[s]) /\ R[r][k] = S[s][k + 1]
        BY <3>1, <1>3, <1>4
      <4>2. j + 1 = k + 1
        BY <4>1, <2>2 DEF Nested
      <4> QED BY <4>2, <3>1
    <3>2. CASE q = s /\ r # s
      <4>1. j + 1 \in 1..Len(S[s]) /\ R[q][j] = S[s][j + 1] /\ R[r] = S[r]
        BY <3>2, <1>3, <1>4
      <4> QED BY <4>1, <3>2, <2>2 DEF Nested
    <3>3. CASE q # s /\ r = s
      <4>1. k + 1 \in 1..Len(S[s]) /\ R[r][k] = S[s][k + 1] /\ R[q] = S[q]
        BY <3>3, <1>3, <1>4
      <4> QED BY <4>1, <3>3, <2>2 DEF Nested
    <3>4. CASE q # s /\ r # s
      BY <3>4, <2>2, <1>4 DEF Nested
    <3> QED BY <3>1, <3>2, <3>3, <3>4
  <2> QED BY <2>1, <2>2 DEF Nested
<1>7. ASSUME NEW t, Awaited(S, T, t)
      PROVE  Awaited(R, T, t) \/ (S[s][1].kind = "function" /\ t \in S[s][1].group)
  <2>1. PICK r \in Thread : \E k \in 1..Len(S[r]) :
          /\ S[r][k].kind = "function" /\ t \in S[r][k].group
          /\ T[t].ancestors = T[S[r][k].task].ancestors \cup {S[r][k].task}
    BY <1>7 DEF Awaited
  <2>2. PICK k \in 1..Len(S[r]) :
          /\ S[r][k].kind = "function" /\ t \in S[r][k].group
          /\ T[t].ancestors = T[S[r][k].task].ancestors \cup {S[r][k].task}
    BY <2>1
  <2>3. CASE r = s /\ k = 1
    BY <2>2, <2>3
  <2>4. CASE ~(r = s /\ k = 1)
    <3>1. PICK m \in 1..Len(R[r]) : R[r][m] = S[r][k]
      <4>1. CASE r = s
        BY <4>1, <2>4, <1>4, <1>5
      <4>2. CASE r # s
        BY <4>2, <1>4
      <4> QED BY <4>1, <4>2
    <3> QED BY <3>1, <2>2 DEF Awaited
  <2> QED BY <2>3, <2>4
<1> QED BY <1>1, <1>4, <1>6, <1>7
\* Only the statuses and the ancestors of the tasks matter, and a task that is
\* on no stack may change its status.
LEMMA NestedTasks ==
  ASSUME NEW S \in Stacks, NEW T, NEW U, Nested(S, T),
         \A r \in Thread : \A k \in 1..Len(S[r]) :
           /\ S[r][k].kind = "task" => U[S[r][k].task].status = T[S[r][k].task].status
           /\ U[S[r][k].task].ancestors = T[S[r][k].task].ancestors
  PROVE  /\ Nested(S, U)
         /\ \A t : U[t].ancestors = T[t].ancestors => (Awaited(S, U, t) <=> Awaited(S, T, t))
<1>1. Nested(S, U)
  BY DEF Nested
<1>2. \A t : U[t].ancestors = T[t].ancestors => (Awaited(S, U, t) <=> Awaited(S, T, t))
  BY DEF Awaited
<1> QED BY <1>1, <1>2

\* JoinInv, in these terms.
LEMMA JoinParts ==
  JoinInv <=>
    /\ DepthInv /\ DescendantsDone /\ Nested(stack, task)
    /\ \A t \in Id : task[t].status # "done" /\ task[t].ancestors # {} => Awaited(stack, task, t)
BY DEF JoinInv, FramesNested, TasksAwaited, Nested, Awaited

LEMMA JoinParts2 ==
  ASSUME DepthInv', DescendantsDone', Nested(stack', task'),
         \A t \in Id' : task'[t].status # "done" /\ task'[t].ancestors # {} =>
           Awaited(stack', task', t)
  PROVE  JoinInv'
BY DEF JoinInv, FramesNested, TasksAwaited, Nested, Awaited

LEMMA JoinCall ==
  ASSUME JoinInv, NEW s \in Thread, stack[s] # <<>>, Top(s).left > 0, enter(s),
         UNCHANGED <<task, apac_depth>>, DepthInv'
  PROVE  JoinInv'
<1>1. /\ stack \in Stacks /\ DescendantsDone /\ Nested(stack, task)
      /\ \A t \in Id : task[t].status # "done" /\ task[t].ancestors # {} => Awaited(stack, task, t)
      /\ apac_depth[s] \in Nat
  BY JoinParts DEF DepthInv, DepthTypeOK, Stacks
<1>2. Top(s) \in FrameType /\ Top(s) = stack[s][1]
  BY <1>1, TopFrame DEF Top, Stacks
<1>3. PICK g : g = [Top(s) EXCEPT !.left = @ - 1]
  OBVIOUS
<1>4. g \in FrameType /\ g.task = Top(s).task /\ g.kind = Top(s).kind /\ g.group = Top(s).group
  BY <1>2, <1>3 DEF FrameType
<1>5. PICK R : R = [stack EXCEPT ![s] = <<g>> \o Tail(stack[s])]
  OBVIOUS
<1>6. /\ R \in Stacks /\ Nested(R, task)
      /\ \A t : Awaited(stack, task, t) => Awaited(R, task, t)
  BY <1>1, <1>2, <1>4, <1>5, NestedReplaced
<1>7. /\ R[s] = OneLess(s) /\ R[s] # <<>> /\ R[s][1].task = Top(s).task
      /\ \A st : [R EXCEPT ![s] = st] = [stack EXCEPT ![s] = st]
      /\ R = [stack EXCEPT ![s] = R[s]]
  <2>1. R[s] = <<g>> \o Tail(stack[s])
    BY <1>1, <1>5 DEF Stacks
  <2>2. Len(R[s]) = Len(stack[s]) /\ R[s][1] = g /\ Len(stack[s]) # 0
    BY <2>1, <1>1, <1>4, Replaced DEF Stacks
  <2>3. R[s] # <<>>
    BY <2>2
  <2>4. \A st : [R EXCEPT ![s] = st] = [stack EXCEPT ![s] = st]
    BY <1>1, <1>5 DEF Stacks
  <2> QED BY <2>1, <2>2, <2>3, <2>4, <1>3, <1>4, <1>5 DEF OneLess
<1>8. /\ Nested(stack', task)
      /\ \A t : Awaited(stack, task, t) => Awaited(stack', task, t)
  <2>1. CASE ~depthOk(apac_depth[s])
    <3>1. stack' = R
      BY <2>1, <1>7 DEF enter
    <3> QED BY <3>1, <1>6
  <2>2. CASE depthOk(apac_depth[s])
    <3>1. PICK n \in 0..MaxStmts :
            stack' = [stack EXCEPT ![s] =
                        <<Frame("function", Top(s).task, n, apac_depth[s])>> \o R[s]]
      BY <2>2, <1>7 DEF enter
    <3>2. PICK f : f = Frame("function", Top(s).task, n, apac_depth[s])
      OBVIOUS
    <3>3. f \in FrameType /\ f.kind = "function" /\ f.task = Top(s).task
      BY <3>2, <1>1, <1>2, DepthAssumption DEF Frame, FrameType
    <3>4. stack' = [R EXCEPT ![s] = <<f>> \o R[s]]
      BY <3>1, <3>2, <1>7
    <3>5. /\ Nested([R EXCEPT ![s] = <<f>> \o R[s]], task)
          /\ \A t : Awaited(R, task, t) => Awaited([R EXCEPT ![s] = <<f>> \o R[s]], task, t)
      BY <3>3, <1>6, <1>7, NestedPushed
    <3> QED BY <3>4, <3>5, <1>6
  <2> QED BY <2>1, <2>2
<1>9. DescendantsDone' /\ Id' = Id
  BY <1>1 DEF DescendantsDone, Id
<1> QED BY <1>1, <1>8, <1>9, JoinParts2

\* The function that makes a task waits for it.
LEMMA JoinCreate ==
  ASSUME JoinInv, NEW s \in Thread, createTask(s), DepthInv'
  PROVE  JoinInv'
<1>1. /\ stack \in Stacks /\ DescendantsDone /\ Nested(stack, task) /\ DepthInv
      /\ \A t \in Id : task[t].status # "done" /\ task[t].ancestors # {} => Awaited(stack, task, t)
      /\ task \in Seq(TaskType) /\ Len(task) \in Nat
      /\ stack[s] # <<>> /\ Top(s).kind = "function"
  BY JoinParts DEF DepthInv, DepthTypeOK, Stacks, TaskType, createTask, Busy
<1>2. Top(s) \in FrameType /\ Top(s) = stack[s][1] /\ 1 \in 1..Len(stack[s])
  BY <1>1, TopFrame DEF Top, Stacks
<1>3. \A r \in Thread : \A k \in 1..Len(stack[r]) : stack[r][k].task \in Id
  BY <1>1 DEF DepthInv, FramesDeepEnough, FrameDeepEnough
<1>4. PICK calls \in 0..MaxCalls : task' = Append(task, newTask(s, calls))
  BY DEF createTask
<1>5. PICK new : new = newTask(s, calls)
  OBVIOUS
<1>6. PICK n : n = Len(task) + 1
  OBVIOUS
<1>7. /\ n \notin Id /\ Id' = Id \cup {n} /\ task'[n] = new
      /\ \A u \in Id : task'[u] = task[u]
      /\ new.status = "created"
      /\ new.ancestors = task[Top(s).task].ancestors \cup {Top(s).task}
  BY <1>1, <1>4, <1>5, <1>6 DEF Id, newTask
<1>8. \A u \in Id : task[u].ancestors \subseteq Id
  BY <1>1 DEF DepthInv, TasksDeepEnough
<1>9. PICK g : g = [Top(s) EXCEPT !.left = @ - 1, !.group = @ \cup {n}]
  OBVIOUS
<1>10. /\ g \in FrameType /\ g.task = Top(s).task /\ g.kind = Top(s).kind
       /\ g.group = Top(s).group \cup {n}
  <2>1. /\ Top(s).left - 1 \in Nat /\ Top(s).group \cup {n} \in SUBSET Nat
    BY <1>1, <1>2, <1>6 DEF FrameType, createTask
  <2> QED BY <2>1, <1>2, <1>9 DEF FrameType
<1>11. stack' = [stack EXCEPT ![s] = <<g>> \o Tail(stack[s])]
  BY <1>6, <1>9 DEF createTask
<1>12. /\ stack' \in Stacks /\ Nested(stack', task)
       /\ \A t : Awaited(stack, task, t) => Awaited(stack', task, t)
  BY <1>1, <1>2, <1>10, <1>11, NestedReplaced
<1>13. stack'[s][1] = g /\ 1 \in 1..Len(stack'[s])
  BY <1>1, <1>2, <1>10, <1>11, Replaced DEF Stacks
<1>14. \A r \in Thread : \A k \in 1..Len(stack'[r]) : stack'[r][k].task \in Id
  <2> SUFFICES ASSUME NEW r \in Thread, NEW k \in 1..Len(stack'[r]) PROVE stack'[r][k].task \in Id
    OBVIOUS
  <2>1. CASE r = s
    <3>1. /\ Len(stack'[s]) = Len(stack[s]) /\ Len(stack[s]) \in Nat
          /\ \A j \in 2..Len(stack[s]) : stack'[s][j] = stack[s][j]
      BY <1>1, <1>10, <1>11, Replaced DEF Stacks
    <3>2. k = 1 \/ k \in 2..Len(stack[s])
      BY <3>1, <2>1
    <3> QED BY <3>1, <3>2, <2>1, <1>2, <1>3, <1>10, <1>13
  <2>2. CASE r # s
    BY <2>2, <1>1, <1>3, <1>11 DEF Stacks
  <2> QED BY <2>1, <2>2
<1>15. /\ Nested(stack', task')
       /\ \A t : task'[t].ancestors = task[t].ancestors =>
                   (Awaited(stack', task', t) <=> Awaited(stack', task, t))
  BY <1>7, <1>12, <1>14, NestedTasks
<1>16. ASSUME NEW t \in Id', task'[t].status # "done", task'[t].ancestors # {}
       PROVE  Awaited(stack', task', t)
  <2>1. CASE t \in Id
    BY <2>1, <1>1, <1>7, <1>12, <1>15, <1>16
  <2>2. CASE t = n
    <3>1. g.task \in Id
      BY <1>13, <1>14
    <3>2. task'[n].ancestors = task'[g.task].ancestors \cup {g.task}
      BY <3>1, <1>7, <1>10
    <3> QED BY <2>2, <3>2, <1>1, <1>10, <1>13 DEF Awaited
  <2> QED BY <2>1, <2>2, <1>7
<1>17. DescendantsDone'
  <2> SUFFICES ASSUME NEW t \in Id', NEW u \in task'[t].ancestors, task'[u].status = "done"
               PROVE  task'[t].status = "done"
    BY DEF DescendantsDone
  <2>1. CASE t \in Id
    <3>1. u \in Id
      BY <2>1, <1>7, <1>8
    <3> QED BY <3>1, <2>1, <1>1, <1>7 DEF DescendantsDone
  <2>2. CASE t = n
    <3>1. Top(s).task \in Id
      BY <1>2, <1>3
    <3>2. u \in Id /\ task[u].status = "done"
      BY <2>2, <3>1, <1>7, <1>8
    <3>3. task[Top(s).task].status = "done"
      BY <2>2, <3>1, <3>2, <1>1, <1>7 DEF DescendantsDone
    <3>4. PICK j \in 1..Len(stack[s]) : stack[s][j].kind = "task" /\ stack[s][j].task = stack[s][1].task
      BY <1>1, <1>2 DEF Nested
    <3>5. task[Top(s).task].status = "running"
      BY <3>4, <1>1, <1>2 DEF Nested
    <3> QED BY <3>3, <3>5
  <2> QED BY <2>1, <2>2, <1>7
<1> QED BY <1>15, <1>16, <1>17, JoinParts2
\* The tasks after a change of status, and the order of the tasks.
LEMMA StatusChange ==
  ASSUME DepthTypeOK, NEW t \in Id, NEW x \in {"created", "running", "done"},
         task' = [task EXCEPT ![t].status = x]
  PROVE  /\ Id' = Id /\ task'[t].status = x
         /\ \A u \in Id : task'[u].ancestors = task[u].ancestors
         /\ \A u \in Id : u # t => task'[u] = task[u]
<1>1. task \in Seq(TaskType) /\ task[t] \in TaskType
  BY TaskFields DEF DepthTypeOK, TaskType
<1>2. [task[t] EXCEPT !.status = x] \in TaskType /\ [task[t] EXCEPT !.status = x].status = x
      /\ [task[t] EXCEPT !.status = x].ancestors = task[t].ancestors
  BY <1>1 DEF TaskType
<1>3. task' = [task EXCEPT ![t] = [task[t] EXCEPT !.status = x]]
  OBVIOUS
<1>4. /\ task'[t] = [task[t] EXCEPT !.status = x] /\ Len(task') = Len(task)
      /\ \A u \in Id : u # t => task'[u] = task[u]
  BY <1>1, <1>2, <1>3 DEF Id
<1> QED BY <1>2, <1>4 DEF Id

LEMMA JoinStart ==
  ASSUME JoinInv, NEW s \in Thread, startTask(s), DepthInv'
  PROVE  JoinInv'
<1>1. /\ stack \in Stacks /\ DescendantsDone /\ Nested(stack, task) /\ DepthInv /\ DepthTypeOK
      /\ \A t \in Id : task[t].status # "done" /\ task[t].ancestors # {} => Awaited(stack, task, t)
      /\ \A r \in Thread : \A k \in 1..Len(stack[r]) : stack[r][k].task \in Id
      /\ \A u \in Id : task[u].ancestors \subseteq Id
  BY JoinParts DEF DepthInv, DepthTypeOK, Stacks, FramesDeepEnough, FrameDeepEnough, TasksDeepEnough
<1>2. PICK t \in Id :
        /\ task[t].status = "created"
        /\ task' = [task EXCEPT ![t].status = "running"]
        /\ stack' = [stack EXCEPT ![s] = <<Frame("task", t, task[t].calls, 0)>> \o @]
  BY DEF startTask
<1>3. /\ Id' = Id /\ task'[t].status = "running"
      /\ \A u \in Id : task'[u].ancestors = task[u].ancestors
      /\ \A u \in Id : u # t => task'[u] = task[u]
  BY <1>1, <1>2, StatusChange
<1>4. \A r \in Thread : \A k \in 1..Len(stack[r]) : stack[r][k].kind = "task" => stack[r][k].task # t
  BY <1>1, <1>2 DEF Nested
<1>5. /\ Nested(stack, task')
      /\ \A u : task'[u].ancestors = task[u].ancestors =>
                  (Awaited(stack, task', u) <=> Awaited(stack, task, u))
  <2>1. \A r \in Thread : \A k \in 1..Len(stack[r]) :
          /\ stack[r][k].kind = "task" => task'[stack[r][k].task].status = task[stack[r][k].task].status
          /\ task'[stack[r][k].task].ancestors = task[stack[r][k].task].ancestors
    BY <1>1, <1>3, <1>4
  <2> QED BY <2>1, <1>1, NestedTasks
<1>6. PICK f : f = Frame("task", t, task[t].calls, 0)
  OBVIOUS
<1>7. f \in FrameType /\ f.kind = "task" /\ f.task = t
  BY <1>1, <1>6, TaskFields DEF Frame, FrameType, Id
<1>8. stack' = [stack EXCEPT ![s] = <<f>> \o stack[s]]
  BY <1>2, <1>6
<1>9. /\ Nested(stack', task')
      /\ \A u : Awaited(stack, task', u) => Awaited(stack', task', u)
  BY <1>1, <1>3, <1>4, <1>5, <1>7, <1>8, NestedPushed
<1>10. \A u \in Id' : task'[u].status # "done" /\ task'[u].ancestors # {} =>
         Awaited(stack', task', u)
  BY <1>1, <1>2, <1>3, <1>5, <1>9
<1>11. DescendantsDone'
  <2> SUFFICES ASSUME NEW v \in Id, NEW u \in task[v].ancestors, task'[u].status = "done"
               PROVE  task'[v].status = "done"
    BY <1>3 DEF DescendantsDone
  <2>1. u \in Id /\ u # t
    BY <1>1, <1>3
  <2>2. task[u].status = "done"
    BY <2>1, <1>3
  <2>3. task[v].status = "done"
    BY <2>2, <1>1 DEF DescendantsDone
  <2> QED BY <2>3, <1>2, <1>3
<1> QED BY <1>9, <1>10, <1>11, JoinParts2

\* Of a set of numbers one is the least.
LEMMA LeastNumber ==
  ASSUME NEW S \in SUBSET Nat, NEW x \in S
  PROVE  \E n \in S : \A m \in S : n <= m
<1>1. PICK n \in S : \A m \in S : ~(<<m, n>> \in OpToRel(<, Nat))
  BY NatLessThanWellFounded, WFMin
<1>2. \A m \in S : ~(m < n)
  BY <1>1 DEF OpToRel
<1> QED BY <1>2

\* When a task ends nothing created inside it is left: the least nested task
\* that were left would have been created by a function of the ending task,
\* which has none on its stack, or of a task that is left too.
LEMMA JoinEnd ==
  ASSUME JoinInv, NEW s \in Thread, endTask(s), DepthInv'
  PROVE  JoinInv'
<1>1. /\ stack \in Stacks /\ DescendantsDone /\ Nested(stack, task) /\ DepthInv /\ DepthTypeOK
      /\ \A t \in Id : task[t].status # "done" /\ task[t].ancestors # {} => Awaited(stack, task, t)
      /\ \A r \in Thread : \A k \in 1..Len(stack[r]) : stack[r][k].task \in Id
      /\ \A u \in Id : \A v \in task[u].ancestors : v \in Id /\ task[v].nest < task[u].nest
      /\ \A u \in Id : task[u].nest \in Nat
      /\ stack[s] # <<>> /\ Top(s).kind = "task"
  BY JoinParts, TaskFields DEF DepthInv, DepthTypeOK, Stacks, FramesDeepEnough, FrameDeepEnough,
     TasksDeepEnough, endTask, Busy
<1>2. Top(s) = stack[s][1] /\ 1 \in 1..Len(stack[s]) /\ Len(stack[s]) \in Nat
  BY <1>1, TopFrame DEF Top, Stacks
<1>3. PICK t \in Id : t = Top(s).task
  BY <1>1, <1>2
<1>4. task' = [task EXCEPT ![t].status = "done"] /\ stack' = [stack EXCEPT ![s] = Tail(stack[s])]
  BY <1>3 DEF endTask
<1>5. /\ Id' = Id /\ task'[t].status = "done"
      /\ \A u \in Id : task'[u].ancestors = task[u].ancestors
      /\ \A u \in Id : u # t => task'[u] = task[u]
  BY <1>1, <1>4, StatusChange
<1>6. ASSUME NEW r \in Thread, NEW k \in 1..Len(stack[r]),
             stack[r][k].kind = "function", stack[r][k].task = t
      PROVE  FALSE
  <2>1. PICK j \in 1..Len(stack[r]) :
          k < j /\ stack[r][j].kind = "task" /\ stack[r][j].task = stack[r][k].task
    BY <1>1, <1>6 DEF Nested
  <2>2. r = s /\ j = 1
    BY <2>1, <1>1, <1>2, <1>3, <1>6, OneFrame
  <2> QED BY <2>1, <2>2
<1>7. /\ stack' \in Stacks /\ Nested(stack', task)
      /\ \A u : Awaited(stack, task, u) => Awaited(stack', task, u)
  <2>1. stack[s][1].kind # "function"
    BY <1>1, <1>2
  <2> QED BY <2>1, <1>1, <1>4, NestedPopped
<1>8. ASSUME NEW r \in Thread, NEW k \in 1..Len(stack'[r])
      PROVE  /\ stack'[r][k].task \in Id
             /\ stack'[r][k].kind = "task" => stack'[r][k].task # t
  <2>1. PICK j \in 1..Len(stack[r]) : stack'[r][k] = stack[r][j] /\ (r = s => j # 1)
    <3>1. CASE r = s
      <4>1. /\ stack'[s] = Tail(stack[s]) /\ stack[s] \in Seq(FrameType)
        BY <1>1, <1>4 DEF Stacks
      <4>2. Tail(stack[s]) \in Seq(FrameType) /\ Len(Tail(stack[s])) \in Nat
        BY <4>1, <1>1, Popped
      <4>3. k \in 1..Len(Tail(stack[s]))
        BY <4>1, <3>1
      <4>4. k \in Nat /\ k >= 1
        BY <4>2, <4>3
      <4>5. k + 1 \in 1..Len(stack[s]) /\ Tail(stack[s])[k] = stack[s][k + 1]
        BY <4>1, <4>3, <1>1, Popped
      <4>6. k + 1 # 1
        BY <4>4
      <4>7. stack'[r][k] = stack[r][k + 1] /\ k + 1 \in 1..Len(stack[r])
        BY <4>1, <4>5, <3>1
      <4> QED BY <4>6, <4>7
    <3>2. CASE r # s
      BY <3>2, <1>1, <1>4 DEF Stacks
    <3> QED BY <3>1, <3>2
  <2>2. ASSUME stack[r][j].kind = "task", stack[r][j].task = t PROVE FALSE
    BY <2>1, <2>2, <1>1, <1>2, <1>3, OneFrame
  <2> QED BY <2>1, <2>2, <1>1
<1>9. /\ Nested(stack', task')
      /\ \A u : task'[u].ancestors = task[u].ancestors =>
                  (Awaited(stack', task', u) <=> Awaited(stack', task, u))
  <2>1. \A r \in Thread : \A k \in 1..Len(stack'[r]) :
          /\ stack'[r][k].kind = "task" => task'[stack'[r][k].task].status = task[stack'[r][k].task].status
          /\ task'[stack'[r][k].task].ancestors = task[stack'[r][k].task].ancestors
    BY <1>5, <1>8
  <2> QED BY <2>1, <1>7, NestedTasks
<1>10. \A u \in Id' : task'[u].status # "done" /\ task'[u].ancestors # {} =>
         Awaited(stack', task', u)
  BY <1>1, <1>5, <1>7, <1>9
<1>11. ASSUME NEW v \in Id, t \in task[v].ancestors, task[v].status # "done" PROVE FALSE
  <2> DEFINE left == {u \in Id : t \in task[u].ancestors /\ task[u].status # "done"}
             nests == {task[u].nest : u \in left}
  <2>1. nests \in SUBSET Nat /\ task[v].nest \in nests
    BY <1>1, <1>11
  <2>2. PICK n \in nests : \A m \in nests : n <= m
    BY <2>1, LeastNumber
  <2>3. PICK u \in left : task[u].nest = n
    BY <2>2
  <2>4. Awaited(stack, task, u)
    BY <2>3, <1>1
  <2>5. PICK p \in Id : /\ task[u].ancestors = task[p].ancestors \cup {p}
                        /\ \E r \in Thread : \E k \in 1..Len(stack[r]) :
                             stack[r][k].kind = "function" /\ stack[r][k].task = p
    BY <2>4, <1>1 DEF Awaited
  <2>6. p # t
    BY <2>5, <1>6
  <2>7. t \in task[p].ancestors
    BY <2>3, <2>5, <2>6
  <2>8. task[p].status = "running"
    BY <2>5, <1>1 DEF Nested
  <2>9. p \in left /\ task[p].nest < task[u].nest /\ task[p].nest \in Nat /\ task[u].nest \in Nat
    BY <2>5, <2>7, <2>8, <1>1
  <2>10. task[u].nest <= task[p].nest
    BY <2>2, <2>3, <2>9
  <2> QED BY <2>9, <2>10
<1>12. DescendantsDone'
  <2> SUFFICES ASSUME NEW v \in Id, NEW u \in task[v].ancestors, task'[u].status = "done"
               PROVE  task'[v].status = "done"
    BY <1>5 DEF DescendantsDone
  <2>1. CASE u = t
    BY <2>1, <1>5, <1>11
  <2>2. CASE u # t
    <3>1. task[u].status = "done"
      BY <2>2, <1>1, <1>5
    <3>2. task[v].status = "done"
      BY <3>1, <1>1 DEF DescendantsDone
    <3> QED BY <3>2, <1>5
  <2> QED BY <2>1, <2>2
<1> QED BY <1>9, <1>10, <1>12, JoinParts2

\* A function returns when the tasks of its taskgroup are over, so none loses
\* the function that waits for it.
LEMMA JoinReturn ==
  ASSUME JoinInv, NEW s \in Thread, taskgroupEnd(s), DepthInv'
  PROVE  JoinInv'
<1>1. /\ stack \in Stacks /\ DescendantsDone /\ Nested(stack, task)
      /\ \A t \in Id : task[t].status # "done" /\ task[t].ancestors # {} => Awaited(stack, task, t)
      /\ stack[s] # <<>> /\ task' = task /\ stack' = [stack EXCEPT ![s] = Tail(stack[s])]
      /\ \A t \in Top(s).group : task[t].status = "done"
  BY JoinParts DEF DepthInv, DepthTypeOK, Stacks, taskgroupEnd, Busy
<1>2. Top(s) = stack[s][1]
  BY <1>1, TopFrame DEF Top, Stacks
<1>3. /\ Nested(stack', task)
      /\ \A t : Awaited(stack, task, t) =>
           Awaited(stack', task, t) \/ (stack[s][1].kind = "function" /\ t \in stack[s][1].group)
  BY <1>1, NestedPopped
<1>4. DescendantsDone' /\ Id' = Id
  BY <1>1 DEF DescendantsDone, Id
<1> QED BY <1>1, <1>2, <1>3, <1>4, JoinParts2

\* The tasks and the stacks stay as the taskgroups need them: a task is on one
\* stack, and one that is not over is waited for by the function that made it.
THEOREM DepthJoins == Spec => []JoinInv
<1>1. Init /\ DepthInv => JoinInv
  <2> SUFFICES ASSUME Init, DepthInv PROVE JoinInv
    OBVIOUS
  <2>1. Id = {1} /\ task[1] = Main
    BY DEF Init, Id
  <2>2. \A r \in Thread : r # Master => Len(stack[r]) = 0
    BY DEF Init
  <2>3. Len(stack[Master]) = 1 /\ stack[Master][1] = Frame("task", 1, 1, 0) /\ Master \in Thread
    BY DepthAssumption DEF Init
  <2>4. \A r \in Thread : \A k \in 1..Len(stack[r]) :
          r = Master /\ k = 1 /\ stack[r][k].kind = "task" /\ stack[r][k].task = 1
    <3> SUFFICES ASSUME NEW r \in Thread, NEW k \in 1..Len(stack[r])
                 PROVE  r = Master /\ k = 1 /\ stack[r][k].kind = "task" /\ stack[r][k].task = 1
      OBVIOUS
    <3>1. r = Master
      <4>1. CASE r # Master
        BY <4>1, <2>2
      <4> QED BY <4>1
    <3>2. k = 1
      BY <3>1, <2>3
    <3> QED BY <3>1, <3>2, <2>3 DEF Frame
  <2>5. Nested(stack, task)
    BY <2>1, <2>4 DEF Nested, Main
  <2>6. DescendantsDone /\ \A t \in Id : task[t].ancestors = {}
    BY <2>1 DEF DescendantsDone, Main
  <2> QED BY <2>5, <2>6, JoinParts
<1>2. JoinInv /\ DepthInv' /\ [Next]_vars => JoinInv'
  <2>1. ASSUME JoinInv, DepthInv', NEW s \in Thread, Step(s) PROVE JoinInv'
    <3>1. CASE callInTask(s)
      BY <2>1, <3>1, JoinCall DEF callInTask, Busy
    <3>2. CASE callInline(s)
      BY <2>1, <3>2, JoinCall DEF callInline, Busy
    <3> QED BY <2>1, <3>1, <3>2, JoinCreate, JoinStart, JoinEnd, JoinReturn DEF Step
  <2>2. ASSUME JoinInv, DepthInv', UNCHANGED vars PROVE JoinInv'
    BY <2>2 DEF vars, JoinInv, FramesNested, TasksAwaited, DescendantsDone, Id
  <2> QED BY <2>1, <2>2 DEF Next
<1> QED BY <1>1, <1>2, DepthCovers, PTL DEF Spec

\* When a task is over so is everything that was created inside it, on whatever
\* threads and in whatever order they ran.
THEOREM DepthDescendantsDone == Spec => []DescendantsDone
<1>1. JoinInv => DescendantsDone
  BY DEF JoinInv
<1> QED BY <1>1, DepthJoins, PTL
=============================================================================
