---------------------- MODULE SchedulerRefinementProofs ----------------------
(***************************************************************************)
(* The scheduler implements TaskPool: each action of Scheduler is one step *)
(* of the abstract pool or invisible there, for every set of threads,      *)
(* producers and tasks.                                                    *)
(***************************************************************************)
EXTENDS SchedulerRefinement, SchedulerProofs

\* A task's abstract status depends on the list, run()'s locals, the stacks
\* and its saved context (schedule and run of scheduler.cpp, swapIn and
\* swapOut of fiber.cpp) and on nothing else.
LEMMA StatusKept ==
    ASSUME NEW f \in Tasks,
           f \in Queued' <=> f \in Queued,
           Held(f)' \/ Executing(f)' <=> Held(f) \/ Executing(f),
           m_ctx'[f].at = m_ctx[f].at
    PROVE  Status(f)' = Status(f)
  BY Zenon DEF Status

\* The owner has no worker left when the abstract pool is stopped: start()'s
\* threads are all joined before stop() returns.
LEMMA StoppedHasNoWorkers ==
    ASSUME IInv, Phase = "stopped"
    PROVE  \A w \in Workers : pc[w] = "none"
  BY DEF IInv, Phases, Recorded, Phase

\* A step that leaves the list, the locals, the stacks and the contexts alone
\* moves no task.
LEMMA NoTaskMoves ==
    ASSUME UNCHANGED <<m_fibers, fiber, stack, m_ctx>>
    PROVE  [f \in Tasks |-> Status(f)]' = [f \in Tasks |-> Status(f)]
<1>1. \A f \in Tasks : Status(f)' = Status(f)
  <2> TAKE f \in Tasks
  <2>1. Queued' = Queued /\ (Held(f)' <=> Held(f)) /\ (Executing(f)' <=> Executing(f))
    BY DEF Queued, Held, Executing
  <2> QED  BY <2>1, StatusKept
<1> QED  BY <1>1

\* A step that leaves the list, the locals, the stacks, the contexts and due
\* alone, and the owner in its phase, is invisible in the abstract pool.
LEMMA Invisible ==
    ASSUME UNCHANGED <<m_fibers, fiber, stack, m_ctx, due>>, Phase' = Phase
    PROVE  UNCHANGED Pool!poolVars
<1>1. [f \in Tasks |-> Status(f)]' = [f \in Tasks |-> Status(f)]
  BY NoTaskMoves
<1> QED  BY <1>1 DEF Pool!poolVars

\* A step that changes one task's status is a step of the abstract pool that
\* moves that task.
LEMMA OneTaskMoves ==
    ASSUME NEW f \in Tasks, NEW s,
           Status(f)' = s,
           \A g \in Tasks \ {f} : Status(g)' = Status(g)
    PROVE  [g \in Tasks |-> Status(g)]' = [[g \in Tasks |-> Status(g)] EXCEPT ![f] = s]
  OBVIOUS

----------------------------------------------------------------------------
(* The initial state, and one lemma per kind of step.                      *)

\* Before the constructor has run every task is new and the pool is stopped.
LEMMA InitRefines ==
    ASSUME Init
    PROVE  Pool!PoolInit
<1> USE FiberAssumption, SchedulerAssumption
    DEF Init, FiberInit, Objects, Workers, Tasks
<1>1. Queued = {}
  BY EmptyList DEF Queued
<1>2. \A f \in Tasks : Status(f) = "new"
  BY <1>1 DEF Status, Held, Executing
<1>3. Phase = "stopped"
  BY DEF Phase
<1> QED  BY <1>2, <1>3 DEF Pool!PoolInit

\* The steps of the owner that move nothing but itself, its threads' slots and
\* their semaphores: the constructor, start()'s loop, stop() up to its joins.
LEMMA OwnerInvisible ==
    ASSUME IInv,
           \/ Construct \/ SpawnFails \/ StartReturns \/ StopNotify \/ StopSwap
           \/ JoinNull \/ \E w \in Workers : Spawn(w) \/ Handshake(w) \/ Join(w)
    PROVE  UNCHANGED Pool!poolVars
<1> USE FiberAssumption, SchedulerAssumption
    DEF IInv, TypeOK, FiberTypeOK, Workers, Goto, fiberState, schedState, tls
<1>1. CASE Construct \/ StopNotify \/ StopSwap \/ JoinNull
  <2>1. UNCHANGED <<m_fibers, fiber, stack, m_ctx, due, m_stopping>>
    BY <1>1 DEF Construct, GetThis, StopNotify, StopSwap, JoinNull, NullDereference
  <2>2. Phase' = Phase
    BY <1>1, <2>1 DEF Construct, GetThis, StopNotify, StopSwap, JoinNull,
       NullDereference, Phase
  <2> QED  BY <2>1, <2>2, Invisible
<1>2. CASE SpawnFails \/ StartReturns \/ \E w \in Workers : Spawn(w) \/ Handshake(w)
  <2>1. UNCHANGED <<m_fibers, fiber, stack, m_ctx, due, m_stopping>>
    BY <1>2 DEF SpawnFails, StartReturns, Spawn, Handshake
  <2>2. ~m_stopping
    BY <1>2 DEF Phases, SpawnFails, StartReturns, Spawn, Handshake
  <2>3. Phase' = Phase
    BY <2>1, <2>2 DEF Phase
  <2> QED  BY <2>1, <2>3, Invisible
<1>3. ASSUME NEW w \in Workers, Join(w)
      PROVE  UNCHANGED Pool!poolVars
  <2>1. UNCHANGED <<m_fibers, fiber, stack, m_ctx, due, m_stopping>>
    BY <1>3 DEF Join
  <2>2. pc'[Main] = pc[Main]
    BY <1>3 DEF Join
  <2>3. Phase' = Phase
    BY <2>1, <2>2 DEF Phase
  <2> QED  BY <2>1, <2>3, Invisible
<1> QED  BY <1>1, <1>2, <1>3

\* A step of a thread that neither takes a fiber nor switches stacks is
\* invisible: waiting, waking up, leaving run(), notify_one, MainFunc's first
\* statement, the end of a callback, and the start of a worker.
LEMMA ThreadInvisible ==
    ASSUME NEW t \in Threads, IInv,
           \/ RunWaits(t) \/ RunFindsNothing(t) \/ RunBreaks(t) \/ FiberStarts(t)
           \/ TaskEnds(t, "TERM") \/ TaskEnds(t, "EXCEPT")
           \/ Notify(t) \/ SpuriousWakeup(t)
           \/ t \in Workers /\ (ThreadRun(t) \/ RunEnter(t))
    PROVE  UNCHANGED Pool!poolVars
<1> USE FiberAssumption, SchedulerAssumption
    DEF IInv, TypeOK, FiberTypeOK, Workers, Tasks, Goto, fiberState, schedState, tls
<1>1. CASE Notify(t)
  <2>1. UNCHANGED <<m_fibers, fiber, stack, m_ctx, due, m_stopping>>
    BY <1>1 DEF Notify
  <2>2. pc[Main] # "waiting" /\ pc[t] = "notify"
    BY <1>1 DEF Notify, Places, OwnerLabels, RunLabels, TaskLabels
  <2>3. t = Main => pc'[Main] = "user"
    BY <1>1, <2>2 DEF Notify, AfterNotify, Places
  <2>4. t # Main => pc'[Main] = pc[Main]
    BY <1>1, <2>2 DEF Notify
  <2>5. Phase' = Phase
    BY <2>1, <2>2, <2>3, <2>4 DEF Phase
  <2> QED  BY <2>1, <2>5, Invisible
<1>2. CASE ~Notify(t)
  <2>1. UNCHANGED <<m_fibers, fiber, stack, m_ctx, due, m_stopping>>
    BY <1>2 DEF RunWaits, RunFindsNothing, RunBreaks, FiberStarts, MainFunc, TaskEnds,
       CallbackEnds, SpuriousWakeup, ThreadRun, RunEnter, GetThis
  <2>2. t # Main
    BY <1>2 DEF RunWaits, RunFindsNothing, RunBreaks, FiberStarts, MainFunc, TaskEnds,
       SpuriousWakeup, Places, OwnerLabels
  <2>3. pc'[Main] = pc[Main]
    BY <1>2, <2>2 DEF RunWaits, RunFindsNothing, RunBreaks, FiberStarts, MainFunc,
       TaskEnds, CallbackEnds, SpuriousWakeup, ThreadRun, RunEnter, GetThis
  <2>4. Phase' = Phase
    BY <2>1, <2>3 DEF Phase
  <2> QED  BY <2>1, <2>4, Invisible
<1> QED  BY <1>1, <1>2

\* run()'s swapIn takes the fiber from the local to the thread's stack: it
\* counted as running before.
LEMMA SwapInInvisible ==
    ASSUME NEW t \in Threads, IInv, RunSwapsIn(t)
    PROVE  UNCHANGED Pool!poolVars
<1> USE FiberAssumption, SchedulerAssumption
    DEF IInv, Objects, TypeOK, FiberTypeOK, Workers, Tasks, schedState
<1>1. /\ t \in Workers /\ stack[t] = t
      /\ fiber[t] \in Tasks /\ Held(fiber[t])
      /\ m_ctx' = [m_ctx EXCEPT ![t] = [stack |-> t, at |-> "lock"]]
      /\ stack' = [stack EXCEPT ![t] = fiber[t]]
      /\ pc' = [pc EXCEPT ![t] = m_ctx[fiber[t]].at]
      /\ fiber' = [fiber EXCEPT ![t] = NULL]
      /\ UNCHANGED <<m_stopping, m_fibers, due>>
  BY RunSwapsInEffect
<1>2. \A f \in Tasks : Status(f)' = Status(f)
  <2> TAKE f \in Tasks
  <2>1. Queued' = Queued /\ m_ctx'[f].at = m_ctx[f].at
    BY <1>1 DEF Queued
  <2>2. Held(f)' \/ Executing(f)' <=> Held(f) \/ Executing(f)
    BY <1>1 DEF Held, Executing
  <2> QED  BY <2>1, <2>2, StatusKept
<1>3. Phase' = Phase
  BY <1>1 DEF Phase
<1>4. [f \in Tasks |-> Status(f)]' = [f \in Tasks |-> Status(f)]
  BY <1>2
<1> QED  BY <1>1, <1>3, <1>4 DEF Pool!poolVars

\* back() and pop_back() in run() begin the task at the end of the list; no
\* worker does so once stop() has returned.
LEMMA TakeBegins ==
    ASSUME NEW t \in Threads, IInv, RunTakes(t)
    PROVE  Last(m_fibers) \in Tasks /\ Pool!Begin(Last(m_fibers))
<1> USE FiberAssumption, SchedulerAssumption
    DEF IInv, TypeOK, FiberTypeOK, Workers, Tasks, RunTakes, Goto, fiberState, tls
<1>1. PICK x \in Tasks : x = Last(m_fibers) /\ x \in Queued /\ Queued' = Queued \ {x}
  BY PopBack DEF Queued, Ownership
<1>2. t \in Workers /\ pc[t] = "lock"
  BY DEF Places, OwnerLabels
<1>3. ~Held(x) /\ ~Executing(x) /\ fiber[t] = NULL
  BY <1>1, <1>2 DEF Ownership, Pointers
<1>4. Status(x) = "ready" /\ Status(x)' = "running"
  <2>1. x \notin Queued' /\ Held(x)'
    BY <1>1 DEF Held
  <2> QED  BY <1>1, <2>1 DEF Status
<1>5. \A f \in Tasks \ {x} : Status(f)' = Status(f)
  <2> TAKE f \in Tasks \ {x}
  <2>1. f \in Queued' <=> f \in Queued
    BY <1>1
  <2>2. Held(f)' \/ Executing(f)' <=> Held(f) \/ Executing(f)
    BY <1>1, <1>3 DEF Held, Executing
  <2>3. m_ctx'[f].at = m_ctx[f].at
    OBVIOUS
  <2> QED  BY <2>1, <2>2, <2>3, StatusKept
<1>6. Phase # "stopped"
  BY <1>2, StoppedHasNoWorkers
<1>7. Phase' = Phase
  BY <1>2 DEF Phase
<1>8. [f \in Tasks |-> Status(f)]' = [[f \in Tasks |-> Status(f)] EXCEPT ![x] = "running"]
  BY <1>1, <1>4, <1>5, OneTaskMoves
<1> QED  BY <1>1, <1>4, <1>6, <1>7, <1>8 DEF Pool!Begin, Pool!Move

\* What both ways of swapping a task out have in common: the task leaves the
\* worker's stack, its place saved in its own context.
LEMMA SwapOutMoves ==
    ASSUME NEW t \in Workers, NEW at, NEW s, IInv,
           pc[t] \in TaskLabels, stack[t] \in Tasks,
           m_ctx' = [m_ctx EXCEPT ![stack[t]] = [stack |-> stack[t], at |-> at]],
           stack' = [stack EXCEPT ![t] = t],
           pc' = [pc EXCEPT ![t] = "lock"],
           UNCHANGED schedState,
           <<at, s>> \in {<<"body", "suspended">>, <<"MainFuncEnd", "finished">>}
    PROVE  /\ Status(stack[t]) = "running"
           /\ [f \in Tasks |-> Status(f)]' =
                 [[f \in Tasks |-> Status(f)] EXCEPT ![stack[t]] = s]
           /\ UNCHANGED <<Phase, due>>
<1>0. PICK x \in Tasks : x = stack[t]
  OBVIOUS
<1> USE FiberAssumption, SchedulerAssumption
    DEF IInv, Objects, TypeOK, FiberTypeOK, Workers, Tasks, schedState
<1>1. x \notin Queued /\ ~Held(x) /\ Executing(x)
  BY <1>0, SMTT(30) DEF Ownership, Held, Executing
<1>2. \A u \in Threads : stack[u] = x => u = t
  BY <1>0 DEF OneThreadPerFiber
<1>3. Queued' = Queued /\ (\A f \in Tasks : Held(f)' <=> Held(f))
  BY DEF Queued, Held
<1>4. ~Executing(x)'
  BY <1>2 DEF Executing
<1>5. m_ctx'[x].at = at
  BY <1>0
<1>6. Status(x) = "running" /\ Status(x)' = s
  <2>1. Status(x) = "running"
    BY <1>1 DEF Status
  <2>2. Status(x)' = CASE at = "body" -> "suspended"
                       [] at = "MainFuncEnd" -> "finished"
                       [] OTHER -> "new"
    BY <1>1, <1>3, <1>4, <1>5 DEF Status
  <2> QED  BY <2>1, <2>2
<1>7. \A f \in Tasks \ {x} : Status(f)' = Status(f)
  <2> TAKE f \in Tasks \ {x}
  <2>1. f \in Queued' <=> f \in Queued
    BY <1>3
  <2>2. Held(f)' \/ Executing(f)' <=> Held(f) \/ Executing(f)
    BY <1>0, <1>3 DEF Executing
  <2>3. m_ctx'[f].at = m_ctx[f].at
    BY <1>0
  <2> QED  BY <2>1, <2>2, <2>3, StatusKept
<1>8. UNCHANGED <<Phase, due>>
  BY DEF Phase
<1>9. [f \in Tasks |-> Status(f)]' = [[f \in Tasks |-> Status(f)] EXCEPT ![x] = s]
  BY <1>6, <1>7, OneTaskMoves
<1> QED  BY <1>0, <1>6, <1>8, <1>9

\* Fiber::Yield suspends the task.
LEMMA YieldSuspends ==
    ASSUME NEW t \in Threads, IInv, TaskYields(t)
    PROVE  stack[t] \in Tasks /\ Pool!Suspend(stack[t])
<1>1. /\ t \in Workers /\ pc[t] = "body" /\ stack[t] \in Tasks
      /\ m_ctx' = [m_ctx EXCEPT ![stack[t]] = [stack |-> stack[t], at |-> "body"]]
      /\ stack' = [stack EXCEPT ![t] = t]
      /\ pc' = [pc EXCEPT ![t] = "lock"]
      /\ UNCHANGED schedState
  BY TaskYieldsEffect
<1>2. /\ Status(stack[t]) = "running"
      /\ [f \in Tasks |-> Status(f)]' =
            [[f \in Tasks |-> Status(f)] EXCEPT ![stack[t]] = "suspended"]
      /\ UNCHANGED <<Phase, due>>
  BY <1>1, SwapOutMoves DEF TaskLabels
<1> QED  BY <1>1, <1>2 DEF Pool!Suspend, Pool!Move

\* The swapOut at the end of Fiber::MainFunc finishes the task.
LEMMA SwapOutFinishes ==
    ASSUME NEW t \in Threads, IInv, FiberSwapsOut(t)
    PROVE  stack[t] \in Tasks /\ Pool!Finish(stack[t])
<1>1. /\ t \in Workers /\ pc[t] = "swapOut" /\ stack[t] \in Tasks
      /\ m_ctx' = [m_ctx EXCEPT ![stack[t]] = [stack |-> stack[t], at |-> "MainFuncEnd"]]
      /\ stack' = [stack EXCEPT ![t] = t]
      /\ pc' = [pc EXCEPT ![t] = "lock"]
      /\ UNCHANGED schedState
  BY FiberSwapsOutEffect
<1>2. /\ Status(stack[t]) = "running"
      /\ [f \in Tasks |-> Status(f)]' =
            [[f \in Tasks |-> Status(f)] EXCEPT ![stack[t]] = "finished"]
      /\ UNCHANGED <<Phase, due>>
  BY <1>1, SwapOutMoves DEF TaskLabels
<1> QED  BY <1>1, <1>2 DEF Pool!Finish, Pool!Move

\* schedule()'s push_back submits a new or suspended task.
LEMMA PushSubmits ==
    ASSUME NEW t \in Threads, NEW f \in Tasks, IInv, Schedule(t, f)
    PROVE  Pool!Submit(f)
<1> USE FiberAssumption, SchedulerAssumption
    DEF IInv, TypeOK, FiberTypeOK, Workers, Tasks, Schedule, Schedulable, Idle, Push,
        Goto, fiberState, tls
<1>1. Queued' = Queued \cup {f}
  BY PushBack DEF Queued, Ownership
<1>2. Status(f) \in {"new", "suspended"} /\ Status(f)' = "ready"
  BY <1>1 DEF Status
<1>3. \A g \in Tasks \ {f} : Status(g)' = Status(g)
  <2> TAKE g \in Tasks \ {f}
  <2>1. (g \in Queued' <=> g \in Queued) /\ m_ctx'[g].at = m_ctx[g].at
    BY <1>1
  <2>2. Held(g)' \/ Executing(g)' <=> Held(g) \/ Executing(g)
    BY DEF Held, Executing
  <2> QED  BY <2>1, <2>2, StatusKept
<1>4. Phase' = Phase /\ due' = due
  BY DEF Phase, Places, OwnerLabels
<1>5. [g \in Tasks |-> Status(g)]' = [[g \in Tasks |-> Status(g)] EXCEPT ![f] = "ready"]
  BY <1>2, <1>3, OneTaskMoves
<1> QED  BY <1>2, <1>4, <1>5 DEF Pool!Submit, Pool!Move

\* Fiber::reset recycles a finished task.
LEMMA ResetRecycles ==
    ASSUME NEW t \in Threads, NEW f \in Tasks, IInv, ResetTask(t, f)
    PROVE  Pool!Recycle(f)
<1> USE FiberAssumption, SchedulerAssumption
    DEF IInv, Objects, TypeOK, FiberTypeOK, Tasks, ResetTask, Reset, Idle, schedState, tls
<1>1. Queued' = Queued /\ \A g \in Tasks : (Held(g)' <=> Held(g)) /\ (Executing(g)' <=> Executing(g))
  BY DEF Queued, Held, Executing
<1>2. m_ctx'[f].at = "MainFunc"
  OBVIOUS
<1>3. Status(f) = "finished" /\ Status(f)' = "new"
  BY <1>1, <1>2 DEF Status
<1>4. \A g \in Tasks \ {f} : Status(g)' = Status(g)
  <2> TAKE g \in Tasks \ {f}
  <2>1. m_ctx'[g].at = m_ctx[g].at
    OBVIOUS
  <2> QED  BY <1>1, <2>1, StatusKept
<1>5. Phase' = Phase /\ due' = due
  BY DEF Phase
<1>6. [g \in Tasks |-> Status(g)]' = [[g \in Tasks |-> Status(g)] EXCEPT ![f] = "new"]
  BY <1>3, <1>4, OneTaskMoves
<1> QED  BY <1>3, <1>5, <1>6 DEF Pool!Recycle, Pool!Move

\* start() opens a stopped pool.
LEMMA StartOpens ==
    ASSUME IInv, Start
    PROVE  Pool!Open
<1> USE DEF Start, fiberState
<1>1. Phase = "stopped" /\ Phase' = "open"
  BY DEF Phase
<1>2. [f \in Tasks |-> Status(f)]' = [f \in Tasks |-> Status(f)]
  BY NoTaskMoves
<1> QED  BY <1>1, <1>2 DEF Pool!Open

\* stop() sets m_stopping; what is then due is what is listed, and a task is
\* listed exactly when it is ready.
LEMMA StopRequests ==
    ASSUME IInv, Stop
    PROVE  Pool!RequestStop
<1> USE SchedulerAssumption DEF IInv, TypeOK, FiberTypeOK, Stop, Goto, fiberState
<1>1. Phase = "open" /\ Phase' = "stopping"
  BY DEF Phase
<1>2. [f \in Tasks |-> Status(f)]' = [f \in Tasks |-> Status(f)]
  BY NoTaskMoves
<1>3. Queued = {f \in Tasks : [g \in Tasks |-> Status(g)][f] = "ready"}
  BY DEF Ownership, Status
<1> QED  BY <1>1, <1>2, <1>3 DEF Pool!RequestStop

\* stop() returns when every thread is joined: no task runs any more and all
\* that were due have had their turn.
LEMMA ReturnCloses ==
    ASSUME IInv, StopReturns
    PROVE  Pool!Close
<1> USE FiberAssumption, SchedulerAssumption
    DEF IInv, TypeOK, FiberTypeOK, StopReturns, Workers, Tasks, Goto, fiberState, schedState
<1>1. Phase = "stopping" /\ Phase' = "stopped"
  BY DEF Phase, Phases
<1>2. due = {} /\ \A w \in Workers : pc[w] = "none"
  BY DEF Phases, Recorded
<1>3. \A t \in Threads : stack[t] = t /\ fiber[t] = NULL
  BY <1>2 DEF Places, TaskLabels, Pointers
<1>4. \A f \in Tasks : Status(f) # "running"
  <2> TAKE f \in Tasks
  <2>1. ~Held(f) /\ ~Executing(f)
    BY <1>3 DEF Held, Executing
  <2> QED  BY <2>1 DEF Status
<1>5. [f \in Tasks |-> Status(f)]' = [f \in Tasks |-> Status(f)]
  BY NoTaskMoves
<1>6. \A f \in Tasks : [g \in Tasks |-> Status(g)][f] # "running"
  BY <1>4
<1> QED  BY <1>1, <1>2, <1>5, <1>6 DEF Pool!Close

----------------------------------------------------------------------------
(* Every step is one of the pool's or invisible to it.                     *)

\* Every step of Next: the four actions a plain pool never takes apart, each is
\* covered by one of the lemmas above.
LEMMA StepRefines ==
    ASSUME PlainPool, IInv, Next
    PROVE  Pool!PoolNext \/ UNCHANGED Pool!poolVars
<1>1. CASE OwnerStep
  <2>1. ~StopCallsRoot
    BY SchedulerAssumption, Impossible
  <2>2. CASE StopReturns
    BY <2>2, ReturnCloses DEF Pool!PoolNext
  <2>3. CASE ~StopReturns
    BY <1>1, <2>1, <2>3, OwnerInvisible DEF OwnerStep
  <2> QED  BY <2>2, <2>3
<1>2. ASSUME NEW t \in Threads, PoolStep(t)
      PROVE  Pool!PoolNext \/ UNCHANGED Pool!poolVars
  <2>1. ~RootBreaks(t) /\ ~FiberRunsOff(t)
    BY Impossible
  <2>2. CASE RunTakes(t)
    BY <2>2, TakeBegins DEF Pool!PoolNext
  <2>3. CASE TaskYields(t)
    BY <2>3, YieldSuspends DEF Pool!PoolNext
  <2>4. CASE FiberSwapsOut(t)
    BY <2>4, SwapOutFinishes DEF Pool!PoolNext
  <2>5. CASE RunSwapsIn(t)
    BY <2>5, SwapInInvisible
  <2>6. CASE ~RunTakes(t) /\ ~TaskYields(t) /\ ~FiberSwapsOut(t) /\ ~RunSwapsIn(t)
    BY <1>2, <2>1, <2>6, ThreadInvisible DEF PoolStep
  <2> QED  BY <2>2, <2>3, <2>4, <2>5, <2>6
<1>3. ASSUME NEW w \in Workers, WorkerStep(w)
      PROVE  UNCHANGED Pool!poolVars
  BY <1>3, ThreadInvisible DEF WorkerStep, Workers
<1>4. CASE ClientStep
  <2>1. CASE Start
    BY <2>1, StartOpens DEF Pool!PoolNext
  <2>2. CASE Stop
    BY <2>2, StopRequests DEF Pool!PoolNext
  <2>3. ASSUME NEW t \in Threads, SpuriousWakeup(t) \/ Reschedule(t)
        PROVE  UNCHANGED Pool!poolVars
    BY <2>3, Impossible, ThreadInvisible
  <2>4. ASSUME NEW t \in Threads, NEW f \in Tasks, Schedule(t, f) \/ ResetTask(t, f)
        PROVE  Pool!PoolNext
    BY <2>4, PushSubmits, ResetRecycles DEF Pool!PoolNext
  <2> QED  BY <1>4, <2>1, <2>2, <2>3, <2>4 DEF ClientStep
<1> QED  BY <1>1, <1>2, <1>3, <1>4 DEF Next

\* A step in which nothing happens is invisible too.
LEMMA StutterRefines ==
    ASSUME UNCHANGED vars
    PROVE  UNCHANGED Pool!poolVars
<1>1. UNCHANGED <<m_fibers, fiber, stack, m_ctx, due>> /\ Phase' = Phase
  BY DEF vars, fiberState, schedState, Phase
<1> QED  BY <1>1, Invisible

\* The scheduler implements the abstract pool: whatever the threads do, each
\* task is in one place at a time, tasks run only between start() and the
\* return of stop(), and stop() returns only when no task runs and all that
\* were listed when it was called have had their turn (schedule, run, start
\* and stop of scheduler.cpp, swapIn, swapOut and reset of fiber.cpp).
THEOREM SchedulerImplementsTaskPool ==
    ASSUME PlainPool
    PROVE  Spec => ImplementsTaskPool
<1>1. Init => Pool!PoolInit
  BY InitRefines
<1>2. IInv /\ [Next]_vars => [Pool!PoolNext]_(Pool!poolVars)
  BY StepRefines, StutterRefines
<1> QED  BY <1>1, <1>2, Invariance, PTL DEF Spec, ImplementsTaskPool, Pool!PoolSpec
=============================================================================
