----------------------------- MODULE Scheduler -----------------------------
(***************************************************************************)
(* The coroutine scheduler of server/scheduler.{h,cpp}: the thread that    *)
(* owns the Scheduler (Main) constructs, starts and stops it; its worker   *)
(* threads run Scheduler::run; tasks are scheduled by Main, by other       *)
(* threads (Producers) and by the tasks themselves.                        *)
(*                                                                         *)
(* A critical section of m_mutex is one step; what the code does after     *)
(* unlocking (notify_one, notify_all, swapIn, the second test of           *)
(* m_stopping) is a step of its own. A thread with pc "waiting" is blocked *)
(* in m_condition.wait and holds no lock.                                  *)
(***************************************************************************)
EXTENDS Fiber, Naturals, SequencesExt

CONSTANTS
    Main,         \* the thread that owns the Scheduler
    Producers,    \* other threads that call schedule()
    Root,         \* m_rootFiber
    UseCaller,    \* the constructor's user_caller
    CreateFails,  \* may pthread_create fail?
    ClientOps     \* what callers do besides scheduling new tasks:
                  \*   "resume"      schedule a fiber that has yielded
                  \*   "reset"       reset() and schedule a finished fiber
                  \*   "reschedule"  schedule(Fiber::GetThis()); Yield();

Workers == Threads \ ({Main} \cup Producers)
Tasks == Fibers \ {Root}

ASSUME SchedulerAssumption ==
    /\ Main \in Threads
    /\ Producers \subseteq Threads \ {Main}
    /\ Root \in Fibers
    /\ UseCaller \in BOOLEAN
    /\ CreateFails \in BOOLEAN
    /\ ClientOps \subseteq {"resume", "reset", "reschedule"}
    /\ UseCaller \/ Workers # {}

VARIABLES
    m_stopping,
    m_fibers,    \* the list of scheduled fibers
    fiber,       \* run()'s local in each thread
    m_threads,   \* each slot of the vector: "none" beyond its size, else
                 \* "null" or "thread"
    thrs,        \* stop()'s local vector
    sem,         \* each Thread's m_semaphore
    due          \* history: queued when stop() set m_stopping, not yet taken

schedState == <<m_stopping, m_fibers, fiber, m_threads, thrs, sem, due>>
vars == <<pc, fiberState, schedState>>

Labels == {"getcontext", "MainFunc", "body", "yield", "swapOut", "MainFuncEnd",
           "none", "born", "boot", "lock", "waiting", "swapIn", "check",
           "exited", "ctor", "user", "spawn", "handshake", "stop_notify",
           "stop_swap", "join", "notify", "notify_yield"}

Queued == ToSet(m_fibers)
Held(f) == \E t \in Threads : fiber[t] = f

Init ==
    /\ FiberInit([t \in Threads |-> CASE t = Main -> "ctor"
                                      [] t \in Producers -> "user"
                                      [] OTHER -> "none"])
    /\ m_stopping = TRUE
    /\ m_fibers = <<>>
    /\ fiber = [t \in Threads |-> NULL]
    /\ m_threads = [w \in Workers |-> "none"]
    /\ thrs = [w \in Workers |-> "none"]
    /\ sem = [w \in Workers |-> 0]
    /\ due = {}

----------------------------------------------------------------------------
(* The owner: constructor, start, stop.                                    *)

Construct ==
    /\ pc[Main] = "ctor"
    /\ IF UseCaller
       THEN /\ GetThis(Main)
            /\ t_scheduler_fiber' = [t_scheduler_fiber EXCEPT ![Main] = Root]
       ELSE UNCHANGED <<tls, m_state>>
    /\ Goto(Main, "user")
    /\ UNCHANGED <<stack, m_ctx, cur, proc, schedState>>

\* start(), called on a scheduler that is not started.
Start ==
    /\ pc[Main] = "user"
    /\ m_stopping
    /\ m_stopping' = FALSE
    /\ m_threads' = [w \in Workers |-> "null"]
    /\ Goto(Main, "spawn")
    /\ UNCHANGED <<fiberState, m_fibers, fiber, thrs, sem, due>>

\* One round of start()'s loop: new Thread(...), whose constructor creates the
\* thread and waits for its semaphore before the slot is set.
Spawn(w) ==
    /\ pc[Main] = "spawn"
    /\ m_threads[w] = "null"
    /\ pc[w] = "none"
    /\ pc' = [pc EXCEPT ![Main] = "handshake", ![w] = "born"]
    /\ sem' = [sem EXCEPT ![w] = 0]
    /\ UNCHANGED <<fiberState, m_stopping, m_fibers, fiber, m_threads, thrs, due>>

\* Mutant: the constructor does not wait for the new thread's semaphore.
Handshake_NoWait(w) ==
    /\ pc[Main] = "handshake"
    /\ m_threads[w] = "null"
    /\ pc[w] # "none"
    /\ sem' = [sem EXCEPT ![w] = @ - 1]
    /\ m_threads' = [m_threads EXCEPT ![w] = "thread"]
    /\ Goto(Main, "spawn")
    /\ UNCHANGED <<fiberState, m_stopping, m_fibers, fiber, thrs, due>>

Handshake(w) ==
    /\ pc[Main] = "handshake"
    /\ m_threads[w] = "null"
    /\ sem[w] > 0
    /\ sem' = [sem EXCEPT ![w] = @ - 1]
    /\ m_threads' = [m_threads EXCEPT ![w] = "thread"]
    /\ Goto(Main, "spawn")
    /\ UNCHANGED <<fiberState, m_stopping, m_fibers, fiber, thrs, due>>

\* Thread's constructor throws: start() is left with the other slots null.
SpawnFails ==
    /\ CreateFails
    /\ pc[Main] = "spawn"
    /\ \E w \in Workers : m_threads[w] = "null"
    /\ Goto(Main, "user")
    /\ UNCHANGED <<fiberState, schedState>>

StartReturns ==
    /\ pc[Main] = "spawn"
    /\ \A w \in Workers : m_threads[w] # "null"
    /\ Goto(Main, "user")
    /\ UNCHANGED <<fiberState, schedState>>

\* stop(), called on a started scheduler.
Stop ==
    /\ pc[Main] = "user"
    /\ ~m_stopping
    /\ m_stopping' = TRUE
    /\ due' = Queued
    /\ Goto(Main, "stop_notify")
    /\ UNCHANGED <<fiberState, m_fibers, fiber, m_threads, thrs, sem>>

\* Mutant: notify_one where stop() calls notify_all.
StopNotify_One ==
    /\ pc[Main] = "stop_notify"
    /\ \/ \E w \in Threads :
            /\ pc[w] = "waiting"
            /\ pc' = [pc EXCEPT ![Main] = "stop_swap", ![w] = "lock"]
       \/ (\A w \in Threads : pc[w] # "waiting") /\ Goto(Main, "stop_swap")
    /\ UNCHANGED <<fiberState, schedState>>

StopNotify ==
    /\ pc[Main] = "stop_notify"
    /\ pc' = [t \in Threads |-> IF t = Main THEN "stop_swap"
                                ELSE IF pc[t] = "waiting" THEN "lock" ELSE pc[t]]
    /\ UNCHANGED <<fiberState, schedState>>

StopSwap ==
    /\ pc[Main] = "stop_swap"
    /\ thrs' = m_threads
    /\ m_threads' = [w \in Workers |-> "none"]
    /\ Goto(Main, "join")
    /\ UNCHANGED <<fiberState, m_stopping, m_fibers, fiber, sem, due>>

Join(w) ==
    /\ pc[Main] = "join"
    /\ thrs[w] = "thread"
    /\ pc[w] = "exited"
    /\ thrs' = [thrs EXCEPT ![w] = "none"]
    /\ Goto(w, "none")
    /\ UNCHANGED <<fiberState, m_stopping, m_fibers, fiber, m_threads, sem, due>>

\* The slots start() did not fill follow those it filled.
JoinNull ==
    /\ pc[Main] = "join"
    /\ \E w \in Workers : thrs[w] = "null"
    /\ \A w \in Workers : thrs[w] # "thread"
    /\ NullDereference
    /\ UNCHANGED schedState

\* All joined: run what is left on m_rootFiber, or return.
StopCallsRoot ==
    /\ pc[Main] = "join"
    /\ \A w \in Workers : thrs[w] = "none"
    /\ UseCaller
    /\ Call(Main, Root, "user")
    /\ UNCHANGED schedState

StopReturns ==
    /\ pc[Main] = "join"
    /\ \A w \in Workers : thrs[w] = "none"
    /\ ~UseCaller
    /\ Goto(Main, "user")
    /\ UNCHANGED <<fiberState, schedState>>

----------------------------------------------------------------------------
(* schedule(), from any thread.                                            *)

\* Mutant: need_tickle is computed after the push_back.
Push_TestsTooLate(t, f, next, notify) ==
    /\ m_fibers' = Append(m_fibers, f)
    /\ Goto(t, IF m_fibers' = <<>> THEN notify ELSE next)
    /\ UNCHANGED <<fiberState, m_stopping, fiber, m_threads, thrs, sem, due>>

Push(t, f, next, notify) ==
    /\ m_fibers' = Append(m_fibers, f)
    /\ Goto(t, IF m_fibers = <<>> THEN notify ELSE next)
    /\ UNCHANGED <<fiberState, m_stopping, fiber, m_threads, thrs, sem, due>>

\* A fiber nobody has scheduled and nobody runs: new, reset or suspended.
Idle(f) == f \in Tasks /\ f \notin Queued /\ ~Held(f) /\ ~Executing(f)

Schedulable(f) ==
    /\ Idle(f)
    /\ m_ctx[f].at \in {"MainFunc"} \cup IF "resume" \in ClientOps THEN {"body"} ELSE {}

Schedule(t, f) ==
    /\ pc[t] \in {"user", "body"}
    /\ pc[Main] # "ctor"
    /\ Schedulable(f)
    /\ Push(t, f, pc[t], "notify")

\* schedule(Fiber::GetThis()), to be followed by Yield().
Reschedule(t) ==
    /\ "reschedule" \in ClientOps
    /\ pc[t] = "body"
    /\ Push(t, t_fiber[t], "yield", "notify_yield")

\* m_condition.notify_one(), after the lock was released.
AfterNotify(t) == IF pc[t] = "notify_yield" THEN "yield"
                  ELSE IF stack[t] \in Tasks THEN "body" ELSE "user"

Notify(t) ==
    /\ pc[t] \in {"notify", "notify_yield"}
    /\ \/ \E w \in Threads :
            /\ pc[w] = "waiting"
            /\ pc' = [pc EXCEPT ![t] = AfterNotify(t), ![w] = "lock"]
       \/ /\ \A w \in Threads : pc[w] # "waiting"
          /\ Goto(t, AfterNotify(t))
    /\ UNCHANGED <<fiberState, schedState>>

\* A caller makes a finished fiber ready for another callback.
ResetTask(t, f) ==
    /\ "reset" \in ClientOps
    /\ pc[t] = "user"
    /\ Idle(f)
    /\ m_ctx[f].at = "MainFuncEnd"
    /\ Reset(f)
    /\ UNCHANGED schedState

----------------------------------------------------------------------------
(* A thread of the pool: Thread::run, Scheduler::run, the tasks it runs.   *)

ThreadRun(w) ==
    /\ pc[w] = "born"
    /\ sem' = [sem EXCEPT ![w] = @ + 1]
    /\ Goto(w, "boot")
    /\ UNCHANGED <<fiberState, m_stopping, m_fibers, fiber, m_threads, thrs, due>>

\* run() up to its loop, in a thread other than m_rootThreadId.
RunEnter(w) ==
    /\ pc[w] = "boot"
    /\ GetThis(w)
    /\ t_scheduler_fiber' = [t_scheduler_fiber EXCEPT ![w] = t_fiber'[w]]
    /\ Goto(w, "lock")
    /\ UNCHANGED <<stack, m_ctx, cur, proc, schedState>>

RunWaits(t) ==
    /\ pc[t] = "lock"
    /\ m_fibers = <<>>
    /\ ~m_stopping
    /\ Goto(t, "waiting")
    /\ UNCHANGED <<fiberState, schedState>>

SpuriousWakeup(t) ==
    /\ pc[t] = "waiting"
    /\ Goto(t, "lock")
    /\ UNCHANGED <<fiberState, schedState>>

\* Mutant: back() without pop_back().
RunTakes_NoPop(t) ==
    /\ pc[t] = "lock"
    /\ m_fibers # <<>>
    /\ fiber' = [fiber EXCEPT ![t] = Last(m_fibers)]
    /\ due' = due \ {Last(m_fibers)}
    /\ Goto(t, "swapIn")
    /\ UNCHANGED <<fiberState, m_stopping, m_fibers, m_threads, thrs, sem>>

RunTakes(t) ==
    /\ pc[t] = "lock"
    /\ m_fibers # <<>>
    /\ fiber' = [fiber EXCEPT ![t] = Last(m_fibers)]
    /\ m_fibers' = Front(m_fibers)
    /\ due' = due \ {Last(m_fibers)}
    /\ Goto(t, "swapIn")
    /\ UNCHANGED <<fiberState, m_stopping, m_threads, thrs, sem>>

\* Mutant: m_stopping alone ends the loop.
RunFindsNothing_Abandons(t) ==
    /\ pc[t] = "lock"
    /\ m_stopping
    /\ Goto(t, "check")
    /\ UNCHANGED <<fiberState, schedState>>

RunFindsNothing(t) ==
    /\ pc[t] = "lock"
    /\ m_fibers = <<>>
    /\ m_stopping
    /\ Goto(t, "check")
    /\ UNCHANGED <<fiberState, schedState>>

\* fiber->swapIn(); the loop goes on when the fiber swaps out again.
RunSwapsIn(t) ==
    /\ pc[t] = "swapIn"
    /\ SwapIn(t, fiber[t], "lock")
    /\ fiber' = [fiber EXCEPT ![t] = NULL]
    /\ UNCHANGED <<m_stopping, m_fibers, m_threads, thrs, sem, due>>

\* The unlocked test of m_stopping. idle_fiber, the loop's other way out, is
\* never swapped in and so never TERM. A worker's thread ends with run() and
\* takes its thread_local variables with it; on m_rootFiber MainFunc goes on.
RunBreaks(t) ==
    /\ pc[t] = "check"
    /\ stack[t] # Root
    /\ IF m_stopping
       THEN /\ t_fiber' = [t_fiber EXCEPT ![t] = NULL]
            /\ t_thread_main_fiber' = [t_thread_main_fiber EXCEPT ![t] = NULL]
            /\ t_scheduler_fiber' = [t_scheduler_fiber EXCEPT ![t] = NULL]
            /\ Goto(t, "exited")
       ELSE Goto(t, "lock") /\ UNCHANGED tls
    /\ UNCHANGED <<stack, m_ctx, m_state, cur, proc, schedState>>

RootBreaks(t) ==
    /\ pc[t] = "check"
    /\ stack[t] = Root
    /\ IF m_stopping THEN CallbackEnds(t, "TERM")
                     ELSE Goto(t, "lock") /\ UNCHANGED fiberState
    /\ UNCHANGED schedState

\* m_rootFiber's callback is run(), a task's is the client's.
FiberStarts(t) ==
    /\ MainFunc(t, IF stack[t] = Root THEN "lock" ELSE "body")
    /\ UNCHANGED schedState

TaskYields(t) ==
    /\ pc[t] \in {"body", "yield"}
    /\ Yield(t)
    /\ UNCHANGED schedState

TaskEnds(t, s) ==
    /\ pc[t] = "body"
    /\ CallbackEnds(t, s)
    /\ UNCHANGED schedState

FiberSwapsOut(t) ==
    /\ MainFuncSwapOut(t)
    /\ UNCHANGED schedState

FiberRunsOff(t) ==
    /\ MainFuncReturns(t)
    /\ UNCHANGED schedState

----------------------------------------------------------------------------

\* What Main does once it has been told to; and what any thread does.
OwnerStep ==
    \/ Construct \/ StartReturns \/ StopNotify \/ StopSwap
    \/ StopCallsRoot \/ StopReturns \/ SpawnFails \/ JoinNull
    \/ \E w \in Workers : Spawn(w) \/ Handshake(w) \/ Join(w)

PoolStep(t) ==
    \/ RunWaits(t) \/ RunTakes(t) \/ RunFindsNothing(t)
    \/ RunSwapsIn(t) \/ RunBreaks(t) \/ RootBreaks(t) \/ FiberStarts(t)
    \/ TaskYields(t) \/ FiberSwapsOut(t) \/ FiberRunsOff(t)
    \/ TaskEnds(t, "TERM") \/ TaskEnds(t, "EXCEPT")
    \/ Notify(t)

WorkerStep(w) == ThreadRun(w) \/ RunEnter(w)

\* What the program around the scheduler decides, and the OS.
ClientStep ==
    \/ Start
    \/ Stop
    \/ \E t \in Threads : SpuriousWakeup(t) \/ Reschedule(t)
    \/ \E t \in Threads, f \in Tasks : Schedule(t, f) \/ ResetTask(t, f)

Next ==
    /\ proc = "up"
    /\ \/ OwnerStep
       \/ \E t \in Threads : PoolStep(t)
       \/ \E w \in Workers : WorkerStep(w)
       \/ ClientStep

Spec == Init /\ [][Next]_vars

\* Threads that can run do run, and callbacks return or yield. Nothing makes
\* the client schedule, start or stop.
Fairness ==
    /\ WF_vars(proc = "up" /\ OwnerStep)
    /\ \A t \in Threads : WF_vars(proc = "up" /\ PoolStep(t))
    /\ \A w \in Workers : WF_vars(proc = "up" /\ WorkerStep(w))

FairSpec == Spec /\ Fairness

----------------------------------------------------------------------------
(* Properties.                                                             *)

\* Every variable keeps its type; a Thread's semaphore is never decremented
\* below zero by the constructor that waits on it (thread.cpp, Thread::Thread).
TypeOK ==
    /\ FiberTypeOK(Labels)
    /\ m_stopping \in BOOLEAN
    /\ m_fibers \in Seq(Fibers)
    /\ fiber \in [Threads -> Fibers \cup {NULL}]
    /\ m_threads \in [Workers -> {"none", "null", "thread"}]
    /\ thrs \in [Workers -> {"none", "null", "thread"}]
    /\ sem \in [Workers -> Nat]
    /\ due \subseteq Fibers

\* A worker that will come back to run()'s critical section by itself.
Awake(w) == pc[w] \notin {"none", "waiting", "check", "exited"}

\* schedule() notifies only when it finds the list empty. That is enough: a
\* worker never sleeps on a non-empty list unless a notification is under way
\* or another worker is still to look at the list (scheduler.cpp, schedule and
\* the wait in run).
NoLostWakeup ==
    (m_fibers # <<>> /\ \E w \in Threads : pc[w] = "waiting") =>
        \/ \E t \in Threads : pc[t] \in {"notify", "notify_yield", "stop_notify"}
        \/ \E w \in Workers : Awake(w)

\* stop() sets m_stopping under m_mutex and notifies after releasing it: once
\* it has notified, no worker is left asleep, whatever it was about to do.
StopWakesAll ==
    (m_stopping /\ \E w \in Threads : pc[w] = "waiting") => pc[Main] = "stop_notify"

\* The owner is back from stop(), or has not called start() yet; or the process
\* has exited under stop() (UseCaller).
Stopped == (m_stopping /\ pc[Main] = "user") \/ proc = "exit"

\* When stop() is over, every fiber that was in the list when it set
\* m_stopping has been taken and run until it yielded or ended, no fiber is
\* held or executing, and no worker thread exists any more.
StopDrains ==
    Stopped => /\ due = {}
               /\ \A f \in Tasks : ~Executing(f) /\ ~Held(f)
               /\ \A w \in Workers : pc[w] = "none"

\* A task that has returned from its callback is never resumed past the
\* swapOut that ends MainFunc: that would end the process, uc_link is null.
\* Only m_rootFiber gets there.
FinishedNeverResumed ==
    \A t \in Threads : pc[t] = "MainFuncEnd" => stack[t] = Root

\* A scheduled fiber is eventually taken from the list, unless the scheduler
\* is being stopped (m_fibers is a "queue": scheduler.cpp, schedule).
ScheduledRuns ==
    \A f \in Tasks : (f \in Queued /\ ~m_stopping) ~> (f \notin Queued \/ m_stopping)

\* stop() returns: all workers see m_stopping, drain the list and are joined.
StopCompletes == (pc[Main] = "stop_notify") ~> (pc[Main] = "user")
=============================================================================
