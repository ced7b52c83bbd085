---------------------------- MODULE SchedulerInv ----------------------------
(***************************************************************************)
(* The inductive invariant behind the scheduler's safety properties, for a *)
(* scheduler whose owner's thread takes no part (UseCaller = FALSE) and    *)
(* whose clients schedule only fibers that are not running.                *)
(***************************************************************************)
EXTENDS Scheduler

PlainPool == ~UseCaller /\ "reschedule" \notin ClientOps

\* Where the owner, a producer and a worker can be; on its own stack a worker
\* runs Thread::run and Scheduler::run, on a task's stack it runs the task.
OwnerLabels == {"ctor", "user", "notify", "spawn", "handshake",
                "stop_notify", "stop_swap", "join"}
RunLabels == {"none", "born", "boot", "lock", "waiting", "swapIn", "check", "exited"}
TaskLabels == {"MainFunc", "body", "notify", "swapOut"}

\* Outside run() a thread has no current fiber.
NoFiberLabels == {"none", "born", "boot", "exited"}

Places ==
    /\ pc[Main] \in OwnerLabels
    /\ \A p \in Producers : pc[p] \in {"user", "notify"}
    /\ \A t \in Threads \ Workers : stack[t] = t /\ t_fiber[t] = NULL /\ fiber[t] = NULL
    /\ \A w \in Workers :
         \/ pc[w] \in RunLabels /\ stack[w] = w
         \/ pc[w] \in TaskLabels /\ stack[w] \in Tasks

\* The thread-local pointers and run()'s local agree with the place.
Pointers ==
    \A w \in Workers :
      /\ pc[w] \in NoFiberLabels => t_fiber[w] = NULL
      /\ pc[w] \notin NoFiberLabels => t_fiber[w] = stack[w] /\ t_scheduler_fiber[w] = w
      /\ pc[w] = "swapIn" <=> fiber[w] # NULL

\* The saved contexts: a task's is its own stack; a worker that runs a task
\* has left its own at the top of run()'s loop.
Contexts ==
    /\ \A f \in Tasks :
         /\ m_ctx[f].stack = f
         /\ m_ctx[f].at \in {"MainFunc", "body", "MainFuncEnd"}
         /\ m_ctx[f].at = "body" => cur[f] = f
    /\ \A w \in Workers :
         stack[w] # w => /\ m_ctx[w].stack = w /\ m_ctx[w].at = "lock"
                         /\ pc[w] # "MainFunc" => cur[stack[w]] = stack[w]

\* A task is in one place: once in the list, or held by one thread that is
\* about to swap it in, or on one thread's stack. Listed or held, it is ready.
Ownership ==
    /\ IsInjective(m_fibers)
    /\ \A f \in Queued : f \in Tasks /\ ~Held(f) /\ ~Executing(f)
    /\ \A t \in Threads : fiber[t] # NULL => fiber[t] \in Tasks /\ ~Executing(fiber[t])
    /\ \A t, u \in Threads : fiber[t] = fiber[u] /\ fiber[t] # NULL => t = u
    /\ \A f \in Tasks : f \in Queued \/ Held(f) => m_ctx[f].at # "MainFuncEnd"

\* The semaphore handshake of start() is with one new thread at a time.
Handshakes ==
    /\ \A w \in Workers :
         pc[w] = "born" => pc[Main] = "handshake" /\ m_threads[w] = "null"
    /\ \A w \in Workers :
         sem[w] # 0 => /\ sem[w] = 1
                       /\ pc[Main] = "handshake"
                       /\ m_threads[w] = "null"
                       /\ pc[w] \notin {"none", "born"}
    /\ \A w, u \in Workers :
         (/\ m_threads[w] = "null" /\ pc[w] # "none"
          /\ m_threads[u] = "null" /\ pc[u] # "none") => w = u

\* Every thread that exists is in a slot the owner will join.
Recorded ==
    /\ \A w \in Workers :
         \/ pc[w] = "none"
         \/ m_threads[w] = "thread"
         \/ thrs[w] = "thread"
         \/ pc[Main] = "handshake" /\ m_threads[w] = "null"
    /\ pc[Main] = "join" => \A w \in Workers : m_threads[w] = "none"
    /\ pc[Main] # "join" => \A w \in Workers : thrs[w] = "none"

\* The phases of the owner, and what is still due in each.
Phases ==
    /\ pc[Main] \in {"spawn", "handshake"} => ~m_stopping
    /\ pc[Main] \in {"stop_notify", "stop_swap", "join"} => m_stopping
    /\ m_stopping /\ pc[Main] \in {"ctor", "user", "notify"} =>
         \A w \in Workers : m_threads[w] = "none"
    /\ ~m_stopping \/ pc[Main] \in {"stop_notify", "stop_swap"} =>
         \A w \in Workers : m_threads[w] # "none"
    /\ \A w \in Workers : pc[w] \in {"check", "exited"} => m_stopping /\ due = {}
    /\ due \subseteq Queued
    /\ pc[Main] \notin {"stop_notify", "stop_swap", "join"} => due = {}
    /\ pc[Main] = "join" => due = {} \/ \E w \in Workers : thrs[w] # "none"

\* The inductive invariant: with it, each step of scheduler.cpp, fiber.cpp and
\* Thread's handshake preserves OneThreadPerFiber, NoLostWakeup, StopDrains
\* and the others.
IInv ==
    /\ TypeOK
    /\ Places
    /\ Pointers
    /\ Contexts
    /\ Ownership
    /\ OneThreadPerFiber
    /\ Handshakes
    /\ Recorded
    /\ Phases
    /\ StopWakesAll
    /\ NoLostWakeup
    /\ proc # "exit"
=============================================================================
