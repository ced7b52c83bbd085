------------------------------- MODULE Fiber -------------------------------
(***************************************************************************)
(* The coroutines of server/fiber.{h,cpp}: Fiber objects, the ucontext     *)
(* each one saves, and the three thread-local pointers that say which      *)
(* fiber a thread runs (t_fiber), which is its main fiber                  *)
(* (t_thread_main_fiber) and which one swapIn and swapOut exchange with    *)
(* (t_scheduler_fiber, Scheduler::GetMainFiber()).                         *)
(*                                                                         *)
(* This module has the state and the operations; FiberUse drives them from *)
(* a thread without a scheduler and Scheduler from Scheduler::run.         *)
(* A thread's own id stands for its main fiber (the private constructor).  *)
(***************************************************************************)

CONSTANTS Threads,   \* the OS threads of the process
          Fibers,    \* the fibers built with Fiber(cb, stacksize)
          NULL       \* the null pointer

ASSUME FiberAssumption ==
    /\ Threads \cap Fibers = {}
    /\ NULL \notin Threads \cup Fibers

Objects == Threads \cup Fibers

State == {"INIT", "HOLD", "EXEC", "TERM", "EXCEPT"}

VARIABLES
    pc,                   \* where each thread is in the code it executes
    stack,                \* whose stack each thread really executes on
    t_fiber,              \* thread_local: the current fiber
    t_thread_main_fiber,  \* thread_local: the main fiber, once GetThis made it
    t_scheduler_fiber,    \* thread_local: the fiber of Scheduler::run
    m_ctx,                \* the saved context: a stack and a place in the code
    m_state,              \* Fiber::m_state
    cur,                  \* MainFunc's local on each fiber's stack
    proc                  \* the process: up, exited, or dead of a null dereference

tls == <<t_fiber, t_thread_main_fiber, t_scheduler_fiber>>

\* What a step of a thread that only moves its program counter leaves alone.
fiberState == <<stack, tls, m_ctx, m_state, cur, proc>>

Goto(t, label) == pc' = [pc EXCEPT ![t] = label]

(***************************************************************************)
(* Both constructors: a pooled fiber's context enters MainFunc on its own  *)
(* stack; a main fiber's holds what getcontext saw and is overwritten      *)
(* before anything resumes it.                                             *)
(***************************************************************************)
FiberInit(entry) ==
    /\ pc = entry
    /\ stack = [t \in Threads |-> t]
    /\ t_fiber = [t \in Threads |-> NULL]
    /\ t_thread_main_fiber = [t \in Threads |-> NULL]
    /\ t_scheduler_fiber = [t \in Threads |-> NULL]
    /\ m_ctx = [o \in Objects |->
                  [stack |-> o,
                   at |-> IF o \in Fibers THEN "MainFunc" ELSE "getcontext"]]
    /\ m_state = [o \in Objects |-> "INIT"]
    /\ cur = [o \in Objects |-> NULL]
    /\ proc = "up"

----------------------------------------------------------------------------

\* Mutant: t_thread_main_fiber is static, not thread_local.
GetThis_Shared(t) ==
    IF t_fiber[t] # NULL
    THEN UNCHANGED <<t_fiber, t_thread_main_fiber, m_state>>
    ELSE /\ t_fiber' = [t_fiber EXCEPT ![t] = t]
         /\ t_thread_main_fiber' = [u \in Threads |-> t]
         /\ m_state' = [m_state EXCEPT ![t] = "EXEC"]

\* Fiber::GetThis: the current fiber, or a lazily made main fiber.
GetThis(t) ==
    IF t_fiber[t] # NULL
    THEN UNCHANGED <<t_fiber, t_thread_main_fiber, m_state>>
    ELSE /\ t_fiber' = [t_fiber EXCEPT ![t] = t]
         /\ t_thread_main_fiber' = [t_thread_main_fiber EXCEPT ![t] = t]
         /\ m_state' = [m_state EXCEPT ![t] = "EXEC"]

\* swapcontext(save, load) (libc): thread t stores where it is, "at" on the
\* stack it executes on, in save's context, then continues from load's. With
\* save = load it continues where it is.
SwapContext(t, save, load, at) ==
    LET ctx == [m_ctx EXCEPT ![save] = [stack |-> stack[t], at |-> at]]
    IN  /\ m_ctx' = ctx
        /\ stack' = [stack EXCEPT ![t] = ctx[load].stack]
        /\ pc' = [pc EXCEPT ![t] = ctx[load].at]
        /\ UNCHANGED <<t_thread_main_fiber, t_scheduler_fiber, cur, proc>>

\* Mutant: setcontext in place of swapcontext, the caller's place is not saved.
Call_NotSaved(t, f, at) ==
    /\ t_thread_main_fiber[t] # NULL
    /\ t_fiber' = [t_fiber EXCEPT ![t] = f]
    /\ stack' = [stack EXCEPT ![t] = m_ctx[f].stack]
    /\ pc' = [pc EXCEPT ![t] = m_ctx[f].at]
    /\ UNCHANGED <<m_ctx, t_thread_main_fiber, t_scheduler_fiber, cur, proc, m_state>>

\* Fiber::call and Fiber::back exchange with the thread's main fiber.
Call(t, f, at) ==
    /\ t_thread_main_fiber[t] # NULL
    /\ t_fiber' = [t_fiber EXCEPT ![t] = f]
    /\ SwapContext(t, t_thread_main_fiber[t], f, at)
    /\ UNCHANGED m_state

\* Mutant: back leaves t_fiber pointing at the fiber it leaves.
Back_KeepsFiber(t, f, at) ==
    /\ t_thread_main_fiber[t] # NULL
    /\ UNCHANGED t_fiber
    /\ SwapContext(t, f, t_thread_main_fiber[t], at)
    /\ UNCHANGED m_state

Back(t, f, at) ==
    /\ t_thread_main_fiber[t] # NULL
    /\ t_fiber' = [t_fiber EXCEPT ![t] = t_thread_main_fiber[t]]
    /\ SwapContext(t, f, t_thread_main_fiber[t], at)
    /\ UNCHANGED m_state

\* Fiber::swapIn and Fiber::swapOut exchange with Scheduler::GetMainFiber().
SwapIn(t, f, at) ==
    /\ t_scheduler_fiber[t] # NULL
    /\ t_fiber' = [t_fiber EXCEPT ![t] = f]
    /\ SwapContext(t, t_scheduler_fiber[t], f, at)
    /\ UNCHANGED m_state

\* Mutant: swapOut leaves t_fiber pointing at the fiber it leaves.
SwapOut_KeepsFiber(t, f, at) ==
    /\ t_scheduler_fiber[t] # NULL
    /\ UNCHANGED t_fiber
    /\ SwapContext(t, f, t_scheduler_fiber[t], at)
    /\ UNCHANGED m_state

SwapOut(t, f, at) ==
    /\ t_scheduler_fiber[t] # NULL
    /\ t_fiber' = [t_fiber EXCEPT ![t] = t_scheduler_fiber[t]]
    /\ SwapContext(t, f, t_scheduler_fiber[t], at)
    /\ UNCHANGED m_state

\* Either of them, or call() without a main fiber, through a null pointer.
NullDereference ==
    /\ proc' = "segv"
    /\ UNCHANGED <<pc, stack, tls, m_ctx, m_state, cur>>

\* Fiber::Yield: GetThis()->swapOut(), to be continued in the callback.
Yield(t) == SwapOut(t, t_fiber[t], "body")

\* Fiber::MainFunc, up to the call of m_cb, whose first statement is at entry.
MainFunc(t, entry) ==
    /\ pc[t] = "MainFunc"
    /\ cur' = [cur EXCEPT ![stack[t]] = t_fiber[t]]
    /\ Goto(t, entry)
    /\ UNCHANGED <<stack, tls, m_ctx, m_state, proc>>

\* m_cb returned (TERM) or threw (EXCEPT): MainFunc records it in the fiber.
CallbackEnds(t, s) ==
    /\ m_state' = [m_state EXCEPT ![cur[stack[t]]] = s]
    /\ Goto(t, "swapOut")
    /\ UNCHANGED <<stack, tls, m_ctx, cur, proc>>

\* The last statement of MainFunc: cur->swapOut().
MainFuncSwapOut(t) ==
    /\ pc[t] = "swapOut"
    /\ SwapOut(t, cur[stack[t]], "MainFuncEnd")

\* A context resumed past that statement runs off the end of MainFunc. Its
\* uc_link is null, so glibc calls exit().
MainFuncReturns(t) ==
    /\ pc[t] = "MainFuncEnd"
    /\ proc' = "exit"
    /\ UNCHANGED <<pc, stack, tls, m_ctx, m_state, cur>>

\* Mutant: reset forgets makecontext.
Reset_NoMakeContext(f) ==
    /\ m_ctx' = [m_ctx EXCEPT ![f] = [stack |-> f, at |-> "getcontext"]]
    /\ UNCHANGED <<pc, stack, tls, m_state, cur, proc>>

\* Fiber::reset: a new callback and a fresh context; m_state is left as it is.
Reset(f) ==
    /\ m_ctx' = [m_ctx EXCEPT ![f] = [stack |-> f, at |-> "MainFunc"]]
    /\ UNCHANGED <<pc, stack, tls, m_state, cur, proc>>

----------------------------------------------------------------------------

\* On some thread's stack at this moment.
Executing(f) == \E t \in Threads : stack[t] = f

FiberTypeOK(labels) ==
    /\ pc \in [Threads -> labels]
    /\ stack \in [Threads -> Objects]
    /\ t_fiber \in [Threads -> Objects \cup {NULL}]
    /\ t_thread_main_fiber \in [Threads -> Threads \cup {NULL}]
    /\ t_scheduler_fiber \in [Threads -> Objects \cup {NULL}]
    /\ m_ctx \in [Objects -> [stack : Objects, at : labels]]
    /\ m_state \in [Objects -> State]
    /\ cur \in [Objects -> Objects \cup {NULL}]
    /\ proc \in {"up", "exit", "segv"}

\* The pointer GetThis() hands out is the fiber whose stack the thread is
\* really executing on: Yield, swapOut and MainFunc save into the right
\* context however often the fiber has moved between threads.
CurrentIsExecuting ==
    \A t \in Threads : t_fiber[t] # NULL => t_fiber[t] = stack[t]

\* No stack is executed by two threads at once: nothing but the caller of
\* swapIn or call keeps a fiber from being resumed while it still runs.
OneThreadPerFiber ==
    \A t, u \in Threads : t # u => stack[t] # stack[u]
=============================================================================
