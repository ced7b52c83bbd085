------------------------------ MODULE FiberUse ------------------------------
(***************************************************************************)
(* The coroutines of fiber.{h,cpp} used without a Scheduler, as            *)
(* tests/test_fiber.cpp does: threads make their main fibers with          *)
(* GetThis(), resume fibers with call() or swapIn(), and fibers give the   *)
(* thread back with back() or Yield(). No thread sets t_scheduler_fiber.   *)
(*                                                                         *)
(* A client resumes a fiber only while no thread executes it and its       *)
(* callback has not ended, from outside any other fiber.                   *)
(***************************************************************************)
EXTENDS Fiber

Labels == {"getcontext", "user", "MainFunc", "body", "swapOut", "MainFuncEnd"}

vars == <<pc, fiberState>>

Init == FiberInit([t \in Threads |-> "user"])

Resumable(f) == ~Executing(f) /\ m_ctx[f].at \in {"MainFunc", "body"}

UserGetThis(t) ==
    /\ pc[t] = "user"
    /\ GetThis(t)
    /\ UNCHANGED <<pc, stack, t_scheduler_fiber, m_ctx, cur, proc>>

\* f->call(): t_thread_main_fiber is null until the thread has called GetThis.
UserCalls(t, f) ==
    /\ pc[t] = "user"
    /\ Resumable(f)
    /\ IF t_thread_main_fiber[t] # NULL THEN Call(t, f, "user") ELSE NullDereference

\* f->swapIn(): Scheduler::GetMainFiber() is null in a thread that runs none.
UserSwapsIn(t, f) ==
    /\ pc[t] = "user"
    /\ Resumable(f)
    /\ IF t_scheduler_fiber[t] # NULL THEN SwapIn(t, f, "user") ELSE NullDereference

UserResets(t, f) ==
    /\ pc[t] = "user"
    /\ ~Executing(f)
    /\ Reset(f)

Starts(t) == MainFunc(t, "body")

\* Fiber::GetThis()->back() in a callback.
Backs(t) ==
    /\ pc[t] = "body"
    /\ Back(t, t_fiber[t], "body")

Yields(t) ==
    /\ pc[t] = "body"
    /\ IF t_scheduler_fiber[t] # NULL THEN Yield(t) ELSE NullDereference

Ends(t) ==
    /\ pc[t] = "body"
    /\ \E s \in {"TERM", "EXCEPT"} : CallbackEnds(t, s)

SwapsOut(t) ==
    /\ pc[t] = "swapOut"
    /\ IF t_scheduler_fiber[t] # NULL THEN MainFuncSwapOut(t) ELSE NullDereference

Next ==
    /\ proc = "up"
    /\ \E t \in Threads :
         \/ UserGetThis(t) \/ Starts(t) \/ Backs(t) \/ Yields(t) \/ Ends(t) \/ SwapsOut(t)
         \/ \E f \in Fibers : UserCalls(t, f) \/ UserSwapsIn(t, f) \/ UserResets(t, f)

Spec == Init /\ [][Next]_vars

----------------------------------------------------------------------------
(* Properties.                                                             *)

\* Every variable keeps its type.
TypeOK == FiberTypeOK(Labels)

\* While a thread executes a fiber, its main fiber's context is where it left
\* it: back() returns to the statement after call(), on the thread's own stack,
\* whichever threads the fiber has been on before (fiber.cpp, call and back).
MainContextKept ==
    \A t \in Threads : stack[t] # t =>
        /\ t_thread_main_fiber[t] = t
        /\ m_ctx[t] = [stack |-> t, at |-> "user"]

\* A fiber no thread executes can be resumed where it stopped: its context is
\* on its own stack, at the start of MainFunc or after back(), and MainFunc's
\* local still names it.
SuspendedIsResumable ==
    \A f \in Fibers : ~Executing(f) =>
        /\ m_ctx[f].stack = f
        /\ m_ctx[f].at \in {"MainFunc", "body"}
        /\ m_ctx[f].at = "body" => cur[f] = f

\* Where a thread can be, and what its thread-local pointers say there: the
\* strengthening that makes the conjunction below inductive.
Attached ==
    \A t \in Threads :
      /\ stack[t] \in {t} \cup Fibers
      /\ stack[t] = t <=> pc[t] = "user"
      /\ pc[t] \in {"user", "MainFunc", "body", "swapOut"}
      /\ pc[t] \in {"body", "swapOut"} => cur[stack[t]] = stack[t]
      /\ t_thread_main_fiber[t] \in {NULL, t}
      /\ t_thread_main_fiber[t] = NULL <=> t_fiber[t] = NULL
      /\ t_scheduler_fiber[t] = NULL

\* The inductive invariant of FiberUse.
UseInv ==
    /\ TypeOK
    /\ Attached
    /\ CurrentIsExecuting
    /\ OneThreadPerFiber
    /\ MainContextKept
    /\ SuspendedIsResumable
=============================================================================
