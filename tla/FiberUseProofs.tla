--------------------------- MODULE FiberUseProofs ---------------------------
(***************************************************************************)
(* Proof that UseInv is an invariant of FiberUse, for any number of        *)
(* threads and fibers.                                                     *)
(***************************************************************************)
EXTENDS FiberUse, TLAPS

\* In the initial states every thread is on its own stack and every fiber's
\* context is the one its constructor made.
LEMMA UseInitial == Init => UseInv
<1> SUFFICES ASSUME Init PROVE UseInv
  OBVIOUS
<1> USE FiberAssumption DEF Init, FiberInit, Objects, State
<1>1. TypeOK
  BY DEF TypeOK, FiberTypeOK, Labels
<1>2. Attached /\ CurrentIsExecuting /\ OneThreadPerFiber
  BY DEF Attached, CurrentIsExecuting, OneThreadPerFiber
<1>3. MainContextKept /\ SuspendedIsResumable
  BY DEF MainContextKept, SuspendedIsResumable
<1> QED
  BY <1>1, <1>2, <1>3 DEF UseInv

\* The steps that only end the process.
LEMMA UseDies == UseInv /\ NullDereference => UseInv'
BY DEF NullDereference, UseInv, TypeOK, FiberTypeOK, Attached, CurrentIsExecuting,
       OneThreadPerFiber, MainContextKept, SuspendedIsResumable, Executing, tls

\* A thread enters a fiber with call().
LEMMA UseCall ==
    ASSUME NEW t \in Threads, NEW f \in Fibers, UseInv, pc[t] = "user", Resumable(f),
           Call(t, f, "user")
    PROVE  UseInv'
<1> USE FiberAssumption
<1>1. /\ t_thread_main_fiber[t] = t
      /\ stack[t] = t
      /\ m_ctx[f].stack = f
      /\ m_ctx[f].at \in {"MainFunc", "body"}
      /\ t # f
      /\ \A u \in Threads : stack[u] # f
  BY DEF UseInv, Attached, Call, SuspendedIsResumable, Resumable, Executing
<1>2. /\ m_ctx' = [m_ctx EXCEPT ![t] = [stack |-> t, at |-> "user"]]
      /\ stack' = [stack EXCEPT ![t] = f]
      /\ pc' = [pc EXCEPT ![t] = m_ctx[f].at]
      /\ t_fiber' = [t_fiber EXCEPT ![t] = f]
      /\ UNCHANGED <<t_thread_main_fiber, t_scheduler_fiber, cur, proc, m_state>>
  <2> DEFINE ctx == [m_ctx EXCEPT ![t] = [stack |-> t, at |-> "user"]]
  <2>1. ctx[f] = m_ctx[f]
    BY <1>1 DEF UseInv, TypeOK, FiberTypeOK, Objects
  <2> QED
    BY <1>1, <2>1 DEF Call, SwapContext
<1>3. TypeOK'
  BY <1>1, <1>2 DEF UseInv, TypeOK, FiberTypeOK, Labels, Objects
<1>4. Attached'
  BY <1>1, <1>2 DEF UseInv, TypeOK, FiberTypeOK, Attached, SuspendedIsResumable, Executing, Objects
<1>5. (CurrentIsExecuting /\ OneThreadPerFiber)'
  BY <1>1, <1>2 DEF UseInv, TypeOK, FiberTypeOK, CurrentIsExecuting, OneThreadPerFiber, Objects
<1>6. MainContextKept'
  BY <1>1, <1>2 DEF UseInv, TypeOK, FiberTypeOK, MainContextKept, Objects
<1>7. SuspendedIsResumable'
  BY <1>1, <1>2 DEF UseInv, TypeOK, FiberTypeOK, SuspendedIsResumable, Executing, Objects
<1> QED
  BY <1>3, <1>4, <1>5, <1>6, <1>7 DEF UseInv

\* A fiber leaves its thread with back().
LEMMA UseBack ==
    ASSUME NEW t \in Threads, UseInv, Backs(t)
    PROVE  UseInv'
<1> USE FiberAssumption
<1>1. PICK f \in Fibers : f = stack[t]
  BY DEF UseInv, Attached, Backs
<1>2. /\ t_thread_main_fiber[t] = t
      /\ t_fiber[t] = f
      /\ m_ctx[t] = [stack |-> t, at |-> "user"]
      /\ t # f
      /\ cur[f] = f
      /\ \A u \in Threads : u # t => stack[u] \notin {t, f}
  BY <1>1 DEF UseInv, Attached, Backs, MainContextKept, CurrentIsExecuting, OneThreadPerFiber
<1>3. /\ m_ctx' = [m_ctx EXCEPT ![f] = [stack |-> f, at |-> "body"]]
      /\ stack' = [stack EXCEPT ![t] = t]
      /\ pc' = [pc EXCEPT ![t] = "user"]
      /\ t_fiber' = [t_fiber EXCEPT ![t] = t]
      /\ UNCHANGED <<t_thread_main_fiber, t_scheduler_fiber, cur, proc, m_state>>
  <2> DEFINE ctx == [m_ctx EXCEPT ![f] = [stack |-> f, at |-> "body"]]
  <2>1. ctx[t] = m_ctx[t]
    BY <1>2 DEF UseInv, TypeOK, FiberTypeOK, Objects
  <2>2. /\ m_ctx' = ctx
        /\ stack' = [stack EXCEPT ![t] = ctx[t].stack]
        /\ pc' = [pc EXCEPT ![t] = ctx[t].at]
        /\ t_fiber' = [t_fiber EXCEPT ![t] = t]
        /\ UNCHANGED <<t_thread_main_fiber, t_scheduler_fiber, cur, proc, m_state>>
    BY <1>1, <1>2, Zenon DEF Backs, Back, SwapContext
  <2>3. ctx[t].stack = t /\ ctx[t].at = "user"
    BY <1>2, <2>1
  <2> QED
    BY <2>2, <2>3
<1>4. TypeOK'
  BY <1>2, <1>3 DEF UseInv, TypeOK, FiberTypeOK, Labels, Objects
<1>5. Attached'
  BY <1>2, <1>3 DEF UseInv, TypeOK, FiberTypeOK, Attached, Objects
<1>6. (CurrentIsExecuting /\ OneThreadPerFiber)'
  BY <1>2, <1>3 DEF UseInv, TypeOK, FiberTypeOK, CurrentIsExecuting, OneThreadPerFiber, Objects
<1>7. MainContextKept'
  BY <1>2, <1>3 DEF UseInv, TypeOK, FiberTypeOK, MainContextKept, Attached, Objects
<1>8. SuspendedIsResumable'
  BY <1>1, <1>2, <1>3 DEF UseInv, TypeOK, FiberTypeOK, SuspendedIsResumable, Executing, Objects
<1> QED
  BY <1>4, <1>5, <1>6, <1>7, <1>8 DEF UseInv

\* Every step of a thread keeps UseInv.
LEMMA UseStep == UseInv /\ [Next]_vars => UseInv'
<1> SUFFICES ASSUME UseInv, [Next]_vars PROVE UseInv'
  OBVIOUS
<1> USE FiberAssumption
<1>1. ASSUME NEW t \in Threads, UserGetThis(t) PROVE UseInv'
  <2>1. CASE t_fiber[t] # NULL
    BY <1>1, <2>1 DEF UserGetThis, GetThis, UseInv, TypeOK, FiberTypeOK, Attached,
       CurrentIsExecuting, OneThreadPerFiber, MainContextKept, SuspendedIsResumable, Executing
  <2>2. CASE t_fiber[t] = NULL
    <3>1. TypeOK'
      BY <1>1, <2>2 DEF UserGetThis, GetThis, UseInv, TypeOK, FiberTypeOK, Labels, Objects, State
    <3>2. (Attached /\ CurrentIsExecuting /\ OneThreadPerFiber)'
      BY <1>1, <2>2 DEF UserGetThis, GetThis, UseInv, TypeOK, FiberTypeOK, Attached,
         CurrentIsExecuting, OneThreadPerFiber
    <3>3. (MainContextKept /\ SuspendedIsResumable)'
      BY <1>1, <2>2 DEF UserGetThis, GetThis, UseInv, TypeOK, FiberTypeOK, MainContextKept,
         SuspendedIsResumable, Executing
    <3> QED
      BY <3>1, <3>2, <3>3 DEF UseInv
  <2> QED
    BY <2>1, <2>2
<1>2. ASSUME NEW t \in Threads, Starts(t) PROVE UseInv'
  <2>1. /\ pc[t] = "MainFunc"
        /\ pc' = [pc EXCEPT ![t] = "body"]
        /\ cur' = [cur EXCEPT ![stack[t]] = stack[t]]
        /\ UNCHANGED <<stack, t_fiber, t_thread_main_fiber, t_scheduler_fiber, m_ctx, m_state, proc>>
    <3>1. t_fiber[t] = stack[t]
      <4>1. pc[t] = "MainFunc"
        BY <1>2 DEF Starts, MainFunc
      <4>2. stack[t] # t
        BY <4>1 DEF UseInv, Attached
      <4>3. t_thread_main_fiber[t] = t
        BY <4>2 DEF UseInv, MainContextKept
      <4>4. t_fiber[t] # NULL
        BY <4>3 DEF UseInv, Attached
      <4> QED
        BY <4>4 DEF UseInv, CurrentIsExecuting
    <3> QED
      BY <1>2, <3>1 DEF Starts, MainFunc, Goto, tls
  <2>2. TypeOK'
    BY <2>1 DEF UseInv, TypeOK, FiberTypeOK, Labels, Objects
  <2>3. (Attached /\ CurrentIsExecuting /\ OneThreadPerFiber)'
    BY <2>1 DEF UseInv, TypeOK, FiberTypeOK, Attached, CurrentIsExecuting, OneThreadPerFiber, Objects
  <2>4. (MainContextKept /\ SuspendedIsResumable)'
    BY <2>1 DEF UseInv, TypeOK, FiberTypeOK, MainContextKept, SuspendedIsResumable, Executing, Objects
  <2> QED
    BY <2>2, <2>3, <2>4 DEF UseInv
<1>3. ASSUME NEW t \in Threads, Yields(t) \/ SwapsOut(t) PROVE UseInv'
  BY <1>3, UseDies DEF Yields, SwapsOut, UseInv, Attached
<1>4. ASSUME NEW t \in Threads, Ends(t) PROVE UseInv'
  <2>1. PICK s \in {"TERM", "EXCEPT"} : CallbackEnds(t, s)
    BY <1>4 DEF Ends
  <2>2. /\ pc[t] = "body"
        /\ pc' = [pc EXCEPT ![t] = "swapOut"]
        /\ m_state' = [m_state EXCEPT ![cur[stack[t]]] = s]
        /\ UNCHANGED <<stack, t_fiber, t_thread_main_fiber, t_scheduler_fiber, m_ctx, cur, proc>>
    BY <1>4, <2>1 DEF Ends, CallbackEnds, Goto, tls
  <2>3. TypeOK'
    BY <2>2 DEF UseInv, TypeOK, FiberTypeOK, Labels, Objects, State
  <2>4. (Attached /\ CurrentIsExecuting /\ OneThreadPerFiber)'
    BY <2>2 DEF UseInv, TypeOK, FiberTypeOK, Attached, CurrentIsExecuting, OneThreadPerFiber
  <2>5. (MainContextKept /\ SuspendedIsResumable)'
    BY <2>2 DEF UseInv, MainContextKept, SuspendedIsResumable, Executing
  <2> QED
    BY <2>3, <2>4, <2>5 DEF UseInv
<1>5. ASSUME NEW t \in Threads, NEW f \in Fibers, UserCalls(t, f) PROVE UseInv'
  BY <1>5, UseCall, UseDies DEF UserCalls
<1>6. ASSUME NEW t \in Threads, NEW f \in Fibers, UserSwapsIn(t, f) PROVE UseInv'
  BY <1>6, UseDies DEF UserSwapsIn, UseInv, Attached
<1>7. ASSUME NEW t \in Threads, NEW f \in Fibers, UserResets(t, f) PROVE UseInv'
  <2>1. /\ m_ctx' = [m_ctx EXCEPT ![f] = [stack |-> f, at |-> "MainFunc"]]
        /\ UNCHANGED <<pc, stack, t_fiber, t_thread_main_fiber, t_scheduler_fiber, m_state, cur, proc>>
    BY <1>7 DEF UserResets, Reset, tls
  <2>2. TypeOK'
    BY <2>1 DEF UseInv, TypeOK, FiberTypeOK, Labels, Objects
  <2>3. (Attached /\ CurrentIsExecuting /\ OneThreadPerFiber)'
    BY <2>1 DEF UseInv, Attached, CurrentIsExecuting, OneThreadPerFiber
  <2>4. (MainContextKept /\ SuspendedIsResumable)'
    BY <2>1 DEF UseInv, TypeOK, FiberTypeOK, MainContextKept, SuspendedIsResumable, Executing, Objects
  <2> QED
    BY <2>2, <2>3, <2>4 DEF UseInv
<1>8. ASSUME UNCHANGED vars PROVE UseInv'
  BY <1>8 DEF vars, fiberState, tls, UseInv, TypeOK, FiberTypeOK, Attached,
     CurrentIsExecuting, OneThreadPerFiber, MainContextKept, SuspendedIsResumable, Executing
<1> QED
  BY <1>1, <1>2, <1>3, <1>4, <1>5, <1>6, <1>7, <1>8, UseBack DEF Next

\* UseInv holds however the threads interleave in fiber.cpp.
THEOREM UseInvariance == Spec => []UseInv
BY UseInitial, UseStep, PTL DEF Spec

\* Without a scheduler, fibers can be passed between any number of threads
\* with call() and back() (fiber.cpp): each is on one thread at a time, each
\* thread's pointers name the stack it executes on, and what is left suspended
\* can be resumed.
THEOREM FibersSafe ==
    Spec => [](TypeOK /\ CurrentIsExecuting /\ OneThreadPerFiber
               /\ MainContextKept /\ SuspendedIsResumable)
<1>1. UseInv => TypeOK /\ CurrentIsExecuting /\ OneThreadPerFiber
                /\ MainContextKept /\ SuspendedIsResumable
  BY DEF UseInv
<1> QED
  BY <1>1, UseInvariance, PTL
=============================================================================
