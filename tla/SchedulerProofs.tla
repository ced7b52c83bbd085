-------------------------- MODULE SchedulerProofs --------------------------
(***************************************************************************)
(* SchedulerInv!IInv is inductive, for every set of threads and tasks.     *)
(***************************************************************************)
EXTENDS SchedulerInv, SequenceTheorems, TLAPS

\* push_back(f) on a list without f: the list keeps its other elements, stays
\* free of duplicates and is not empty (scheduler.cpp, schedule).
LEMMA PushBack ==
    ASSUME NEW S, NEW s \in Seq(S), NEW f \in S, IsInjective(s)
    PROVE  /\ Append(s, f) \in Seq(S)
           /\ Append(s, f) # <<>>
           /\ ToSet(Append(s, f)) = ToSet(s) \cup {f}
           /\ f \notin ToSet(s) => IsInjective(Append(s, f))
<1>1. /\ Append(s, f) \in Seq(S)
      /\ Append(s, f) # <<>>
      /\ Len(Append(s, f)) = Len(s) + 1
      /\ \A i \in 1 .. Len(s) : Append(s, f)[i] = s[i]
      /\ Append(s, f)[Len(s) + 1] = f
      /\ DOMAIN s = 1 .. Len(s)
      /\ DOMAIN Append(s, f) = 1 .. Len(s) + 1
      /\ Len(s) \in Nat
  BY AppendProperties, LenProperties
<1>2. ToSet(Append(s, f)) = ToSet(s) \cup {f}
  BY <1>1 DEF ToSet
<1>3. f \notin ToSet(s) => IsInjective(Append(s, f))
  BY <1>1 DEF ToSet, IsInjective
<1> QED  BY <1>1, <1>2, <1>3

\* back() and pop_back() take one element out (scheduler.cpp, run).
LEMMA PopBack ==
    ASSUME NEW S, NEW s \in Seq(S), s # <<>>, IsInjective(s)
    PROVE  /\ Last(s) \in ToSet(s)
           /\ Last(s) \in S
           /\ Front(s) \in Seq(S)
           /\ ToSet(Front(s)) = ToSet(s) \ {Last(s)}
           /\ IsInjective(Front(s))
<1>1. Len(s) \in Nat /\ Len(s) # 0 /\ DOMAIN s = 1 .. Len(s) /\ Len(s) \in DOMAIN s
  BY LenProperties, EmptySeq
<1>2. /\ Front(s) \in Seq(S)
      /\ DOMAIN Front(s) = 1 .. Len(s) - 1
      /\ \A i \in 1 .. Len(s) - 1 : Front(s)[i] = s[i]
  BY <1>1, SubSeqProperties, LenProperties DEF Front
<1>3. Last(s) \in ToSet(s) /\ Last(s) \in S
  BY <1>1, ElementOfSeq DEF Last, ToSet
<1>4. ToSet(Front(s)) = ToSet(s) \ {Last(s)}
  BY <1>1, <1>2 DEF ToSet, Last, IsInjective
<1>5. IsInjective(Front(s))
  BY <1>1, <1>2 DEF IsInjective
<1> QED  BY <1>2, <1>3, <1>4, <1>5

\* An empty list has no elements.
LEMMA EmptyList == ToSet(<<>>) = {} /\ IsInjective(<<>>)
  BY DEF ToSet, IsInjective

----------------------------------------------------------------------------
(* One lemma per action: the action keeps the invariant.                   *)

\* The constructor keeps the invariant when the caller's thread takes no part.
LEMMA ConstructInv ==
    ASSUME IInv, ~UseCaller, Construct
    PROVE  IInv'
<1> USE FiberAssumption, SchedulerAssumption
    DEF IInv, Objects, Workers, Tasks, TypeOK, FiberTypeOK, Construct, Goto,
        fiberState, schedState, tls, GetThis
<1>1. TypeOK'
  BY DEF Labels, State
<1>2. Places' /\ Pointers' /\ Contexts' /\ OneThreadPerFiber'
  BY DEF Places, OwnerLabels, RunLabels, TaskLabels, Pointers, NoFiberLabels,
     Contexts, OneThreadPerFiber
<1>3. Ownership'
  BY DEF Places, Ownership, Queued, Held, Executing
<1>4. Handshakes' /\ Recorded' /\ Phases'
  BY DEF Handshakes, Places, Recorded, Phases, Queued
<1>5. StopWakesAll' /\ NoLostWakeup' /\ proc' # "exit"
  BY DEF StopWakesAll, NoLostWakeup, Awake, Places
<1> QED  BY <1>1, <1>2, <1>3, <1>4, <1>5

\* start() opens the scheduler: no thread of an earlier start is left.
LEMMA StartInv ==
    ASSUME IInv, Start
    PROVE  IInv'
<1> USE FiberAssumption, SchedulerAssumption
    DEF IInv, Objects, Workers, Tasks, TypeOK, FiberTypeOK, Start, Goto, fiberState,
        schedState, tls
<1>a. \A w \in Workers : pc[w] = "none" /\ thrs[w] = "none"
  BY DEF Phases, Recorded
<1>1. TypeOK'
  BY DEF Labels
<1>2. Places' /\ Pointers' /\ Contexts' /\ OneThreadPerFiber'
  BY DEF Places, OwnerLabels, RunLabels, TaskLabels, Pointers, NoFiberLabels,
     Contexts, OneThreadPerFiber
<1>3. Ownership'
  BY DEF Places, Ownership, Queued, Held, Executing
<1>4. Handshakes' /\ Recorded' /\ Phases'
  BY <1>a DEF Handshakes, Places, Recorded, Phases, Queued
<1>5. StopWakesAll' /\ NoLostWakeup' /\ proc' # "exit"
  BY DEF StopWakesAll, NoLostWakeup, Awake, Places
<1> QED  BY <1>1, <1>2, <1>3, <1>4, <1>5

\* start() creates one thread and waits for it alone.
LEMMA SpawnInv ==
    ASSUME NEW w \in Workers, IInv, Spawn(w)
    PROVE  IInv'
<1> USE FiberAssumption, SchedulerAssumption
    DEF IInv, Objects, Workers, Tasks, TypeOK, FiberTypeOK, Spawn, Goto, fiberState,
        schedState, tls
<1>a. \A u \in Workers : sem[u] = 0 /\ pc[u] # "born" /\ (m_threads[u] = "null" => pc[u] = "none")
  BY DEF Handshakes, Recorded
<1>1. TypeOK'
  BY DEF Labels
<1>2. Places' /\ Pointers' /\ Contexts' /\ OneThreadPerFiber'
  BY DEF Places, OwnerLabels, RunLabels, TaskLabels, Pointers, NoFiberLabels,
     Contexts, OneThreadPerFiber
<1>3. Ownership'
  BY DEF Places, Ownership, Queued, Held, Executing
<1>4. Handshakes' /\ Recorded' /\ Phases'
  BY <1>a DEF Handshakes, Places, Recorded, Phases, Queued
<1>5. StopWakesAll' /\ NoLostWakeup' /\ proc' # "exit"
  BY DEF StopWakesAll, NoLostWakeup, Awake, Places
<1> QED  BY <1>1, <1>2, <1>3, <1>4, <1>5

\* The semaphore start() waits on is the new thread's, so its slot is set.
LEMMA HandshakeInv ==
    ASSUME NEW w \in Workers, IInv, Handshake(w)
    PROVE  IInv'
<1> USE FiberAssumption, SchedulerAssumption
    DEF IInv, Objects, Workers, Tasks, TypeOK, FiberTypeOK, Handshake, Goto,
        fiberState, schedState, tls
<1>1. TypeOK'
  BY DEF Labels
<1>2. Places'
  BY DEF Places, OwnerLabels, RunLabels, TaskLabels
<1>3. Pointers'
  BY DEF Places, Pointers, RunLabels, TaskLabels, NoFiberLabels
<1>4. Contexts'
  BY DEF Places, Contexts, RunLabels, TaskLabels
<1>5. OneThreadPerFiber'
  BY DEF Places, OneThreadPerFiber
<1>6. Ownership'
  BY DEF Places, Ownership, Queued, Held, Executing
<1>7. Handshakes'
  BY DEF Handshakes, Places
<1>8. Recorded'
  BY DEF Recorded, Places, Handshakes
<1>9. Phases'
  BY DEF Phases, Places, Queued
<1>10. StopWakesAll' /\ NoLostWakeup' /\ proc' # "exit"
  BY DEF StopWakesAll, NoLostWakeup, Awake, Places
<1> QED  BY <1>1, <1>2, <1>3, <1>4, <1>5, <1>6, <1>7, <1>8, <1>9, <1>10

\* A failing pthread_create leaves no thread unrecorded.
LEMMA SpawnFailsInv ==
    ASSUME IInv, SpawnFails
    PROVE  IInv'
<1> USE FiberAssumption, SchedulerAssumption
    DEF IInv, Objects, Workers, Tasks, TypeOK, FiberTypeOK, SpawnFails, Goto,
        fiberState, schedState, tls
<1>1. TypeOK'
  BY DEF Labels
<1>2. Places' /\ Pointers' /\ Contexts' /\ OneThreadPerFiber'
  BY DEF Places, OwnerLabels, RunLabels, TaskLabels, Pointers, NoFiberLabels,
     Contexts, OneThreadPerFiber
<1>3. Ownership'
  BY DEF Places, Ownership, Queued, Held, Executing
<1>4. Handshakes' /\ Recorded' /\ Phases'
  BY DEF Handshakes, Places, Recorded, Phases, Queued
<1>5. StopWakesAll' /\ NoLostWakeup' /\ proc' # "exit"
  BY DEF StopWakesAll, NoLostWakeup, Awake, Places
<1> QED  BY <1>1, <1>2, <1>3, <1>4, <1>5

\* The end of start() changes no other thread's state.
LEMMA StartReturnsInv ==
    ASSUME IInv, StartReturns
    PROVE  IInv'
<1> USE FiberAssumption, SchedulerAssumption
    DEF IInv, Objects, Workers, Tasks, TypeOK, FiberTypeOK, StartReturns, Goto,
        fiberState, schedState, tls
<1>1. TypeOK'
  BY DEF Labels
<1>2. Places' /\ Pointers' /\ Contexts' /\ OneThreadPerFiber'
  BY DEF Places, OwnerLabels, RunLabels, TaskLabels, Pointers, NoFiberLabels,
     Contexts, OneThreadPerFiber
<1>3. Ownership'
  BY DEF Places, Ownership, Queued, Held, Executing
<1>4. Handshakes' /\ Recorded' /\ Phases'
  BY DEF Handshakes, Places, Recorded, Phases, Queued
<1>5. StopWakesAll' /\ NoLostWakeup' /\ proc' # "exit"
  BY DEF StopWakesAll, NoLostWakeup, Awake, Places
<1> QED  BY <1>1, <1>2, <1>3, <1>4, <1>5

\* stop() sets m_stopping: exactly the listed fibers become due.
LEMMA StopInv ==
    ASSUME IInv, Stop
    PROVE  IInv'
<1> USE FiberAssumption, SchedulerAssumption
    DEF IInv, Objects, Workers, Tasks, TypeOK, FiberTypeOK, Stop, Goto, fiberState,
        schedState, tls
<1>a. Queued \subseteq Fibers
  BY DEF Ownership
<1>1. TypeOK'
  BY <1>a DEF Labels
<1>2. Places' /\ Pointers' /\ Contexts' /\ OneThreadPerFiber'
  BY DEF Places, OwnerLabels, RunLabels, TaskLabels, Pointers, NoFiberLabels,
     Contexts, OneThreadPerFiber
<1>3. Ownership'
  BY DEF Places, Ownership, Queued, Held, Executing
<1>4. Handshakes' /\ Recorded' /\ Phases'
  BY DEF Handshakes, Places, Recorded, Phases, Queued
<1>5. StopWakesAll' /\ NoLostWakeup' /\ proc' # "exit"
  BY DEF StopWakesAll, NoLostWakeup, Awake, Places
<1> QED  BY <1>1, <1>2, <1>3, <1>4, <1>5

\* stop()'s notify_all wakes every sleeping worker.
LEMMA StopNotifyInv ==
    ASSUME IInv, StopNotify
    PROVE  IInv'
<1> USE FiberAssumption, SchedulerAssumption
    DEF IInv, Objects, Workers, Tasks, TypeOK, FiberTypeOK, StopNotify, Goto,
        fiberState, schedState, tls
<1>1. TypeOK'
  BY DEF Labels
<1>2. Places' /\ Pointers' /\ Contexts' /\ OneThreadPerFiber'
  BY DEF Places, OwnerLabels, RunLabels, TaskLabels, Pointers, NoFiberLabels,
     Contexts, OneThreadPerFiber
<1>3. Ownership'
  BY DEF Places, Ownership, Queued, Held, Executing
<1>4. Handshakes' /\ Recorded' /\ Phases'
  BY DEF Handshakes, Places, Recorded, Phases, Queued
<1>5. StopWakesAll' /\ NoLostWakeup' /\ proc' # "exit"
  BY DEF StopWakesAll, NoLostWakeup, Awake, Places
<1> QED  BY <1>1, <1>2, <1>3, <1>4, <1>5

\* stop() takes over every recorded thread; at least one worker has to drain.
LEMMA StopSwapInv ==
    ASSUME IInv, ~UseCaller, StopSwap
    PROVE  IInv'
<1> USE FiberAssumption, SchedulerAssumption
    DEF IInv, Objects, Workers, Tasks, TypeOK, FiberTypeOK, StopSwap, Goto,
        fiberState, schedState, tls
<1>1. TypeOK'
  BY DEF Labels
<1>2. Places' /\ Pointers' /\ Contexts' /\ OneThreadPerFiber'
  BY DEF Places, OwnerLabels, RunLabels, TaskLabels, Pointers, NoFiberLabels,
     Contexts, OneThreadPerFiber
<1>3. Ownership'
  BY DEF Places, Ownership, Queued, Held, Executing
<1>4. Handshakes' /\ Recorded' /\ Phases'
  BY DEF Handshakes, Places, Recorded, Phases, Queued
<1>5. StopWakesAll' /\ NoLostWakeup' /\ proc' # "exit"
  BY DEF StopWakesAll, NoLostWakeup, Awake, Places
<1> QED  BY <1>1, <1>2, <1>3, <1>4, <1>5

\* A joined worker had found the list empty, so nothing is due any more.
LEMMA JoinInv ==
    ASSUME NEW w \in Workers, IInv, Join(w)
    PROVE  IInv'
<1> USE FiberAssumption, SchedulerAssumption
    DEF IInv, Objects, Workers, Tasks, TypeOK, FiberTypeOK, Join, Goto, fiberState,
        schedState, tls
<1>1. TypeOK'
  BY DEF Labels
<1>2. Places' /\ Pointers' /\ Contexts' /\ OneThreadPerFiber'
  BY DEF Places, OwnerLabels, RunLabels, TaskLabels, Pointers, NoFiberLabels,
     Contexts, OneThreadPerFiber
<1>3. Ownership'
  BY DEF Places, Ownership, Queued, Held, Executing
<1>4. Handshakes' /\ Recorded' /\ Phases'
  BY DEF Handshakes, Places, Recorded, Phases, Queued
<1>5. StopWakesAll' /\ NoLostWakeup' /\ proc' # "exit"
  BY DEF StopWakesAll, NoLostWakeup, Awake, Places
<1> QED  BY <1>1, <1>2, <1>3, <1>4, <1>5

\* Joining a null Thread::ptr ends the process in a segfault, not in exit().
LEMMA JoinNullInv ==
    ASSUME IInv, JoinNull
    PROVE  IInv'
<1> USE FiberAssumption, SchedulerAssumption
    DEF IInv, Objects, Workers, Tasks, TypeOK, FiberTypeOK, JoinNull, Goto,
        fiberState, schedState, tls, NullDereference
<1>1. TypeOK'
  BY DEF Labels
<1>2. Places' /\ Pointers' /\ Contexts' /\ OneThreadPerFiber'
  BY DEF Places, OwnerLabels, RunLabels, TaskLabels, Pointers, NoFiberLabels,
     Contexts, OneThreadPerFiber
<1>3. Ownership'
  BY DEF Places, Ownership, Queued, Held, Executing
<1>4. Handshakes' /\ Recorded' /\ Phases'
  BY DEF Handshakes, Places, Recorded, Phases, Queued
<1>5. StopWakesAll' /\ NoLostWakeup' /\ proc' # "exit"
  BY DEF StopWakesAll, NoLostWakeup, Awake, Places
<1> QED  BY <1>1, <1>2, <1>3, <1>4, <1>5

\* stop() returns only when all threads are joined and nothing is due.
LEMMA StopReturnsInv ==
    ASSUME IInv, StopReturns
    PROVE  IInv'
<1> USE FiberAssumption, SchedulerAssumption
    DEF IInv, Objects, Workers, Tasks, TypeOK, FiberTypeOK, StopReturns, Goto,
        fiberState, schedState, tls
<1>1. TypeOK'
  BY DEF Labels
<1>2. Places' /\ Pointers' /\ Contexts' /\ OneThreadPerFiber'
  BY DEF Places, OwnerLabels, RunLabels, TaskLabels, Pointers, NoFiberLabels,
     Contexts, OneThreadPerFiber
<1>3. Ownership'
  BY DEF Places, Ownership, Queued, Held, Executing
<1>4. Handshakes' /\ Recorded' /\ Phases'
  BY DEF Handshakes, Places, Recorded, Phases, Queued
<1>5. StopWakesAll' /\ NoLostWakeup' /\ proc' # "exit"
  BY DEF StopWakesAll, NoLostWakeup, Awake, Places
<1> QED  BY <1>1, <1>2, <1>3, <1>4, <1>5

\* notify_one wakes a worker whenever one sleeps.
LEMMA NotifyInv ==
    ASSUME NEW t \in Threads, IInv, Notify(t)
    PROVE  IInv'
<1> USE FiberAssumption, SchedulerAssumption
    DEF IInv, Objects, Workers, Tasks, TypeOK, FiberTypeOK, AfterNotify, fiberState,
        schedState, tls
<1>a. pc[t] = "notify" /\ UNCHANGED <<fiberState, schedState>>
  BY DEF Notify, Places, OwnerLabels, RunLabels, TaskLabels
<1>b. \A u \in Threads : pc[u] = "waiting" => u \in Workers /\ u # t
  BY <1>a DEF Places, OwnerLabels
<1>c. PICK W \in SUBSET {u \in Threads : pc[u] = "waiting"} :
        /\ (\E u \in Threads : pc[u] = "waiting") => W # {}
        /\ pc' = [u \in Threads |-> IF u = t THEN AfterNotify(t)
                                 ELSE IF u \in W THEN "lock" ELSE pc[u]]
  <2>1. CASE \E w \in Threads : /\ pc[w] = "waiting"
                                /\ pc' = [pc EXCEPT ![t] = AfterNotify(t), ![w] = "lock"]
    <3>1. PICK w \in Threads : /\ pc[w] = "waiting"
                               /\ pc' = [pc EXCEPT ![t] = AfterNotify(t), ![w] = "lock"]
      BY <2>1
    <3>2. pc' = [u \in Threads |-> IF u = t THEN AfterNotify(t)
                                   ELSE IF u \in {w} THEN "lock" ELSE pc[u]]
      BY <1>b, <3>1 DEF TypeOK, FiberTypeOK
    <3> {w} \in SUBSET {u \in Threads : pc[u] = "waiting"}
      BY <3>1
    <3> WITNESS {w} \in SUBSET {u \in Threads : pc[u] = "waiting"}
    <3> QED  BY <3>1, <3>2
  <2>2. CASE /\ \A w \in Threads : pc[w] # "waiting"
             /\ Goto(t, AfterNotify(t))
    <3>1. pc' = [u \in Threads |-> IF u = t THEN AfterNotify(t)
                                   ELSE IF u \in {} THEN "lock" ELSE pc[u]]
      BY <2>2 DEF Goto, TypeOK, FiberTypeOK
    <3> WITNESS {} \in SUBSET {u \in Threads : pc[u] = "waiting"}
    <3> QED  BY <2>2, <3>1
  <2> QED  BY <2>1, <2>2 DEF Notify
<1>1. TypeOK'
  BY <1>a, <1>b, <1>c DEF Labels
<1>2. Places' /\ Pointers' /\ Contexts' /\ OneThreadPerFiber'
  BY <1>a, <1>b, <1>c DEF Places, OwnerLabels, RunLabels, TaskLabels, Pointers,
     NoFiberLabels, Contexts, OneThreadPerFiber
<1>3. Ownership'
  BY <1>a, <1>b, <1>c DEF Places, Ownership, Queued, Held, Executing
<1>4. Handshakes' /\ Recorded' /\ Phases'
  BY <1>a, <1>b, <1>c DEF Handshakes, Places, Recorded, Phases, Queued
<1>5. StopWakesAll' /\ NoLostWakeup' /\ proc' # "exit"
  BY <1>a, <1>b, <1>c DEF StopWakesAll, NoLostWakeup, Awake, Places
<1> QED  BY <1>1, <1>2, <1>3, <1>4, <1>5

\* Fiber::reset by a client touches a fiber nobody has listed or holds.
LEMMA ResetTaskInv ==
    ASSUME NEW t \in Threads, NEW f \in Tasks, IInv, ResetTask(t, f)
    PROVE  IInv'
<1> USE FiberAssumption, SchedulerAssumption
    DEF IInv, Objects, Workers, Tasks, TypeOK, FiberTypeOK, ResetTask, Goto,
        fiberState, schedState, tls, Reset, Idle
<1>1. TypeOK'
  BY DEF Labels
<1>2. Places' /\ Pointers' /\ Contexts' /\ OneThreadPerFiber'
  BY DEF Places, OwnerLabels, RunLabels, TaskLabels, Pointers, NoFiberLabels,
     Contexts, OneThreadPerFiber
<1>3. Ownership'
  BY DEF Places, Ownership, Queued, Held, Executing
<1>4. Handshakes' /\ Recorded' /\ Phases'
  BY DEF Handshakes, Places, Recorded, Phases, Queued
<1>5. StopWakesAll' /\ NoLostWakeup' /\ proc' # "exit"
  BY DEF StopWakesAll, NoLostWakeup, Awake, Places
<1> QED  BY <1>1, <1>2, <1>3, <1>4, <1>5

\* Thread::run signals the constructor once.
LEMMA ThreadRunInv ==
    ASSUME NEW w \in Workers, IInv, ThreadRun(w)
    PROVE  IInv'
<1> USE FiberAssumption, SchedulerAssumption
    DEF IInv, Objects, Workers, Tasks, TypeOK, FiberTypeOK, ThreadRun, Goto,
        fiberState, schedState, tls
<1>1. TypeOK'
  BY DEF Labels
<1>2. Places' /\ Pointers' /\ Contexts' /\ OneThreadPerFiber'
  BY DEF Places, OwnerLabels, RunLabels, TaskLabels, Pointers, NoFiberLabels,
     Contexts, OneThreadPerFiber
<1>3. Ownership'
  BY DEF Places, Ownership, Queued, Held, Executing
<1>4. Handshakes' /\ Recorded' /\ Phases'
  BY DEF Handshakes, Places, Recorded, Phases, Queued
<1>5. StopWakesAll' /\ NoLostWakeup' /\ proc' # "exit"
  BY DEF StopWakesAll, NoLostWakeup, Awake, Places
<1> QED  BY <1>1, <1>2, <1>3, <1>4, <1>5

\* run() makes the worker's main fiber its scheduler fiber.
LEMMA RunEnterInv ==
    ASSUME NEW w \in Workers, IInv, RunEnter(w)
    PROVE  IInv'
<1> USE FiberAssumption, SchedulerAssumption
    DEF IInv, Objects, Workers, Tasks, TypeOK, FiberTypeOK, schedState
<1>a. t_fiber[w] = NULL
  BY DEF RunEnter, Pointers, NoFiberLabels
<1>b. /\ pc[w] = "boot" /\ pc' = [pc EXCEPT ![w] = "lock"]
      /\ t_fiber' = [t_fiber EXCEPT ![w] = w]
      /\ t_thread_main_fiber' = [t_thread_main_fiber EXCEPT ![w] = w]
      /\ t_scheduler_fiber' = [t_scheduler_fiber EXCEPT ![w] = w]
      /\ m_state' = [m_state EXCEPT ![w] = "EXEC"]
      /\ UNCHANGED <<stack, m_ctx, cur, proc, schedState>>
  BY <1>a DEF RunEnter, GetThis, Goto
<1>1. TypeOK'
  BY <1>b DEF Labels, State
<1>2. Places'
  BY <1>b DEF Places, OwnerLabels, RunLabels, TaskLabels
<1>3. Pointers'
  BY <1>b, SMTT(30) DEF Places, Pointers, RunLabels, TaskLabels, NoFiberLabels
<1>4. Contexts'
  BY <1>b DEF Places, Contexts, RunLabels, TaskLabels
<1>5. OneThreadPerFiber'
  BY <1>b DEF Places, OneThreadPerFiber
<1>6. Ownership'
  BY <1>b DEF Places, Ownership, Queued, Held, Executing
<1>7. Handshakes'
  BY <1>b DEF Handshakes, Places
<1>8. Recorded'
  BY <1>b DEF Recorded, Places
<1>9. Phases'
  BY <1>b DEF Phases, Places, Queued
<1>10. StopWakesAll' /\ NoLostWakeup' /\ proc' # "exit"
  BY <1>b DEF StopWakesAll, NoLostWakeup, Awake, Places
<1> QED  BY <1>1, <1>2, <1>3, <1>4, <1>5, <1>6, <1>7, <1>8, <1>9, <1>10

\* A worker goes to sleep only on an empty list and before m_stopping.
LEMMA RunWaitsInv ==
    ASSUME NEW t \in Threads, IInv, RunWaits(t)
    PROVE  IInv'
<1> USE FiberAssumption, SchedulerAssumption
    DEF IInv, Objects, Workers, Tasks, TypeOK, FiberTypeOK, RunWaits, Goto,
        fiberState, schedState, tls
<1>1. TypeOK'
  BY DEF Labels
<1>2. Places' /\ Pointers' /\ Contexts' /\ OneThreadPerFiber'
  BY DEF Places, OwnerLabels, RunLabels, TaskLabels, Pointers, NoFiberLabels,
     Contexts, OneThreadPerFiber
<1>3. Ownership'
  BY DEF Places, Ownership, Queued, Held, Executing
<1>4. Handshakes' /\ Recorded' /\ Phases'
  BY DEF Handshakes, Places, Recorded, Phases, Queued
<1>5. StopWakesAll' /\ NoLostWakeup' /\ proc' # "exit"
  BY DEF StopWakesAll, NoLostWakeup, Awake, Places
<1> QED  BY <1>1, <1>2, <1>3, <1>4, <1>5

\* A spurious wakeup is harmless.
LEMMA SpuriousWakeupInv ==
    ASSUME NEW t \in Threads, IInv, SpuriousWakeup(t)
    PROVE  IInv'
<1> USE FiberAssumption, SchedulerAssumption
    DEF IInv, Objects, Workers, Tasks, TypeOK, FiberTypeOK, SpuriousWakeup, Goto,
        fiberState, schedState, tls
<1>1. TypeOK'
  BY DEF Labels
<1>2. Places' /\ Pointers' /\ Contexts' /\ OneThreadPerFiber'
  BY DEF Places, OwnerLabels, RunLabels, TaskLabels, Pointers, NoFiberLabels,
     Contexts, OneThreadPerFiber
<1>3. Ownership'
  BY DEF Places, Ownership, Queued, Held, Executing
<1>4. Handshakes' /\ Recorded' /\ Phases'
  BY DEF Handshakes, Places, Recorded, Phases, Queued
<1>5. StopWakesAll' /\ NoLostWakeup' /\ proc' # "exit"
  BY DEF StopWakesAll, NoLostWakeup, Awake, Places
<1> QED  BY <1>1, <1>2, <1>3, <1>4, <1>5

\* back() and pop_back() move one fiber from the list to the worker.
LEMMA RunTakesInv ==
    ASSUME NEW t \in Threads, IInv, RunTakes(t)
    PROVE  IInv'
<1> USE FiberAssumption, SchedulerAssumption
    DEF IInv, Objects, Workers, Tasks, TypeOK, FiberTypeOK, RunTakes, Goto,
        fiberState, schedState, tls
<1>a. t \in Workers
  BY DEF Places, OwnerLabels
<1>b. /\ Last(m_fibers) \in Queued /\ Last(m_fibers) \in Tasks
      /\ Front(m_fibers) \in Seq(Fibers)
      /\ ToSet(Front(m_fibers)) = Queued \ {Last(m_fibers)}
      /\ IsInjective(Front(m_fibers))
  BY PopBack DEF Ownership, Queued
<1>1. TypeOK'
  BY <1>a, <1>b DEF Labels
<1>2. Places' /\ Pointers' /\ Contexts' /\ OneThreadPerFiber'
  BY <1>a, <1>b DEF Places, OwnerLabels, RunLabels, TaskLabels, Pointers,
     NoFiberLabels, Contexts, OneThreadPerFiber
<1>3. Ownership'
  BY <1>a, <1>b DEF Places, Ownership, Queued, Held, Executing
<1>4. Handshakes' /\ Recorded' /\ Phases'
  BY <1>a, <1>b DEF Handshakes, Places, Recorded, Phases, Queued
<1>5. StopWakesAll' /\ NoLostWakeup' /\ proc' # "exit"
  BY <1>a, <1>b DEF StopWakesAll, NoLostWakeup, Awake, Places
<1> QED  BY <1>1, <1>2, <1>3, <1>4, <1>5

\* A worker that leaves with nothing has seen the list empty after stop().
LEMMA RunFindsNothingInv ==
    ASSUME NEW t \in Threads, IInv, RunFindsNothing(t)
    PROVE  IInv'
<1> USE FiberAssumption, SchedulerAssumption
    DEF IInv, Objects, Workers, Tasks, TypeOK, FiberTypeOK, RunFindsNothing, Goto,
        fiberState, schedState, tls
<1>a. t \in Workers
  BY DEF Places, OwnerLabels
<1>1. TypeOK'
  BY DEF Labels
<1>2. Places' /\ Pointers' /\ Contexts' /\ OneThreadPerFiber'
  BY DEF Places, OwnerLabels, RunLabels, TaskLabels, Pointers, NoFiberLabels,
     Contexts, OneThreadPerFiber
<1>3. Ownership'
  BY DEF Places, Ownership, Queued, Held, Executing
<1>4. Handshakes' /\ Recorded' /\ Phases'
  BY EmptyList DEF Handshakes, Places, Recorded, Phases, Queued
<1>5. StopWakesAll' /\ NoLostWakeup' /\ proc' # "exit"
  BY DEF StopWakesAll, NoLostWakeup, Awake, Places
<1> QED  BY <1>1, <1>2, <1>3, <1>4, <1>5

\* What swapIn does, when a worker holds a fiber: its own place is saved, and it
\* continues on the fiber's stack where the fiber stopped.
LEMMA RunSwapsInEffect ==
    ASSUME NEW t \in Threads, IInv, RunSwapsIn(t)
    PROVE  /\ t \in Workers /\ pc[t] = "swapIn"
           /\ stack[t] = t /\ t_scheduler_fiber[t] = t
           /\ fiber[t] \in Tasks /\ fiber[t] # t /\ Held(fiber[t])
           /\ m_ctx[fiber[t]].stack = fiber[t]
           /\ m_ctx[fiber[t]].at \in {"MainFunc", "body"}
           /\ m_ctx' = [m_ctx EXCEPT ![t] = [stack |-> t, at |-> "lock"]]
           /\ stack' = [stack EXCEPT ![t] = fiber[t]]
           /\ pc' = [pc EXCEPT ![t] = m_ctx[fiber[t]].at]
           /\ t_fiber' = [t_fiber EXCEPT ![t] = fiber[t]]
           /\ fiber' = [fiber EXCEPT ![t] = NULL]
           /\ UNCHANGED <<t_thread_main_fiber, t_scheduler_fiber, m_state, cur, proc,
                          m_stopping, m_fibers, m_threads, thrs, sem, due>>
<1> USE FiberAssumption, SchedulerAssumption
    DEF IInv, Objects, Workers, Tasks, TypeOK, FiberTypeOK, schedState
<1>a. t \in Workers /\ pc[t] = "swapIn"
  BY DEF RunSwapsIn, Places, OwnerLabels
<1>b. stack[t] = t /\ t_scheduler_fiber[t] = t
  BY <1>a DEF Places, TaskLabels, Pointers, NoFiberLabels
<1>c. fiber[t] \in Tasks /\ fiber[t] # t /\ Held(fiber[t])
  BY <1>a DEF Pointers, Ownership, Held
<1>d. /\ m_ctx[fiber[t]].stack = fiber[t]
      /\ m_ctx[fiber[t]].at \in {"MainFunc", "body"}
  BY <1>c DEF Contexts, Ownership
<1>e. /\ m_ctx' = [m_ctx EXCEPT ![t] = [stack |-> t, at |-> "lock"]]
      /\ stack' = [stack EXCEPT ![t] = fiber[t]]
      /\ pc' = [pc EXCEPT ![t] = m_ctx[fiber[t]].at]
      /\ t_fiber' = [t_fiber EXCEPT ![t] = fiber[t]]
      /\ fiber' = [fiber EXCEPT ![t] = NULL]
      /\ UNCHANGED <<t_thread_main_fiber, t_scheduler_fiber, m_state, cur, proc,
                     m_stopping, m_fibers, m_threads, thrs, sem, due>>
  <2>1. /\ m_ctx' = [m_ctx EXCEPT ![t_scheduler_fiber[t]] = [stack |-> stack[t], at |-> "lock"]]
        /\ stack' = [stack EXCEPT ![t] = m_ctx'[fiber[t]].stack]
        /\ pc' = [pc EXCEPT ![t] = m_ctx'[fiber[t]].at]
        /\ t_fiber' = [t_fiber EXCEPT ![t] = fiber[t]]
        /\ fiber' = [fiber EXCEPT ![t] = NULL]
        /\ UNCHANGED <<t_thread_main_fiber, t_scheduler_fiber, m_state, cur, proc,
                       m_stopping, m_fibers, m_threads, thrs, sem, due>>
    BY DEF RunSwapsIn, SwapIn, SwapContext
  <2>2. m_ctx'[fiber[t]] = m_ctx[fiber[t]]
    BY <1>b, <1>c, <2>1 DEF TypeOK, FiberTypeOK
  <2>3. m_ctx' = [m_ctx EXCEPT ![t] = [stack |-> t, at |-> "lock"]]
    BY <1>b, <1>d, <2>1, <2>2, Zenon
  <2>4. stack' = [stack EXCEPT ![t] = fiber[t]]
    BY <1>b, <1>d, <2>1, <2>2, Zenon
  <2>5. pc' = [pc EXCEPT ![t] = m_ctx[fiber[t]].at]
    BY <1>b, <1>d, <2>1, <2>2, Zenon
  <2> QED  BY <2>1, <2>3, <2>4, <2>5
<1> QED  BY <1>a, <1>b, <1>c, <1>d, <1>e

\* swapIn moves the held fiber, and no other, onto the worker's stack.
LEMMA RunSwapsInInv ==
    ASSUME NEW t \in Threads, IInv, RunSwapsIn(t)
    PROVE  IInv'
<1> USE FiberAssumption, SchedulerAssumption
    DEF IInv, Objects, Workers, Tasks, TypeOK, FiberTypeOK, schedState
<1>a. t \in Workers /\ pc[t] = "swapIn"
  BY RunSwapsInEffect
<1>b. stack[t] = t /\ t_scheduler_fiber[t] = t
  BY RunSwapsInEffect
<1>c. fiber[t] \in Tasks /\ fiber[t] # t /\ Held(fiber[t])
  BY RunSwapsInEffect
<1>d. /\ m_ctx[fiber[t]].stack = fiber[t]
      /\ m_ctx[fiber[t]].at \in {"MainFunc", "body"}
  BY RunSwapsInEffect
<1>e. /\ m_ctx' = [m_ctx EXCEPT ![t] = [stack |-> t, at |-> "lock"]]
      /\ stack' = [stack EXCEPT ![t] = fiber[t]]
      /\ pc' = [pc EXCEPT ![t] = m_ctx[fiber[t]].at]
      /\ t_fiber' = [t_fiber EXCEPT ![t] = fiber[t]]
      /\ fiber' = [fiber EXCEPT ![t] = NULL]
      /\ UNCHANGED <<t_thread_main_fiber, t_scheduler_fiber, m_state, cur, proc,
                     m_stopping, m_fibers, m_threads, thrs, sem, due>>
  BY RunSwapsInEffect
<1>f. Awake(t)'
  BY <1>a, <1>d, <1>e DEF Awake
<1>1. TypeOK'
  BY <1>a, <1>b, <1>c, <1>d, <1>e DEF Labels
<1>2. Places' /\ Pointers' /\ Contexts' /\ OneThreadPerFiber'
  BY <1>a, <1>b, <1>c, <1>d, <1>e DEF Places, OwnerLabels, RunLabels, TaskLabels,
     Pointers, NoFiberLabels, Contexts, OneThreadPerFiber, Ownership, Executing
<1>3. Ownership'
  BY <1>a, <1>b, <1>c, <1>d, <1>e DEF Places, Ownership, Queued, Held, Executing
<1>4. Handshakes' /\ Recorded' /\ Phases'
  BY <1>a, <1>b, <1>c, <1>d, <1>e DEF Handshakes, Places, Recorded, Phases, Queued
<1>5. StopWakesAll' /\ NoLostWakeup' /\ proc' # "exit"
  BY <1>a, <1>b, <1>c, <1>d, <1>e, <1>f DEF StopWakesAll, NoLostWakeup, Awake, Places
<1> QED  BY <1>1, <1>2, <1>3, <1>4, <1>5

\* A worker leaves run() only after stop().
LEMMA RunBreaksInv ==
    ASSUME NEW t \in Threads, IInv, RunBreaks(t)
    PROVE  IInv'
<1> USE FiberAssumption, SchedulerAssumption
    DEF IInv, Objects, Workers, Tasks, TypeOK, FiberTypeOK, schedState
<1>a. t \in Workers /\ m_stopping
  BY DEF RunBreaks, Places, OwnerLabels, Phases
<1>b. /\ pc[t] = "check" /\ pc' = [pc EXCEPT ![t] = "exited"]
      /\ t_fiber' = [t_fiber EXCEPT ![t] = NULL]
      /\ t_thread_main_fiber' = [t_thread_main_fiber EXCEPT ![t] = NULL]
      /\ t_scheduler_fiber' = [t_scheduler_fiber EXCEPT ![t] = NULL]
      /\ UNCHANGED <<stack, m_ctx, m_state, cur, proc, schedState>>
  BY <1>a DEF RunBreaks, Goto
<1>1. TypeOK'
  BY <1>a, <1>b DEF Labels
<1>2. Places' /\ Pointers' /\ Contexts' /\ OneThreadPerFiber'
  BY <1>a, <1>b DEF Places, OwnerLabels, RunLabels, TaskLabels, Pointers,
     NoFiberLabels, Contexts, OneThreadPerFiber
<1>3. Ownership'
  BY <1>a, <1>b DEF Places, Ownership, Queued, Held, Executing
<1>4. Handshakes' /\ Recorded' /\ Phases'
  BY <1>a, <1>b DEF Handshakes, Places, Recorded, Phases, Queued
<1>5. StopWakesAll' /\ NoLostWakeup' /\ proc' # "exit"
  BY <1>a, <1>b DEF StopWakesAll, NoLostWakeup, Awake, Places
<1> QED  BY <1>1, <1>2, <1>3, <1>4, <1>5

\* MainFunc's local is the fiber whose stack it is on.
LEMMA FiberStartsInv ==
    ASSUME NEW t \in Threads, IInv, FiberStarts(t)
    PROVE  IInv'
<1> USE FiberAssumption, SchedulerAssumption
    DEF IInv, Objects, Workers, Tasks, TypeOK, FiberTypeOK, FiberStarts, Goto,
        fiberState, schedState, tls, MainFunc
<1>a. t \in Workers /\ stack[t] \in Tasks /\ t_fiber[t] = stack[t]
  BY DEF Places, OwnerLabels, RunLabels, NoFiberLabels, Pointers
<1>1. TypeOK'
  BY <1>a DEF Labels
<1>2. Places' /\ Pointers' /\ Contexts' /\ OneThreadPerFiber'
  BY <1>a DEF Places, OwnerLabels, RunLabels, TaskLabels, Pointers, NoFiberLabels,
     Contexts, OneThreadPerFiber
<1>3. Ownership'
  BY <1>a DEF Places, Ownership, Queued, Held, Executing
<1>4. Handshakes' /\ Recorded' /\ Phases'
  BY <1>a DEF Handshakes, Places, Recorded, Phases, Queued
<1>5. StopWakesAll' /\ NoLostWakeup' /\ proc' # "exit"
  BY <1>a DEF StopWakesAll, NoLostWakeup, Awake, Places
<1> QED  BY <1>1, <1>2, <1>3, <1>4, <1>5

\* What Yield does on a worker: the task's place is saved on its own stack, and
\* the worker is back on its own.
LEMMA TaskYieldsEffect ==
    ASSUME NEW t \in Threads, IInv, TaskYields(t)
    PROVE  /\ t \in Workers /\ pc[t] = "body"
           /\ stack[t] \in Tasks
           /\ stack[t] # t
           /\ t_fiber[t] = stack[t]
           /\ t_scheduler_fiber[t] = t
           /\ cur[stack[t]] = stack[t] /\ m_ctx[t].stack = t /\ m_ctx[t].at = "lock"
           /\ m_ctx' = [m_ctx EXCEPT ![stack[t]] = [stack |-> stack[t], at |-> "body"]]
           /\ stack' = [stack EXCEPT ![t] = t]
           /\ pc' = [pc EXCEPT ![t] = "lock"]
           /\ t_fiber' = [t_fiber EXCEPT ![t] = t]
           /\ UNCHANGED <<t_thread_main_fiber, t_scheduler_fiber, m_state, cur, proc, schedState>>
<1> USE FiberAssumption, SchedulerAssumption
    DEF IInv, Objects, Workers, Tasks, TypeOK, FiberTypeOK, schedState
<1>a. t \in Workers /\ pc[t] = "body"
  BY DEF TaskYields, Yield, Places, OwnerLabels, RunLabels, TaskLabels
<1>b. /\ stack[t] \in Tasks
      /\ stack[t] # t
      /\ t_fiber[t] = stack[t]
      /\ t_scheduler_fiber[t] = t
  <2>1. ~(pc[t] \in RunLabels)
    BY <1>a DEF RunLabels
  <2>2. stack[t] \in Tasks
    BY <1>a, <2>1 DEF Places
  <2>3. t_fiber[t] = stack[t] /\ t_scheduler_fiber[t] = t
    BY <1>a DEF Pointers, NoFiberLabels
  <2> QED  BY <2>2, <2>3
<1>c. cur[stack[t]] = stack[t] /\ m_ctx[t].stack = t /\ m_ctx[t].at = "lock"
  BY <1>a, <1>b DEF Contexts
<1>d. /\ m_ctx' = [m_ctx EXCEPT ![stack[t]] = [stack |-> stack[t], at |-> "body"]]
      /\ stack' = [stack EXCEPT ![t] = t]
      /\ pc' = [pc EXCEPT ![t] = "lock"]
      /\ t_fiber' = [t_fiber EXCEPT ![t] = t]
      /\ UNCHANGED <<t_thread_main_fiber, t_scheduler_fiber, m_state, cur, proc, schedState>>
  <2>1. /\ m_ctx' = [m_ctx EXCEPT ![t_fiber[t]] = [stack |-> stack[t], at |-> "body"]]
        /\ stack' = [stack EXCEPT ![t] = m_ctx'[t_scheduler_fiber[t]].stack]
        /\ pc' = [pc EXCEPT ![t] = m_ctx'[t_scheduler_fiber[t]].at]
        /\ t_fiber' = [t_fiber EXCEPT ![t] = t_scheduler_fiber[t]]
        /\ UNCHANGED <<t_thread_main_fiber, t_scheduler_fiber, m_state, cur, proc, schedState>>
    BY DEF TaskYields, Yield, SwapOut, SwapContext
  <2>2. m_ctx'[t] = m_ctx[t]
    BY <1>b, <1>c, <2>1 DEF TypeOK, FiberTypeOK
  <2>3. m_ctx' = [m_ctx EXCEPT ![stack[t]] = [stack |-> stack[t], at |-> "body"]]
    BY <1>b, <1>c, <2>1, <2>2, Zenon
  <2>4. stack' = [stack EXCEPT ![t] = t]
    BY <1>b, <1>c, <2>1, <2>2, Zenon
  <2>5. pc' = [pc EXCEPT ![t] = "lock"]
    BY <1>b, <1>c, <2>1, <2>2, Zenon
  <2>6. t_fiber' = [t_fiber EXCEPT ![t] = t]
    BY <1>b, <1>c, <2>1, <2>2, Zenon
  <2> QED  BY <2>1, <2>3, <2>4, <2>5, <2>6
<1> QED  BY <1>a, <1>b, <1>c, <1>d

\* Yield brings the worker back to the top of run()'s loop.
LEMMA TaskYieldsInv ==
    ASSUME NEW t \in Threads, IInv, TaskYields(t)
    PROVE  IInv'
<1> USE FiberAssumption, SchedulerAssumption
    DEF IInv, Objects, Workers, Tasks, TypeOK, FiberTypeOK, schedState
<1>a. t \in Workers /\ pc[t] = "body"
  BY TaskYieldsEffect
<1>b. /\ stack[t] \in Tasks
      /\ stack[t] # t
      /\ t_fiber[t] = stack[t]
      /\ t_scheduler_fiber[t] = t
  BY TaskYieldsEffect
<1>c. cur[stack[t]] = stack[t] /\ m_ctx[t].stack = t /\ m_ctx[t].at = "lock"
  BY TaskYieldsEffect
<1>d. /\ m_ctx' = [m_ctx EXCEPT ![stack[t]] = [stack |-> stack[t], at |-> "body"]]
      /\ stack' = [stack EXCEPT ![t] = t]
      /\ pc' = [pc EXCEPT ![t] = "lock"]
      /\ t_fiber' = [t_fiber EXCEPT ![t] = t]
      /\ UNCHANGED <<t_thread_main_fiber, t_scheduler_fiber, m_state, cur, proc, schedState>>
  BY TaskYieldsEffect
<1>1. TypeOK'
  BY <1>a, <1>b, <1>c, <1>d DEF Labels
<1>2. Places' /\ Pointers' /\ Contexts' /\ OneThreadPerFiber'
  BY <1>a, <1>b, <1>c, <1>d DEF Places, OwnerLabels, RunLabels, TaskLabels,
     Pointers, NoFiberLabels, Contexts, OneThreadPerFiber
<1>3. Ownership'
  BY <1>a, <1>b, <1>c, <1>d DEF Places, Ownership, Queued, Held, Executing
<1>4. Handshakes' /\ Recorded' /\ Phases'
  BY <1>a, <1>b, <1>c, <1>d DEF Handshakes, Places, Recorded, Phases, Queued
<1>5. StopWakesAll' /\ NoLostWakeup' /\ proc' # "exit"
  BY <1>a, <1>b, <1>c, <1>d DEF StopWakesAll, NoLostWakeup, Awake, Places
<1> QED  BY <1>1, <1>2, <1>3, <1>4, <1>5

\* The end of a callback changes only the fiber's state.
LEMMA TaskEndsInv ==
    ASSUME NEW t \in Threads, NEW s \in {"TERM", "EXCEPT"}, IInv, TaskEnds(t, s)
    PROVE  IInv'
<1> USE FiberAssumption, SchedulerAssumption
    DEF IInv, Objects, Workers, Tasks, TypeOK, FiberTypeOK, TaskEnds, Goto,
        fiberState, schedState, tls, CallbackEnds
<1>1. TypeOK'
  BY DEF Labels, State
<1>2. Places' /\ Pointers' /\ Contexts' /\ OneThreadPerFiber'
  BY DEF Places, OwnerLabels, RunLabels, TaskLabels, Pointers, NoFiberLabels,
     Contexts, OneThreadPerFiber
<1>3. Ownership'
  BY DEF Places, Ownership, Queued, Held, Executing
<1>4. Handshakes' /\ Recorded' /\ Phases'
  BY DEF Handshakes, Places, Recorded, Phases, Queued
<1>5. StopWakesAll' /\ NoLostWakeup' /\ proc' # "exit"
  BY DEF StopWakesAll, NoLostWakeup, Awake, Places
<1> QED  BY <1>1, <1>2, <1>3, <1>4, <1>5

\* What MainFunc's swapOut does: as Yield, at the end of MainFunc.
LEMMA FiberSwapsOutEffect ==
    ASSUME NEW t \in Threads, IInv, FiberSwapsOut(t)
    PROVE  /\ t \in Workers /\ pc[t] = "swapOut"
           /\ stack[t] \in Tasks
           /\ stack[t] # t
           /\ t_fiber[t] = stack[t]
           /\ t_scheduler_fiber[t] = t
           /\ cur[stack[t]] = stack[t] /\ m_ctx[t].stack = t /\ m_ctx[t].at = "lock"
           /\ m_ctx' = [m_ctx EXCEPT ![stack[t]] = [stack |-> stack[t], at |-> "MainFuncEnd"]]
           /\ stack' = [stack EXCEPT ![t] = t]
           /\ pc' = [pc EXCEPT ![t] = "lock"]
           /\ t_fiber' = [t_fiber EXCEPT ![t] = t]
           /\ UNCHANGED <<t_thread_main_fiber, t_scheduler_fiber, m_state, cur, proc, schedState>>
<1> USE FiberAssumption, SchedulerAssumption
    DEF IInv, Objects, Workers, Tasks, TypeOK, FiberTypeOK, schedState
<1>a. t \in Workers /\ pc[t] = "swapOut"
  BY DEF FiberSwapsOut, MainFuncSwapOut, Places, OwnerLabels, RunLabels, TaskLabels
<1>b. /\ stack[t] \in Tasks
      /\ stack[t] # t
      /\ t_fiber[t] = stack[t]
      /\ t_scheduler_fiber[t] = t
  <2>1. ~(pc[t] \in RunLabels)
    BY <1>a DEF RunLabels
  <2>2. stack[t] \in Tasks
    BY <1>a, <2>1 DEF Places
  <2>3. t_fiber[t] = stack[t] /\ t_scheduler_fiber[t] = t
    BY <1>a DEF Pointers, NoFiberLabels
  <2> QED  BY <2>2, <2>3
<1>c. cur[stack[t]] = stack[t] /\ m_ctx[t].stack = t /\ m_ctx[t].at = "lock"
  BY <1>a, <1>b DEF Contexts
<1>d. /\ /\ m_ctx' = [m_ctx EXCEPT ![stack[t]] = [stack |-> stack[t], at |-> "MainFuncEnd"]]
      /\ stack' = [stack EXCEPT ![t] = t]
      /\ pc' = [pc EXCEPT ![t] = "lock"]
      /\ t_fiber' = [t_fiber EXCEPT ![t] = t]
      /\ UNCHANGED <<t_thread_main_fiber, t_scheduler_fiber, m_state, cur, proc, schedState>>
  <2>1. /\ m_ctx' = [m_ctx EXCEPT ![cur[stack[t]]] = [stack |-> stack[t], at |-> "MainFuncEnd"]]
        /\ stack' = [stack EXCEPT ![t] = m_ctx'[t_scheduler_fiber[t]].stack]
        /\ pc' = [pc EXCEPT ![t] = m_ctx'[t_scheduler_fiber[t]].at]
        /\ t_fiber' = [t_fiber EXCEPT ![t] = t_scheduler_fiber[t]]
        /\ UNCHANGED <<t_thread_main_fiber, t_scheduler_fiber, m_state, cur, proc, schedState>>
    BY DEF FiberSwapsOut, MainFuncSwapOut, SwapOut, SwapContext
  <2>2. m_ctx'[t] = m_ctx[t]
    BY <1>b, <1>c, <2>1 DEF TypeOK, FiberTypeOK
  <2>3. m_ctx' = [m_ctx EXCEPT ![stack[t]] = [stack |-> stack[t], at |-> "MainFuncEnd"]]
    BY <1>b, <1>c, <2>1, <2>2, Zenon
  <2>4. stack' = [stack EXCEPT ![t] = t]
    BY <1>b, <1>c, <2>1, <2>2, Zenon
  <2>5. pc' = [pc EXCEPT ![t] = "lock"]
    BY <1>b, <1>c, <2>1, <2>2, Zenon
  <2>6. t_fiber' = [t_fiber EXCEPT ![t] = t]
    BY <1>b, <1>c, <2>1, <2>2, Zenon
  <2> QED  BY <2>1, <2>3, <2>4, <2>5, <2>6
<1> QED  BY <1>a, <1>b, <1>c, <1>d

\* MainFunc's swapOut leaves a finished fiber that nobody has listed or holds.
LEMMA FiberSwapsOutInv ==
    ASSUME NEW t \in Threads, IInv, FiberSwapsOut(t)
    PROVE  IInv'
<1> USE FiberAssumption, SchedulerAssumption
    DEF IInv, Objects, Workers, Tasks, TypeOK, FiberTypeOK, schedState
<1>a. t \in Workers /\ pc[t] = "swapOut"
  BY FiberSwapsOutEffect
<1>b. /\ stack[t] \in Tasks
      /\ stack[t] # t
      /\ t_fiber[t] = stack[t]
      /\ t_scheduler_fiber[t] = t
  BY FiberSwapsOutEffect
<1>c. cur[stack[t]] = stack[t] /\ m_ctx[t].stack = t /\ m_ctx[t].at = "lock"
  BY FiberSwapsOutEffect
<1>d. /\ m_ctx' = [m_ctx EXCEPT ![stack[t]] = [stack |-> stack[t], at |-> "MainFuncEnd"]]
      /\ stack' = [stack EXCEPT ![t] = t]
      /\ pc' = [pc EXCEPT ![t] = "lock"]
      /\ t_fiber' = [t_fiber EXCEPT ![t] = t]
      /\ UNCHANGED <<t_thread_main_fiber, t_scheduler_fiber, m_state, cur, proc, schedState>>
  BY FiberSwapsOutEffect
<1>e. stack[t] \notin Queued /\ ~Held(stack[t])
  BY <1>b DEF Ownership, Held, Executing
<1>1. TypeOK'
  BY <1>a, <1>b, <1>c, <1>d DEF Labels
<1>2. Places' /\ Pointers' /\ Contexts' /\ OneThreadPerFiber'
  BY <1>a, <1>b, <1>c, <1>d DEF Places, OwnerLabels, RunLabels, TaskLabels,
     Pointers, NoFiberLabels, Contexts, OneThreadPerFiber
<1>3. Ownership'
  BY <1>a, <1>b, <1>c, <1>d, <1>e DEF Places, Ownership, Queued, Held, Executing
<1>4. Handshakes' /\ Recorded' /\ Phases'
  BY <1>a, <1>b, <1>c, <1>d DEF Handshakes, Places, Recorded, Phases, Queued
<1>5. StopWakesAll' /\ NoLostWakeup' /\ proc' # "exit"
  BY <1>a, <1>b, <1>c, <1>d DEF StopWakesAll, NoLostWakeup, Awake, Places
<1> QED  BY <1>1, <1>2, <1>3, <1>4, <1>5

\* schedule() lists a fiber that is in no other place.
LEMMA ScheduleInv ==
    ASSUME NEW t \in Threads, NEW f \in Tasks, IInv, Schedule(t, f)
    PROVE  IInv'
<1> USE FiberAssumption, SchedulerAssumption
    DEF IInv, Objects, Workers, Tasks, TypeOK
<1>a. /\ Append(m_fibers, f) \in Seq(Fibers)
      /\ Append(m_fibers, f) # <<>>
      /\ ToSet(Append(m_fibers, f)) = Queued \cup {f}
      /\ IsInjective(Append(m_fibers, f))
  BY PushBack DEF Schedule, Schedulable, Idle, Ownership, Queued
<1>b. m_ctx[f].at # "MainFuncEnd"
  BY DEF Schedule, Schedulable
<1>c. pc' = [pc EXCEPT ![t] = IF m_fibers = <<>> THEN "notify" ELSE pc[t]]
  BY DEF Schedule, Push, Goto
<1>d. \A u \in Threads : pc'[u] = pc[u] \/ (pc[u] \in {"user", "body"} /\ pc'[u] = "notify")
  BY <1>c DEF Schedule, FiberTypeOK
<1>e. /\ due \subseteq ToSet(m_fibers')
      /\ UNCHANGED <<m_stopping, due, m_threads, thrs>>
  BY <1>a DEF Schedule, Push, Phases
<1>1. TypeOK'
  BY <1>a, <1>b DEF FiberTypeOK, Labels, Schedule, Goto, fiberState, schedState,
     tls, Push, Schedulable, Idle
<1>2. Places' /\ Pointers'
  BY DEF FiberTypeOK, Places, OwnerLabels, RunLabels, TaskLabels, Pointers,
     NoFiberLabels, Schedule, Goto, fiberState, schedState, tls, Push, Schedulable,
     Idle
<1>3. Contexts' /\ OneThreadPerFiber'
  BY DEF FiberTypeOK, Places, Contexts, RunLabels, TaskLabels, OneThreadPerFiber,
     Schedule, Goto, fiberState, schedState, tls, Push, Schedulable, Idle
<1>4. Ownership'
  BY <1>a, <1>b DEF FiberTypeOK, Places, Ownership, Queued, Held, Executing,
     Schedule, Goto, fiberState, schedState, tls, Push, Schedulable, Idle
<1>5. Handshakes' /\ Recorded'
  BY DEF FiberTypeOK, Handshakes, Places, Recorded, Schedule, Goto, fiberState,
     schedState, tls, Push, Schedulable, Idle
<1>6. Phases'
  BY <1>d, <1>e DEF Phases, Queued, Places, OwnerLabels
<1>7. StopWakesAll' /\ NoLostWakeup' /\ proc' # "exit"
  BY <1>a, <1>b DEF FiberTypeOK, StopWakesAll, NoLostWakeup, Awake, Places,
     Schedule, Goto, fiberState, schedState, tls, Push, Schedulable, Idle
<1> QED  BY <1>1, <1>2, <1>3, <1>4, <1>5, <1>6, <1>7

----------------------------------------------------------------------------
(* The invariant holds initially and every step keeps it.                  *)

\* The state before the constructor has run satisfies the invariant.
LEMMA InitInv ==
    ASSUME Init
    PROVE  IInv
<1> USE FiberAssumption, SchedulerAssumption
    DEF Init, FiberInit, Objects, Workers, Tasks
<1>1. m_fibers = <<>> /\ Queued = {} /\ IsInjective(m_fibers)
  BY EmptyList DEF Queued
<1>2. TypeOK
  BY DEF TypeOK, FiberTypeOK, Labels, State
<1>3. Places /\ Pointers /\ Contexts /\ OneThreadPerFiber
  BY DEF Places, OwnerLabels, RunLabels, Pointers, NoFiberLabels, Contexts,
         OneThreadPerFiber
<1>4. Ownership
  BY <1>1 DEF Ownership, Held
<1>5. Handshakes /\ Recorded /\ Phases
  BY <1>1 DEF Handshakes, Recorded, Phases
<1>6. StopWakesAll /\ NoLostWakeup /\ proc # "exit"
  BY DEF StopWakesAll, NoLostWakeup
<1> QED  BY <1>2, <1>3, <1>4, <1>5, <1>6 DEF IInv

\* A step that changes nothing keeps the invariant.
LEMMA StutterInv ==
    ASSUME IInv, UNCHANGED vars
    PROVE  IInv'
  BY DEF vars, fiberState, schedState, tls, IInv, TypeOK, FiberTypeOK, Places, Pointers, Contexts, Ownership, OneThreadPerFiber,
         Handshakes, Recorded, Phases, StopWakesAll, NoLostWakeup, Awake,
         Queued, Held, Executing

\* Four actions cannot happen: m_rootFiber is never called, so no thread is on
\* its stack; a task is resumed past MainFunc's end by nobody; and clients do
\* not schedule the fiber they run on.
LEMMA Impossible ==
    ASSUME PlainPool, IInv, NEW t \in Threads
    PROVE  ~StopCallsRoot /\ ~RootBreaks(t) /\ ~FiberRunsOff(t) /\ ~Reschedule(t)
  BY FiberAssumption, SchedulerAssumption
     DEF PlainPool, IInv, Places, OwnerLabels, RunLabels, TaskLabels, Tasks, Workers,
         StopCallsRoot, RootBreaks, FiberRunsOff, MainFuncReturns, Reschedule

\* Every step of the owner, the pool and the clients keeps the invariant.
LEMMA NextInv ==
    ASSUME PlainPool, IInv, Next
    PROVE  IInv'
<1>1. CASE OwnerStep
  <2>1. Main \in Threads /\ ~UseCaller
    BY SchedulerAssumption DEF PlainPool
  <2>2. ~StopCallsRoot
    BY <2>1, Impossible
  <2> QED  BY <1>1, <2>1, <2>2, ConstructInv, StartReturnsInv, StopNotifyInv, StopSwapInv,
              StopReturnsInv, SpawnFailsInv, JoinNullInv, SpawnInv, HandshakeInv, JoinInv
           DEF OwnerStep
<1>2. ASSUME NEW t \in Threads, PoolStep(t)
      PROVE  IInv'
  <2>1. ~RootBreaks(t) /\ ~FiberRunsOff(t)
    BY Impossible
  <2> QED  BY <1>2, <2>1, RunWaitsInv, RunTakesInv, RunFindsNothingInv, RunSwapsInInv,
              RunBreaksInv, FiberStartsInv, TaskYieldsInv, FiberSwapsOutInv, TaskEndsInv,
              NotifyInv
           DEF PoolStep
<1>3. ASSUME NEW w \in Workers, WorkerStep(w)
      PROVE  IInv'
  BY <1>3, ThreadRunInv, RunEnterInv DEF WorkerStep
<1>4. CASE ClientStep
  <2>1. \A t \in Threads : ~Reschedule(t)
    BY Impossible
  <2> QED  BY <1>4, <2>1, StartInv, StopInv, SpuriousWakeupInv, ScheduleInv, ResetTaskInv
           DEF ClientStep
<1> QED  BY <1>1, <1>2, <1>3, <1>4 DEF Next

----------------------------------------------------------------------------
(* The theorems, for every set of threads, producers and tasks, whether or *)
(* not pthread_create may fail.                                            *)

\* The inductive invariant holds throughout every run of a plain pool
\* (constructor, start, stop, schedule and run of scheduler.cpp).
THEOREM Invariance ==
    ASSUME PlainPool
    PROVE  Spec => []IInv
<1>1. Init => IInv
  BY InitInv
<1>2. IInv /\ [Next]_vars => IInv'
  BY NextInv, StutterInv
<1> QED  BY <1>1, <1>2, PTL DEF Spec

\* Every variable keeps its type; no semaphore of a Thread goes below zero.
THEOREM TypeCorrect ==
    ASSUME PlainPool
    PROVE  Spec => []TypeOK
<1>1. IInv => TypeOK
  BY DEF IInv
<1> QED  BY <1>1, Invariance, PTL

\* No two threads ever execute on one fiber's stack, and GetThis() is the
\* fiber a thread really executes: swapIn, swapOut and the list in Scheduler
\* hand each fiber from thread to thread without overlap.
THEOREM ContextsSafe ==
    ASSUME PlainPool
    PROVE  Spec => [](OneThreadPerFiber /\ CurrentIsExecuting)
<1>1. IInv => OneThreadPerFiber /\ CurrentIsExecuting
  <2> SUFFICES ASSUME IInv PROVE OneThreadPerFiber /\ CurrentIsExecuting
    OBVIOUS
  <2>1. OneThreadPerFiber
    BY DEF IInv
  <2>2. CurrentIsExecuting
    BY DEF IInv, Places, Pointers, CurrentIsExecuting
  <2> QED  BY <2>1, <2>2
<1> QED  BY <1>1, Invariance, PTL

\* No worker sleeps on a non-empty list with nobody left to look at it:
\* notifying only on the step from empty to non-empty (schedule) is enough.
THEOREM WakeupsSafe ==
    ASSUME PlainPool
    PROVE  Spec => []NoLostWakeup
<1>1. IInv => NoLostWakeup
  BY DEF IInv
<1> QED  BY <1>1, Invariance, PTL

\* Once stop() has notified, no worker sleeps (stop, and the wait in run).
THEOREM StopWakes ==
    ASSUME PlainPool
    PROVE  Spec => []StopWakesAll
<1>1. IInv => StopWakesAll
  BY DEF IInv
<1> QED  BY <1>1, Invariance, PTL

\* A finished fiber is never resumed past the end of MainFunc, where a null
\* uc_link would end the process.
THEOREM NeverPastTheEnd ==
    ASSUME PlainPool
    PROVE  Spec => []FinishedNeverResumed
<1>1. IInv => FinishedNeverResumed
  BY DEF IInv, Places, OwnerLabels, RunLabels, TaskLabels, FinishedNeverResumed, Workers
<1> QED  BY <1>1, Invariance, PTL

\* When stop() is over, all fibers listed when it was called have been run, no
\* fiber is held or executing, and no worker thread is left.
THEOREM StopSafe ==
    ASSUME PlainPool
    PROVE  Spec => []StopDrains
<1>1. IInv => StopDrains
  <2> SUFFICES ASSUME IInv, Stopped PROVE StopDrains
    BY DEF StopDrains
  <2> USE FiberAssumption, SchedulerAssumption DEF Workers, Tasks
  <2>1. m_stopping /\ pc[Main] = "user"
    BY DEF IInv, Stopped
  <2>2. due = {} /\ \A w \in Workers : pc[w] = "none"
    BY <2>1 DEF IInv, Phases, Recorded
  <2>3. \A t \in Threads : stack[t] = t /\ fiber[t] = NULL
    BY <2>2 DEF IInv, Places, TaskLabels, Pointers
  <2> QED  BY <2>2, <2>3 DEF StopDrains, Executing, Held
<1> QED  BY <1>1, Invariance, PTL
=============================================================================
