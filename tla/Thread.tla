------------------------------- MODULE Thread -------------------------------
(***************************************************************************)
(* The thread wrapper of server/thread.{h,cpp}, with the Semaphore of      *)
(* server/mutex.h its constructor waits on. Each Thread object has an      *)
(* owner, who constructs it, may join it and destroys it, and an OS thread *)
(* that executes Thread::run(object); the two race on the object's members.*)
(***************************************************************************)
EXTENDS Integers

CONSTANTS Handles,      \* the Thread objects
          CreateFails   \* may pthread_create fail?

ASSUME ThreadAssumption == CreateFails \in BOOLEAN

VARIABLES
    owner,        \* where each owner is
    os,           \* where each OS thread is in Thread::run
    m_thread,     \* the pthread_t: 0 until it is set
    m_id,         \* the kernel's thread id: -1 until run() stores it
    m_cb,         \* the std::function: "callback" or "empty"
    m_joined,     \* the objects whose m_joined is true
    m_semaphore,
    cb,           \* run()'s local
    calls,        \* history: how often the callback was called
    resource,     \* the kernel's side: none, joinable, detached or reclaimed
    fault         \* has the program done something undefined?

object == <<m_thread, m_id, m_cb, m_joined, m_semaphore>>
vars == <<owner, os, object, cb, calls, resource, fault>>

Init ==
    /\ owner = [h \in Handles |-> "none"]
    /\ os = [h \in Handles |-> "none"]
    /\ m_thread = [h \in Handles |-> 0]
    /\ m_id = [h \in Handles |-> -1]
    /\ m_cb = [h \in Handles |-> "callback"]
    /\ m_joined = {}
    /\ m_semaphore = [h \in Handles |-> 0]
    /\ cb = [h \in Handles |-> "empty"]
    /\ calls = [h \in Handles |-> 0]
    /\ resource = [h \in Handles |-> "none"]
    /\ fault = "none"

----------------------------------------------------------------------------
(* The owner.                                                              *)

\* Thread's constructor up to m_semaphore.wait().
Create(h) ==
    /\ owner[h] = "none"
    /\ owner' = [owner EXCEPT ![h] = "ctor"]
    /\ os' = [os EXCEPT ![h] = "born"]
    /\ m_thread' = [m_thread EXCEPT ![h] = 1]
    /\ resource' = [resource EXCEPT ![h] = "joinable"]
    /\ UNCHANGED <<m_id, m_cb, m_joined, m_semaphore, cb, calls, fault>>

\* It throws: there is no object, and its destructor does not run.
CreateThrows(h) ==
    /\ CreateFails
    /\ owner[h] = "none"
    /\ owner' = [owner EXCEPT ![h] = "thrown"]
    /\ UNCHANGED <<os, object, cb, calls, resource, fault>>

\* Mutant: sem_wait does not block.
CtorReturns_NoWait(h) ==
    /\ owner[h] = "ctor"
    /\ m_semaphore' = [m_semaphore EXCEPT ![h] = @ - 1]
    /\ owner' = [owner EXCEPT ![h] = "owned"]
    /\ UNCHANGED <<os, m_thread, m_id, m_cb, m_joined, cb, calls, resource, fault>>

CtorReturns(h) ==
    /\ owner[h] = "ctor"
    /\ m_semaphore[h] > 0
    /\ m_semaphore' = [m_semaphore EXCEPT ![h] = @ - 1]
    /\ owner' = [owner EXCEPT ![h] = "owned"]
    /\ UNCHANGED <<os, m_thread, m_id, m_cb, m_joined, cb, calls, resource, fault>>

\* Mutant: m_joined is set before pthread_join has returned.
Join_Early(h) ==
    /\ owner[h] = "owned"
    /\ m_thread[h] # 0
    /\ owner' = [owner EXCEPT ![h] = "join"]
    /\ m_joined' = m_joined \cup {h}
    /\ UNCHANGED <<os, m_thread, m_id, m_cb, m_semaphore, cb, calls, resource, fault>>

\* join() up to pthread_join. Nothing clears m_thread, so a second call gets
\* here too.
Join(h) ==
    /\ owner[h] = "owned"
    /\ m_thread[h] # 0
    /\ owner' = [owner EXCEPT ![h] = "join"]
    /\ UNCHANGED <<os, object, cb, calls, resource, fault>>

JoinReturns(h) ==
    /\ owner[h] = "join"
    /\ os[h] = "exited"
    /\ resource[h] = "joinable"
    /\ resource' = [resource EXCEPT ![h] = "reclaimed"]
    /\ m_joined' = m_joined \cup {h}
    /\ owner' = [owner EXCEPT ![h] = "owned"]
    /\ UNCHANGED <<os, m_thread, m_id, m_cb, m_semaphore, cb, calls, fault>>

\* pthread_join on a thread that was joined is undefined: it may fail, and
\* join() throws, or read freed memory.
JoinAgain(h) ==
    /\ owner[h] = "join"
    /\ resource[h] = "reclaimed"
    /\ \/ owner' = [owner EXCEPT ![h] = "owned"] /\ UNCHANGED fault
       \/ fault' = "double_join" /\ UNCHANGED owner
    /\ UNCHANGED <<os, object, cb, calls, resource>>

\* Mutant: the test of m_joined is inverted.
Destroy_IfJoined(h) ==
    /\ owner[h] = "owned"
    /\ resource' = [resource EXCEPT ![h] =
         IF m_thread[h] # 0 /\ h \in m_joined THEN IF os[h] = "exited" THEN "reclaimed" ELSE "detached"
                                       ELSE @]
    /\ owner' = [owner EXCEPT ![h] = "destroyed"]
    /\ UNCHANGED <<os, object, cb, calls, fault>>

\* ~Thread: pthread_detach, at which an exited thread is reclaimed.
Destroy(h) ==
    /\ owner[h] = "owned"
    /\ resource' = [resource EXCEPT ![h] =
         IF m_thread[h] # 0 /\ h \notin m_joined THEN IF os[h] = "exited" THEN "reclaimed" ELSE "detached"
                                        ELSE @]
    /\ owner' = [owner EXCEPT ![h] = "destroyed"]
    /\ UNCHANGED <<os, object, cb, calls, fault>>

----------------------------------------------------------------------------
(* The OS thread: Thread::run.                                             *)

\* Mutant: run() notifies before it has stored its id.
RunInit_NotifiesFirst(h) ==
    /\ os[h] = "born"
    /\ os' = [os EXCEPT ![h] = "initialised"]
    /\ m_semaphore' = [m_semaphore EXCEPT ![h] = @ + 1]
    /\ UNCHANGED <<owner, m_thread, m_id, m_cb, m_joined, cb, calls, resource, fault>>

\* t_thread, t_thread_name, m_id and the kernel's name.
RunInit(h) ==
    /\ os[h] = "born"
    /\ os' = [os EXCEPT ![h] = "initialised"]
    /\ m_id' = [m_id EXCEPT ![h] = 1]
    /\ UNCHANGED <<owner, m_thread, m_cb, m_joined, m_semaphore, cb, calls, resource, fault>>

RunNotifies(h) ==
    /\ os[h] = "initialised"
    /\ os' = [os EXCEPT ![h] = "notified"]
    /\ m_semaphore' = [m_semaphore EXCEPT ![h] = @ + 1]
    /\ UNCHANGED <<owner, m_thread, m_id, m_cb, m_joined, cb, calls, resource, fault>>

\* std::swap(cb, thread->m_cb), on whatever is left of the object.
RunSwaps(h) ==
    /\ os[h] = "notified"
    /\ IF owner[h] = "destroyed"
       THEN /\ fault' = "use_after_destroy"
            /\ UNCHANGED <<os, m_cb, cb>>
       ELSE /\ os' = [os EXCEPT ![h] = "swapped"]
            /\ m_cb' = [m_cb EXCEPT ![h] = cb[h]]
            /\ cb' = [cb EXCEPT ![h] = m_cb[h]]
            /\ UNCHANGED fault
    /\ UNCHANGED <<owner, m_thread, m_id, m_joined, m_semaphore, calls, resource>>

RunCalls(h) ==
    /\ os[h] = "swapped"
    /\ cb[h] = "callback"
    /\ os' = [os EXCEPT ![h] = "returning"]
    /\ calls' = [calls EXCEPT ![h] = @ + 1]
    /\ UNCHANGED <<owner, object, cb, resource, fault>>

\* A detached thread is reclaimed when it ends.
RunReturns(h) ==
    /\ os[h] = "returning"
    /\ os' = [os EXCEPT ![h] = "exited"]
    /\ cb' = [cb EXCEPT ![h] = "empty"]
    /\ resource' = [resource EXCEPT ![h] = IF @ = "detached" THEN "reclaimed" ELSE @]
    /\ UNCHANGED <<owner, object, calls, fault>>

Run(h) == RunInit(h) \/ RunNotifies(h) \/ RunSwaps(h) \/ RunCalls(h) \/ RunReturns(h)

Next ==
    /\ fault = "none"
    /\ \E h \in Handles :
         \/ Create(h) \/ CreateThrows(h) \/ CtorReturns(h)
         \/ Join(h) \/ JoinReturns(h) \/ JoinAgain(h) \/ Destroy(h)
         \/ Run(h)

Spec == Init /\ [][Next]_vars

\* The OS runs every thread that can run; owners that are in the constructor
\* or in join() go on when they can.
Fairness ==
    \A h \in Handles :
      /\ WF_vars(fault = "none" /\ Run(h))
      /\ WF_vars(fault = "none" /\ (CtorReturns(h) \/ JoinReturns(h) \/ JoinAgain(h)))

FairSpec == Spec /\ Fairness

----------------------------------------------------------------------------
(* Properties.                                                             *)

\* Every variable keeps its type; the semaphore's count is never negative.
TypeOK ==
    /\ owner \in [Handles -> {"none", "thrown", "ctor", "owned", "join", "destroyed"}]
    /\ os \in [Handles -> {"none", "born", "initialised", "notified", "swapped",
                           "returning", "exited"}]
    /\ m_thread \in [Handles -> {0, 1}]
    /\ m_id \in [Handles -> {-1, 1}]
    /\ m_cb \in [Handles -> {"callback", "empty"}]
    /\ m_joined \subseteq Handles
    /\ m_semaphore \in [Handles -> Nat]
    /\ cb \in [Handles -> {"callback", "empty"}]
    /\ calls \in [Handles -> Nat]
    /\ resource \in [Handles -> {"none", "joinable", "detached", "reclaimed"}]
    /\ fault \in {"none", "double_join", "use_after_destroy"}

\* Once the constructor has returned, the thread has set its identity: the
\* constructor "waits for the thread's initialisation" (thread.cpp, 29).
ConstructedIsInitialised ==
    \A h \in Handles : owner[h] \in {"owned", "join", "destroyed"} => m_id[h] # -1

\* join() returns only after the callback was called, once, and has returned;
\* and m_joined is set only then.
JoinedMeansDone ==
    \A h \in Handles : h \in m_joined => calls[h] = 1 /\ os[h] = "exited"

\* "Resources are certainly reclaimed" (thread.cpp, 34): no thread is left
\* joinable when its Thread has been destroyed, joined or not.
NothingLeftJoinable ==
    \A h \in Handles : owner[h] = "destroyed" => resource[h] # "joinable"

\* How far the OS thread and its owner can be apart, and what the object's
\* members and the kernel's resource are there.
Lockstep(h) ==
    /\ owner[h] \in {"none", "thrown"} <=> os[h] = "none"
    /\ owner[h] \in {"owned", "join", "destroyed"} =>
         os[h] \in {"notified", "swapped", "returning", "exited"}
    /\ m_thread[h] = 1 <=> os[h] # "none"
    /\ m_id[h] = 1 <=> os[h] \notin {"none", "born"}
    /\ m_semaphore[h] = IF os[h] \in {"notified", "swapped", "returning", "exited"}
                           /\ owner[h] = "ctor" THEN 1 ELSE 0
    /\ calls[h] = IF os[h] \in {"returning", "exited"} THEN 1 ELSE 0
    /\ h \in m_joined => os[h] = "exited" /\ resource[h] = "reclaimed"
    /\ owner[h] = "destroyed" => resource[h] \in {"detached", "reclaimed"}
    /\ owner[h] \in {"none", "thrown"} => resource[h] = "none"
    /\ owner[h] \in {"ctor", "owned", "join"} /\ h \notin m_joined => resource[h] = "joinable"

\* The inductive invariant of Thread.
ThreadInv == TypeOK /\ \A h \in Handles : Lockstep(h)

\* A thread whose object was destroyed is reclaimed in the end.
DestroyedIsReclaimed ==
    \A h \in Handles :
      owner[h] = "destroyed" ~> (resource[h] = "reclaimed" \/ fault # "none")

\* run() takes the callback out of the object "so that it is not [touched] at
\* destruction" (thread.cpp, 50): destroying a Thread that was not joined is
\* safe at any time after its constructor returned.
NoUseAfterDestroy == fault # "use_after_destroy"
=============================================================================
