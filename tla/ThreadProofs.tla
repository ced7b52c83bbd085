---------------------------- MODULE ThreadProofs ----------------------------
(***************************************************************************)
(* Proof that ThreadInv is an invariant of Thread, for any number of       *)
(* Thread objects, whether or not pthread_create can fail. It is          *)
(* inductive object by object: the objects share nothing.                  *)
(***************************************************************************)
EXTENDS Thread, TLAPS

\* Every step of an owner or of an OS thread keeps the types.
LEMMA ThreadTypes == TypeOK /\ [Next]_vars => TypeOK'
<1> SUFFICES ASSUME TypeOK, [Next]_vars PROVE TypeOK'
  OBVIOUS
<1> USE DEF TypeOK, object
<1>1. ASSUME NEW h \in Handles, Create(h) PROVE TypeOK'
  BY <1>1 DEF Create
<1>2. ASSUME NEW h \in Handles, CreateThrows(h) PROVE TypeOK'
  BY <1>2 DEF CreateThrows
<1>3. ASSUME NEW h \in Handles, CtorReturns(h) PROVE TypeOK'
  BY <1>3 DEF CtorReturns
<1>4. ASSUME NEW h \in Handles, Join(h) PROVE TypeOK'
  BY <1>4 DEF Join
<1>5. ASSUME NEW h \in Handles, JoinReturns(h) PROVE TypeOK'
  BY <1>5 DEF JoinReturns
<1>6. ASSUME NEW h \in Handles, JoinAgain(h) PROVE TypeOK'
  BY <1>6 DEF JoinAgain
<1>7. ASSUME NEW h \in Handles, Destroy(h) PROVE TypeOK'
  BY <1>7 DEF Destroy
<1>8. ASSUME NEW h \in Handles, RunInit(h) PROVE TypeOK'
  BY <1>8 DEF RunInit
<1>9. ASSUME NEW h \in Handles, RunNotifies(h) PROVE TypeOK'
  BY <1>9 DEF RunNotifies
<1>10. ASSUME NEW h \in Handles, RunSwaps(h) PROVE TypeOK'
  BY <1>10 DEF RunSwaps
<1>11. ASSUME NEW h \in Handles, RunCalls(h) PROVE TypeOK'
  BY <1>11 DEF RunCalls
<1>12. ASSUME NEW h \in Handles, RunReturns(h) PROVE TypeOK'
  BY <1>12 DEF RunReturns
<1>13. CASE UNCHANGED vars
  BY <1>13 DEF vars
<1> QED
  BY <1>1, <1>2, <1>3, <1>4, <1>5, <1>6, <1>7, <1>8, <1>9, <1>10, <1>11, <1>12, <1>13 DEF Next, Run

\* Every step keeps each object in step with its OS thread.
LEMMA ThreadStep == ThreadInv /\ [Next]_vars => ThreadInv'
<1> SUFFICES ASSUME ThreadInv, [Next]_vars PROVE ThreadInv'
  OBVIOUS
<1>t. TypeOK /\ TypeOK'
  BY ThreadTypes DEF ThreadInv
<1> SUFFICES ASSUME NEW g \in Handles PROVE Lockstep(g)'
  BY <1>t DEF ThreadInv
<1>l. Lockstep(g)
  BY DEF ThreadInv
<1> USE <1>t, <1>l DEF TypeOK, Lockstep, object
<1>1. ASSUME NEW h \in Handles, Create(h) PROVE Lockstep(g)'
  BY <1>1 DEF Create
<1>2. ASSUME NEW h \in Handles, CreateThrows(h) PROVE Lockstep(g)'
  BY <1>2 DEF CreateThrows
<1>3. ASSUME NEW h \in Handles, CtorReturns(h) PROVE Lockstep(g)'
  BY <1>3 DEF CtorReturns
<1>4. ASSUME NEW h \in Handles, Join(h) PROVE Lockstep(g)'
  BY <1>4 DEF Join
<1>5. ASSUME NEW h \in Handles, JoinReturns(h) PROVE Lockstep(g)'
  BY <1>5 DEF JoinReturns
<1>6. ASSUME NEW h \in Handles, JoinAgain(h) PROVE Lockstep(g)'
  BY <1>6 DEF JoinAgain
<1>7. ASSUME NEW h \in Handles, Destroy(h) PROVE Lockstep(g)'
  BY <1>7 DEF Destroy
<1>8. ASSUME NEW h \in Handles, RunInit(h) PROVE Lockstep(g)'
  BY <1>8 DEF RunInit
<1>9. ASSUME NEW h \in Handles, RunNotifies(h) PROVE Lockstep(g)'
  BY <1>9 DEF RunNotifies
<1>10. ASSUME NEW h \in Handles, RunSwaps(h) PROVE Lockstep(g)'
  BY <1>10 DEF RunSwaps
<1>11. ASSUME NEW h \in Handles, RunCalls(h) PROVE Lockstep(g)'
  BY <1>11 DEF RunCalls
<1>12. ASSUME NEW h \in Handles, RunReturns(h) PROVE Lockstep(g)'
  BY <1>12 DEF RunReturns
<1>13. CASE UNCHANGED vars
  BY <1>13 DEF vars
<1> QED
  BY <1>1, <1>2, <1>3, <1>4, <1>5, <1>6, <1>7, <1>8, <1>9, <1>10, <1>11, <1>12, <1>13 DEF Next, Run

\* ThreadInv holds however owners and OS threads interleave in thread.cpp.
THEOREM ThreadInvariance == Spec => []ThreadInv
<1>1. Init => ThreadInv
  BY DEF Init, ThreadInv, TypeOK, Lockstep
<1> QED
  BY <1>1, ThreadStep, PTL DEF Spec

\* The constructor's handshake, join() and the destructor of thread.cpp, for
\* any number of threads and every interleaving with their owners.
THEOREM ThreadSafe ==
    Spec => [](TypeOK /\ ConstructedIsInitialised /\ JoinedMeansDone /\ NothingLeftJoinable)
<1>1. ThreadInv => TypeOK /\ ConstructedIsInitialised /\ JoinedMeansDone /\ NothingLeftJoinable
  BY DEF ThreadInv, TypeOK, Lockstep, ConstructedIsInitialised, JoinedMeansDone, NothingLeftJoinable
<1> QED
  BY <1>1, ThreadInvariance, PTL
=============================================================================
