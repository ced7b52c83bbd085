------------------------------ MODULE TaskPool ------------------------------
(***************************************************************************)
(* What the scheduler promises its clients, without threads, locks,        *)
(* notifications or contexts: every task is in one place at a time, tasks  *)
(* run only while the pool is open or being stopped, and the pool is       *)
(* stopped only when no task runs and all that were ready when the stop    *)
(* was requested have had their turn.                                      *)
(***************************************************************************)

CONSTANT Tasks

VARIABLES status,  \* of each task
          phase,   \* of the pool
          due      \* ready when the stop was requested, not run since

poolVars == <<status, phase, due>>

Move(f, from, to) ==
    /\ status[f] \in from
    /\ status' = [status EXCEPT ![f] = to]

PoolInit ==
    /\ status = [f \in Tasks |-> "new"]
    /\ phase = "stopped"
    /\ due = {}

Submit(f) == Move(f, {"new", "suspended"}, "ready") /\ UNCHANGED <<phase, due>>

Begin(f) ==
    /\ phase # "stopped"
    /\ Move(f, {"ready"}, "running")
    /\ due' = due \ {f}
    /\ UNCHANGED phase

Suspend(f) == Move(f, {"running"}, "suspended") /\ UNCHANGED <<phase, due>>

Finish(f) == Move(f, {"running"}, "finished") /\ UNCHANGED <<phase, due>>

Recycle(f) == Move(f, {"finished"}, "new") /\ UNCHANGED <<phase, due>>

Open ==
    /\ phase = "stopped"
    /\ phase' = "open"
    /\ UNCHANGED <<status, due>>

RequestStop ==
    /\ phase = "open"
    /\ phase' = "stopping"
    /\ due' = {f \in Tasks : status[f] = "ready"}
    /\ UNCHANGED status

Close ==
    /\ phase = "stopping"
    /\ due = {}
    /\ \A f \in Tasks : status[f] # "running"
    /\ phase' = "stopped"
    /\ UNCHANGED <<status, due>>

PoolNext ==
    \/ \E f \in Tasks : Submit(f) \/ Begin(f) \/ Suspend(f) \/ Finish(f) \/ Recycle(f)
    \/ Open \/ RequestStop \/ Close

PoolSpec == PoolInit /\ [][PoolNext]_poolVars
=============================================================================
