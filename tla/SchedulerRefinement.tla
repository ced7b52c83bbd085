------------------------ MODULE SchedulerRefinement ------------------------
(***************************************************************************)
(* The scheduler implements TaskPool, when its owner's thread takes no     *)
(* part (UseCaller = FALSE) and no fiber is scheduled while it still runs  *)
(* ("reschedule" \notin ClientOps). A pthread_create that fails does no    *)
(* harm here: the process is left up or dies of a null dereference.        *)
(***************************************************************************)
EXTENDS Scheduler

\* Where a task is, from the list, the locals of run(), the stacks and the
\* context it has saved.
Status(f) ==
    IF f \in Queued THEN "ready"
    ELSE IF Held(f) \/ Executing(f) THEN "running"
    ELSE CASE m_ctx[f].at = "body" -> "suspended"
           [] m_ctx[f].at = "MainFuncEnd" -> "finished"
           [] OTHER -> "new"

Phase ==
    IF ~m_stopping THEN "open"
    ELSE IF pc[Main] \in {"ctor", "user", "notify"} THEN "stopped"
    ELSE "stopping"

Pool == INSTANCE TaskPool
        WITH status <- [f \in Tasks |-> Status(f)], phase <- Phase

\* Every step of the owner, the workers, the producers and the tasks is a step
\* of TaskPool or invisible there: schedule, run, start and stop of
\* scheduler.cpp with the context switches of fiber.cpp keep its promises.
ImplementsTaskPool == Pool!PoolSpec
=============================================================================
