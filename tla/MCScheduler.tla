---------------------------- MODULE MCScheduler ----------------------------
(* Small instances of Scheduler for TLC. *)
EXTENDS SchedulerRefinement, SchedulerInv

CONSTANTS main, p1, w1, w2, f1, f2, root

OneWorker == {main, w1}
TwoWorkers == {main, w1, w2}
ProducerAndOneWorker == {main, p1, w1}
ProducerAndTwoWorkers == {main, p1, w1, w2}
TwoTasks == {root, f1, f2}
NoProducer == {}
OneProducer == {p1}
NoOps == {}
ResumeAndReset == {"resume", "reset"}
AllOps == {"resume", "reset", "reschedule"}

\* Workers and tasks are interchangeable (safety runs only).
WorkersAndTasks == Permutations({w1, w2}) \cup Permutations({f1, f2})
=============================================================================
