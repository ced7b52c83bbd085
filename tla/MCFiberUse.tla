----------------------------- MODULE MCFiberUse -----------------------------
(* Small instances of FiberUse for TLC. *)
EXTENDS FiberUse

CONSTANTS t1, t2, f1, f2

TwoThreads == {t1, t2}
TwoFibers == {f1, f2}
=============================================================================
