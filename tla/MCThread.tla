------------------------------ MODULE MCThread ------------------------------
(* Small instances of Thread for TLC. *)
EXTENDS Thread, TLC

CONSTANTS h1, h2

TwoHandles == {h1, h2}
OneHandle == {h1}
=============================================================================
