---------------------------- MODULE MCTrapPath ----------------------------
(* TrapPath for TLC.                                                       *)
EXTENDS TrapPath

\* QEMU resets mtimecmp to 0.
MCResetCmp == {0}
=============================================================================
