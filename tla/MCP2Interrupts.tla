--------------------------- MODULE MCP2Interrupts ---------------------------
(* P2Interrupts for TLC: QEMU's and Spike's CLINT come up with mtimecmp = 0. *)
EXTENDS P2Interrupts

MCResetCmp == {0}
=============================================================================
