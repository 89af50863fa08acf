----------------------------- MODULE MCP1Faults -----------------------------
(* P1Faults for TLC; the TLB may hold the pages that the tests remap, fix   *)
(* or cover with a superpage.                                               *)
EXTENDS P1Faults

MCWatched == {VA(0, 0), VA(0, 2), VA(1, 1), VA(5, 7)}
=============================================================================
