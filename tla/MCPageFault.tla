---------------------------- MODULE MCPageFault ----------------------------
(***************************************************************************)
(* PageFault for TLC, with 3 entries a table: root slot 0 is the I/O       *)
(* gigapage, slot 1 (pages 9-17) the SRAM, the pool at 10-13, slot 2       *)
(* (18-26) the tests' pages, in two level-0 tables.                        *)
(***************************************************************************)
EXTENDS PageFault

Call(va, pa, perm, valid) == [va |-> va, pa |-> pa, perm |-> perm, valid |-> valid]

MCMapCalls ==
    {Call(18, 14, {"R", "W"}, FALSE), Call(18, 15, {"R"}, TRUE),
     Call(19, 14, {"X"}, TRUE), Call(21, 16, {"R", "W", "U"}, TRUE)}
Do(va, kind, action) == [va |-> va, kind |-> kind, action |-> action]
MCAccesses ==
    {Do(18, k, a) : k \in {"load", "store"}, a \in {0, 1}}
    \cup {Do(18, "fetch", 0), Do(19, "load", 2), Do(18, "fetch", 1), Do(21, "load", 1)}
MCWatched == {18, 21}
=============================================================================
