----------------------------- MODULE MCSv39Mmu -----------------------------
(***************************************************************************)
(* Sv39Mmu for TLC, with 4 entries a table: root slot 0 is the MMIO        *)
(* gigapage, slot 1 (pages 16-31) the kernel, whose image (16-23) holds    *)
(* the pool, slot 2 the tests' raw 4 KB pages and megapage, slot 3 a raw   *)
(* gigapage.  As NOTES.md asks of callers, a range of pages is used with   *)
(* one page size only.                                                     *)
(***************************************************************************)
EXTENDS Sv39Mmu

MCMapCalls ==
    {[va |-> 27, pa |-> 40, n |-> 2, perm |-> {"R", "W"}],  \* crosses a table
     [va |-> 27, pa |-> 41, n |-> 1, perm |-> {"R"}]}       \* remaps one page
MCUnmapCalls == {[va |-> 27, n |-> 2], [va |-> 38, n |-> 1], [va |-> 50, n |-> 1]}
MCRawCalls ==
    {[va |-> 32, pa |-> 44, V |-> 0, perm |-> {"R"}, level |-> 0],
     [va |-> 36, pa |-> 16, V |-> 1, perm |-> {"R"}, level |-> 1],
     [va |-> 48, pa |-> 16, V |-> 1, perm |-> {"X"}, level |-> 2]}
MCEditCalls == {[va |-> 32, pa |-> 45, perm |-> {"R", "W"}]}
MCWatched == {27, 32, 39}
=============================================================================
