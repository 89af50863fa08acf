----------------------------- MODULE MCZephyrP1 -----------------------------
(* ZephyrP1 for TLC, with 16 entries a table: root slot 0 is the MMIO       *)
(* gigapage, slot 1 (pages 256-511) the kernel: pool 256-263, .bss pages    *)
(* 264-270, where the image ends, short of its megapage; k_mem_map's region *)
(* from 272.  Slot 3 is the tests'.                                         *)
EXTENDS ZephyrP1

MCWatched == {VA(0, 0), VA(0, 7), VA(1, 4), 272}
MCMaxTests == [s \in {"1A", "1B", "1C", "1D"} |-> IF s = "1B" THEN 2 ELSE 3]
=============================================================================
