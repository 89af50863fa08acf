------------------------------ MODULE P1Faults ------------------------------
(***************************************************************************)
(* The MMU phases of the bare-metal suite (tests/p1a_mmu_enable.c,         *)
(* p1b_fault_gen.c, p1c_fault_handle.c, p1d_tlb_ptw.c) as sequences of the *)
(* operations of PageFault they perform and the assertions they make.      *)
(*                                                                         *)
(* Tables have 8 entries: page VA(i, j) is entry j of table i under root   *)
(* slot 3, where the tests put their addresses; SRAM is slot 2.  A data    *)
(* pattern is identified with the frame it was written to.                 *)
(***************************************************************************)
EXTENDS PageFault, Sequences

VARIABLES
    phase,   \* the phase this binary runs: "1A", "1B", "1C" or "1D"
    ip       \* index of its next operation

allvars == <<vars, phase, ip>>

VA(i, j) == 3 * Span(2) + i * N + j
SRAM(i) == SramSlot * Span(2) + i

-----------------------------------------------------------------------------
(***************************************************************************)
(* Operations.  Eq: ASSERT_EQ, test_assert or verify_fault, which fail the *)
(* phase with code c unless the field has one of the values vs.            *)
(***************************************************************************)
Map(va, pa, perm, valid) == <<"map", va, pa, perm, valid>>
Raw(va, level, bits, ppn) == <<"raw", va, level, bits, ppn>>
Edit(va, pa) == <<"edit", va, pa>>
FenceAll == <<"fence all">>
FenceAddr(va) == <<"fence", va>>
Do(kind, va, action, cleared) == <<"access", kind, va, action, cleared>>
Eq(field, vs, c) == <<"eq", field, vs, c>>

Both == {"fault_count", "scause"}
Count == {"fault_count"}

P1A ==
    << Do("store", SRAM(32), 0, {}), Do("load", SRAM(32), 0, {}),
       Eq("got", {SRAM(32)}, 11),
       Map(VA(0, 0), SRAM(48), {"R", "W"}, TRUE), FenceAll,
       Do("store", VA(0, 0), 0, {}), Eq("got", {SRAM(48)}, 12),
       Do("load", VA(0, 0), 0, {}), Eq("got", {SRAM(48)}, 13),
       Map(VA(0, 1), SRAM(48), {"R", "X"}, TRUE), FenceAll,
       Do("fetch", VA(0, 1), 0, {}) >>

\* One test of phase 1B: a mapping that forbids the access, and its fault.
Fails(map, kind, va, action, cause, c) ==
    << map, FenceAll, Do(kind, va, action, Both),
       Eq("fault_count", {1}, c), Eq("scause", {cause}, c + 1) >>
    \o (IF kind = "fetch" THEN << >> ELSE << Eq("stval", {va}, c + 2) >>)

\* P1B.1 to P1B.3: V = 0
P1B_Invalid ==
       Fails(Map(VA(0, 0), SRAM(40), {"R", "W"}, FALSE), "load", VA(0, 0), 1, 13, 110)
    \o Fails(Map(VA(0, 1), SRAM(41), {"R", "W"}, FALSE), "store", VA(0, 1), 1, 15, 120)
    \o Fails(Map(VA(0, 3), SRAM(43), {"R", "X"}, FALSE), "fetch", VA(0, 3), 0, 12, 130)

\* P1B.4 to P1B.7: a missing permission, or a user page
P1B_Permission ==
       Fails(Map(VA(0, 4), SRAM(44), {"X"}, TRUE), "load", VA(0, 4), 1, 13, 140)
    \o Fails(Map(VA(0, 5), SRAM(45), {"R"}, TRUE), "store", VA(0, 5), 1, 15, 150)
    \o Fails(Map(VA(0, 6), SRAM(46), {"R"}, TRUE), "fetch", VA(0, 6), 0, 12, 160)
    \o Fails(Map(VA(0, 7), SRAM(47), {"R", "W", "U"}, TRUE), "load", VA(0, 7), 1, 13, 170)

\* P1B.8
P1B_Misaligned ==
    Fails(Raw(VA(4, 0), 1, {"V", "R", "W", "A", "D"}, SRAM(1)),
          "load", VA(4, 0), 1, 13, 180)

P1B == P1B_Invalid \o P1B_Permission \o P1B_Misaligned

\* P1C.1 to P1C.3: fix and retry a load, a store, a fetch
P1C_Fix ==
    << Map(VA(0, 0), SRAM(48), {"R", "W"}, FALSE), FenceAll,
       Do("load", VA(0, 0), 0, Count),
       Eq("fault_count", {1}, 210), Eq("scause", {13}, 211), Eq("got", {SRAM(48)}, 212),
       Map(VA(0, 1), SRAM(49), {"R"}, TRUE), FenceAll,
       Do("store", VA(0, 1), 0, Count),
       Eq("fault_count", {1}, 220), Eq("scause", {15}, 221), Eq("got", {SRAM(49)}, 222),
       Map(VA(0, 2), SRAM(50), {"R"}, TRUE), FenceAll,
       Do("fetch", VA(0, 2), 0, Count),
       Eq("fault_count", {1}, 230), Eq("scause", {12}, 231) >>

\* P1C.4, with 2 pages for its 8
P1C_Sequence ==
    << Map(VA(1, 0), SRAM(52), {"R", "W"}, FALSE),
       Map(VA(1, 1), SRAM(53), {"R", "W"}, FALSE), FenceAll,
       Do("load", VA(1, 0), 0, Count), Eq("got", {SRAM(52)}, 240),
       Do("load", VA(1, 1), 0, {}), Eq("got", {SRAM(53)}, 241),
       Eq("fault_count", {2}, 250) >>

\* P1C.5: A = D = 0, Svadu or Svade
P1C_AD ==
    << Raw(VA(1, 4), 0, {"V", "R", "W"}, SRAM(54)), FenceAll,
       Do("load", VA(1, 4), 0, Count),
       Eq("svade", {13}, 261), Eq("got", {SRAM(54)}, 262) >>

P1C == P1C_Fix \o P1C_Sequence \o P1C_AD

\* P1D.1: a fence for one address
P1D_Targeted ==
    << Map(VA(0, 0), SRAM(56), {"R", "W"}, TRUE),
       Map(VA(0, 1), SRAM(57), {"R", "W"}, TRUE), FenceAll,
       Do("load", VA(0, 0), 0, {}), Eq("got", {SRAM(56)}, 310),
       Do("load", VA(0, 1), 0, {}), Eq("got", {SRAM(57)}, 311),
       Edit(VA(0, 0), SRAM(58)), FenceAddr(VA(0, 0)),
       Do("load", VA(0, 0), 0, {}), Eq("got", {SRAM(58)}, 312),
       Do("load", VA(0, 1), 0, {}), Eq("got", {SRAM(57)}, 313) >>

\* P1D.2: no fence between the edit and the load
P1D_Stale ==
    << Map(VA(0, 2), SRAM(60), {"R", "W"}, TRUE), FenceAll,
       Do("load", VA(0, 2), 0, {}), Eq("got", {SRAM(60)}, 320),
       Edit(VA(0, 2), SRAM(61)),
       Do("load", VA(0, 2), 0, {}), Eq("got", {SRAM(60), SRAM(61)}, 321),
       FenceAddr(VA(0, 2)),
       Do("load", VA(0, 2), 0, {}), Eq("got", {SRAM(61)}, 322) >>

\* P1D.3, with 2 pages for its 128
P1D_Thrash ==
    << Map(VA(1, 0), SRAM(32), {"R", "W"}, TRUE),
       Map(VA(1, 1), SRAM(33), {"R", "W"}, TRUE), FenceAll,
       Do("load", VA(1, 0), 0, {}), Eq("got", {SRAM(32)}, 330),
       Do("load", VA(1, 1), 0, {}), Eq("got", {SRAM(33)}, 331),
       Do("load", VA(1, 0), 0, {}), Eq("got", {SRAM(32)}, 460),
       Do("load", VA(1, 1), 0, {}), Eq("got", {SRAM(33)}, 461) >>

\* P1D.4 and P1D.5: a megapage, and the gigapage of the kernel
P1D_Superpages ==
    << Raw(VA(5, 0), 1, {"V", "R", "W", "X", "A", "D"}, SRAM(0)), FenceAll,
       Do("load", VA(5, 0), 0, {}), Eq("got", {SRAM(0)}, 500),
       Do("load", VA(5, 1), 0, {}),
       Do("store", VA(5, 7), 0, {}), Do("load", VA(5, 7), 0, {}),
       Eq("got", {SRAM(7)}, 501),
       Eq("sram leaf", {TRUE}, 510) >>

\* P1D.6
P1D_Refault ==
    << Map(VA(2, 0), SRAM(62), {"R", "W"}, FALSE), FenceAll,
       Do("load", VA(2, 0), 0, Count),
       Eq("fault_count", {1}, 560), Eq("got", {SRAM(62)}, 561) >>

P1D == P1D_Targeted \o P1D_Stale \o P1D_Thrash \o P1D_Superpages \o P1D_Refault

Program == CASE phase = "1A" -> P1A [] phase = "1B" -> P1B
             [] phase = "1C" -> P1C [] phase = "1D" -> P1D

\* P1C.5 looks at scause only if the load faulted.
Observed(f) ==
    CASE f = "got"         -> got
      [] f = "fault_count" -> fault_count
      [] f = "scause"      -> scause
      [] f = "stval"       -> stval
      [] f = "svade"       -> IF fault_count = 0 THEN 13 ELSE scause
      [] f = "sram leaf"   -> LET p == pt[PoolBase][SramSlot] IN Has(p, "V") /\ XWR(p)

-----------------------------------------------------------------------------
P1Init == Init /\ phase \in {"1A", "1B", "1C", "1D"} /\ ip = 1

Arg(i) == Program[ip][i]

\* The next operation is op, and ends within this step.
At(op) ==
    /\ Between /\ ip <= Len(Program) /\ Program[ip][1] = op
    /\ ip' = ip + 1 /\ UNCHANGED phase

DoMap == At("map") /\ pt_map_page(Arg(2), Arg(3), Arg(4), Arg(5))
DoRaw == At("raw") /\ MapAt(Arg(2), Arg(3), [bits |-> Arg(4), ppn |-> Arg(5)])
DoEdit == At("edit") /\ EditLeaf(Arg(2), Arg(3))
DoFenceAll == At("fence all") /\ sfence_vma_all
DoFenceAddr == At("fence") /\ sfence_vma_addr(Arg(2))
DoAccess == At("access") /\ Access(Arg(3), Arg(2), Arg(4), Arg(5))

Assert ==
    /\ At("eq")
    /\ code' = IF Observed(Arg(2)) \in Arg(3) THEN 0 ELSE Arg(4)
    /\ UNCHANGED <<mem, hw, cur, pc, handler_action, trap, got, history>>

Test ==
    \/ DoMap \/ DoRaw \/ DoEdit \/ DoFenceAll \/ DoFenceAddr \/ DoAccess \/ Assert
    \/ (Hart /\ UNCHANGED <<phase, ip>>)

Walker == \E va \in Watched : Fill(va) /\ UNCHANGED <<phase, ip>>

P1Next == Test \/ Walker

P1Spec == P1Init /\ [][P1Next]_allvars

-----------------------------------------------------------------------------
\* On hardware that follows the architecture no assertion of the four phases
\* fails, no fetch is skipped and no table write leaves the pool: with Svadu or
\* Svade, and whatever the TLB caches when, the unfenced P1D.2 included.
P1Sound == code = 0
=============================================================================
