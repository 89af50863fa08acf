------------------------------ MODULE ZephyrP1 ------------------------------
(***************************************************************************)
(* The MMU suites of zephyr-suite (p1a_mmu_enable, p1b_fault_gen,          *)
(* p1c_fault_handle, p1d_tlb_ptw) over Sv39Mmu: the hart's accesses, the   *)
(* resumable page-fault hook of the port (fatal.c, mmu.c), the suites'     *)
(* fatal-error handlers, and the tests as sequences of what they do and    *)
(* assert.  Each suite is an image of its own; its tests run once each, in *)
(* any order, on tables that persist from one to the next.                 *)
(*                                                                         *)
(* Page VA(i, j) is entry j of level-0 table i under root slot 3, where    *)
(* the tests' addresses lie.  A data pattern is identified with the frame  *)
(* it is written to, Bp(i) a page of the suite's .bss.                     *)
(***************************************************************************)
EXTENDS Sv39Mmu, Sequences

CONSTANTS
    VmPages,     \* the pages that k_mem_map hands out
    MaxTests     \* bound: tests of each suite run in one boot

ASSUME VmAssumption == /\ VmPages \subseteq VPages 
                       /\ MaxTests \in [{"1A", "1B", "1C", "1D"} -> Nat]
\* P1D.4 needs an image that one megapage covers; nothing in the code checks it.
ASSUME ImageFits == ImageSize > 1 /\ ImageSize <= N

VARIABLES
    svadu,       \* platform: the hart updates A and D itself (Svadu), or
                 \* faults when they are clear (Svade)
    suite, ran,  \* the image, and the tests of it that have begun
    todo,        \* the running test's operations that are left
    expect,      \* <<scause, stval>> while expect_fault is set, or NoFault
    fixup,       \* mmu_fault_fixup # NULL
    fix_count,
    pending,     \* a resolved fault between the PTE store and its sfence.vma
    got,         \* the frame the last access reached
    kva,         \* what the test's k_mem_map returned
    failed,      \* some test failed
    mode         \* the A/D mode P1C.5 printed

tstate == <<suite, ran, todo, expect, fixup, fix_count, pending, got, kva, failed, mode>>
zvars == <<vars, svadu, tstate>>

NoFault == <<>>
VA(i, j) == 3 * Span(2) + i * N + j
Bp(i) == PoolBase + NumTables + i
P == Span(3)     \* stands for the page in kva
FixWrap == 8     \* bound: fix_count counts modulo 8

-----------------------------------------------------------------------------
(***************************************************************************)
(* Operations of a test.                                                   *)
(***************************************************************************)
RW == {"R", "W"}
AD == {"A", "D"}
Raw(va, pa, V, perm, level) ==
    [op |-> "raw", va |-> va, pa |-> pa, V |-> V, perm |-> perm, level |-> level]
Map(va, pa, perm) == [op |-> "map", va |-> va, pa |-> pa, n |-> 1, perm |-> perm]
Unmap(va) == [op |-> "unmap", va |-> va, n |-> 1]
KMap(perm) == [op |-> "kmap", perm |-> perm]
Do(kind, va) == [op |-> "access", kind |-> kind, va |-> va]
Poke(va, V, perm, ppn) ==
    [op |-> "poke", va |-> va, pte |-> [V |-> V, perm |-> perm, ppn |-> ppn]]
FenceAll == [op |-> "fence", vas |-> VPages]
FenceAddr(va) == [op |-> "fence", vas |-> {va}]
Expect(f) == [op |-> "expect", fault |-> f]
SetFixup == [op |-> "fixup"]
Got(frames) == [op |-> "got", frames |-> frames]
Count(n) == [op |-> "count", n |-> n]
PteIs(va, has, lacks) == [op |-> "pte", va |-> va, has |-> has, lacks |-> lacks]
SameLeaf(va, wa) == [op |-> "same", va |-> va, wa |-> wa]
Unreachable == [op |-> "unreachable"]
PrintSvadu == [op |-> "svadu"]

\* P1A.1: the identity map
P1A_1 == <<Do("store", Bp(0)), Do("load", Bp(0)), Got({Bp(0)})>>
\* P1A.2: alias of a frame, written and read both ways
P1A_2 ==
    <<Map(VA(0, 0), Bp(0), RW), Do("store", VA(0, 0)), Got({Bp(0)}),
      Do("load", Bp(0)), Got({Bp(0)}), Do("load", VA(0, 0)), Got({Bp(0)}),
      Unmap(VA(0, 0))>>
P1A_3 ==
    <<Map(VA(0, 1), Bp(0), {"R", "X"}), Do("fetch", VA(0, 1)), Got({Bp(0)}),
      Unmap(VA(0, 1))>>

\* One test of P1B: what it sets up, then the access that must fault
Faults(setup, kind, va, cause) ==
    setup \o <<Expect(<<cause, va>>), Do(kind, va), Unreachable>>

P1B_1 == Faults(<<Raw(VA(0, 0), Bp(0), 0, RW \cup AD, 0)>>, "load", VA(0, 0), 13)
P1B_1b ==
    Faults(<<Map(VA(0, 7), Bp(0), RW), Do("store", VA(0, 7)), Got({Bp(0)}),
             Poke(VA(0, 7), 0, RW \cup AD, Bp(0)), FenceAll>>, "load", VA(0, 7), 13)
P1B_2 == Faults(<<Raw(VA(0, 1), Bp(0), 0, RW \cup AD, 0)>>, "store", VA(0, 1), 15)
P1B_3 == Faults(<<Raw(VA(0, 2), Bp(1), 0, {"R", "X"} \cup AD, 0)>>, "fetch", VA(0, 2), 12)
P1B_4 == Faults(<<Raw(VA(0, 3), Bp(0), 1, {"X"} \cup AD, 0)>>, "load", VA(0, 3), 13)
P1B_5 == Faults(<<Raw(VA(0, 4), Bp(0), 1, {"R"} \cup AD, 0)>>, "store", VA(0, 4), 15)
P1B_5b == Faults(<<KMap({"R"}), Do("load", P)>>, "store", P, 15)
P1B_6 == Faults(<<Raw(VA(0, 5), Bp(1), 1, {"R"} \cup AD, 0)>>, "fetch", VA(0, 5), 12)
\* k_mem_map clears the page unless K_MEM_MAP_UNINIT is given
P1B_6b == Faults(<<KMap(RW), Do("store", P)>>, "fetch", P, 12)
P1B_7 == Faults(<<Raw(VA(0, 6), Bp(0), 1, RW \cup {"U"} \cup AD, 0)>>, "load", VA(0, 6), 13)
P1B_8 ==
    Faults(<<Raw(VA(4, 0), PoolBase, 1, RW \cup AD, 1),
             Poke(VA(4, 0), 1, RW \cup AD, PoolBase + 1), FenceAll>>,
           "load", VA(4, 0), 13)
P1B_9 ==
    Faults(<<KMap(RW), Do("store", P), Do("store", P), Do("load", P), Unmap(P)>>,
           "load", P, 13)

P1C_1 ==
    <<Raw(VA(0, 0), Bp(0), 0, RW, 0), SetFixup, Do("load", VA(0, 0)),
      Count(1), Got({Bp(0)})>>
P1C_2 ==
    <<Raw(VA(0, 1), Bp(1), 1, {"R"}, 0), SetFixup, Do("store", VA(0, 1)),
      Count(1), Got({Bp(1)})>>
P1C_3 ==
    <<Raw(VA(0, 2), Bp(2), 1, {"R"}, 0), SetFixup, Do("fetch", VA(0, 2)), Count(1)>>
\* with 2 pages for its 8
P1C_4 ==
    <<Raw(VA(1, 0), Bp(3), 0, RW, 0), Raw(VA(1, 1), Bp(4), 0, RW, 0), SetFixup,
      Do("load", VA(1, 0)), Got({Bp(3)}), Do("load", VA(1, 1)), Got({Bp(4)}), Count(2)>>
P1C_5 ==
    <<Raw(VA(1, 4), Bp(5), 1, RW, 0), Expect(<<13, VA(1, 4)>>), Do("load", VA(1, 4)),
      Expect(NoFault), Got({Bp(5)}), PteIs(VA(1, 4), {"A"}, {}), PrintSvadu>>

\* leaf(pa, PTE_R | PTE_W) stored through the pointer
Repoint(va, pa) == Poke(va, 1, RW \cup AD, pa)

P1D_1 ==
    <<Raw(VA(0, 0), Bp(0), 1, RW \cup AD, 0), Raw(VA(0, 1), Bp(1), 1, RW \cup AD, 0),
      Do("load", VA(0, 0)), Got({Bp(0)}), Do("load", VA(0, 1)), Got({Bp(1)}),
      Repoint(VA(0, 0), Bp(2)), FenceAddr(VA(0, 0)),
      Do("load", VA(0, 0)), Got({Bp(2)}), Do("load", VA(0, 1)), Got({Bp(1)})>>
P1D_2 ==
    <<Raw(VA(0, 7), Bp(3), 1, RW \cup AD, 0), Do("load", VA(0, 7)), Got({Bp(3)}),
      Repoint(VA(0, 7), Bp(4)), Do("load", VA(0, 7)), Got({Bp(3), Bp(4)}),
      FenceAddr(VA(0, 7)), Do("load", VA(0, 7)), Got({Bp(4)})>>
\* with 2 pages for its 128
P1D_3 ==
    LET pass == <<Do("load", VA(1, 0)), Got({Bp(5)}), Do("load", VA(1, 1)), Got({Bp(6)})>>
    IN  <<Raw(VA(1, 0), Bp(5), 1, RW \cup AD, 0), Raw(VA(1, 1), Bp(6), 1, RW \cup AD, 0)>>
        \o pass \o pass
\* a read-only megapage over the image, compared with the identity map at four
\* offsets of the span up to z_mapped_end, then read at its far end
SameAt(off) ==
    <<Do("load", VA(5, 0) + off), Got({ImageStart + off}),
      Do("load", ImageStart + off), Got({ImageStart + off})>>
P1D_4 ==
    <<Raw(VA(5, 0), ImageStart, 1, {"R"} \cup AD, 1), Do("load", VA(5, 0))>>
    \o SameAt(0) \o SameAt(1) \o SameAt(ImageSize \div 2) \o SameAt(ImageSize - 1)
    \o <<Do("load", VA(5, N - 1)), PteIs(VA(5, 0), {"R"}, {"W"}),
         SameLeaf(VA(5, 0), VA(5, N - 1)), Unmap(VA(5, 0))>>
\* UART and CLINT under one leaf of the root
P1D_5 == <<PteIs(2, {"R"}, {}), SameLeaf(2, N)>>

Tests(s) ==
    CASE s = "1A" -> <<P1A_1, P1A_2, P1A_3>>
      [] s = "1B" -> <<P1B_1, P1B_1b, P1B_2, P1B_3, P1B_4, P1B_5, P1B_5b, P1B_6,
                       P1B_6b, P1B_7, P1B_8, P1B_9>>
      [] s = "1C" -> <<P1C_1, P1C_2, P1C_3, P1C_4, P1C_5>>
      [] s = "1D" -> <<P1D_1, P1D_2, P1D_3, P1D_4, P1D_5>>

-----------------------------------------------------------------------------
ZInit ==
    /\ Init
    /\ svadu \in BOOLEAN
    /\ suite \in {"1A", "1B", "1C", "1D"}
    /\ ran = {} /\ todo = <<>> /\ expect = NoFault
    /\ fixup = FALSE /\ fix_count = 0 /\ pending = FALSE
    /\ got = 0 /\ kva = P /\ failed = FALSE /\ mode = "none"

\* Bug variant: the resolver of the test before stays registered.
before_KeepsResolver ==
    IF suite = "1C"
    THEN fix_count' = 0 /\ expect' = NoFault /\ UNCHANGED fixup
    ELSE UNCHANGED <<fixup, fix_count, expect>>

\* p1c_before; the other suites have no hook
before ==
    IF suite = "1C"
    THEN fixup' = FALSE /\ fix_count' = 0 /\ expect' = NoFault
    ELSE UNCHANGED <<fixup, fix_count, expect>>

\* ztest starts the next test's thread.
Begin(t) ==
    /\ Free /\ todo = <<>> /\ ~failed
    /\ t \notin ran /\ Cardinality(ran) < MaxTests[suite]
    /\ ran' = ran \cup {t} /\ todo' = Tests(suite)[t]
    /\ before
    /\ UNCHANGED <<vars, svadu, suite, pending, got, kva, failed, mode>>

\* The next operation is o, and ends within this step; va its page.
At(o) ==
    /\ Free /\ ~pending /\ todo # <<>> /\ Head(todo).op = o
    /\ todo' = Tail(todo)
    /\ UNCHANGED <<svadu, suite, ran, pending>>
Op == Head(todo)
Page(va) == IF va = P THEN kva ELSE va

MapRawOp ==
    /\ At("raw") /\ MapRaw(Op)
    /\ UNCHANGED <<expect, fixup, fix_count, got, kva, failed, mode>>

MapOp ==
    /\ At("map") /\ MapBegin(Op)
    /\ UNCHANGED <<expect, fixup, fix_count, got, kva, failed, mode>>

\* k_mem_map: any page of its region that nothing is mapped at, a free frame
KMapOp ==
    /\ At("kmap")
    /\ \E v \in {w \in VmPages : Walk(w) = Fault} :
          /\ kva' = v
          /\ MapBegin([va |-> v, pa |-> Bp(7), n |-> 1, perm |-> Op.perm])
    /\ UNCHANGED <<expect, fixup, fix_count, got, failed, mode>>

\* arch_mem_unmap, and k_mem_unmap
UnmapOp ==
    /\ At("unmap") /\ UnmapBegin([va |-> Page(Op.va), n |-> 1])
    /\ UNCHANGED <<expect, fixup, fix_count, got, kva, failed, mode>>

\* The call the test made goes on: Sv39Mmu's steps, with the walker between.
Call == (MapStep \/ UnmapStep \/ Finish) /\ UNCHANGED <<svadu, tstate>>

\* zassert_not_null(pte), then a store through the pointer
PokeOp ==
    /\ At("poke")
    /\ LET e == pte_lookup(Op.va) IN
       IF e = <<>> THEN failed' = TRUE /\ UNCHANGED tvars
       ELSE SetState(Store(State, e[1], e[2], Op.pte)) /\ UNCHANGED failed
    /\ unfenced' = unfenced \cup {Op.va}
    /\ UNCHANGED <<op, tlb, expect, fixup, fix_count, got, kva, mode>>

SfenceOp ==
    /\ At("fence")
    /\ tlb' = [v \in DOMAIN tlb \ Op.vas |-> tlb[v]]
    /\ unfenced' = unfenced \ Op.vas
    /\ UNCHANGED <<tvars, op, expect, fixup, fix_count, got, kva, failed, mode>>

\* expect(), and P1C.5's assignments to expect_fault
ExpectOp ==
    /\ At("expect")
    /\ expect' = IF Op.fault = NoFault THEN NoFault
                 ELSE <<Op.fault[1], Page(Op.fault[2])>>
    /\ UNCHANGED <<vars, fixup, fix_count, got, kva, failed, mode>>

z_riscv_mmu_set_fault_fixup ==
    /\ At("fixup") /\ fixup' = TRUE
    /\ UNCHANGED <<vars, expect, fix_count, got, kva, failed, mode>>

PrintMode ==
    /\ At("svadu") /\ mode' = "SVADU"
    /\ UNCHANGED <<vars, expect, fixup, fix_count, got, kva, failed>>

Holds(o) ==
    CASE o.op = "got"   -> got \in o.frames
      [] o.op = "count" -> fix_count = o.n
      [] o.op = "pte"   -> LET e == pte_lookup(o.va) IN
                           /\ e # <<>>
                           /\ o.has \subseteq mmu_tables[e[1]][e[2]].perm
                           /\ o.lacks \cap mmu_tables[e[1]][e[2]].perm = {}
      [] o.op = "same"  -> pte_lookup(o.va) = pte_lookup(o.wa)
      [] o.op = "unreachable" -> FALSE

\* zassert_*: a failure ends the test.
Zassert ==
    /\ \E o \in {"got", "count", "pte", "same", "unreachable"} : At(o)
    /\ failed' = ~Holds(Op)
    /\ UNCHANGED <<vars, expect, fixup, fix_count, got, kva, mode>>

-----------------------------------------------------------------------------
(***************************************************************************)
(* An access and the path of its fault.                                    *)
(***************************************************************************)
Needs(kind) == CASE kind = "load" -> "R" [] kind = "store" -> "W" [] kind = "fetch" -> "X"
AdBits(kind) == IF kind = "store" THEN AD ELSE {"A"}
CauseOf(kind) == CASE kind = "fetch" -> 12 [] kind = "load" -> 13 [] kind = "store" -> 15

\* What the hart may use: the tables as they are, or what the TLB holds
Entries(va) == {Walk(va)} \cup {tlb[v] : v \in DOMAIN tlb \cap {va}}

Allows(e, kind) ==
    /\ Needs(kind) \in e.perm /\ "U" \notin e.perm
    /\ svadu \/ AdBits(kind) \subseteq e.perm

OrPte(va, bits, valid) ==
    LET e == pte_lookup(va)
        p == mmu_tables[e[1]][e[2]]
    IN  Store(State, e[1], e[2], [p EXCEPT !.perm = @ \cup bits, !.V = IF valid THEN 1 ELSE @])

\* It goes through; a Svadu hart sets A and D in the PTE.
Access ==
    /\ At("access")
    /\ \E e \in Entries(Page(Op.va)) :
          /\ Allows(e, Op.kind) /\ got' = e.ppn
          /\ IF AdBits(Op.kind) \subseteq e.perm THEN UNCHANGED tvars
             ELSE SetState(OrPte(Page(Op.va), AdBits(Op.kind), FALSE))
    /\ UNCHANGED <<op, tlb, unfenced, expect, fixup, fix_count, kva, failed, mode>>

\* The next instruction page-faults; stval is the page of the access.
PageFault ==
    /\ Free /\ ~pending /\ todo # <<>> /\ Op.op = "access"
    /\ \E e \in Entries(Page(Op.va)) : ~Allows(e, Op.kind)
stval == Page(Op.va)

\* z_riscv_mmu_try_fault_fixup, and p1c_fixup's test for NULL
Resolvable == fixup /\ pte_lookup(stval) # <<>>

\* Bug variant: A is not set, so Svade faults again.
FixBits_NoA(kind) ==
    CASE kind = "load" -> {"R"} [] kind = "store" -> {"R", "W"} [] kind = "fetch" -> {"R", "X"}

FixBits(kind) ==
    CASE kind = "load"  -> {"R", "A"}
      [] kind = "store" -> {"R", "W", "A", "D"}
      [] kind = "fetch" -> {"R", "X", "A"}

\* z_riscv_fault finds a resolver: p1c_fixup stores the repaired PTE ...
p1c_fixup ==
    /\ PageFault /\ Resolvable
    /\ SetState(OrPte(stval, FixBits(Op.kind), TRUE))
    /\ pending' = TRUE
    /\ UNCHANGED <<op, tlb, unfenced, svadu, suite, ran, todo, expect, fixup,
                   fix_count, got, kva, failed, mode>>

\* Bug variant: no sfence.vma.
p1c_fixup_return_NoFence ==
    /\ pending /\ pending' = FALSE
    /\ fix_count' = (fix_count + 1) % FixWrap
    /\ UNCHANGED <<vars, svadu, suite, ran, todo, expect, fixup, got, kva, failed, mode>>

\* ... fences, counts, and the instruction is executed again.
p1c_fixup_return ==
    /\ pending /\ pending' = FALSE
    /\ tlb' = [v \in {} |-> Fault]
    /\ fix_count' = (fix_count + 1) % FixWrap
    /\ UNCHANGED <<tvars, op, unfenced, svadu, suite, ran, todo, expect, fixup, got,
                   kva, failed, mode>>

\* Bug variant: expect_fault is not cleared.
k_sys_fatal_error_handler_Keeps(cause, va) ==
    /\ failed' = (expect # <<cause, va>>)
    /\ mode' = IF suite = "1C" /\ expect = <<cause, va>> THEN "SVADE" ELSE mode
    /\ UNCHANGED expect

\* The suites' handlers: a fault nobody expects, or another than the one
\* expected, fails the test; either way the test's thread ends.
k_sys_fatal_error_handler(cause, va) ==
    /\ failed' = (expect # <<cause, va>>)
    /\ mode' = IF suite = "1C" /\ expect = <<cause, va>> THEN "SVADE" ELSE mode
    /\ expect' = NoFault

\* z_riscv_fault without a resolver, or the resolver gives up: fatal.
Fatal ==
    /\ PageFault /\ ~Resolvable
    /\ k_sys_fatal_error_handler(CauseOf(Op.kind), stval)
    /\ todo' = <<>>
    /\ UNCHANGED <<vars, svadu, suite, ran, fixup, fix_count, pending, got, kva>>

ZFill == \E va \in Watched : Fill(va) /\ UNCHANGED <<svadu, tstate>>

Thread ==
    \/ MapRawOp \/ MapOp \/ KMapOp \/ UnmapOp \/ Call \/ PokeOp \/ SfenceOp
    \/ ExpectOp \/ z_riscv_mmu_set_fault_fixup \/ PrintMode \/ Zassert
    \/ Access \/ p1c_fixup \/ p1c_fixup_return \/ Fatal

ZNext == Thread \/ ZFill \/ \E t \in DOMAIN Tests(suite) : Begin(t)

\* The test thread runs; nothing else of the image keeps it from it.
ZSpec == ZInit /\ [][ZNext]_zvars /\ WF_zvars(Thread)

-----------------------------------------------------------------------------
\* On hardware that follows the architecture no assertion of the four suites
\* fails, no unexpected fault is taken and the table pool suffices: in whatever
\* order the tests run, with Svadu or Svade, and whatever the TLB caches when.
\* A fault that does not come ("unreachable") counts as a failure.
ZP1Sound == ~failed /\ fate = "ok"

\* The mode that P1C.5 prints is the hardware's: no resolver left over from
\* another test swallows the Svade fault it waits for.
ModeIsHardwares == mode # "none" => (mode = "SVADU") = svadu

\* expect_fault does not outlive its test: the next one, which has no hook to
\* clear it, would pass on a fault it did not announce.
NoStaleExpectation == todo = <<>> => expect = NoFault

\* A test that has begun ends: no access is repaired and retried for ever.
ZP1Ends == todo # <<>> ~> todo = <<>>
=============================================================================
