----------------------------- MODULE PageFault -----------------------------
(***************************************************************************)
(* The page tables and the page-fault branch of the bare-metal suite       *)
(* (common/smode.c): pt_alloc_page and pt_map_page, pt_walk, the handler's *)
(* two policies (fix the PTE and retry, skip the instruction), and a hart  *)
(* whose TLB may cache any translation, a faulting one included, at any    *)
(* time.                                                                   *)
(*                                                                         *)
(* Addresses are page numbers.  A load is observed by the physical page it *)
(* read.  Whether the hardware sets A and D itself (Svadu) or faults       *)
(* (Svade) is not known to the code; neither is assumed.                   *)
(***************************************************************************)
EXTENDS Integers

CONSTANTS
    N,           \* PTES_PER_PT: 512 in the code
    SramSlot,    \* vpn2(SRAM_BASE)
    PoolBase,    \* page of _page_table_start
    PoolPages,   \* pages from _page_table_start to _page_table_end
    MapCalls,    \* pt_map_page calls a client makes: [va, pa, perm, valid]
    Accesses,    \* accesses it makes: [va, kind, action]
    Watched,     \* the pages the TLB may cache (bounds the TLB)
    CounterWrap  \* g_trap.fault_count is a C int: it wraps, here at this value

\* pages that an entry of level l covers: N ^ l
Span(l) == CASE l = 0 -> 1 [] l = 1 -> N [] l = 2 -> N * N [] l = 3 -> N * N * N
VPages == 0 .. Span(3) - 1
Index == 0 .. N - 1
Kinds == {"fetch", "load", "store"}
Bits == {"V", "R", "W", "X", "U", "A", "D"}
PTE == [bits : SUBSET Bits, ppn : Nat]

ASSUME LayoutAssumption ==
    /\ N \in Nat \ {0} /\ SramSlot \in Index \ {0}
    /\ PoolBase \in Nat /\ PoolPages \in Nat \ {0}
    /\ SramSlot * Span(2) < PoolBase     \* .text comes before the pool (link.ld)
    /\ CounterWrap \in Nat \ {0}
ASSUME ClientAssumption ==
    /\ MapCalls \subseteq [va : VPages, pa : Nat, perm : SUBSET {"R", "W", "X", "U"},
                           valid : BOOLEAN]
    /\ Accesses \subseteq [va : VPages, kind : Kinds, action : 0 .. 2]
    /\ Watched \subseteq VPages

VARIABLES
    pt,                 \* the pool: its pages as tables
    pt_pool_next_page,
    tlb,                \* cached translations
    svadu,              \* does the hardware set A and D?
    cur,                \* the access being executed, NoAccess between them
    pc,                 \* "run", or "fix" / "fence" in the handler
    handler_action,     \* 0 fix PTE, 1 skip, 2 "custom", which the code treats as 0
    fault_count, scause, stval,
    got,                \* the physical page the last completed access reached
    code,               \* test_fail's argument, 0 if not called
    unfenced,           \* history: pages whose PTE a client changed since a fence
    frame               \* history: the frame a client last named for a page

hw == <<tlb, svadu>>
mem == <<pt, pt_pool_next_page>>
trap == <<fault_count, scause, stval>>
vars == <<pt, pt_pool_next_page, tlb, svadu, cur, pc, handler_action,
          fault_count, scause, stval, got, code, unfenced, frame>>
history == <<unfenced, frame>>

-----------------------------------------------------------------------------
Pool == PoolBase .. PoolBase + PoolPages - 1
NoAccess == [va |-> 0, kind |-> "none"]
Zero == [bits |-> {}, ppn |-> 0]
ZeroTable == [i \in Index |-> Zero]
Has(p, b) == b \in p.bits
XWR(p) == p.bits \cap {"R", "W", "X"} # {}

vpn(va, l) == (va \div Span(l)) % N

pte_branch(t) == [bits |-> {"V"}, ppn |-> t]
pte_leaf(pa, perm) == [bits |-> perm \cup {"V", "A", "D"}, ppn |-> pa]

(***************************************************************************)
(* Table writes, on the record of what they change.  ok is FALSE once a    *)
(* write leaves the pool: through a leaf taken for a table, or past        *)
(* _page_table_end, which pt_alloc_page does not look at.                  *)
(***************************************************************************)
Memory == [t |-> pt, next |-> pt_pool_next_page, ok |-> TRUE]

pt_alloc_page(m) ==
    [t |-> [x \in Pool |-> IF x = PoolBase + m.next THEN ZeroTable ELSE m.t[x]],
     next |-> m.next + 1,
     ok |-> m.ok /\ m.next < PoolPages]

Store(m, tbl, i, p) ==
    IF m.ok /\ tbl \in Pool
    THEN [m EXCEPT !.t[tbl][i] = p]
    ELSE [m EXCEPT !.ok = FALSE]

\* if (!(tbl[i] & PTE_V)) tbl[i] = pte_branch(pt_alloc_page())
Descend(m, tbl, i) ==
    IF m.ok /\ tbl \in Pool /\ ~Has(m.t[tbl][i], "V")
    THEN Store(pt_alloc_page(m), tbl, i, pte_branch(PoolBase + m.next))
    ELSE [m EXCEPT !.ok = @ /\ tbl \in Pool]

Child(m, tbl, i) == IF m.ok THEN m.t[tbl][i].ppn ELSE tbl

\* The walk of pt_map_page down to a level, and the store there.  The tests
\* that build superpages and odd leaves (P1B.8, P1C.5, P1D.4) repeat it inline.
map_at(m, va, level, p) ==
    LET m2 == Descend(m, PoolBase, vpn(va, 2))
        l1 == Child(m2, PoolBase, vpn(va, 2))
        m1 == IF level = 0 THEN Descend(m2, l1, vpn(va, 1)) ELSE m2
        l2 == IF level = 0 THEN Child(m1, l1, vpn(va, 1)) ELSE l1
    IN  Store(m1, l2, vpn(va, level), p)

\* valid = 0 keeps the PPN and permissions and leaves V, A and D clear
MapPte(pa, perm, valid) ==
    IF valid THEN pte_leaf(pa, perm) ELSE [bits |-> perm \ {"V"}, ppn |-> pa]

\* pt_walk: the entry the walk stops at, as <<table, index, level>>.  It stops
\* at a leaf, at an invalid entry, or at the last level: there is always one.
pt_walk(va) ==
    LET p2 == pt[PoolBase][vpn(va, 2)]
        p1 == pt[p2.ppn][vpn(va, 1)]
    IN  IF ~Has(p2, "V") \/ XWR(p2) THEN <<PoolBase, vpn(va, 2), 2>>
        ELSE IF ~Has(p1, "V") \/ XWR(p1) THEN <<p2.ppn, vpn(va, 1), 1>>
        ELSE <<p1.ppn, vpn(va, 0), 0>>

(***************************************************************************)
(* The hardware's translation of va, and whether it allows an access.      *)
(* (SUM and MXR are 0.)                                                    *)
(***************************************************************************)
Fault == [bits |-> {}, ppn |-> 0]
Leaf(p, va, l) ==
    IF Has(p, "V") /\ XWR(p) /\ p.ppn % Span(l) = 0
    THEN [bits |-> p.bits, ppn |-> p.ppn + (va % Span(l))]
    ELSE Fault
Walk(va) ==
    LET p2 == pt[PoolBase][vpn(va, 2)]
        p1 == pt[p2.ppn][vpn(va, 1)]
        p0 == pt[p1.ppn][vpn(va, 0)]
    IN  IF ~Has(p2, "V") \/ XWR(p2) THEN Leaf(p2, va, 2)
        ELSE IF ~Has(p1, "V") \/ XWR(p1) THEN Leaf(p1, va, 1)
        ELSE Leaf(p0, va, 0)

Needs(kind) == CASE kind = "fetch" -> {"X"}
                 [] kind = "load"  -> {"R"}
                 [] kind = "store" -> {"R", "W"}
AD(kind) == IF kind = "store" THEN {"A", "D"} ELSE {"A"}

Permits(t, kind) ==
    /\ t # Fault
    /\ Needs(kind) \subseteq t.bits /\ ~Has(t, "U")
    /\ svadu \/ AD(kind) \subseteq t.bits

\* What the hart uses: a cached translation if there is one.
Seen(va) == IF va \in DOMAIN tlb THEN tlb[va] ELSE Walk(va)

\* *pte |= bits
SetBits(tbl, i, bits) ==
    [pt EXCEPT ![tbl][i] = [bits |-> pt[tbl][i].bits \cup bits, ppn |-> pt[tbl][i].ppn]]

CauseOf(kind) == CASE kind = "fetch" -> 12
                   [] kind = "load"  -> 13
                   [] kind = "store" -> 15

-----------------------------------------------------------------------------
NoTlb == [v \in {} |-> Fault]
Without(va) == [v \in DOMAIN tlb \ {va} |-> tlb[v]]

\* pt_reset, pt_setup_identity_kernel and mmu_enable_sv39
Init ==
    /\ pt = [t \in Pool |-> [i \in Index |->
           IF t # PoolBase THEN Zero
           ELSE IF i = SramSlot THEN pte_leaf(SramSlot * Span(2), {"R", "W", "X"})
           ELSE IF i = 0 THEN pte_leaf(0, {"R", "W"})
           ELSE Zero]]
    /\ pt_pool_next_page = 1
    /\ tlb = NoTlb
    /\ svadu \in BOOLEAN
    /\ cur = NoAccess /\ pc = "run"
    /\ handler_action = 0
    /\ fault_count = 0 /\ scause = 0 /\ stval = 0
    /\ got = 0 /\ code = 0
    /\ unfenced = {} /\ frame = [v \in {} |-> 0]

Between == cur = NoAccess /\ code = 0

\* A write of the tables that leaves the pool has no further meaning here.
SetMemory(m) ==
    /\ pt' = m.t /\ pt_pool_next_page' = m.next
    /\ code' = IF m.ok THEN 0 ELSE 999

Block(va, level) ==
    LET first == va - (va % Span(level)) IN first .. first + Span(level) - 1

\* The client has asked for the pages of block, va at frame pa.
Names(block, va, pa) ==
    /\ unfenced' = unfenced \cup block
    /\ frame' = [v \in DOMAIN frame \cup block |-> IF v \in block THEN pa + v - va ELSE frame[v]]

MapAt(va, level, p) ==
    /\ Between
    /\ SetMemory(map_at(Memory, va, level, p))
    /\ Names(Block(va, level), va, p.ppn)
    /\ UNCHANGED <<hw, cur, pc, handler_action, trap, got>>

pt_map_page(va, pa, perm, valid) == MapAt(va, 0, MapPte(pa, perm, valid))

\* *pt_walk(root, va, &level) = a new leaf (P1D.1, P1D.2)
EditLeaf(va, pa) ==
    /\ Between
    /\ LET e == pt_walk(va)
       IN  SetMemory(Store(Memory, e[1], e[2], pte_leaf(pa, {"R", "W"})))
    /\ Names({va}, va, pa)
    /\ UNCHANGED <<hw, cur, pc, handler_action, trap, got>>

sfence_vma_all ==
    /\ Between
    /\ tlb' = NoTlb /\ unfenced' = {}
    /\ UNCHANGED <<mem, svadu, cur, pc, handler_action, trap, got, code, frame>>

sfence_vma_addr(va) ==
    /\ Between
    /\ tlb' = Without(va) /\ unfenced' = unfenced \ {va}
    /\ UNCHANGED <<mem, svadu, cur, pc, handler_action, trap, got, code, frame>>

\* The walker caches a translation at any time.
Fill(va) ==
    /\ tlb' = [v \in DOMAIN tlb \cup {va} |-> IF v = va THEN Walk(va) ELSE tlb[v]]
    /\ code = 0
    /\ UNCHANGED <<mem, svadu, cur, pc, handler_action, trap, got, code, history>>

-----------------------------------------------------------------------------
\* The test clears some of the fields of g_trap, chooses the handler's policy
\* and executes a memory instruction at va.
Access(va, kind, action, cleared) ==
    /\ Between
    /\ cur' = [va |-> va, kind |-> kind]
    /\ handler_action' = action
    /\ fault_count' = IF "fault_count" \in cleared THEN 0 ELSE fault_count
    /\ scause' = IF "scause" \in cleared THEN 0 ELSE scause
    /\ UNCHANGED <<mem, hw, pc, stval, got, code, history>>

\* It completes; under Svadu the hardware records it in the PTE.
Complete ==
    /\ cur # NoAccess /\ pc = "run" /\ code = 0
    /\ Permits(Seen(cur.va), cur.kind)
    /\ got' = Seen(cur.va).ppn
    /\ cur' = NoAccess
    /\ LET e == pt_walk(cur.va)
       IN  pt' = IF ~svadu THEN pt ELSE SetBits(e[1], e[2], AD(cur.kind))
    /\ UNCHANGED <<pt_pool_next_page, hw, pc, handler_action, trap, code, history>>

\* It faults into s_trap_handler, which records the trap ...
FaultTrap ==
    /\ cur # NoAccess /\ pc = "run" /\ code = 0
    /\ ~Permits(Seen(cur.va), cur.kind)
    /\ fault_count' = (fault_count + 1) % CounterWrap
    /\ scause' = CauseOf(cur.kind) /\ stval' = cur.va
    /\ pc' = "fix"
    /\ UNCHANGED <<mem, hw, cur, handler_action, got, code, history>>

\* ... and, for handler_action 1, steps over the instruction, which it cannot
\* do for a fetch,
Skip ==
    /\ pc = "fix" /\ handler_action = 1
    /\ code' = IF cur.kind = "fetch" THEN 201 ELSE 0
    /\ cur' = NoAccess /\ pc' = "run"
    /\ UNCHANGED <<mem, hw, handler_action, trap, got, history>>

\* Bug variants: A and D forgotten; X forgotten.
FixBits_NoAD(kind) == {"V", "R"} \cup Needs(kind)
FixBits_NoX(kind) == {"V", "A", "D", "R"} \cup (Needs(kind) \ {"X"})

FixBits(kind) == {"V", "A", "D"} \cup Needs(kind) \cup {"R"}

\* Bug variants: the PTE is assigned, not or-ed; the walk ends a level early.
FixPte_LosesPpn ==
    /\ pc = "fix" /\ handler_action # 1
    /\ LET e == pt_walk(cur.va)
       IN  pt' = [pt EXCEPT ![e[1]][e[2]] = [bits |-> FixBits(cur.kind), ppn |-> 0]]
    /\ pc' = "fence"
    /\ UNCHANGED <<pt_pool_next_page, hw, cur, handler_action, trap, got, code, history>>

FixPte_LevelUp ==
    /\ pc = "fix" /\ handler_action # 1
    /\ pt' = SetBits(pt[PoolBase][vpn(cur.va, 2)].ppn, vpn(cur.va, 1), FixBits(cur.kind))
    /\ pc' = "fence"
    /\ UNCHANGED <<pt_pool_next_page, hw, cur, handler_action, trap, got, code, history>>

\* or else makes the entry pt_walk finds valid for the access.
FixPte ==
    /\ pc = "fix" /\ handler_action # 1
    /\ LET e == pt_walk(cur.va)
       IN  pt' = SetBits(e[1], e[2], FixBits(cur.kind))
    /\ pc' = "fence"
    /\ UNCHANGED <<pt_pool_next_page, hw, cur, handler_action, trap, got, code, history>>

\* Bug variant: no fence.
FixFence_NoFence ==
    /\ pc = "fence"
    /\ pc' = "run"
    /\ UNCHANGED <<mem, hw, cur, handler_action, trap, got, code, history>>

\* sfence_vma_addr(stval) and sret: the instruction is executed again.
FixFence ==
    /\ pc = "fence"
    /\ tlb' = Without(stval)
    /\ pc' = "run"
    /\ UNCHANGED <<mem, svadu, cur, handler_action, trap, got, code, history>>

Hart == Complete \/ FaultTrap \/ Skip \/ FixPte \/ FixFence

-----------------------------------------------------------------------------
\* A client makes the calls in any order, fences before it relies on them, and
\* touches only pages it has mapped.
Client ==
    \/ \E c \in MapCalls : pt_map_page(c.va, c.pa, c.perm, c.valid)
    \/ sfence_vma_all
    \/ \E a \in Accesses :
          /\ a.va \notin unfenced /\ a.va \in DOMAIN frame
          /\ Access(a.va, a.kind, a.action, {"fault_count"})

Next == Client \/ Hart \/ \E va \in Watched : Fill(va)

Spec == Init /\ [][Next]_vars /\ WF_vars(Hart)

-----------------------------------------------------------------------------
\* One fault is enough: an access that the handler fixes is not taken to the
\* handler again, whatever the TLB held or cached before the fence, with or
\* without hardware A/D.  (User pages are never given to the fixing handler.)
FixedOnce == fault_count <= 1

\* An access faults only if the tables forbid it: no stale entry survives the
\* fences of the handler and of the client.
NoSpuriousFault ==
    [][pc = "run" /\ pc' = "fix" => ~Permits(Walk(cur.va), cur.kind)]_vars

\* An access that completes reaches the frame its page was last mapped to: the
\* fix, the fences and the TLB never send it elsewhere.
ReachesItsFrame ==
    [][cur # NoAccess /\ cur' = NoAccess /\ pc = "run" => got' = frame[cur.va]]_vars

\* Fixing a page changes the translation of no other page.
FixIsLocal ==
    [][pc = "fix" => \A v \in VPages \ {cur.va} : Walk(v)' = Walk(v)]_vars

\* Every access ends: it completes or is skipped, or the test fails.
AccessEnds == cur # NoAccess ~> (cur = NoAccess \/ code # 0)
=============================================================================
