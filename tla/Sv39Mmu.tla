------------------------------ MODULE Sv39Mmu ------------------------------
(***************************************************************************)
(* The Sv39 support the port adds to Zephyr (arch/riscv/core/mmu.c in      *)
(* zephyr-riscv-port.patch): the static pool of page tables, the 4 KB and  *)
(* raw mapping calls, unmapping, the raw PTE lookup, and the hart's TLB.   *)
(*                                                                         *)
(* Addresses are page numbers.  The kernel image is identity-mapped and    *)
(* holds the pool, so a table is named by the page it lives in.  Mapping   *)
(* calls hold mmu_lock on the one hart that has the MMU on; what runs      *)
(* between their steps is the hardware walker, which may cache any         *)
(* translation at any time.                                                *)
(***************************************************************************)
EXTENDS Integers, FiniteSets

CONSTANTS
    N,            \* PT_ENTRIES: 512 in the code
    PoolBase,     \* page of mmu_tables[0]
    NumTables,    \* CONFIG_RISCV_MMU_NUM_TABLES
    ImageStart,   \* z_mapped_start .. z_mapped_end, as pages
    ImageSize,
    MapCalls,     \* arch_mem_map calls made: [va, pa, n, perm]
    UnmapCalls,   \* arch_mem_unmap calls made: [va, n]
    RawCalls,     \* z_riscv_mmu_map_raw calls made: [va, pa, V, perm, level]
    EditCalls,    \* edits through z_riscv_mmu_pte_lookup: [va, pa, perm]
    Watched       \* the pages the TLB is observed at (bounds the TLB)

Perms == {"R", "W", "X", "U", "A", "D"}
XWR == {"X", "W", "R"}
Index == 0 .. N - 1
Tables == PoolBase .. PoolBase + NumTables - 1
Root == PoolBase
\* The pages that an entry of level l covers: N to the power l.
Span(l) ==
    CASE l = 0 -> 1 [] l = 1 -> N [] l = 2 -> N * N [] l = 3 -> N * N * N
VPages == 0 .. Span(3) - 1

PTE == [V : {0, 1}, perm : SUBSET Perms, ppn : Nat]

ASSUME SizeAssumption == N \in Nat \ {0} /\ PoolBase \in Nat /\ NumTables \in Nat \ {0}
ASSUME ImageAssumption == ImageStart \in Nat /\ ImageSize \in Nat
ASSUME CallAssumption ==
    /\ MapCalls \subseteq [va : VPages, pa : Nat, n : Nat, perm : SUBSET Perms]
    /\ UnmapCalls \subseteq [va : VPages, n : Nat]
    /\ RawCalls \subseteq [va : VPages, pa : Nat, V : {0, 1},
                           perm : SUBSET Perms, level : 0 .. 2]
    /\ EditCalls \subseteq [va : VPages, pa : Nat, perm : SUBSET Perms]
\* A leaf has R, W or X; perm_from_flags always sets R.  map_raw asserts that
\* va and pa are aligned to the level.
ASSUME LeafAssumption ==
    /\ \A c \in MapCalls : "R" \in c.perm
    /\ \A c \in RawCalls \cup EditCalls : c.perm \cap XWR # {}
    /\ \A c \in RawCalls : c.va % Span(c.level) = 0 /\ c.pa % Span(c.level) = 0

VARIABLES
    mmu_tables,      \* the pool: page of a table -> its entries
    mmu_table_used,  \* the tables handed out
    fate,            \* "ok", "panic" (pool empty, k_panic), or "wild": a walk
                     \* took a leaf PTE for a table and wrote through it
    op,              \* the call in progress and what is left of it
    tlb,             \* cached translations of pages of Watched
    unfenced         \* history: pages whose PTE was edited since their sfence

tvars == <<mmu_tables, mmu_table_used, fate>>
vars == <<mmu_tables, mmu_table_used, fate, op, tlb, unfenced>>

-----------------------------------------------------------------------------
Zero == [V |-> 0, perm |-> {}, ppn |-> 0]
\* perms | PTE_V | PTE_A | PTE_D
Leaf(pa, perm) == [V |-> 1, perm |-> perm \cup {"A", "D"}, ppn |-> pa]
Branch(t) == [V |-> 1, perm |-> {}, ppn |-> t]
IsLeaf(p) == p.V = 1 /\ p.perm \cap XWR # {}
IsBranch(p) == p.V = 1 /\ p.perm \cap XWR = {}

vpn(va, l) == (va \div Span(l)) % N

\* The pages that a leaf of level l covering va translates.
Block(va, l) ==
    LET first == va - (va % Span(l)) IN first .. first + Span(l) - 1

(***************************************************************************)
(* The pool and the functions that write tables, on the record of the      *)
(* state they change: t the tables, u the used ones, f the fate.           *)
(***************************************************************************)
State == [t |-> mmu_tables, u |-> mmu_table_used, f |-> fate]

FirstFree(used) == CHOOSE n \in Tables \ used : \A m \in Tables \ used : n <= m
ZeroTable == [i \in Index |-> Zero]

\* Bug variant: mmu_table_used is not set.
alloc_table_Unmarked(s) ==
    IF Tables \subseteq s.u THEN [s EXCEPT !.f = "panic"]
    ELSE [s EXCEPT !.t[FirstFree(s.u)] = ZeroTable]

\* alloc_table: the first unused table, zeroed; k_panic if there is none
alloc_table(s) ==
    IF Tables \subseteq s.u THEN [s EXCEPT !.f = "panic"]
    ELSE [t |-> [s.t EXCEPT ![FirstFree(s.u)] = ZeroTable],
          u |-> s.u \cup {FirstFree(s.u)}, f |-> s.f]

\* *pte = p, for entry i of what the walk took for a table
Store(s, tbl, i, p) ==
    IF s.f # "ok" THEN s
    ELSE IF tbl \notin Tables THEN [s EXCEPT !.f = "wild"]
    ELSE [s EXCEPT !.t[tbl][i] = p]

\* Bug variant: a table is allocated although the entry has V set.
Descend_Always(s, tbl, i) ==
    IF s.f = "ok" /\ tbl \in Tables
    THEN Store(alloc_table(s), tbl, i, Branch(FirstFree(s.u)))
    ELSE IF s.f = "ok" THEN [s EXCEPT !.f = "wild"] ELSE s

\* One turn of the descent of map_page and map_raw: V clear allocates a table,
\* V set is followed, whatever the R/W/X bits say
Descend(s, tbl, i) ==
    IF s.f = "ok" /\ tbl \in Tables /\ s.t[tbl][i].V = 0
    THEN Store(alloc_table(s), tbl, i, Branch(FirstFree(s.u)))
    ELSE IF s.f = "ok" /\ tbl \notin Tables THEN [s EXCEPT !.f = "wild"] ELSE s

\* tbl = pte_to_phys(*pte)
Next_tbl(s, tbl, i) == IF s.f = "ok" THEN s.t[tbl][i].ppn ELSE tbl

map_at(s, va, level, p) ==
    LET s2 == IF level < 2 THEN Descend(s, Root, vpn(va, 2)) ELSE s
        t1 == IF level < 2 THEN Next_tbl(s2, Root, vpn(va, 2)) ELSE Root
        s1 == IF level < 1 THEN Descend(s2, t1, vpn(va, 1)) ELSE s2
        t0 == IF level < 1 THEN Next_tbl(s1, t1, vpn(va, 1)) ELSE t1
    IN  Store(s1, t0, vpn(va, level), p)

map_page(s, va, pa, perm) == map_at(s, va, 0, Leaf(pa, perm))

\* The entry z_riscv_mmu_pte_lookup returns, as <<table, index>>; <<>> for NULL
pte_lookup(va) ==
    LET p2 == mmu_tables[Root][vpn(va, 2)]
        p1 == mmu_tables[p2.ppn][vpn(va, 1)]
    IN  IF p2.V = 0 THEN <<>>
        ELSE IF IsLeaf(p2) THEN <<Root, vpn(va, 2)>>
        ELSE IF p1.V = 0 THEN <<>>
        ELSE IF IsLeaf(p1) THEN <<p2.ppn, vpn(va, 1)>>
        ELSE <<p1.ppn, vpn(va, 0)>>

\* Bug variant: no check for a superpage leaf on the way down.
unmap_page_NoLeafCheck(s, va) ==
    LET p2 == s.t[Root][vpn(va, 2)]
        p1 == s.t[p2.ppn][vpn(va, 1)]
    IN  IF p2.V = 0 \/ p1.V = 0 THEN s ELSE Store(s, p1.ppn, vpn(va, 0), Zero)

\* unmap_page: the same descent, and the entry it ends at is cleared
unmap_page(s, va) ==
    LET e == pte_lookup(va)
    IN  IF e = <<>> THEN s ELSE Store(s, e[1], e[2], Zero)

\* The hardware's walk: what a page translates to.
Fault == [ppn |-> 0, perm |-> {}, level |-> 3]
Translate(p, va, l) ==
    IF p.ppn % Span(l) # 0 THEN Fault
    ELSE [ppn |-> p.ppn + (va % Span(l)), perm |-> p.perm, level |-> l]
Walk(va) ==
    LET p2 == mmu_tables[Root][vpn(va, 2)]
        p1 == mmu_tables[p2.ppn][vpn(va, 1)]
        p0 == mmu_tables[p1.ppn][vpn(va, 0)]
    IN  IF p2.V = 0 THEN Fault
        ELSE IF IsLeaf(p2) THEN Translate(p2, va, 2)
        ELSE IF p1.V = 0 THEN Fault
        ELSE IF IsLeaf(p1) THEN Translate(p1, va, 1)
        ELSE IF IsLeaf(p0) THEN Translate(p0, va, 0) ELSE Fault

-----------------------------------------------------------------------------
Idle == [kind |-> "idle"]
SetState(s) == mmu_tables' = s.t /\ mmu_table_used' = s.u /\ fate' = s.f

BootMap(pages) == [kind |-> "boot", va |-> ImageStart, pa |-> ImageStart,
                   n |-> pages, perm |-> {"R", "W", "X"}]
\* Bug variant: the loop over the image stops a page early.
BootLoop_Short == BootMap(ImageSize - 1)

\* for (va = start; va < end; ...) map_page(va, va, R | W | X)
BootLoop == BootMap(ImageSize)

\* z_riscv_mmu_init as far as map_gigapage(0, 0, R|W); the loop over the image
\* is the call in progress, with satp still off.
Init ==
    /\ mmu_tables = [t \in Tables |->
           [i \in Index |-> IF t = Root /\ i = 0 THEN Leaf(0, {"R", "W"}) ELSE Zero]]
    /\ mmu_table_used = {Root}
    /\ fate = "ok"
    /\ op = BootLoop
    /\ tlb = [v \in {} |-> Fault]
    /\ unfenced = {}

Paging == op.kind # "boot"
Free == op.kind = "idle" /\ fate = "ok"

\* k_spin_lock, and the arguments
MapBegin(c) ==
    /\ Free
    /\ op' = [kind |-> "map", va |-> c.va, pa |-> c.pa, n |-> c.n, perm |-> c.perm]
    /\ UNCHANGED <<tvars, tlb, unfenced>>

\* One turn of the loop of arch_mem_map, or of z_riscv_mmu_init's
MapStep ==
    /\ op.kind \in {"map", "boot"} /\ op.n > 0 /\ fate = "ok"
    /\ SetState(map_page(State, op.va, op.pa, op.perm))
    /\ op' = [op EXCEPT !.va = @ + 1, !.pa = @ + 1, !.n = @ - 1]
    /\ UNCHANGED <<tlb, unfenced>>

UnmapBegin(c) ==
    /\ Free
    /\ op' = [kind |-> "unmap", va |-> c.va, n |-> c.n]
    /\ UNCHANGED <<tvars, tlb, unfenced>>

UnmapStep ==
    /\ op.kind = "unmap" /\ op.n > 0 /\ fate = "ok"
    /\ SetState(unmap_page(State, op.va))
    /\ op' = [op EXCEPT !.va = @ + 1, !.n = @ - 1]
    /\ UNCHANGED <<tlb, unfenced>>

\* z_riscv_mmu_map_raw: exactly the caller's bits, V = 0 included
MapRaw(c) ==
    /\ Free
    /\ SetState(map_at(State, c.va, c.level,
                       [V |-> c.V, perm |-> c.perm, ppn |-> c.pa]))
    /\ op' = [kind |-> "raw", n |-> 0]
    /\ UNCHANGED <<tlb, unfenced>>

\* Bug variant: no sfence.vma.
Finish_NoFence ==
    /\ op.kind # "idle" /\ op.n = 0 /\ fate = "ok"
    /\ op' = Idle
    /\ unfenced' = {}
    /\ UNCHANGED <<tvars, tlb>>

\* sfence.vma and k_spin_unlock; at boot, the write of satp and the fence
Finish ==
    /\ op.kind # "idle" /\ op.n = 0 /\ fate = "ok"
    /\ op' = Idle
    /\ tlb' = [v \in {} |-> Fault]
    /\ unfenced' = {}
    /\ UNCHANGED tvars

\* A caller of z_riscv_mmu_pte_lookup stores a new leaf through the pointer ...
EditPte(c) ==
    /\ Free /\ pte_lookup(c.va) # <<>>
    /\ SetState(Store(State, pte_lookup(c.va)[1], pte_lookup(c.va)[2],
                      Leaf(c.pa, c.perm)))
    /\ unfenced' = unfenced \cup {c.va}
    /\ UNCHANGED <<op, tlb>>

\* ... and does its own sfence.vma for the address.
SfenceAddr(va) ==
    /\ Free
    /\ tlb' = [v \in DOMAIN tlb \ {va} |-> tlb[v]]
    /\ unfenced' = unfenced \ {va}
    /\ UNCHANGED <<tvars, op>>

\* The walker caches a translation, a fault included, whoever needs it.
Fill(va) ==
    /\ Paging /\ fate = "ok"
    /\ tlb' = [v \in DOMAIN tlb \cup {va} |-> IF v = va THEN Walk(va) ELSE tlb[v]]
    /\ UNCHANGED <<tvars, op, unfenced>>

Next ==
    \/ \E c \in MapCalls : MapBegin(c)
    \/ \E c \in UnmapCalls : UnmapBegin(c)
    \/ \E c \in RawCalls : MapRaw(c)
    \/ \E c \in EditCalls : EditPte(c) \/ SfenceAddr(c.va)
    \/ MapStep \/ UnmapStep \/ Finish
    \/ \E va \in Watched : Fill(va)

Spec == Init /\ [][Next]_vars

-----------------------------------------------------------------------------
\* The entries of the tables in use that point to a table.
Pointers == {e \in mmu_table_used \X Index : IsBranch(mmu_tables[e[1]][e[2]])}
Pointee(e) == mmu_tables[e[1]][e[2]].ppn

\* The tables in use form a tree: each one but the root is pointed to by
\* exactly one entry, which lies in a table in use, and nothing else is.  No
\* table is shared, handed out twice or leaked, however often pages are mapped
\* and unmapped (alloc_table has no inverse: an unmapped page keeps its tables).
TableTree ==
    /\ Root \in mmu_table_used
    /\ \A e \in Pointers : Pointee(e) \in mmu_table_used \ {Root}
    /\ \A e, d \in Pointers : Pointee(e) = Pointee(d) => e = d
    /\ \A t \in mmu_table_used \ {Root} : \E e \in Pointers : Pointee(e) = t

\* The pool is never exhausted by calls on the same pages: NumTables tables,
\* the number the calls' distinct table slots need, are enough for ever, and no
\* call writes through a leaf it took for a table.
NeverFatal == fate = "ok"

\* With paging on, the code can reach the tables through its own pointers:
\* every table in use is identity-mapped, readable and writable.
TablesReachable ==
    Paging => \A t \in mmu_table_used :
        Walk(t).ppn = t /\ {"R", "W"} \subseteq Walk(t).perm

\* Between calls the TLB agrees with the tables except where a caller edited a
\* PTE itself and has not fenced that address: every call fences what it did.
TlbCoherent ==
    op.kind = "idle" =>
        \A v \in DOMAIN tlb : v \in unfenced \/ tlb[v] = Walk(v)

\* The tables implement the flat map of AddressSpace: each step of a call
\* changes the translation of one leaf's block and of no other page.
Flat == INSTANCE AddressSpace WITH
            Pages <- VPages, Unmapped <- Fault,
            map <- [v \in VPages |-> Walk(v)]
FlatSpec == Flat!Spec
=============================================================================
