--------------------------- MODULE Sv39MmuProofs ---------------------------
(***************************************************************************)
(* TLAPS proofs about Sv39Mmu: for every size of table and pool, and every *)
(* set of calls that uses a range of pages with one page size only, the    *)
(* tables in use form a tree, no call writes through a leaf, and the pool  *)
(* is not exhausted if it has a table for each slot the calls descend to;  *)
(* the tables implement the flat map of AddressSpace, the TLB agrees with  *)
(* them between calls, and the kernel can read and write each table in use *)
(* through the map itself.                                                 *)
(***************************************************************************)
EXTENDS Sv39Mmu, FiniteSetTheorems, TLAPS

-----------------------------------------------------------------------------
(***************************************************************************)
(* The path of a table: the indices by which the walk reaches it, N where  *)
(* there is none.  The root has <<N, N>>, a level-1 table <<i, N>>.        *)
(***************************************************************************)
Top == <<N, N>>
Inner == {Top} \cup {<<i, N>> : i \in Index}
Paths == Inner \cup (Index \X Index)
Child(p, i) == IF p = Top THEN <<i, N>> ELSE <<p[1], i>>

Path1(va) == <<vpn(va, 2), N>>
Path0(va) == <<vpn(va, 2), vpn(va, 1)>>

\* The pages mapped as 4 KB, 2 MB and 1 GB pages.
SmallPages ==
    {va \in Nat : \/ va \in ImageStart .. ImageStart + ImageSize - 1
                  \/ \E c \in MapCalls : va \in c.va .. c.va + c.n - 1
                  \/ \E c \in RawCalls : c.level = 0 /\ c.va = va}
MegaPages == {va \in Nat : \E c \in RawCalls : c.level = 1 /\ c.va = va}
GigaPages == {va \in Nat : va = 0 \/ \E c \in RawCalls : c.level = 2 /\ c.va = va}

\* The paths at which the calls need a table.
Slots ==
    {Top} \cup {Path1(va) : va \in SmallPages \cup MegaPages}
          \cup {Path0(va) : va \in SmallPages}

\* A superpage lies where no table is needed.  map_page does not check it; all
\* calls of the suites obey it, and NOTES.md keeps them away from the kernel's
\* own pages and the MMIO gigapage.
OneSize ==
    /\ \A va \in GigaPages : Path1(va) \notin Slots
    /\ \A va \in MegaPages : Path0(va) \notin Slots

\* CONFIG_RISCV_MMU_NUM_TABLES is large enough.
EnoughTables == Cardinality(Slots) <= NumTables

-----------------------------------------------------------------------------
(***************************************************************************)
(* The tree, on the tables T and the used ones U, with the path of each.   *)
(***************************************************************************)
TreeBy(T, U, path) ==
    /\ T \in [Tables -> [Index -> PTE]] /\ U \subseteq Tables /\ Root \in U
    /\ path \in [U -> Slots] /\ path[Root] = Top
    /\ \A t, s \in U : path[t] = path[s] => t = s
    /\ \A t \in U, i \in Index : IsBranch(T[t][i]) =>
         /\ T[t][i].ppn \in U
         /\ path[t] \in Inner
         /\ path[T[t][i].ppn] = Child(path[t], i)
    /\ \A t \in U \ {Root} : \E s \in U, i \in Index :
         IsBranch(T[s][i]) /\ T[s][i].ppn = t
    /\ \A t \in U, i \in Index :
         path[t] \in Inner /\ Child(path[t], i) \in Slots => ~IsLeaf(T[t][i])

Tree(T, U) == \E path : TreeBy(T, U, path)

\* The call in progress: what is left of a loop over 4 KB pages lies in
\* SmallPages.
OpInv ==
    \/ /\ op \in [kind : {"map", "boot"}, va : Nat, pa : Nat, n : Nat, perm : SUBSET Perms]
       /\ "R" \in op.perm
       /\ op.va .. op.va + op.n - 1 \subseteq SmallPages
    \/ op \in [kind : {"unmap"}, va : Nat, n : Nat]
    \/ op \in [kind : {"raw"}, n : {0}]
    \/ op = Idle

MmuInv ==
    /\ Tree(mmu_tables, mmu_table_used)
    /\ OpInv
    /\ fate \in {"ok", "panic"}
    /\ EnoughTables => fate = "ok"

-----------------------------------------------------------------------------
\* What a tree says of one branch: where it leads, and from where.
LEMMA BranchPath ==
    ASSUME NEW T, NEW U, NEW path, TreeBy(T, U, path), NEW t \in U, NEW i \in Index,
           IsBranch(T[t][i])
    PROVE  /\ T[t][i].ppn \in U /\ path[t] \in Inner
           /\ path[T[t][i].ppn] = Child(path[t], i)
BY DEF TreeBy

\* The index of a page at a level is an index of a table.
LEMMA VpnIndex == \A va \in Nat, l \in 0 .. 2 : vpn(va, l) \in Index
<1> SUFFICES ASSUME NEW va \in Nat, NEW l \in 0 .. 2 PROVE vpn(va, l) \in Index
  OBVIOUS
<1>1. N * N \in Nat \ {0}
  BY SizeAssumption
<1>2. Span(l) \in Nat \ {0}
  BY <1>1, SizeAssumption DEF Span
<1>3. va \div Span(l) \in Int
  BY <1>2
<1> QED
  BY <1>3, SizeAssumption DEF vpn, Index

\* Two inner paths and two indices never lead to the same child, and none to
\* the root.
LEMMA ChildUnique ==
    \A p, q \in Inner, i, j \in Index :
        /\ Child(p, i) = Child(q, j) => p = q /\ i = j
        /\ Child(p, i) # Top
BY SizeAssumption DEF Child, Inner, Top, Index

\* The two turns of the descent.
LEMMA ChildPaths ==
    ASSUME NEW va \in Nat
    PROVE  /\ Top \in Inner /\ Path1(va) \in Inner /\ Path0(va) \notin Inner
           /\ Child(Top, vpn(va, 2)) = Path1(va)
           /\ Child(Path1(va), vpn(va, 1)) = Path0(va)
<1>1. vpn(va, 2) \in Index /\ vpn(va, 1) \in Index
  BY VpnIndex
<1> QED
  BY <1>1, SizeAssumption DEF Child, Inner, Top, Index, Path1, Path0

\* Where the walk finds no table, no table has that path.
LEMMA FreshPath ==
    ASSUME NEW T, NEW U, NEW path, TreeBy(T, U, path),
           NEW t \in U, NEW i \in Index, T[t][i].V = 0, path[t] \in Inner
    PROVE  \A s \in U : path[s] # Child(path[t], i)
<1> SUFFICES ASSUME NEW s \in U, path[s] = Child(path[t], i) PROVE FALSE
  OBVIOUS
<1>1. s # Root
  BY ChildUnique DEF TreeBy
<1>2. PICK r \in U, k \in Index : IsBranch(T[r][k]) /\ T[r][k].ppn = s
  BY <1>1 DEF TreeBy
<1>3. path[r] \in Inner /\ path[s] = Child(path[r], k)
  BY <1>2 DEF TreeBy
<1>4. Child(path[r], k) = Child(path[t], i)
  BY <1>3
<1>5. path[t] \in Inner /\ path[r] \in Inner
  BY <1>3
<1>6. path[r] = path[t] /\ k = i
  BY <1>4, <1>5, ChildUnique
<1>7. r = t
  BY <1>6 DEF TreeBy
<1> QED
  BY <1>2, <1>6, <1>7 DEF IsBranch

\* There are finitely many slots, however many calls there are.
LEMMA SlotsFinite == Slots \subseteq Paths /\ IsFiniteSet(Slots)
<1>1. \A va \in Nat : Path1(va) \in Inner /\ Path0(va) \in Index \X Index
  BY VpnIndex DEF Path1, Path0, Inner
<1>2. Slots \subseteq Paths
  BY <1>1 DEF Slots, SmallPages, MegaPages, Paths, Inner
<1>3. IsFiniteSet(0 .. N)
  BY SizeAssumption, FS_Interval
<1>4. IsFiniteSet((0 .. N) \X (0 .. N))
  BY <1>3, FS_Product
<1>5. Paths \subseteq (0 .. N) \X (0 .. N)
  BY SizeAssumption DEF Paths, Inner, Top, Index
<1> QED
  BY <1>2, <1>4, <1>5, FS_Subset

\* Storing an entry that is no branch over one that is none keeps the tree.
LEMMA LeafStore ==
    ASSUME NEW T, NEW U, NEW path, TreeBy(T, U, path),
           NEW t \in U, NEW i \in Index, NEW p \in PTE,
           ~IsBranch(T[t][i]), ~IsBranch(p),
           path[t] \in Inner /\ Child(path[t], i) \in Slots => ~IsLeaf(p)
    PROVE  TreeBy([T EXCEPT ![t] = [@ EXCEPT ![i] = p]], U, path)
<1> DEFINE W == [T EXCEPT ![t] = [@ EXCEPT ![i] = p]]
<1>1. W \in [Tables -> [Index -> PTE]]
  BY DEF TreeBy
<1>2. \A s \in U, k \in Index : W[s][k] = IF s = t /\ k = i THEN p ELSE T[s][k]
  BY DEF TreeBy
<1>3. \A s \in U, k \in Index : IsBranch(W[s][k]) <=> IsBranch(T[s][k])
  BY <1>2
<1>4. \A s \in U, k \in Index : IsBranch(W[s][k]) => W[s][k].ppn = T[s][k].ppn
  BY <1>2
<1> HIDE DEF W
<1>5. \A s \in U, k \in Index :
         path[s] \in Inner /\ Child(path[s], k) \in Slots => ~IsLeaf(W[s][k])
  BY <1>2 DEF TreeBy
<1>6. \A s \in U, k \in Index : IsBranch(W[s][k]) =>
         /\ W[s][k].ppn \in U
         /\ path[s] \in Inner
         /\ path[W[s][k].ppn] = Child(path[s], k)
  BY <1>3, <1>4 DEF TreeBy
<1>7. \A s \in U \ {Root} : \E r \in U, k \in Index : IsBranch(W[r][k]) /\ W[r][k].ppn = s
  BY <1>3, <1>4 DEF TreeBy
<1>8. TreeBy(W, U, path)
  BY <1>1, <1>5, <1>6, <1>7 DEF TreeBy
<1> QED
  BY <1>8 DEF W

\* Storing a branch to a fresh zeroed table, at a slot that needs one, keeps it.
LEMMA BranchStore ==
    ASSUME NEW T, NEW U, NEW path, TreeBy(T, U, path),
           NEW t \in U, NEW i \in Index, NEW n \in Tables \ U,
           T[t][i].V = 0, path[t] \in Inner, Child(path[t], i) \in Slots
    PROVE  TreeBy([[T EXCEPT ![n] = ZeroTable] EXCEPT ![t] = [@ EXCEPT ![i] = Branch(n)]],
                  U \cup {n},
                  [x \in U \cup {n} |-> IF x = n THEN Child(path[t], i) ELSE path[x]])
<1> DEFINE W == [[T EXCEPT ![n] = ZeroTable] EXCEPT ![t] = [@ EXCEPT ![i] = Branch(n)]]
           Q == [x \in U \cup {n} |-> IF x = n THEN Child(path[t], i) ELSE path[x]]
           V == U \cup {n}
<1>0. Zero \in PTE /\ Branch(n) \in PTE /\ IsBranch(Branch(n)) /\ ~IsLeaf(Branch(n))
        /\ Branch(n).ppn = n /\ ~IsBranch(Zero) /\ ~IsLeaf(Zero)
  BY SizeAssumption DEF Zero, Branch, PTE, IsBranch, IsLeaf, Tables
<1>1. W \in [Tables -> [Index -> PTE]]
  BY <1>0 DEF TreeBy, ZeroTable
<1>2. \A s \in V, k \in Index :
         W[s][k] = IF s = n THEN Zero ELSE IF s = t /\ k = i THEN Branch(n) ELSE T[s][k]
  BY DEF TreeBy, ZeroTable
<1>3. ~IsBranch(T[t][i])
  BY DEF IsBranch
<1>4. \A s \in U : path[s] # Child(path[t], i)
  BY FreshPath
<1> HIDE DEF W
<1>5. Q \in [V -> Slots] /\ Q[Root] = Top /\ \A s \in U : Q[s] = path[s]
  BY DEF TreeBy
<1>6. Q[n] = Child(path[t], i)
  OBVIOUS
<1> HIDE DEF Q
<1>7. \A s, r \in V : Q[s] = Q[r] => s = r
  BY <1>4, <1>5, <1>6 DEF TreeBy
<1>8. \A s \in V, k \in Index : IsBranch(W[s][k]) =>
         /\ W[s][k].ppn \in V
         /\ Q[s] \in Inner
         /\ Q[W[s][k].ppn] = Child(Q[s], k)
  BY <1>0, <1>2, <1>5, <1>6 DEF TreeBy
<1>9. \A s \in V \ {Root} : \E r \in V, k \in Index : IsBranch(W[r][k]) /\ W[r][k].ppn = s
  <2>1. IsBranch(W[t][i]) /\ W[t][i].ppn = n
    BY <1>0, <1>2
  <2>2. ASSUME NEW s \in U \ {Root}
        PROVE  \E r \in V, k \in Index : IsBranch(W[r][k]) /\ W[r][k].ppn = s
    <3>1. PICK r \in U, k \in Index : IsBranch(T[r][k]) /\ T[r][k].ppn = s
      BY DEF TreeBy
    <3>2. W[r][k] = T[r][k]
      BY <1>2, <1>3, <3>1
    <3> QED
      BY <3>1, <3>2
  <2> QED
    BY <2>1, <2>2
<1>10. \A s \in V, k \in Index :
         Q[s] \in Inner /\ Child(Q[s], k) \in Slots => ~IsLeaf(W[s][k])
  BY <1>0, <1>2, <1>5 DEF TreeBy
<1>11. V \subseteq Tables /\ Root \in V
  BY DEF TreeBy
<1>12. TreeBy(W, V, Q)
  BY <1>1, <1>5, <1>7, <1>8, <1>9, <1>10, <1>11 DEF TreeBy
<1> QED
  BY <1>12 DEF W, Q

\* While a slot has no table yet, the pool has one left.
LEMMA PoolSuffices ==
    ASSUME NEW T, NEW U, NEW path, TreeBy(T, U, path), EnoughTables,
           NEW t \in U, NEW i \in Index,
           T[t][i].V = 0, path[t] \in Inner, Child(path[t], i) \in Slots
    PROVE  ~(Tables \subseteq U)
<1> SUFFICES ASSUME Tables \subseteq U PROVE FALSE
  OBVIOUS
<1>1. U = Tables /\ path \in [U -> Slots \ {Child(path[t], i)}]
  <2>1. \A s \in U : path[s] # Child(path[t], i)
    BY FreshPath
  <2> QED
    BY <2>1 DEF TreeBy
<1>2. IsFiniteSet(Slots)
  BY SlotsFinite
<1>3. IsFiniteSet(Slots \ {Child(path[t], i)})
        /\ Cardinality(Slots \ {Child(path[t], i)}) = Cardinality(Slots) - 1
  BY <1>2, FS_RemoveElement
<1>4. IsFiniteSet(Tables) /\ Cardinality(Tables) = NumTables
  BY SizeAssumption, FS_Interval DEF Tables
<1>5. path \in Injection(Tables, Slots \ {Child(path[t], i)})
  BY <1>1 DEF Injection, IsInjective, TreeBy
<1>6. Cardinality(Tables) <= Cardinality(Slots \ {Child(path[t], i)})
  BY <1>3, <1>4, <1>5, FS_Injection
<1>7. Cardinality(Slots) \in Nat
  BY <1>2, FS_CardinalityType
<1> QED
  BY <1>3, <1>4, <1>6, <1>7, SizeAssumption DEF EnoughTables

-----------------------------------------------------------------------------
(***************************************************************************)
(* The walk, on tables T: where it ends, and what a store changes.         *)
(***************************************************************************)
\* The path of the table in which the walk of a page looks at level l.
PathAt(va, l) == CASE l = 2 -> Top [] l = 1 -> Path1(va) [] l = 0 -> Path0(va)

WalkIn(T, va) ==
    LET p2 == T[Root][vpn(va, 2)]
        p1 == T[p2.ppn][vpn(va, 1)]
        p0 == T[p1.ppn][vpn(va, 0)]
    IN  IF p2.V = 0 THEN Fault
        ELSE IF IsLeaf(p2) THEN Translate(p2, va, 2)
        ELSE IF p1.V = 0 THEN Fault
        ELSE IF IsLeaf(p1) THEN Translate(p1, va, 1)
        ELSE IF IsLeaf(p0) THEN Translate(p0, va, 0) ELSE Fault

\* What an entry that is no branch says of a page, met at level l.
Resolve(p, va, l) == IF IsLeaf(p) THEN Translate(p, va, l) ELSE Fault

\* The table with the path of a page is the one its walk comes to.
LEMMA Reached ==
    ASSUME NEW T, NEW U, NEW path, TreeBy(T, U, path), NEW va \in Nat, NEW t \in U
    PROVE  /\ path[t] = Path1(va) =>
                IsBranch(T[Root][vpn(va, 2)]) /\ T[Root][vpn(va, 2)].ppn = t
           /\ path[t] = Path0(va) => \E s \in U :
                /\ path[s] = Path1(va)
                /\ IsBranch(T[s][vpn(va, 1)]) /\ T[s][vpn(va, 1)].ppn = t
<1>1. vpn(va, 2) \in Index /\ vpn(va, 1) \in Index
  BY VpnIndex
<1>2. /\ Top \in Inner /\ Path1(va) \in Inner /\ Path0(va) \notin Inner
      /\ Child(Top, vpn(va, 2)) = Path1(va) /\ Child(Path1(va), vpn(va, 1)) = Path0(va)
  BY ChildPaths
<1>3. Root \in U /\ path[Root] = Top
  BY DEF TreeBy
<1>4. \A p \in Inner, i \in Index : path[t] = Child(p, i) =>
        \E s \in U : path[s] = p /\ IsBranch(T[s][i]) /\ T[s][i].ppn = t
  <2> SUFFICES ASSUME NEW p \in Inner, NEW i \in Index, path[t] = Child(p, i)
               PROVE  \E s \in U : path[s] = p /\ IsBranch(T[s][i]) /\ T[s][i].ppn = t
    OBVIOUS
  <2>1. t # Root
    BY <1>3, ChildUnique
  <2>2. PICK s \in U, k \in Index : IsBranch(T[s][k]) /\ T[s][k].ppn = t
    BY <2>1 DEF TreeBy
  <2>3. path[s] \in Inner /\ Child(path[s], k) = Child(p, i)
    BY <2>2 DEF TreeBy
  <2>4. path[s] = p /\ k = i
    BY <2>3, ChildUnique
  <2> QED
    BY <2>2, <2>4
<1>5. ASSUME path[t] = Path1(va)
      PROVE  IsBranch(T[Root][vpn(va, 2)]) /\ T[Root][vpn(va, 2)].ppn = t
  <2>1. PICK s \in U : path[s] = Top /\ IsBranch(T[s][vpn(va, 2)]) /\ T[s][vpn(va, 2)].ppn = t
    BY <1>1, <1>2, <1>4, <1>5
  <2>2. s = Root
    BY <1>3, <2>1 DEF TreeBy
  <2> QED
    BY <2>1, <2>2
<1>6. ASSUME path[t] = Path0(va)
      PROVE  \E s \in U : /\ path[s] = Path1(va)
                          /\ IsBranch(T[s][vpn(va, 1)]) /\ T[s][vpn(va, 1)].ppn = t
  BY <1>1, <1>2, <1>4, <1>6
<1> QED
  BY <1>5, <1>6

\* A walk that meets an entry that is no branch ends there.
LEMMA WalkStops ==
    ASSUME NEW T, NEW U, NEW path, TreeBy(T, U, path), NEW va \in Nat,
           NEW l \in 0 .. 2, NEW t \in U, path[t] = PathAt(va, l),
           ~IsBranch(T[t][vpn(va, l)])
    PROVE  WalkIn(T, va) = Resolve(T[t][vpn(va, l)], va, l)
<1>1. \A k \in 0 .. 2 : vpn(va, k) \in Index
  BY VpnIndex
<1>2. \A s \in U, k \in 0 .. 2 : T[s][vpn(va, k)] \in PTE
  BY <1>1 DEF TreeBy
<1>3. \A p \in PTE : ~IsBranch(p) /\ ~IsLeaf(p) <=> p.V = 0
  BY DEF PTE, IsBranch, IsLeaf
<1>4. \A p : IsBranch(p) => p.V # 0 /\ ~IsLeaf(p)
  BY DEF IsBranch, IsLeaf
<1>5. CASE l = 2
  <2>1. t = Root
    BY <1>5 DEF PathAt, TreeBy
  <2>2. T[Root][vpn(va, 2)] \in PTE /\ ~IsBranch(T[Root][vpn(va, 2)])
    BY <1>2, <1>5, <2>1
  <2>3. T[Root][vpn(va, 2)].V = 0 <=> ~IsLeaf(T[Root][vpn(va, 2)])
    BY <1>3, <2>2
  <2> QED
    BY <1>5, <2>1, <2>3 DEF WalkIn, Resolve
<1>6. CASE l = 1
  <2>1. path[t] = Path1(va)
    BY <1>6 DEF PathAt
  <2>2. IsBranch(T[Root][vpn(va, 2)]) /\ T[Root][vpn(va, 2)].ppn = t
    BY <2>1, Reached
  <2>3. T[t][vpn(va, 1)] \in PTE /\ ~IsBranch(T[t][vpn(va, 1)])
    BY <1>2, <1>6
  <2>4. T[t][vpn(va, 1)].V = 0 <=> ~IsLeaf(T[t][vpn(va, 1)])
    BY <1>3, <2>3
  <2> QED
    BY <1>4, <1>6, <2>2, <2>4 DEF WalkIn, Resolve
<1>7. CASE l = 0
  <2>1. path[t] = Path0(va)
    BY <1>7 DEF PathAt
  <2>2. PICK s \in U : /\ path[s] = Path1(va)
                       /\ IsBranch(T[s][vpn(va, 1)]) /\ T[s][vpn(va, 1)].ppn = t
    BY <2>1, Reached
  <2>3. IsBranch(T[Root][vpn(va, 2)]) /\ T[Root][vpn(va, 2)].ppn = s
    BY <2>2, Reached
  <2> QED
    BY <1>4, <1>7, <2>2, <2>3 DEF WalkIn, Resolve
<1> QED
  BY <1>5, <1>6, <1>7

\* Every walk ends at an entry of a used table.
LEMMA WalkEnds ==
    ASSUME NEW T, NEW U, NEW path, TreeBy(T, U, path), NEW va \in Nat
    PROVE  \E l \in 0 .. 2, t \in U :
             path[t] = PathAt(va, l) /\ ~IsBranch(T[t][vpn(va, l)])
<1>1. vpn(va, 2) \in Index /\ vpn(va, 1) \in Index /\ vpn(va, 0) \in Index
  BY VpnIndex
<1>2. /\ Path0(va) \notin Inner
      /\ Child(Top, vpn(va, 2)) = Path1(va) /\ Child(Path1(va), vpn(va, 1)) = Path0(va)
  BY ChildPaths
<1>3. PathAt(va, 2) = Top /\ PathAt(va, 1) = Path1(va) /\ PathAt(va, 0) = Path0(va)
  BY DEF PathAt
<1> DEFINE t1 == T[Root][vpn(va, 2)].ppn
           t0 == T[t1][vpn(va, 1)].ppn
<1>4. CASE ~IsBranch(T[Root][vpn(va, 2)])
  BY <1>3, <1>4 DEF TreeBy
<1>5. CASE IsBranch(T[Root][vpn(va, 2)])
  <2>1. t1 \in U /\ path[t1] = Path1(va)
    BY <1>1, <1>2, <1>5 DEF TreeBy
  <2>2. CASE ~IsBranch(T[t1][vpn(va, 1)])
    BY <1>3, <2>1, <2>2
  <2>3. CASE IsBranch(T[t1][vpn(va, 1)])
    <3>1. t0 \in U /\ path[t0] = Path0(va)
      <4>1. t0 \in U /\ path[t0] = Child(path[t1], vpn(va, 1))
        BY <1>1, <2>1, <2>3, BranchPath
      <4> QED
        BY <1>2, <2>1, <4>1
    <3>2. ~IsBranch(T[t0][vpn(va, 0)])
      BY <1>1, <1>2, <3>1, BranchPath
    <3>3. path[t0] = PathAt(va, 0) /\ 0 \in 0 .. 2
      BY <1>3, <3>1
    <3> HIDE DEF t0
    <3> QED
      BY <3>1, <3>2, <3>3
  <2> QED
    BY <2>2, <2>3
<1> QED
  BY <1>4, <1>5

\* A store that neither makes nor breaks a branch changes the walks that meet
\* its entry, to what the new entry says, and no others.
LEMMA StoreWalk ==
    ASSUME NEW T, NEW W, NEW U, NEW path, TreeBy(T, U, path), TreeBy(W, U, path),
           NEW t \in U, NEW i \in Index, NEW p, ~IsBranch(T[t][i]), ~IsBranch(p),
           \A s \in U, k \in Index : W[s][k] = IF s = t /\ k = i THEN p ELSE T[s][k],
           NEW va \in Nat
    PROVE  \/ WalkIn(W, va) = WalkIn(T, va)
           \/ \E l \in 0 .. 2 :
                /\ path[t] = PathAt(va, l) /\ i = vpn(va, l)
                /\ WalkIn(W, va) = Resolve(p, va, l)
<1>1. PICK l \in 0 .. 2, s \in U : path[s] = PathAt(va, l) /\ ~IsBranch(T[s][vpn(va, l)])
  BY WalkEnds
<1>2. vpn(va, l) \in Index
  BY VpnIndex
<1>3. W[s][vpn(va, l)] = IF s = t /\ vpn(va, l) = i THEN p ELSE T[s][vpn(va, l)]
  BY <1>2
<1>4. ~IsBranch(W[s][vpn(va, l)])
  BY <1>1, <1>3
<1>5. WalkIn(W, va) = Resolve(W[s][vpn(va, l)], va, l)
  BY <1>1, <1>4, WalkStops
<1>6. WalkIn(T, va) = Resolve(T[s][vpn(va, l)], va, l)
  BY <1>1, WalkStops
<1> QED
  BY <1>1, <1>3, <1>5, <1>6

\* A branch to a fresh zeroed table changes no walk.
LEMMA BranchWalk ==
    ASSUME NEW T, NEW W, NEW U, NEW path, NEW q, TreeBy(T, U, path),
           NEW n \in Tables \ U, TreeBy(W, U \cup {n}, q),
           NEW t \in U, NEW i \in Index, T[t][i].V = 0, path[t] \in Inner,
           \A s \in U, k \in Index :
               W[s][k] = IF s = t /\ k = i THEN Branch(n) ELSE T[s][k],
           \A k \in Index : W[n][k] = Zero,
           \A s \in U : q[s] = path[s], q[n] = Child(path[t], i), NEW va \in Nat
    PROVE  WalkIn(W, va) = WalkIn(T, va)
<1>1. PICK l \in 0 .. 2, s \in U : path[s] = PathAt(va, l) /\ ~IsBranch(T[s][vpn(va, l)])
  BY WalkEnds
<1>2. \A k \in 0 .. 2 : vpn(va, k) \in Index
  BY VpnIndex
<1>3. WalkIn(T, va) = Resolve(T[s][vpn(va, l)], va, l)
  BY <1>1, WalkStops
<1>4. CASE ~(s = t /\ vpn(va, l) = i)
  <2>1. W[s][vpn(va, l)] = T[s][vpn(va, l)]
    BY <1>2, <1>4
  <2>2. s \in U \cup {n} /\ q[s] = PathAt(va, l) /\ ~IsBranch(W[s][vpn(va, l)])
    BY <1>1, <2>1
  <2>3. WalkIn(W, va) = Resolve(W[s][vpn(va, l)], va, l)
    BY <2>2, WalkStops
  <2> QED
    BY <1>3, <2>1, <2>3
<1>5. CASE s = t /\ vpn(va, l) = i
  <2>1. ~IsLeaf(T[t][i])
    BY DEF IsLeaf
  <2>2. WalkIn(T, va) = Fault
    BY <1>3, <1>5, <2>1 DEF Resolve
  <2>3. /\ Path0(va) \notin Inner
        /\ Child(Top, vpn(va, 2)) = Path1(va) /\ Child(Path1(va), vpn(va, 1)) = Path0(va)
        /\ PathAt(va, 2) = Top /\ PathAt(va, 1) = Path1(va) /\ PathAt(va, 0) = Path0(va)
    BY ChildPaths DEF PathAt
  <2>4. \E k \in 0 .. 2 : q[n] = PathAt(va, k)
    <3>1. CASE l = 2
      BY <1>1, <1>5, <2>3, <3>1
    <3>2. CASE l = 1
      BY <1>1, <1>5, <2>3, <3>2
    <3>3. CASE l = 0
      BY <1>1, <1>5, <2>3, <3>3
    <3> QED
      BY <3>1, <3>2, <3>3
  <2>5. PICK k \in 0 .. 2 : q[n] = PathAt(va, k)
    BY <2>4
  <2>6. W[n][vpn(va, k)] = Zero
    BY <1>2
  <2>7. ~IsBranch(Zero) /\ ~IsLeaf(Zero)
    BY DEF Zero, IsBranch, IsLeaf
  <2>8. WalkIn(W, va) = Resolve(Zero, va, k)
    BY <2>5, <2>6, <2>7, WalkStops
  <2> QED
    BY <2>2, <2>7, <2>8 DEF Resolve
<1> QED
  BY <1>4, <1>5

\* A page that meets an entry knows its level from the table's path.
LEMMA PathLevel ==
    ASSUME NEW u \in Nat, NEW v \in Nat, NEW k \in 0 .. 2, NEW l \in 0 .. 2,
           PathAt(u, k) = PathAt(v, l)
    PROVE  k = l
<1>1. /\ Path1(u) \in Inner /\ Path0(u) \notin Inner /\ Path1(u) # Top
      /\ Path1(v) \in Inner /\ Path0(v) \notin Inner /\ Path1(v) # Top /\ Top \in Inner
  <2>1. vpn(u, 2) \in Index /\ vpn(v, 2) \in Index
    BY VpnIndex
  <2>2. Path1(u) # Top /\ Path1(v) # Top
    BY <2>1, SizeAssumption DEF Path1, Top, Index
  <2> QED
    BY <2>2, ChildPaths
<1>2. k \in {0, 1, 2} /\ l \in {0, 1, 2}
  OBVIOUS
<1>3. /\ k = 2 => PathAt(u, k) = Top
      /\ k = 1 => PathAt(u, k) = Path1(u)
      /\ k = 0 => PathAt(u, k) = Path0(u)
      /\ l = 2 => PathAt(v, l) = Top
      /\ l = 1 => PathAt(v, l) = Path1(v)
      /\ l = 0 => PathAt(v, l) = Path0(v)
  BY DEF PathAt
<1> QED
  BY <1>1, <1>2, <1>3

\* No page is translated differently, or those that meet one entry of level l
\* are, each as the entry said before and says now.
Same(T, W) == \A v \in Nat : WalkIn(W, v) = WalkIn(T, v)

LeafChange(T, W, l, P, i, o, p) ==
    \A v \in Nat :
        IF PathAt(v, l) = P /\ vpn(v, l) = i
        THEN WalkIn(T, v) = Resolve(o, v, l) /\ WalkIn(W, v) = Resolve(p, v, l)
        ELSE WalkIn(W, v) = WalkIn(T, v)

OneChange(T, W) ==
    \/ Same(T, W)
    \/ \E l \in 0 .. 2 : \E o, p \in PTE : \E P, i : LeafChange(T, W, l, P, i, o, p)

\* The pages that meet the entry of va at level l are translated by p, and no
\* other page is translated differently.
Effect(T, W, va, l, p) ==
    \A v \in Nat :
        IF PathAt(v, l) = PathAt(va, l) /\ vpn(v, l) = vpn(va, l)
        THEN WalkIn(W, v) = Resolve(p, v, l)
        ELSE WalkIn(W, v) = WalkIn(T, v)

\* A store over an entry that is no branch is such a change.
LEMMA StoreChange ==
    ASSUME NEW T, NEW W, NEW U, NEW path, TreeBy(T, U, path), TreeBy(W, U, path),
           NEW t \in U, NEW i \in Index, NEW p \in PTE, ~IsBranch(T[t][i]), ~IsBranch(p),
           \A s \in U, k \in Index : W[s][k] = IF s = t /\ k = i THEN p ELSE T[s][k]
    PROVE  /\ OneChange(T, W)
           /\ \A v \in Nat : \/ WalkIn(W, v) = WalkIn(T, v)
                             \/ \E l \in 0 .. 2 : path[t] = PathAt(v, l) /\ i = vpn(v, l)
<1>1. \A v \in Nat :
        \/ WalkIn(W, v) = WalkIn(T, v)
        \/ \E l \in 0 .. 2 : path[t] = PathAt(v, l) /\ i = vpn(v, l)
  BY StoreWalk
<1>2. CASE \A v \in Nat : WalkIn(W, v) = WalkIn(T, v)
  BY <1>1, <1>2 DEF OneChange, Same
<1>3. CASE ~(\A v \in Nat : WalkIn(W, v) = WalkIn(T, v))
  <2>1. PICK u \in Nat, l \in 0 .. 2 : path[t] = PathAt(u, l) /\ i = vpn(u, l)
    BY <1>1, <1>3
  <2>2. ASSUME NEW v \in Nat, PathAt(v, l) = path[t], vpn(v, l) = i
        PROVE  WalkIn(T, v) = Resolve(T[t][i], v, l) /\ WalkIn(W, v) = Resolve(p, v, l)
    <3>1. W[t][i] = p /\ ~IsBranch(W[t][vpn(v, l)]) /\ ~IsBranch(T[t][vpn(v, l)])
      BY <2>2
    <3>2. WalkIn(T, v) = Resolve(T[t][vpn(v, l)], v, l)
      BY <2>2, <3>1, WalkStops
    <3>3. WalkIn(W, v) = Resolve(W[t][vpn(v, l)], v, l)
      BY <2>2, <3>1, WalkStops
    <3> QED
      BY <2>2, <3>1, <3>2, <3>3
  <2>3. ASSUME NEW v \in Nat, ~(PathAt(v, l) = path[t] /\ vpn(v, l) = i)
        PROVE  WalkIn(W, v) = WalkIn(T, v)
    <3> SUFFICES ASSUME NEW k \in 0 .. 2, path[t] = PathAt(v, k), i = vpn(v, k) PROVE FALSE
      BY <1>1
    <3>1. PathAt(v, k) = PathAt(u, l)
      BY <2>1
    <3>2. k = l
      BY <3>1, PathLevel
    <3> QED
      BY <2>3, <3>2
  <2>4. LeafChange(T, W, l, path[t], i, T[t][i], p)
    BY <2>2, <2>3 DEF LeafChange
  <2>5. T[t][i] \in PTE
    BY DEF TreeBy
  <2> QED
    BY <1>1, <2>4, <2>5 DEF OneChange
<1> QED
  BY <1>2, <1>3

\* The store has the effect of its entry on the pages that meet it.
LEMMA StoreEffect ==
    ASSUME NEW T, NEW W, NEW U, NEW path, TreeBy(T, U, path), TreeBy(W, U, path),
           NEW t \in U, NEW i \in Index, NEW p \in PTE, ~IsBranch(T[t][i]), ~IsBranch(p),
           \A s \in U, k \in Index : W[s][k] = IF s = t /\ k = i THEN p ELSE T[s][k],
           NEW va \in Nat, NEW l \in 0 .. 2, path[t] = PathAt(va, l), i = vpn(va, l)
    PROVE  Effect(T, W, va, l, p)
<1>1. ASSUME NEW v \in Nat, PathAt(v, l) = PathAt(va, l), vpn(v, l) = vpn(va, l)
      PROVE  WalkIn(W, v) = Resolve(p, v, l)
  <2>1. W[t][vpn(v, l)] = p /\ path[t] = PathAt(v, l)
    BY <1>1
  <2>2. WalkIn(W, v) = Resolve(W[t][vpn(v, l)], v, l)
    BY <2>1, WalkStops
  <2> QED
    BY <2>1, <2>2
<1>2. ASSUME NEW v \in Nat, ~(PathAt(v, l) = PathAt(va, l) /\ vpn(v, l) = vpn(va, l))
      PROVE  WalkIn(W, v) = WalkIn(T, v)
  <2> SUFFICES ASSUME NEW k \in 0 .. 2, path[t] = PathAt(v, k), i = vpn(v, k) PROVE FALSE
    BY StoreChange
  <2>1. PathAt(v, k) = PathAt(va, l)
    OBVIOUS
  <2>2. k = l
    BY <2>1, PathLevel
  <2> QED
    BY <1>2, <2>2
<1> QED
  BY <1>1, <1>2 DEF Effect

\* What comes before with no change can be left out.
LEMMA SameEffect ==
    ASSUME NEW T, NEW V, NEW W, NEW va, NEW l, NEW p, Same(T, V), Effect(V, W, va, l, p)
    PROVE  Effect(T, W, va, l, p)
BY DEF Same, Effect

\* What comes before or after with no change can be left out.
LEMMA SameChange ==
    ASSUME NEW T, NEW V, NEW W, Same(T, V), OneChange(V, W)
    PROVE  OneChange(T, W)
<1>1. CASE Same(V, W)
  BY <1>1 DEF OneChange, Same
<1>2. CASE \E l \in 0 .. 2 : \E o, p \in PTE : \E P, i : LeafChange(V, W, l, P, i, o, p)
  <2>1. PICK l \in 0 .. 2 : \E o, p \in PTE : \E P, i : LeafChange(V, W, l, P, i, o, p)
    BY <1>2
  <2>2. PICK o \in PTE, p \in PTE : \E P, i : LeafChange(V, W, l, P, i, o, p)
    BY <2>1
  <2>3. PICK P, i : LeafChange(V, W, l, P, i, o, p)
    BY <2>2
  <2>4. LeafChange(T, W, l, P, i, o, p)
    BY <2>3 DEF LeafChange, Same
  <2> QED
    BY <2>4 DEF OneChange
<1> QED
  BY <1>1, <1>2 DEF OneChange

-----------------------------------------------------------------------------
\* The state record of the functions that write tables.
States == [t : [Tables -> [Index -> PTE]], u : SUBSET Tables, f : {"ok", "panic"}]

\* alloc_table hands out an unused table.
LEMMA FreeTable ==
    ASSUME NEW U, ~(Tables \subseteq U)
    PROVE  FirstFree(U) \in Tables \ U
<1> DEFINE F == Tables \ U
<1>1. F \subseteq Nat /\ F # {}
  BY SizeAssumption DEF Tables
<1>2. \E n \in F : \A m \in F : n <= m
  <2> DEFINE R == OpToRel(<, Nat)
  <2>1. IsWellFoundedOn(R, Nat)
    BY NatLessThanWellFounded
  <2> HIDE DEF R
  <2>2. PICK n \in F : \A m \in F : ~(<<m, n>> \in R)
    BY <1>1, <2>1, WFMin
  <2>3. \A m \in F : ~(m < n)
    BY <1>1, <2>2 DEF R, OpToRel
  <2> QED
    BY <1>1, <2>3
<1> QED
  BY <1>2 DEF FirstFree

\* One turn of the descent, at a slot that needs a table: it ends in a panic,
\* with the tree as it was, or at a branch, with the paths of all tables kept.
\* No page is translated differently.
LEMMA DescendStep ==
    ASSUME NEW s \in States, NEW path, TreeBy(s.t, s.u, path), s.f = "ok",
           NEW t \in s.u, NEW i \in Index,
           path[t] \in Inner, Child(path[t], i) \in Slots
    PROVE  \E r, q :
             /\ r \in States /\ r = Descend(s, t, i) /\ TreeBy(r.t, r.u, q)
             /\ Same(s.t, r.t)
             /\ EnoughTables => r.f = "ok"
             /\ r.f = "ok" =>
                  /\ r.t[t][i].ppn \in r.u
                  /\ q[t] = path[t]
                  /\ q[r.t[t][i].ppn] = Child(path[t], i)
<1>1. t \in Tables /\ s.t[t][i] \in PTE
  BY DEF TreeBy
<1>2. CASE s.t[t][i].V # 0
  <2>1. Descend(s, t, i) = s
    BY <1>1, <1>2 DEF Descend
  <2>2. IsBranch(s.t[t][i])
    BY <1>1, <1>2 DEF TreeBy, IsBranch, IsLeaf, PTE
  <2>3. s.t[t][i].ppn \in s.u /\ path[s.t[t][i].ppn] = Child(path[t], i)
    BY <2>2 DEF TreeBy
  <2> QED
    BY <2>1, <2>3 DEF Same
<1>3. CASE s.t[t][i].V = 0 /\ Tables \subseteq s.u
  <2> DEFINE r == [s EXCEPT !.f = "panic"]
  <2>1. alloc_table(s) = r
    BY <1>3 DEF alloc_table
  <2>2. r.f = "panic" /\ r.t = s.t /\ r.u = s.u /\ r \in States
    BY DEF States
  <2>3. Descend(s, t, i) = r
    BY <1>1, <1>3, <2>1, <2>2 DEF Descend, Store
  <2>4. ~EnoughTables
    BY <1>3, PoolSuffices
  <2> HIDE DEF r
  <2>5. Same(s.t, r.t)
    BY <2>2 DEF Same
  <2> QED
    BY <2>2, <2>3, <2>4, <2>5
<1>4. CASE s.t[t][i].V = 0 /\ ~(Tables \subseteq s.u)
  <2> DEFINE n == FirstFree(s.u)
             W1 == [s.t EXCEPT ![n] = ZeroTable]
             W == [W1 EXCEPT ![t] = [@ EXCEPT ![i] = Branch(n)]]
             V == s.u \cup {n}
             q == [x \in s.u \cup {n} |-> IF x = n THEN Child(path[t], i) ELSE path[x]]
             a == [t |-> W1, u |-> V, f |-> s.f]
             r == [a EXCEPT !.t[t][i] = Branch(n)]
  <2>1. n \in Tables \ s.u
    BY <1>4, FreeTable
  <2> HIDE DEF n
  <2>2. TreeBy(W, V, q)
    BY <1>4, <2>1, BranchStore
  <2>3. a = [t |-> W1, u |-> V, f |-> "ok"]
    OBVIOUS
  <2> HIDE DEF a, W1
  <2>4. r = [t |-> W, u |-> V, f |-> "ok"]
    BY <2>3
  <2> HIDE DEF r, W
  <2>5. r.t = W /\ r.u = V /\ r.f = "ok" /\ a.f = "ok"
    BY <2>3, <2>4
  <2>6. W \in [Tables -> [Index -> PTE]] /\ V \subseteq Tables
    BY <2>2 DEF TreeBy
  <2>7. r \in States
    BY <2>4, <2>6 DEF States
  <2>8. alloc_table(s) = a
    BY <1>4 DEF alloc_table, n, a, W1
  <2>9. Descend(s, t, i) = r
    BY <1>1, <1>4, <2>5, <2>8 DEF Descend, Store, n, r
  <2>10. W[t][i] = Branch(n)
    BY <1>1, <2>1 DEF TreeBy, W, W1
  <2>11. W[t][i].ppn = n
    BY <2>10 DEF Branch
  <2>12. q[t] = path[t] /\ q[n] = Child(path[t], i)
    BY <2>1
  <2>13. \A x \in s.u : q[x] = path[x]
    BY <2>1
  <2>14. /\ \A x \in s.u, k \in Index :
              W[x][k] = IF x = t /\ k = i THEN Branch(n) ELSE s.t[x][k]
         /\ \A k \in Index : W[n][k] = Zero
    BY <1>1, <2>1 DEF TreeBy, W, W1, ZeroTable
  <2> HIDE DEF q
  <2>15. Same(s.t, W)
    BY <1>4, <2>1, <2>2, <2>12, <2>13, <2>14, BranchWalk DEF Same
  <2> QED
    BY <2>2, <2>5, <2>7, <2>9, <2>11, <2>12, <2>15 DEF V
<1> QED
  BY <1>2, <1>3, <1>4

\* Storing through an entry of a used table keeps the tree, when it neither
\* makes nor breaks a branch.
LEMMA StoreStep ==
    ASSUME NEW s \in States, NEW path, TreeBy(s.t, s.u, path), s.f = "ok",
           NEW t \in s.u, NEW i \in Index, NEW p \in PTE,
           ~IsBranch(s.t[t][i]), ~IsBranch(p),
           path[t] \in Inner /\ Child(path[t], i) \in Slots => ~IsLeaf(p)
    PROVE  \E r \in States :
             /\ r = Store(s, t, i, p) /\ TreeBy(r.t, r.u, path) /\ r.f = "ok"
             /\ OneChange(s.t, r.t)
             /\ \A v \in Nat :
                  \/ WalkIn(r.t, v) = WalkIn(s.t, v)
                  \/ \E l \in 0 .. 2 : path[t] = PathAt(v, l) /\ i = vpn(v, l)
             /\ \A v \in Nat, l \in 0 .. 2 :
                  path[t] = PathAt(v, l) /\ i = vpn(v, l) => Effect(s.t, r.t, v, l, p)
<1> DEFINE W == [s.t EXCEPT ![t] = [@ EXCEPT ![i] = p]]
           r == [t |-> W, u |-> s.u, f |-> "ok"]
<1>1. TreeBy(W, s.u, path)
  BY LeafStore
<1>2. t \in Tables
  BY DEF TreeBy
<1>3. Store(s, t, i, p) = r
  BY <1>2 DEF Store, States
<1>4. W \in [Tables -> [Index -> PTE]]
  BY <1>1 DEF TreeBy
<1>5. \A x \in s.u, k \in Index : W[x][k] = IF x = t /\ k = i THEN p ELSE s.t[x][k]
  BY DEF TreeBy
<1> HIDE DEF W
<1>6. r \in States
  BY <1>4 DEF States
<1>7. /\ OneChange(s.t, W)
      /\ \A v \in Nat : \/ WalkIn(W, v) = WalkIn(s.t, v)
                        \/ \E l \in 0 .. 2 : path[t] = PathAt(v, l) /\ i = vpn(v, l)
  BY <1>1, <1>5, StoreChange
<1>8. r.t = W /\ r.u = s.u /\ r.f = "ok"
  OBVIOUS
<1>9. \A v \in Nat, l \in 0 .. 2 :
         path[t] = PathAt(v, l) /\ i = vpn(v, l) => Effect(s.t, W, v, l, p)
  BY <1>1, <1>5, StoreEffect
<1> HIDE DEF r
<1> QED
  BY <1>1, <1>3, <1>6, <1>7, <1>8, <1>9

\* A mapping call on a page keeps the tree and never writes through a leaf; it
\* panics only if the pool is smaller than the slots.
LEMMA MapStepTree ==
    ASSUME NEW s \in States, Tree(s.t, s.u), s.f = "ok",
           NEW va \in Nat, NEW level \in 0 .. 2, NEW p \in PTE, ~IsBranch(p),
           level < 2 => Path1(va) \in Slots,
           level = 2 => Path1(va) \notin Slots,
           level < 1 => Path0(va) \in Slots,
           level = 1 => Path0(va) \notin Slots
    PROVE  \E r \in States :
             /\ r = map_at(s, va, level, p) /\ Tree(r.t, r.u)
             /\ EnoughTables => r.f = "ok"
             /\ OneChange(s.t, r.t)
             /\ IF r.f = "ok" THEN Effect(s.t, r.t, va, level, p) ELSE Same(s.t, r.t)
<1> DEFINE i2 == vpn(va, 2)
           i1 == vpn(va, 1)
<1>1. i2 \in Index /\ i1 \in Index /\ vpn(va, 0) \in Index
  BY VpnIndex
<1>2. /\ Top \in Inner /\ Path1(va) \in Inner /\ Path0(va) \notin Inner
      /\ Child(Top, i2) = Path1(va) /\ Child(Path1(va), i1) = Path0(va)
  BY ChildPaths
<1>3. PICK path : TreeBy(s.t, s.u, path)
  BY DEF Tree
<1>4. Root \in s.u /\ path[Root] = Top
  BY <1>3 DEF TreeBy
<1>4a. PathAt(va, 2) = Top /\ PathAt(va, 1) = Path1(va) /\ PathAt(va, 0) = Path0(va)
  BY DEF PathAt
<1>4b. i2 = vpn(va, 2) /\ i1 = vpn(va, 1)
  OBVIOUS
<1> HIDE DEF i1, i2
<1>5. CASE level = 2
  <2>1. ~IsBranch(s.t[Root][i2])
    BY <1>1, <1>2, <1>3, <1>4, <1>5 DEF TreeBy
  <2>2. PICK r \in States :
          /\ r = Store(s, Root, i2, p) /\ TreeBy(r.t, r.u, path) /\ r.f = "ok"
          /\ OneChange(s.t, r.t)
          /\ \A v \in Nat, l \in 0 .. 2 :
               path[Root] = PathAt(v, l) /\ i2 = vpn(v, l) => Effect(s.t, r.t, v, l, p)
    BY <1>1, <1>2, <1>3, <1>4, <1>5, <2>1, StoreStep
  <2>3. map_at(s, va, level, p) = r
    BY <1>5, <2>2 DEF map_at, i2
  <2>4. Effect(s.t, r.t, va, level, p)
    BY <1>4, <1>5, <1>4a, <1>4b, <2>2
  <2> QED
    BY <2>2, <2>3, <2>4 DEF Tree
<1>6. CASE level < 2
  <2>1. PICK s2, q :
          /\ s2 \in States /\ s2 = Descend(s, Root, i2) /\ TreeBy(s2.t, s2.u, q)
          /\ Same(s.t, s2.t)
          /\ EnoughTables => s2.f = "ok"
          /\ s2.f = "ok" =>
               /\ s2.t[Root][i2].ppn \in s2.u
               /\ q[s2.t[Root][i2].ppn] = Path1(va)
    BY <1>1, <1>2, <1>3, <1>4, <1>6, DescendStep
  <2>2. CASE s2.f # "ok"
    <3>1. map_at(s, va, level, p) = s2
      BY <1>6, <2>1, <2>2 DEF map_at, i2, Descend, Store, Next_tbl
    <3> QED
      BY <2>1, <2>2, <3>1 DEF Tree, OneChange
  <2>3. CASE s2.f = "ok" /\ level = 1
    <3> DEFINE t1 == s2.t[Root][i2].ppn
    <3>1. ~IsBranch(s2.t[t1][i1])
      BY <1>1, <1>2, <2>1, <2>3 DEF TreeBy
    <3>2. PICK r \in States :
            /\ r = Store(s2, t1, i1, p) /\ TreeBy(r.t, r.u, q) /\ r.f = "ok"
            /\ OneChange(s2.t, r.t)
            /\ \A v \in Nat, l \in 0 .. 2 :
                 q[t1] = PathAt(v, l) /\ i1 = vpn(v, l) => Effect(s2.t, r.t, v, l, p)
      BY <1>1, <1>2, <2>1, <2>3, <3>1, StoreStep
    <3>3. map_at(s, va, level, p) = r
      <4>1. level < 2 /\ ~(level < 1) /\ vpn(va, level) = i1 /\ Next_tbl(s2, Root, i2) = t1
        BY <2>3 DEF Next_tbl, i1
      <4>2. map_at(s, va, level, p) = Store(s2, t1, i1, p)
        BY <2>1, <4>1 DEF map_at, i2
      <4> QED
        BY <3>2, <4>2
    <3>4. OneChange(s.t, r.t)
      BY <2>1, <3>2, SameChange
    <3>5. Effect(s2.t, r.t, va, level, p)
      BY <1>4a, <1>4b, <2>1, <2>3, <3>2
    <3>6. Effect(s.t, r.t, va, level, p)
      BY <2>1, <3>5, SameEffect
    <3> QED
      BY <3>2, <3>3, <3>4, <3>6 DEF Tree
  <2>4. CASE s2.f = "ok" /\ level = 0
    <3> DEFINE t1 == s2.t[Root][i2].ppn
    <3>1. t1 \in s2.u /\ q[t1] = Path1(va)
      BY <2>1, <2>4
    <3> HIDE DEF t1
    <3>2. PICK s1, q1 :
            /\ s1 \in States /\ s1 = Descend(s2, t1, i1) /\ TreeBy(s1.t, s1.u, q1)
            /\ Same(s2.t, s1.t)
            /\ EnoughTables => s1.f = "ok"
            /\ s1.f = "ok" =>
                 /\ s1.t[t1][i1].ppn \in s1.u
                 /\ q1[s1.t[t1][i1].ppn] = Path0(va)
      BY <1>1, <1>2, <2>1, <2>4, <3>1, DescendStep
    <3>3. map_at(s, va, 0, p) = Store(s1, Next_tbl(s1, t1, i1), vpn(va, 0), p)
      <4>1. Next_tbl(s2, Root, i2) = t1
        BY <2>4 DEF Next_tbl, t1
      <4> QED
        BY <2>1, <3>2, <4>1 DEF map_at, i2, i1
    <3> HIDE DEF i1, i2, t1
    <3>4. Same(s.t, s1.t)
      BY <2>1, <3>2 DEF Same
    <3>5. CASE s1.f # "ok"
      <4>1. Store(s1, Next_tbl(s1, t1, i1), vpn(va, 0), p) = s1
        BY <3>5 DEF Store
      <4>2. map_at(s, va, level, p) = s1
        BY <2>4, <3>3, <4>1
      <4> QED
        BY <3>2, <3>5, <3>4, <4>2 DEF Tree, OneChange
    <3>6. CASE s1.f = "ok"
      <4> DEFINE t0 == s1.t[t1][i1].ppn
      <4>1. ~IsBranch(s1.t[t0][vpn(va, 0)])
        BY <1>1, <1>2, <3>2, <3>6 DEF TreeBy
      <4>2. PICK r \in States :
              /\ r = Store(s1, t0, vpn(va, 0), p) /\ TreeBy(r.t, r.u, q1) /\ r.f = "ok"
              /\ OneChange(s1.t, r.t)
              /\ \A v \in Nat, l \in 0 .. 2 :
                   q1[t0] = PathAt(v, l) /\ vpn(va, 0) = vpn(v, l) => Effect(s1.t, r.t, v, l, p)
        BY <1>1, <1>2, <3>2, <3>6, <4>1, StoreStep
      <4>3. map_at(s, va, level, p) = r
        BY <2>4, <3>3, <3>6, <4>2 DEF Next_tbl
      <4>4. OneChange(s.t, r.t)
        BY <3>4, <4>2, SameChange
      <4>5. Effect(s1.t, r.t, va, level, p)
        BY <1>4a, <2>4, <3>2, <3>6, <4>2
      <4>6. Effect(s.t, r.t, va, level, p)
        BY <3>4, <4>5, SameEffect
      <4> QED
        BY <4>2, <4>3, <4>4, <4>6 DEF Tree
    <3> QED
      BY <3>5, <3>6
  <2> QED
    BY <1>6, <2>2, <2>3, <2>4
<1> QED
  BY <1>5, <1>6

\* The raw lookup ends at an entry of a used table that is no branch and, above
\* level 0, is a leaf; at level 0 for a page that is mapped as a 4 KB page.
LEMMA LookupEntry ==
    ASSUME NEW path, TreeBy(mmu_tables, mmu_table_used, path), NEW va \in Nat,
           pte_lookup(va) # <<>>
    PROVE  \E t \in mmu_table_used, i \in Index :
             /\ pte_lookup(va) = <<t, i>>
             /\ ~IsBranch(mmu_tables[t][i])
             /\ path[t] \in Inner => IsLeaf(mmu_tables[t][i])
             /\ va \in SmallPages \/ path[t] \notin Inner =>
                  path[t] = Path0(va) /\ i = vpn(va, 0)
<1> DEFINE p2 == mmu_tables[Root][vpn(va, 2)]
           p1 == mmu_tables[p2.ppn][vpn(va, 1)]
<1>1. vpn(va, 2) \in Index /\ vpn(va, 1) \in Index /\ vpn(va, 0) \in Index
  BY VpnIndex
<1>2. /\ Top \in Inner /\ Path1(va) \in Inner /\ Path0(va) \notin Inner
      /\ Child(Top, vpn(va, 2)) = Path1(va) /\ Child(Path1(va), vpn(va, 1)) = Path0(va)
  BY ChildPaths
<1>3. Root \in mmu_table_used /\ path[Root] = Top /\ p2 \in PTE
  BY <1>1 DEF TreeBy
<1>4. \A p \in PTE : p.V # 0 /\ ~IsLeaf(p) => IsBranch(p)
  BY DEF PTE, IsLeaf, IsBranch
<1>5. \A p : IsLeaf(p) => ~IsBranch(p)
  BY DEF IsLeaf, IsBranch
<1>6. p2.V # 0
  BY DEF pte_lookup
<1>7. va \in SmallPages => Path1(va) \in Slots /\ Path0(va) \in Slots
  BY DEF Slots
<1>8. CASE IsLeaf(p2)
  <2>1. pte_lookup(va) = <<Root, vpn(va, 2)>>
    BY <1>6, <1>8 DEF pte_lookup
  <2>2. va \notin SmallPages
    BY <1>1, <1>2, <1>3, <1>8, <1>7 DEF TreeBy
  <2> QED
    BY <1>1, <1>2, <1>3, <1>5, <1>8, <2>1, <2>2
<1>9. CASE ~IsLeaf(p2)
  <2>1. IsBranch(p2)
    BY <1>3, <1>4, <1>6, <1>9
  <2>2. p2.ppn \in mmu_table_used /\ path[p2.ppn] = Path1(va)
    BY <1>1, <1>2, <1>3, <2>1 DEF TreeBy
  <2>3. p1 \in PTE
    BY <1>1, <2>2 DEF TreeBy
  <2>4. p1.V # 0
    BY <1>6, <1>9 DEF pte_lookup
  <2>5. CASE IsLeaf(p1)
    <3>1. pte_lookup(va) = <<p2.ppn, vpn(va, 1)>>
      BY <1>6, <1>9, <2>4, <2>5 DEF pte_lookup
    <3>2. va \notin SmallPages
      BY <1>1, <1>2, <1>7, <2>2, <2>5 DEF TreeBy
    <3> QED
      BY <1>1, <1>2, <1>5, <2>2, <2>5, <3>1, <3>2
  <2>6. CASE ~IsLeaf(p1)
    <3>1. IsBranch(p1)
      BY <1>4, <2>3, <2>4, <2>6
    <3>2. p1.ppn \in mmu_table_used /\ path[p1.ppn] = Path0(va)
      <4>1. p1.ppn \in mmu_table_used /\ path[p1.ppn] = Child(path[p2.ppn], vpn(va, 1))
        BY <1>1, <2>2, <3>1, BranchPath
      <4> QED
        BY <1>2, <2>2, <4>1
    <3>3. pte_lookup(va) = <<p1.ppn, vpn(va, 0)>>
      BY <1>6, <1>9, <2>4, <2>6 DEF pte_lookup
    <3>4. path[p1.ppn] \notin Inner
      BY <1>2, <3>2
    <3>5. ~IsBranch(mmu_tables[p1.ppn][vpn(va, 0)])
      BY <1>1, <3>2, <3>4, BranchPath
    <3> HIDE DEF p1, p2
    <3> QED
      BY <1>1, <3>2, <3>3, <3>4, <3>5
  <2> QED
    BY <2>5, <2>6
<1> QED
  BY <1>8, <1>9
-----------------------------------------------------------------------------
\* At boot: the root alone, with the gigapage over the devices.
LEMMA MmuInit == ASSUME OneSize, Init PROVE MmuInv
<1> DEFINE path == [t \in {Root} |-> Top]
           T == mmu_tables
<1>1. Root \in Tables /\ 0 \in Index
  BY SizeAssumption DEF Root, Tables, Index
<1>2. Zero \in PTE /\ Leaf(0, {"R", "W"}) \in PTE /\ IsLeaf(Leaf(0, {"R", "W"}))
        /\ ~IsLeaf(Zero) /\ ~IsBranch(Zero)
  BY DEF Zero, Leaf, PTE, Perms, IsLeaf, IsBranch, XWR
<1>3. T \in [Tables -> [Index -> PTE]]
  BY <1>2 DEF Init
<1>4. \A i \in Index : T[Root][i] = IF i = 0 THEN Leaf(0, {"R", "W"}) ELSE Zero
  BY <1>1 DEF Init
<1>5. \A i \in Index : ~IsBranch(T[Root][i]) /\ (IsLeaf(T[Root][i]) => i = 0)
  BY <1>2, <1>4 DEF IsLeaf, IsBranch
<1>6. Path1(0) \notin Slots /\ vpn(0, 2) = 0 /\ Child(Top, 0) = Path1(0)
  <2>1. N * N \in Nat \ {0}
    BY SizeAssumption
  <2>2. 0 \div (N * N) = 0 /\ 0 % N = 0
    BY <2>1, SizeAssumption
  <2>3. vpn(0, 2) = 0
    BY <2>2 DEF vpn, Span
  <2>4. 0 \in GigaPages
    BY DEF GigaPages
  <2> QED
    BY <2>3, <2>4 DEF OneSize, Child, Path1
<1>7. Top \in Slots
  BY DEF Slots
<1> HIDE DEF T
<1>8. TreeBy(T, {Root}, path)
  BY <1>1, <1>3, <1>5, <1>6, <1>7 DEF TreeBy
<1>9. OpInv
  <2>1. op = [kind |-> "boot", va |-> ImageStart, pa |-> ImageStart, n |-> ImageSize,
              perm |-> {"R", "W", "X"}]
    BY DEF Init, BootLoop, BootMap
  <2>2. op \in [kind : {"map", "boot"}, va : Nat, pa : Nat, n : Nat, perm : SUBSET Perms]
    BY <2>1, ImageAssumption DEF Perms
  <2>3. op.va .. op.va + op.n - 1 \subseteq SmallPages
    BY <2>1, ImageAssumption DEF SmallPages
  <2> QED
    BY <2>1, <2>2, <2>3 DEF OpInv
<1> QED
  BY <1>8, <1>9 DEF MmuInv, Tree, Init, T

\* The state the functions work on.
LEMMA StateRecord ==
    ASSUME MmuInv
    PROVE  State \in States /\ Tree(State.t, State.u) /\ State.f = fate
BY DEF MmuInv, Tree, TreeBy, State, States

\* The tree survives the store of a leaf or of nothing where the lookup ended.
LEMMA LookupStore ==
    ASSUME MmuInv, fate = "ok", NEW va \in Nat, pte_lookup(va) # <<>>,
           NEW p \in PTE, ~IsBranch(p),
           SetState(Store(State, pte_lookup(va)[1], pte_lookup(va)[2], p))
    PROVE  /\ Tree(mmu_tables', mmu_table_used') /\ fate' = "ok"
           /\ OneChange(mmu_tables, mmu_tables')
           /\ va \in SmallPages => \A v \in Nat :
                \/ WalkIn(mmu_tables', v) = WalkIn(mmu_tables, v)
                \/ Path0(v) = Path0(va) /\ vpn(v, 0) = vpn(va, 0)
           /\ va \in SmallPages => Effect(mmu_tables, mmu_tables', va, 0, p)
           /\ \A v \in SmallPages :
                \/ WalkIn(mmu_tables', v) = WalkIn(mmu_tables, v)
                \/ Path0(v) = Path0(va) /\ vpn(v, 0) = vpn(va, 0)
<1>1. PICK path : TreeBy(mmu_tables, mmu_table_used, path)
  BY DEF MmuInv, Tree
<1>2. PICK t \in mmu_table_used, i \in Index :
         /\ pte_lookup(va) = <<t, i>>
         /\ ~IsBranch(mmu_tables[t][i])
         /\ path[t] \in Inner => IsLeaf(mmu_tables[t][i])
         /\ va \in SmallPages \/ path[t] \notin Inner =>
              path[t] = Path0(va) /\ i = vpn(va, 0)
  BY <1>1, LookupEntry
<1>3. State \in States /\ State.f = "ok"
        /\ State.t = mmu_tables /\ State.u = mmu_table_used
  BY StateRecord DEF State
<1>4. path[t] \in Inner => Child(path[t], i) \notin Slots
  BY <1>1, <1>2 DEF TreeBy
<1>5. PICK r \in States :
         /\ r = Store(State, t, i, p) /\ TreeBy(r.t, r.u, path) /\ r.f = "ok"
         /\ OneChange(mmu_tables, r.t)
         /\ \A v \in Nat :
              \/ WalkIn(r.t, v) = WalkIn(mmu_tables, v)
              \/ \E l \in 0 .. 2 : path[t] = PathAt(v, l) /\ i = vpn(v, l)
         /\ \A v \in Nat, l \in 0 .. 2 :
              path[t] = PathAt(v, l) /\ i = vpn(v, l) => Effect(mmu_tables, r.t, v, l, p)
  BY <1>1, <1>2, <1>3, <1>4, StoreStep
<1>6. SetState(r)
  BY <1>2, <1>5
<1>7. mmu_tables' = r.t /\ mmu_table_used' = r.u /\ fate' = "ok"
  BY <1>5, <1>6 DEF SetState
<1>8. ASSUME va \in SmallPages, NEW v \in Nat, NEW l \in 0 .. 2,
             path[t] = PathAt(v, l), i = vpn(v, l)
      PROVE  Path0(v) = Path0(va) /\ vpn(v, 0) = vpn(va, 0)
  <2>1. PathAt(v, l) = PathAt(va, 0)
    BY <1>2, <1>8 DEF PathAt
  <2>2. l = 0
    BY <2>1, PathLevel
  <2> QED
    BY <1>2, <1>8, <2>1, <2>2 DEF PathAt
<1>9. ASSUME va \in SmallPages PROVE Effect(mmu_tables, r.t, va, 0, p)
  <2>1. path[t] = PathAt(va, 0) /\ i = vpn(va, 0)
    BY <1>2, <1>9 DEF PathAt
  <2> QED
    BY <1>5, <2>1
<1>10. ASSUME NEW v \in SmallPages, NEW l \in 0 .. 2,
              path[t] = PathAt(v, l), i = vpn(v, l)
       PROVE  Path0(v) = Path0(va) /\ vpn(v, 0) = vpn(va, 0)
  <2>1. v \in Nat /\ Path1(v) \in Slots /\ Path0(v) \in Slots
    BY DEF SmallPages, Slots
  <2>2. /\ Top \in Inner /\ Path1(v) \in Inner /\ Path0(v) \notin Inner
        /\ Child(Top, vpn(v, 2)) = Path1(v) /\ Child(Path1(v), vpn(v, 1)) = Path0(v)
    BY <2>1, ChildPaths
  <2>3. PathAt(v, 2) = Top /\ PathAt(v, 1) = Path1(v) /\ PathAt(v, 0) = Path0(v)
    BY DEF PathAt
  <2>4. l # 2 /\ l # 1
    BY <1>4, <1>10, <2>1, <2>2, <2>3
  <2>5. l = 0
    BY <2>4
  <2>6. path[t] = Path0(v) /\ i = vpn(v, 0)
    BY <1>10, <2>3, <2>5
  <2> QED
    BY <1>2, <2>2, <2>6
<1>11. SmallPages \subseteq Nat
  BY DEF SmallPages
<1> QED
  BY <1>5, <1>7, <1>8, <1>9, <1>10, <1>11 DEF Tree

\* One turn of a mapping loop, or a raw mapping call.
LEMMA MapAtStep ==
    ASSUME MmuInv, fate = "ok", NEW va \in Nat, NEW level \in 0 .. 2,
           NEW p \in PTE, ~IsBranch(p),
           level < 2 => Path1(va) \in Slots,
           level = 2 => Path1(va) \notin Slots,
           level < 1 => Path0(va) \in Slots,
           level = 1 => Path0(va) \notin Slots,
           SetState(map_at(State, va, level, p))
    PROVE  /\ Tree(mmu_tables', mmu_table_used')
           /\ fate' \in {"ok", "panic"}
           /\ EnoughTables => fate' = "ok"
           /\ OneChange(mmu_tables, mmu_tables')
           /\ IF fate' = "ok" THEN Effect(mmu_tables, mmu_tables', va, level, p)
                              ELSE Same(mmu_tables, mmu_tables')
<1>1. PICK r \in States :
         /\ r = map_at(State, va, level, p) /\ Tree(r.t, r.u)
         /\ EnoughTables => r.f = "ok"
         /\ OneChange(mmu_tables, r.t)
         /\ IF r.f = "ok" THEN Effect(mmu_tables, r.t, va, level, p)
                          ELSE Same(mmu_tables, r.t)
  <2>1. State.t = mmu_tables
    BY DEF State
  <2> QED
    BY <2>1, StateRecord, MapStepTree
<1> QED
  BY <1>1 DEF SetState, States

\* One step of a call, of a caller's edit or of the walker.
LEMMA MmuStep ==
    ASSUME OneSize, MmuInv, [Next]_vars
    PROVE  MmuInv' /\ OneChange(mmu_tables, mmu_tables')
<1> DEFINE Goal == MmuInv' /\ OneChange(mmu_tables, mmu_tables')
<1>0. VPages \subseteq Nat
  BY DEF VPages
<1>1. ASSUME UNCHANGED tvars, OpInv' PROVE Goal
  BY <1>1 DEF MmuInv, Tree, TreeBy, tvars, OneChange, Same
<1>2. ASSUME NEW c \in MapCalls, MapBegin(c) PROVE Goal
  <2>1. c.va \in Nat /\ c.pa \in Nat /\ c.n \in Nat /\ c.perm \in SUBSET Perms
          /\ "R" \in c.perm
    BY <1>0, CallAssumption, LeafAssumption
  <2>2. c.va .. c.va + c.n - 1 \subseteq SmallPages
    BY <2>1 DEF SmallPages
  <2>3. op' = [kind |-> "map", va |-> c.va, pa |-> c.pa, n |-> c.n, perm |-> c.perm]
    BY <1>2 DEF MapBegin
  <2>4. OpInv'
    BY <2>1, <2>2, <2>3 DEF OpInv
  <2> QED
    BY <1>1, <1>2, <2>4 DEF MapBegin
<1>3. ASSUME NEW c \in UnmapCalls, UnmapBegin(c) PROVE Goal
  <2>1. c.va \in Nat /\ c.n \in Nat
    BY <1>0, CallAssumption
  <2>2. OpInv'
    BY <1>3, <2>1 DEF UnmapBegin, OpInv
  <2> QED
    BY <1>1, <1>3, <2>2 DEF UnmapBegin
<1>4. ASSUME NEW c \in RawCalls, MapRaw(c) PROVE Goal
  <2> DEFINE p == [V |-> c.V, perm |-> c.perm, ppn |-> c.pa]
  <2>1. c.va \in Nat /\ c.pa \in Nat /\ c.V \in {0, 1} /\ c.perm \in SUBSET Perms
          /\ c.level \in 0 .. 2 /\ c.perm \cap XWR # {}
    BY <1>0, CallAssumption, LeafAssumption
  <2>2. p \in PTE /\ ~IsBranch(p)
    BY <2>1 DEF PTE, IsBranch
  <2>3. /\ c.level = 0 => c.va \in SmallPages
        /\ c.level = 1 => c.va \in MegaPages
        /\ c.level = 2 => c.va \in GigaPages
    BY <2>1 DEF SmallPages, MegaPages, GigaPages
  <2>4. /\ c.level < 2 => Path1(c.va) \in Slots
        /\ c.level = 2 => Path1(c.va) \notin Slots
        /\ c.level < 1 => Path0(c.va) \in Slots
        /\ c.level = 1 => Path0(c.va) \notin Slots
    BY <2>1, <2>3 DEF Slots, OneSize
  <2>5. fate = "ok" /\ SetState(map_at(State, c.va, c.level, p))
    BY <1>4 DEF MapRaw, Free
  <2>6. OpInv'
    BY <1>4 DEF MapRaw, OpInv
  <2> HIDE DEF p
  <2> QED
    BY <2>1, <2>2, <2>4, <2>5, <2>6, MapAtStep DEF MmuInv
<1>5. CASE MapStep
  <2> DEFINE p == Leaf(op.pa, op.perm)
  <2>1. /\ op \in [kind : {"map", "boot"}, va : Nat, pa : Nat, n : Nat, perm : SUBSET Perms]
        /\ "R" \in op.perm
        /\ op.va .. op.va + op.n - 1 \subseteq SmallPages
        /\ op.n > 0 /\ fate = "ok"
    BY <1>5 DEF MapStep, MmuInv, OpInv, Idle
  <2>2. op.va \in Nat /\ op.va \in SmallPages
    BY <2>1
  <2>3. p \in PTE /\ ~IsBranch(p)
    BY <2>1 DEF Leaf, PTE, IsBranch, XWR, Perms
  <2>4. Path1(op.va) \in Slots /\ Path0(op.va) \in Slots
    BY <2>2 DEF Slots
  <2>5. SetState(map_at(State, op.va, 0, p))
    BY <1>5 DEF MapStep, map_page
  <2> HIDE DEF p
  <2>6. /\ Tree(mmu_tables', mmu_table_used')
        /\ fate' \in {"ok", "panic"}
        /\ EnoughTables => fate' = "ok"
        /\ OneChange(mmu_tables, mmu_tables')
    BY <2>1, <2>2, <2>3, <2>4, <2>5, MapAtStep
  <2>7. op' = [op EXCEPT !.va = @ + 1, !.pa = @ + 1, !.n = @ - 1]
    BY <1>5 DEF MapStep
  <2>8. /\ op' \in [kind : {"map", "boot"}, va : Nat, pa : Nat, n : Nat, perm : SUBSET Perms]
        /\ op'.va = op.va + 1 /\ op'.n = op.n - 1 /\ op'.perm = op.perm
    <3>1. op' = [kind |-> op.kind, va |-> op.va + 1, pa |-> op.pa + 1, n |-> op.n - 1,
                 perm |-> op.perm]
      BY <2>1, <2>7
    <3>2. op.kind \in {"map", "boot"} /\ op.va + 1 \in Nat /\ op.pa + 1 \in Nat
            /\ op.n - 1 \in Nat /\ op.perm \in SUBSET Perms
      BY <2>1
    <3> QED
      BY <3>1, <3>2
  <2>9. op'.va .. op'.va + op'.n - 1 \subseteq SmallPages
    BY <2>1, <2>8
  <2> QED
    BY <2>1, <2>6, <2>8, <2>9 DEF MmuInv, OpInv
<1>6. CASE UnmapStep
  <2>1. op \in [kind : {"unmap"}, va : Nat, n : Nat] /\ op.n > 0 /\ fate = "ok"
    BY <1>6 DEF UnmapStep, MmuInv, OpInv, Idle
  <2>2. op' = [op EXCEPT !.va = @ + 1, !.n = @ - 1]
    BY <1>6 DEF UnmapStep
  <2>3. OpInv'
    <3>1. op' = [kind |-> "unmap", va |-> op.va + 1, n |-> op.n - 1]
      BY <2>1, <2>2
    <3>2. op.va + 1 \in Nat /\ op.n - 1 \in Nat
      BY <2>1
    <3> QED
      BY <3>1, <3>2 DEF OpInv
  <2>4. CASE pte_lookup(op.va) = <<>>
    <3>1. UNCHANGED tvars
      BY <1>6, <2>4 DEF UnmapStep, unmap_page, SetState, State, tvars
    <3> QED
      BY <1>1, <2>3, <3>1
  <2>5. CASE pte_lookup(op.va) # <<>>
    <3>1. SetState(Store(State, pte_lookup(op.va)[1], pte_lookup(op.va)[2], Zero))
      BY <1>6, <2>5 DEF UnmapStep, unmap_page
    <3>2. Zero \in PTE /\ ~IsBranch(Zero)
      BY DEF Zero, PTE, IsBranch
    <3> QED
      BY <2>1, <2>3, <2>5, <3>1, <3>2, LookupStore DEF MmuInv
  <2> QED
    BY <2>4, <2>5
<1>7. ASSUME NEW c \in EditCalls, EditPte(c) PROVE Goal
  <2> DEFINE p == Leaf(c.pa, c.perm)
  <2>1. c.va \in Nat /\ c.pa \in Nat /\ c.perm \in SUBSET Perms /\ c.perm \cap XWR # {}
    BY <1>0, CallAssumption, LeafAssumption
  <2>2. p \in PTE /\ ~IsBranch(p)
    BY <2>1 DEF Leaf, PTE, IsBranch, Perms
  <2>3. /\ fate = "ok" /\ pte_lookup(c.va) # <<>>
        /\ SetState(Store(State, pte_lookup(c.va)[1], pte_lookup(c.va)[2], p))
    BY <1>7 DEF EditPte, Free
  <2>4. OpInv'
    BY <1>7 DEF EditPte, MmuInv, OpInv
  <2> HIDE DEF p
  <2> QED
    BY <2>1, <2>2, <2>3, <2>4, LookupStore DEF MmuInv
<1>8. CASE Finish
  <2>1. OpInv'
    BY <1>8 DEF Finish, OpInv
  <2> QED
    BY <1>1, <1>8, <2>1 DEF Finish
<1>9. ASSUME NEW va, SfenceAddr(va) \/ Fill(va) PROVE Goal
  <2>1. OpInv'
    BY <1>9 DEF SfenceAddr, Fill, MmuInv, OpInv
  <2> QED
    BY <1>1, <1>9, <2>1 DEF SfenceAddr, Fill
<1>10. CASE UNCHANGED vars
  <2>1. OpInv'
    BY <1>10 DEF vars, MmuInv, OpInv
  <2> QED
    BY <1>1, <1>10, <2>1 DEF vars, tvars
<1> QED
  BY <1>2, <1>3, <1>4, <1>5, <1>6, <1>7, <1>8, <1>9, <1>10 DEF Next

\* The invariant holds in every state.
LEMMA MmuAlways == ASSUME OneSize PROVE Spec => []MmuInv
<1>1. Init => MmuInv
  BY MmuInit
<1>2. MmuInv /\ [Next]_vars => MmuInv'
  BY MmuStep
<1> QED
  BY <1>1, <1>2, PTL DEF Spec

-----------------------------------------------------------------------------
\* For every number of entries a table has, every pool and every set of calls
\* that does not mix page sizes: the tables that alloc_table has handed out form
\* a tree below the root, none shared, handed out twice or lost, whatever the
\* order in which pages are mapped, unmapped, mapped raw and edited.
THEOREM TablesFormTree == ASSUME OneSize PROVE Spec => []TableTree
<1>1. MmuInv => TableTree
  <2> SUFFICES ASSUME NEW path, TreeBy(mmu_tables, mmu_table_used, path) PROVE TableTree
    BY DEF MmuInv, Tree
  <2>1. \A e \in Pointers : e[1] \in mmu_table_used /\ e[2] \in Index /\ e = <<e[1], e[2]>>
          /\ IsBranch(mmu_tables[e[1]][e[2]])
    BY DEF Pointers
  <2>2. \A e \in Pointers : Pointee(e) \in mmu_table_used /\ path[e[1]] \in Inner
          /\ path[Pointee(e)] = Child(path[e[1]], e[2])
    BY <2>1 DEF TreeBy, Pointee
  <2>3. \A e \in Pointers : Pointee(e) # Root
    BY <2>1, <2>2, ChildUnique DEF TreeBy
  <2>4. ASSUME NEW e \in Pointers, NEW d \in Pointers, Pointee(e) = Pointee(d)
        PROVE  e = d
    <3>1. Child(path[e[1]], e[2]) = Child(path[d[1]], d[2])
      BY <2>2, <2>4
    <3>2. path[e[1]] = path[d[1]] /\ e[2] = d[2]
      BY <2>1, <2>2, <3>1, ChildUnique
    <3>3. e[1] = d[1]
      BY <2>1, <3>2 DEF TreeBy
    <3> QED
      BY <2>1, <3>2, <3>3
  <2>5. ASSUME NEW t \in mmu_table_used \ {Root} PROVE \E e \in Pointers : Pointee(e) = t
    <3>1. PICK s \in mmu_table_used, i \in Index :
            IsBranch(mmu_tables[s][i]) /\ mmu_tables[s][i].ppn = t
      BY DEF TreeBy
    <3>2. <<s, i>> \in Pointers /\ Pointee(<<s, i>>) = t
      BY <3>1 DEF Pointers, Pointee
    <3> QED
      BY <3>2
  <2> QED
    BY <2>2, <2>3, <2>4, <2>5 DEF TableTree, TreeBy
<1> QED
  BY <1>1, MmuAlways, PTL

\* With a table for every slot the calls descend to, the pool is enough for
\* ever: alloc_table never panics, and no walk takes a leaf for a table.  A
\* table is never given back, so this needs that a slot never gets a second one.
THEOREM PoolNeverExhausted ==
    ASSUME OneSize, EnoughTables
    PROVE  Spec => []NeverFatal
<1>1. MmuInv => NeverFatal
  BY DEF MmuInv, NeverFatal
<1> QED
  BY <1>1, MmuAlways, PTL

-----------------------------------------------------------------------------
(***************************************************************************)
(* Arithmetic of virtual page numbers.                                     *)
(***************************************************************************)
\* Quotient and remainder.
LEMMA DivRem ==
    ASSUME NEW M \in Nat \ {0}, NEW a \in Int
    PROVE  a % M \in 0 .. M - 1 /\ a \div M \in Int /\ a = M * (a \div M) + (a % M)
OBVIOUS

\* Quotient and remainder are unique.
LEMMA DivUnique ==
    ASSUME NEW M \in Nat \ {0}, NEW q \in Int, NEW r \in 0 .. M - 1, NEW a \in Int,
           a = M * q + r
    PROVE  a \div M = q /\ a % M = r
<1> DEFINE d == a \div M
           e == a % M
<1>1. d \in Int /\ e \in 0 .. M - 1 /\ a = M * d + e
  OBVIOUS
<1> HIDE DEF d, e
<1>2. M * (d - q) = r - e
  BY <1>1
<1>3. ~(d - q >= 1)
  <2>1. d - q >= 1 => M * (d - q) >= M
    BY <1>1
  <2> QED
    BY <1>1, <1>2, <2>1
<1>4. ~(d - q <= -1)
  <2>1. d - q <= -1 => M * (d - q) <= -M
    BY <1>1
  <2> QED
    BY <1>1, <1>2, <2>1
<1>5. d = q
  BY <1>1, <1>3, <1>4
<1> QED
  BY <1>1, <1>5 DEF d, e

\* Two numbers with equal quotient and remainder by N are equal, and conversely.
LEMMA PairUnique ==
    \A x, y \in Int, i, j \in Index : N * x + i = N * y + j <=> x = y /\ i = j
<1> SUFFICES ASSUME NEW x \in Int, NEW y \in Int, NEW i \in Index, NEW j \in Index,
                    N * x + i = N * y + j
             PROVE  x = y /\ i = j
  OBVIOUS
<1> DEFINE a == N * x + i
<1>1. a \in Int /\ a = N * x + i /\ a = N * y + j /\ i \in 0 .. N - 1 /\ j \in 0 .. N - 1
  BY SizeAssumption DEF Index
<1> HIDE DEF a
<1>2. a \div N = x /\ a % N = i
  BY <1>1, SizeAssumption, DivUnique
<1>3. a \div N = y /\ a % N = j
  BY <1>1, SizeAssumption, DivUnique
<1> QED
  BY <1>2, <1>3

\* A page is in the block of another when they have the same quotient.
LEMMA SameQuotient ==
    ASSUME NEW M \in Nat \ {0}, NEW a \in Int, NEW v \in Int
    PROVE  v \in (a - (a % M)) .. (a - (a % M) + M - 1) <=> v \div M = a \div M
<1> DEFINE q == a \div M
           k == v \div M
           r == a % M
           e == v % M
<1>1. q \in Int /\ r \in 0 .. M - 1 /\ a = M * q + r
  OBVIOUS
<1>2. k \in Int /\ e \in 0 .. M - 1 /\ v = M * k + e
  OBVIOUS
<1> HIDE DEF q, k, r, e
<1>3. ASSUME v \in M * q .. M * q + M - 1 PROVE k = q
  <2> DEFINE z == v - M * q
  <2>1. z \in 0 .. M - 1 /\ v = M * q + z
    BY <1>1, <1>3
  <2> HIDE DEF z
  <2> QED
    BY <1>1, <2>1, DivUnique DEF k
<1>4. ASSUME k = q PROVE v \in M * q .. M * q + M - 1
  BY <1>1, <1>2, <1>4
<1>5. a - r = M * q
  BY <1>1
<1>6. v \in (a - r) .. (a - r + M - 1) <=> k = q
  BY <1>3, <1>4, <1>5
<1> QED
  BY <1>6 DEF q, k, r

\* A page by its three indices.
LEMMA VpnSplit ==
    ASSUME NEW a \in VPages
    PROVE  /\ a \in Nat
           /\ a \div N = N * vpn(a, 2) + vpn(a, 1)
           /\ a \div (N * N) = vpn(a, 2)
           /\ a = N * (a \div N) + vpn(a, 0)
<1> DEFINE q == a \div N
           r == a % N
           s == q \div N
           w == q % N
<1>0. N \in Nat \ {0} /\ N * N \in Nat \ {0} /\ a \in Nat /\ a < N * N * N
  BY SizeAssumption DEF VPages, Span
<1>1. q \in Int /\ r \in 0 .. N - 1 /\ a = N * q + r
  BY <1>0
<1>2. s \in Int /\ w \in 0 .. N - 1 /\ q = N * s + w
  BY <1>0, <1>1
<1> HIDE DEF q, r, s, w
<1>3. a = (N * N) * s + (N * w + r)
  <2>1. N * (N * s + w) = (N * N) * s + N * w
    BY <1>0, <1>2
  <2> QED
    BY <1>0, <1>1, <1>2, <2>1
<1>4. N * w + r \in 0 .. N * N - 1
  <2>1. N * w <= N * (N - 1) /\ N * w >= 0
    BY <1>0, <1>2
  <2>2. N * (N - 1) = N * N - N
    BY <1>0
  <2> QED
    BY <1>0, <1>1, <1>2, <2>1, <2>2
<1>5. a \div (N * N) = s
  <2> DEFINE M == N * N
             z == N * w + r
  <2>1. M \in Nat \ {0} /\ z \in 0 .. M - 1 /\ a = M * s + z
    BY <1>0, <1>3, <1>4
  <2> HIDE DEF M, z
  <2>2. a \div M = s
    BY <1>0, <1>2, <2>1, DivUnique
  <2> QED
    BY <2>2 DEF M
<1>6. s \in 0 .. N - 1
  <2>1. s >= 0
    <3>1. s <= -1 => (N * N) * s <= -(N * N)
      BY <1>0, <1>2
    <3> QED
      BY <1>0, <1>2, <1>3, <1>4, <3>1
  <2>2. s < N
    <3>1. s >= N => (N * N) * s >= (N * N) * N
      BY <1>0, <1>2
    <3> QED
      BY <1>0, <1>2, <1>3, <1>4, <3>1
  <2> QED
    BY <1>0, <1>2, <2>1, <2>2
<1>7. s % N = s
  BY <1>0, <1>6
<1>8. vpn(a, 2) = s
  BY <1>5, <1>7 DEF vpn, Span
<1>9. vpn(a, 1) = w
  BY DEF vpn, Span, w, q
<1>10. vpn(a, 0) = r
  <2>1. a \div 1 = a
    BY <1>0
  <2> QED
    BY <2>1 DEF vpn, Span, r
<1> QED
  BY <1>0, <1>1, <1>2, <1>5, <1>8, <1>9, <1>10 DEF q

\* The block of a page at level l: the pages whose walk meets the same entry.
LEMMA BlockPages ==
    ASSUME NEW a \in VPages, NEW l \in 0 .. 2, NEW v
    PROVE  v \in Block(a, l) <=>
             v \in VPages /\ PathAt(v, l) = PathAt(a, l) /\ vpn(v, l) = vpn(a, l)
<1> DEFINE M == Span(l)
<1>0. N \in Nat \ {0} /\ N * N \in Nat \ {0} /\ a \in Nat /\ a < N * N * N
  BY SizeAssumption DEF VPages, Span
<1>1. M \in Nat \ {0}
  BY <1>0 DEF Span
<1>2. Block(a, l) = (a - (a % M)) .. (a - (a % M) + M - 1)
  BY DEF Block
<1>3. \A u \in VPages : u \div M = a \div M <=>
        PathAt(u, l) = PathAt(a, l) /\ vpn(u, l) = vpn(a, l)
  <2> SUFFICES ASSUME NEW u \in VPages
               PROVE  u \div M = a \div M <=>
                        PathAt(u, l) = PathAt(a, l) /\ vpn(u, l) = vpn(a, l)
    OBVIOUS
  <2>1. /\ u \in Nat /\ u \div N = N * vpn(u, 2) + vpn(u, 1)
        /\ u \div (N * N) = vpn(u, 2) /\ u = N * (u \div N) + vpn(u, 0)
    BY VpnSplit
  <2>2. /\ a \div N = N * vpn(a, 2) + vpn(a, 1)
        /\ a \div (N * N) = vpn(a, 2) /\ a = N * (a \div N) + vpn(a, 0)
    BY VpnSplit
  <2>3. \A k \in 0 .. 2 : vpn(u, k) \in Index /\ vpn(a, k) \in Index
    BY <1>0, <2>1, VpnIndex
  <2>4. /\ vpn(u, 2) \in Index /\ vpn(u, 1) \in Index /\ vpn(u, 0) \in Index
        /\ vpn(a, 2) \in Index /\ vpn(a, 1) \in Index /\ vpn(a, 0) \in Index
        /\ Index \subseteq Int
    BY <2>3 DEF Index
  <2>5. u \div N = a \div N <=> vpn(u, 2) = vpn(a, 2) /\ vpn(u, 1) = vpn(a, 1)
    <3> DEFINE x == vpn(u, 2)
               i == vpn(u, 1)
               y == vpn(a, 2)
               j == vpn(a, 1)
    <3>1. x \in Int /\ y \in Int /\ i \in Index /\ j \in Index
      BY <2>4
    <3>2. u \div N = N * x + i /\ a \div N = N * y + j
      BY <2>1, <2>2
    <3> HIDE DEF x, i, y, j
    <3>3. u \div N = a \div N <=> x = y /\ i = j
      BY <3>1, <3>2, PairUnique
    <3> QED
      BY <3>3 DEF x, i, y, j
  <2>6. CASE l = 2
    <3>1. M = N * N
      BY <2>6 DEF Span
    <3>2. PathAt(u, l) = PathAt(a, l)
      BY <2>6 DEF PathAt
    <3> QED
      BY <2>1, <2>2, <2>6, <3>1, <3>2
  <2>7. CASE l = 1
    <3>1. M = N
      BY <2>7 DEF Span
    <3>2. PathAt(u, l) = Path1(u) /\ PathAt(a, l) = Path1(a)
      BY <2>7 DEF PathAt
    <3>3. Path1(u) = Path1(a) <=> vpn(u, 2) = vpn(a, 2)
      BY DEF Path1
    <3> QED
      BY <2>7, <2>5, <3>1, <3>2, <3>3
  <2>8. CASE l = 0
    <3>1. M = 1 /\ u \div 1 = u /\ a \div 1 = a
      BY <1>0, <2>1, <2>8 DEF Span
    <3>2. PathAt(u, l) = Path0(u) /\ PathAt(a, l) = Path0(a)
      BY <2>8 DEF PathAt
    <3>3. Path0(u) = Path0(a) <=> vpn(u, 2) = vpn(a, 2) /\ vpn(u, 1) = vpn(a, 1)
      BY DEF Path0
    <3>4. u = a <=> u \div N = a \div N /\ vpn(u, 0) = vpn(a, 0)
      <4>1. u \div N \in Int /\ a \div N \in Int
        BY <1>0, <2>1
      <4> QED
        BY <2>1, <2>2, <2>4, <4>1, PairUnique
    <3> QED
      BY <2>8, <2>5, <3>1, <3>2, <3>3, <3>4
  <2> QED
    BY <2>6, <2>7, <2>8
<1> HIDE DEF M
<1>4. VPages = 0 .. N * N * N - 1
  BY DEF VPages, Span
<1>5. ASSUME v \in VPages
      PROVE  v \in Block(a, l) <=> PathAt(v, l) = PathAt(a, l) /\ vpn(v, l) = vpn(a, l)
  <2>1. v \in Int /\ a \in Int
    BY <1>0, <1>4, <1>5
  <2>2. v \in Block(a, l) <=> v \div M = a \div M
    BY <1>1, <1>2, <2>1, SameQuotient
  <2> QED
    BY <1>3, <1>5, <2>2
<1>6. ASSUME v \in Block(a, l) PROVE v \in VPages
  <2> DEFINE q == a \div M
  <2>1. PICK K \in Nat : N * N * N = M * K
    <3>1. CASE l = 2
      <4>1. M = N * N
        BY <3>1 DEF M, Span
      <4> QED
        BY <1>0, <4>1
    <3>2. CASE l = 1
      <4>1. M = N /\ N * N * N = N * (N * N)
        BY <1>0, <3>2 DEF M, Span
      <4> QED
        BY <1>0, <4>1
    <3>3. CASE l = 0
      <4> DEFINE K == N * N * N
      <4>1. M = 1 /\ K \in Nat
        BY <1>0, <3>3 DEF M, Span
      <4>2. K = M * K
        BY <4>1
      <4> QED
        BY <4>1, <4>2
    <3> QED
      BY <3>1, <3>2, <3>3
  <2> DEFINE r == a % M
  <2>2. q \in Int /\ r \in 0 .. M - 1 /\ a = M * q + r
    BY <1>0, <1>1
  <2> HIDE DEF q, r
  <2>3. a - (a % M) = M * q
    <3>1. a - r = M * q
      BY <1>0, <1>1, <2>2
    <3> QED
      BY <3>1 DEF r
  <2>4. v \in Int /\ v >= M * q /\ v < M * q + M
    BY <1>0, <1>1, <1>2, <1>6, <2>2, <2>3
  <2>5. q >= 0
    <3>1. q <= -1 => M * q <= -M
      BY <1>1, <2>2
    <3> QED
      BY <1>0, <1>1, <2>2, <3>1
  <2>6. q + 1 <= K
    <3>1. q >= K => M * q >= M * K
      BY <1>1, <2>1, <2>2
    <3> QED
      BY <1>0, <1>1, <2>1, <2>2, <3>1
  <2>7. M * q >= 0 /\ M * q + M <= M * K
    <3>1. M * (q + 1) <= M * K
      BY <1>1, <2>1, <2>2, <2>6
    <3>2. M * (q + 1) = M * q + M
      BY <1>1, <2>2
    <3>3. M * q >= 0
      BY <1>1, <2>2, <2>5
    <3> QED
      BY <3>1, <3>2, <3>3
  <2> QED
    BY <1>1, <1>4, <2>1, <2>2, <2>4, <2>7
<1> QED
  BY <1>5, <1>6

\* A page is known by its path and its index.
LEMMA SamePage ==
    ASSUME NEW v \in VPages, NEW va \in VPages,
           Path0(v) = Path0(va), vpn(v, 0) = vpn(va, 0)
    PROVE  v = va
<1>1. PathAt(v, 0) = PathAt(va, 0)
  BY DEF PathAt
<1>2. v \in Block(va, 0)
  BY <1>1, BlockPages
<1>3. va \in Nat
  BY VpnSplit
<1>4. va % 1 = 0
  BY <1>3
<1> QED
  BY <1>2, <1>3, <1>4 DEF Block, Span

-----------------------------------------------------------------------------
(***************************************************************************)
(* The refinement.                                                         *)
(***************************************************************************)
\* The hardware's walk, before and after a step.
LEMMA WalkIs ==
    \A va : Walk(va) = WalkIn(mmu_tables, va) /\ Walk(va)' = WalkIn(mmu_tables', va)
BY DEF Walk, WalkIn

\* What an entry says of the pages of its block.
LEMMA ResolveBlock ==
    ASSUME NEW p \in PTE, NEW l \in 0 .. 2, NEW a \in VPages, NEW v \in Block(a, l)
    PROVE  /\ Resolve(p, v, l) = Fault <=> Resolve(p, a, l) = Fault
           /\ Resolve(p, a, l) # Fault =>
                /\ Resolve(p, v, l).level = l
                /\ Resolve(p, v, l).perm = Resolve(p, a, l).perm
                /\ Resolve(p, v, l).ppn + a = Resolve(p, a, l).ppn + v
<1> DEFINE M == Span(l)
           r == a % M
           e == v % M
<1>1. M \in Nat \ {0} /\ a \in Nat /\ v \in Nat
  <2>1. N \in Nat \ {0} /\ N * N \in Nat \ {0}
    BY SizeAssumption
  <2>2. VPages \subseteq Nat
    BY DEF VPages
  <2> QED
    BY <2>1, <2>2, BlockPages DEF Span
<1>2. v \in (a - r) .. (a - r + M - 1)
  BY DEF Block
<1>3. r \in 0 .. M - 1 /\ e \in 0 .. M - 1
        /\ a = M * (a \div M) + r /\ v = M * (v \div M) + e
        /\ a \div M \in Int /\ v \div M \in Int
  <2> HIDE DEF M
  <2> QED
    BY <1>1, DivRem
<1>4. v \div M = a \div M
  BY <1>1, <1>2, SameQuotient
<1>5. e + a = r + v
  <2> DEFINE z == M * (a \div M)
  <2>1. z \in Int /\ a = z + r /\ v = z + e
    BY <1>1, <1>3, <1>4
  <2> HIDE DEF z, r, e
  <2> QED
    BY <1>3, <2>1
<1>6. p.ppn \in Nat
  BY DEF PTE
<1>7. CASE IsLeaf(p) /\ p.ppn % M = 0
  <2>1. Resolve(p, v, l) = [ppn |-> p.ppn + e, perm |-> p.perm, level |-> l]
    BY <1>7 DEF Resolve, Translate
  <2>2. Resolve(p, a, l) = [ppn |-> p.ppn + r, perm |-> p.perm, level |-> l]
    BY <1>7 DEF Resolve, Translate
  <2> HIDE DEF M, r, e
  <2>3. Resolve(p, v, l) # Fault /\ Resolve(p, a, l) # Fault
    BY <2>1, <2>2 DEF Fault
  <2>4. (p.ppn + e) + a = (p.ppn + r) + v
    BY <1>1, <1>3, <1>5, <1>6
  <2> QED
    BY <2>1, <2>2, <2>3, <2>4
<1>8. CASE ~(IsLeaf(p) /\ p.ppn % M = 0)
  <2>1. Resolve(p, v, l) = Fault /\ Resolve(p, a, l) = Fault
    BY <1>8 DEF Resolve, Translate
  <2> QED
    BY <2>1
<1> QED
  BY <1>7, <1>8

\* A change of one entry is a step of the flat map, or none at all.
LEMMA ChangeRefines ==
    ASSUME OneChange(mmu_tables, mmu_tables')
    PROVE  [Flat!Next]_([v \in VPages |-> Walk(v)])
<1> DEFINE w(v) == WalkIn(mmu_tables, v)
           n(v) == WalkIn(mmu_tables', v)
<1>0. VPages \subseteq Nat
  BY DEF VPages
<1>1. CASE \A v \in VPages : n(v) = w(v)
  <2>1. \A v \in VPages : Walk(v)' = Walk(v)
    BY <1>1, WalkIs
  <2> QED
    BY <2>1
<1>2. CASE \E v \in VPages : n(v) # w(v)
  <2>1. PICK a \in VPages : n(a) # w(a)
    BY <1>2
  <2>2. ~Same(mmu_tables, mmu_tables')
    BY <1>0, <2>1 DEF Same
  <2>3. PICK l \in 0 .. 2 :
          \E o, p \in PTE : \E P, i : LeafChange(mmu_tables, mmu_tables', l, P, i, o, p)
    BY <2>2 DEF OneChange
  <2>4. PICK o \in PTE, p \in PTE :
          \E P, i : LeafChange(mmu_tables, mmu_tables', l, P, i, o, p)
    BY <2>3
  <2>5. PICK P, i : LeafChange(mmu_tables, mmu_tables', l, P, i, o, p)
    BY <2>4
  <2>6. PathAt(a, l) = P /\ vpn(a, l) = i
    BY <1>0, <2>1, <2>5 DEF LeafChange
  <2>7. \A v \in Block(a, l) : /\ v \in VPages
                               /\ w(v) = Resolve(o, v, l) /\ n(v) = Resolve(p, v, l)
    BY <1>0, <2>5, <2>6, BlockPages DEF LeafChange
  <2>8. \A v \in VPages \ Block(a, l) : n(v) = w(v)
    BY <1>0, <2>5, <2>6, BlockPages DEF LeafChange
  <2>9. a \in Block(a, l)
    BY BlockPages
  <2> HIDE DEF w, n
  <2>10. \A v : Walk(v) = w(v) /\ Walk(v)' = n(v)
    BY WalkIs DEF w, n
  <2>11. a \in Flat!Changed
    BY <2>1, <2>10 DEF Flat!Changed
  <2>12. Flat!Frame(Block(a, l))
    BY <2>8, <2>10 DEF Flat!Frame
  <2>13. CASE n(a) # Fault
    <3>1. \A v \in Block(a, l) : w(v) = Fault \/ w(v).level = l
      <4> SUFFICES ASSUME NEW v \in Block(a, l), w(v) # Fault PROVE w(v).level = l
        OBVIOUS
      <4> QED
        BY <2>7, <2>9, ResolveBlock
    <3>2. \A v \in Block(a, l) :
            /\ n(v) # Fault /\ n(v).level = l /\ n(v).perm = n(a).perm
            /\ n(v).ppn + a = n(a).ppn + v
      <4> SUFFICES ASSUME NEW v \in Block(a, l)
                   PROVE  /\ n(v) # Fault /\ n(v).level = l /\ n(v).perm = n(a).perm
                          /\ n(v).ppn + a = n(a).ppn + v
        OBVIOUS
      <4>1. n(v) = Resolve(p, v, l) /\ n(a) = Resolve(p, a, l)
        BY <2>7, <2>9
      <4> QED
        BY <2>13, <4>1, ResolveBlock
    <3>3. Flat!Install(a, l)
      BY <2>7, <2>10, <2>12, <2>13, <3>1, <3>2 DEF Flat!Install
    <3> QED
      BY <2>11, <3>3 DEF Flat!Next
  <2>14. CASE n(a) = Fault
    <3>1. w(a) # Fault /\ w(a) = Resolve(o, a, l) /\ n(a) = Resolve(p, a, l)
      BY <2>1, <2>7, <2>9, <2>14
    <3>2. w(a).level = l
      BY <2>9, <3>1, ResolveBlock
    <3>3. \A v \in Block(a, l) : n(v) = Fault
      BY <2>7, <2>14, <3>1, ResolveBlock
    <3>4. Flat!Remove(a)
      BY <2>7, <2>10, <2>12, <3>1, <3>2, <3>3 DEF Flat!Remove
    <3> QED
      BY <2>11, <3>4 DEF Flat!Next
  <2> QED
    BY <2>13, <2>14
<1> QED
  BY <1>1, <1>2

\* At boot the flat map has the gigapage over the devices and nothing else.
LEMMA FlatInit == ASSUME Init PROVE Flat!Init
<1>0. N \in Nat \ {0} /\ N * N \in Nat \ {0} /\ VPages \subseteq Nat /\ 0 \in VPages
  <2>1. N \in Nat \ {0} /\ N * N \in Nat \ {0} /\ N * N * N \in Nat \ {0}
    BY SizeAssumption
  <2> QED
    BY <2>1 DEF VPages, Span
<1>1. Root \in Tables /\ 0 \in 0 .. 2 /\ 2 \in 0 .. 2
  BY SizeAssumption DEF Root, Tables
<1>2. \A i \in Index :
        mmu_tables[Root][i] = IF i = 0 THEN Leaf(0, {"R", "W"}) ELSE Zero
  BY <1>1 DEF Init
<1>3. ASSUME NEW v \in VPages
      PROVE  IF v \in Block(0, 2) THEN Walk(v).ppn = v /\ Walk(v).level = 2
                                  ELSE Walk(v) = Fault
  <2>1. vpn(v, 2) \in Index /\ v \in Nat /\ v \div (N * N) = vpn(v, 2)
    <3>1. v \in Nat /\ v \div (N * N) = vpn(v, 2)
      BY VpnSplit
    <3>2. vpn(v, 2) \in Index
      BY <1>1, <3>1, VpnIndex
    <3> QED
      BY <3>1, <3>2
  <2>2. 0 \div (N * N) = vpn(0, 2) /\ 0 \div (N * N) = 0
    <3>1. 0 \div (N * N) = vpn(0, 2)
      BY <1>0, VpnSplit
    <3>2. \A m \in Nat \ {0} : 0 \div m = 0
      OBVIOUS
    <3> QED
      BY <1>0, <3>1, <3>2
  <2>3. v \in Block(0, 2) <=> vpn(v, 2) = 0
    BY <1>0, <1>1, <2>2, BlockPages DEF PathAt
  <2>4. CASE vpn(v, 2) = 0
    <3>1. mmu_tables[Root][vpn(v, 2)] = Leaf(0, {"R", "W"})
      BY <1>2, <2>1, <2>4
    <3>2. /\ Leaf(0, {"R", "W"}).V = 1 /\ IsLeaf(Leaf(0, {"R", "W"}))
          /\ Leaf(0, {"R", "W"}).ppn = 0
      BY DEF Leaf, IsLeaf, XWR
    <3>3. Walk(v) = Translate(Leaf(0, {"R", "W"}), v, 2)
      BY <3>1, <3>2 DEF Walk
    <3>4. Span(2) = N * N
      BY DEF Span
    <3>5. 0 % (N * N) = 0 /\ v % (N * N) = v
      <4> DEFINE M == N * N
      <4>1. M \in Nat \ {0} /\ v \div M = 0
        BY <1>0, <2>1, <2>4
      <4> HIDE DEF M
      <4>2. v = M * (v \div M) + (v % M)
        BY <2>1, <4>1
      <4>3. v % M \in Int /\ M * 0 = 0 /\ 0 % M = 0
        BY <2>1, <4>1
      <4>4. v % M = v
        BY <2>1, <4>1, <4>2, <4>3
      <4> QED
        BY <4>3, <4>4 DEF M
    <3>6. Walk(v) = [ppn |-> 0 + v, perm |-> Leaf(0, {"R", "W"}).perm, level |-> 2]
      BY <3>2, <3>3, <3>4, <3>5 DEF Translate
    <3> QED
      BY <2>1, <2>3, <2>4, <3>6
  <2>5. CASE vpn(v, 2) # 0
    <3>1. mmu_tables[Root][vpn(v, 2)] = Zero
      BY <1>2, <2>1, <2>5
    <3>2. Walk(v) = Fault
      BY <3>1 DEF Walk, Zero
    <3> QED
      BY <2>3, <2>5, <3>2
  <2> QED
    BY <2>4, <2>5
<1> QED
  BY <1>3 DEF Flat!Init

\* Every step of every call, of a caller's edit and of the walker is one step of
\* AddressSpace on the translations, or none: for every size of table and pool
\* and all calls that do not mix page sizes, mapping, unmapping, raw mapping and
\* edits change the translation of one leaf's block, all of it together, and of
\* no other page, although a call may allocate up to two tables on the way.
THEOREM TablesImplementFlatMap == ASSUME OneSize PROVE Spec => FlatSpec
<1>1. Init => Flat!Init
  BY FlatInit
<1>2. MmuInv /\ [Next]_vars => [Flat!Next]_([v \in VPages |-> Walk(v)])
  BY MmuStep, ChangeRefines
<1>3. Spec => []MmuInv
  BY MmuAlways
<1> QED
  BY <1>1, <1>2, <1>3, PTL DEF Spec, FlatSpec, Flat!Spec

-----------------------------------------------------------------------------
(***************************************************************************)
(* The TLB.                                                                *)
(***************************************************************************)
\* The pages edited through z_riscv_mmu_pte_lookup are mapped as 4 KB pages, as
\* an sfence.vma for one address asks, and the watched ones are Sv39 pages.
EditsSmall ==
    /\ \A c \in EditCalls : c.va \in SmallPages
    /\ Watched \subseteq VPages

TlbInv ==
    /\ DOMAIN tlb \subseteq VPages
    /\ TlbCoherent

\* One step keeps the TLB coherent.
LEMMA TlbStep ==
    ASSUME OneSize, EditsSmall, MmuInv, TlbInv, [Next]_vars
    PROVE  TlbInv'
<1>0. VPages \subseteq Nat
  BY DEF VPages
<1>1. ASSUME op'.kind # "idle", tlb' = tlb PROVE TlbInv'
  BY <1>1 DEF TlbInv, TlbCoherent
<1>2. ASSUME NEW c \in MapCalls, MapBegin(c) PROVE TlbInv'
  BY <1>1, <1>2 DEF MapBegin
<1>3. ASSUME NEW c \in UnmapCalls, UnmapBegin(c) PROVE TlbInv'
  BY <1>1, <1>3 DEF UnmapBegin
<1>4. ASSUME NEW c \in RawCalls, MapRaw(c) PROVE TlbInv'
  BY <1>1, <1>4 DEF MapRaw
<1>5. CASE MapStep
  <2>1. op'.kind # "idle"
    <3>1. op \in [kind : {"map", "boot"}, va : Nat, pa : Nat, n : Nat, perm : SUBSET Perms]
      BY <1>5 DEF MapStep, MmuInv, OpInv, Idle
    <3>2. op' = [op EXCEPT !.va = @ + 1, !.pa = @ + 1, !.n = @ - 1]
      BY <1>5 DEF MapStep
    <3>3. op'.kind = op.kind
      BY <3>1, <3>2
    <3> QED
      BY <3>1, <3>3
  <2> QED
    BY <1>1, <1>5, <2>1 DEF MapStep
<1>6. CASE UnmapStep
  <2>1. op'.kind # "idle"
    <3>1. op \in [kind : {"unmap"}, va : Nat, n : Nat]
      BY <1>6 DEF UnmapStep, MmuInv, OpInv, Idle
    <3>2. op' = [op EXCEPT !.va = @ + 1, !.n = @ - 1]
      BY <1>6 DEF UnmapStep
    <3>3. op'.kind = op.kind
      BY <3>1, <3>2
    <3> QED
      BY <3>1, <3>3
  <2> QED
    BY <1>1, <1>6, <2>1 DEF UnmapStep
<1>7. CASE Finish
  <2>1. DOMAIN tlb' = {}
    BY <1>7 DEF Finish
  <2> QED
    BY <2>1 DEF TlbInv, TlbCoherent
<1>8. ASSUME NEW c \in EditCalls, EditPte(c) PROVE TlbInv'
  <2> DEFINE p == Leaf(c.pa, c.perm)
  <2>1. c.va \in VPages /\ c.va \in Nat /\ c.va \in SmallPages /\ c.pa \in Nat
          /\ c.perm \in SUBSET Perms /\ c.perm \cap XWR # {}
    BY <1>0, CallAssumption, LeafAssumption DEF EditsSmall
  <2>2. p \in PTE /\ ~IsBranch(p)
    BY <2>1 DEF Leaf, PTE, IsBranch, Perms
  <2>3. /\ fate = "ok" /\ pte_lookup(c.va) # <<>> /\ op.kind = "idle"
        /\ SetState(Store(State, pte_lookup(c.va)[1], pte_lookup(c.va)[2], p))
        /\ unfenced' = unfenced \cup {c.va} /\ op' = op /\ tlb' = tlb
    BY <1>8 DEF EditPte, Free
  <2> HIDE DEF p
  <2>4. \A v \in Nat : \/ WalkIn(mmu_tables', v) = WalkIn(mmu_tables, v)
                       \/ Path0(v) = Path0(c.va) /\ vpn(v, 0) = vpn(c.va, 0)
    BY <2>1, <2>2, <2>3, LookupStore
  <2>5. \A v \in VPages : Path0(v) = Path0(c.va) /\ vpn(v, 0) = vpn(c.va, 0) => v = c.va
    BY <2>1, SamePage
  <2>6. \A v \in DOMAIN tlb : v \in unfenced' \/ tlb[v] = Walk(v)'
    <3> SUFFICES ASSUME NEW v \in DOMAIN tlb, v \notin unfenced' PROVE tlb[v] = Walk(v)'
      OBVIOUS
    <3>1. v \in VPages /\ v # c.va /\ tlb[v] = Walk(v)
      BY <2>3 DEF TlbInv, TlbCoherent
    <3> QED
      BY <1>0, <2>4, <2>5, <3>1, WalkIs
  <2> QED
    BY <2>3, <2>6 DEF TlbInv, TlbCoherent
<1>9. ASSUME NEW c \in EditCalls, SfenceAddr(c.va) PROVE TlbInv'
  <2>1. DOMAIN tlb' = DOMAIN tlb \ {c.va} /\ \A v \in DOMAIN tlb' : tlb'[v] = tlb[v]
    BY <1>9 DEF SfenceAddr
  <2>2. \A v : Walk(v)' = Walk(v)
    BY <1>9, WalkIs DEF SfenceAddr, tvars
  <2>3. op' = op /\ unfenced' = unfenced \ {c.va}
    BY <1>9 DEF SfenceAddr
  <2> QED
    BY <2>1, <2>2, <2>3 DEF TlbInv, TlbCoherent
<1>10. ASSUME NEW va \in Watched, Fill(va) PROVE TlbInv'
  <2>1. /\ DOMAIN tlb' = DOMAIN tlb \cup {va}
        /\ \A v \in DOMAIN tlb' : tlb'[v] = IF v = va THEN Walk(va) ELSE tlb[v]
    BY <1>10 DEF Fill
  <2>2. \A v : Walk(v)' = Walk(v)
    BY <1>10, WalkIs DEF Fill, tvars
  <2>3. op' = op /\ unfenced' = unfenced
    BY <1>10 DEF Fill
  <2> QED
    BY <2>1, <2>2, <2>3 DEF TlbInv, TlbCoherent, EditsSmall
<1>11. CASE UNCHANGED vars
  <2>1. \A v : Walk(v)' = Walk(v)
    BY <1>11, WalkIs DEF vars
  <2> QED
    BY <1>11, <2>1 DEF vars, TlbInv, TlbCoherent
<1> QED
  BY <1>2, <1>3, <1>4, <1>5, <1>6, <1>7, <1>8, <1>9, <1>10, <1>11 DEF Next

\* Between calls every cached translation, a cached fault included, is what the
\* tables say, but for the pages a caller edited itself and has not fenced: for
\* every size and set of calls, whenever the walker fills the TLB.
THEOREM TlbAlwaysCoherent ==
    ASSUME OneSize, EditsSmall
    PROVE  Spec => []TlbCoherent
<1>1. Init => TlbInv
  BY DEF Init, TlbInv, TlbCoherent
<1>2. MmuInv /\ TlbInv /\ [Next]_vars => TlbInv'
  BY TlbStep
<1>3. TlbInv => TlbCoherent
  BY DEF TlbInv
<1>4. Spec => []MmuInv
  BY MmuAlways
<1> QED
  BY <1>1, <1>2, <1>3, <1>4, PTL DEF Spec
-----------------------------------------------------------------------------
(***************************************************************************)
(* The tables are reachable through the translations they define.          *)
(***************************************************************************)
RW == {"R", "W"}
ImagePages == ImageStart .. ImageStart + ImageSize - 1

\* The image is Sv39 pages and holds the pool; calls stay in Sv39 pages; one that
\* names a page of the pool maps it to itself, readable and writable.
PoolKept ==
    /\ ImagePages \subseteq VPages /\ Tables \subseteq ImagePages
    /\ \A c \in MapCalls : \A v \in c.va .. c.va + c.n - 1 :
         v \in VPages /\ (v \in Tables => c.pa = c.va /\ RW \subseteq c.perm)
    /\ \A c \in UnmapCalls : c.va .. c.va + c.n - 1 \subseteq VPages \ Tables
    /\ \A c \in RawCalls : c.level = 0 /\ c.va \in Tables =>
         c.V = 1 /\ c.pa = c.va /\ RW \subseteq c.perm
    /\ \A c \in EditCalls : c.va \in Tables => c.pa = c.va /\ RW \subseteq c.perm

\* Page v is mapped to itself, readable and writable, by the tables T.
Owned(T, v) == WalkIn(T, v).ppn = v /\ RW \subseteq WalkIn(T, v).perm

\* What is left of the call in progress keeps the pool.
OpKeeps ==
    /\ op.kind \in {"map", "boot"} => \A v \in op.va .. op.va + op.n - 1 :
         v \in VPages /\ (v \in Tables => op.pa = op.va /\ RW \subseteq op.perm)
    /\ op.kind = "unmap" => op.va .. op.va + op.n - 1 \subseteq VPages \ Tables
    /\ op.kind = "boot" => op.va + op.n = ImageStart + ImageSize

\* The loop of z_riscv_mmu_init has mapped the pool as far as it has come, and
\* from then on all of it is mapped.
ReachInv ==
    /\ OpKeeps
    /\ \A t \in Tables :
         (op.kind = "boot" => fate = "ok" /\ t < op.va) => Owned(mmu_tables, t)

\* An entry that maps a page to itself.
LEMMA OwnLeaf ==
    ASSUME NEW va \in Nat, NEW p \in PTE, p.V = 1, p.ppn = va, RW \subseteq p.perm
    PROVE  Resolve(p, va, 0).ppn = va /\ RW \subseteq Resolve(p, va, 0).perm
<1>1. IsLeaf(p)
  BY DEF IsLeaf, RW, XWR
<1>2. Span(0) = 1 /\ va % 1 = 0 /\ va + 0 = va
  BY DEF Span
<1>3. Resolve(p, va, 0) = [ppn |-> va, perm |-> p.perm, level |-> 0]
  BY <1>1, <1>2 DEF Resolve, Translate
<1> QED
  BY <1>3

\* The pages of the pool are Sv39 pages mapped as 4 KB pages.
LEMMA PoolPages ==
    ASSUME PoolKept, NEW t \in Tables
    PROVE  t \in VPages /\ t \in Nat /\ t \in SmallPages
<1>1. t \in ImagePages /\ t \in VPages /\ t \in Nat
  BY SizeAssumption DEF PoolKept, Tables
<1> QED
  BY <1>1 DEF SmallPages, ImagePages

\* A store at one 4 KB page leaves the others; the page it is for is mapped to
\* itself if the entry says so.
LEMMA SmallEffect ==
    ASSUME NEW T, NEW W, NEW va \in VPages, NEW p \in PTE, NEW t \in VPages,
           Effect(T, W, va, 0, p),
           t = va => p.V = 1 /\ p.ppn = va /\ RW \subseteq p.perm
    PROVE  /\ Owned(T, t) => Owned(W, t)
           /\ t = va => Owned(W, t)
<1>1. t \in Nat /\ va \in Nat
  BY VpnSplit
<1>2. PathAt(t, 0) = Path0(t) /\ PathAt(va, 0) = Path0(va)
  BY DEF PathAt
<1>3. CASE t = va
  <2>1. WalkIn(W, t) = Resolve(p, va, 0)
    BY <1>1, <1>3 DEF Effect
  <2> QED
    BY <1>1, <1>3, <2>1, OwnLeaf DEF Owned
<1>4. CASE t # va
  <2>1. ~(Path0(t) = Path0(va) /\ vpn(t, 0) = vpn(va, 0))
    BY <1>4, SamePage
  <2>2. WalkIn(W, t) = WalkIn(T, t)
    BY <1>1, <1>2, <2>1 DEF Effect
  <2> QED
    BY <1>4, <2>2 DEF Owned
<1> QED
  BY <1>3, <1>4

\* A superpage mapped where no table is needed translates no 4 KB page.
LEMMA SuperEffect ==
    ASSUME NEW T, NEW W, NEW va \in Nat, NEW l \in 1 .. 2, NEW p, NEW v \in SmallPages,
           Effect(T, W, va, l, p),
           l = 2 => Path1(va) \notin Slots, l = 1 => Path0(va) \notin Slots
    PROVE  WalkIn(W, v) = WalkIn(T, v)
<1>1. v \in Nat /\ Path1(v) \in Slots /\ Path0(v) \in Slots
  BY DEF SmallPages, Slots
<1>2. ~(PathAt(v, l) = PathAt(va, l) /\ vpn(v, l) = vpn(va, l))
  <2> SUFFICES ASSUME PathAt(v, l) = PathAt(va, l), vpn(v, l) = vpn(va, l) PROVE FALSE
    OBVIOUS
  <2>1. CASE l = 2
    <3>1. Path1(v) = Path1(va)
      BY <2>1 DEF Path1
    <3> QED
      BY <1>1, <2>1, <3>1
  <2>2. CASE l = 1
    <3>0. PathAt(v, 1) = Path1(v) /\ PathAt(va, 1) = Path1(va)
      BY DEF PathAt
    <3>1. Path1(v) = Path1(va)
      BY <2>2, <3>0
    <3>2. Path0(v) = Path0(va)
      BY <2>2, <3>1 DEF Path0, Path1
    <3> QED
      BY <1>1, <2>2, <3>2
  <2> QED
    BY <2>1, <2>2
<1> QED
  BY <1>1, <1>2 DEF Effect

\* One step of a call, of a caller's edit or of the walker keeps the pool mapped.
LEMMA ReachStep ==
    ASSUME OneSize, PoolKept, MmuInv, ReachInv, [Next]_vars
    PROVE  ReachInv'
<1>0. VPages \subseteq Nat
  BY DEF VPages
<1>1. \A t \in Tables : t \in VPages /\ t \in Nat /\ t \in SmallPages
  BY PoolPages
<1>2. ASSUME UNCHANGED tvars, OpKeeps', op.kind # "boot" \/ UNCHANGED op PROVE ReachInv'
  BY <1>2 DEF ReachInv, tvars
<1>3. ASSUME NEW c \in MapCalls, MapBegin(c) PROVE ReachInv'
  <2>1. op' = [kind |-> "map", va |-> c.va, pa |-> c.pa, n |-> c.n, perm |-> c.perm]
    BY <1>3 DEF MapBegin
  <2>2. OpKeeps'
    BY <2>1 DEF OpKeeps, PoolKept
  <2> QED
    BY <1>2, <1>3, <2>2 DEF MapBegin, Free
<1>4. ASSUME NEW c \in UnmapCalls, UnmapBegin(c) PROVE ReachInv'
  <2>1. op' = [kind |-> "unmap", va |-> c.va, n |-> c.n]
    BY <1>4 DEF UnmapBegin
  <2>2. OpKeeps'
    BY <2>1 DEF OpKeeps, PoolKept
  <2> QED
    BY <1>2, <1>4, <2>2 DEF UnmapBegin, Free
<1>5. ASSUME NEW c \in RawCalls, MapRaw(c) PROVE ReachInv'
  <2> DEFINE p == [V |-> c.V, perm |-> c.perm, ppn |-> c.pa]
  <2>1. c.va \in VPages /\ c.va \in Nat /\ c.pa \in Nat /\ c.V \in {0, 1}
          /\ c.perm \in SUBSET Perms /\ c.level \in 0 .. 2 /\ c.perm \cap XWR # {}
    BY <1>0, CallAssumption, LeafAssumption
  <2>2. p \in PTE /\ ~IsBranch(p) /\ p.V = c.V /\ p.perm = c.perm /\ p.ppn = c.pa
    BY <2>1 DEF PTE, IsBranch
  <2>3. /\ c.level = 0 => c.va \in SmallPages
        /\ c.level = 1 => c.va \in MegaPages
        /\ c.level = 2 => c.va \in GigaPages
    BY <2>1 DEF SmallPages, MegaPages, GigaPages
  <2>4. /\ c.level < 2 => Path1(c.va) \in Slots
        /\ c.level = 2 => Path1(c.va) \notin Slots
        /\ c.level < 1 => Path0(c.va) \in Slots
        /\ c.level = 1 => Path0(c.va) \notin Slots
    BY <2>1, <2>3 DEF Slots, OneSize
  <2>5. /\ fate = "ok" /\ op.kind = "idle" /\ op'.kind = "raw"
        /\ SetState(map_at(State, c.va, c.level, p))
    BY <1>5 DEF MapRaw, Free
  <2> HIDE DEF p
  <2>6. IF fate' = "ok" THEN Effect(mmu_tables, mmu_tables', c.va, c.level, p)
                        ELSE Same(mmu_tables, mmu_tables')
    BY <2>1, <2>2, <2>4, <2>5, MapAtStep
  <2>7. OpKeeps'
    BY <2>5 DEF OpKeeps
  <2>8. ASSUME NEW t \in Tables PROVE Owned(mmu_tables', t)
    <3>1. Owned(mmu_tables, t) /\ t \in VPages /\ t \in Nat /\ t \in SmallPages
      BY <1>1, <2>5 DEF ReachInv
    <3>2. CASE fate' # "ok"
      BY <2>6, <3>1, <3>2 DEF Same, Owned
    <3>3. CASE fate' = "ok" /\ c.level = 0
      <4>1. t = c.va => p.V = 1 /\ p.ppn = c.va /\ RW \subseteq p.perm
        BY <2>2, <3>3 DEF PoolKept
      <4> QED
        BY <2>1, <2>2, <2>6, <3>1, <3>3, <4>1, SmallEffect
    <3>4. CASE fate' = "ok" /\ c.level # 0
      <4>1. c.level \in 1 .. 2
        BY <2>1, <3>4
      <4>2. WalkIn(mmu_tables', t) = WalkIn(mmu_tables, t)
        BY <2>1, <2>4, <2>6, <3>1, <3>4, <4>1, SuperEffect
      <4> QED
        BY <3>1, <4>2 DEF Owned
    <3> QED
      BY <3>2, <3>3, <3>4
  <2> QED
    BY <2>7, <2>8 DEF ReachInv
<1>6. CASE MapStep
  <2> DEFINE p == Leaf(op.pa, op.perm)
  <2>1. /\ op \in [kind : {"map", "boot"}, va : Nat, pa : Nat, n : Nat, perm : SUBSET Perms]
        /\ "R" \in op.perm
        /\ op.va .. op.va + op.n - 1 \subseteq SmallPages
        /\ op.n > 0 /\ fate = "ok"
    BY <1>6 DEF MapStep, MmuInv, OpInv, Idle
  <2>2. /\ op.kind \in {"map", "boot"} /\ op.va \in Nat /\ op.pa \in Nat /\ op.n \in Nat
        /\ op.va \in SmallPages /\ op.va \in op.va .. op.va + op.n - 1
    BY <2>1
  <2>3. p \in PTE /\ ~IsBranch(p) /\ p.V = 1 /\ p.ppn = op.pa /\ op.perm \subseteq p.perm
    BY <2>1 DEF Leaf, PTE, IsBranch, XWR, Perms
  <2>4. Path1(op.va) \in Slots /\ Path0(op.va) \in Slots
    BY <2>2 DEF Slots
  <2>5. SetState(map_at(State, op.va, 0, p))
    BY <1>6 DEF MapStep, map_page
  <2> HIDE DEF p
  <2>6. IF fate' = "ok" THEN Effect(mmu_tables, mmu_tables', op.va, 0, p)
                        ELSE Same(mmu_tables, mmu_tables')
    BY <2>1, <2>2, <2>3, <2>4, <2>5, MapAtStep
  <2>7. op' = [kind |-> op.kind, va |-> op.va + 1, pa |-> op.pa + 1, n |-> op.n - 1,
               perm |-> op.perm]
    BY <1>6, <2>1 DEF MapStep
  <2>8. op'.kind = op.kind /\ op'.va = op.va + 1 /\ op'.pa = op.pa + 1
          /\ op'.n = op.n - 1 /\ op'.perm = op.perm
    BY <2>7
  <2>9. \A v \in op.va .. op.va + op.n - 1 :
          v \in VPages /\ (v \in Tables => op.pa = op.va /\ RW \subseteq op.perm)
    BY <2>2 DEF ReachInv, OpKeeps
  <2>10. OpKeeps'
    <3>1. \A v \in op'.va .. op'.va + op'.n - 1 : v \in op.va .. op.va + op.n - 1
      BY <2>2, <2>8
    <3>2. op.pa = op.va => op'.pa = op'.va
      BY <2>8
    <3>3. \A v \in op'.va .. op'.va + op'.n - 1 :
            v \in VPages /\ (v \in Tables => op'.pa = op'.va /\ RW \subseteq op'.perm)
      BY <2>8, <2>9, <3>1, <3>2
    <3>4. op.kind = "boot" => op'.va + op'.n = ImageStart + ImageSize
      BY <2>2, <2>8 DEF ReachInv, OpKeeps
    <3> QED
      BY <2>2, <2>8, <3>3, <3>4 DEF OpKeeps
  <2>11. ASSUME NEW t \in Tables, op.kind = "boot" => fate' = "ok" /\ t < op.va + 1
         PROVE  Owned(mmu_tables', t)
    <3>1. t \in VPages /\ t \in Nat /\ op.va \in VPages
      BY <1>1, <2>2, <2>9
    <3>2. CASE fate' # "ok"
      <4>1. Owned(mmu_tables, t)
        BY <2>2, <2>11, <3>2 DEF ReachInv
      <4> QED
        BY <2>6, <3>1, <3>2, <4>1 DEF Same, Owned
    <3>3. CASE fate' = "ok"
      <4>1. t = op.va => p.V = 1 /\ p.ppn = op.va /\ RW \subseteq p.perm
        BY <2>2, <2>3, <2>9
      <4>2. /\ Owned(mmu_tables, t) => Owned(mmu_tables', t)
            /\ t = op.va => Owned(mmu_tables', t)
        BY <2>3, <2>6, <3>1, <3>3, <4>1, SmallEffect
      <4>3. t = op.va \/ Owned(mmu_tables, t)
        <5>1. t # op.va => (op.kind = "boot" => t < op.va)
          BY <2>2, <2>11, <3>1
        <5> QED
          BY <2>1, <5>1 DEF ReachInv
      <4> QED
        BY <4>2, <4>3
    <3> QED
      BY <3>2, <3>3
  <2> QED
    BY <2>8, <2>10, <2>11 DEF ReachInv
<1>7. CASE UnmapStep
  <2>1. op \in [kind : {"unmap"}, va : Nat, n : Nat] /\ op.n > 0 /\ fate = "ok"
    BY <1>7 DEF UnmapStep, MmuInv, OpInv, Idle
  <2>2. op.kind = "unmap" /\ op.va \in Nat /\ op.n \in Nat
          /\ op.va \in op.va .. op.va + op.n - 1
    BY <2>1
  <2>3. op' = [kind |-> "unmap", va |-> op.va + 1, n |-> op.n - 1]
    BY <1>7, <2>1 DEF UnmapStep
  <2>4. op.va .. op.va + op.n - 1 \subseteq VPages \ Tables
    BY <2>2 DEF ReachInv, OpKeeps
  <2>5. OpKeeps'
    <3>1. op'.kind = "unmap" /\ op'.va = op.va + 1 /\ op'.n = op.n - 1
      BY <2>3
    <3>2. op'.va .. op'.va + op'.n - 1 \subseteq op.va .. op.va + op.n - 1
      BY <2>2, <3>1
    <3> QED
      BY <2>4, <3>1, <3>2 DEF OpKeeps
  <2>6. op.va \in VPages /\ op.va \notin Tables
    BY <2>2, <2>4
  <2>7. CASE pte_lookup(op.va) = <<>>
    <3>1. UNCHANGED tvars
      BY <1>7, <2>7 DEF UnmapStep, unmap_page, SetState, State, tvars
    <3> QED
      BY <1>2, <2>2, <2>5, <3>1
  <2>8. CASE pte_lookup(op.va) # <<>>
    <3>1. SetState(Store(State, pte_lookup(op.va)[1], pte_lookup(op.va)[2], Zero))
      BY <1>7, <2>8 DEF UnmapStep, unmap_page
    <3>2. Zero \in PTE /\ ~IsBranch(Zero)
      BY DEF Zero, PTE, IsBranch
    <3>3. \A v \in SmallPages :
            \/ WalkIn(mmu_tables', v) = WalkIn(mmu_tables, v)
            \/ Path0(v) = Path0(op.va) /\ vpn(v, 0) = vpn(op.va, 0)
      BY <2>1, <2>2, <2>8, <3>1, <3>2, LookupStore
    <3>4. ASSUME NEW t \in Tables PROVE Owned(mmu_tables', t)
      <4>1. t \in SmallPages /\ t \in VPages /\ t # op.va /\ Owned(mmu_tables, t)
        BY <1>1, <2>2, <2>6 DEF ReachInv
      <4>2. ~(Path0(t) = Path0(op.va) /\ vpn(t, 0) = vpn(op.va, 0))
        BY <2>6, <4>1, SamePage
      <4> QED
        BY <3>3, <4>1, <4>2 DEF Owned
    <3> QED
      BY <2>5, <3>4 DEF ReachInv
  <2> QED
    BY <2>7, <2>8
<1>8. ASSUME NEW c \in EditCalls, EditPte(c) PROVE ReachInv'
  <2> DEFINE p == Leaf(c.pa, c.perm)
  <2>1. c.va \in VPages /\ c.va \in Nat /\ c.pa \in Nat
          /\ c.perm \in SUBSET Perms /\ c.perm \cap XWR # {}
    BY <1>0, CallAssumption, LeafAssumption
  <2>2. p \in PTE /\ ~IsBranch(p) /\ p.V = 1 /\ p.ppn = c.pa /\ c.perm \subseteq p.perm
    BY <2>1 DEF Leaf, PTE, IsBranch, Perms
  <2>3. /\ fate = "ok" /\ pte_lookup(c.va) # <<>> /\ op.kind = "idle" /\ op' = op
        /\ SetState(Store(State, pte_lookup(c.va)[1], pte_lookup(c.va)[2], p))
    BY <1>8 DEF EditPte, Free
  <2> HIDE DEF p
  <2>4. /\ c.va \in SmallPages => Effect(mmu_tables, mmu_tables', c.va, 0, p)
        /\ \A v \in SmallPages :
             \/ WalkIn(mmu_tables', v) = WalkIn(mmu_tables, v)
             \/ Path0(v) = Path0(c.va) /\ vpn(v, 0) = vpn(c.va, 0)
    BY <2>1, <2>2, <2>3, LookupStore
  <2>5. OpKeeps'
    BY <2>3 DEF OpKeeps
  <2>6. ASSUME NEW t \in Tables PROVE Owned(mmu_tables', t)
    <3>1. Owned(mmu_tables, t) /\ t \in VPages /\ t \in SmallPages
      BY <1>1, <2>3 DEF ReachInv
    <3>2. CASE t = c.va
      <4>1. p.V = 1 /\ p.ppn = c.va /\ RW \subseteq p.perm
        BY <2>2, <3>2 DEF PoolKept
      <4> QED
        BY <2>1, <2>2, <2>4, <3>1, <3>2, <4>1, SmallEffect
    <3>3. CASE t # c.va
      <4>1. ~(Path0(t) = Path0(c.va) /\ vpn(t, 0) = vpn(c.va, 0))
        BY <2>1, <3>1, <3>3, SamePage
      <4> QED
        BY <2>4, <3>1, <4>1 DEF Owned
    <3> QED
      BY <3>2, <3>3
  <2> QED
    BY <2>5, <2>6 DEF ReachInv
<1>9. CASE Finish
  <2>1. op.n = 0 /\ fate = "ok" /\ op'.kind = "idle" /\ UNCHANGED tvars
    BY <1>9 DEF Finish, Idle
  <2>2. OpKeeps'
    BY <2>1 DEF OpKeeps
  <2>3. ASSUME NEW t \in Tables, op.kind = "boot" PROVE t < op.va
    <3>1. op.va + op.n = ImageStart + ImageSize /\ op.va \in Nat
      BY <2>3 DEF ReachInv, OpKeeps, MmuInv, OpInv, Idle
    <3>2. t \in ImageStart .. ImageStart + ImageSize - 1
      BY DEF PoolKept, ImagePages
    <3> QED
      BY <2>1, <3>1, <3>2, ImageAssumption
  <2>4. \A t \in Tables : Owned(mmu_tables, t)
    BY <2>1, <2>3 DEF ReachInv
  <2> QED
    BY <2>1, <2>2, <2>4 DEF ReachInv, tvars
<1>10. ASSUME NEW va, SfenceAddr(va) \/ Fill(va) PROVE ReachInv'
  <2>1. UNCHANGED <<tvars, op>>
    BY <1>10 DEF SfenceAddr, Fill
  <2>2. OpKeeps'
    BY <2>1 DEF ReachInv, OpKeeps
  <2> QED
    BY <1>2, <2>1, <2>2
<1>11. CASE UNCHANGED vars
  <2>1. UNCHANGED <<tvars, op>>
    BY <1>11 DEF vars, tvars
  <2>2. OpKeeps'
    BY <2>1 DEF ReachInv, OpKeeps
  <2> QED
    BY <1>2, <2>1, <2>2
<1> QED
  BY <1>3, <1>4, <1>5, <1>6, <1>7, <1>8, <1>9, <1>10, <1>11 DEF Next

\* Before the loop over the image, no page of the pool needs to be mapped.
LEMMA ReachInit == ASSUME PoolKept, Init PROVE ReachInv
<1>1. op = [kind |-> "boot", va |-> ImageStart, pa |-> ImageStart, n |-> ImageSize,
            perm |-> {"R", "W", "X"}]
  BY DEF Init, BootLoop, BootMap
<1>2. OpKeeps
  BY <1>1 DEF OpKeeps, PoolKept, ImagePages, RW
<1>3. \A t \in Tables : ~(t < op.va)
  BY <1>1, ImageAssumption DEF PoolKept, ImagePages
<1> QED
  BY <1>1, <1>2, <1>3 DEF ReachInv

\* Once satp is on, the kernel can write every table in use through its own
\* pointers: the loop of z_riscv_mmu_init has mapped the whole pool, and no map,
\* unmap, raw mapping or edit, of whatever pages and page sizes, takes a page of
\* the pool away, as long as no call names one with another translation.
THEOREM TablesAlwaysReachable ==
    ASSUME OneSize, PoolKept
    PROVE  Spec => []TablesReachable
<1>1. Init => ReachInv
  BY ReachInit
<1>2. MmuInv /\ ReachInv /\ [Next]_vars => ReachInv'
  BY ReachStep
<1>3. MmuInv /\ ReachInv => TablesReachable
  <2> SUFFICES ASSUME MmuInv, ReachInv, op.kind # "boot", NEW t \in mmu_table_used
               PROVE  Walk(t).ppn = t /\ {"R", "W"} \subseteq Walk(t).perm
    BY DEF TablesReachable, Paging
  <2>1. t \in Tables
    BY DEF MmuInv, Tree, TreeBy
  <2>2. Owned(mmu_tables, t)
    BY <2>1 DEF ReachInv
  <2> QED
    BY <2>2, WalkIs DEF Owned, RW
<1>4. Spec => []MmuInv
  BY MmuAlways
<1> QED
  BY <1>1, <1>2, <1>3, <1>4, PTL DEF Spec
=============================================================================
