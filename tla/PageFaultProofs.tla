-------------------------- MODULE PageFaultProofs --------------------------
(***************************************************************************)
(* Proofs about PageFault, for every table size, pool, client and TLB:     *)
(* what the fixing handler promises.  One fault is enough, a fault is      *)
(* never spurious, an access reaches the frame its page was mapped to, and *)
(* fixing a page changes no other.                                         *)
(*                                                                         *)
(* All four rest on PFInv.  Its core is that the tables are a tree, which  *)
(* is stated by labelling every table of the pool with its level and the   *)
(* indices that lead to it (Labels): an entry of level 0 then belongs to   *)
(* one page, so that a store through pt_walk touches that page alone.      *)
(***************************************************************************)
EXTENDS PageFault, TLAPS

\* The client gives a page that it maps with U to the skipping handler only:
\* the fixing one does not clear U, and the access would fault for ever.
UserSkipped ==
    \A a \in Accesses, c \in MapCalls : c.va = a.va /\ "U" \in c.perm => a.action = 1

Tables == [Pool -> [Index -> PTE]]
Translation == [bits : SUBSET Bits, ppn : Int]

-----------------------------------------------------------------------------
(***************************************************************************)
(* The tables t as a tree: what the walk of a page meets.                  *)
(***************************************************************************)
Branch(p) == Has(p, "V") /\ ~XWR(p)
Mid(t, va) == t[PoolBase][vpn(va, 2)].ppn
Tab(t, va) == t[Mid(t, va)][vpn(va, 1)].ppn
Entry(t, va) == t[Tab(t, va)][vpn(va, 0)]

\* The walk of va reaches level 0.
Reaches(t, va) == Branch(t[PoolBase][vpn(va, 2)]) /\ Branch(t[Mid(t, va)][vpn(va, 1)])

\* lev, a and b label each table with its level and the indices that lead to
\* it from the root; next tables of the pool are in use.
Labels(t, next, lev, a, b) ==
    /\ next \in Nat \ {0} /\ lev[PoolBase] = 2
    /\ \A x \in Pool : lev[x] = 2 => x = PoolBase
    /\ \A i \in Index : Branch(t[PoolBase][i]) =>
          LET y == t[PoolBase][i].ppn IN
          y \in Pool /\ y < PoolBase + next /\ lev[y] = 1 /\ a[y] = i
    /\ \A i \in Index :
          Has(t[PoolBase][i], "V") /\ XWR(t[PoolBase][i]) => t[PoolBase][i].ppn \notin Pool
    /\ \A x \in Pool, i \in Index : lev[x] = 1 /\ Has(t[x][i], "V") =>
          LET y == t[x][i].ppn IN
          /\ Branch(t[x][i])
          /\ y \in Pool /\ y < PoolBase + next /\ lev[y] = 0 /\ a[y] = a[x] /\ b[y] = i

Tree(t, next) ==
    \E lev \in [Pool -> 0 .. 2], a \in [Pool -> Index], b \in [Pool -> Index] :
        Labels(t, next, lev, a, b)

\* Walk, of the tables t
WalkIn(t, va) ==
    LET p2 == t[PoolBase][vpn(va, 2)]
        p1 == t[p2.ppn][vpn(va, 1)]
        p0 == t[p1.ppn][vpn(va, 0)]
    IN  IF ~Has(p2, "V") \/ XWR(p2) THEN Leaf(p2, va, 2)
        ELSE IF ~Has(p1, "V") \/ XWR(p1) THEN Leaf(p1, va, 1)
        ELSE Leaf(p0, va, 0)

\* u is t with more pages reached; but for va, no page is translated otherwise.
Extends(t, u, va) ==
    \A w \in VPages :
        /\ Reaches(t, w) => Reaches(u, w) /\ (w # va => Entry(u, w) = Entry(t, w))
        /\ w # va => WalkIn(u, w) = WalkIn(t, w)

-----------------------------------------------------------------------------
(***************************************************************************)
(* The inductive invariant.                                                *)
(***************************************************************************)
UserPages == {c.va : c \in {d \in MapCalls : "U" \in d.perm}}

PFTypes ==
    /\ pt \in Tables /\ pt_pool_next_page \in Nat
    /\ DOMAIN tlb \subseteq VPages /\ \A v \in DOMAIN tlb : tlb[v] \in Translation
    /\ svadu \in BOOLEAN
    /\ cur \in [va : VPages, kind : Kinds] \cup {NoAccess}
    /\ pc \in {"run", "fix", "fence"}
    /\ handler_action \in 0 .. 2
    /\ fault_count \in 0 .. 1 /\ code \in Nat
    /\ DOMAIN frame \subseteq VPages

\* A page that a client mapped has an entry of level 0, with the frame it was
\* given, and U only if the client asked for it.
Mapped(t) ==
    \A v \in DOMAIN frame :
        /\ Reaches(t, v) /\ Entry(t, v).ppn = frame[v]
        /\ "U" \in Entry(t, v).bits => v \in UserPages

\* Two translations that the hart does not tell apart: one that sets A and D
\* itself does not look at them.
Alike(x, y) ==
    /\ x.ppn = y.ppn
    /\ \A bit \in {"V", "R", "W", "X", "U"} : bit \in x.bits <=> bit \in y.bits
    /\ svadu \/ \A bit \in {"A", "D"} : bit \in x.bits <=> bit \in y.bits

\* The TLB agrees with the tables, but for pages that the client has yet to
\* fence and the page the handler is about to.
Coherent ==
    \A v \in DOMAIN tlb :
        \/ v \in unfenced
        \/ pc = "fence" /\ v = cur.va
        \/ Alike(tlb[v], WalkIn(pt, v))

\* The access being executed is of a mapped and fenced page; once the handler
\* has fixed its entry, the tables permit it.
Current ==
    cur # NoAccess =>
        /\ cur.va \in DOMAIN frame \ unfenced
        /\ handler_action # 1 => cur.va \notin UserPages
        /\ pc = "run" => fault_count = 0 \/ Permits(WalkIn(pt, cur.va), cur.kind)
        /\ pc = "fence" => Permits(WalkIn(pt, cur.va), cur.kind)
        /\ pc # "run" => stval = cur.va

\* code # 0: the test is over
PFInv ==
    /\ PFTypes
    /\ pc # "run" => cur # NoAccess /\ code = 0
    /\ code = 0 => /\ Tree(pt, pt_pool_next_page)
                   /\ Mapped(pt) /\ Coherent /\ Current

-----------------------------------------------------------------------------
(***************************************************************************)
(* Pages by their indices.                                                 *)
(***************************************************************************)
\* Division with remainder.
LEMMA Division ==
    ASSUME NEW M \in Nat \ {0}, NEW x \in Int
    PROVE  x \div M \in Int /\ x % M \in 0 .. M - 1 /\ x = M * (x \div M) + (x % M)
  OBVIOUS

\* vpn yields indices.
LEMMA VpnIndex ==
    \A va \in VPages, l \in 0 .. 2 : vpn(va, l) \in Index
<1> SUFFICES ASSUME NEW va \in VPages, NEW l \in 0 .. 2
             PROVE  vpn(va, l) \in Index
  OBVIOUS
<1>1. N \in Nat \ {0} /\ va \in Nat
  BY LayoutAssumption DEF VPages, Span
<1>2. Span(l) \in Nat \ {0}
  BY <1>1 DEF Span
<1>3. va \div Span(l) \in Int
  BY <1>1, <1>2
<1> QED
  BY <1>1, <1>3 DEF vpn, Index

\* A page is determined by its three indices.
LEMMA OnePage ==
    ASSUME NEW v \in VPages, NEW w \in VPages,
           vpn(v, 2) = vpn(w, 2), vpn(v, 1) = vpn(w, 1), vpn(v, 0) = vpn(w, 0)
    PROVE  v = w
<1>0. N \in Nat \ {0} /\ N * N \in Nat \ {0}
  BY LayoutAssumption
<1>1. \A x \in VPages : /\ x \in Nat
                        /\ x = N * (x \div N) + vpn(x, 0)
                        /\ x \div N = N * ((x \div N) \div N) + vpn(x, 1)
  <2> SUFFICES ASSUME NEW x \in VPages
               PROVE  /\ x \in Nat
                      /\ x = N * (x \div N) + vpn(x, 0)
                      /\ x \div N = N * ((x \div N) \div N) + vpn(x, 1)
    OBVIOUS
  <2>1. x \in Nat /\ x \div 1 = x
    BY DEF VPages
  <2>2. vpn(x, 0) = x % N /\ vpn(x, 1) = (x \div N) % N
    BY <2>1 DEF vpn, Span
  <2>3. x \div N \in Int /\ x = N * (x \div N) + (x % N)
    BY <1>0, <2>1
  <2>4. x \div N = N * ((x \div N) \div N) + ((x \div N) % N)
    BY <1>0, <2>3
  <2> QED
    BY <2>1, <2>2, <2>3, <2>4
<1>2. \A x \in VPages : (x \div N) \div N = vpn(x, 2)
  <2> SUFFICES ASSUME NEW x \in VPages PROVE (x \div N) \div N = vpn(x, 2)
    OBVIOUS
  <2> DEFINE q == x \div N
             r == x % N
             s == q \div N
             k == q % N
  <2>1. x \in Nat /\ x < N * N * N
    BY <1>0 DEF VPages, Span
  <2>2. q \in Int /\ r \in 0 .. N - 1 /\ x = N * q + r
    BY <1>0, <2>1
  <2>3. s \in Int /\ k \in 0 .. N - 1 /\ q = N * s + k
    <3> HIDE DEF q
    <3> QED
      BY <1>0, <2>2, Division
  <2> DEFINE M == N * N
             z == N * k + r
             d == x \div M
             e == x % M
  <2>4. d \in Int /\ e \in 0 .. M - 1 /\ x = M * d + e
    <3>1. M \in Nat \ {0}
      BY <1>0
    <3> HIDE DEF M
    <3> QED
      BY <2>1, <3>1, Division
  <2> HIDE DEF q, r, s, k, d, e
  <2>5. z \in 0 .. M - 1
    <3>1. N * k <= N * (N - 1) /\ N * k >= 0
      BY <1>0, <2>3
    <3>2. N * (N - 1) = N * N - N
      BY <1>0
    <3> QED
      BY <1>0, <2>2, <2>3, <3>1, <3>2
  <2>6. x = M * s + z
    <3>1. N * (N * s + k) = (N * N) * s + N * k
      BY <1>0, <2>3
    <3> QED
      BY <1>0, <2>2, <2>3, <3>1
  <2>7. M \in Nat \ {0}
    BY <1>0
  <2>8. x < M * N
    BY <2>1
  <2> HIDE DEF M, z
  <2>9. M * (d - s) = z - e
    BY <2>3, <2>4, <2>5, <2>6, <2>7
  <2>10. d - s >= 1 => M * (d - s) >= M
    BY <2>3, <2>4, <2>7
  <2>11. d - s <= -1 => M * (d - s) <= -M
    BY <2>3, <2>4, <2>7
  <2>12. d = s
    BY <2>3, <2>4, <2>5, <2>7, <2>9, <2>10, <2>11
  <2>13. s >= N => M * s >= M * N
    BY <1>0, <2>3, <2>7
  <2>14. s <= -1 => M * s <= -M
    BY <2>3, <2>7
  <2>15. s \in 0 .. N - 1
    BY <1>0, <2>1, <2>3, <2>5, <2>6, <2>7, <2>8, <2>13, <2>14
  <2>16. s % N = s
    BY <1>0, <2>15
  <2> QED
    BY <2>12, <2>16 DEF vpn, Span, d, M, s, q
<1> QED
  BY <1>1, <1>2

\* A leaf of level 0 translates its page to the frame it names.
LEMMA LeafZero ==
    ASSUME NEW p \in PTE, NEW va \in VPages
    PROVE  Leaf(p, va, 0) = IF Has(p, "V") /\ XWR(p) THEN p ELSE Fault
<1>1. va \in Nat /\ va % 1 = 0
  BY DEF VPages
<1>2. p.ppn \in Nat /\ p.ppn % 1 = 0
  BY DEF PTE
<1>3. p = [bits |-> p.bits, ppn |-> p.ppn]
  BY DEF PTE
<1> QED
  BY <1>1, <1>2, <1>3 DEF Leaf, Span

\* What the walk yields is a translation.
LEMMA LeafType ==
    ASSUME NEW p \in PTE, NEW va \in VPages, NEW l \in 0 .. 2
    PROVE  Leaf(p, va, l) \in Translation
<1>1. N \in Nat \ {0} /\ va \in Nat
  BY LayoutAssumption DEF VPages
<1>2. Span(l) \in Nat \ {0}
  BY <1>1 DEF Span
<1>3. va % Span(l) \in Int
  BY <1>1, <1>2
<1> QED
  BY <1>3 DEF Leaf, Fault, PTE, Translation

-----------------------------------------------------------------------------
(***************************************************************************)
(* The tree.                                                               *)
(***************************************************************************)
\* A walk that reaches level 0 does so in the table labelled with its indices.
LEMMA Reached ==
    ASSUME NEW t \in Tables, NEW next, NEW lev, NEW a, NEW b, Labels(t, next, lev, a, b),
           NEW va \in VPages, Reaches(t, va)
    PROVE  /\ Mid(t, va) \in Pool /\ lev[Mid(t, va)] = 1 /\ a[Mid(t, va)] = vpn(va, 2)
           /\ Tab(t, va) \in Pool /\ lev[Tab(t, va)] = 0
           /\ a[Tab(t, va)] = vpn(va, 2) /\ b[Tab(t, va)] = vpn(va, 1)
           /\ Entry(t, va) \in PTE
<1>1. vpn(va, 2) \in Index /\ vpn(va, 1) \in Index /\ vpn(va, 0) \in Index
  BY VpnIndex
<1>2. Mid(t, va) \in Pool /\ lev[Mid(t, va)] = 1 /\ a[Mid(t, va)] = vpn(va, 2)
  BY <1>1 DEF Labels, Reaches, Mid
<1>3. /\ Tab(t, va) \in Pool /\ lev[Tab(t, va)] = 0
      /\ a[Tab(t, va)] = a[Mid(t, va)] /\ b[Tab(t, va)] = vpn(va, 1)
  BY <1>1, <1>2 DEF Labels, Reaches, Tab, Branch
<1> QED
  BY <1>1, <1>2, <1>3 DEF Entry, Tables

\* The root is a table of the pool.
LEMMA RootInPool == PoolBase \in Pool
  BY LayoutAssumption DEF Pool

\* The walk by what it meets.
LEMMA WalkCases ==
    ASSUME NEW t, NEW va
    PROVE  /\ ~Branch(t[PoolBase][vpn(va, 2)]) =>
                 WalkIn(t, va) = Leaf(t[PoolBase][vpn(va, 2)], va, 2)
           /\ Branch(t[PoolBase][vpn(va, 2)]) /\ ~Branch(t[Mid(t, va)][vpn(va, 1)]) =>
                 WalkIn(t, va) = Leaf(t[Mid(t, va)][vpn(va, 1)], va, 1)
           /\ Reaches(t, va) => WalkIn(t, va) = Leaf(Entry(t, va), va, 0)
  BY DEF WalkIn, Branch, Mid, Tab, Entry, Reaches

\* The walk of any page ends in a translation.
LEMMA WalkType ==
    ASSUME NEW t \in Tables, NEW next, Tree(t, next), NEW va \in VPages
    PROVE  WalkIn(t, va) \in Translation
<1>1. vpn(va, 2) \in Index /\ vpn(va, 1) \in Index
  BY VpnIndex
<1>2. PICK lev \in [Pool -> 0 .. 2], a \in [Pool -> Index], b \in [Pool -> Index] :
          Labels(t, next, lev, a, b)
  BY DEF Tree
<1>3. CASE ~Branch(t[PoolBase][vpn(va, 2)])
  <2>1. t[PoolBase][vpn(va, 2)] \in PTE
    BY <1>1, RootInPool DEF Tables
  <2> QED
    BY <1>3, <2>1, WalkCases, LeafType
<1>4. CASE Branch(t[PoolBase][vpn(va, 2)]) /\ ~Branch(t[Mid(t, va)][vpn(va, 1)])
  <2>1. Mid(t, va) \in Pool
    BY <1>1, <1>2, <1>4 DEF Labels, Mid
  <2>2. t[Mid(t, va)][vpn(va, 1)] \in PTE
    BY <1>1, <2>1 DEF Tables
  <2> QED
    BY <1>4, <2>2, WalkCases, LeafType
<1>5. CASE Reaches(t, va)
  BY <1>2, <1>5, Reached, WalkCases, LeafType
<1> QED
  BY <1>3, <1>4, <1>5 DEF Reaches

\* A store to the entry of level 0 of va: it is the entry of no other page.
LEMMA LeafStore ==
    ASSUME NEW t \in Tables, NEW next, Tree(t, next), NEW va \in VPages, Reaches(t, va),
           NEW p \in PTE, NEW u,
           u = [t EXCEPT ![Tab(t, va)][vpn(va, 0)] = p]
    PROVE  /\ u \in Tables /\ Tree(u, next) /\ Extends(t, u, va)
           /\ Reaches(u, va) /\ Entry(u, va) = p
<1>1. \A w \in VPages : vpn(w, 2) \in Index /\ vpn(w, 1) \in Index /\ vpn(w, 0) \in Index
  BY VpnIndex
<1>2. PICK lev \in [Pool -> 0 .. 2], a \in [Pool -> Index], b \in [Pool -> Index] :
          Labels(t, next, lev, a, b)
  BY DEF Tree
<1>3. Tab(t, va) \in Pool /\ lev[Tab(t, va)] = 0
  BY <1>2, Reached
<1>4. /\ u \in Tables
      /\ u[Tab(t, va)][vpn(va, 0)] = p
      /\ \A x \in Pool, i \in Index :
            x # Tab(t, va) \/ i # vpn(va, 0) => u[x][i] = t[x][i]
  BY <1>1, <1>3 DEF Tables
<1>5. \A x \in Pool, i \in Index : lev[x] # 0 => u[x][i] = t[x][i]
  BY <1>3, <1>4
<1> HIDE DEF Tables
<1>6. \A i \in Index : u[PoolBase][i] = t[PoolBase][i]
  BY <1>2, <1>5, RootInPool DEF Labels
<1>7. Labels(u, next, lev, a, b)
  <2>1. \A x \in Pool, i \in Index : lev[x] = 1 => u[x][i] = t[x][i]
    BY <1>5
  <2> QED
    BY <1>2, <1>6, <2>1 DEF Labels
<1>8. \A w \in VPages : /\ Reaches(t, w) => Reaches(u, w) /\ Tab(u, w) = Tab(t, w)
                        /\ w # va => WalkIn(u, w) = WalkIn(t, w)
                        /\ Reaches(t, w) /\ w # va => Entry(u, w) = Entry(t, w)
  <2> SUFFICES ASSUME NEW w \in VPages
               PROVE  /\ Reaches(t, w) => Reaches(u, w) /\ Tab(u, w) = Tab(t, w)
                      /\ w # va => WalkIn(u, w) = WalkIn(t, w)
                      /\ Reaches(t, w) /\ w # va => Entry(u, w) = Entry(t, w)
    OBVIOUS
  <2>1. Mid(u, w) = Mid(t, w)
    BY <1>1, <1>6 DEF Mid
  <2>2. CASE ~Branch(t[PoolBase][vpn(w, 2)])
    <3>1. u[PoolBase][vpn(w, 2)] = t[PoolBase][vpn(w, 2)]
      BY <1>1, <1>6
    <3>2. ~Reaches(t, w)
      BY <2>2 DEF Reaches
    <3>3. WalkIn(u, w) = WalkIn(t, w)
      BY <2>2, <3>1, WalkCases
    <3> QED
      BY <3>2, <3>3
  <2>3. CASE Branch(t[PoolBase][vpn(w, 2)])
    <3>1. Mid(t, w) \in Pool /\ lev[Mid(t, w)] = 1
      BY <1>1, <1>2, <2>3 DEF Labels, Mid
    <3>2. u[Mid(t, w)][vpn(w, 1)] = t[Mid(t, w)][vpn(w, 1)]
      BY <1>1, <1>5, <3>1
    <3>3. Branch(u[PoolBase][vpn(w, 2)]) /\ (Reaches(u, w) <=> Reaches(t, w))
      BY <1>1, <1>6, <2>1, <2>3, <3>2 DEF Reaches
    <3>4. Tab(u, w) = Tab(t, w)
      BY <2>1, <3>2 DEF Tab
    <3>5. CASE ~Reaches(t, w)
      <4>1. ~Branch(t[Mid(t, w)][vpn(w, 1)]) /\ ~Branch(u[Mid(u, w)][vpn(w, 1)])
        BY <2>1, <2>3, <3>2, <3>5 DEF Reaches
      <4>2. /\ WalkIn(t, w) = Leaf(t[Mid(t, w)][vpn(w, 1)], w, 1)
            /\ WalkIn(u, w) = Leaf(u[Mid(u, w)][vpn(w, 1)], w, 1)
        BY <2>3, <3>3, <4>1, WalkCases
      <4>3. WalkIn(u, w) = WalkIn(t, w)
        BY <2>1, <3>2, <4>2
      <4> QED
        BY <3>5, <4>3
    <3>6. CASE Reaches(t, w)
      <4>1. /\ Tab(t, w) \in Pool
            /\ a[Tab(t, w)] = vpn(w, 2) /\ b[Tab(t, w)] = vpn(w, 1)
            /\ a[Tab(t, va)] = vpn(va, 2) /\ b[Tab(t, va)] = vpn(va, 1)
        BY <1>2, <3>6, Reached
      <4>2. w # va => Tab(t, w) # Tab(t, va) \/ vpn(w, 0) # vpn(va, 0)
        BY <4>1, OnePage
      <4>3. w # va => Entry(u, w) = Entry(t, w)
        BY <1>1, <1>4, <3>4, <4>1, <4>2 DEF Entry
      <4> QED
        BY <3>3, <3>4, <3>6, <4>3, WalkCases
    <3> QED
      BY <3>5, <3>6
  <2> QED
    BY <2>2, <2>3
<1>9. Entry(u, va) = p
  BY <1>4, <1>8 DEF Entry
<1> QED
  BY <1>4, <1>7, <1>8, <1>9 DEF Tree, Extends

\* An invalid entry translates nothing.
LEMMA Invalid ==
    ASSUME NEW p, ~Has(p, "V"), NEW va, NEW l
    PROVE  Leaf(p, va, l) = Fault
  BY DEF Leaf

\* u is t with the table at next zeroed and entry i of table x pointed to it.
Hung(t, u, next, x, i) ==
    \A y \in Pool, j \in Index :
        u[y][j] = IF y = PoolBase + next THEN Zero
                  ELSE IF y = x /\ j = i THEN pte_branch(PoolBase + next)
                  ELSE t[y][j]

\* A new table hung into an invalid entry i of a table x of level 1 or 2: it
\* is zeroed first, so no page is translated otherwise than before.
LEMMA NewTable ==
    ASSUME NEW t \in Tables, NEW next,
           NEW lev \in [Pool -> 0 .. 2], NEW a \in [Pool -> Index], NEW b \in [Pool -> Index],
           Labels(t, next, lev, a, b),
           NEW x \in Pool, NEW i \in Index, lev[x] # 0, x < PoolBase + next,
           ~Has(t[x][i], "V"), PoolBase + next \in Pool,
           NEW u \in Tables, Hung(t, u, next, x, i)
    PROVE  /\ Tree(u, next + 1)
           /\ \A va : Extends(t, u, va)
           /\ \A w \in VPages : Reaches(t, w) => Entry(u, w) = Entry(t, w)
<1> DEFINE x0 == PoolBase + next
           lev1 == [lev EXCEPT ![x0] = lev[x] - 1]
           a1 == [a EXCEPT ![x0] = IF lev[x] = 2 THEN i ELSE a[x]]
           b1 == [b EXCEPT ![x0] = i]
<1>0. next \in Nat \ {0} /\ PoolBase \in Int /\ x0 \in Pool /\ x # x0 /\ PoolBase # x0
  BY LayoutAssumption DEF Labels, Pool
<1>1. /\ lev1 \in [Pool -> 0 .. 2] /\ a1 \in [Pool -> Index] /\ b1 \in [Pool -> Index]
      /\ lev1[x0] = lev[x] - 1 /\ b1[x0] = i
      /\ a1[x0] = IF lev[x] = 2 THEN i ELSE a[x]
      /\ \A y \in Pool : y # x0 => lev1[y] = lev[y] /\ a1[y] = a[y] /\ b1[y] = b[y]
  BY <1>0
<1>2. \A y \in Pool, j \in Index :
          /\ y = x0 => u[y][j] = Zero
          /\ y = x /\ j = i => u[y][j] = pte_branch(x0)
          /\ y # x0 /\ ~(y = x /\ j = i) => u[y][j] = t[y][j]
  BY <1>0 DEF Hung
<1>3. \A y \in Pool : y < PoolBase + next => y # x0
  BY <1>0 DEF Pool
<1>4. Branch(pte_branch(x0)) /\ pte_branch(x0).ppn = x0 /\ ~Has(Zero, "V")
  BY DEF Branch, pte_branch, Has, XWR, Zero
<1>5. x = PoolBase <=> lev[x] = 2
  BY DEF Labels
<1>6. x0 < PoolBase + (next + 1) /\ \A y \in Pool : y < PoolBase + next => y < PoolBase + (next + 1)
  BY <1>0 DEF Pool
<1>7. next + 1 \in Nat \ {0}
  BY <1>0
<1> HIDE DEF x0, lev1, a1, b1
<1>8. Labels(u, next + 1, lev1, a1, b1)
  <2>1. lev1[PoolBase] = 2 /\ \A y \in Pool : lev1[y] = 2 => y = PoolBase
    BY <1>0, <1>1, RootInPool DEF Labels
  <2>2. ASSUME NEW j \in Index, Branch(u[PoolBase][j])
        PROVE  LET y == u[PoolBase][j].ppn IN
               y \in Pool /\ y < PoolBase + (next + 1) /\ lev1[y] = 1 /\ a1[y] = j
    <3>1. CASE x = PoolBase /\ j = i
      <4>1. u[PoolBase][j].ppn = x0 /\ lev[x] = 2
        BY <1>2, <1>4, <1>5, <3>1, RootInPool
      <4> QED
        BY <1>0, <1>1, <1>6, <3>1, <4>1
    <3>2. CASE ~(x = PoolBase /\ j = i)
      <4>1. u[PoolBase][j] = t[PoolBase][j]
        BY <1>0, <1>2, <3>2, RootInPool
      <4>2. LET y == t[PoolBase][j].ppn IN
            y \in Pool /\ y < PoolBase + next /\ lev[y] = 1 /\ a[y] = j
        BY <2>2, <4>1 DEF Labels
      <4> QED
        BY <1>1, <1>3, <1>6, <4>1, <4>2
    <3> QED
      BY <3>1, <3>2
  <2>3. ASSUME NEW j \in Index, Has(u[PoolBase][j], "V"), XWR(u[PoolBase][j])
        PROVE  u[PoolBase][j].ppn \notin Pool
    <3>1. u[PoolBase][j] = t[PoolBase][j]
      BY <1>0, <1>2, <1>4, <2>3, RootInPool DEF Branch
    <3> QED
      BY <2>3, <3>1 DEF Labels
  <2>4. ASSUME NEW y \in Pool, NEW j \in Index, lev1[y] = 1, Has(u[y][j], "V")
        PROVE  LET z == u[y][j].ppn IN
               /\ Branch(u[y][j])
               /\ z \in Pool /\ z < PoolBase + (next + 1)
               /\ lev1[z] = 0 /\ a1[z] = a1[y] /\ b1[z] = j
    <3>1. y # x0
      BY <1>2, <1>4, <2>4
    <3>2. lev[y] = 1
      BY <1>1, <2>4, <3>1
    <3>3. CASE y = x /\ j = i
      <4>1. u[y][j].ppn = x0 /\ Branch(u[y][j])
        BY <1>2, <1>4, <3>3
      <4>2. lev1[x0] = 0 /\ a1[x0] = a[x] /\ b1[x0] = j /\ a1[x] = a[x]
        BY <1>0, <1>1, <3>2, <3>3
      <4> QED
        BY <1>0, <1>6, <3>3, <4>1, <4>2
    <3>4. CASE ~(y = x /\ j = i)
      <4>1. u[y][j] = t[y][j]
        BY <1>2, <3>1, <3>4
      <4>2. LET z == t[y][j].ppn IN
            /\ Branch(t[y][j])
            /\ z \in Pool /\ z < PoolBase + next /\ lev[z] = 0 /\ a[z] = a[y] /\ b[z] = j
        BY <2>4, <3>2, <4>1 DEF Labels
      <4> QED
        BY <1>1, <1>3, <1>6, <3>1, <4>1, <4>2
    <3> QED
      BY <3>3, <3>4
  <2> QED
    BY <1>7, <2>1, <2>2, <2>3, <2>4 DEF Labels
<1>9. \A w \in VPages : /\ WalkIn(u, w) = WalkIn(t, w)
                        /\ Reaches(t, w) => Reaches(u, w) /\ Entry(u, w) = Entry(t, w)
  <2> SUFFICES ASSUME NEW w \in VPages
               PROVE  /\ WalkIn(u, w) = WalkIn(t, w)
                      /\ Reaches(t, w) => Reaches(u, w) /\ Entry(u, w) = Entry(t, w)
    OBVIOUS
  <2>0. vpn(w, 2) \in Index /\ vpn(w, 1) \in Index /\ vpn(w, 0) \in Index
    BY VpnIndex
  <2>1. CASE x = PoolBase /\ i = vpn(w, 2)
    <3>1. ~Branch(t[PoolBase][vpn(w, 2)]) /\ WalkIn(t, w) = Fault
      BY <2>1, WalkCases, Invalid DEF Branch
    <3>2. Branch(u[PoolBase][vpn(w, 2)]) /\ Mid(u, w) = x0
      BY <1>2, <1>4, <2>0, <2>1 DEF Mid
    <3>3. u[x0][vpn(w, 1)] = Zero
      BY <1>0, <1>2, <2>0
    <3>4. WalkIn(u, w) = Fault
      BY <1>4, <3>2, <3>3, WalkCases, Invalid DEF Branch
    <3> QED
      BY <3>1, <3>4 DEF Reaches
  <2>2. CASE ~(x = PoolBase /\ i = vpn(w, 2))
    <3>1. u[PoolBase][vpn(w, 2)] = t[PoolBase][vpn(w, 2)] /\ Mid(u, w) = Mid(t, w)
      BY <1>0, <1>2, <2>0, <2>2, RootInPool DEF Mid
    <3>2. CASE ~Branch(t[PoolBase][vpn(w, 2)])
      <4>1. WalkIn(u, w) = WalkIn(t, w)
        BY <3>1, <3>2, WalkCases
      <4> QED
        BY <3>2, <4>1 DEF Reaches
    <3>3. CASE Branch(t[PoolBase][vpn(w, 2)])
      <4> DEFINE y == Mid(t, w)
      <4>1. y \in Pool /\ y # x0 /\ lev[y] = 1
        BY <1>3, <2>0, <3>3 DEF Labels, Mid
      <4> HIDE DEF y
      <4>2. CASE x = y /\ i = vpn(w, 1)
        <5>1. ~Branch(t[y][vpn(w, 1)]) /\ ~Has(t[y][vpn(w, 1)], "V")
          BY <4>2 DEF Branch
        <5>2. WalkIn(t, w) = Fault /\ ~Reaches(t, w)
          BY <3>3, <5>1, WalkCases, Invalid DEF Reaches, y
        <5>3. Branch(u[y][vpn(w, 1)]) /\ u[y][vpn(w, 1)].ppn = x0
          BY <1>2, <1>4, <4>1, <4>2, <2>0
        <5>4. Reaches(u, w) /\ Tab(u, w) = x0
          BY <3>1, <3>3, <5>3 DEF Reaches, Tab, y
        <5>5. Entry(u, w) = Zero
          BY <1>0, <1>2, <2>0, <5>4 DEF Entry
        <5>6. WalkIn(u, w) = Fault
          BY <1>4, <5>4, <5>5, WalkCases, Invalid
        <5> QED
          BY <5>2, <5>6
      <4>3. CASE ~(x = y /\ i = vpn(w, 1))
        <5>1. u[y][vpn(w, 1)] = t[y][vpn(w, 1)]
          BY <1>2, <2>0, <4>1, <4>3
        <5>2. Tab(u, w) = Tab(t, w) /\ (Reaches(u, w) <=> Reaches(t, w))
          BY <3>1, <5>1 DEF Tab, Reaches, y
        <5>3. CASE ~Reaches(t, w)
          <6>1. ~Branch(t[y][vpn(w, 1)])
            BY <3>3, <5>3 DEF Reaches, y
          <6>2. WalkIn(t, w) = Leaf(t[y][vpn(w, 1)], w, 1)
            BY <3>3, <6>1, WalkCases DEF y
          <6>3. WalkIn(u, w) = Leaf(u[y][vpn(w, 1)], w, 1)
            BY <3>1, <3>3, <5>1, <6>1, WalkCases DEF y
          <6> QED
            BY <5>1, <5>3, <6>2, <6>3
        <5>4. CASE Reaches(t, w)
          <6>1. Tab(t, w) \in Pool /\ lev[Tab(t, w)] = 0
            BY <5>4, Reached
          <6>2. Tab(t, w) # x0
            BY <1>3, <2>0, <4>1, <5>4 DEF Labels, Reaches, Branch, Tab, y
          <6>3. Entry(u, w) = Entry(t, w)
            BY <1>2, <2>0, <5>2, <6>1, <6>2 DEF Entry
          <6> QED
            BY <5>2, <5>4, <6>3, WalkCases
        <5> QED
          BY <5>3, <5>4
      <4> QED
        BY <4>2, <4>3
    <3> QED
      BY <3>2, <3>3
  <2> QED
    BY <2>1, <2>2
<1> QED
  BY <1>1, <1>8, <1>9 DEF Tree, Extends

-----------------------------------------------------------------------------
(***************************************************************************)
(* pt_map_page.                                                            *)
(***************************************************************************)
\* A record of tables, before and after a write that leaves the pool.
Good(t, next) == [t |-> t, next |-> next, ok |-> TRUE]
Bad(t, next) == [t |-> t, next |-> next, ok |-> FALSE]
Fresh(t, next) == [x \in Pool |-> IF x = PoolBase + next THEN ZeroTable ELSE t[x]]

\* Store and Descend by cases: once out of the pool, nothing more is written.
LEMMA StoreBad ==
    ASSUME NEW t, NEW next, NEW tbl, NEW i, NEW p
    PROVE  Store(Bad(t, next), tbl, i, p) = Bad(t, next)
  BY DEF Store, Bad

\* ... and no table is entered.
LEMMA DescendBad ==
    ASSUME NEW t, NEW next, NEW tbl, NEW i
    PROVE  Descend(Bad(t, next), tbl, i) = Bad(t, next)
  BY DEF Descend, Bad

\* A leaf taken for a table leaves the pool.
LEMMA DescendOut ==
    ASSUME NEW t, NEW next, NEW tbl, tbl \notin Pool, NEW i
    PROVE  Descend(Good(t, next), tbl, i) = Bad(t, next)
  BY DEF Descend, Good, Bad

\* A valid entry is followed as it is.
LEMMA DescendValid ==
    ASSUME NEW t, NEW next, NEW tbl \in Pool, NEW i, Has(t[tbl][i], "V")
    PROVE  Descend(Good(t, next), tbl, i) = Good(t, next)
  BY DEF Descend, Good

\* An invalid one takes a table, which may not be there ...
LEMMA DescendFull ==
    ASSUME NEW t, NEW next \in Nat, NEW tbl \in Pool, NEW i, ~Has(t[tbl][i], "V"),
           ~(next < PoolPages)
    PROVE  Descend(Good(t, next), tbl, i) = Bad(Fresh(t, next), next + 1)
<1>1. pt_alloc_page(Good(t, next)) = Bad(Fresh(t, next), next + 1)
  BY DEF pt_alloc_page, Good, Bad, Fresh
<1>2. Descend(Good(t, next), tbl, i)
        = Store(pt_alloc_page(Good(t, next)), tbl, i, pte_branch(PoolBase + next))
  BY DEF Descend, Good
<1> QED
  BY <1>1, <1>2, StoreBad

\* ... or is zeroed and linked.
LEMMA DescendNew ==
    ASSUME NEW t, NEW next \in Nat, NEW tbl \in Pool, NEW i, ~Has(t[tbl][i], "V"),
           next < PoolPages, NEW u,
           u = [Fresh(t, next) EXCEPT ![tbl][i] = pte_branch(PoolBase + next)]
    PROVE  Descend(Good(t, next), tbl, i) = Good(u, next + 1)
<1>1. pt_alloc_page(Good(t, next)) = Good(Fresh(t, next), next + 1)
  BY DEF pt_alloc_page, Good, Fresh
<1>2. Descend(Good(t, next), tbl, i)
        = Store(pt_alloc_page(Good(t, next)), tbl, i, pte_branch(PoolBase + next))
  BY DEF Descend, Good
<1> DEFINE f == Fresh(t, next)
           p == pte_branch(PoolBase + next)
           k == next + 1
<1> HIDE DEF f, p, k
<1>3. u = [f EXCEPT ![tbl][i] = p]
  BY DEF f, p
<1>4. Store(Good(f, k), tbl, i, p) = Good(u, k)
  BY <1>3 DEF Store, Good
<1> QED
  BY <1>1, <1>2, <1>4 DEF f, p, k

\* Descend from the root or from a table that the root points to, if it stays
\* in the pool: the entry is valid after it, and the tables are still a tree
\* that translates every page as before.
Grown(t, u, next, tbl, i) ==
    /\ Tree(u, next)
    /\ \A va : Extends(t, u, va)
    /\ \A w \in VPages : Reaches(t, w) => Entry(u, w) = Entry(t, w)
    /\ Has(u[tbl][i], "V")
    /\ \A j \in Index : Has(t[PoolBase][j], "V") => u[PoolBase][j] = t[PoolBase][j]

\* Descend keeps the tree, or leaves the pool.
LEMMA DescendStep ==
    ASSUME NEW t \in Tables, NEW next \in Nat, Tree(t, next), NEW tbl, NEW i \in Index,
           tbl = PoolBase \/ \E j \in Index : Has(t[PoolBase][j], "V") /\ tbl = t[PoolBase][j].ppn
    PROVE  \E u \in Tables, k \in Nat :
              \/ Descend(Good(t, next), tbl, i) = Bad(u, k)
              \/ /\ Descend(Good(t, next), tbl, i) = Good(u, k)
                 /\ tbl \in Pool /\ Grown(t, u, k, tbl, i)
<1>1. PICK lev \in [Pool -> 0 .. 2], a \in [Pool -> Index], b \in [Pool -> Index] :
          Labels(t, next, lev, a, b)
  BY DEF Tree
<1>2. tbl \in Pool => lev[tbl] # 0 /\ tbl < PoolBase + next
  <2>1. PoolBase < PoolBase + next
    BY <1>1, LayoutAssumption DEF Labels
  <2> QED
    BY <1>1, <2>1 DEF Labels, Branch
<1>3. CASE tbl \notin Pool
  BY <1>3, DescendOut
<1>4. CASE tbl \in Pool /\ Has(t[tbl][i], "V")
  <2>1. Grown(t, t, next, tbl, i)
    BY <1>4 DEF Grown, Extends
  <2> QED
    BY <1>4, <2>1, DescendValid
<1> DEFINE f == Fresh(t, next)
           u == [f EXCEPT ![tbl][i] = pte_branch(PoolBase + next)]
<1>5. f \in Tables /\ next + 1 \in Nat
  BY DEF Fresh, Tables, ZeroTable, Zero, PTE
<1>6. CASE tbl \in Pool /\ ~Has(t[tbl][i], "V") /\ next < PoolPages
  <2>1. PoolBase + next \in Pool /\ PoolBase \in Nat
    BY <1>6, LayoutAssumption DEF Pool
  <2>2. pte_branch(PoolBase + next) \in PTE
    BY <2>1 DEF pte_branch, PTE, Bits
  <2>3. tbl # PoolBase + next /\ PoolBase # PoolBase + next
    BY <1>1, <1>2, <1>6, <2>1 DEF Pool, Labels
  <2>4. \A y \in Pool, j \in Index :
            f[y][j] = IF y = PoolBase + next THEN Zero ELSE t[y][j]
    BY DEF Fresh, ZeroTable
  <2> HIDE DEF f
  <2>5. u \in Tables
    BY <1>5, <1>6, <2>2 DEF Tables
  <2>6. \A y \in Pool, j \in Index :
            u[y][j] = IF y = tbl /\ j = i THEN pte_branch(PoolBase + next) ELSE f[y][j]
    BY <1>5, <1>6 DEF Tables
  <2>7. Descend(Good(t, next), tbl, i) = Good(u, next + 1)
    BY <1>6, DescendNew DEF f
  <2> HIDE DEF u
  <2>8. Hung(t, u, next, tbl, i)
    BY <2>3, <2>4, <2>6 DEF Hung
  <2>9. /\ Tree(u, next + 1)
        /\ \A va : Extends(t, u, va)
        /\ \A w \in VPages : Reaches(t, w) => Entry(u, w) = Entry(t, w)
    BY <1>1, <1>2, <1>6, <2>1, <2>5, <2>8, NewTable
  <2>10. Has(u[tbl][i], "V")
    BY <1>6, <2>6 DEF pte_branch, Has
  <2>11. \A j \in Index : Has(t[PoolBase][j], "V") => u[PoolBase][j] = t[PoolBase][j]
    BY <1>6, <2>3, <2>8, RootInPool DEF Hung
  <2>12. Grown(t, u, next + 1, tbl, i)
    BY <2>9, <2>10, <2>11 DEF Grown
  <2> QED
    BY <1>5, <1>6, <2>5, <2>7, <2>12
<1>7. CASE tbl \in Pool /\ ~Has(t[tbl][i], "V") /\ ~(next < PoolPages)
  BY <1>5, <1>7, DescendFull DEF f
<1> QED
  BY <1>3, <1>4, <1>6, <1>7

\* pt_map_page, if it stays in the pool: the page has the entry it was given,
\* and no other page is translated otherwise than before.
LEMMA MapStep ==
    ASSUME NEW t \in Tables, NEW next \in Nat, Tree(t, next), NEW va \in VPages, NEW p \in PTE
    PROVE  \E u \in Tables, k \in Nat :
              \/ map_at(Good(t, next), va, 0, p) = Bad(u, k)
              \/ /\ map_at(Good(t, next), va, 0, p) = Good(u, k)
                 /\ Tree(u, k) /\ Extends(t, u, va)
                 /\ Reaches(u, va) /\ Entry(u, va) = p
<1>0. vpn(va, 2) \in Index /\ vpn(va, 1) \in Index /\ vpn(va, 0) \in Index
  BY VpnIndex
<1> DEFINE m2 == Descend(Good(t, next), PoolBase, vpn(va, 2))
           l1 == Child(m2, PoolBase, vpn(va, 2))
           m1 == Descend(m2, l1, vpn(va, 1))
           l2 == Child(m1, l1, vpn(va, 1))
           r == Store(m1, l2, vpn(va, 0), p)
<1>1. map_at(Good(t, next), va, 0, p) = r
  BY DEF map_at
<1>2. PICK t2 \in Tables, k2 \in Nat :
         m2 = Bad(t2, k2) \/ (m2 = Good(t2, k2) /\ Grown(t, t2, k2, PoolBase, vpn(va, 2)))
  BY <1>0, DescendStep
<1> HIDE DEF m2
<1>3. CASE m2 = Bad(t2, k2)
  <2>1. m1 = Bad(t2, k2)
    BY <1>3, DescendBad
  <2> HIDE DEF m1, l2
  <2>2. r = Bad(t2, k2)
    BY <2>1, StoreBad
  <2> QED
    BY <1>1, <1>2, <2>2
<1>4. CASE m2 = Good(t2, k2) /\ Grown(t, t2, k2, PoolBase, vpn(va, 2))
  <2>1. l1 = Mid(t2, va)
    BY <1>2, <1>4 DEF Child, Good, Mid
  <2>2. Has(t2[PoolBase][vpn(va, 2)], "V") /\ Tree(t2, k2)
    BY <1>2, <1>4 DEF Grown
  <2> HIDE DEF l1
  <2>3. PICK t1 \in Tables, k1 \in Nat :
           \/ m1 = Bad(t1, k1)
           \/ m1 = Good(t1, k1) /\ l1 \in Pool /\ Grown(t2, t1, k1, l1, vpn(va, 1))
    BY <1>0, <1>2, <1>4, <2>1, <2>2, DescendStep DEF Mid
  <2> HIDE DEF m1
  <2>4. CASE m1 = Bad(t1, k1)
    <3> HIDE DEF l2
    <3>1. r = Bad(t1, k1)
      BY <2>4, StoreBad
    <3> QED
      BY <1>1, <2>3, <3>1
  <2>5. CASE m1 = Good(t1, k1) /\ l1 \in Pool /\ Grown(t2, t1, k1, l1, vpn(va, 1))
    <3>1. l1 \in Pool /\ Tree(t1, k1) /\ Has(t1[l1][vpn(va, 1)], "V")
      BY <2>3, <2>5 DEF Grown
    <3>2. t1[PoolBase][vpn(va, 2)] = t2[PoolBase][vpn(va, 2)]
      BY <1>0, <2>2, <2>3, <2>5 DEF Grown
    <3>3. l1 = Mid(t1, va)
      BY <2>1, <3>2 DEF Mid
    <3>4. Reaches(t1, va)
      <4>1. PICK lev \in [Pool -> 0 .. 2], a \in [Pool -> Index], b \in [Pool -> Index] :
               Labels(t1, k1, lev, a, b)
        BY <3>1 DEF Tree
      <4>2. Branch(t1[PoolBase][vpn(va, 2)])
        BY <1>0, <2>2, <3>1, <3>2, <3>3, <4>1 DEF Labels, Branch, Mid
      <4>3. lev[l1] = 1
        BY <1>0, <3>3, <4>1, <4>2 DEF Labels, Mid
      <4> QED
        BY <1>0, <3>1, <3>3, <4>1, <4>2, <4>3 DEF Labels, Reaches
    <3>5. l2 = Tab(t1, va) /\ l2 \in Pool
      <4>1. l2 = Tab(t1, va)
        BY <2>3, <2>5, <3>3 DEF Child, Good, Tab
      <4> QED
        BY <3>1, <3>4, <4>1, Reached DEF Tree
    <3> HIDE DEF l2
    <3> DEFINE u == [t1 EXCEPT ![l2][vpn(va, 0)] = p]
    <3>6. r = Good(u, k1)
      <4>1. Store(Good(t1, k1), l2, vpn(va, 0), p) = Good(u, k1)
        BY <3>5 DEF Store, Good
      <4> QED
        BY <2>5, <4>1
    <3>7. /\ u \in Tables /\ Tree(u, k1) /\ Extends(t1, u, va)
          /\ Reaches(u, va) /\ Entry(u, va) = p
      BY <3>1, <3>4, <3>5, LeafStore
    <3> HIDE DEF u, r
    <3>8. Extends(t, u, va)
      <4>1. Extends(t, t2, va) /\ Extends(t2, t1, va)
        BY <1>2, <1>4, <2>3, <2>5 DEF Grown
      <4> QED
        BY <3>7, <4>1 DEF Extends
    <3> QED
      BY <1>1, <2>3, <3>6, <3>7, <3>8
  <2> QED
    BY <2>3, <2>4, <2>5
<1> QED
  BY <1>2, <1>3, <1>4

-----------------------------------------------------------------------------
(***************************************************************************)
(* The steps.                                                              *)
(***************************************************************************)
\* An access is permitted by bits alone: Fault has none.
LEMMA PermitsBits ==
    ASSUME NEW x, NEW k \in Kinds
    PROVE  Permits(x, k) <=> /\ Needs(k) \subseteq x.bits /\ "U" \notin x.bits
                             /\ svadu \/ AD(k) \subseteq x.bits
<1>1. \E bit : bit \in Needs(k)
  BY DEF Kinds, Needs
<1>2. x = Fault => ~(Needs(k) \subseteq x.bits)
  BY <1>1 DEF Fault
<1> QED
  BY <1>2 DEF Permits, Has

\* The hart treats translations that are Alike alike.
LEMMA AlikePermits ==
    ASSUME NEW x, NEW y, Alike(x, y), NEW k \in Kinds
    PROVE  Permits(x, k) <=> Permits(y, k)
<1>1. Needs(k) \subseteq {"V", "R", "W", "X", "U"} /\ AD(k) \subseteq {"A", "D"}
  BY DEF Kinds, Needs, AD
<1>2. Needs(k) \subseteq x.bits <=> Needs(k) \subseteq y.bits
  BY <1>1 DEF Alike
<1>3. "U" \in x.bits <=> "U" \in y.bits
  BY DEF Alike
<1>4. svadu \/ (AD(k) \subseteq x.bits <=> AD(k) \subseteq y.bits)
  BY <1>1 DEF Alike
<1> QED
  BY <1>2, <1>3, <1>4, PermitsBits

\* Walk is WalkIn of the tables, and pt_walk finds the entry of level 0.
LEMMA Walks ==
    ASSUME NEW va
    PROVE  /\ Walk(va) = WalkIn(pt, va)
           /\ Reaches(pt, va) => pt_walk(va) = <<Tab(pt, va), vpn(va, 0), 0>>
  BY DEF Walk, WalkIn, pt_walk, Reaches, Branch, Mid, Tab

\* What the hart sees of the page it accesses is what the tables say.
LEMMA SeenIsWalk ==
    ASSUME PFInv, code = 0, cur # NoAccess, pc # "fence"
    PROVE  /\ cur.va \in VPages /\ cur.kind \in Kinds
           /\ Reaches(pt, cur.va)
           /\ Seen(cur.va).ppn = WalkIn(pt, cur.va).ppn
           /\ Permits(Seen(cur.va), cur.kind) <=> Permits(WalkIn(pt, cur.va), cur.kind)
<1>1. cur.va \in VPages /\ cur.kind \in Kinds
  BY DEF PFInv, PFTypes
<1>2. cur.va \in DOMAIN frame /\ cur.va \notin unfenced /\ Reaches(pt, cur.va)
  BY DEF PFInv, Current, Mapped
<1>3. CASE cur.va \in DOMAIN tlb
  <2>1. Alike(tlb[cur.va], WalkIn(pt, cur.va))
    BY <1>2, <1>3 DEF PFInv, Coherent
  <2>2. Seen(cur.va) = tlb[cur.va]
    BY <1>3 DEF Seen
  <2> QED
    BY <1>1, <1>2, <2>1, <2>2, AlikePermits DEF Alike
<1>4. CASE cur.va \notin DOMAIN tlb
  BY <1>1, <1>2, <1>4, Walks DEF Seen
<1> QED
  BY <1>3, <1>4

\* A permitted page of level 0 is translated by its entry.
LEMMA PermittedEntry ==
    ASSUME PFTypes, Tree(pt, pt_pool_next_page), NEW va \in VPages, Reaches(pt, va),
           NEW k \in Kinds, Permits(WalkIn(pt, va), k)
    PROVE  /\ WalkIn(pt, va) = Entry(pt, va)
           /\ Has(Entry(pt, va), "V") /\ XWR(Entry(pt, va))
<1>1. Entry(pt, va) \in PTE
  BY Reached DEF PFTypes, Tree
<1>2. WalkIn(pt, va) = IF Has(Entry(pt, va), "V") /\ XWR(Entry(pt, va))
                       THEN Entry(pt, va) ELSE Fault
  BY <1>1, WalkCases, LeafZero
<1> QED
  BY <1>2 DEF Permits

\* *pte |= bits at the entry of level 0 of va: no other page is affected.
LEMMA SetBitsStep ==
    ASSUME PFTypes, Tree(pt, pt_pool_next_page), NEW va \in VPages, Reaches(pt, va),
           NEW bits \in SUBSET Bits, NEW u, u = SetBits(Tab(pt, va), vpn(va, 0), bits)
    PROVE  /\ u \in Tables /\ Tree(u, pt_pool_next_page) /\ Extends(pt, u, va)
           /\ Reaches(u, va)
           /\ Entry(u, va) = [bits |-> Entry(pt, va).bits \cup bits, ppn |-> Entry(pt, va).ppn]
           /\ Has(Entry(u, va), "V") /\ XWR(Entry(u, va)) => WalkIn(u, va) = Entry(u, va)
<1> DEFINE p == [bits |-> Entry(pt, va).bits \cup bits, ppn |-> Entry(pt, va).ppn]
<1>1. Entry(pt, va) \in PTE
  BY Reached DEF PFTypes, Tree
<1>2. p \in PTE
  BY <1>1 DEF PTE
<1>3. u = [pt EXCEPT ![Tab(pt, va)][vpn(va, 0)] = p]
  BY DEF SetBits, Entry
<1> HIDE DEF p
<1>4. pt \in Tables
  BY DEF PFTypes
<1>5. /\ u \in Tables /\ Tree(u, pt_pool_next_page) /\ Extends(pt, u, va)
      /\ Reaches(u, va) /\ Entry(u, va) = p
  BY <1>2, <1>3, <1>4, LeafStore
<1>6. Has(p, "V") /\ XWR(p) => WalkIn(u, va) = p
  BY <1>2, <1>5, WalkCases, LeafZero
<1> QED
  BY <1>5, <1>6 DEF p

\* The mapped pages stay mapped when bits other than U are set in one entry.
LEMMA StillMapped ==
    ASSUME PFTypes, Mapped(pt), NEW va \in VPages, NEW u, Extends(pt, u, va),
           NEW bits, "U" \notin bits,
           Entry(u, va) = [bits |-> Entry(pt, va).bits \cup bits, ppn |-> Entry(pt, va).ppn]
    PROVE  Mapped(u)
<1> SUFFICES ASSUME NEW v \in DOMAIN frame
             PROVE  /\ Reaches(u, v) /\ Entry(u, v).ppn = frame[v]
                    /\ "U" \in Entry(u, v).bits => v \in UserPages
  BY DEF Mapped
<1>1. /\ v \in VPages /\ Reaches(pt, v) /\ Entry(pt, v).ppn = frame[v]
      /\ "U" \in Entry(pt, v).bits => v \in UserPages
  BY DEF PFTypes, Mapped
<1>2. Reaches(u, v) /\ (v # va => Entry(u, v) = Entry(pt, v))
  BY <1>1 DEF Extends
<1>3. CASE v = va
  BY <1>1, <1>2, <1>3
<1>4. CASE v # va
  BY <1>1, <1>2, <1>4
<1> QED
  BY <1>3, <1>4

\* pt_reset and pt_setup_identity_kernel leave a tree of one table: the two
\* gigapages are leaves, and neither lies in the pool.
LEMMA PFInit == Init => PFInv
<1> SUFFICES ASSUME Init PROVE PFInv
  OBVIOUS
<1>0. /\ N \in Nat \ {0} /\ SramSlot \in Index \ {0} /\ PoolBase \in Nat
      /\ N * N \in Nat \ {0} /\ Span(2) = N * N
  BY LayoutAssumption DEF Span
<1>1. SramSlot * Span(2) \in Nat /\ SramSlot * Span(2) < PoolBase /\ 0 < PoolBase
  <2>1. SramSlot \in Nat
    BY <1>0 DEF Index
  <2>2. SramSlot * (N * N) >= 0
    BY <1>0, <2>1
  <2> QED
    BY <1>0, <2>1, <2>2, LayoutAssumption
<1> DEFINE io == pte_leaf(0, {"R", "W"})
           sram == pte_leaf(SramSlot * Span(2), {"R", "W", "X"})
<1>2. /\ io \in PTE /\ sram \in PTE /\ Zero \in PTE
      /\ XWR(io) /\ XWR(sram) /\ ~Has(Zero, "V")
      /\ io.ppn \notin Pool /\ sram.ppn \notin Pool
  <2> DEFINE s == SramSlot * Span(2)
  <2>1. s \in Nat /\ s < PoolBase /\ s \notin Pool /\ 0 \notin Pool
    BY <1>0, <1>1 DEF Pool
  <2> HIDE DEF s
  <2>2. pte_leaf(s, {"R", "W", "X"}) \in PTE /\ io \in PTE /\ Zero \in PTE
    BY <2>1 DEF pte_leaf, PTE, Bits, Zero
  <2>3. XWR(pte_leaf(s, {"R", "W", "X"})) /\ XWR(io)
    BY DEF pte_leaf, XWR
  <2>4. pte_leaf(s, {"R", "W", "X"}).ppn \notin Pool /\ io.ppn \notin Pool /\ ~Has(Zero, "V")
    BY <2>1 DEF pte_leaf, Has, Zero
  <2> QED
    BY <2>2, <2>3, <2>4 DEF s
<1>3. \A x \in Pool, i \in Index :
         pt[x][i] = IF x # PoolBase THEN Zero
                    ELSE IF i = SramSlot THEN sram ELSE IF i = 0 THEN io ELSE Zero
  BY DEF Init
<1>4. pt \in Tables
  BY <1>2 DEF Init, Tables
<1> HIDE DEF io, sram
<1>5. Tree(pt, pt_pool_next_page)
  <2> DEFINE lev == [x \in Pool |-> IF x = PoolBase THEN 2 ELSE 0]
             z == [x \in Pool |-> 0]
  <2>1. lev \in [Pool -> 0 .. 2] /\ z \in [Pool -> Index]
    BY <1>0 DEF Index
  <2>2. lev[PoolBase] = 2 /\ \A x \in Pool : lev[x] # 1 /\ (lev[x] = 2 => x = PoolBase)
    BY RootInPool
  <2> HIDE DEF lev, z
  <2>3. \A i \in Index : ~Branch(pt[PoolBase][i])
    BY <1>2, <1>3, RootInPool DEF Branch
  <2>4. \A i \in Index : Has(pt[PoolBase][i], "V") => pt[PoolBase][i].ppn \notin Pool
    BY <1>2, <1>3, RootInPool
  <2>5. pt_pool_next_page \in Nat \ {0}
    BY DEF Init
  <2>6. Labels(pt, pt_pool_next_page, lev, z, z)
    BY <2>2, <2>3, <2>4, <2>5 DEF Labels
  <2> QED
    BY <2>1, <2>6 DEF Tree
<1>6. DOMAIN tlb = {} /\ DOMAIN frame = {}
  BY DEF Init, NoTlb
<1>7. PFTypes
  BY <1>4, <1>6 DEF Init, PFTypes
<1> QED
  BY <1>5, <1>6, <1>7 DEF Init, PFInv, Mapped, Coherent, Current

\* A page is alone in its block of level 0.
LEMMA BlockOfOne == \A va \in VPages : Block(va, 0) = {va}
<1> SUFFICES ASSUME NEW va \in VPages PROVE Block(va, 0) = {va}
  OBVIOUS
<1>1. va \in Nat /\ va % 1 = 0 /\ va - 0 = va /\ va + 1 - 1 = va
  BY DEF VPages
<1>2. Block(va, 0) = va .. va
  BY <1>1 DEF Block, Span
<1> QED
  BY <1>1, <1>2

\* pt_map_page: the page joins the unfenced ones.
LEMMA MapPage ==
    ASSUME PFInv, NEW c \in MapCalls, pt_map_page(c.va, c.pa, c.perm, c.valid)
    PROVE  PFInv'
<1> DEFINE p == MapPte(c.pa, c.perm, c.valid)
           va == c.va
<1>1. /\ va \in VPages /\ c.pa \in Nat /\ c.perm \subseteq {"R", "W", "X", "U"}
  BY ClientAssumption
<1>2. /\ p \in PTE /\ p.ppn = c.pa
      /\ "U" \in p.bits => va \in UserPages
  <2>1. c.valid => p = [bits |-> c.perm \cup {"V", "A", "D"}, ppn |-> c.pa]
    BY DEF MapPte, pte_leaf
  <2>2. ~c.valid => p = [bits |-> c.perm \ {"V"}, ppn |-> c.pa]
    BY DEF MapPte
  <2>3. "U" \in c.perm => va \in UserPages
    BY DEF UserPages
  <2> HIDE DEF p, va
  <2>4. CASE c.valid
    BY <1>1, <2>1, <2>3, <2>4 DEF PTE, Bits
  <2>5. CASE ~c.valid
    BY <1>1, <2>2, <2>3, <2>5 DEF PTE, Bits
  <2> QED
    BY <2>4, <2>5
<1>3. /\ cur = NoAccess /\ code = 0 /\ pc = "run"
      /\ SetMemory(map_at(Memory, va, 0, p))
      /\ Names(Block(va, 0), va, p.ppn)
      /\ UNCHANGED <<hw, cur, pc, handler_action, trap, got>>
  BY DEF pt_map_page, MapAt, Between, PFInv
<1> HIDE DEF p, va
<1>4. /\ unfenced' = unfenced \cup {va}
      /\ frame' = [v \in DOMAIN frame \cup {va} |->
                     IF v \in {va} THEN p.ppn + v - va ELSE frame[v]]
  BY <1>1, <1>3, BlockOfOne DEF Names
<1>5. /\ DOMAIN frame' = DOMAIN frame \cup {va} /\ frame'[va] = p.ppn
      /\ \A v \in DOMAIN frame : v # va => frame'[v] = frame[v]
  <2>1. p.ppn \in Nat /\ va \in Nat
    BY <1>1, <1>2 DEF VPages
  <2>2. p.ppn + va - va = p.ppn
    BY <2>1
  <2> QED
    BY <1>4, <2>2
<1>6. Memory = Good(pt, pt_pool_next_page)
  BY DEF Memory, Good
<1>7. pt \in Tables /\ pt_pool_next_page \in Nat /\ Tree(pt, pt_pool_next_page)
  BY <1>3 DEF PFInv, PFTypes
<1>8. PICK u \in Tables, k \in Nat :
         \/ map_at(Memory, va, 0, p) = Bad(u, k)
         \/ /\ map_at(Memory, va, 0, p) = Good(u, k)
            /\ Tree(u, k) /\ Extends(pt, u, va)
            /\ Reaches(u, va) /\ Entry(u, va) = p
  BY <1>1, <1>2, <1>6, <1>7, MapStep
<1>9. /\ tlb' = tlb /\ svadu' = svadu /\ cur' = cur /\ pc' = pc
      /\ handler_action' = handler_action /\ fault_count' = fault_count
  BY <1>3 DEF hw, trap
<1>10. ASSUME pt' \in Tables, pt_pool_next_page' \in Nat, code' \in Nat
       PROVE  PFTypes'
  BY <1>1, <1>5, <1>9, <1>10 DEF PFInv, PFTypes
<1>11. CASE map_at(Memory, va, 0, p) = Bad(u, k)
  <2>1. pt' = u /\ pt_pool_next_page' = k /\ code' = 999
    BY <1>3, <1>11 DEF SetMemory, Bad
  <2> QED
    BY <1>3, <1>8, <1>9, <1>10, <2>1 DEF PFInv
<1>12. CASE /\ map_at(Memory, va, 0, p) = Good(u, k)
            /\ Tree(u, k) /\ Extends(pt, u, va)
            /\ Reaches(u, va) /\ Entry(u, va) = p
  <2>1. pt' = u /\ pt_pool_next_page' = k /\ code' = 0
    BY <1>3, <1>12 DEF SetMemory, Good
  <2>2. PFTypes'
    BY <1>8, <1>10, <2>1
  <2>3. Mapped(u)'
    <3> SUFFICES ASSUME NEW v \in DOMAIN frame'
                 PROVE  /\ Reaches(u, v) /\ Entry(u, v).ppn = frame'[v]
                        /\ "U" \in Entry(u, v).bits => v \in UserPages
      BY DEF Mapped
    <3>1. CASE v = va
      BY <1>2, <1>5, <1>12, <3>1
    <3>2. CASE v # va
      <4>1. v \in DOMAIN frame /\ v \in VPages
        BY <1>5, <3>2 DEF PFInv, PFTypes
      <4>2. /\ Reaches(pt, v) /\ Entry(pt, v).ppn = frame[v]
            /\ "U" \in Entry(pt, v).bits => v \in UserPages
        BY <1>3, <4>1 DEF PFInv, Mapped
      <4> QED
        BY <1>5, <1>12, <3>2, <4>1, <4>2 DEF Extends
    <3> QED
      BY <3>1, <3>2
  <2>4. Coherent'
    <3> SUFFICES ASSUME NEW v \in DOMAIN tlb', v \notin unfenced'
                 PROVE  Alike(tlb[v], WalkIn(u, v))'
      BY <2>1 DEF Coherent
    <3>1. v \in DOMAIN tlb /\ v # va /\ v \notin unfenced /\ v \in VPages
      BY <1>4, <1>9 DEF PFInv, PFTypes
    <3>2. Alike(tlb[v], WalkIn(pt, v))
      BY <1>3, <3>1 DEF PFInv, Coherent
    <3>3. WalkIn(u, v) = WalkIn(pt, v)
      BY <1>12, <3>1 DEF Extends
    <3> QED
      BY <1>9, <3>2, <3>3 DEF Alike
  <2>5. Current'
    BY <1>3, <1>9 DEF Current
  <2> QED
    BY <1>3, <1>9, <1>12, <2>1, <2>2, <2>3, <2>4, <2>5 DEF PFInv
<1> QED
  BY <1>8, <1>11, <1>12

\* A fence of everything leaves nothing to be stale.
LEMMA FenceAll ==
    ASSUME PFInv, sfence_vma_all
    PROVE  PFInv'
<1>1. DOMAIN tlb' = {} /\ UNCHANGED <<pt, pt_pool_next_page, svadu, cur, pc, handler_action,
                                      fault_count, stval, code, frame>>
  BY DEF sfence_vma_all, NoTlb, mem, trap
<1>2. cur = NoAccess /\ code = 0
  BY DEF sfence_vma_all, Between
<1>3. PFTypes'
  BY <1>1 DEF PFInv, PFTypes
<1>4. Mapped(pt)' /\ Coherent' /\ Current'
  BY <1>1, <1>2 DEF PFInv, Mapped, Coherent, Current
<1> QED
  BY <1>1, <1>2, <1>3, <1>4 DEF PFInv

\* A test that clears fault_count and accesses a page it has mapped.
LEMMA AccessBegins ==
    ASSUME UserSkipped, PFInv, NEW a \in Accesses, a.va \notin unfenced, a.va \in DOMAIN frame,
           Access(a.va, a.kind, a.action, {"fault_count"})
    PROVE  PFInv'
<1>1. a.va \in VPages /\ a.kind \in Kinds /\ a.action \in 0 .. 2
  BY ClientAssumption
<1>2. /\ cur = NoAccess /\ code = 0 /\ pc = "run"
      /\ cur' = [va |-> a.va, kind |-> a.kind] /\ handler_action' = a.action
      /\ fault_count' = 0
      /\ UNCHANGED <<pt, pt_pool_next_page, tlb, svadu, pc, code, unfenced, frame>>
  BY DEF Access, Between, mem, hw, history, PFInv
<1>3. a.action # 1 => a.va \notin UserPages
  BY DEF UserSkipped, UserPages
<1>4. cur' # NoAccess /\ cur'.va = a.va /\ cur' \in [va : VPages, kind : Kinds]
  BY <1>1, <1>2 DEF NoAccess, Kinds
<1>5. PFTypes'
  BY <1>1, <1>2, <1>4 DEF PFInv, PFTypes
<1>6. Mapped(pt)' /\ Coherent'
  BY <1>2 DEF PFInv, Mapped, Coherent, Alike
<1>7. Current'
  BY <1>2, <1>3, <1>4 DEF Current
<1> QED
  BY <1>2, <1>5, <1>6, <1>7 DEF PFInv

\* A translation that the walker caches is the tables'.
LEMMA WalkerFills ==
    ASSUME PFInv, NEW va \in Watched, Fill(va)
    PROVE  PFInv'
<1>1. /\ code = 0 /\ va \in VPages
      /\ tlb' = [v \in DOMAIN tlb \cup {va} |-> IF v = va THEN WalkIn(pt, va) ELSE tlb[v]]
      /\ UNCHANGED <<pt, pt_pool_next_page, svadu, cur, pc, handler_action,
                     fault_count, stval, code, unfenced, frame>>
  BY ClientAssumption, Walks DEF Fill, mem, trap, history
<1>2. /\ DOMAIN tlb' = DOMAIN tlb \cup {va} /\ tlb'[va] = WalkIn(pt, va)
      /\ \A v \in DOMAIN tlb : v # va => tlb'[v] = tlb[v]
  BY <1>1
<1>3. WalkIn(pt, va) \in Translation
  BY <1>1, WalkType DEF PFInv, PFTypes
<1>4. PFTypes'
  BY <1>1, <1>2, <1>3 DEF PFInv, PFTypes
<1>5. Coherent'
  <2> SUFFICES ASSUME NEW v \in DOMAIN tlb', v \notin unfenced, ~(pc = "fence" /\ v = cur.va)
               PROVE  Alike(tlb[v], WalkIn(pt, v))'
    BY <1>1 DEF Coherent
  <2>1. CASE v = va
    BY <1>1, <1>2, <2>1 DEF Alike
  <2>2. CASE v # va
    BY <1>1, <1>2, <2>2 DEF PFInv, Coherent, Alike
  <2> QED
    BY <2>1, <2>2
<1>6. Mapped(pt)' /\ Current'
  BY <1>1 DEF PFInv, Mapped, Current, Permits
<1> QED
  BY <1>1, <1>4, <1>5, <1>6 DEF PFInv

\* A completed access: Svadu hardware may have set A and D, which it does not
\* look at.
LEMMA AccessCompletes ==
    ASSUME PFInv, Complete
    PROVE  PFInv'
<1>1. /\ cur # NoAccess /\ pc = "run" /\ code = 0
      /\ Permits(Seen(cur.va), cur.kind) /\ cur' = NoAccess
      /\ UNCHANGED <<pt_pool_next_page, tlb, svadu, pc, handler_action,
                     fault_count, code, unfenced, frame>>
  BY DEF Complete, hw, trap, history
<1> DEFINE va == cur.va
           b == AD(cur.kind)
           e == pt_walk(cur.va)
<1>2. /\ va \in VPages /\ cur.kind \in Kinds /\ Reaches(pt, va)
      /\ Permits(WalkIn(pt, va), cur.kind)
  BY <1>1, SeenIsWalk
<1>3. b \in SUBSET Bits /\ b \subseteq {"A", "D"}
  BY DEF AD, Bits
<1>4. pt' = IF ~svadu THEN pt ELSE SetBits(Tab(pt, va), vpn(va, 0), b)
  <2>1. pt' = IF ~svadu THEN pt ELSE SetBits(e[1], e[2], b)
    BY DEF Complete
  <2>2. e = <<Tab(pt, va), vpn(va, 0), 0>>
    BY <1>2, Walks
  <2> HIDE DEF e
  <2> QED
    BY <2>1, <2>2
<1> HIDE DEF va, b, e
<1>5. PFTypes /\ Tree(pt, pt_pool_next_page) /\ Mapped(pt) /\ Coherent
  BY <1>1 DEF PFInv
<1>6. CASE ~svadu
  <2>1. pt' = pt
    BY <1>4, <1>6
  <2>2. PFTypes'
    BY <1>1, <1>5, <2>1 DEF PFTypes
  <2>3. Mapped(pt)' /\ Coherent' /\ Current'
    BY <1>1, <1>5, <2>1 DEF Mapped, Coherent, Current, Alike
  <2> QED
    BY <1>1, <1>5, <2>1, <2>2, <2>3 DEF PFInv
<1>7. CASE svadu
  <2>1. pt' = SetBits(Tab(pt, va), vpn(va, 0), b)
    BY <1>4, <1>7
  <2>2. /\ pt' \in Tables /\ Tree(pt', pt_pool_next_page) /\ Extends(pt, pt', va)
        /\ Entry(pt', va) = [bits |-> Entry(pt, va).bits \cup b, ppn |-> Entry(pt, va).ppn]
        /\ Has(Entry(pt', va), "V") /\ XWR(Entry(pt', va)) =>
              WalkIn(pt', va) = Entry(pt', va)
    BY <1>2, <1>3, <1>5, <2>1, SetBitsStep
  <2>3. /\ WalkIn(pt, va) = Entry(pt, va)
        /\ Has(Entry(pt, va), "V") /\ XWR(Entry(pt, va))
    BY <1>2, <1>5, PermittedEntry
  <2>4. WalkIn(pt', va) = [bits |-> WalkIn(pt, va).bits \cup b, ppn |-> WalkIn(pt, va).ppn]
    <3>1. Has(Entry(pt', va), "V") /\ XWR(Entry(pt', va))
      BY <2>2, <2>3 DEF Has, XWR
    <3> QED
      BY <2>2, <2>3, <3>1
  <2>5. Mapped(pt')
    BY <1>2, <1>3, <1>5, <2>2, StillMapped
  <2>6. Mapped(pt)'
    BY <1>1, <2>5 DEF Mapped
  <2>7. Coherent'
    <3> SUFFICES ASSUME NEW v \in DOMAIN tlb, v \notin unfenced
                 PROVE  Alike(tlb[v], WalkIn(pt, v))'
      BY <1>1 DEF Coherent
    <3>1. Alike(tlb[v], WalkIn(pt, v)) /\ v \in VPages
      BY <1>1, <1>5 DEF Coherent, PFTypes
    <3>2. CASE v # va
      <4>1. WalkIn(pt', v) = WalkIn(pt, v)
        BY <2>2, <3>1, <3>2 DEF Extends
      <4> QED
        BY <1>1, <3>1, <4>1 DEF Alike
    <3>3. CASE v = va
      <4>1. /\ WalkIn(pt', v).ppn = WalkIn(pt, v).ppn
            /\ \A bit \in {"V", "R", "W", "X", "U"} :
                  bit \in WalkIn(pt', v).bits <=> bit \in WalkIn(pt, v).bits
        BY <1>3, <2>4, <3>3
      <4> QED
        BY <1>1, <1>7, <3>1, <4>1 DEF Alike
    <3> QED
      BY <3>2, <3>3
  <2>8. PFTypes'
    BY <1>1, <1>5, <2>2 DEF PFTypes
  <2>9. Current'
    BY <1>1 DEF Current
  <2> QED
    BY <1>1, <2>2, <2>6, <2>7, <2>8, <2>9 DEF PFInv
<1> QED
  BY <1>6, <1>7

\* A fault: it is the access's first.
LEMMA AccessFaults ==
    ASSUME PFInv, FaultTrap
    PROVE  PFInv' /\ ~Permits(Walk(cur.va), cur.kind)
<1>1. /\ cur # NoAccess /\ pc = "run" /\ code = 0
      /\ ~Permits(Seen(cur.va), cur.kind)
      /\ fault_count' = (fault_count + 1) % CounterWrap
      /\ stval' = cur.va /\ pc' = "fix"
      /\ UNCHANGED <<pt, pt_pool_next_page, tlb, svadu, cur, handler_action, code,
                     unfenced, frame>>
  BY DEF FaultTrap, mem, hw, history
<1>2. ~Permits(WalkIn(pt, cur.va), cur.kind)
  BY <1>1, SeenIsWalk
<1>3. fault_count = 0
  BY <1>1, <1>2 DEF PFInv, Current
<1>4. fault_count' \in 0 .. 1
  <2>1. CounterWrap \in Nat \ {0} /\ fault_count' = 1 % CounterWrap
    BY <1>1, <1>3, LayoutAssumption
  <2>2. CASE CounterWrap = 1
    BY <2>1, <2>2
  <2>3. CASE CounterWrap > 1
    BY <2>1, <2>3
  <2> QED
    BY <2>1, <2>2, <2>3
<1>5. PFTypes'
  BY <1>1, <1>4 DEF PFInv, PFTypes
<1>6. Mapped(pt)' /\ Coherent'
  BY <1>1 DEF PFInv, Mapped, Coherent, Alike
<1>7. Current'
  BY <1>1 DEF PFInv, Current
<1> QED
  BY <1>1, <1>2, <1>5, <1>6, <1>7, Walks DEF PFInv

\* The skipping handler ends the access.
LEMMA HandlerSkips ==
    ASSUME PFInv, Skip
    PROVE  PFInv'
<1>1. /\ pc = "fix" /\ code = 0 /\ code' \in Nat /\ cur' = NoAccess /\ pc' = "run"
      /\ UNCHANGED <<pt, pt_pool_next_page, tlb, svadu, handler_action, fault_count,
                     unfenced, frame>>
  BY DEF Skip, PFInv, mem, hw, trap, history
<1>2. PFTypes'
  BY <1>1 DEF PFInv, PFTypes
<1>3. Mapped(pt)' /\ Coherent' /\ Current'
  BY <1>1 DEF PFInv, Mapped, Coherent, Current, Alike
<1> QED
  BY <1>1, <1>2, <1>3 DEF PFInv

\* The handler sets the bits of the entry: the tables then permit the access,
\* and translate every other page as before.
LEMMA HandlerFixes ==
    ASSUME PFInv, FixPte
    PROVE  /\ PFInv'
           /\ \A v \in VPages \ {cur.va} : WalkIn(pt', v) = WalkIn(pt, v)
<1>1. /\ pc = "fix" /\ cur # NoAccess /\ code = 0 /\ handler_action # 1 /\ pc' = "fence"
      /\ UNCHANGED <<pt_pool_next_page, tlb, svadu, cur, handler_action,
                     fault_count, stval, code, unfenced, frame>>
  BY DEF FixPte, PFInv, hw, trap, history
<1> DEFINE va == cur.va
           b == FixBits(cur.kind)
           e == pt_walk(cur.va)
<1>2. /\ va \in VPages /\ cur.kind \in Kinds /\ Reaches(pt, va)
      /\ va \in DOMAIN frame /\ va \notin UserPages /\ stval = va
  BY <1>1, SeenIsWalk DEF PFInv, Current
<1>3. /\ b \in SUBSET Bits /\ "U" \notin b /\ "V" \in b /\ "R" \in b
      /\ Needs(cur.kind) \subseteq b /\ AD(cur.kind) \subseteq b
  BY <1>2 DEF FixBits, Needs, AD, Kinds, Bits
<1>4. pt' = SetBits(Tab(pt, va), vpn(va, 0), b)
  <2>1. pt' = SetBits(e[1], e[2], b)
    BY DEF FixPte
  <2>2. e = <<Tab(pt, va), vpn(va, 0), 0>>
    BY <1>2, Walks
  <2> HIDE DEF e
  <2> QED
    BY <2>1, <2>2
<1>5. cur'.va = va /\ cur'.kind = cur.kind
  BY <1>1
<1> HIDE DEF va, b, e
<1>6. PFTypes /\ Tree(pt, pt_pool_next_page) /\ Mapped(pt) /\ Coherent
  BY <1>1 DEF PFInv
<1>7. /\ pt' \in Tables /\ Tree(pt', pt_pool_next_page) /\ Extends(pt, pt', va)
      /\ Entry(pt', va) = [bits |-> Entry(pt, va).bits \cup b, ppn |-> Entry(pt, va).ppn]
      /\ Has(Entry(pt', va), "V") /\ XWR(Entry(pt', va)) =>
            WalkIn(pt', va) = Entry(pt', va)
  BY <1>2, <1>3, <1>4, <1>6, SetBitsStep
<1>8. Permits(WalkIn(pt', va), cur.kind)
  <2>1. Has(Entry(pt', va), "V") /\ XWR(Entry(pt', va))
    BY <1>3, <1>7 DEF Has, XWR
  <2>2. WalkIn(pt', va).bits = Entry(pt, va).bits \cup b
    BY <1>7, <2>1
  <2>3. "U" \notin Entry(pt, va).bits
    BY <1>2, <1>6 DEF Mapped
  <2> QED
    BY <1>2, <1>3, <2>2, <2>3, PermitsBits
<1>9. Mapped(pt)'
  <2>1. Mapped(pt')
    BY <1>2, <1>3, <1>6, <1>7, StillMapped
  <2> QED
    BY <1>1, <2>1 DEF Mapped
<1>10. \A v \in VPages : v # va => WalkIn(pt', v) = WalkIn(pt, v)
  BY <1>7 DEF Extends
<1>11. Coherent'
  <2> SUFFICES ASSUME NEW v \in DOMAIN tlb, v \notin unfenced, v # va
               PROVE  Alike(tlb[v], WalkIn(pt, v))'
    BY <1>1, <1>5 DEF Coherent
  <2>1. Alike(tlb[v], WalkIn(pt, v)) /\ v \in VPages
    BY <1>1, <1>6 DEF Coherent, PFTypes
  <2> QED
    BY <1>1, <1>10, <2>1 DEF Alike
<1>12. PFTypes'
  BY <1>1, <1>6, <1>7 DEF PFTypes
<1>13. Current'
  <2>1. Permits(WalkIn(pt, cur.va), cur.kind)'
    BY <1>1, <1>5, <1>8 DEF Permits
  <2>2. /\ cur.va \in DOMAIN frame \ unfenced /\ stval = cur.va
        /\ handler_action # 1 => cur.va \notin UserPages
    BY <1>1, <1>2 DEF PFInv, Current, va
  <2> QED
    BY <1>1, <2>1, <2>2 DEF Current
<1> QED
  BY <1>1, <1>7, <1>9, <1>10, <1>11, <1>12, <1>13 DEF PFInv, va

\* The fence takes away what the TLB held of the page before the fix.
LEMMA HandlerFences ==
    ASSUME PFInv, FixFence
    PROVE  PFInv'
<1>1. /\ pc = "fence" /\ cur # NoAccess /\ code = 0 /\ stval = cur.va /\ pc' = "run"
      /\ tlb' = Without(cur.va)
      /\ UNCHANGED <<pt, pt_pool_next_page, svadu, cur, handler_action,
                     fault_count, stval, code, unfenced, frame>>
  BY DEF FixFence, PFInv, Current, mem, trap, history
<1>2. DOMAIN tlb' = DOMAIN tlb \ {cur.va} /\ \A v \in DOMAIN tlb' : tlb'[v] = tlb[v]
  BY <1>1 DEF Without
<1>3. PFTypes'
  BY <1>1, <1>2 DEF PFInv, PFTypes
<1>4. Mapped(pt)'
  BY <1>1 DEF PFInv, Mapped
<1>5. Coherent'
  BY <1>1, <1>2 DEF PFInv, Coherent, Alike
<1>6. Current'
  BY <1>1 DEF PFInv, Current, Permits
<1> QED
  BY <1>1, <1>3, <1>4, <1>5, <1>6 DEF PFInv

-----------------------------------------------------------------------------
\* Every step preserves the invariant.
LEMMA PFStep == UserSkipped /\ PFInv /\ [Next]_vars => PFInv'
<1> SUFFICES ASSUME UserSkipped, PFInv, [Next]_vars PROVE PFInv'
  OBVIOUS
<1>1. CASE UNCHANGED vars
  <2>1. UNCHANGED <<pt, pt_pool_next_page, tlb, svadu, cur, pc, handler_action,
                    fault_count, stval, code, unfenced, frame>>
    BY <1>1 DEF vars
  <2>2. PFTypes'
    BY <2>1 DEF PFInv, PFTypes
  <2>3. code = 0 => Mapped(pt)' /\ Coherent' /\ Current'
    BY <2>1 DEF PFInv, Mapped, Coherent, Current, Alike, Permits
  <2> QED
    BY <2>1, <2>2, <2>3 DEF PFInv
<1>2. CASE Client
  BY <1>2, MapPage, FenceAll, AccessBegins DEF Client
<1>3. CASE Hart
  BY <1>3, AccessCompletes, AccessFaults, HandlerSkips, HandlerFixes, HandlerFences DEF Hart
<1>4. CASE \E va \in Watched : Fill(va)
  BY <1>4, WalkerFills
<1> QED
  BY <1>1, <1>2, <1>3, <1>4 DEF Next

\* The invariant holds throughout.
LEMMA PFAlways == ASSUME UserSkipped PROVE Spec => []PFInv
<1>1. PFInv /\ [Next]_vars => PFInv'
  BY PFStep
<1> QED
  BY <1>1, PFInit, PTL DEF Spec

\* One fault is enough: s_trap_handler's fix and sfence_vma_addr leave nothing,
\* in the tables or in the TLB, for which the retried access would fault again.
THEOREM OneFaultSuffices == ASSUME UserSkipped PROVE Spec => []FixedOnce
<1>1. PFInv => FixedOnce
  BY DEF PFInv, PFTypes, FixedOnce
<1> QED
  BY <1>1, PFAlways, PTL

\* The handler is entered only for an access that the tables forbid.
THEOREM FaultsAreGenuine == ASSUME UserSkipped PROVE Spec => NoSpuriousFault
<1>1. PFInv /\ [Next]_vars =>
         [pc = "run" /\ pc' = "fix" => ~Permits(Walk(cur.va), cur.kind)]_vars
  <2> SUFFICES ASSUME PFInv, Next, pc = "run", pc' = "fix"
               PROVE  ~Permits(Walk(cur.va), cur.kind)
    OBVIOUS
  <2>1. FaultTrap
    BY DEF Next, Client, Hart, pt_map_page, MapAt, sfence_vma_all, Access, Fill,
           Complete, Skip, FixPte, FixFence
  <2> QED
    BY <2>1, AccessFaults
<1> QED
  BY <1>1, PFAlways, PTL DEF Spec, NoSpuriousFault

\* An access that completes has read or written the frame the client named.
THEOREM AccessReachesItsFrame == ASSUME UserSkipped PROVE Spec => ReachesItsFrame
<1>1. PFInv /\ [Next]_vars =>
         [cur # NoAccess /\ cur' = NoAccess /\ pc = "run" => got' = frame[cur.va]]_vars
  <2> SUFFICES ASSUME PFInv, Next, cur # NoAccess, cur' = NoAccess, pc = "run"
               PROVE  got' = frame[cur.va]
    OBVIOUS
  <2>1. Complete
    BY DEF Next, Client, Hart, pt_map_page, MapAt, sfence_vma_all, Access, Between, Fill,
           FaultTrap, Skip, FixPte, FixFence
  <2>2. code = 0 /\ got' = Seen(cur.va).ppn /\ Permits(Seen(cur.va), cur.kind)
    BY <2>1 DEF Complete
  <2>3. /\ cur.va \in VPages /\ cur.kind \in Kinds /\ Reaches(pt, cur.va)
        /\ got' = WalkIn(pt, cur.va).ppn /\ Permits(WalkIn(pt, cur.va), cur.kind)
    BY <2>2, SeenIsWalk
  <2>4. WalkIn(pt, cur.va) = Entry(pt, cur.va)
    BY <2>2, <2>3, PermittedEntry DEF PFInv
  <2>5. Entry(pt, cur.va).ppn = frame[cur.va]
    BY <2>2 DEF PFInv, Current, Mapped
  <2> QED
    BY <2>3, <2>4, <2>5
<1> QED
  BY <1>1, PFAlways, PTL DEF Spec, ReachesItsFrame

\* The handler's store through pt_walk changes the translation of no other page.
THEOREM FixesAreLocal == ASSUME UserSkipped PROVE Spec => FixIsLocal
<1>1. PFInv /\ [Next]_vars =>
         [pc = "fix" => \A v \in VPages \ {cur.va} : Walk(v)' = Walk(v)]_vars
  <2> SUFFICES ASSUME PFInv, Next, pc = "fix", NEW v \in VPages \ {cur.va}
               PROVE  Walk(v)' = Walk(v)
    OBVIOUS
  <2>1. Walk(v) = WalkIn(pt, v) /\ Walk(v)' = WalkIn(pt', v)
    BY DEF Walk, WalkIn
  <2>2. FixPte \/ pt' = pt
    BY DEF Next, Client, Hart, pt_map_page, MapAt, sfence_vma_all, Access, Between, Fill,
           Complete, FaultTrap, Skip, FixFence, PFInv, mem
  <2> QED
    BY <2>1, <2>2, HandlerFixes
<1> QED
  BY <1>1, PFAlways, PTL DEF Spec, FixIsLocal
=============================================================================
