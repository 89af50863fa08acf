---------------------------- MODULE AddressSpace ----------------------------
(***************************************************************************)
(* What the Sv39 code promises its callers: an address space is a flat map *)
(* from virtual pages to translations, and a call changes it one leaf at a *)
(* time.  A step installs one leaf over the block its level covers, or     *)
(* takes one leaf away; every page outside that block keeps its            *)
(* translation, and no block is ever torn.                                 *)
(***************************************************************************)
EXTENDS Naturals

CONSTANTS
    Pages,          \* the virtual pages
    Block(_, _),    \* Block(va, l): the pages a leaf of level l at va covers
    Unmapped        \* the translation of a page that faults

VARIABLE map        \* Pages -> [ppn, perm, level] or Unmapped

\* The MMIO gigapage is the only mapping when the tables are created.
Init ==
    \A v \in Pages :
        IF v \in Block(0, 2) THEN map[v].ppn = v /\ map[v].level = 2
                             ELSE map[v] = Unmapped

Frame(block) == \A v \in Pages \ block : map'[v] = map[v]

\* One leaf of level l now translates the whole block of va, contiguously.
Install(va, l) ==
    LET block == Block(va, l) IN
    /\ \A v \in block : map[v] = Unmapped \/ map[v].level = l
    /\ map'[va] # Unmapped
    /\ \A v \in block :
          /\ map'[v] # Unmapped
          /\ map'[v].level = l
          /\ map'[v].perm = map'[va].perm
          /\ map'[v].ppn + va = map'[va].ppn + v
    /\ Frame(block)

\* The leaf that translates va is gone, with every page it covered.
Remove(va) ==
    /\ map[va] # Unmapped
    /\ \A v \in Block(va, map[va].level) : map'[v] = Unmapped
    /\ Frame(Block(va, map[va].level))

Changed == {v \in Pages : map'[v] # map[v]}

Next == \E va \in Changed : Remove(va) \/ \E l \in 0 .. 2 : Install(va, l)

Spec == Init /\ [][Next]_map
=============================================================================
