------------------------------ MODULE DualCore ------------------------------
(***************************************************************************)
(* The dual-core tests under the weak memory order of RISC-V (RVWMO): what *)
(* each hart or pinned thread stores, loads and fences in                  *)
(* tests/p4_dualcore.c of the bare-metal suite and in                      *)
(* zephyr-suite/p4_dualcore, from the moment hart 0 has called             *)
(* wake_core1_smode, or Zephyr has started both threads.  What wakes hart  *)
(* 1 out of its park loop is the subject of ParkWake; here it starts when  *)
(* g_smode_target has reached memory, which may be before hart 0's reset   *)
(* of g_p4 has: no fence is between the two (smode.c:369).                 *)
(*                                                                         *)
(* A hart's plain stores, and AMOs without .aqrl whose result it does not  *)
(* use, reach memory later and in any order, in program order only for one *)
(* location.  A plain load may be satisfied before the loads ahead of it.  *)
(***************************************************************************)
EXTENDS Naturals, Sequences, FiniteSets

CONSTANT
    Rounds      \* bound: turns of each loop (20 to 100 in the code)

ASSUME RoundsAssumption == Rounds \in Nat \ {0}

Harts == {0, 1}
Locs == {"payload", "expected", "wrote", "flag", "done", "ok", "counter", "lock", "var",
         "turn", "count", "target", "observed_cpu", "word1", "word2", "publish_flag",
         "stress_counter", "counter_lock", "locked_counter", "pong_rounds"}

VARIABLES
    test,       \* the test that runs
    weak,       \* TRUE: on RVWMO harts; FALSE: on harts that keep loads, stores
                \* and AMOs in order but for the buffer (TSO)
    pc,         \* hart -> index of its next operation
    mem,        \* location -> value
    reset,      \* hart 0's stores up to g_smode_target = func, not in memory yet
    buf,        \* hart -> its stores and AMOs on their way to memory
    early,      \* hart -> values of loads satisfied ahead of time
    reg,        \* hart -> the value its last load returned
    sems,       \* the semaphores' counts
    bad,        \* hart -> consumer_bad_words
    failed

vars == <<test, weak, pc, mem, reset, buf, early, reg, sems, bad, failed>>

-----------------------------------------------------------------------------
(***************************************************************************)
(* Operations.                                                             *)
(***************************************************************************)
St(loc, v) == [op |-> "st", loc |-> loc, v |-> v]
StInc(loc) == [op |-> "stinc", loc |-> loc]           \* loc = (last load) + 1
Copy(loc) == [op |-> "copy", loc |-> loc]             \* loc = (last load)
Ld(loc) == [op |-> "ld", loc |-> loc]
Count(loc, v) == [op |-> "count", loc |-> loc, v |-> v]   \* if (loc != v) bad++
Judge(loc, ok) == [op |-> "judge", loc |-> loc, ok |-> ok]
                                                      \* ok = (loc == last load)
Spin(loc, v) == [op |-> "spin", loc |-> loc, v |-> v]     \* spin_wait
FenceR == [op |-> "fence_r"]                          \* fence r, rw
FenceW == [op |-> "fence_w"]                          \* fence w, w
FenceRW == [op |-> "fence_w"]                         \* fence rw, w: loads are done
AmoAdd(loc) == [op |-> "amoadd", loc |-> loc]         \* amo_add_d
Lock(loc) == [op |-> "lock", loc |-> loc]             \* until amo_swap_d returns 0
Assert(loc, v) == [op |-> "assert", loc |-> loc, v |-> v]
\* Zephyr's atomics and kernel calls order everything before and after them.
AtomicSet(loc, v) == [op |-> "atomic_set", loc |-> loc, v |-> v]
AtomicInc(loc) == [op |-> "atomic_inc", loc |-> loc]
AtomicSpin(loc, v) == [op |-> "atomic_spin", loc |-> loc, v |-> v]
SpinLock(loc) == [op |-> "spin_lock", loc |-> loc]    \* k_spin_lock
Give(s) == [op |-> "give", s |-> s]
Take(s) == [op |-> "take", s |-> s]

Repeat(body) ==
    [i \in 1 .. Rounds * Len(body) |-> body[((i - 1) % Len(body)) + 1]]

-----------------------------------------------------------------------------
(***************************************************************************)
(* The bare-metal suite: hart 1's functions, and hart 0 in test_main.      *)
(***************************************************************************)
core1_magic_writer == <<St("payload", 1), FenceW, St("wrote", 1)>>
P4_0 == <<Spin("wrote", 1), Assert("payload", 1)>>

\* fence_payload = fence_expected, behind the flag; and its reader
Produce == <<Ld("expected"), Copy("payload"), FenceW, St("flag", 1)>>
Consume == <<Spin("flag", 1), FenceR, Ld("expected"), Judge("payload", "ok"), FenceW,
             St("done", 1)>>
\* g_p4 = {0}: the fields of P4.1
fence_reset == <<St("payload", 0), St("expected", 0), St("flag", 0), St("done", 0),
                 St("ok", 0)>>

core1_fence_consumer == Consume
P4_1A == Produce \o <<Spin("done", 1), FenceR, Assert("ok", 1)>>

core1_fence_producer == Produce \o <<Spin("done", 1)>>
\* The reset for P4.2 follows while the producer may still wait for fence_done.
P4_1B == Consume \o <<Assert("ok", 1)>> \o fence_reset

core1_atomic_incrementer == Repeat(<<AmoAdd("counter")>>) \o <<St("done", 1)>>
P4_2 == Repeat(<<AmoAdd("counter")>>) \o
        <<Spin("done", 1), Assert("counter", 2 * Rounds)>>

spinlock_acquire == <<Lock("lock"), FenceR>>
spinlock_release == <<FenceRW, St("lock", 0)>>
Critical == spinlock_acquire \o <<Ld("var"), StInc("var")>> \o spinlock_release
core1_spinlock_worker == Repeat(Critical) \o <<FenceW, St("done", 1)>>
P4_3 == Repeat(Critical) \o <<Spin("done", 1), Assert("var", 2 * Rounds)>>

Turn(mine, yours) ==
    <<Spin("turn", mine), FenceR, Ld("count"), StInc("count"), FenceRW, St("turn", yours)>>
\* Bug variant: the turn is not handed back.
ping_Keeps == Repeat(Turn(1, 1))
ping == Repeat(Turn(1, 0))
P4_4 == Repeat(Turn(0, 1)) \o <<Spin("turn", 0), FenceR, Assert("count", 2 * Rounds)>>

\* What hart 0 stores before the fence of wake_core1_smode: the reset of what the
\* test shares, fence_expected, and g_smode_target.
Wake(t) ==
    LET target == <<St("target", 1)>> IN
    CASE t = "P4.0" -> <<St("payload", 0), St("wrote", 0)>> \o target
      [] t \in {"P4.1A", "P4.1B"} -> fence_reset \o <<St("expected", 1)>> \o target
      [] t = "P4.2" -> <<St("counter", 0), St("done", 0)>> \o target
      [] t = "P4.3" -> <<St("lock", 0), St("var", 0), St("done", 0)>> \o target
      [] t = "P4.4" -> <<St("count", 0), St("turn", 0)>> \o target
      [] OTHER -> <<>>
\* The memory before that: 0, but for what P4.1A leaves to P4.1B.
Left(t) ==
    [l \in Locs |-> IF t = "P4.1B" /\ l \in {"payload", "expected", "flag", "done", "ok"}
                    THEN 1 ELSE 0]

-----------------------------------------------------------------------------
(***************************************************************************)
(* The Zephyr suite: threads pinned to CPU 0 and CPU 1.  2 words stand for *)
(* the 64 of shared_buf.                                                   *)
(***************************************************************************)
record_cpu_entry(cpu) == <<St("observed_cpu", cpu)>>

producer_entry == <<St("word1", 1), St("word2", 1), AtomicSet("publish_flag", 1)>>

\* Bug variant: the flag is polled with a plain load.
consumer_entry_Plain ==
    <<Spin("publish_flag", 1), Count("word1", 1), Count("word2", 1)>>
consumer_entry ==
    <<AtomicSpin("publish_flag", 1), Count("word1", 1), Count("word2", 1)>>

inc_entry == Repeat(<<AtomicInc("stress_counter")>>)

spinlock_inc_entry ==
    Repeat(<<SpinLock("counter_lock"), Ld("locked_counter"), StInc("locked_counter"),
             AtomicSet("counter_lock", 0)>>)

ponger_entry == Repeat(<<Take("ping"), Ld("pong_rounds"), StInc("pong_rounds"), Give("pong")>>)

\* Bug variant: the answer is not waited for.
test_ping_pong_NoTake == Repeat(<<Give("ping")>>)
\* the test thread's loop, on either CPU
test_ping_pong == Repeat(<<Give("ping"), Take("pong")>>)

\* A test: the first program runs on hart 0, the second on hart 1; final is what
\* the test thread asserts of the memory when it has joined its workers.
Pair(p0, p1, final) == [prog |-> <<p0, p1>>, final |-> final]

test_thread_runs_on_second_cpu ==
    Pair(<<>>, record_cpu_entry(1), {<<"observed_cpu", 1>>})
test_fence_producer_consumer == Pair(producer_entry, consumer_entry, {})
test_fence_producer_consumer_rev == Pair(consumer_entry, producer_entry, {})
test_atomic_increment_stress ==
    Pair(inc_entry, inc_entry, {<<"stress_counter", 2 * Rounds>>})
test_spinlock_mutual_exclusion ==
    Pair(spinlock_inc_entry, spinlock_inc_entry, {<<"locked_counter", 2 * Rounds>>})

Test(t) ==
    CASE t = "P4.0"  -> Pair(P4_0, core1_magic_writer, {})
      [] t = "P4.1A" -> Pair(P4_1A, core1_fence_consumer, {})
      [] t = "P4.1B" -> Pair(P4_1B, core1_fence_producer, {})
      [] t = "P4.2"  -> Pair(P4_2, core1_atomic_incrementer, {})
      [] t = "P4.3"  -> Pair(P4_3, core1_spinlock_worker, {})
      [] t = "P4.4"  -> Pair(P4_4, ping, {})
      [] t = "Z_second_cpu" -> test_thread_runs_on_second_cpu
      [] t = "Z_fence"      -> test_fence_producer_consumer
      [] t = "Z_fence_rev"  -> test_fence_producer_consumer_rev
      [] t = "Z_stress"     -> test_atomic_increment_stress
      [] t = "Z_spinlock"   -> test_spinlock_mutual_exclusion
      [] t = "Z_ping_pong"  -> Pair(test_ping_pong, ponger_entry,
                                    {<<"pong_rounds", Rounds>>})

Baremetal == {"P4.0", "P4.1A", "P4.1B", "P4.2", "P4.3", "P4.4"}
Zephyr == {"Z_second_cpu", "Z_fence", "Z_fence_rev", "Z_stress", "Z_spinlock",
           "Z_ping_pong"}

Prog(h) == Test(test).prog[h + 1]

-----------------------------------------------------------------------------
Init ==
    /\ test \in Baremetal \cup Zephyr /\ weak \in BOOLEAN
    /\ pc = [h \in Harts |-> 1]
    /\ mem = Left(test) /\ reset = Wake(test)
    /\ buf = [h \in Harts |-> <<>>]
    /\ early = [h \in Harts |-> {}]
    /\ reg = [h \in Harts |-> 0]
    /\ sems = [s \in {"ping", "pong"} |-> 0]
    /\ bad = [h \in Harts |-> 0]
    /\ failed = FALSE

Op(h) == Prog(h)[pc[h]]
Pending == {reset[i].loc : i \in DOMAIN reset}
\* Hart 0 has passed the fence w, w of wake_core1_smode; hart 1 has read its function.
Started(h) == IF h = 0 THEN reset = <<>> ELSE "target" \notin Pending
At(h, ops) ==
    /\ Started(h) /\ pc[h] <= Len(Prog(h)) /\ Op(h).op \in ops
    /\ pc' = [pc EXCEPT ![h] = @ + 1]
    /\ UNCHANGED <<test, weak, reset>>
Drained(h) == buf[h] = <<>>
\* nothing of h's own on its way to loc
Settled(h, loc) == \A i \in DOMAIN buf[h] : buf[h][i].loc # loc
NotEarly(h, loc) == early' = [early EXCEPT ![h] = {e \in @ : e[1] # loc}]
Apply(o, m) == [m EXCEPT ![o.loc] = IF o.op = "amoadd" THEN @ + 1 ELSE o.v]

\* A store or a relaxed AMO enters the buffer.
Issue(h) ==
    /\ At(h, {"st", "stinc", "copy", "amoadd"})
    /\ buf' = [buf EXCEPT ![h] = Append(@,
                  CASE Op(h).op = "stinc" -> St(Op(h).loc, reg[h] + 1)
                    [] Op(h).op = "copy"  -> St(Op(h).loc, reg[h])
                    [] OTHER              -> Op(h))]
    /\ NotEarly(h, Op(h).loc)
    /\ UNCHANGED <<mem, reg, sems, bad, failed>>

\* It reaches memory, past what is ahead of it for other locations.
Drain(h) ==
    \E i \in DOMAIN buf[h] :
        /\ \A j \in 1 .. i - 1 : weak /\ buf[h][j].loc # buf[h][i].loc
        /\ mem' = Apply(buf[h][i], mem)
        /\ buf' = [buf EXCEPT ![h] = SubSeq(@, 1, i - 1) \o SubSeq(@, i + 1, Len(@))]
        /\ UNCHANGED <<test, weak, pc, reset, early, reg, sems, bad, failed>>

\* A store ahead of the wake's fence reaches memory.
WakeStore ==
    \E i \in DOMAIN reset :
        /\ \A j \in 1 .. i - 1 : weak /\ reset[j].loc # reset[i].loc
        /\ mem' = Apply(reset[i], mem)
        /\ reset' = SubSeq(reset, 1, i - 1) \o SubSeq(reset, i + 1, Len(reset))
        /\ UNCHANGED <<test, weak, pc, buf, early, reg, sems, bad, failed>>

\* A load further on is satisfied now, unless the hart has something to do with
\* its location before that.
Touches(o) == {o[f] : f \in {"loc", "ok"} \cap DOMAIN o}
Ahead(h) ==
    {Prog(h)[i].loc : i \in {j \in pc[h] .. Len(Prog(h)) :
         /\ Prog(h)[j].op \in {"ld", "count", "judge", "assert"}
         /\ \A k \in pc[h] .. j - 1 : Prog(h)[j].loc \notin Touches(Prog(h)[k])}}
Prefetch(h) ==
    weak /\ \E l \in Ahead(h) :
        /\ Settled(h, l) /\ (h = 0 => l \notin Pending) /\ \A e \in early[h] : e[1] # l
        /\ early' = [early EXCEPT ![h] = @ \cup {<<l, mem[l]>>}]
        /\ UNCHANGED <<test, weak, pc, mem, reset, buf, reg, sems, bad, failed>>

\* What a load of loc may return
Values(h, loc) == {mem[loc]} \cup {e[2] : e \in {x \in early[h] : x[1] = loc}}

Load(h) ==
    /\ At(h, {"ld", "count", "judge", "assert"}) /\ Settled(h, Op(h).loc)
    /\ NotEarly(h, Op(h).loc)
    /\ \E v \in Values(h, Op(h).loc) :
          /\ reg' = [reg EXCEPT ![h] = v]
          /\ bad' = [bad EXCEPT ![h] = IF Op(h).op = "count" /\ v # Op(h).v THEN @ + 1 ELSE @]
          /\ failed' = (failed \/ (Op(h).op = "assert" /\ v # Op(h).v))
          /\ buf' = IF Op(h).op = "judge"
                    THEN [buf EXCEPT ![h] = Append(@, St(Op(h).ok, IF v = reg[h] THEN 1 ELSE 0))]
                    ELSE buf
    /\ UNCHANGED <<mem, sems>>

\* while (*flag != expected): the turn that ends the loop
SpinWait(h) ==
    /\ At(h, {"spin"}) /\ Settled(h, Op(h).loc) /\ mem[Op(h).loc] = Op(h).v
    /\ UNCHANGED <<mem, buf, early, reg, sems, bad, failed>>

Fence(h) ==
    /\ \/ At(h, {"fence_r"}) /\ early' = [early EXCEPT ![h] = {}]
       \/ At(h, {"fence_w"}) /\ Drained(h) /\ UNCHANGED early
    /\ UNCHANGED <<mem, buf, reg, sems, bad, failed>>

\* spinlock_acquire's amo_swap_d that returns 0
LockAmo(h) ==
    /\ At(h, {"lock"}) /\ Settled(h, Op(h).loc) /\ mem[Op(h).loc] = 0
    /\ mem' = [mem EXCEPT ![Op(h).loc] = 1]
    /\ UNCHANGED <<buf, early, reg, sems, bad, failed>>

\* Zephyr atomics and k_spin_lock: sequentially consistent
Atomic(h) ==
    /\ At(h, {"atomic_set", "atomic_inc", "atomic_spin", "spin_lock"}) /\ Drained(h)
    /\ LET l == Op(h).loc IN
       CASE Op(h).op = "atomic_set"  -> mem' = [mem EXCEPT ![l] = Op(h).v]
         [] Op(h).op = "atomic_inc"  -> mem' = [mem EXCEPT ![l] = @ + 1]
         [] Op(h).op = "atomic_spin" -> mem[l] = Op(h).v /\ UNCHANGED mem
         [] Op(h).op = "spin_lock"   -> mem[l] = 0 /\ mem' = [mem EXCEPT ![l] = 1]
    /\ early' = [early EXCEPT ![h] = {}]
    /\ UNCHANGED <<buf, reg, sems, bad, failed>>

\* k_sem_give, k_sem_take of semaphores with limit 1
Sem(h) ==
    /\ At(h, {"give", "take"}) /\ Drained(h)
    /\ IF Op(h).op = "give" THEN sems' = [sems EXCEPT ![Op(h).s] = 1]
       ELSE sems[Op(h).s] = 1 /\ sems' = [sems EXCEPT ![Op(h).s] = 0]
    /\ early' = [early EXCEPT ![h] = {}]
    /\ UNCHANGED <<mem, buf, reg, bad, failed>>

Over == \A h \in Harts : pc[h] > Len(Prog(h)) /\ Drained(h)

\* k_thread_join, then the test thread's assertions
Join ==
    /\ Over
    /\ failed' = \/ failed
                 \/ \E f \in Test(test).final : mem[f[1]] # f[2]
                 \/ \E h \in Harts : bad[h] # 0
    /\ UNCHANGED <<test, weak, pc, mem, reset, buf, early, reg, sems, bad>>

Hart(h) ==
    \/ Issue(h) \/ Load(h) \/ SpinWait(h) \/ Fence(h) \/ LockAmo(h) \/ Atomic(h) \/ Sem(h)

Next == Join \/ WakeStore \/ \E h \in Harts : Hart(h) \/ Drain(h) \/ Prefetch(h)

\* Each hart executes and its stores reach memory.
Spec ==
    /\ Init /\ [][Next]_vars /\ WF_vars(WakeStore)
    /\ \A h \in Harts : WF_vars(Hart(h)) /\ WF_vars(Drain(h))

-----------------------------------------------------------------------------
\* The tests whose outcome hangs on an order RVWMO does not keep.  Hart 1 stores
\* to what hart 0 resets before the wake, or P4.1B's producer loads
\* fence_expected, with no fence between the reset and g_smode_target
\* (smode.c:369); P4.0, P4.2 and P4.3 moreover have no "fence r" between
\* spin_wait and the value they assert, and P4.2 none between its AMOs and its
\* done flag.
Unordered == {"P4.0", "P4.1B", "P4.2", "P4.3"}

\* No assertion of a test fails, in any interleaving and for any order in which
\* the harts let stores and loads take effect: consumers see what was written
\* before the flag, counters reach their exact totals, the turn and the
\* semaphores alternate.  The tests of Unordered promise this on harts that keep
\* loads, stores and AMOs in order.
DCSound == failed => weak /\ test \in Unordered

\* No k_sem_give is lost at the semaphore's limit of 1: the loops of the two
\* sides of the ping-pong stay in step.
NoGiveLost ==
    [][\A h \in Harts : pc[h] <= Len(Prog(h)) /\ Op(h).op = "give" /\ pc'[h] # pc[h]
            => sems[Op(h).s] = 0]_vars

\* Each test comes to its end: neither side waits for a flag, lock, turn or
\* semaphore that the other will not provide.  A flag can only be missed by the
\* one that waits for it when a g_p4 = {0} erases it: that of line 185 erases
\* fence_done under P4.1B's producer on any hart (hart 0 is through with the
\* test), and on RVWMO harts the reset before the wake can come after the flag
\* that hart 1 set.
Misses(h) == /\ pc[h] <= Len(Prog(h)) /\ Op(h).op = "spin"
             /\ Drained(h) /\ mem[Op(h).loc] = 0
Ended(h) == pc[h] > Len(Prog(h)) /\ Drained(h)
DCEnds ==
    \/ <>Over
    \/ test = "P4.1B" /\ <>[](Misses(1) /\ (Ended(0) \/ (weak /\ Misses(0))))
    \/ weak /\ test \in Unordered /\ <>[](Misses(0) /\ Ended(1))
=============================================================================
