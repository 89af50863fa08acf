--------------------------- MODULE DualCoreProofs ---------------------------
(***************************************************************************)
(* TLAPS proofs about DualCore: for every number of rounds, the two        *)
(* threads of Zephyr's ping-pong stay in step and no k_sem_give is lost at *)
(* the limit of the semaphores; and no assertion of a dual-core test fails *)
(* on the harts it is written for.                                         *)
(***************************************************************************)
EXTENDS DualCore, TLAPS

PingPong == "Z_ping_pong"

\* A round k of test_ping_pong: the place of each thread and what the
\* semaphores hold.  The test thread gives ping and takes pong; the ponger takes
\* ping, counts, and gives pong.
ToGive(k) == pc[0] = 2 * k + 1 /\ pc[1] = 4 * k + 1 /\ sems["ping"] = 0 /\ sems["pong"] = 0
Given(k) == pc[0] = 2 * k + 2 /\ pc[1] = 4 * k + 1 /\ sems["ping"] = 1 /\ sems["pong"] = 0
Taken(k) == /\ pc[0] = 2 * k + 2 /\ pc[1] \in 4 * k + 2 .. 4 * k + 4
            /\ sems["ping"] = 0 /\ sems["pong"] = 0
Answered(k) == pc[0] = 2 * k + 2 /\ pc[1] = 4 * k + 5 /\ sems["ping"] = 0 /\ sems["pong"] = 1

Round(k) == ToGive(k) \/ Given(k) \/ Taken(k) \/ Answered(k)

DCInv ==
    /\ test \in Baremetal \cup Zephyr
    /\ pc \in [Harts -> Nat \ {0}]
    /\ sems \in [{"ping", "pong"} -> {0, 1}]
    /\ test = PingPong => \E k \in Nat : Round(k)

\* The operations of all the other tests: none touches a semaphore.
Quiet ==
    [op : {"stinc", "copy", "ld", "amoadd", "lock", "atomic_inc", "spin_lock"}, loc : Locs]
    \cup [op : {"st", "count", "spin", "assert", "atomic_set", "atomic_spin"},
          loc : Locs, v : Nat]
    \cup [op : {"judge"}, loc : Locs, ok : Locs]
    \cup [op : {"fence_r", "fence_w"}]

-----------------------------------------------------------------------------
\* The operation of a repeated body at each place.
LEMMA RepeatAt ==
    ASSUME NEW S, NEW body \in Seq(S), Len(body) > 0
    PROVE  /\ Repeat(body) \in Seq(S)
           /\ Len(Repeat(body)) = Rounds * Len(body)
           /\ \A i \in 1 .. Rounds * Len(body) :
                 /\ ((i - 1) % Len(body)) + 1 \in 1 .. Len(body)
                 /\ Repeat(body)[i] = body[((i - 1) % Len(body)) + 1]
<1> DEFINE m == Len(body)
<1>1. m \in Nat \ {0} /\ Rounds * m \in Nat
  BY RoundsAssumption
<1>2. \A i \in 1 .. Rounds * m : ((i - 1) % m) + 1 \in 1 .. m
  <2> SUFFICES ASSUME NEW i \in 1 .. Rounds * m PROVE ((i - 1) % m) + 1 \in 1 .. m
    OBVIOUS
  <2>1. i - 1 \in Nat
    BY <1>1
  <2> HIDE DEF m
  <2>2. (i - 1) % m \in 0 .. m - 1
    BY <2>1, <1>1
  <2> QED
    BY <2>1, <2>2, <1>1
<1>3. Repeat(body) = [i \in 1 .. Rounds * m |-> body[((i - 1) % m) + 1]]
  BY DEF Repeat
<1>4. \A i \in 1 .. Rounds * m : body[((i - 1) % m) + 1] \in S
  BY <1>2
<1> HIDE DEF m
<1>5. Repeat(body) \in [1 .. Rounds * m -> S]
  BY <1>3, <1>4
<1>6. Repeat(body) \in Seq(S) /\ Len(Repeat(body)) = Rounds * m
  BY <1>5, <1>1
<1> QED
  BY <1>2, <1>3, <1>6 DEF m

\* The operations that are in Quiet.
LEMMA QuietOps ==
    /\ \A l \in Locs : /\ StInc(l) \in Quiet /\ Ld(l) \in Quiet /\ AmoAdd(l) \in Quiet
                       /\ Lock(l) \in Quiet /\ AtomicInc(l) \in Quiet /\ Copy(l) \in Quiet
                       /\ SpinLock(l) \in Quiet
    /\ \A l \in Locs, v \in Nat :
          /\ St(l, v) \in Quiet /\ Count(l, v) \in Quiet /\ Spin(l, v) \in Quiet
          /\ Assert(l, v) \in Quiet /\ AtomicSet(l, v) \in Quiet
          /\ AtomicSpin(l, v) \in Quiet
    /\ \A l, k \in Locs : Judge(l, k) \in Quiet
    /\ FenceR \in Quiet /\ FenceW \in Quiet /\ FenceRW \in Quiet
<1> USE DEF Quiet
<1>1. \A l \in Locs : /\ StInc(l) \in Quiet /\ Ld(l) \in Quiet /\ AmoAdd(l) \in Quiet
                      /\ Lock(l) \in Quiet /\ AtomicInc(l) \in Quiet /\ Copy(l) \in Quiet
                      /\ SpinLock(l) \in Quiet
  BY DEF StInc, Ld, AmoAdd, Lock, AtomicInc, SpinLock, Copy
<1>2. \A l \in Locs, v \in Nat :
          /\ St(l, v) \in Quiet /\ Count(l, v) \in Quiet /\ Spin(l, v) \in Quiet
          /\ Assert(l, v) \in Quiet /\ AtomicSet(l, v) \in Quiet
          /\ AtomicSpin(l, v) \in Quiet
  BY DEF St, Count, Spin, Assert, AtomicSet, AtomicSpin
<1>3. \A l, k \in Locs : Judge(l, k) \in Quiet
  BY DEF Judge
<1>4. FenceR \in Quiet /\ FenceW \in Quiet /\ FenceRW \in Quiet
  BY DEF FenceR, FenceW, FenceRW
<1> QED
  BY <1>1, <1>2, <1>3, <1>4

\* None of the operations of Quiet is a k_sem_give.
LEMMA QuietGivesNothing == \A o \in Quiet : o.op # "give"
BY DEF Quiet

\* A tuple of operations of Quiet is a program, and so are a repeated one and two
\* in sequence.
LEMMA QuietPrograms ==
    /\ <<>> \in Seq(Quiet)
    /\ \A a \in Quiet : <<a>> \in Seq(Quiet)
    /\ \A a, b \in Quiet : <<a, b>> \in Seq(Quiet)
    /\ \A a, b, c \in Quiet : <<a, b, c>> \in Seq(Quiet)
    /\ \A a, b, c, d \in Quiet : <<a, b, c, d>> \in Seq(Quiet)
    /\ \A a, b, c, d, e \in Quiet : <<a, b, c, d, e>> \in Seq(Quiet)
    /\ \A a, b, c, d, e, f \in Quiet : <<a, b, c, d, e, f>> \in Seq(Quiet)
    /\ \A p, q \in Seq(Quiet) : p \o q \in Seq(Quiet) /\ Len(p \o q) = Len(p) + Len(q)
    /\ \A p \in Seq(Quiet) : Len(p) > 0 => Repeat(p) \in Seq(Quiet)
<1>1. \A p \in Seq(Quiet) : Len(p) > 0 => Repeat(p) \in Seq(Quiet)
  BY RepeatAt
<1> QED
  BY <1>1

\* The programs of the suite's P4.
LEMMA BaremetalQuiet ==
    /\ core1_magic_writer \in Seq(Quiet) /\ P4_0 \in Seq(Quiet)
    /\ core1_fence_consumer \in Seq(Quiet) /\ P4_1A \in Seq(Quiet)
    /\ core1_fence_producer \in Seq(Quiet) /\ P4_1B \in Seq(Quiet)
    /\ core1_atomic_incrementer \in Seq(Quiet) /\ P4_2 \in Seq(Quiet)
    /\ core1_spinlock_worker \in Seq(Quiet) /\ P4_3 \in Seq(Quiet)
    /\ ping \in Seq(Quiet) /\ P4_4 \in Seq(Quiet)
<1>0. /\ "payload" \in Locs /\ "wrote" \in Locs /\ "flag" \in Locs /\ "done" \in Locs
      /\ "ok" \in Locs /\ "counter" \in Locs /\ "lock" \in Locs /\ "var" \in Locs
      /\ "turn" \in Locs /\ "count" \in Locs /\ "expected" \in Locs /\ 2 * Rounds \in Nat
  BY RoundsAssumption DEF Locs
<1>1. core1_magic_writer \in Seq(Quiet) /\ P4_0 \in Seq(Quiet)
  BY <1>0, QuietOps, QuietPrograms DEF core1_magic_writer, P4_0
<1>7. Produce \in Seq(Quiet) /\ Consume \in Seq(Quiet) /\ fence_reset \in Seq(Quiet)
  BY <1>0, QuietOps, QuietPrograms DEF Produce, Consume, fence_reset
<1>8. /\ <<Spin("done", 1), FenceR, Assert("ok", 1)>> \in Seq(Quiet)
      /\ <<Spin("done", 1)>> \in Seq(Quiet) /\ <<Assert("ok", 1)>> \in Seq(Quiet)
  BY <1>0, QuietOps, QuietPrograms
<1>2. core1_fence_consumer \in Seq(Quiet) /\ P4_1A \in Seq(Quiet)
  BY <1>7, <1>8, QuietPrograms DEF core1_fence_consumer, P4_1A
<1>3. core1_fence_producer \in Seq(Quiet) /\ P4_1B \in Seq(Quiet)
  BY <1>7, <1>8, QuietPrograms DEF core1_fence_producer, P4_1B
<1>4. core1_atomic_incrementer \in Seq(Quiet) /\ P4_2 \in Seq(Quiet)
  <2>1. Repeat(<<AmoAdd("counter")>>) \in Seq(Quiet)
    <3> DEFINE body == <<AmoAdd("counter")>>
    <3>1. body \in Seq(Quiet)
      BY <1>0, QuietOps, QuietPrograms
    <3>2. Len(body) > 0
      OBVIOUS
    <3> HIDE DEF body
    <3>3. Repeat(body) \in Seq(Quiet)
      BY <3>1, <3>2, QuietPrograms
    <3> QED
      BY <3>3 DEF body
  <2>2. <<St("done", 1)>> \in Seq(Quiet)
        /\ <<Spin("done", 1), Assert("counter", 2 * Rounds)>> \in Seq(Quiet)
    BY <1>0, QuietOps, QuietPrograms
  <2> QED
    BY <2>1, <2>2, QuietPrograms DEF core1_atomic_incrementer, P4_2
<1>5. core1_spinlock_worker \in Seq(Quiet) /\ P4_3 \in Seq(Quiet)
  <2>1. spinlock_acquire \in Seq(Quiet) /\ spinlock_release \in Seq(Quiet)
        /\ <<Ld("var"), StInc("var")>> \in Seq(Quiet)
    BY <1>0, QuietOps, QuietPrograms DEF spinlock_acquire, spinlock_release
  <2>2. Len(spinlock_acquire) = 2 /\ Len(spinlock_release) = 2
        /\ Len(<<Ld("var"), StInc("var")>>) = 2
    BY DEF spinlock_acquire, spinlock_release
  <2>3. Critical \in Seq(Quiet) /\ Len(Critical) > 0
    <3>1. \A p, q, r \in Seq(Quiet) : Len(p) = 2 =>
             p \o q \o r \in Seq(Quiet) /\ Len(p \o q \o r) > 0
      OBVIOUS
    <3> QED
      BY <2>1, <2>2, <3>1 DEF Critical
  <2>4. Repeat(Critical) \in Seq(Quiet)
    BY <2>3, QuietPrograms
  <2>5. <<FenceW, St("done", 1)>> \in Seq(Quiet)
        /\ <<Spin("done", 1), Assert("var", 2 * Rounds)>> \in Seq(Quiet)
    BY <1>0, QuietOps, QuietPrograms
  <2> QED
    BY <2>4, <2>5, QuietPrograms DEF core1_spinlock_worker, P4_3
<1>6. ping \in Seq(Quiet) /\ P4_4 \in Seq(Quiet)
  <2>1. \A v, w \in Nat : Turn(v, w) \in Seq(Quiet) /\ Len(Turn(v, w)) > 0
    <3> SUFFICES ASSUME NEW v \in Nat, NEW w \in Nat
                 PROVE  Turn(v, w) \in Seq(Quiet) /\ Len(Turn(v, w)) > 0
      OBVIOUS
    <3>1. Turn(v, w) \in Seq(Quiet)
      BY <1>0, QuietOps, QuietPrograms DEF Turn
    <3>2. Len(Turn(v, w)) > 0
      BY DEF Turn
    <3> QED
      BY <3>1, <3>2
  <2>2. Repeat(Turn(1, 0)) \in Seq(Quiet) /\ Repeat(Turn(0, 1)) \in Seq(Quiet)
    BY <2>1, QuietPrograms
  <2>3. <<Spin("turn", 0), FenceR, Assert("count", 2 * Rounds)>> \in Seq(Quiet)
    BY <1>0, QuietOps, QuietPrograms
  <2> QED
    BY <2>2, <2>3, QuietPrograms DEF ping, P4_4
<1> QED
  BY <1>1, <1>2, <1>3, <1>4, <1>5, <1>6

\* The programs of Zephyr's other tests.
LEMMA ZephyrQuiet ==
    /\ record_cpu_entry(1) \in Seq(Quiet)
    /\ producer_entry \in Seq(Quiet) /\ consumer_entry \in Seq(Quiet)
    /\ inc_entry \in Seq(Quiet) /\ spinlock_inc_entry \in Seq(Quiet)
<1>0. /\ "observed_cpu" \in Locs /\ "word1" \in Locs /\ "word2" \in Locs
      /\ "publish_flag" \in Locs /\ "stress_counter" \in Locs
      /\ "counter_lock" \in Locs /\ "locked_counter" \in Locs
  BY DEF Locs
<1>1. record_cpu_entry(1) \in Seq(Quiet) /\ producer_entry \in Seq(Quiet)
      /\ consumer_entry \in Seq(Quiet)
  BY <1>0, QuietOps, QuietPrograms DEF record_cpu_entry, producer_entry, consumer_entry
<1>2. inc_entry \in Seq(Quiet)
  <2> DEFINE body == <<AtomicInc("stress_counter")>>
  <2>1. body \in Seq(Quiet)
    BY <1>0, QuietOps, QuietPrograms
  <2>2. Len(body) > 0
    OBVIOUS
  <2>3. inc_entry = Repeat(body)
    BY DEF inc_entry
  <2> HIDE DEF body
  <2> QED
    BY <2>1, <2>2, <2>3, QuietPrograms
<1>3. spinlock_inc_entry \in Seq(Quiet)
  <2> DEFINE body == <<SpinLock("counter_lock"), Ld("locked_counter"),
                       StInc("locked_counter"), AtomicSet("counter_lock", 0)>>
  <2>1. body \in Seq(Quiet)
    BY <1>0, QuietOps, QuietPrograms
  <2>2. Len(body) > 0
    OBVIOUS
  <2>3. spinlock_inc_entry = Repeat(body)
    BY DEF spinlock_inc_entry
  <2> HIDE DEF body
  <2> QED
    BY <2>1, <2>2, <2>3, QuietPrograms
<1> QED
  BY <1>1, <1>2, <1>3

\* No program but the ping-pong's gives a semaphore.
LEMMA OtherTestsGiveNothing ==
    ASSUME NEW t \in (Baremetal \cup Zephyr) \ {PingPong}, NEW h \in Harts,
           NEW i \in 1 .. Len(Test(t).prog[h + 1])
    PROVE  Test(t).prog[h + 1][i].op # "give"
<1>1. Test(t).prog[1] \in Seq(Quiet) /\ Test(t).prog[2] \in Seq(Quiet)
  <2>1. CASE t \in Baremetal
    BY <2>1, BaremetalQuiet DEF Baremetal, Test, Pair
  <2>2. CASE t \in Zephyr \ {PingPong}
    <3>1. <<>> \in Seq(Quiet)
      BY QuietPrograms
    <3> QED
      BY <2>2, <3>1, ZephyrQuiet DEF Zephyr, PingPong, Test, Pair, test_thread_runs_on_second_cpu,
         test_fence_producer_consumer, test_fence_producer_consumer_rev,
         test_atomic_increment_stress, test_spinlock_mutual_exclusion
  <2> QED
    BY <2>1, <2>2
<1>2. Test(t).prog[h + 1] \in Seq(Quiet)
  BY <1>1 DEF Harts
<1> QED
  BY <1>2, QuietGivesNothing

\* The two programs of the ping-pong, place by place.
LEMMA PingPongOps ==
    ASSUME test = PingPong
    PROVE  /\ Len(Prog(0)) = 2 * Rounds /\ Len(Prog(1)) = 4 * Rounds
           /\ \A k \in 0 .. Rounds - 1 :
                 /\ Prog(0)[2 * k + 1] = Give("ping") /\ Prog(0)[2 * k + 2] = Take("pong")
                 /\ Prog(1)[4 * k + 1] = Take("ping") /\ Prog(1)[4 * k + 2] = Ld("pong_rounds")
                 /\ Prog(1)[4 * k + 3] = StInc("pong_rounds")
                 /\ Prog(1)[4 * k + 4] = Give("pong")
<1> DEFINE a == <<Give("ping"), Take("pong")>>
           b == <<Take("ping"), Ld("pong_rounds"), StInc("pong_rounds"), Give("pong")>>
<1>1. Prog(0) = Repeat(a) /\ Prog(1) = Repeat(b)
  <2>1. Test(PingPong) = Pair(test_ping_pong, ponger_entry, {<<"pong_rounds", Rounds>>})
    BY DEF PingPong, Test
  <2>2. Test(PingPong).prog[1] = test_ping_pong /\ Test(PingPong).prog[2] = ponger_entry
    BY <2>1 DEF Pair
  <2>3. Prog(0) = Test(PingPong).prog[1] /\ Prog(1) = Test(PingPong).prog[2]
    BY DEF Prog
  <2> QED
    BY <2>2, <2>3 DEF test_ping_pong, ponger_entry
<1>2. Len(a) = 2 /\ a[1] = Give("ping") /\ a[2] = Take("pong")
  OBVIOUS
<1>3. /\ Len(b) = 4 /\ b[1] = Take("ping") /\ b[2] = Ld("pong_rounds")
      /\ b[3] = StInc("pong_rounds") /\ b[4] = Give("pong")
  OBVIOUS
<1>4. a \in Seq({Give("ping"), Take("pong")})
  OBVIOUS
<1>5. b \in Seq({Take("ping"), Ld("pong_rounds"), StInc("pong_rounds"), Give("pong")})
  OBVIOUS
<1> HIDE DEF a, b
<1>6. /\ Len(Repeat(a)) = Rounds * 2
      /\ \A i \in 1 .. Rounds * 2 : Repeat(a)[i] = a[((i - 1) % 2) + 1]
  <2>1. Len(a) > 0
    BY <1>2
  <2>2. /\ Len(Repeat(a)) = Rounds * Len(a)
        /\ \A i \in 1 .. Rounds * Len(a) : Repeat(a)[i] = a[((i - 1) % Len(a)) + 1]
    BY <1>4, <2>1, RepeatAt
  <2> QED
    BY <1>2, <2>2
<1>7. /\ Len(Repeat(b)) = Rounds * 4
      /\ \A i \in 1 .. Rounds * 4 : Repeat(b)[i] = b[((i - 1) % 4) + 1]
  <2>1. Len(b) > 0
    BY <1>3
  <2>2. /\ Len(Repeat(b)) = Rounds * Len(b)
        /\ \A i \in 1 .. Rounds * Len(b) : Repeat(b)[i] = b[((i - 1) % Len(b)) + 1]
    BY <1>5, <2>1, RepeatAt
  <2> QED
    BY <1>3, <2>2
<1>8. ASSUME NEW k \in 0 .. Rounds - 1
      PROVE  /\ 2 * k + 1 \in 1 .. Rounds * 2 /\ 2 * k + 2 \in 1 .. Rounds * 2
             /\ (((2 * k + 1) - 1) % 2) + 1 = 1 /\ (((2 * k + 2) - 1) % 2) + 1 = 2
             /\ \A j \in 1 .. 4 : /\ 4 * k + j \in 1 .. Rounds * 4
                                  /\ (((4 * k + j) - 1) % 4) + 1 = j
  BY RoundsAssumption
<1>9. ASSUME NEW k \in 0 .. Rounds - 1
      PROVE  Repeat(a)[2 * k + 1] = a[1] /\ Repeat(a)[2 * k + 2] = a[2]
  BY <1>6, <1>8
<1>10. ASSUME NEW k \in 0 .. Rounds - 1
       PROVE  /\ Repeat(b)[4 * k + 1] = b[1] /\ Repeat(b)[4 * k + 2] = b[2]
              /\ Repeat(b)[4 * k + 3] = b[3] /\ Repeat(b)[4 * k + 4] = b[4]
  <2>1. \A j \in 1 .. 4 : Repeat(b)[4 * k + j] = b[j]
    BY <1>7, <1>8
  <2> QED
    BY <2>1
<1>11. Len(Prog(0)) = 2 * Rounds /\ Len(Prog(1)) = 4 * Rounds
  BY <1>1, <1>6, <1>7, RoundsAssumption
<1>12. ASSUME NEW k \in 0 .. Rounds - 1
       PROVE  Prog(0)[2 * k + 1] = Give("ping") /\ Prog(0)[2 * k + 2] = Take("pong")
  BY <1>1, <1>2, <1>9
<1>13. ASSUME NEW k \in 0 .. Rounds - 1
       PROVE  /\ Prog(1)[4 * k + 1] = Take("ping")
              /\ Prog(1)[4 * k + 2] = Ld("pong_rounds")
              /\ Prog(1)[4 * k + 3] = StInc("pong_rounds")
              /\ Prog(1)[4 * k + 4] = Give("pong")
  BY <1>1, <1>3, <1>10
<1> QED
  BY <1>11, <1>12, <1>13

-----------------------------------------------------------------------------
\* How a step moves a hart that executes o at its place, and the semaphores.
Executes(h, o) ==
    /\ pc[h] <= Len(Prog(h)) /\ o = Op(h)
    /\ pc' = [pc EXCEPT ![h] = @ + 1]
    /\ \/ o.op \notin {"give", "take"} /\ sems' = sems
       \/ o.op = "give" /\ sems' = [sems EXCEPT ![o.s] = 1]
       \/ o.op = "take" /\ sems[o.s] = 1 /\ sems' = [sems EXCEPT ![o.s] = 0]

\* Every step executes one operation of one hart, or leaves both programs and
\* semaphores alone.
LEMMA StepShape ==
    ASSUME Next
    PROVE  /\ test' = test
           /\ \/ UNCHANGED <<pc, sems>>
              \/ \E h \in Harts : Executes(h, Op(h))
<1>1. CASE Join
  BY <1>1 DEF Join
<1>2. ASSUME NEW h \in Harts, Hart(h) PROVE test' = test /\ Executes(h, Op(h))
  <2>1. CASE Sem(h)
    BY <2>1 DEF Sem, At, Executes
  <2>2. CASE Issue(h)
    BY <2>2 DEF Issue, At, Executes
  <2>3. CASE Load(h)
    BY <2>3 DEF Load, At, Executes
  <2>4. CASE SpinWait(h)
    BY <2>4 DEF SpinWait, At, Executes
  <2>5. CASE Fence(h)
    BY <2>5 DEF Fence, At, Executes
  <2>6. CASE LockAmo(h)
    BY <2>6 DEF LockAmo, At, Executes
  <2>7. CASE Atomic(h)
    BY <2>7 DEF Atomic, At, Executes
  <2> QED
    BY <1>2, <2>1, <2>2, <2>3, <2>4, <2>5, <2>6, <2>7 DEF Hart
<1>3. ASSUME NEW h \in Harts, Drain(h) \/ Prefetch(h) PROVE UNCHANGED <<test, pc, sems>>
  BY <1>3 DEF Drain, Prefetch
<1>4. CASE WakeStore
  BY <1>4 DEF WakeStore
<1> QED
  BY <1>1, <1>2, <1>3, <1>4 DEF Next

\* A round is left for the next one only by the test thread's k_sem_take.
LEMMA RoundStep ==
    ASSUME DCInv, test = PingPong, NEW h \in Harts, Executes(h, Op(h))
    PROVE  /\ sems' \in [{"ping", "pong"} -> {0, 1}]
           /\ \E k \in Nat : Round(k)'
           /\ Op(h).op = "give" => sems[Op(h).s] = 0
<1> PICK k \in Nat : Round(k)
  BY DEF DCInv
<1>0. /\ pc \in [Harts -> Nat \ {0}] /\ sems \in [{"ping", "pong"} -> {0, 1}]
      /\ Rounds \in Nat
  BY RoundsAssumption DEF DCInv
<1>1. CASE h = 0
  <2>1. pc[0] <= 2 * Rounds /\ pc' = [pc EXCEPT ![0] = @ + 1] /\ Op(0) = Prog(0)[pc[0]]
    BY <1>1, PingPongOps DEF Executes, Op
  <2>2. k \in 0 .. Rounds - 1
    BY <2>1, <1>0 DEF Round, ToGive, Given, Taken, Answered
  <2>3. pc'[0] = pc[0] + 1 /\ pc'[1] = pc[1]
    BY <2>1, <1>0 DEF Harts
  <2>4. CASE ToGive(k)
    <3>1. Op(0) = Give("ping")
      BY <2>1, <2>2, <2>4, PingPongOps DEF ToGive
    <3>2. sems' = [sems EXCEPT !["ping"] = 1] /\ sems["ping"] = 0
      BY <1>1, <2>4, <3>1 DEF Executes, Give, ToGive
    <3>3. Given(k)'
      BY <1>0, <2>3, <2>4, <3>2 DEF ToGive, Given
    <3> QED
      BY <1>0, <1>1, <3>1, <3>2, <3>3 DEF Round, Give
  <2>5. CASE ~ToGive(k)
    <3>1. pc[0] = 2 * k + 2
      BY <2>5 DEF Round, Given, Taken, Answered
    <3>2. Op(0) = Take("pong")
      BY <2>1, <2>2, <3>1, PingPongOps
    <3>3. sems' = [sems EXCEPT !["pong"] = 0] /\ sems["pong"] = 1
      BY <1>1, <3>2 DEF Executes, Take
    <3>4. Answered(k)
      BY <2>5, <3>3 DEF Round, Given, Taken
    <3>5. ToGive(k + 1)'
      BY <1>0, <2>3, <3>3, <3>4 DEF Answered, ToGive
    <3>6. k + 1 \in Nat
      OBVIOUS
    <3> QED
      BY <1>0, <1>1, <3>2, <3>3, <3>5, <3>6 DEF Round, Take
  <2> QED
    BY <2>4, <2>5
<1>2. CASE h = 1
  <2>1. pc[1] <= 4 * Rounds /\ pc' = [pc EXCEPT ![1] = @ + 1] /\ Op(1) = Prog(1)[pc[1]]
    BY <1>2, PingPongOps DEF Executes, Op
  <2>3. pc'[1] = pc[1] + 1 /\ pc'[0] = pc[0]
    BY <2>1, <1>0 DEF Harts
  <2>4. CASE ToGive(k) \/ Given(k)
    <3>1. k \in 0 .. Rounds - 1 /\ pc[1] = 4 * k + 1
      BY <2>1, <2>4, <1>0 DEF ToGive, Given
    <3>2. Op(1) = Take("ping")
      BY <2>1, <3>1, PingPongOps
    <3>3. sems' = [sems EXCEPT !["ping"] = 0] /\ sems["ping"] = 1
      BY <1>2, <3>2 DEF Executes, Take
    <3>4. Taken(k)'
      BY <1>0, <2>3, <2>4, <3>1, <3>3 DEF ToGive, Given, Taken
    <3> QED
      BY <1>0, <1>2, <3>2, <3>3, <3>4 DEF Round, Take
  <2>5. CASE Taken(k) /\ pc[1] # 4 * k + 4
    <3>1. k \in 0 .. Rounds - 1 /\ pc[1] \in {4 * k + 2, 4 * k + 3}
      BY <2>1, <2>5, <1>0 DEF Taken
    <3>2. Op(1) = Ld("pong_rounds") \/ Op(1) = StInc("pong_rounds")
      BY <2>1, <3>1, PingPongOps
    <3>3. sems' = sems /\ Op(1).op # "give"
      BY <1>2, <3>2 DEF Executes, Ld, StInc
    <3>4. Taken(k)'
      BY <1>0, <2>3, <2>5, <3>1, <3>3 DEF Taken
    <3> QED
      BY <1>0, <1>2, <3>3, <3>4 DEF Round
  <2>6. CASE Taken(k) /\ pc[1] = 4 * k + 4
    <3>1. k \in 0 .. Rounds - 1
      BY <2>1, <2>6, <1>0
    <3>2. Op(1) = Give("pong")
      BY <2>1, <2>6, <3>1, PingPongOps
    <3>3. sems' = [sems EXCEPT !["pong"] = 1] /\ sems["pong"] = 0
      BY <1>2, <2>6, <3>2 DEF Executes, Give, Taken
    <3>4. Answered(k)'
      BY <1>0, <2>3, <2>6, <3>3 DEF Taken, Answered
    <3> QED
      BY <1>0, <1>2, <3>2, <3>3, <3>4 DEF Round, Give
  <2>7. CASE Answered(k)
    <3>1. k + 1 \in 0 .. Rounds - 1 /\ pc[1] = 4 * (k + 1) + 1
      BY <2>1, <2>7, <1>0 DEF Answered
    <3>2. Op(1) = Take("ping")
      BY <2>1, <3>1, PingPongOps
    <3>3. sems["ping"] = 1
      BY <1>2, <3>2 DEF Executes, Take
    <3> QED
      BY <2>7, <3>3 DEF Answered
  <2> QED
    BY <2>4, <2>5, <2>6, <2>7 DEF Round
<1> QED
  BY <1>1, <1>2 DEF Harts

\* No step disturbs the ping-pong's rounds.
LEMMA DCStep == ASSUME DCInv, [Next]_vars PROVE DCInv'
<1>1. CASE UNCHANGED vars
  BY <1>1 DEF DCInv, vars, Round, ToGive, Given, Taken, Answered
<1>2. CASE Next /\ UNCHANGED <<pc, sems>>
  <2>1. test' = test
    BY <1>2, StepShape
  <2> QED
    BY <1>2, <2>1 DEF DCInv, Round, ToGive, Given, Taken, Answered
<1>3. ASSUME Next, NEW h \in Harts, Executes(h, Op(h)) PROVE DCInv'
  <2>1. test' = test
    BY <1>3, StepShape
  <2>2. pc' \in [Harts -> Nat \ {0}]
    BY <1>3 DEF DCInv, Executes
  <2>3. CASE test = PingPong
    BY <1>3, <2>1, <2>2, <2>3, RoundStep DEF DCInv
  <2>4. CASE test # PingPong
    <3>1. pc[h] \in 1 .. Len(Prog(h))
      BY <1>3 DEF DCInv, Executes
    <3>2. Op(h).op # "give"
      BY <2>4, <3>1, OtherTestsGiveNothing DEF DCInv, Prog, Op
    <3>3. sems' \in [{"ping", "pong"} -> {0, 1}]
      BY <1>3, <3>2 DEF DCInv, Executes
    <3> QED
      BY <2>1, <2>2, <2>4, <3>3 DEF DCInv
  <2> QED
    BY <2>3, <2>4
<1> QED
  BY <1>1, <1>2, <1>3, StepShape

\* For every number of rounds: whoever gives a semaphore finds it at 0, so that
\* its limit of 1 drops no unit.
THEOREM NoGiveEverLost == Spec => NoGiveLost
<1>1. Init => DCInv
  <2> SUFFICES ASSUME Init PROVE DCInv
    OBVIOUS
  <2>1. ToGive(0)
    BY DEF Init, ToGive, Harts
  <2> QED
    BY <2>1 DEF Init, DCInv, Round
<1>2. DCInv /\ [Next]_vars => DCInv'
  BY DCStep
<1>3. DCInv /\ [Next]_vars =>
        [\A h \in Harts : pc[h] <= Len(Prog(h)) /\ Op(h).op = "give" /\ pc'[h] # pc[h]
             => sems[Op(h).s] = 0]_vars
  <2> SUFFICES ASSUME DCInv, Next, NEW h \in Harts, pc[h] <= Len(Prog(h)),
                      Op(h).op = "give", pc'[h] # pc[h]
               PROVE  sems[Op(h).s] = 0
    OBVIOUS
  <2>1. PICK g \in Harts : Executes(g, Op(g))
    BY StepShape
  <2>2. g = h
    BY <2>1 DEF Executes, DCInv
  <2>3. test = PingPong
    <3>1. pc[h] \in 1 .. Len(Prog(h))
      BY DEF DCInv
    <3> QED
      BY <3>1, OtherTestsGiveNothing DEF DCInv, Prog, Op
  <2> QED
    BY <2>1, <2>2, <2>3, RoundStep
<1> QED
  BY <1>1, <1>2, <1>3, PTL DEF Spec, NoGiveLost

-----------------------------------------------------------------------------
(***************************************************************************)
(* That no assertion fails, test by test, for every number of rounds.      *)
(* First what one operation, one buffer or one early load does.            *)
(***************************************************************************)
\* The variables that are indexed by hart or location are functions on them.
Indexed(f, S) == f = [x \in S |-> f[x]]
Shape ==
    /\ Indexed(pc, Harts) /\ Indexed(buf, Harts) /\ Indexed(early, Harts)
    /\ Indexed(reg, Harts) /\ Indexed(bad, Harts) /\ Indexed(mem, Locs)

\* A load of l by h returns what is in memory, satisfied early or not.
Fresh(h, l) == \A e \in early[h] : e[1] = l => e[2] = mem[l]

\* Hart h executes its operation and touches nothing of the other's.
Moves(h) ==
    /\ pc'[h] = pc[h] + 1
    /\ \A g \in Harts \ {h} :
          pc'[g] = pc[g] /\ buf'[g] = buf[g] /\ early'[g] = early[g] /\ reg'[g] = reg[g]
\* A step that counts no bad word and fails no assertion.
Calm == bad' = bad /\ (failed' => failed)

\* One changed place.
LEMMA ExceptAt ==
    ASSUME NEW S, NEW f, Indexed(f, S), NEW a \in S, NEW v
    PROVE  /\ Indexed([f EXCEPT ![a] = v], S)
           /\ [f EXCEPT ![a] = v][a] = v
           /\ \A b \in S \ {a} : [f EXCEPT ![a] = v][b] = f[b]
BY DEF Indexed

\* The programs of each test.
LEMMA Programs ==
    /\ Test("P4.0") = Pair(P4_0, core1_magic_writer, {})
    /\ Test("P4.1A") = Pair(P4_1A, core1_fence_consumer, {})
    /\ Test("P4.1B") = Pair(P4_1B, core1_fence_producer, {})
    /\ Test("P4.2") = Pair(P4_2, core1_atomic_incrementer, {})
    /\ Test("P4.3") = Pair(P4_3, core1_spinlock_worker, {})
    /\ Test("P4.4") = Pair(P4_4, ping, {})
    /\ Test("Z_second_cpu") = test_thread_runs_on_second_cpu
    /\ Test("Z_fence") = test_fence_producer_consumer
    /\ Test("Z_fence_rev") = test_fence_producer_consumer_rev
    /\ Test("Z_stress") = test_atomic_increment_stress
    /\ Test("Z_spinlock") = test_spinlock_mutual_exclusion
    /\ Test("Z_ping_pong") = Pair(test_ping_pong, ponger_entry, {<<"pong_rounds", Rounds>>})
BY DEF Test

\* Which program a hart runs, and what the test thread asserts at its end.
LEMMA ProgOf ==
    ASSUME NEW p, NEW q, NEW f, Test(test) = Pair(p, q, f)
    PROVE  Prog(0) = p /\ Prog(1) = q /\ Test(test).final = f
<1>1. Test(test).prog[1] = p /\ Test(test).prog[2] = q /\ Test(test).final = f
  BY DEF Pair
<1>2. Prog(0) = Test(test).prog[1] /\ Prog(1) = Test(test).prog[2]
  BY DEF Prog
<1> QED
  BY <1>1, <1>2

-----------------------------------------------------------------------------
\* The functions stay functions.
LEMMA ShapeKept == ASSUME Shape, [Next]_vars PROVE Shape'
<1>0. \A h \in Harts : \A v : /\ Indexed([pc EXCEPT ![h] = v], Harts)
                              /\ Indexed([buf EXCEPT ![h] = v], Harts)
                              /\ Indexed([early EXCEPT ![h] = v], Harts)
                              /\ Indexed([reg EXCEPT ![h] = v], Harts)
                              /\ Indexed([bad EXCEPT ![h] = v], Harts)
  BY ExceptAt DEF Shape
<1>1. \A l, v : Indexed([mem EXCEPT ![l] = v], Locs)
  BY DEF Shape, Indexed
<1>2. CASE UNCHANGED vars
  BY <1>2 DEF vars, Shape, Indexed
<1>3. CASE Join
  BY <1>3 DEF Join, Shape, Indexed
<1>4. ASSUME NEW h \in Harts, Drain(h) PROVE Shape'
  BY <1>4, <1>0, <1>1 DEF Drain, Apply, Shape, Indexed
<1>5. ASSUME NEW h \in Harts, Prefetch(h) PROVE Shape'
  BY <1>5, <1>0 DEF Prefetch, Shape, Indexed
<1>6. ASSUME NEW h \in Harts, Issue(h) PROVE Shape'
  BY <1>6, <1>0 DEF Issue, At, NotEarly, Shape, Indexed
<1>7. ASSUME NEW h \in Harts, Load(h) PROVE Shape'
  BY <1>7, <1>0 DEF Load, At, NotEarly, Shape, Indexed
<1>8. ASSUME NEW h \in Harts, SpinWait(h) PROVE Shape'
  BY <1>8, <1>0 DEF SpinWait, At, Shape, Indexed
<1>9. ASSUME NEW h \in Harts, Fence(h) PROVE Shape'
  BY <1>9, <1>0 DEF Fence, At, Shape, Indexed
<1>10. ASSUME NEW h \in Harts, LockAmo(h) PROVE Shape'
  BY <1>10, <1>0, <1>1 DEF LockAmo, At, Shape, Indexed
<1>11. ASSUME NEW h \in Harts, Atomic(h) PROVE Shape'
  BY <1>11, <1>0, <1>1 DEF Atomic, At, Shape, Indexed
<1>12. ASSUME NEW h \in Harts, Sem(h) PROVE Shape'
  BY <1>12, <1>0 DEF Sem, At, Shape, Indexed
<1>13. CASE WakeStore
  BY <1>13, <1>1 DEF WakeStore, Apply, Shape, Indexed
<1> QED
  BY <1>2, <1>3, <1>4, <1>5, <1>6, <1>7, <1>8, <1>9, <1>10, <1>11, <1>12, <1>13
     DEF Next, Hart

-----------------------------------------------------------------------------
\* Which action an operation is executed by.
LEMMA Executed ==
    ASSUME NEW h \in Harts, Hart(h)
    PROVE  /\ pc[h] <= Len(Prog(h))
           /\ Op(h).op \in {"st", "stinc", "copy", "amoadd"} => Issue(h)
           /\ Op(h).op \in {"ld", "count", "judge", "assert"} => Load(h)
           /\ Op(h).op = "spin" => SpinWait(h)
           /\ Op(h).op \in {"fence_r", "fence_w"} => Fence(h)
           /\ Op(h).op = "lock" => LockAmo(h)
           /\ Op(h).op \in {"atomic_set", "atomic_inc", "atomic_spin", "spin_lock"} => Atomic(h)
           /\ Op(h).op \in {"give", "take"} => Sem(h)
BY DEF Hart, Issue, Load, SpinWait, Fence, LockAmo, Atomic, Sem, At

\* What every operation leaves to the other hart.
LEMMA HartMoves ==
    ASSUME Shape, NEW h \in Harts, Hart(h)
    PROVE  Moves(h)
<1>1. CASE Issue(h)
  BY <1>1 DEF Issue, At, NotEarly, Moves, Shape, Indexed
<1>2. CASE Load(h)
  BY <1>2 DEF Load, At, NotEarly, Moves, Shape, Indexed
<1>3. CASE SpinWait(h)
  BY <1>3 DEF SpinWait, At, Moves, Shape, Indexed
<1>4. CASE Fence(h)
  BY <1>4 DEF Fence, At, Moves, Shape, Indexed
<1>5. CASE LockAmo(h)
  BY <1>5 DEF LockAmo, At, Moves, Shape, Indexed
<1>6. CASE Atomic(h)
  <2>1. /\ pc' = [pc EXCEPT ![h] = @ + 1] /\ buf' = buf /\ reg' = reg
        /\ early' = [early EXCEPT ![h] = {}]
    BY <1>6 DEF Atomic, At
  <2> QED
    BY <2>1 DEF Moves, Shape, Indexed
<1>7. CASE Sem(h)
  BY <1>7 DEF Sem, At, Moves, Shape, Indexed
<1> QED
  BY <1>1, <1>2, <1>3, <1>4, <1>5, <1>6, <1>7 DEF Hart

\* A store enters the buffer.
LEMMA DoSt ==
    ASSUME Shape, NEW h \in Harts, Hart(h), NEW l, NEW v, Op(h) = St(l, v)
    PROVE  mem' = mem /\ buf'[h] = Append(buf[h], St(l, v)) /\ reg' = reg /\ Calm
<1>1. Op(h).op = "st"
  BY DEF St
<1>2. Issue(h)
  BY <1>1, Executed
<1>3. buf' = [buf EXCEPT ![h] = Append(buf[h], St(l, v))]
  BY <1>1, <1>2 DEF Issue
<1>4. buf'[h] = Append(buf[h], St(l, v))
  BY <1>3 DEF Shape, Indexed
<1> QED
  BY <1>2, <1>4 DEF Issue, Calm

\* A store of the last loaded value plus one.
LEMMA DoStInc ==
    ASSUME Shape, NEW h \in Harts, Hart(h), NEW l, Op(h) = StInc(l)
    PROVE  mem' = mem /\ buf'[h] = Append(buf[h], St(l, reg[h] + 1)) /\ reg' = reg /\ Calm
<1>1. Op(h).op = "stinc" /\ Op(h).loc = l
  BY DEF StInc
<1>2. Issue(h)
  BY <1>1, Executed
<1>3. buf' = [buf EXCEPT ![h] = Append(buf[h], St(l, reg[h] + 1))]
  BY <1>1, <1>2 DEF Issue
<1>4. buf'[h] = Append(buf[h], St(l, reg[h] + 1))
  BY <1>3 DEF Shape, Indexed
<1> QED
  BY <1>2, <1>4 DEF Issue, Calm

\* A store of the last loaded value.
LEMMA DoCopy ==
    ASSUME Shape, NEW h \in Harts, Hart(h), NEW l, Op(h) = Copy(l)
    PROVE  mem' = mem /\ buf'[h] = Append(buf[h], St(l, reg[h])) /\ reg' = reg /\ Calm
<1>1. Op(h).op = "copy" /\ Op(h).loc = l
  BY DEF Copy
<1>2. Issue(h)
  BY <1>1, Executed
<1>3. buf' = [buf EXCEPT ![h] = Append(buf[h], St(l, reg[h]))]
  BY <1>1, <1>2 DEF Issue
<1>4. buf'[h] = Append(buf[h], St(l, reg[h]))
  BY <1>3 DEF Shape, Indexed
<1> QED
  BY <1>2, <1>4 DEF Issue, Calm

\* A relaxed AMO enters the buffer.
LEMMA DoAmoAdd ==
    ASSUME Shape, NEW h \in Harts, Hart(h), NEW l, Op(h) = AmoAdd(l)
    PROVE  mem' = mem /\ buf'[h] = Append(buf[h], AmoAdd(l)) /\ reg' = reg /\ Calm
<1>1. Op(h).op = "amoadd"
  BY DEF AmoAdd
<1>2. Issue(h)
  BY <1>1, Executed
<1>3. buf' = [buf EXCEPT ![h] = Append(buf[h], AmoAdd(l))]
  BY <1>1, <1>2 DEF Issue
<1>4. buf'[h] = Append(buf[h], AmoAdd(l))
  BY <1>3 DEF Shape, Indexed
<1> QED
  BY <1>2, <1>4 DEF Issue, Calm

\* A load of a location of which no stale value was taken early.
LEMMA LoadsFresh ==
    ASSUME NEW h \in Harts, Load(h), Fresh(h, Op(h).loc)
    PROVE  /\ Settled(h, Op(h).loc) /\ mem' = mem
           /\ LET v == mem[Op(h).loc] IN
              /\ reg' = [reg EXCEPT ![h] = v]
              /\ bad' = [bad EXCEPT ![h] = IF Op(h).op = "count" /\ v # Op(h).v THEN @ + 1 ELSE @]
              /\ failed' = (failed \/ (Op(h).op = "assert" /\ v # Op(h).v))
              /\ buf' = IF Op(h).op = "judge"
                        THEN [buf EXCEPT ![h] = Append(@, St(Op(h).ok, IF v = reg[h] THEN 1 ELSE 0))]
                        ELSE buf
<1>1. \A v \in Values(h, Op(h).loc) : v = mem[Op(h).loc]
  BY DEF Values, Fresh
<1> QED
  BY <1>1 DEF Load

\* A load of memory.
LEMMA DoLd ==
    ASSUME Shape, NEW h \in Harts, Hart(h), NEW l, Op(h) = Ld(l), Fresh(h, l)
    PROVE  Settled(h, l) /\ mem' = mem /\ buf' = buf /\ reg'[h] = mem[l] /\ Calm
<1>1. Op(h).op = "ld" /\ Op(h).loc = l
  BY DEF Ld
<1>2. Load(h)
  BY <1>1, Executed
<1>3. /\ Settled(h, l) /\ mem' = mem /\ reg' = [reg EXCEPT ![h] = mem[l]]
      /\ bad' = [bad EXCEPT ![h] = bad[h]] /\ buf' = buf
  BY <1>1, <1>2, LoadsFresh
<1>4. reg'[h] = mem[l]
  BY <1>3 DEF Shape, Indexed
<1>5. bad' = bad
  BY <1>3 DEF Shape, Indexed
<1>6. failed' = (failed \/ FALSE)
  BY <1>1, <1>2 DEF Load
<1> QED
  BY <1>3, <1>4, <1>5, <1>6 DEF Calm

\* A counted load of the value that is expected.
LEMMA DoCount ==
    ASSUME Shape, NEW h \in Harts, Hart(h), NEW l, NEW v, Op(h) = Count(l, v),
           Fresh(h, l), mem[l] = v
    PROVE  mem' = mem /\ buf' = buf /\ Calm
<1>1. Op(h).op = "count" /\ Op(h).loc = l /\ Op(h).v = v
  BY DEF Count
<1>2. Load(h)
  BY <1>1, Executed
<1>3. /\ mem' = mem /\ bad' = [bad EXCEPT ![h] = bad[h]] /\ buf' = buf
  BY <1>1, <1>2, LoadsFresh
<1>4. bad' = bad
  BY <1>3 DEF Shape, Indexed
<1>5. failed' => failed
  BY <1>1, <1>2 DEF Load
<1> QED
  BY <1>3, <1>4, <1>5 DEF Calm

\* A judged load of the value loaded before: the verdict is 1.
LEMMA DoJudge ==
    ASSUME Shape, NEW h \in Harts, Hart(h), NEW l, NEW k, Op(h) = Judge(l, k),
           Fresh(h, l), mem[l] = reg[h]
    PROVE  mem' = mem /\ buf'[h] = Append(buf[h], St(k, 1)) /\ Calm
<1>1. Op(h).op = "judge" /\ Op(h).loc = l /\ Op(h).ok = k
  BY DEF Judge
<1>2. Load(h)
  BY <1>1, Executed
<1>3. /\ mem' = mem /\ bad' = [bad EXCEPT ![h] = bad[h]]
      /\ buf' = [buf EXCEPT ![h] = Append(buf[h], St(k, 1))]
  BY <1>1, <1>2, LoadsFresh
<1>4. bad' = bad /\ buf'[h] = Append(buf[h], St(k, 1))
  BY <1>3 DEF Shape, Indexed
<1>5. failed' => failed
  BY <1>1, <1>2 DEF Load
<1> QED
  BY <1>3, <1>4, <1>5 DEF Calm

\* An assertion on memory that holds once nothing of the hart's own is on its way.
LEMMA DoAssert ==
    ASSUME Shape, NEW h \in Harts, Hart(h), NEW l, NEW v, Op(h) = Assert(l, v),
           Fresh(h, l), Settled(h, l) => mem[l] = v
    PROVE  mem' = mem /\ buf' = buf /\ Calm
<1>1. Op(h).op = "assert" /\ Op(h).loc = l /\ Op(h).v = v
  BY DEF Assert
<1>2. Load(h)
  BY <1>1, Executed
<1>3. /\ mem' = mem /\ bad' = [bad EXCEPT ![h] = bad[h]] /\ buf' = buf
      /\ Settled(h, l) 
  BY <1>1, <1>2, LoadsFresh
<1>4. failed' => failed
  BY <1>1, <1>2, <1>3, LoadsFresh
<1>5. bad' = bad
  BY <1>3 DEF Shape, Indexed
<1> QED
  BY <1>3, <1>4, <1>5 DEF Calm

\* The end of a loop that polls.
LEMMA DoSpin ==
    ASSUME NEW h \in Harts, Hart(h), NEW l, NEW v, Op(h) = Spin(l, v)
    PROVE  Settled(h, l) /\ mem[l] = v /\ mem' = mem /\ buf' = buf /\ reg' = reg /\ Calm
<1>1. Op(h).op = "spin" /\ Op(h).loc = l /\ Op(h).v = v
  BY DEF Spin
<1> QED
  BY <1>1, Executed DEF SpinWait, Calm

\* fence r, rw: what was taken early is dropped.
LEMMA DoFenceR ==
    ASSUME Shape, NEW h \in Harts, Hart(h), Op(h) = FenceR
    PROVE  early'[h] = {} /\ mem' = mem /\ buf' = buf /\ reg' = reg /\ Calm
<1>1. Op(h).op = "fence_r"
  BY DEF FenceR
<1>2. Fence(h)
  BY <1>1, Executed
<1>3. early' = [early EXCEPT ![h] = {}]
  BY <1>1, <1>2 DEF Fence, At
<1>4. early'[h] = {}
  BY <1>3 DEF Shape, Indexed
<1> QED
  BY <1>2, <1>4 DEF Fence, Calm

\* fence w, w and fence rw, w wait for the buffer.
LEMMA DoFenceW ==
    ASSUME NEW h \in Harts, Hart(h), Op(h) = FenceW
    PROVE  buf[h] = <<>> /\ mem' = mem /\ buf' = buf /\ reg' = reg /\ Calm
<1>1. Op(h).op = "fence_w"
  BY DEF FenceW
<1>2. Fence(h)
  BY <1>1, Executed
<1> QED
  BY <1>1, <1>2 DEF Fence, At, Drained, Calm

\* The amo_swap_d that takes the lock.
LEMMA DoLock ==
    ASSUME NEW h \in Harts, Hart(h), NEW l, Op(h) = Lock(l)
    PROVE  /\ Settled(h, l) /\ mem[l] = 0 /\ mem' = [mem EXCEPT ![l] = 1]
           /\ buf' = buf /\ reg' = reg /\ Calm
<1>1. Op(h).op = "lock" /\ Op(h).loc = l
  BY DEF Lock
<1> QED
  BY <1>1, Executed DEF LockAmo, Calm

\* What Zephyr's atomics have in common: they order everything.
LEMMA AtomicOrders ==
    ASSUME Shape, NEW h \in Harts, Atomic(h)
    PROVE  buf[h] = <<>> /\ early'[h] = {} /\ buf' = buf /\ reg' = reg /\ Calm
<1>1. early' = [early EXCEPT ![h] = {}] /\ Drained(h) /\ buf' = buf /\ reg' = reg /\ Calm
  BY DEF Atomic, Calm
<1>2. early'[h] = {}
  BY <1>1 DEF Shape, Indexed
<1> QED
  BY <1>1, <1>2 DEF Drained

\* atomic_set.
LEMMA DoAtomicSet ==
    ASSUME Shape, NEW h \in Harts, Hart(h), NEW l, NEW v, Op(h) = AtomicSet(l, v)
    PROVE  /\ buf[h] = <<>> /\ early'[h] = {} /\ buf' = buf /\ reg' = reg /\ Calm
           /\ mem' = [mem EXCEPT ![l] = v]
<1>1. Op(h).op = "atomic_set" /\ Op(h).loc = l /\ Op(h).v = v
  BY DEF AtomicSet
<1>2. Atomic(h)
  BY <1>1, Executed
<1>3. mem' = [mem EXCEPT ![l] = v]
  BY <1>1, <1>2 DEF Atomic
<1> QED
  BY <1>2, <1>3, AtomicOrders

\* atomic_inc.
LEMMA DoAtomicInc ==
    ASSUME Shape, NEW h \in Harts, Hart(h), NEW l, Op(h) = AtomicInc(l)
    PROVE  /\ buf[h] = <<>> /\ early'[h] = {} /\ buf' = buf /\ reg' = reg /\ Calm
           /\ mem' = [mem EXCEPT ![l] = mem[l] + 1]
<1>1. Op(h).op = "atomic_inc" /\ Op(h).loc = l
  BY DEF AtomicInc
<1>2. Atomic(h)
  BY <1>1, Executed
<1>3. mem' = [mem EXCEPT ![l] = mem[l] + 1]
  BY <1>1, <1>2 DEF Atomic
<1> QED
  BY <1>2, <1>3, AtomicOrders

\* The atomic_get that ends a loop.
LEMMA DoAtomicSpin ==
    ASSUME Shape, NEW h \in Harts, Hart(h), NEW l, NEW v, Op(h) = AtomicSpin(l, v)
    PROVE  /\ buf[h] = <<>> /\ early'[h] = {} /\ buf' = buf /\ reg' = reg /\ Calm
           /\ mem[l] = v /\ mem' = mem
<1>1. Op(h).op = "atomic_spin" /\ Op(h).loc = l /\ Op(h).v = v
  BY DEF AtomicSpin
<1>2. Atomic(h)
  BY <1>1, Executed
<1>3. mem[l] = v /\ mem' = mem
  BY <1>1, <1>2 DEF Atomic
<1> QED
  BY <1>2, <1>3, AtomicOrders

\* k_spin_lock.
LEMMA DoSpinLock ==
    ASSUME Shape, NEW h \in Harts, Hart(h), NEW l, Op(h) = SpinLock(l)
    PROVE  /\ buf[h] = <<>> /\ early'[h] = {} /\ buf' = buf /\ reg' = reg /\ Calm
           /\ mem[l] = 0 /\ mem' = [mem EXCEPT ![l] = 1]
<1>1. Op(h).op = "spin_lock" /\ Op(h).loc = l
  BY DEF SpinLock
<1>2. Atomic(h)
  BY <1>1, Executed
<1>3. mem[l] = 0 /\ mem' = [mem EXCEPT ![l] = 1]
  BY <1>1, <1>2 DEF Atomic
<1> QED
  BY <1>2, <1>3, AtomicOrders

\* k_sem_give and k_sem_take order everything too.
LEMMA DoSem ==
    ASSUME Shape, NEW h \in Harts, Hart(h), Op(h).op \in {"give", "take"}
    PROVE  buf[h] = <<>> /\ early'[h] = {} /\ buf' = buf /\ mem' = mem /\ reg' = reg /\ Calm
<1>1. Sem(h)
  BY Executed
<1>2. early' = [early EXCEPT ![h] = {}]
  BY <1>1 DEF Sem
<1>3. early'[h] = {}
  BY <1>2 DEF Shape, Indexed
<1> QED
  BY <1>1, <1>3 DEF Sem, Drained, Calm

\* Only an assertion or a counted load can spoil the run.
LEMMA Harmless ==
    ASSUME Shape, NEW h \in Harts, Hart(h), Op(h).op \notin {"assert", "count"}
    PROVE  Calm
<1>1. CASE ~Load(h)
  <2>1. CASE Issue(h)
    BY <2>1 DEF Issue, Calm
  <2>2. CASE SpinWait(h)
    BY <2>2 DEF SpinWait, Calm
  <2>3. CASE Fence(h)
    BY <2>3 DEF Fence, Calm
  <2>4. CASE LockAmo(h)
    BY <2>4 DEF LockAmo, Calm
  <2>5. CASE Atomic(h)
    BY <2>5, AtomicOrders
  <2>6. CASE Sem(h)
    BY <2>6 DEF Sem, Calm
  <2> QED
    BY <1>1, <2>1, <2>2, <2>3, <2>4, <2>5, <2>6 DEF Hart
<1>2. CASE Load(h)
  <2>1. bad' = [bad EXCEPT ![h] = bad[h]] /\ failed' = (failed \/ FALSE)
    BY <1>2 DEF Load
  <2>2. bad' = bad
    BY <2>1 DEF Shape, Indexed
  <2> QED
    BY <2>1, <2>2 DEF Calm
<1> QED
  BY <1>1, <1>2 DEF Hart

-----------------------------------------------------------------------------
\* A step once hart 0 has passed the fence of wake_core1_smode.
Runs == Join \/ \E h \in Harts : Hart(h) \/ Drain(h) \/ Prefetch(h)

\* A step of a buffer: nothing but the buffer and the memory changes.
LEMMA DrainFrame ==
    ASSUME Shape, NEW h \in Harts, Drain(h)
    PROVE  /\ pc' = pc /\ early' = early /\ reg' = reg /\ Calm /\ buf[h] # <<>>
           /\ \A g \in Harts \ {h} : buf'[g] = buf[g]
<1>1. PICK i \in DOMAIN buf[h] :
         /\ buf' = [buf EXCEPT ![h] = SubSeq(@, 1, i - 1) \o SubSeq(@, i + 1, Len(@))]
         /\ UNCHANGED <<test, weak, pc, reset, early, reg, sems, bad, failed>>
  BY DEF Drain
<1>2. \A g \in Harts \ {h} : buf'[g] = buf[g]
  BY <1>1 DEF Shape, Indexed
<1>3. buf[h] # <<>>
  BY <1>1
<1> QED
  BY <1>1, <1>2, <1>3 DEF Calm

\* The only entry of a buffer reaches memory.
LEMMA DrainOne ==
    ASSUME Shape, NEW h \in Harts, Drain(h), NEW o, buf[h] = <<o>>
    PROVE  buf'[h] = <<>> /\ mem' = Apply(o, mem)
<1>1. PICK i \in DOMAIN buf[h] :
         /\ mem' = Apply(buf[h][i], mem)
         /\ buf' = [buf EXCEPT ![h] = SubSeq(@, 1, i - 1) \o SubSeq(@, i + 1, Len(@))]
  BY DEF Drain
<1>2. i = 1 /\ buf[h][1] = o /\ Len(buf[h]) = 1
  BY <1>1
<1>3. buf'[h] = SubSeq(buf[h], 1, i - 1) \o SubSeq(buf[h], i + 1, Len(buf[h]))
  BY <1>1 DEF Shape, Indexed
<1>4. SubSeq(<<o>>, 1, 0) = <<>> /\ SubSeq(<<o>>, 2, 1) = <<>> /\ <<>> \o <<>> = <<>>
  OBVIOUS
<1>5. buf'[h] = <<>>
  BY <1>2, <1>3, <1>4
<1> QED
  BY <1>1, <1>2, <1>5

\* A store that reaches memory.
LEMMA ApplySt ==
    ASSUME Shape, NEW l \in Locs, NEW v
    PROVE  /\ Apply(St(l, v), mem)[l] = v
           /\ \A k \in Locs \ {l} : Apply(St(l, v), mem)[k] = mem[k]
BY DEF Apply, St, Shape, Indexed

\* Values taken early are those of memory until memory changes.
LEMMA FreshKept ==
    ASSUME Shape, [Runs]_vars, NEW h \in Harts, NEW l, Fresh(h, l), mem'[l] = mem[l]
    PROVE  Fresh(h, l)'
<1>0. SUFFICES ASSUME NEW e \in early'[h], e[1] = l PROVE e \in early[h] \/ e = <<l, mem[l]>>
  BY DEF Fresh
<1>1. CASE early' = early
  BY <1>0, <1>1
<1>2. ASSUME NEW g \in Harts, Prefetch(g) PROVE e \in early[h] \/ e = <<l, mem[l]>>
  <2>1. PICK k \in Ahead(g) : early' = [early EXCEPT ![g] = @ \cup {<<k, mem[k]>>}]
    BY <1>2 DEF Prefetch
  <2>2. early'[h] = early[h] \/ early'[h] = early[h] \cup {<<k, mem[k]>>}
    BY <2>1 DEF Shape, Indexed
  <2> QED
    BY <1>0, <2>2
<1>3. ASSUME NEW g \in Harts, Issue(g) \/ Load(g) PROVE e \in early[h]
  <2>1. early' = [early EXCEPT ![g] = {x \in @ : x[1] # Op(g).loc}]
    BY <1>3 DEF Issue, Load, NotEarly
  <2> QED
    BY <1>0, <2>1 DEF Shape, Indexed
<1>4. ASSUME NEW g \in Harts, Fence(g) PROVE early' = early \/ e \in early[h]
  BY <1>0, <1>4 DEF Fence, Shape, Indexed
<1>5. ASSUME NEW g \in Harts, Atomic(g) \/ Sem(g) PROVE e \in early[h]
  <2>1. early' = [early EXCEPT ![g] = {}]
    BY <1>5 DEF Atomic, Sem
  <2> QED
    BY <1>0, <2>1 DEF Shape, Indexed
<1>6. ASSUME NEW g \in Harts, SpinWait(g) \/ LockAmo(g) \/ Drain(g) PROVE early' = early
  BY <1>6 DEF SpinWait, LockAmo, Drain
<1>7. ASSUME Join \/ UNCHANGED vars PROVE early' = early
  BY <1>7 DEF Join, vars
<1> QED
  BY <1>1, <1>2, <1>3, <1>4, <1>5, <1>6, <1>7 DEF Runs, Hart

\* Nothing taken early.
LEMMA FreshEmpty == ASSUME NEW h, NEW l, early[h] = {} PROVE Fresh(h, l)
BY DEF Fresh

\* Bodies of 1, 4 and 6 operations, round by round.
LEMMA Repeat1 ==
    ASSUME NEW a
    PROVE  /\ Repeat(<<a>>) \in Seq({a}) /\ Len(Repeat(<<a>>)) = Rounds
           /\ \A i \in 1 .. Rounds : Repeat(<<a>>)[i] = a
<1> DEFINE body == <<a>>
<1>1. body \in Seq({a}) /\ Len(body) = 1 /\ body[1] = a
  OBVIOUS
<1> HIDE DEF body
<1>2. /\ Repeat(body) \in Seq({a}) /\ Len(Repeat(body)) = Rounds * 1
      /\ \A i \in 1 .. Rounds * 1 : Repeat(body)[i] = body[((i - 1) % 1) + 1]
  <2>1. Len(body) > 0
    BY <1>1
  <2>2. /\ Repeat(body) \in Seq({a}) /\ Len(Repeat(body)) = Rounds * Len(body)
        /\ \A i \in 1 .. Rounds * Len(body) : Repeat(body)[i] = body[((i - 1) % Len(body)) + 1]
    BY <1>1, <2>1, RepeatAt
  <2> QED
    BY <1>1, <2>2
<1>3. \A i \in 1 .. Rounds : ((i - 1) % 1) + 1 = 1
  BY RoundsAssumption
<1>4. /\ Repeat(body) \in Seq({a}) /\ Len(Repeat(body)) = Rounds
      /\ \A i \in 1 .. Rounds : Repeat(body)[i] = a
  BY <1>1, <1>2, <1>3, RoundsAssumption
<1> QED
  BY <1>4 DEF body

\* A body of 4 operations: operation j of round k.
LEMMA Repeat4 ==
    ASSUME NEW S, NEW body \in Seq(S), Len(body) = 4
    PROVE  /\ Repeat(body) \in Seq(S) /\ Len(Repeat(body)) = 4 * Rounds
           /\ \A k \in 0 .. Rounds - 1, j \in 1 .. 4 : Repeat(body)[4 * k + j] = body[j]
<1>1. /\ Repeat(body) \in Seq(S) /\ Len(Repeat(body)) = Rounds * 4
      /\ \A i \in 1 .. Rounds * 4 : Repeat(body)[i] = body[((i - 1) % 4) + 1]
  <2>1. Len(body) > 0
    OBVIOUS
  <2>2. /\ Repeat(body) \in Seq(S) /\ Len(Repeat(body)) = Rounds * Len(body)
        /\ \A i \in 1 .. Rounds * Len(body) : Repeat(body)[i] = body[((i - 1) % Len(body)) + 1]
    BY <2>1, RepeatAt
  <2> QED
    BY <2>2
<1>2. ASSUME NEW k \in 0 .. Rounds - 1, NEW j \in 1 .. 4
      PROVE  4 * k + j \in 1 .. Rounds * 4 /\ (((4 * k + j) - 1) % 4) + 1 = j
  BY RoundsAssumption
<1> QED
  BY <1>1, <1>2, RoundsAssumption

\* A body of 6 operations.
LEMMA Repeat6 ==
    ASSUME NEW S, NEW body \in Seq(S), Len(body) = 6
    PROVE  /\ Repeat(body) \in Seq(S) /\ Len(Repeat(body)) = 6 * Rounds
           /\ \A k \in 0 .. Rounds - 1, j \in 1 .. 6 : Repeat(body)[6 * k + j] = body[j]
<1>1. /\ Repeat(body) \in Seq(S) /\ Len(Repeat(body)) = Rounds * 6
      /\ \A i \in 1 .. Rounds * 6 : Repeat(body)[i] = body[((i - 1) % 6) + 1]
  <2>1. Len(body) > 0
    OBVIOUS
  <2>2. /\ Repeat(body) \in Seq(S) /\ Len(Repeat(body)) = Rounds * Len(body)
        /\ \A i \in 1 .. Rounds * Len(body) : Repeat(body)[i] = body[((i - 1) % Len(body)) + 1]
    BY <2>1, RepeatAt
  <2> QED
    BY <2>2
<1>2. ASSUME NEW k \in 0 .. Rounds - 1, NEW j \in 1 .. 6
      PROVE  6 * k + j \in 1 .. Rounds * 6 /\ (((6 * k + j) - 1) % 6) + 1 = j
  BY RoundsAssumption
<1> QED
  BY <1>1, <1>2, RoundsAssumption

-----------------------------------------------------------------------------
\* No hart counted a bad word and no assertion failed.
Clean == ~failed /\ \A h \in Harts : bad[h] = 0

\* A step that changes none of this moves no test on.
Idle == pc' = pc /\ mem' = mem /\ buf' = buf /\ reg' = reg

\* Every step is one of a hart, one of a buffer, or idle.
LEMMA StepCases ==
    ASSUME Clean, [Runs]_vars, 
           Over => \A f \in Test(test).final : mem[f[1]] = f[2]
    PROVE  \/ \E h \in Harts : Hart(h) \/ Drain(h)
           \/ Idle /\ Clean'
<1>1. CASE UNCHANGED vars
  BY <1>1 DEF vars, Idle, Clean
<1>2. CASE Join
  BY <1>2 DEF Join, Idle, Clean
<1>3. ASSUME NEW h \in Harts, Prefetch(h) PROVE Idle /\ Clean'
  BY <1>3 DEF Prefetch, Idle, Clean
<1> QED
  BY <1>1, <1>2, <1>3 DEF Runs

\* A calm step keeps the run clean.
LEMMA CalmClean == ASSUME Clean, Calm PROVE Clean'
BY DEF Clean, Calm

\* The tests without assertions after the join.
LEMMA NoFinal ==
    ASSUME NEW p, NEW q, Test(test) = Pair(p, q, {})
    PROVE  \A f \in Test(test).final : mem[f[1]] = f[2]
BY ProgOf

\* One location changes.
LEMMA MemAt ==
    ASSUME Shape, NEW l \in Locs, NEW v, mem' = [mem EXCEPT ![l] = v]
    PROVE  mem'[l] = v /\ \A k \in Locs \ {l} : mem'[k] = mem[k]
BY DEF Shape, Indexed

\* Where hart h is, and what the other hart g keeps.
LEMMA HartFrame ==
    ASSUME Shape, NEW h \in Harts, NEW g \in Harts, g # h, Hart(h)
    PROVE  /\ pc[h] <= Len(Prog(h)) /\ Op(h) = Prog(h)[pc[h]] /\ pc'[h] = pc[h] + 1
           /\ pc'[g] = pc[g] /\ buf'[g] = buf[g] /\ reg'[g] = reg[g]
BY Executed, HartMoves DEF Op, Moves

\* The two harts.
LEMMA TwoHarts ==
    ASSUME NEW h \in Harts
    PROVE  1 - h \in Harts /\ 1 - h # h /\ Harts = {h, 1 - h} /\ 1 - (1 - h) = h
BY DEF Harts

-----------------------------------------------------------------------------
(***************************************************************************)
(* test_spinlock_mutual_exclusion: h is about to enter, or inside; the     *)
(* other hart is before its k_spin_lock.  They have done i and j rounds.   *)
(***************************************************************************)
Outside(h, i) == pc[h] = 4 * i + 1 /\ buf[h] = <<>>
\* In round i with the lock; the counter was c.
Inside(h, i, c) ==
    \/ /\ pc[h] = 4 * i + 2 /\ buf[h] = <<>>
       /\ mem["locked_counter"] = c /\ Fresh(h, "locked_counter")
    \/ /\ pc[h] = 4 * i + 3 /\ buf[h] = <<>>
       /\ mem["locked_counter"] = c /\ reg[h] = c
    \/ /\ pc[h] = 4 * i + 4 /\ buf[h] = <<St("locked_counter", c + 1)>>
       /\ mem["locked_counter"] = c
    \/ /\ pc[h] = 4 * i + 4 /\ buf[h] = <<>> /\ mem["locked_counter"] = c + 1

\* One hart may be inside; both have done i and j rounds.
Exclusion(h, i, j) ==
    /\ Outside(1 - h, j)
    /\ \/ mem["counter_lock"] = 0 /\ Outside(h, i) /\ mem["locked_counter"] = i + j
       \/ mem["counter_lock"] = 1 /\ i < Rounds /\ Inside(h, i, i + j)
ZSpinlockInv == \E h \in Harts, i, j \in 0 .. Rounds : Exclusion(h, i, j)

\* spinlock_inc_entry, place by place.
LEMMA ZSpinlockOps ==
    ASSUME test = "Z_spinlock", NEW h \in Harts
    PROVE  /\ Len(Prog(h)) = 4 * Rounds
           /\ Test(test).final = {<<"locked_counter", 2 * Rounds>>}
           /\ \A k \in 0 .. Rounds - 1 :
                 /\ Prog(h)[4 * k + 1] = SpinLock("counter_lock")
                 /\ Prog(h)[4 * k + 2] = Ld("locked_counter")
                 /\ Prog(h)[4 * k + 3] = StInc("locked_counter")
                 /\ Prog(h)[4 * k + 4] = AtomicSet("counter_lock", 0)
<1> DEFINE b == <<SpinLock("counter_lock"), Ld("locked_counter"), StInc("locked_counter"),
                  AtomicSet("counter_lock", 0)>>
           S == {SpinLock("counter_lock"), Ld("locked_counter"), StInc("locked_counter"),
                 AtomicSet("counter_lock", 0)}
<1>1. Prog(h) = Repeat(b) /\ Test(test).final = {<<"locked_counter", 2 * Rounds>>}
  <2>1. Test(test) = Pair(spinlock_inc_entry, spinlock_inc_entry,
                          {<<"locked_counter", 2 * Rounds>>})
    BY Programs DEF test_spinlock_mutual_exclusion
  <2>2. /\ Prog(0) = spinlock_inc_entry /\ Prog(1) = spinlock_inc_entry
        /\ Test(test).final = {<<"locked_counter", 2 * Rounds>>}
    BY <2>1, ProgOf
  <2> QED
    BY <2>2 DEF spinlock_inc_entry, Harts
<1>2. /\ b \in Seq(S) /\ Len(b) = 4 /\ b[1] = SpinLock("counter_lock")
      /\ b[2] = Ld("locked_counter") /\ b[3] = StInc("locked_counter")
      /\ b[4] = AtomicSet("counter_lock", 0)
  OBVIOUS
<1> HIDE DEF b, S
<1>3. /\ Len(Repeat(b)) = 4 * Rounds
      /\ \A k \in 0 .. Rounds - 1, j \in 1 .. 4 : Repeat(b)[4 * k + j] = b[j]
  BY <1>2, Repeat4
<1>4. ASSUME NEW k \in 0 .. Rounds - 1
      PROVE  /\ Prog(h)[4 * k + 1] = b[1] /\ Prog(h)[4 * k + 2] = b[2]
             /\ Prog(h)[4 * k + 3] = b[3] /\ Prog(h)[4 * k + 4] = b[4]
  <2>1. \A j \in 1 .. 4 : Repeat(b)[4 * k + j] = b[j]
    BY <1>3
  <2> QED
    BY <1>1, <2>1
<1>5. Len(Prog(h)) = 4 * Rounds
  BY <1>1, <1>3
<1> QED
  BY <1>1, <1>2, <1>4, <1>5

\* The hart that takes, holds or returns the lock goes on.
LEMMA ZSpinlockHart ==
    ASSUME Shape, test = "Z_spinlock", NEW h \in Harts, NEW i \in 0 .. Rounds,
           NEW j \in 0 .. Rounds, Exclusion(h, i, j), Hart(h)
    PROVE  ZSpinlockInv' /\ Calm
<1>0. /\ 1 - h \in Harts /\ 1 - h # h /\ Rounds \in Nat \ {0}
      /\ "locked_counter" \in Locs /\ "counter_lock" \in Locs
  BY TwoHarts, RoundsAssumption DEF Locs
<1>1. pc[h] <= 4 * Rounds /\ Op(h) = Prog(h)[pc[h]]
  BY Executed, ZSpinlockOps DEF Op
<1>2. i \in 0 .. Rounds - 1
  BY <1>0, <1>1 DEF Exclusion, Outside, Inside
<1>3. /\ Prog(h)[4 * i + 1] = SpinLock("counter_lock")
      /\ Prog(h)[4 * i + 2] = Ld("locked_counter")
      /\ Prog(h)[4 * i + 3] = StInc("locked_counter")
      /\ Prog(h)[4 * i + 4] = AtomicSet("counter_lock", 0)
  BY <1>2, ZSpinlockOps
<1>4. /\ pc'[h] = pc[h] + 1 /\ pc'[1 - h] = pc[1 - h] /\ buf'[1 - h] = buf[1 - h]
  BY <1>0, HartMoves DEF Moves
<1>5. Outside(1 - h, j)'
  BY <1>4 DEF Exclusion, Outside
<1>6. SUFFICES Calm /\ (Exclusion(h, i, j)' \/ Exclusion(h, i + 1, j)')
  <2>1. i + 1 \in 0 .. Rounds
    BY <1>0, <1>2
  <2> QED
    BY <1>6, <2>1 DEF ZSpinlockInv
<1>7. CASE pc[h] = 4 * i + 1
  <2>1. Op(h) = SpinLock("counter_lock")
    BY <1>1, <1>3, <1>7
  <2>2. /\ buf[h] = <<>> /\ early'[h] = {} /\ buf' = buf /\ Calm
        /\ mem["counter_lock"] = 0 /\ mem' = [mem EXCEPT !["counter_lock"] = 1]
    BY <2>1, DoSpinLock
  <2>3. mem'["counter_lock"] = 1 /\ mem'["locked_counter"] = mem["locked_counter"]
    BY <1>0, <2>2, MemAt
  <2>4. mem["locked_counter"] = i + j
    BY <2>2 DEF Exclusion
  <2>5. Fresh(h, "locked_counter")'
    BY <2>2 DEF Fresh
  <2>6. Inside(h, i, i + j)'
    BY <1>2, <1>4, <1>7, <2>2, <2>3, <2>4, <2>5 DEF Inside
  <2> QED
    BY <1>0, <1>2, <1>5, <2>2, <2>3, <2>6 DEF Exclusion
<1>8. CASE pc[h] = 4 * i + 2
  <2>1. Op(h) = Ld("locked_counter") /\ buf[h] = <<>> /\ mem["counter_lock"] = 1
        /\ mem["locked_counter"] = i + j /\ Fresh(h, "locked_counter")
    BY <1>1, <1>3, <1>8 DEF Exclusion, Inside, Outside
  <2>2. mem' = mem /\ buf' = buf /\ reg'[h] = mem["locked_counter"] /\ Calm
    BY <2>1, DoLd
  <2> QED
    BY <1>2, <1>4, <1>5, <1>8, <2>1, <2>2 DEF Exclusion, Inside
<1>9. CASE pc[h] = 4 * i + 3
  <2>1. Op(h) = StInc("locked_counter") /\ buf[h] = <<>> /\ mem["counter_lock"] = 1
        /\ mem["locked_counter"] = i + j /\ reg[h] = i + j
    BY <1>1, <1>3, <1>9 DEF Exclusion, Inside, Outside
  <2>2. mem' = mem /\ buf'[h] = Append(buf[h], St("locked_counter", reg[h] + 1)) /\ Calm
    BY <2>1, DoStInc
  <2>3. buf'[h] = <<St("locked_counter", (i + j) + 1)>>
    BY <2>1, <2>2
  <2> QED
    BY <1>2, <1>4, <1>5, <1>9, <2>1, <2>2, <2>3 DEF Exclusion, Inside
<1>10. CASE pc[h] = 4 * i + 4
  <2>1. Op(h) = AtomicSet("counter_lock", 0)
    BY <1>1, <1>3, <1>10
  <2>2. buf[h] = <<>> /\ buf' = buf /\ Calm /\ mem' = [mem EXCEPT !["counter_lock"] = 0]
    BY <2>1, DoAtomicSet
  <2>3. mem["locked_counter"] = (i + j) + 1
    BY <1>10, <2>2 DEF Exclusion, Inside, Outside
  <2>4. mem'["counter_lock"] = 0 /\ mem'["locked_counter"] = mem["locked_counter"]
    BY <1>0, <2>2, MemAt
  <2>5. Outside(h, i + 1)'
    BY <1>2, <1>4, <1>10, <2>2 DEF Outside
  <2> QED
    BY <1>2, <1>5, <2>2, <2>3, <2>4, <2>5 DEF Exclusion
<1> QED
  BY <1>7, <1>8, <1>9, <1>10 DEF Exclusion, Outside, Inside

\* test_spinlock_mutual_exclusion: no increment is lost.
LEMMA ZSpinlockStep ==
    ASSUME Shape, Clean, test = "Z_spinlock", ZSpinlockInv, [Runs]_vars
    PROVE  ZSpinlockInv' /\ Clean'
<1>1. PICK h \in Harts, i \in 0 .. Rounds, j \in 0 .. Rounds : Exclusion(h, i, j)
  BY DEF ZSpinlockInv
<1>0. /\ 1 - h \in Harts /\ 1 - h # h /\ Harts = {h, 1 - h} /\ 1 - (1 - h) = h
      /\ Rounds \in Nat \ {0} /\ "locked_counter" \in Locs /\ "counter_lock" \in Locs
  BY TwoHarts, RoundsAssumption DEF Locs
<1>2. Over => \A f \in Test(test).final : mem[f[1]] = f[2]
  <2> SUFFICES ASSUME Over PROVE mem["locked_counter"] = 2 * Rounds
    BY ZSpinlockOps DEF Harts
  <2>1. pc[h] > 4 * Rounds /\ pc[1 - h] > 4 * Rounds
    BY <1>0, ZSpinlockOps DEF Over
  <2> QED
    BY <1>0, <1>1, <2>1 DEF Exclusion, Outside, Inside
<1>3. CASE Idle /\ Clean'
  <2>1. Fresh(h, "locked_counter") => Fresh(h, "locked_counter")'
    BY <1>3, FreshKept DEF Idle
  <2>2. Exclusion(h, i, j)'
    BY <1>1, <1>3, <2>1 DEF Idle, Exclusion, Inside, Outside
  <2> QED
    BY <1>3, <2>2 DEF ZSpinlockInv
<1>4. CASE Hart(h)
  BY <1>1, <1>4, ZSpinlockHart, CalmClean
<1>5. CASE Hart(1 - h)
  <2>1. pc[1 - h] <= 4 * Rounds /\ Op(1 - h) = Prog(1 - h)[pc[1 - h]] /\ pc[1 - h] = 4 * j + 1
    BY <1>0, <1>1, <1>5, Executed, ZSpinlockOps DEF Op, Exclusion, Outside
  <2>2. Op(1 - h) = SpinLock("counter_lock")
    BY <1>0, <2>1, ZSpinlockOps
  <2>3. mem["counter_lock"] = 0
    BY <1>0, <1>5, <2>2, DoSpinLock
  <2>4. Exclusion(1 - h, j, i)
    BY <1>0, <1>1, <2>3 DEF Exclusion, Outside
  <2> QED
    BY <1>0, <1>5, <2>4, ZSpinlockHart, CalmClean
<1>6. CASE Drain(h)
  <2>1. /\ pc' = pc /\ Calm /\ buf[h] # <<>> /\ buf'[1 - h] = buf[1 - h]
    BY <1>0, <1>6, DrainFrame
  <2>2. /\ mem["counter_lock"] = 1 /\ i < Rounds
        /\ pc[h] = 4 * i + 4 /\ buf[h] = <<St("locked_counter", (i + j) + 1)>>
    BY <1>1, <2>1 DEF Exclusion, Outside, Inside
  <2>3. buf'[h] = <<>> /\ mem' = Apply(St("locked_counter", (i + j) + 1), mem)
    BY <1>6, <2>2, DrainOne
  <2>4. mem'["locked_counter"] = (i + j) + 1 /\ mem'["counter_lock"] = 1
    BY <1>0, <2>2, <2>3, ApplySt
  <2>5. Exclusion(h, i, j)'
    BY <1>1, <2>1, <2>2, <2>3, <2>4 DEF Exclusion, Inside, Outside
  <2> QED
    BY <2>1, <2>5, CalmClean DEF ZSpinlockInv
<1>7. CASE Drain(1 - h)
  BY <1>0, <1>1, <1>7, DrainFrame DEF Exclusion, Outside
<1> QED
  BY <1>0, <1>2, <1>3, <1>4, <1>5, <1>6, <1>7, StepCases

-----------------------------------------------------------------------------
(***************************************************************************)
(* test_thread_runs_on_second_cpu.                                         *)
(***************************************************************************)
SecondCpuInv ==
    /\ pc[0] = 1 /\ buf[0] = <<>>
    /\ \/ pc[1] = 1 /\ buf[1] = <<>>
       \/ pc[1] = 2 /\ buf[1] = <<St("observed_cpu", 1)>>
       \/ pc[1] = 2 /\ buf[1] = <<>> /\ mem["observed_cpu"] = 1

\* The test thread sees the CPU that the pinned thread recorded.
LEMMA SecondCpuStep ==
    ASSUME Shape, Clean, test = "Z_second_cpu", SecondCpuInv, [Runs]_vars
    PROVE  SecondCpuInv' /\ Clean'
<1>0. /\ Len(Prog(0)) = 0 /\ Len(Prog(1)) = 1 /\ Prog(1)[1] = St("observed_cpu", 1)
      /\ Test(test).final = {<<"observed_cpu", 1>>}
  <2>1. Test(test) = Pair(<<>>, <<St("observed_cpu", 1)>>, {<<"observed_cpu", 1>>})
    BY Programs DEF test_thread_runs_on_second_cpu, record_cpu_entry
  <2>2. /\ Prog(0) = <<>> /\ Prog(1) = <<St("observed_cpu", 1)>>
        /\ Test(test).final = {<<"observed_cpu", 1>>}
    BY <2>1, ProgOf
  <2> QED
    BY <2>2
<1>1. 0 \in Harts /\ 1 \in Harts /\ Harts = {0, 1} /\ "observed_cpu" \in Locs
  BY DEF Harts, Locs
<1>2. Over => \A f \in Test(test).final : mem[f[1]] = f[2]
  BY <1>0, <1>1 DEF Over, Drained, SecondCpuInv
<1>3. CASE Idle /\ Clean'
  BY <1>3 DEF Idle, SecondCpuInv
<1>4. CASE Hart(0)
  BY <1>0, <1>1, <1>4, Executed DEF SecondCpuInv
<1>5. CASE Hart(1)
  <2>1. pc[1] = 1 /\ buf[1] = <<>> /\ Op(1) = St("observed_cpu", 1)
    BY <1>0, <1>1, <1>5, Executed DEF SecondCpuInv, Op
  <2>2. /\ buf'[1] = Append(buf[1], St("observed_cpu", 1)) /\ Calm
        /\ pc'[1] = 2 /\ pc'[0] = 1 /\ buf'[0] = <<>>
    BY <1>1, <1>5, <2>1, DoSt, HartMoves DEF Moves, SecondCpuInv
  <2>3. buf'[1] = <<St("observed_cpu", 1)>>
    BY <2>1, <2>2
  <2> QED
    BY <2>2, <2>3, CalmClean DEF SecondCpuInv
<1>6. CASE Drain(0)
  BY <1>1, <1>6, DrainFrame DEF SecondCpuInv
<1>7. CASE Drain(1)
  <2>1. pc' = pc /\ Calm /\ buf[1] # <<>> /\ buf'[0] = buf[0]
    BY <1>1, <1>7, DrainFrame
  <2>2. pc[1] = 2 /\ buf[1] = <<St("observed_cpu", 1)>>
    BY <2>1 DEF SecondCpuInv
  <2>3. buf'[1] = <<>> /\ mem' = Apply(St("observed_cpu", 1), mem)
    BY <1>1, <1>7, <2>2, DrainOne
  <2>4. mem'["observed_cpu"] = 1
    BY <1>1, <2>3, ApplySt
  <2> QED
    BY <2>1, <2>2, <2>3, <2>4, CalmClean DEF SecondCpuInv
<1> QED
  BY <1>1, <1>2, <1>3, <1>4, <1>5, <1>6, <1>7, StepCases

-----------------------------------------------------------------------------
(***************************************************************************)
(* test_atomic_increment_stress: i and j increments are done.              *)
(***************************************************************************)
Stressed(h, i, j) ==
    /\ pc[h] = i + 1 /\ pc[1 - h] = j + 1 /\ buf[h] = <<>> /\ buf[1 - h] = <<>>
    /\ mem["stress_counter"] = i + j
StressInv == \A h \in Harts : \E i, j \in 0 .. Rounds : Stressed(h, i, j)

\* No increment of either thread is lost.
LEMMA StressStep ==
    ASSUME Shape, Clean, test = "Z_stress", StressInv, [Runs]_vars
    PROVE  StressInv' /\ Clean'
<1>0. /\ \A h \in Harts : /\ Len(Prog(h)) = Rounds
                          /\ \A i \in 1 .. Rounds : Prog(h)[i] = AtomicInc("stress_counter")
      /\ Test(test).final = {<<"stress_counter", 2 * Rounds>>}
  <2>1. Test(test) = Pair(inc_entry, inc_entry, {<<"stress_counter", 2 * Rounds>>})
    BY Programs DEF test_atomic_increment_stress
  <2>2. /\ Prog(0) = inc_entry /\ Prog(1) = inc_entry
        /\ Test(test).final = {<<"stress_counter", 2 * Rounds>>}
    BY <2>1, ProgOf
  <2>3. /\ Len(inc_entry) = Rounds
        /\ \A i \in 1 .. Rounds : inc_entry[i] = AtomicInc("stress_counter")
    BY Repeat1 DEF inc_entry
  <2> QED
    BY <2>2, <2>3 DEF Harts
<1>1. Rounds \in Nat \ {0} /\ "stress_counter" \in Locs
  BY RoundsAssumption DEF Locs
<1>2. Over => \A f \in Test(test).final : mem[f[1]] = f[2]
  <2> SUFFICES ASSUME Over PROVE mem["stress_counter"] = 2 * Rounds
    BY <1>0
  <2>1. 0 \in Harts /\ 1 \in Harts /\ 1 - 0 = 1
    BY DEF Harts
  <2>2. pc[0] > Rounds /\ pc[1] > Rounds
    BY <1>0, <2>1 DEF Over
  <2> QED
    BY <1>1, <2>1, <2>2 DEF StressInv, Stressed
<1>3. CASE Idle /\ Clean'
  BY <1>3 DEF Idle, StressInv, Stressed
<1>4. ASSUME NEW x \in Harts, Hart(x) PROVE StressInv' /\ Clean'
  <2>0. 1 - x \in Harts /\ 1 - x # x /\ Harts = {x, 1 - x} /\ 1 - (1 - x) = x
    BY TwoHarts
  <2>1. PICK i \in 0 .. Rounds, j \in 0 .. Rounds : Stressed(x, i, j)
    BY DEF StressInv
  <2>2. i + 1 <= Rounds /\ Op(x) = AtomicInc("stress_counter")
    BY <1>0, <1>1, <1>4, <2>1, Executed DEF Stressed, Op
  <2>3. /\ buf' = buf /\ Calm /\ mem' = [mem EXCEPT !["stress_counter"] = mem["stress_counter"] + 1]
    BY <1>4, <2>2, DoAtomicInc
  <2>4. mem'["stress_counter"] = (i + j) + 1
    BY <1>1, <2>1, <2>3, MemAt DEF Stressed
  <2>5. pc'[x] = pc[x] + 1 /\ pc'[1 - x] = pc[1 - x]
    BY <1>4, <2>0, HartMoves DEF Moves
  <2>6. Stressed(x, i + 1, j)' /\ Stressed(1 - x, j, i + 1)'
    BY <2>0, <2>1, <2>3, <2>4, <2>5 DEF Stressed
  <2>7. i + 1 \in 0 .. Rounds
    BY <1>1, <2>2
  <2>8. StressInv'
    BY <2>0, <2>6, <2>7 DEF StressInv
  <2> QED
    BY <2>3, <2>8, CalmClean
<1>5. ASSUME NEW x \in Harts, Drain(x) PROVE FALSE
  BY <1>5, DrainFrame DEF StressInv, Stressed
<1> QED
  BY <1>2, <1>3, <1>4, <1>5, StepCases

-----------------------------------------------------------------------------
(***************************************************************************)
(* test_fence_producer_consumer, either way round: p is the producer.      *)
(***************************************************************************)
W1 == St("word1", 1)
W2 == St("word2", 1)
B1 == <<W1>>
B2 == <<W2>>
B12 == <<W1, W2>>
\* The words on their way, in any order.
Producing(p) ==
    \/ pc[p] = 1 /\ buf[p] = <<>>
    \/ pc[p] = 2 /\ buf[p] = B1
    \/ pc[p] = 2 /\ buf[p] = <<>> /\ mem["word1"] = 1
    \/ pc[p] = 3 /\ buf[p] = B12
    \/ pc[p] = 3 /\ buf[p] = B1 /\ mem["word2"] = 1
    \/ pc[p] = 3 /\ buf[p] = B2 /\ mem["word1"] = 1
    \/ pc[p] = 3 /\ buf[p] = <<>> /\ mem["word1"] = 1 /\ mem["word2"] = 1
Published(p) ==
    /\ pc[p] = 4 /\ buf[p] = <<>> /\ mem["publish_flag"] = 1
    /\ mem["word1"] = 1 /\ mem["word2"] = 1
\* After the flag the consumer holds no stale word.
Consuming(c) ==
    /\ pc[c] \in 1 .. 4 /\ buf[c] = <<>>
    /\ pc[c] # 1 => Fresh(c, "word1") /\ Fresh(c, "word2")

FenceInv(p) ==
    /\ Consuming(1 - p)
    /\ \/ Producing(p) /\ pc[1 - p] = 1 /\ mem["publish_flag"] = 0
       \/ Published(p)

\* A second entry.
LEMMA AppendSecond == ASSUME NEW a, NEW b PROVE Append(<<a>>, b) = <<a, b>>
<1> DEFINE s == Append(<<a>>, b)
<1>1. s \in Seq({a, b}) /\ Len(s) = 2 /\ s[1] = a /\ s[2] = b
  OBVIOUS
<1>2. s = <<a, b>>
  <2> HIDE DEF s
  <2> QED
    BY <1>1
<1> QED
  BY <1>2

\* One entry of a buffer of two.
LEMMA OneOfTwo ==
    ASSUME NEW a, NEW b
    PROVE  SubSeq(<<a, b>>, 1, 1) = <<a>> /\ SubSeq(<<a, b>>, 2, 2) = <<b>>
<1> DEFINE s == <<a, b>>
           p == SubSeq(s, 1, 1)
           q == SubSeq(s, 2, 2)
<1>1. s \in Seq({a, b}) /\ Len(s) = 2
  OBVIOUS
<1>2. /\ p \in Seq({a, b}) /\ Len(p) = 1 /\ p[1] = a
      /\ q \in Seq({a, b}) /\ Len(q) = 1 /\ q[1] = b
  BY <1>1
<1>3. p = <<a>> /\ q = <<b>>
  <2> HIDE DEF p, q
  <2> QED
    BY <1>2
<1> QED
  BY <1>3

\* Two entries for different locations drain in either order.
LEMMA DrainTwo ==
    ASSUME Shape, NEW h \in Harts, Drain(h), NEW a, NEW b, buf[h] = <<a, b>>
    PROVE  \/ buf'[h] = <<b>> /\ mem' = Apply(a, mem)
           \/ buf'[h] = <<a>> /\ mem' = Apply(b, mem)
<1>1. PICK i \in DOMAIN buf[h] :
         /\ mem' = Apply(buf[h][i], mem)
         /\ buf' = [buf EXCEPT ![h] = SubSeq(@, 1, i - 1) \o SubSeq(@, i + 1, Len(@))]
  BY DEF Drain
<1>2. i \in {1, 2} /\ buf[h][1] = a /\ buf[h][2] = b /\ Len(buf[h]) = 2
  BY <1>1
<1>3. buf'[h] = SubSeq(buf[h], 1, i - 1) \o SubSeq(buf[h], i + 1, Len(buf[h]))
  BY <1>1 DEF Shape, Indexed
<1>4. SubSeq(<<a, b>>, 1, 0) \o SubSeq(<<a, b>>, 2, 2) = <<b>>
  <2>1. SubSeq(<<a, b>>, 1, 0) = <<>> /\ SubSeq(<<a, b>>, 2, 2) = <<b>>
    BY OneOfTwo
  <2>2. <<>> \o <<b>> = <<b>>
    OBVIOUS
  <2> QED
    BY <2>1, <2>2
<1>5. SubSeq(<<a, b>>, 1, 1) \o SubSeq(<<a, b>>, 3, 2) = <<a>>
  <2>1. SubSeq(<<a, b>>, 1, 1) = <<a>> /\ SubSeq(<<a, b>>, 3, 2) = <<>>
    BY OneOfTwo
  <2>2. <<a>> \o <<>> = <<a>>
    OBVIOUS
  <2> QED
    BY <2>1, <2>2
<1>6. CASE i = 1
  BY <1>1, <1>2, <1>3, <1>4, <1>6
<1>7. CASE i = 2
  BY <1>1, <1>2, <1>3, <1>5, <1>7
<1> QED
  BY <1>2, <1>6, <1>7

\* The consumer reads no word before it is published.
LEMMA FenceStep ==
    ASSUME Shape, Clean, NEW p \in Harts, Prog(p) = producer_entry,
           Prog(1 - p) = consumer_entry, Test(test).final = {}, FenceInv(p), [Runs]_vars
    PROVE  FenceInv(p)' /\ Clean'
<1> DEFINE c == 1 - p
<1>0. /\ c \in Harts /\ c # p /\ Harts = {p, c}
      /\ "word1" \in Locs /\ "word2" \in Locs /\ "publish_flag" \in Locs
  BY TwoHarts DEF Locs
<1>1. /\ Len(Prog(p)) = 3 /\ Prog(p)[1] = W1 /\ Prog(p)[2] = W2
      /\ Prog(p)[3] = AtomicSet("publish_flag", 1)
      /\ Len(Prog(c)) = 3 /\ Prog(c)[1] = AtomicSpin("publish_flag", 1)
      /\ Prog(c)[2] = Count("word1", 1) /\ Prog(c)[3] = Count("word2", 1)
  BY DEF producer_entry, consumer_entry, W1, W2
<1>b. B1 # <<>> /\ B2 # <<>> /\ B12 # <<>> /\ B1 # B2 /\ B1 # B12 /\ B2 # B12
  <2>1. W1 # W2
    BY DEF W1, W2, St
  <2> QED
    BY <2>1 DEF B1, B2, B12
<1>2. ASSUME mem'["word1"] = mem["word1"], mem'["word2"] = mem["word2"],
             pc'[c] = pc[c], buf'[c] = buf[c]
      PROVE  Consuming(c)'
  <2>1. /\ Fresh(c, "word1") => Fresh(c, "word1")'
        /\ Fresh(c, "word2") => Fresh(c, "word2")'
    BY <1>0, <1>2, FreshKept
  <2> QED
    BY <1>2, <2>1 DEF FenceInv, Consuming
<1>3. CASE Idle /\ Clean'
  <2>1. Consuming(c)'
    BY <1>2, <1>3 DEF Idle
  <2> QED
    BY <1>3, <2>1 DEF Idle, FenceInv, Producing, Published
<1>4. CASE Hart(p)
  <2>0. /\ pc[p] <= 3 /\ Op(p) = Prog(p)[pc[p]] /\ pc'[p] = pc[p] + 1 /\ pc'[c] = pc[c]
        /\ buf'[c] = buf[c]
    BY <1>0, <1>1, <1>4, Executed, HartMoves DEF Moves, Op
  <2>1. Producing(p) /\ pc[c] = 1 /\ mem["publish_flag"] = 0
    BY <2>0 DEF FenceInv, Published
  <2>2. CASE pc[p] = 1
    <3>1. mem' = mem /\ buf'[p] = Append(buf[p], W1) /\ Calm
      BY <1>1, <1>4, <2>0, <2>2, DoSt DEF W1
    <3>2. buf'[p] = B1
      <4>1. buf[p] = <<>>
        BY <2>1, <2>2 DEF Producing
      <4> QED
        BY <3>1, <4>1 DEF B1, B2, B12
    <3>3. Consuming(c)'
      BY <1>2, <2>0, <3>1
    <3> QED
      BY <2>0, <2>1, <2>2, <3>1, <3>2, <3>3, CalmClean DEF FenceInv, Producing
  <2>3. CASE pc[p] = 2
    <3>1. mem' = mem /\ buf'[p] = Append(buf[p], W2) /\ Calm
      BY <1>1, <1>4, <2>0, <2>3, DoSt DEF W2
    <3>2. buf'[p] = B12 \/ (buf'[p] = B2 /\ mem["word1"] = 1)
      <4>1. buf[p] = B1 \/ (buf[p] = <<>> /\ mem["word1"] = 1)
        BY <2>1, <2>3 DEF Producing
      <4>2. Append(B1, W2) = B12
        BY AppendSecond DEF B1, B12
      <4>3. Append(<<>>, W2) = B2
        BY DEF B2
      <4> QED
        BY <3>1, <4>1, <4>2, <4>3
    <3>3. Consuming(c)'
      BY <1>2, <2>0, <3>1
    <3> QED
      BY <2>0, <2>1, <2>3, <3>1, <3>2, <3>3, CalmClean DEF FenceInv, Producing
  <2>4. CASE pc[p] = 3
    <3>1. buf[p] = <<>> /\ buf' = buf /\ Calm /\ mem' = [mem EXCEPT !["publish_flag"] = 1]
      BY <1>1, <1>4, <2>0, <2>4, DoAtomicSet
    <3>2. mem["word1"] = 1 /\ mem["word2"] = 1
      BY <1>b, <2>1, <2>4, <3>1 DEF Producing
    <3>3. /\ mem'["publish_flag"] = 1 /\ mem'["word1"] = mem["word1"]
          /\ mem'["word2"] = mem["word2"]
      BY <1>0, <3>1, MemAt
    <3>4. Consuming(c)'
      BY <1>2, <2>0, <3>3
    <3>5. Published(p)'
      BY <2>0, <2>4, <3>1, <3>2, <3>3 DEF Published
    <3> QED
      BY <3>1, <3>4, <3>5, CalmClean DEF FenceInv
  <2> QED
    BY <2>0, <2>1, <2>2, <2>3, <2>4 DEF Producing
<1>5. CASE Hart(c)
  <2>0. /\ pc[c] \in 1 .. 3 /\ Op(c) = Prog(c)[pc[c]] /\ pc'[c] = pc[c] + 1 /\ pc'[p] = pc[p]
        /\ buf'[p] = buf[p]
    BY <1>0, <1>1, <1>5, Executed, HartMoves DEF Moves, Op, FenceInv, Consuming
  <2>1. CASE pc[c] = 1
    <3>1. buf' = buf /\ early'[c] = {} /\ Calm /\ mem["publish_flag"] = 1 /\ mem' = mem
      BY <1>0, <1>1, <1>5, <2>0, <2>1, DoAtomicSpin
    <3>2. Published(p)'
      BY <2>0, <3>1 DEF FenceInv, Published
    <3>3. Fresh(c, "word1")' /\ Fresh(c, "word2")'
      BY <3>1 DEF Fresh
    <3>4. Consuming(c)'
      BY <2>0, <2>1, <3>1, <3>3 DEF FenceInv, Consuming
    <3> QED
      BY <3>1, <3>2, <3>4, CalmClean DEF FenceInv
  <2>2. CASE pc[c] # 1
    <3>1. Published(p) /\ Fresh(c, "word1") /\ Fresh(c, "word2")
      BY <2>2 DEF FenceInv, Consuming
    <3>2. Op(c) = Count("word1", 1) \/ Op(c) = Count("word2", 1)
      BY <1>1, <2>0, <2>2
    <3>3. mem' = mem /\ buf' = buf /\ Calm
      BY <1>0, <1>5, <3>1, <3>2, DoCount DEF Published
    <3>4. Fresh(c, "word1")' /\ Fresh(c, "word2")'
      BY <1>0, <3>1, <3>3, FreshKept
    <3>5. Consuming(c)' /\ Published(p)'
      BY <2>0, <3>1, <3>3, <3>4 DEF FenceInv, Consuming, Published
    <3> QED
      BY <3>3, <3>5, CalmClean DEF FenceInv
  <2> QED
    BY <2>1, <2>2
<1>6. CASE Drain(p)
  <2>0. pc' = pc /\ Calm /\ buf[p] # <<>> /\ buf'[c] = buf[c]
    BY <1>0, <1>6, DrainFrame
  <2>1. Producing(p) /\ pc[c] = 1 /\ mem["publish_flag"] = 0
    BY <2>0 DEF FenceInv, Published
  <2>2. Consuming(c)'
    BY <2>0, <2>1 DEF FenceInv, Consuming
  <2>3. /\ Apply(W1, mem)["word1"] = 1 /\ Apply(W1, mem)["word2"] = mem["word2"]
        /\ Apply(W1, mem)["publish_flag"] = 0
        /\ Apply(W2, mem)["word2"] = 1 /\ Apply(W2, mem)["word1"] = mem["word1"]
        /\ Apply(W2, mem)["publish_flag"] = 0
    BY <1>0, <2>1, ApplySt DEF W1, W2
  <2>4. CASE buf[p] = B12
    <3>1. \/ buf'[p] = B2 /\ mem' = Apply(W1, mem)
          \/ buf'[p] = B1 /\ mem' = Apply(W2, mem)
      BY <1>6, <2>4, DrainTwo DEF B1, B2, B12
    <3>2. pc[p] = 3
      BY <1>b, <2>1, <2>4 DEF Producing
    <3>3. Producing(p)' /\ mem'["publish_flag"] = 0
      BY <2>0, <2>3, <3>1, <3>2 DEF Producing
    <3> QED
      BY <2>0, <2>1, <2>2, <3>3, CalmClean DEF FenceInv
  <2>5. CASE buf[p] = B1
    <3>1. buf'[p] = <<>> /\ mem' = Apply(W1, mem)
      BY <1>6, <2>5, DrainOne DEF B1
    <3>2. pc[p] = 2 \/ (pc[p] = 3 /\ mem["word2"] = 1)
      BY <1>b, <2>1, <2>5 DEF Producing
    <3>3. Producing(p)' /\ mem'["publish_flag"] = 0
      BY <2>0, <2>3, <3>1, <3>2 DEF Producing
    <3> QED
      BY <2>0, <2>1, <2>2, <3>3, CalmClean DEF FenceInv
  <2>6. CASE buf[p] = B2
    <3>1. buf'[p] = <<>> /\ mem' = Apply(W2, mem)
      BY <1>6, <2>6, DrainOne DEF B2
    <3>2. pc[p] = 3 /\ mem["word1"] = 1
      BY <1>b, <2>1, <2>6 DEF Producing
    <3>3. Producing(p)' /\ mem'["publish_flag"] = 0
      BY <2>0, <2>3, <3>1, <3>2 DEF Producing
    <3> QED
      BY <2>0, <2>1, <2>2, <3>3, CalmClean DEF FenceInv
  <2> QED
    BY <2>0, <2>1, <2>4, <2>5, <2>6 DEF Producing
<1>7. CASE Drain(c)
  BY <1>0, <1>7, DrainFrame DEF FenceInv, Consuming
<1> QED
  BY <1>0, <1>3, <1>4, <1>5, <1>6, <1>7, StepCases

\* A program in two parts.
Joined(s, p, t) ==
    /\ Len(s) = Len(p) + Len(t)
    /\ \A i \in 1 .. Len(p) : s[i] = p[i]
    /\ \A i \in 1 .. Len(t) : s[Len(p) + i] = t[i]
\* The operations of two programs in sequence.
LEMMA JoinedAt ==
    ASSUME NEW S, NEW p \in Seq(S), NEW t \in Seq(S)
    PROVE  p \o t \in Seq(S) /\ Joined(p \o t, p, t)
BY DEF Joined

-----------------------------------------------------------------------------
(***************************************************************************)
(* Message passing: h stores x, fences, and stores y.                      *)
(***************************************************************************)
\* It has done k operations before that.
Sending(h, k, x, y) ==
    \/ pc[h] = k + 1 /\ buf[h] = <<>> /\ mem[y] = 0
    \/ pc[h] = k + 2 /\ buf[h] = <<St(x, 1)>> /\ mem[y] = 0
    \/ pc[h] = k + 2 /\ buf[h] = <<>> /\ mem[x] = 1 /\ mem[y] = 0
    \/ pc[h] = k + 3 /\ buf[h] = <<>> /\ mem[x] = 1 /\ mem[y] = 0
    \/ pc[h] \in Nat /\ pc[h] > k + 3 /\ buf[h] = <<St(y, 1)>> /\ mem[x] = 1
    \/ pc[h] \in Nat /\ pc[h] > k + 3 /\ buf[h] = <<>> /\ mem[x] = 1

\* The sender goes on: the flag is stored only when the payload is in memory.
LEMMA SendHart ==
    ASSUME Shape, NEW h \in Harts, NEW k \in Nat, NEW x \in Locs, NEW y \in Locs, x # y,
           pc[h] = k + 1 => mem' = mem /\ buf'[h] = Append(buf[h], St(x, 1)) /\ Calm,
           Prog(h)[k + 2] = FenceW, Prog(h)[k + 3] = St(y, 1),
           Sending(h, k, x, y), Hart(h), pc[h] <= k + 3
    PROVE  Sending(h, k, x, y)' /\ mem' = mem /\ Calm
<1>0. Op(h) = Prog(h)[pc[h]] /\ pc'[h] = pc[h] + 1
  BY HartMoves DEF Op, Moves
<1>1. CASE pc[h] = k + 1
  <2>1. mem' = mem /\ buf'[h] = Append(buf[h], St(x, 1)) /\ Calm /\ buf[h] = <<>> /\ mem[y] = 0
    BY <1>0, <1>1 DEF Sending
  <2>2. buf'[h] = <<St(x, 1)>>
    BY <2>1
  <2> QED
    BY <1>0, <1>1, <2>1, <2>2 DEF Sending
<1>2. CASE pc[h] = k + 2
  <2>1. mem' = mem /\ buf' = buf /\ Calm /\ buf[h] = <<>>
    BY <1>0, <1>2, DoFenceW
  <2> QED
    BY <1>0, <1>2, <2>1 DEF Sending
<1>3. CASE pc[h] = k + 3
  <2>1. /\ mem' = mem /\ buf'[h] = Append(buf[h], St(y, 1)) /\ Calm /\ buf[h] = <<>>
        /\ mem[x] = 1
    BY <1>0, <1>3, DoSt DEF Sending
  <2>2. buf'[h] = <<St(y, 1)>>
    BY <2>1
  <2> QED
    BY <1>0, <1>3, <2>1, <2>2 DEF Sending
<1> QED
  BY <1>1, <1>2, <1>3 DEF Sending

\* What the sender stored reaches memory in that order.
LEMMA SendDrain ==
    ASSUME Shape, NEW h \in Harts, NEW k \in Nat, NEW x \in Locs, NEW y \in Locs, x # y,
           Sending(h, k, x, y), Drain(h)
    PROVE  /\ Sending(h, k, x, y)' /\ Calm /\ pc' = pc
           /\ \A l \in Locs \ {x, y} : mem'[l] = mem[l]
           /\ mem[x] = 1 => mem'[x] = 1
<1>0. pc' = pc /\ Calm /\ buf[h] # <<>>
  BY DrainFrame
<1>1. CASE pc[h] = k + 2 /\ buf[h] = <<St(x, 1)>> /\ mem[y] = 0
  <2>1. buf'[h] = <<>> /\ mem' = Apply(St(x, 1), mem)
    BY <1>1, DrainOne
  <2>2. mem'[x] = 1 /\ \A l \in Locs \ {x} : mem'[l] = mem[l]
    BY <2>1, ApplySt
  <2> QED
    BY <1>0, <1>1, <2>1, <2>2 DEF Sending
<1>2. CASE pc[h] \in Nat /\ pc[h] > k + 3 /\ buf[h] = <<St(y, 1)>> /\ mem[x] = 1
  <2>1. buf'[h] = <<>> /\ mem' = Apply(St(y, 1), mem)
    BY <1>2, DrainOne
  <2>2. mem'[x] = 1 /\ \A l \in Locs \ {y} : mem'[l] = mem[l]
    BY <1>2, <2>1, ApplySt
  <2> QED
    BY <1>0, <1>2, <2>1, <2>2 DEF Sending
<1> QED
  BY <1>0, <1>1, <1>2 DEF Sending

-----------------------------------------------------------------------------
\* P4.0 on harts that keep loads in order.
NoneEarly == \A h \in Harts : early[h] = {}
\* P4.0: hart 1 sends, hart 0 waits and reads.
MagicInv ==
    /\ Sending(1, 0, "payload", "wrote")
    /\ buf[0] = <<>> /\ pc[0] \in 1 .. 3
    /\ pc[0] # 1 => mem["payload"] = 1

\* P4.0: the payload is in memory when hart 0 has seen the flag.
LEMMA MagicStep ==
    ASSUME Shape, Clean, NoneEarly, test = "P4.0", MagicInv, [Runs]_vars
    PROVE  MagicInv' /\ Clean'
<1>0. /\ Prog(0)[1] = Spin("wrote", 1) /\ Prog(0)[2] = Assert("payload", 1)
      /\ Len(Prog(0)) = 2 /\ Len(Prog(1)) = 3
      /\ Prog(1)[1] = St("payload", 1) /\ Prog(1)[2] = FenceW /\ Prog(1)[3] = St("wrote", 1)
      /\ Test(test).final = {}
  <2>1. Test(test) = Pair(P4_0, core1_magic_writer, {})
    BY Programs
  <2>2. Prog(0) = P4_0 /\ Prog(1) = core1_magic_writer /\ Test(test).final = {}
    BY <2>1, ProgOf
  <2> QED
    BY <2>2 DEF P4_0, core1_magic_writer
<1>1. /\ 0 \in Harts /\ 1 \in Harts /\ Harts = {0, 1} /\ "payload" \in Locs /\ "wrote" \in Locs
      /\ "payload" # "wrote"
  BY DEF Harts, Locs
<1>3. CASE Idle /\ Clean'
  BY <1>3 DEF Idle, MagicInv, Sending
<1>4. CASE Hart(0)
  <2>0. /\ pc[0] <= 2 /\ Op(0) = Prog(0)[pc[0]] /\ pc'[0] = pc[0] + 1
        /\ pc'[1] = pc[1] /\ buf'[1] = buf[1]
    <3>1. /\ pc[0] <= Len(Prog(0)) /\ Op(0) = Prog(0)[pc[0]] /\ pc'[0] = pc[0] + 1
          /\ pc'[1] = pc[1] /\ buf'[1] = buf[1]
      BY <1>1, <1>4, HartFrame
    <3> QED
      BY <1>0, <3>1
  <2>1. CASE pc[0] = 1
    <3>1. mem["wrote"] = 1 /\ mem' = mem /\ buf' = buf /\ Calm
      BY <1>0, <1>1, <1>4, <2>0, <2>1, DoSpin
    <3>2. mem["payload"] = 1
      BY <3>1 DEF MagicInv, Sending
    <3>3. MagicInv'
      BY <2>0, <2>1, <3>1, <3>2 DEF MagicInv, Sending
    <3> QED
      BY <3>1, <3>3, CalmClean
  <2>2. CASE pc[0] = 2
    <3>1. mem["payload"] = 1 /\ Fresh(0, "payload")
      BY <1>1, <2>2, FreshEmpty DEF MagicInv, NoneEarly
    <3>2. mem' = mem /\ buf' = buf /\ Calm
      BY <1>0, <1>1, <1>4, <2>0, <2>2, <3>1, DoAssert
    <3>3. MagicInv'
      BY <2>0, <2>2, <3>1, <3>2 DEF MagicInv, Sending
    <3> QED
      BY <3>2, <3>3, CalmClean
  <2> QED
    BY <2>0, <2>1, <2>2 DEF MagicInv
<1>5. CASE Hart(1)
  <2>1. pc[1] <= 3 /\ pc'[0] = pc[0] /\ buf'[0] = buf[0]
    <3>1. pc[1] <= Len(Prog(1)) /\ pc'[0] = pc[0] /\ buf'[0] = buf[0]
      BY <1>1, <1>5, HartFrame
    <3> QED
      BY <1>0, <3>1
  <2>4. pc[1] = 0 + 1 => mem' = mem /\ buf'[1] = Append(buf[1], St("payload", 1)) /\ Calm
    <3>1. ASSUME pc[1] = 1 PROVE Op(1) = St("payload", 1)
      BY <1>0, <3>1 DEF Op
    <3> QED
      BY <1>1, <1>5, <3>1, DoSt
  <2>5. Prog(1)[0 + 2] = FenceW /\ Prog(1)[0 + 3] = St("wrote", 1) /\ pc[1] <= 0 + 3
    BY <1>0, <2>1
  <2>2. Sending(1, 0, "payload", "wrote")' /\ mem' = mem /\ Calm
    BY <1>1, <1>5, <2>4, <2>5, SendHart DEF MagicInv
  <2>3. MagicInv'
    BY <2>1, <2>2 DEF MagicInv
  <2> QED
    BY <2>2, <2>3, CalmClean
<1>6. CASE Drain(0)
  BY <1>1, <1>6, DrainFrame DEF MagicInv
<1>7. CASE Drain(1)
  <2>1. /\ Sending(1, 0, "payload", "wrote")' /\ Calm /\ pc' = pc
        /\ mem["payload"] = 1 => mem'["payload"] = 1
    BY <1>1, <1>7, SendDrain DEF MagicInv
  <2>2. buf'[0] = buf[0]
    BY <1>1, <1>7, DrainFrame
  <2>3. MagicInv'
    BY <2>1, <2>2 DEF MagicInv
  <2> QED
    BY <2>1, <2>3, CalmClean
<1> QED
  BY <1>0, <1>1, <1>3, <1>4, <1>5, <1>6, <1>7, StepCases

-----------------------------------------------------------------------------
(***************************************************************************)
(* P4.1: c waits for the flag, fences, judges the payload, fences, and     *)
(* stores done.                                                            *)
(***************************************************************************)
\* No load of l by h is satisfied yet.
NotTaken(h, l) == \A e \in early[h] : e[1] # l

\* A location that is not ahead, or that the hart is about to store, is not read early.
LEMMA NotTakenKept ==
    ASSUME Shape, [Runs]_vars, NEW h \in Harts, NEW l, NotTaken(h, l),
           l \notin Ahead(h) \/ ~Settled(h, l)
    PROVE  NotTaken(h, l)'
<1>0. SUFFICES ASSUME NEW e \in early'[h], e[1] = l PROVE e \in early[h]
  BY DEF NotTaken
<1>1. CASE early' = early
  BY <1>0, <1>1
<1>2. ASSUME NEW g \in Harts, Prefetch(g) PROVE e \in early[h]
  <2>1. PICK k \in Ahead(g) : /\ Settled(g, k)
                              /\ early' = [early EXCEPT ![g] = @ \cup {<<k, mem[k]>>}]
    BY <1>2 DEF Prefetch
  <2>2. early'[h] = early[h] \/ (g = h /\ early'[h] = early[h] \cup {<<k, mem[k]>>})
    BY <2>1 DEF Shape, Indexed
  <2> QED
    BY <1>0, <2>1, <2>2
<1>3. ASSUME NEW g \in Harts, Issue(g) \/ Load(g) PROVE e \in early[h]
  <2>1. early' = [early EXCEPT ![g] = {x \in @ : x[1] # Op(g).loc}]
    BY <1>3 DEF Issue, Load, NotEarly
  <2> QED
    BY <1>0, <2>1 DEF Shape, Indexed
<1>4. ASSUME NEW g \in Harts, Fence(g) PROVE early' = early \/ e \in early[h]
  BY <1>0, <1>4 DEF Fence, Shape, Indexed
<1>5. ASSUME NEW g \in Harts, Atomic(g) \/ Sem(g) PROVE e \in early[h]
  <2>1. early' = [early EXCEPT ![g] = {}]
    BY <1>5 DEF Atomic, Sem
  <2> QED
    BY <1>0, <2>1 DEF Shape, Indexed
<1>6. ASSUME NEW g \in Harts, SpinWait(g) \/ LockAmo(g) \/ Drain(g) PROVE early' = early
  BY <1>6 DEF SpinWait, LockAmo, Drain
<1>7. ASSUME Join \/ UNCHANGED vars PROVE early' = early
  BY <1>7 DEF Join, vars
<1> QED
  BY <1>1, <1>2, <1>3, <1>4, <1>5, <1>6, <1>7 DEF Runs, Hart

\* What was not read early is not stale.
LEMMA NotTakenFresh == ASSUME NEW h, NEW l, NotTaken(h, l) PROVE Fresh(h, l)
BY DEF NotTaken, Fresh

\* The receiver waits, fences, loads fence_expected, judges the payload and reports.
Receiving(c) ==
    \/ pc[c] = 1 /\ buf[c] = <<>> /\ mem["done"] = 0
    \/ pc[c] = 2 /\ buf[c] = <<>> /\ mem["done"] = 0
    \/ /\ pc[c] = 3 /\ buf[c] = <<>> /\ mem["done"] = 0
       /\ Fresh(c, "expected") /\ Fresh(c, "payload") /\ NotTaken(c, "ok")
    \/ /\ pc[c] = 4 /\ buf[c] = <<>> /\ mem["done"] = 0
       /\ reg[c] = 1 /\ Fresh(c, "payload") /\ NotTaken(c, "ok")
    \/ /\ pc[c] = 5 /\ buf[c] = <<St("ok", 1)>> /\ mem["done"] = 0
       /\ NotTaken(c, "ok")
    \/ /\ pc[c] = 5 /\ buf[c] = <<>> /\ mem["done"] = 0
       /\ mem["ok"] = 1 /\ Fresh(c, "ok")
    \/ /\ pc[c] = 6 /\ buf[c] = <<>> /\ mem["done"] = 0
       /\ mem["ok"] = 1 /\ Fresh(c, "ok")
    \/ /\ pc[c] \in Nat /\ pc[c] > 6 /\ buf[c] = <<St("done", 1)>>
       /\ mem["ok"] = 1 /\ Fresh(c, "ok")
    \/ /\ pc[c] \in Nat /\ pc[c] > 6 /\ buf[c] = <<>>
       /\ mem["ok"] = 1 /\ Fresh(c, "ok")

\* A program that starts as core1_fence_consumer.
Receiver(c) ==
    /\ Len(Prog(c)) > 5
    /\ Prog(c)[1] = Spin("flag", 1) /\ Prog(c)[2] = FenceR
    /\ Prog(c)[3] = Ld("expected") /\ Prog(c)[4] = Judge("payload", "ok")
    /\ Prog(c)[5] = FenceW /\ Prog(c)[6] = St("done", 1)

\* The verdict is not read ahead of the judgement that stores it.
LEMMA OkNotAhead ==
    ASSUME NEW c \in Harts, Receiver(c), pc[c] \in {3, 4}
    PROVE  "ok" \notin Ahead(c)
<1> SUFFICES ASSUME NEW j \in pc[c] .. Len(Prog(c)), Prog(c)[j].loc = "ok",
                    \A k \in pc[c] .. j - 1 : Prog(c)[j].loc \notin Touches(Prog(c)[k])
             PROVE  FALSE
  BY DEF Ahead
<1>1. Prog(c)[3].loc = "expected" /\ Prog(c)[4].loc = "payload"
  BY DEF Receiver, Ld, Judge
<1>2. "ok" \in Touches(Prog(c)[4])
  <2>1. Prog(c)[4] = [op |-> "judge", loc |-> "payload", ok |-> "ok"]
    BY DEF Receiver, Judge
  <2>2. "ok" \in DOMAIN Prog(c)[4] /\ Prog(c)[4]["ok"] = "ok"
    BY <2>1
  <2> QED
    BY <2>2 DEF Touches
<1>3. j # 3 /\ j # 4
  BY <1>1
<1>4. 4 \in pc[c] .. j - 1
  BY <1>3
<1> QED
  BY <1>2, <1>4

\* The receiver's own steps.
LEMMA ReceiveHart ==
    ASSUME Shape, [Runs]_vars, NEW c \in Harts, Receiver(c), Receiving(c), Hart(c), pc[c] <= 6,
           mem["flag"] = 1 \/ pc[c] # 1 => mem["payload"] = 1, mem["expected"] = 1
    PROVE  /\ Receiving(c)' /\ mem' = mem /\ Calm
           /\ pc[c] = 1 => mem["flag"] = 1
<1>0. Op(c) = Prog(c)[pc[c]] /\ pc'[c] = pc[c] + 1
  BY HartMoves DEF Op, Moves
<1>1. CASE pc[c] = 1
  <2>1. mem["flag"] = 1 /\ mem' = mem /\ buf' = buf /\ Calm
    BY <1>0, <1>1, DoSpin DEF Receiver
  <2> QED
    BY <1>0, <1>1, <2>1 DEF Receiving
<1>2. CASE pc[c] = 2
  <2>1. early'[c] = {} /\ mem' = mem /\ buf' = buf /\ Calm
    BY <1>0, <1>2, DoFenceR DEF Receiver
  <2>2. Fresh(c, "expected")' /\ Fresh(c, "payload")' /\ NotTaken(c, "ok")'
    BY <2>1 DEF Fresh, NotTaken
  <2> QED
    BY <1>0, <1>2, <2>1, <2>2 DEF Receiving
<1>3. CASE pc[c] = 3
  <2>1. /\ buf[c] = <<>> /\ mem["done"] = 0 /\ Fresh(c, "expected") /\ Fresh(c, "payload")
        /\ NotTaken(c, "ok")
    BY <1>3 DEF Receiving
  <2>2. mem' = mem /\ buf' = buf /\ reg'[c] = mem["expected"] /\ Calm
    BY <1>0, <1>3, <2>1, DoLd DEF Receiver
  <2>3. NotTaken(c, "ok")'
    BY <1>3, <2>1, OkNotAhead, NotTakenKept
  <2>4. Fresh(c, "payload")'
    BY <2>1, <2>2, FreshKept
  <2> QED
    BY <1>0, <1>3, <2>1, <2>2, <2>3, <2>4 DEF Receiving
<1>4. CASE pc[c] = 4
  <2>1. /\ buf[c] = <<>> /\ mem["done"] = 0 /\ Fresh(c, "payload") /\ NotTaken(c, "ok")
        /\ mem["payload"] = 1 /\ reg[c] = 1
    BY <1>4 DEF Receiving
  <2>2. mem' = mem /\ buf'[c] = Append(buf[c], St("ok", 1)) /\ Calm
    BY <1>0, <1>4, <2>1, DoJudge DEF Receiver
  <2>3. buf'[c] = <<St("ok", 1)>>
    BY <2>1, <2>2
  <2>4. NotTaken(c, "ok")'
    BY <1>4, <2>1, OkNotAhead, NotTakenKept
  <2> QED
    BY <1>0, <1>4, <2>1, <2>2, <2>3, <2>4 DEF Receiving
<1>5. CASE pc[c] = 5
  <2>1. buf[c] = <<>> /\ mem' = mem /\ buf' = buf /\ Calm
    BY <1>0, <1>5, DoFenceW DEF Receiver
  <2>2. mem["done"] = 0 /\ mem["ok"] = 1 /\ Fresh(c, "ok")
    BY <1>5, <2>1 DEF Receiving
  <2>3. Fresh(c, "ok")'
    BY <2>1, <2>2, FreshKept
  <2> QED
    BY <1>0, <1>5, <2>1, <2>2, <2>3 DEF Receiving
<1>6. CASE pc[c] = 6
  <2>1. buf[c] = <<>> /\ mem["done"] = 0 /\ mem["ok"] = 1 /\ Fresh(c, "ok")
    BY <1>6 DEF Receiving
  <2>2. mem' = mem /\ buf'[c] = Append(buf[c], St("done", 1)) /\ Calm
    BY <1>0, <1>6, DoSt DEF Receiver
  <2>3. buf'[c] = <<St("done", 1)>>
    BY <2>1, <2>2
  <2>4. Fresh(c, "ok")'
    BY <2>1, <2>2, FreshKept
  <2> QED
    BY <1>0, <1>6, <2>1, <2>2, <2>3, <2>4 DEF Receiving
<1> QED
  BY <1>1, <1>2, <1>3, <1>4, <1>5, <1>6 DEF Receiving

\* Its buffer.
LEMMA ReceiveDrain ==
    ASSUME Shape, [Runs]_vars, NEW c \in Harts, Receiving(c), Drain(c)
    PROVE  /\ Receiving(c)' /\ Calm /\ pc' = pc
           /\ \A l \in Locs \ {"ok", "done"} : mem'[l] = mem[l]
           /\ mem["ok"] = 1 => mem'["ok"] = 1
           /\ pc[c] <= 6 => mem'["done"] = mem["done"]
<1>0. pc' = pc /\ early' = early /\ Calm /\ buf[c] # <<>> /\ "ok" \in Locs /\ "done" \in Locs
  BY DrainFrame DEF Locs
<1>1. CASE /\ pc[c] = 5 /\ buf[c] = <<St("ok", 1)>> /\ mem["done"] = 0
           /\ NotTaken(c, "ok")
  <2>1. buf'[c] = <<>> /\ mem' = Apply(St("ok", 1), mem)
    BY <1>1, DrainOne
  <2>2. mem'["ok"] = 1 /\ \A l \in Locs \ {"ok"} : mem'[l] = mem[l]
    BY <1>0, <2>1, ApplySt
  <2>3. Fresh(c, "ok")'
    BY <1>0, <1>1 DEF NotTaken, Fresh
  <2>4. mem'["done"] = 0
    BY <1>0, <1>1, <2>2
  <2> QED
    BY <1>0, <1>1, <2>1, <2>2, <2>3, <2>4 DEF Receiving
<1>2. CASE /\ pc[c] \in Nat /\ pc[c] > 6 /\ buf[c] = <<St("done", 1)>>
           /\ mem["ok"] = 1 /\ Fresh(c, "ok")
  <2>1. buf'[c] = <<>> /\ mem' = Apply(St("done", 1), mem)
    BY <1>2, DrainOne
  <2>2. mem'["ok"] = 1 /\ \A l \in Locs \ {"done"} : mem'[l] = mem[l]
    BY <1>0, <1>2, <2>1, ApplySt
  <2>3. Fresh(c, "ok")'
    BY <1>2, <2>2, FreshKept
  <2> QED
    BY <1>0, <1>2, <2>1, <2>2, <2>3 DEF Receiving
<1> QED
  BY <1>0, <1>1, <1>2 DEF Receiving

\* What others do.
LEMMA ReceiveKept ==
    ASSUME Shape, [Runs]_vars, NEW c \in Harts, Receiver(c), Receiving(c),
           pc'[c] = pc[c], buf'[c] = buf[c], reg'[c] = reg[c],
           pc[c] # 1 => mem'["payload"] = mem["payload"], mem'["ok"] = mem["ok"],
           mem'["expected"] = mem["expected"], mem'["done"] = mem["done"]
    PROVE  Receiving(c)'
<1>1. pc[c] # 1 /\ Fresh(c, "payload") => Fresh(c, "payload")'
  BY FreshKept
<1>2. Fresh(c, "ok") => Fresh(c, "ok")'
  BY FreshKept
<1>5. Fresh(c, "expected") => Fresh(c, "expected")'
  BY FreshKept
<1>3. pc[c] \in {3, 4} /\ NotTaken(c, "ok") => NotTaken(c, "ok")'
  BY OkNotAhead, NotTakenKept
<1>4. buf[c] = <<St("ok", 1)>> /\ NotTaken(c, "ok") => NotTaken(c, "ok")'
  <2> SUFFICES ASSUME buf[c] = <<St("ok", 1)>>, NotTaken(c, "ok") PROVE NotTaken(c, "ok")'
    OBVIOUS
  <2>1. 1 \in DOMAIN buf[c] /\ buf[c][1] = St("ok", 1)
    OBVIOUS
  <2>2. ~Settled(c, "ok")
    BY <2>1 DEF Settled, St
  <2> QED
    BY <2>2, NotTakenKept
<1> QED
  BY <1>1, <1>2, <1>3, <1>4, <1>5 DEF Receiving

-----------------------------------------------------------------------------
\* The producer loads fence_expected, copies it to the payload and raises the flag.
Offering(s) ==
    \/ pc[s] = 1 /\ buf[s] = <<>> /\ mem["flag"] = 0 /\ Fresh(s, "expected")
    \/ Sending(s, 1, "payload", "flag") /\ (pc[s] = 2 /\ buf[s] = <<>> => reg[s] = 1)

\* A program that starts as core1_fence_producer.
Offerer(s) ==
    /\ Len(Prog(s)) > 4
    /\ Prog(s)[1] = Ld("expected") /\ Prog(s)[2] = Copy("payload") /\ Prog(s)[3] = FenceW
    /\ Prog(s)[4] = St("flag", 1) /\ Prog(s)[5] = Spin("done", 1)

\* The producer's own steps up to the flag.
LEMMA OfferHart ==
    ASSUME Shape, NEW s \in Harts, Offerer(s), Offering(s), Hart(s), pc[s] <= 4,
           mem["expected"] = 1
    PROVE  Offering(s)' /\ mem' = mem /\ Calm
<1>0. /\ Op(s) = Prog(s)[pc[s]] /\ pc'[s] = pc[s] + 1 /\ "payload" \in Locs /\ "flag" \in Locs
      /\ "payload" # "flag"
  BY HartMoves DEF Op, Moves, Locs
<1>1. CASE pc[s] = 1
  <2>1. buf[s] = <<>> /\ mem["flag"] = 0 /\ Fresh(s, "expected")
    BY <1>1 DEF Offering, Sending
  <2>2. mem' = mem /\ buf' = buf /\ reg'[s] = 1 /\ Calm
    BY <1>0, <1>1, <2>1, DoLd DEF Offerer
  <2>3. Sending(s, 1, "payload", "flag")'
    BY <1>0, <1>1, <2>1, <2>2 DEF Sending
  <2> QED
    BY <2>2, <2>3 DEF Offering
<1>2. CASE pc[s] # 1
  <2>0. Sending(s, 1, "payload", "flag") /\ (pc[s] = 2 /\ buf[s] = <<>> => reg[s] = 1)
    BY <1>2 DEF Offering
  <2>1. pc[s] = 1 + 1 => mem' = mem /\ buf'[s] = Append(buf[s], St("payload", 1)) /\ Calm
    <3> SUFFICES ASSUME pc[s] = 2
                 PROVE  mem' = mem /\ buf'[s] = Append(buf[s], St("payload", 1)) /\ Calm
      OBVIOUS
    <3>1. Op(s) = Copy("payload")
      BY <1>0 DEF Offerer
    <3>2. buf[s] = <<>> /\ reg[s] = 1
      BY <2>0 DEF Sending
    <3> QED
      BY <3>1, <3>2, DoCopy
  <2>2. Prog(s)[1 + 2] = FenceW /\ Prog(s)[1 + 3] = St("flag", 1) /\ pc[s] <= 1 + 3
    BY DEF Offerer
  <2>3. Sending(s, 1, "payload", "flag")' /\ mem' = mem /\ Calm
    BY <1>0, <2>0, <2>1, <2>2, SendHart
  <2>4. pc'[s] # 2
    BY <1>0, <2>0 DEF Sending
  <2> QED
    BY <2>3, <2>4 DEF Offering
<1> QED
  BY <1>1, <1>2

\* Its buffer.
LEMMA OfferDrain ==
    ASSUME Shape, NEW s \in Harts, Offering(s), Drain(s)
    PROVE  /\ Offering(s)' /\ Calm /\ pc' = pc
           /\ \A l \in Locs \ {"payload", "flag"} : mem'[l] = mem[l]
           /\ mem["payload"] = 1 => mem'["payload"] = 1
<1>0. /\ "payload" \in Locs /\ "flag" \in Locs /\ "payload" # "flag" /\ buf[s] # <<>> /\ pc' = pc
  BY DrainFrame DEF Locs
<1>1. Sending(s, 1, "payload", "flag")
  BY <1>0 DEF Offering
<1>2. /\ Sending(s, 1, "payload", "flag")' /\ Calm
      /\ \A l \in Locs \ {"payload", "flag"} : mem'[l] = mem[l]
      /\ mem["payload"] = 1 => mem'["payload"] = 1
  BY <1>0, <1>1, SendDrain
<1>3. pc[s] # 2
  BY <1>0, <1>1 DEF Sending
<1> QED
  BY <1>0, <1>2, <1>3 DEF Offering

\* What others do.
LEMMA OfferKept ==
    ASSUME Shape, [Runs]_vars, NEW s \in Harts, Offering(s), pc'[s] = pc[s], buf'[s] = buf[s],
           reg'[s] = reg[s], mem'["payload"] = mem["payload"], mem'["flag"] = mem["flag"],
           mem'["expected"] = mem["expected"]
    PROVE  Offering(s)'
<1>1. Fresh(s, "expected") => Fresh(s, "expected")'
  BY FreshKept
<1>2. Sending(s, 1, "payload", "flag") => Sending(s, 1, "payload", "flag")'
  BY DEF Sending
<1> QED
  BY <1>1, <1>2 DEF Offering

\* What the places say about the memory.
LEMMA OfferFacts ==
    ASSUME NEW s, Offering(s)
    PROVE  /\ pc[s] \in Nat \ {0}
           /\ mem["flag"] = 1 => mem["payload"] = 1 /\ pc[s] > 4
           /\ pc[s] > 4 => mem["payload"] = 1
BY DEF Offering, Sending

-----------------------------------------------------------------------------
\* s offers the payload, c receives it.
MessageInv(s, c) ==
    /\ mem["expected"] = 1 /\ Offering(s) /\ Receiving(c)
    /\ pc[c] # 1 => pc[s] > 4

\* A step of the receiver.
LEMMA MessageReceived ==
    ASSUME Shape, [Runs]_vars, NEW s \in Harts, NEW c \in Harts, s # c, Receiver(c),
           MessageInv(s, c), Hart(c), pc[c] <= 6
    PROVE  MessageInv(s, c)' /\ mem' = mem /\ Calm
<1>0. /\ pc'[c] = pc[c] + 1 /\ pc'[s] = pc[s] /\ buf'[s] = buf[s] /\ reg'[s] = reg[s]
  BY HartFrame
<1>1. mem["flag"] = 1 \/ pc[c] # 1 => mem["payload"] = 1
  BY OfferFacts DEF MessageInv
<1>2. Receiving(c)' /\ mem' = mem /\ Calm /\ (pc[c] = 1 => mem["flag"] = 1)
  BY <1>1, ReceiveHart DEF MessageInv
<1>3. Offering(s)'
  BY <1>0, <1>2, OfferKept DEF MessageInv
<1>4. pc[s] > 4
  BY <1>2, OfferFacts DEF MessageInv
<1> QED
  BY <1>0, <1>2, <1>3, <1>4 DEF MessageInv

\* A step of the producer up to its flag.
LEMMA MessageOffered ==
    ASSUME Shape, [Runs]_vars, NEW s \in Harts, NEW c \in Harts, s # c, Receiver(c), Offerer(s),
           MessageInv(s, c), Hart(s), pc[s] <= 4
    PROVE  MessageInv(s, c)' /\ mem' = mem /\ Calm
<1>0. /\ pc'[s] = pc[s] + 1 /\ pc'[c] = pc[c] /\ buf'[c] = buf[c] /\ reg'[c] = reg[c]
  BY HartFrame
<1>1. Offering(s)' /\ mem' = mem /\ Calm
  BY OfferHart DEF MessageInv
<1>2. Receiving(c)'
  BY <1>0, <1>1, ReceiveKept DEF MessageInv
<1>3. pc[c] = 1
  BY OfferFacts DEF MessageInv
<1> QED
  BY <1>0, <1>1, <1>2, <1>3 DEF MessageInv

\* The buffers.
LEMMA MessageDrain ==
    ASSUME Shape, [Runs]_vars, NEW s \in Harts, NEW c \in Harts, s # c, Receiver(c),
           MessageInv(s, c), Drain(s) \/ Drain(c)
    PROVE  /\ MessageInv(s, c)' /\ Calm /\ pc' = pc
           /\ mem["ok"] = 1 => mem'["ok"] = 1
<1>0. /\ "payload" \in Locs /\ "flag" \in Locs /\ "expected" \in Locs /\ "ok" \in Locs
      /\ "done" \in Locs
  BY DEF Locs
<1>1. CASE Drain(s)
  <2>0. /\ Offering(s)' /\ Calm /\ pc' = pc
        /\ \A l \in Locs \ {"payload", "flag"} : mem'[l] = mem[l]
        /\ mem["payload"] = 1 => mem'["payload"] = 1
    BY <1>1, OfferDrain DEF MessageInv
  <2>1. buf'[c] = buf[c] /\ reg' = reg
    BY <1>1, DrainFrame
  <2>2. mem'["ok"] = mem["ok"] /\ mem'["done"] = mem["done"] /\ mem'["expected"] = mem["expected"]
    BY <1>0, <2>0
  <2>3. pc[c] # 1 => mem'["payload"] = mem["payload"]
    BY <2>0, OfferFacts DEF MessageInv
  <2>4. Receiving(c)'
    BY <2>0, <2>1, <2>2, <2>3, ReceiveKept DEF MessageInv
  <2> QED
    BY <2>0, <2>2, <2>4 DEF MessageInv
<1>2. CASE Drain(c)
  <2>0. /\ Receiving(c)' /\ Calm /\ pc' = pc
        /\ \A l \in Locs \ {"ok", "done"} : mem'[l] = mem[l]
        /\ mem["ok"] = 1 => mem'["ok"] = 1
    BY <1>2, ReceiveDrain DEF MessageInv
  <2>1. buf'[s] = buf[s] /\ reg' = reg
    BY <1>2, DrainFrame
  <2>2. /\ mem'["payload"] = mem["payload"] /\ mem'["flag"] = mem["flag"]
        /\ mem'["expected"] = mem["expected"]
    BY <1>0, <2>0
  <2>3. Offering(s)'
    BY <2>0, <2>1, <2>2, OfferKept DEF MessageInv
  <2> QED
    BY <2>0, <2>2, <2>3 DEF MessageInv
<1> QED
  BY <1>1, <1>2

\* A step that leaves everything in its place.
LEMMA MessageIdle ==
    ASSUME Shape, [Runs]_vars, NEW s \in Harts, NEW c \in Harts, s # c, Receiver(c),
           MessageInv(s, c), Idle
    PROVE  MessageInv(s, c)'
<1>1. Receiving(c)' /\ Offering(s)'
  BY ReceiveKept, OfferKept DEF MessageInv, Idle
<1> QED
  BY <1>1 DEF MessageInv, Idle

-----------------------------------------------------------------------------
\* The programs of P4.1, place by place.
LEMMA FenceOps ==
    /\ /\ Len(P4_1A) = 7 /\ P4_1A[1] = Ld("expected") /\ P4_1A[2] = Copy("payload")
       /\ P4_1A[3] = FenceW /\ P4_1A[4] = St("flag", 1) /\ P4_1A[5] = Spin("done", 1)
       /\ P4_1A[6] = FenceR /\ P4_1A[7] = Assert("ok", 1)
    /\ /\ Len(core1_fence_producer) = 5 /\ core1_fence_producer[1] = Ld("expected")
       /\ core1_fence_producer[2] = Copy("payload") /\ core1_fence_producer[3] = FenceW
       /\ core1_fence_producer[4] = St("flag", 1)
       /\ core1_fence_producer[5] = Spin("done", 1)
    /\ /\ Len(P4_1B) = 12 /\ P4_1B[1] = Spin("flag", 1) /\ P4_1B[2] = FenceR
       /\ P4_1B[3] = Ld("expected") /\ P4_1B[4] = Judge("payload", "ok") /\ P4_1B[5] = FenceW
       /\ P4_1B[6] = St("done", 1) /\ P4_1B[7] = Assert("ok", 1)
       /\ \A i \in 1 .. 5 : P4_1B[7 + i] = fence_reset[i]
<1> DEFINE a == <<Spin("done", 1), FenceR, Assert("ok", 1)>>
           b == <<Spin("done", 1)>>
           c == <<Assert("ok", 1)>>
<1>0. Produce \in Seq(Quiet) /\ Consume \in Seq(Quiet) /\ fence_reset \in Seq(Quiet)
  <2>1. /\ "payload" \in Locs /\ "expected" \in Locs /\ "flag" \in Locs /\ "done" \in Locs
        /\ "ok" \in Locs
    BY DEF Locs
  <2> QED
    BY <2>1, QuietOps, QuietPrograms DEF Produce, Consume, fence_reset
<1>1. a \in Seq(Quiet) /\ b \in Seq(Quiet) /\ c \in Seq(Quiet)
  <2>1. "done" \in Locs /\ "ok" \in Locs
    BY DEF Locs
  <2> QED
    BY <2>1, QuietOps, QuietPrograms
<1>2. /\ Len(a) = 3 /\ a[1] = Spin("done", 1) /\ a[2] = FenceR /\ a[3] = Assert("ok", 1)
      /\ Len(b) = 1 /\ b[1] = Spin("done", 1) /\ Len(c) = 1 /\ c[1] = Assert("ok", 1)
  OBVIOUS
<1>3. /\ Len(Produce) = 4 /\ Produce[1] = Ld("expected") /\ Produce[2] = Copy("payload")
      /\ Produce[3] = FenceW /\ Produce[4] = St("flag", 1) /\ Len(fence_reset) = 5
  BY DEF Produce, fence_reset
<1>4. /\ Len(Consume) = 6 /\ Consume[1] = Spin("flag", 1) /\ Consume[2] = FenceR
      /\ Consume[3] = Ld("expected") /\ Consume[4] = Judge("payload", "ok")
      /\ Consume[5] = FenceW /\ Consume[6] = St("done", 1)
  BY DEF Consume
<1>5. P4_1A = Produce \o a /\ core1_fence_producer = Produce \o b
      /\ P4_1B = (Consume \o c) \o fence_reset
  BY DEF P4_1A, core1_fence_producer, P4_1B
<1> HIDE DEF a, b, c
<1>6. Joined(P4_1A, Produce, a) /\ Joined(core1_fence_producer, Produce, b)
  BY <1>0, <1>1, <1>5, JoinedAt
<1>7. PICK d : d = Consume \o c
  OBVIOUS
<1>8. d \in Seq(Quiet) /\ Joined(d, Consume, c)
  BY <1>0, <1>1, <1>7, JoinedAt
<1>9. Joined(P4_1B, d, fence_reset)
  BY <1>0, <1>5, <1>7, <1>8, JoinedAt
<1>10. Len(d) = 7 /\ d[7] = Assert("ok", 1) /\ \A i \in 1 .. 6 : d[i] = Consume[i]
  BY <1>2, <1>4, <1>8 DEF Joined
<1>11. /\ Len(P4_1B) = 12 /\ \A i \in 1 .. 7 : P4_1B[i] = d[i]
       /\ \A i \in 1 .. 5 : P4_1B[7 + i] = fence_reset[i]
  BY <1>3, <1>9, <1>10 DEF Joined
<1>12. /\ Len(P4_1A) = 7 /\ \A i \in 1 .. 4 : P4_1A[i] = Produce[i]
       /\ \A i \in 1 .. 3 : P4_1A[4 + i] = a[i]
  BY <1>2, <1>3, <1>6 DEF Joined
<1>13. /\ Len(core1_fence_producer) = 5
       /\ \A i \in 1 .. 4 : core1_fence_producer[i] = Produce[i]
       /\ core1_fence_producer[4 + 1] = b[1]
  BY <1>2, <1>3, <1>6 DEF Joined
<1>14. /\ Len(P4_1A) = 7 /\ P4_1A[1] = Ld("expected") /\ P4_1A[2] = Copy("payload")
       /\ P4_1A[3] = FenceW /\ P4_1A[4] = St("flag", 1) /\ P4_1A[4 + 1] = Spin("done", 1)
       /\ P4_1A[4 + 2] = FenceR /\ P4_1A[4 + 3] = Assert("ok", 1)
  BY <1>2, <1>3, <1>12
<1>15. /\ P4_1B[1] = Spin("flag", 1) /\ P4_1B[2] = FenceR
       /\ P4_1B[3] = Ld("expected") /\ P4_1B[4] = Judge("payload", "ok") /\ P4_1B[5] = FenceW
       /\ P4_1B[6] = St("done", 1) /\ P4_1B[7] = Assert("ok", 1)
  BY <1>4, <1>10, <1>11
<1> QED
  BY <1>2, <1>3, <1>11, <1>13, <1>14, <1>15

\* P4.1A: hart 0 offers, hart 1 receives; then hart 0 fences and reads the verdict.
FenceAInv ==
    /\ MessageInv(0, 1)
    /\ pc[0] > 5 => pc[1] > 6
    /\ pc[0] = 7 => Fresh(0, "ok")

\* P4.1A: hart 0 publishes, hart 1 judges, and hart 0 reads a verdict of 1.
LEMMA FenceAStep ==
    ASSUME Shape, Clean, test = "P4.1A", FenceAInv, [Runs]_vars
    PROVE  FenceAInv' /\ Clean'
<1>0. /\ Offerer(0) /\ Prog(0)[5] = Spin("done", 1) /\ Prog(0)[6] = FenceR
      /\ Prog(0)[7] = Assert("ok", 1) /\ Len(Prog(0)) = 7 /\ Len(Prog(1)) = 6 /\ Receiver(1)
      /\ Test(test).final = {}
  <2>1. Test(test) = Pair(P4_1A, core1_fence_consumer, {})
    BY Programs
  <2>2. Prog(0) = P4_1A /\ Prog(1) = core1_fence_consumer /\ Test(test).final = {}
    BY <2>1, ProgOf
  <2>3. Receiver(1) /\ Len(Prog(1)) = 6
    BY <2>2 DEF core1_fence_consumer, Consume, Receiver
  <2> QED
    BY <2>2, <2>3, FenceOps DEF Offerer
<1>1. 0 \in Harts /\ 1 \in Harts /\ Harts = {0, 1} /\ 0 # 1
  BY DEF Harts
<1>2. pc[0] \in Nat /\ pc[1] \in Nat /\ MessageInv(0, 1)
  BY OfferFacts DEF FenceAInv, MessageInv, Receiving
<1>3. CASE Idle /\ Clean'
  <2>1. MessageInv(0, 1)'
    BY <1>0, <1>1, <1>2, <1>3, MessageIdle
  <2>2. Fresh(0, "ok") => Fresh(0, "ok")'
    BY <1>1, <1>3, FreshKept DEF Idle
  <2> QED
    BY <1>3, <2>1, <2>2 DEF Idle, FenceAInv
<1>4. CASE Hart(0)
  <2>0. /\ pc[0] <= 7 /\ Op(0) = Prog(0)[pc[0]] /\ pc'[0] = pc[0] + 1
        /\ pc'[1] = pc[1] /\ buf'[1] = buf[1] /\ reg'[1] = reg[1]
    <3>1. /\ pc[0] <= Len(Prog(0)) /\ Op(0) = Prog(0)[pc[0]] /\ pc'[0] = pc[0] + 1
          /\ pc'[1] = pc[1] /\ buf'[1] = buf[1] /\ reg'[1] = reg[1]
      BY <1>1, <1>4, HartFrame
    <3> QED
      BY <1>0, <3>1
  <2>1. ASSUME mem' = mem, buf' = buf, pc[0] > 4 PROVE MessageInv(0, 1)'
    <3>1. Receiving(1)'
      BY <1>0, <1>1, <1>2, <2>0, <2>1, ReceiveKept DEF MessageInv
    <3>2. Offering(0)'
      BY <1>2, <2>0, <2>1 DEF MessageInv, Offering, Sending
    <3> QED
      BY <1>2, <2>0, <2>1, <3>1, <3>2 DEF MessageInv
  <2>2. CASE pc[0] <= 4
    <3>1. MessageInv(0, 1)' /\ Calm
      BY <1>0, <1>1, <1>2, <1>4, <2>2, MessageOffered
    <3>2. FenceAInv'
      BY <1>2, <2>0, <2>2, <3>1 DEF FenceAInv
    <3> QED
      BY <3>1, <3>2, CalmClean
  <2>3. CASE pc[0] = 5
    <3>1. mem["done"] = 1 /\ mem' = mem /\ buf' = buf /\ Calm
      BY <1>0, <1>1, <1>4, <2>0, <2>3, DoSpin
    <3>2. pc[1] > 6
      BY <1>2, <3>1 DEF MessageInv, Receiving
    <3>3. FenceAInv'
      BY <2>0, <2>1, <2>3, <3>1, <3>2 DEF FenceAInv
    <3> QED
      BY <3>1, <3>3, CalmClean
  <2>4. CASE pc[0] = 6
    <3>1. early'[0] = {} /\ mem' = mem /\ buf' = buf /\ Calm
      BY <1>0, <1>1, <1>4, <2>0, <2>4, DoFenceR
    <3>2. Fresh(0, "ok")'
      BY <3>1 DEF Fresh
    <3>3. pc[1] > 6
      BY <2>4 DEF FenceAInv
    <3>4. FenceAInv'
      BY <2>0, <2>1, <2>4, <3>1, <3>2, <3>3 DEF FenceAInv
    <3> QED
      BY <3>1, <3>4, CalmClean
  <2>5. CASE pc[0] = 7
    <3>1. Fresh(0, "ok") /\ mem["ok"] = 1 /\ pc[1] > 6
      BY <2>5 DEF FenceAInv, MessageInv, Receiving
    <3>2. mem' = mem /\ buf' = buf /\ Calm
      BY <1>0, <1>1, <1>4, <2>0, <2>5, <3>1, DoAssert
    <3>3. FenceAInv'
      BY <2>0, <2>1, <2>5, <3>1, <3>2 DEF FenceAInv
    <3> QED
      BY <3>2, <3>3, CalmClean
  <2> QED
    BY <1>2, <2>0, <2>2, <2>3, <2>4, <2>5
<1>5. CASE Hart(1)
  <2>0. pc[1] <= 6 /\ pc'[1] = pc[1] + 1 /\ pc'[0] = pc[0]
    <3>1. pc[1] <= Len(Prog(1)) /\ pc'[1] = pc[1] + 1 /\ pc'[0] = pc[0]
      BY <1>1, <1>5, HartFrame
    <3> QED
      BY <1>0, <3>1
  <2>1. MessageInv(0, 1)' /\ Calm
    BY <1>0, <1>1, <1>2, <1>5, <2>0, MessageReceived
  <2>2. pc[0] <= 5
    BY <1>2, <2>0 DEF FenceAInv
  <2>3. FenceAInv'
    BY <1>2, <2>0, <2>1, <2>2 DEF FenceAInv
  <2> QED
    BY <2>1, <2>3, CalmClean
<1>6. CASE Drain(0) \/ Drain(1)
  <2>0. MessageInv(0, 1)' /\ Calm /\ pc' = pc /\ (mem["ok"] = 1 => mem'["ok"] = 1)
    BY <1>0, <1>1, <1>2, <1>6, MessageDrain
  <2>1. pc[0] = 7 => Fresh(0, "ok")'
    <3>1. pc[0] = 7 => mem["ok"] = 1 /\ Fresh(0, "ok")
      BY DEF FenceAInv, MessageInv, Receiving
    <3> QED
      BY <1>1, <2>0, <3>1, FreshKept
  <2>2. FenceAInv'
    BY <2>0, <2>1 DEF FenceAInv
  <2> QED
    BY <2>0, <2>2, CalmClean
<1> QED
  BY <1>0, <1>1, <1>3, <1>4, <1>5, <1>6, StepCases

\* P4.1B: hart 1 offers; hart 0 receives and asserts the verdict it stored, or is
\* past that and resets g_p4.
FenceBInv == MessageInv(1, 0) \/ (pc[0] \in Nat /\ pc[0] > 7 /\ pc[1] \in Nat \ {0})

\* P4.1B: hart 1 publishes, hart 0 judges and reads its own verdict of 1.
LEMMA FenceBStep ==
    ASSUME Shape, Clean, test = "P4.1B", FenceBInv, [Runs]_vars
    PROVE  FenceBInv' /\ Clean'
<1>0. /\ Offerer(1) /\ Receiver(0) /\ Prog(0)[7] = Assert("ok", 1)
      /\ \A i \in 8 .. 12 : Prog(0)[i].op = "st"
      /\ \A i \in 1 .. 5 : Prog(1)[i].op \notin {"assert", "count"}
      /\ Len(Prog(0)) = 12 /\ Len(Prog(1)) = 5 /\ Test(test).final = {}
  <2>1. Test(test) = Pair(P4_1B, core1_fence_producer, {})
    BY Programs
  <2>2. Prog(0) = P4_1B /\ Prog(1) = core1_fence_producer /\ Test(test).final = {}
    BY <2>1, ProgOf
  <2>3. Offerer(1) /\ Len(Prog(1)) = 5
    BY <2>2, FenceOps DEF Offerer
  <2>4. Receiver(0) /\ Prog(0)[7] = Assert("ok", 1) /\ Len(Prog(0)) = 12
    BY <2>2, FenceOps DEF Receiver
  <2>6. \A i \in 8 .. 12 : Prog(0)[i].op = "st"
    <3>1. \A i \in 1 .. 5 : fence_reset[i].op = "st"
      BY DEF fence_reset, St
    <3> SUFFICES ASSUME NEW i \in 8 .. 12 PROVE Prog(0)[i].op = "st"
      OBVIOUS
    <3>2. i - 7 \in 1 .. 5 /\ 7 + (i - 7) = i
      OBVIOUS
    <3>3. P4_1B[7 + (i - 7)] = fence_reset[i - 7]
      BY <3>2, FenceOps
    <3> QED
      BY <2>2, <3>1, <3>2, <3>3
  <2>7. \A i \in 1 .. 5 : Prog(1)[i].op \notin {"assert", "count"}
    <3>1. Ld("expected").op = "ld" /\ Copy("payload").op = "copy" /\ FenceW.op = "fence_w"
          /\ St("flag", 1).op = "st" /\ Spin("done", 1).op = "spin"
      BY DEF Ld, Copy, FenceW, St, Spin
    <3> QED
      BY <2>2, <3>1, FenceOps
  <2> QED
    BY <2>2, <2>3, <2>4, <2>6, <2>7
<1>1. 0 \in Harts /\ 1 \in Harts /\ Harts = {0, 1} /\ 0 # 1
  BY DEF Harts
<1>2. pc[0] \in Nat /\ pc[1] \in Nat \ {0}
  BY OfferFacts DEF FenceBInv, MessageInv, Receiving
<1>3. CASE Idle /\ Clean'
  <2>1. MessageInv(1, 0) => MessageInv(1, 0)'
    BY <1>0, <1>1, <1>3, MessageIdle
  <2> QED
    BY <1>3, <2>1 DEF Idle, FenceBInv
<1>4. CASE Hart(0)
  <2>0. /\ pc[0] <= 12 /\ Op(0) = Prog(0)[pc[0]] /\ pc'[0] = pc[0] + 1
    <3>1. pc[0] <= Len(Prog(0)) /\ Op(0) = Prog(0)[pc[0]] /\ pc'[0] = pc[0] + 1
      BY <1>1, <1>4, HartFrame
    <3> QED
      BY <1>0, <3>1
  <2>1. CASE pc[0] <= 6
    <3>1. MessageInv(1, 0)
      BY <2>1 DEF FenceBInv
    <3>2. MessageInv(1, 0)' /\ Calm
      BY <1>0, <1>1, <1>4, <2>1, <3>1, MessageReceived
    <3> QED
      BY <3>2, CalmClean DEF FenceBInv
  <2>4. pc'[1] \in Nat \ {0}
    BY <1>1, <1>2, <1>4, HartFrame
  <2>2. CASE pc[0] = 7
    <3>1. Fresh(0, "ok") /\ mem["ok"] = 1
      BY <2>2 DEF FenceBInv, MessageInv, Receiving
    <3>2. Calm
      BY <1>0, <1>1, <1>4, <2>0, <2>2, <3>1, DoAssert
    <3> QED
      BY <2>0, <2>2, <2>4, <3>2, CalmClean DEF FenceBInv
  <2>3. CASE pc[0] > 7
    <3>1. Op(0).op = "st"
      BY <1>0, <1>2, <2>0, <2>3
    <3>2. Calm
      BY <1>1, <1>4, <3>1, Harmless
    <3> QED
      BY <1>2, <2>0, <2>3, <2>4, <3>2, CalmClean DEF FenceBInv
  <2> QED
    BY <1>2, <2>1, <2>2, <2>3
<1>5. CASE Hart(1)
  <2>0. /\ pc[1] <= 5 /\ Op(1) = Prog(1)[pc[1]] /\ pc'[1] = pc[1] + 1
        /\ pc'[0] = pc[0] /\ buf'[0] = buf[0] /\ reg'[0] = reg[0]
    <3>1. /\ pc[1] <= Len(Prog(1)) /\ Op(1) = Prog(1)[pc[1]] /\ pc'[1] = pc[1] + 1
          /\ pc'[0] = pc[0] /\ buf'[0] = buf[0] /\ reg'[0] = reg[0]
      BY <1>1, <1>5, HartFrame
    <3> QED
      BY <1>0, <3>1
  <2>1. CASE MessageInv(1, 0) /\ pc[1] <= 4
    <3>1. MessageInv(1, 0)' /\ Calm
      BY <1>0, <1>1, <1>5, <2>1, MessageOffered
    <3> QED
      BY <3>1, CalmClean DEF FenceBInv
  <2>2. CASE MessageInv(1, 0) /\ pc[1] = 5
    <3>1. Op(1) = Spin("done", 1)
      BY <1>0, <2>0, <2>2 DEF Offerer
    <3>2. mem' = mem /\ buf' = buf /\ Calm
      BY <1>1, <1>5, <3>1, DoSpin
    <3>3. Receiving(0)'
      BY <1>0, <1>1, <2>0, <2>2, <3>2, ReceiveKept DEF MessageInv
    <3>4. Offering(1)'
      BY <2>0, <2>2, <3>2 DEF MessageInv, Offering, Sending
    <3>5. MessageInv(1, 0)'
      BY <2>0, <2>2, <3>2, <3>3, <3>4 DEF MessageInv
    <3> QED
      BY <3>2, <3>5, CalmClean DEF FenceBInv
  <2>3. CASE pc[0] > 7
    <3>1. Op(1).op \notin {"assert", "count"}
      BY <1>0, <1>2, <2>0
    <3>2. Calm
      BY <1>1, <1>5, <3>1, Harmless
    <3> QED
      BY <1>2, <2>0, <2>3, <3>2, CalmClean DEF FenceBInv
  <2> QED
    BY <1>2, <2>0, <2>1, <2>2, <2>3 DEF FenceBInv
<1>6. CASE Drain(0) \/ Drain(1)
  <2>1. CASE MessageInv(1, 0)
    <3>1. MessageInv(1, 0)' /\ Calm
      BY <1>0, <1>1, <1>6, <2>1, MessageDrain
    <3> QED
      BY <3>1, CalmClean DEF FenceBInv
  <2>2. CASE pc[0] > 7
    <3>1. pc' = pc /\ Calm
      BY <1>1, <1>6, DrainFrame
    <3> QED
      BY <1>2, <2>2, <3>1, CalmClean DEF FenceBInv
  <2> QED
    BY <2>1, <2>2 DEF FenceBInv
<1> QED
  BY <1>0, <1>1, <1>3, <1>4, <1>5, <1>6, StepCases

-----------------------------------------------------------------------------
(***************************************************************************)
(* P4.4: hart h has the turn in its round i, the other waits for it.       *)
(***************************************************************************)
\* The count is c when h gets the turn.
Holding(h, i, c) ==
    \/ pc[h] = 6 * i + 1 /\ buf[h] = <<>> /\ mem["count"] = c
    \/ pc[h] = 6 * i + 2 /\ buf[h] = <<>> /\ mem["count"] = c
    \/ pc[h] = 6 * i + 3 /\ buf[h] = <<>> /\ mem["count"] = c /\ Fresh(h, "count")
    \/ pc[h] = 6 * i + 4 /\ buf[h] = <<>> /\ mem["count"] = c /\ i = Rounds
    \/ /\ i < Rounds
       /\ \/ pc[h] = 6 * i + 4 /\ buf[h] = <<>> /\ mem["count"] = c /\ reg[h] = c
          \/ pc[h] = 6 * i + 5 /\ buf[h] = <<St("count", c + 1)>> /\ mem["count"] = c
          \/ pc[h] = 6 * i + 5 /\ buf[h] = <<>> /\ mem["count"] = c + 1
          \/ pc[h] = 6 * i + 6 /\ buf[h] = <<>> /\ mem["count"] = c + 1
          \/ pc[h] = 6 * i + 7 /\ buf[h] = <<St("turn", 1 - h)>> /\ mem["count"] = c + 1

\* The other hart is before its own wait for the turn.
HasTurn(h, i) ==
    /\ mem["turn"] = h /\ i + h <= Rounds /\ Holding(h, i, 2 * i + h)
    /\ pc[1 - h] = 6 * (i + h) + 1 /\ buf[1 - h] = <<>>
TurnInv == \E h \in Harts, i \in 0 .. Rounds : HasTurn(h, i)

\* The six operations of round k of a program.
TurnAt(p, v, w, k) ==
    /\ p[6 * k + 1] = Spin("turn", v) /\ p[6 * k + 2] = FenceR
    /\ p[6 * k + 3] = Ld("count") /\ p[6 * k + 4] = StInc("count")
    /\ p[6 * k + 5] = FenceW /\ p[6 * k + 6] = St("turn", w)
TurnSet(v, w) == {Spin("turn", v), FenceR, Ld("count"), StInc("count"), FenceW, St("turn", w)}

\* The turns that a program repeats, round by round.
LEMMA TurnBody ==
    ASSUME NEW v, NEW w
    PROVE  /\ Repeat(Turn(v, w)) \in Seq(TurnSet(v, w))
           /\ Len(Repeat(Turn(v, w))) = 6 * Rounds
           /\ \A k \in 0 .. Rounds - 1 : TurnAt(Repeat(Turn(v, w)), v, w, k)
<1> DEFINE S == TurnSet(v, w)
           b == Turn(v, w)
<1>1. /\ b \in Seq(S) /\ Len(b) = 6 /\ b[1] = Spin("turn", v) /\ b[2] = FenceR
      /\ b[3] = Ld("count") /\ b[4] = StInc("count") /\ b[5] = FenceW /\ b[6] = St("turn", w)
  BY DEF Turn, FenceRW, FenceW, TurnSet
<1> HIDE DEF b, S
<1>2. /\ Repeat(b) \in Seq(S) /\ Len(Repeat(b)) = 6 * Rounds
      /\ \A k \in 0 .. Rounds - 1, j \in 1 .. 6 : Repeat(b)[6 * k + j] = b[j]
  BY <1>1, Repeat6
<1>3. ASSUME NEW k \in 0 .. Rounds - 1 PROVE TurnAt(Repeat(b), v, w, k)
  <2>1. \A j \in 1 .. 6 : Repeat(b)[6 * k + j] = b[j]
    BY <1>2
  <2> QED
    BY <1>1, <2>1 DEF TurnAt
<1> QED
  BY <1>2, <1>3 DEF b, S

\* P4_4 and ping, place by place.
LEMMA TurnOps ==
    ASSUME test = "P4.4"
    PROVE  /\ Len(Prog(0)) = 6 * Rounds + 3 /\ Len(Prog(1)) = 6 * Rounds
           /\ Test(test).final = {}
           /\ Prog(0)[6 * Rounds + 1] = Spin("turn", 0) /\ Prog(0)[6 * Rounds + 2] = FenceR
           /\ Prog(0)[6 * Rounds + 3] = Assert("count", 2 * Rounds)
           /\ \A h \in Harts, k \in 0 .. Rounds - 1 : TurnAt(Prog(h), h, 1 - h, k)
<1> DEFINE r == Repeat(Turn(0, 1))
           t == <<Spin("turn", 0), FenceR, Assert("count", 2 * Rounds)>>
           T == TurnSet(0, 1) \cup {Assert("count", 2 * Rounds)}
<1>1. Prog(0) = r \o t /\ Prog(1) = Repeat(Turn(1, 0)) /\ Test(test).final = {}
  <2>1. Test(test) = Pair(P4_4, ping, {})
    BY Programs
  <2>2. Prog(0) = P4_4 /\ Prog(1) = ping /\ Test(test).final = {}
    BY <2>1, ProgOf
  <2> QED
    BY <2>2 DEF P4_4, ping
<1>2. /\ r \in Seq(TurnSet(0, 1)) /\ Len(r) = 6 * Rounds
      /\ \A k \in 0 .. Rounds - 1 : TurnAt(r, 0, 1, k)
  BY TurnBody
<1>3. /\ Len(Prog(1)) = 6 * Rounds
      /\ \A k \in 0 .. Rounds - 1 : TurnAt(Prog(1), 1, 0, k)
  BY <1>1, TurnBody
<1>4. /\ t \in Seq(T) /\ Len(t) = 3 /\ t[1] = Spin("turn", 0) /\ t[2] = FenceR
      /\ t[3] = Assert("count", 2 * Rounds)
  BY DEF TurnSet
<1>5. r \in Seq(T)
  <2> HIDE DEF r
  <2> QED
    BY <1>2
<1> HIDE DEF r, t, T
<1>6. /\ Len(r \o t) = Len(r) + Len(t)
      /\ \A i \in 1 .. Len(r) : (r \o t)[i] = r[i]
      /\ \A i \in 1 .. Len(t) : (r \o t)[Len(r) + i] = t[i]
  <2>1. r \in Seq(T) /\ t \in Seq(T)
    BY <1>4, <1>5
  <2> QED
    BY <2>1
<1>7. /\ Len(Prog(0)) = 6 * Rounds + 3
      /\ Prog(0)[6 * Rounds + 1] = Spin("turn", 0) /\ Prog(0)[6 * Rounds + 2] = FenceR
      /\ Prog(0)[6 * Rounds + 3] = Assert("count", 2 * Rounds)
  <2>1. Len(r \o t) = 6 * Rounds + 3
    BY <1>2, <1>4, <1>6
  <2>2. /\ (r \o t)[6 * Rounds + 1] = t[1] /\ (r \o t)[6 * Rounds + 2] = t[2]
        /\ (r \o t)[6 * Rounds + 3] = t[3]
    <3> DEFINE s == r \o t
               n == 6 * Rounds
    <3>1. \A i \in 1 .. 3 : s[n + i] = t[i]
      BY <1>2, <1>4, <1>6
    <3> HIDE DEF s, n
    <3>2. s[n + 1] = t[1] /\ s[n + 2] = t[2] /\ s[n + 3] = t[3]
      BY <3>1
    <3> QED
      BY <3>2 DEF s, n
  <2> QED
    BY <1>1, <1>4, <2>1, <2>2
<1>8. ASSUME NEW k \in 0 .. Rounds - 1 PROVE TurnAt(Prog(0), 0, 1, k)
  <2>1. \A j \in 1 .. 6 : 6 * k + j \in 1 .. 6 * Rounds
    BY RoundsAssumption
  <2>2. \A j \in 1 .. 6 : Prog(0)[6 * k + j] = r[6 * k + j]
    BY <1>1, <1>2, <1>6, <2>1
  <2>3. TurnAt(r, 0, 1, k)
    BY <1>2
  <2> QED
    BY <2>2, <2>3 DEF TurnAt
<1>9. ASSUME NEW h \in Harts, NEW k \in 0 .. Rounds - 1 PROVE TurnAt(Prog(h), h, 1 - h, k)
  <2>1. CASE h = 0
    BY <1>8, <2>1
  <2>2. CASE h = 1
    BY <1>3, <2>2
  <2> QED
    BY <2>1, <2>2 DEF Harts
<1> QED
  BY <1>1, <1>3, <1>7, <1>9

\* The hart that has the turn goes on.
LEMMA TurnHart ==
    ASSUME Shape, test = "P4.4", [Runs]_vars, NEW h \in Harts, NEW i \in 0 .. Rounds,
           HasTurn(h, i), Hart(h)
    PROVE  HasTurn(h, i)' /\ Calm
<1>0. /\ 1 - h \in Harts /\ 1 - h # h /\ Rounds \in Nat \ {0} /\ h \in {0, 1}
      /\ "count" \in Locs /\ "turn" \in Locs
  BY TwoHarts, RoundsAssumption DEF Locs, Harts
<1>1. /\ pc[h] <= Len(Prog(h)) /\ Op(h) = Prog(h)[pc[h]] /\ pc'[h] = pc[h] + 1
      /\ pc'[1 - h] = pc[1 - h] /\ buf'[1 - h] = buf[1 - h]
  BY <1>0, HartFrame
<1>2. SUFFICES mem' = mem /\ Holding(h, i, 2 * i + h)' /\ Calm
  BY <1>1, <1>2 DEF HasTurn
<1>3. Holding(h, i, 2 * i + h) /\ i + h <= Rounds
  BY DEF HasTurn
<1>4. i = Rounds => h = 0
  BY <1>0, <1>3
<1>5. Prog(h)[6 * i + 1] = Spin("turn", h) /\ Prog(h)[6 * i + 2] = FenceR
  <2>1. CASE i = Rounds
    BY <1>4, <2>1, TurnOps
  <2>2. CASE i # Rounds
    <3>1. i \in 0 .. Rounds - 1
      BY <1>0, <2>2
    <3> QED
      BY <3>1, TurnOps DEF TurnAt
  <2> QED
    BY <2>1, <2>2
<1>6. CASE pc[h] = 6 * i + 1
  <2>1. mem' = mem /\ buf' = buf /\ Calm
    BY <1>1, <1>5, <1>6, DoSpin
  <2> QED
    BY <1>0, <1>1, <1>3, <1>6, <2>1 DEF Holding
<1>7. CASE pc[h] = 6 * i + 2
  <2>1. early'[h] = {} /\ mem' = mem /\ buf' = buf /\ Calm
    BY <1>1, <1>5, <1>7, DoFenceR
  <2>2. Fresh(h, "count")'
    BY <2>1 DEF Fresh
  <2> QED
    <3>1. buf[h] = <<>> /\ mem["count"] = 2 * i + h
      BY <1>0, <1>3, <1>7 DEF Holding
    <3> QED
      BY <1>1, <1>7, <2>1, <2>2, <3>1 DEF Holding
<1>8. CASE i = Rounds /\ pc[h] > 6 * i + 2
  <2>1. h = 0 /\ pc[h] = 6 * i + 3
    BY <1>0, <1>1, <1>3, <1>4, <1>8, TurnOps DEF Holding
  <2>2. buf[h] = <<>> /\ mem["count"] = 2 * Rounds /\ Fresh(h, "count")
    BY <1>3, <1>8, <2>1 DEF Holding
  <2>3. Op(h) = Assert("count", 2 * Rounds)
    BY <1>1, <1>8, <2>1, TurnOps
  <2>4. mem' = mem /\ buf' = buf /\ Calm
    BY <2>2, <2>3, DoAssert
  <2> QED
    BY <1>1, <1>3, <1>8, <2>1, <2>2, <2>4 DEF Holding
<1>9. CASE i < Rounds
  <2>0. /\ Prog(h)[6 * i + 3] = Ld("count") /\ Prog(h)[6 * i + 4] = StInc("count")
        /\ Prog(h)[6 * i + 5] = FenceW /\ Prog(h)[6 * i + 6] = St("turn", 1 - h)
    <3>1. i \in 0 .. Rounds - 1
      BY <1>0, <1>9
    <3> QED
      BY <3>1, TurnOps DEF TurnAt
  <2>1. CASE pc[h] = 6 * i + 3
    <3>1. buf[h] = <<>> /\ mem["count"] = 2 * i + h /\ Fresh(h, "count")
      BY <1>3, <2>1 DEF Holding
    <3>2. mem' = mem /\ buf' = buf /\ reg'[h] = mem["count"] /\ Calm
      BY <1>1, <2>0, <2>1, <3>1, DoLd
    <3> QED
      BY <1>1, <1>9, <2>1, <3>1, <3>2 DEF Holding
  <2>2. CASE pc[h] = 6 * i + 4
    <3>1. buf[h] = <<>> /\ mem["count"] = 2 * i + h /\ reg[h] = 2 * i + h
      BY <1>3, <1>9, <2>2 DEF Holding
    <3>2. mem' = mem /\ buf'[h] = Append(buf[h], St("count", reg[h] + 1)) /\ Calm
      BY <1>1, <2>0, <2>2, DoStInc
    <3>3. buf'[h] = <<St("count", (2 * i + h) + 1)>>
      BY <3>1, <3>2
    <3> QED
      BY <1>1, <1>9, <2>2, <3>1, <3>2, <3>3 DEF Holding
  <2>3. CASE pc[h] = 6 * i + 5
    <3>1. buf[h] = <<>> /\ mem' = mem /\ buf' = buf /\ Calm
      BY <1>1, <2>0, <2>3, DoFenceW
    <3>2. mem["count"] = (2 * i + h) + 1
      BY <1>3, <2>3, <3>1 DEF Holding
    <3> QED
      BY <1>1, <1>9, <2>3, <3>1, <3>2 DEF Holding
  <2>4. CASE pc[h] = 6 * i + 6
    <3>1. buf[h] = <<>> /\ mem["count"] = (2 * i + h) + 1
      BY <1>3, <2>4 DEF Holding
    <3>2. mem' = mem /\ buf'[h] = Append(buf[h], St("turn", 1 - h)) /\ Calm
      BY <1>1, <2>0, <2>4, DoSt
    <3>3. buf'[h] = <<St("turn", 1 - h)>>
      BY <3>1, <3>2
    <3> QED
      BY <1>1, <1>9, <2>4, <3>1, <3>2, <3>3 DEF Holding
  <2>5. CASE pc[h] = 6 * i + 7
    \* the turn is still on its way back
    <3>1. buf[h] = <<St("turn", 1 - h)>> /\ 6 * (i + 1) + 1 = pc[h]
      BY <1>0, <1>3, <2>5 DEF Holding
    <3>2. Op(h) = Spin("turn", h)
      <4>1. CASE i + 1 < Rounds
        <5>1. i + 1 \in 0 .. Rounds - 1
          BY <1>0, <4>1
        <5>2. Prog(h)[6 * (i + 1) + 1] = Spin("turn", h)
          BY <5>1, TurnOps DEF TurnAt
        <5> QED
          BY <1>1, <3>1, <5>2
      <4>2. CASE i + 1 = Rounds
        <5>1. h = 0
          BY <1>0, <1>1, <3>1, <4>2, TurnOps
        <5> QED
          BY <1>1, <3>1, <4>2, <5>1, TurnOps
      <4> QED
        BY <1>0, <1>9, <4>1, <4>2
    <3>3. Settled(h, "turn")
      BY <3>2, DoSpin
    <3>4. 1 \in DOMAIN buf[h] /\ buf[h][1] = St("turn", 1 - h)
      BY <3>1
    <3> QED
      BY <3>3, <3>4 DEF Settled, St
  <2> QED
    BY <1>3, <1>6, <1>7, <2>1, <2>2, <2>3, <2>4, <2>5 DEF Holding
<1>10. pc[h] = 6 * i + 1 \/ pc[h] = 6 * i + 2 \/ pc[h] > 6 * i + 2
  BY <1>0, <1>3 DEF Holding
<1> QED
  BY <1>0, <1>6, <1>7, <1>8, <1>9, <1>10

\* P4.4: the turn alternates and every increment counts.
LEMMA TurnStep ==
    ASSUME Shape, Clean, test = "P4.4", TurnInv, [Runs]_vars
    PROVE  TurnInv' /\ Clean'
<1>1. PICK h \in Harts, i \in 0 .. Rounds : HasTurn(h, i)
  BY DEF TurnInv
<1>0. /\ 1 - h \in Harts /\ 1 - h # h /\ Harts = {h, 1 - h} /\ 1 - (1 - h) = h
      /\ Rounds \in Nat \ {0} /\ h \in {0, 1} /\ "count" \in Locs /\ "turn" \in Locs
      /\ "count" # "turn"
  BY TwoHarts, RoundsAssumption DEF Locs, Harts
<1>2. Test(test).final = {}
  BY TurnOps
<1>3. CASE Idle /\ Clean'
  <2>1. Fresh(h, "count") => Fresh(h, "count")'
    BY <1>3, FreshKept DEF Idle
  <2>2. HasTurn(h, i)'
    BY <1>1, <1>3, <2>1 DEF Idle, HasTurn, Holding
  <2> QED
    BY <1>3, <2>2 DEF TurnInv
<1>4. CASE Hart(h)
  <2>1. HasTurn(h, i)' /\ Calm
    BY <1>1, <1>4, TurnHart
  <2> QED
    BY <2>1, CalmClean DEF TurnInv
<1>5. CASE Hart(1 - h)
  <2> DEFINE j == i + h
  <2>0. /\ pc[1 - h] <= Len(Prog(1 - h)) /\ Op(1 - h) = Prog(1 - h)[pc[1 - h]]
        /\ pc[1 - h] = 6 * j + 1 /\ mem["turn"] = h
    BY <1>0, <1>1, <1>5, Executed DEF HasTurn, Op
  <2>1. j \in 0 .. Rounds
    BY <1>0, <1>1 DEF HasTurn
  <2> HIDE DEF j
  <2>2. Op(1 - h) = Spin("turn", 1 - h)
    <3>1. CASE j < Rounds
      <4>1. j \in 0 .. Rounds - 1
        BY <1>0, <2>1, <3>1
      <4>2. TurnAt(Prog(1 - h), 1 - h, 1 - (1 - h), j)
        BY <1>0, <4>1, TurnOps
      <4> QED
        BY <2>0, <4>2 DEF TurnAt
    <3>2. CASE j = Rounds
      <4>1. 1 - h = 0
        BY <1>0, <2>0, <3>2, TurnOps
      <4> QED
        BY <2>0, <3>2, <4>1, TurnOps
    <3> QED
      BY <1>0, <2>1, <3>1, <3>2
  <2>3. mem["turn"] = 1 - h
    BY <1>0, <1>5, <2>2, DoSpin
  <2> QED
    BY <1>0, <2>0, <2>3
<1>6. CASE Drain(h)
  <2>0. /\ pc' = pc /\ Calm /\ buf[h] # <<>> /\ buf'[1 - h] = buf[1 - h]
    BY <1>0, <1>6, DrainFrame
  <2>1. CASE pc[h] = 6 * i + 5
    <3>1. buf[h] = <<St("count", (2 * i + h) + 1)>> /\ i < Rounds
      BY <1>0, <1>1, <2>0, <2>1 DEF HasTurn, Holding
    <3>2. buf'[h] = <<>> /\ mem' = Apply(St("count", (2 * i + h) + 1), mem)
      BY <1>6, <3>1, DrainOne
    <3>3. mem'["count"] = (2 * i + h) + 1 /\ mem'["turn"] = mem["turn"]
      BY <1>0, <3>2, ApplySt
    <3>4. Holding(h, i, 2 * i + h)'
      BY <2>0, <2>1, <3>1, <3>2, <3>3 DEF Holding
    <3>5. HasTurn(h, i)'
      BY <1>1, <2>0, <3>3, <3>4 DEF HasTurn
    <3> QED
      BY <2>0, <3>5, CalmClean DEF TurnInv
  <2>2. CASE pc[h] = 6 * i + 7
    <3>1. /\ buf[h] = <<St("turn", 1 - h)>> /\ i < Rounds /\ mem["count"] = (2 * i + h) + 1
          /\ pc[1 - h] = 6 * (i + h) + 1 /\ buf[1 - h] = <<>> /\ i + h <= Rounds
      BY <1>0, <1>1, <2>0, <2>2 DEF HasTurn, Holding
    <3>2. buf'[h] = <<>> /\ mem' = Apply(St("turn", 1 - h), mem)
      BY <1>6, <3>1, DrainOne
    <3>3. mem'["turn"] = 1 - h /\ mem'["count"] = mem["count"]
      BY <1>0, <3>2, ApplySt
    <3>4. /\ i + h \in 0 .. Rounds /\ (i + h) + (1 - h) = i + 1 /\ i + 1 <= Rounds
          /\ 2 * (i + h) + (1 - h) = (2 * i + h) + 1
      BY <1>0, <3>1
    <3>5. Holding(1 - h, i + h, 2 * (i + h) + (1 - h))'
      BY <2>0, <3>1, <3>3, <3>4 DEF Holding
    <3>6. HasTurn(1 - h, i + h)'
      <4>1. pc'[h] = 6 * ((i + h) + (1 - h)) + 1
        BY <2>0, <2>2, <3>4
      <4> QED
        BY <1>0, <3>2, <3>3, <3>4, <3>5, <4>1 DEF HasTurn
    <3> QED
      BY <1>0, <2>0, <3>4, <3>6, CalmClean DEF TurnInv
  <2> QED
    BY <1>1, <2>0, <2>1, <2>2 DEF HasTurn, Holding
<1>7. CASE Drain(1 - h)
  BY <1>0, <1>1, <1>7, DrainFrame DEF HasTurn
<1> QED
  BY <1>0, <1>2, <1>3, <1>4, <1>5, <1>6, <1>7, StepCases

-----------------------------------------------------------------------------
(***************************************************************************)
(* The ponger of Zephyr's ping-pong has counted i rounds.                  *)
(***************************************************************************)
Ponging(i) ==
    \/ pc[1] = 4 * i + 1 /\ buf[1] = <<>> /\ mem["pong_rounds"] = i
    \/ /\ pc[1] = 4 * i + 2 /\ buf[1] = <<>> /\ mem["pong_rounds"] = i
       /\ Fresh(1, "pong_rounds")
    \/ pc[1] = 4 * i + 3 /\ buf[1] = <<>> /\ mem["pong_rounds"] = i /\ reg[1] = i
    \/ pc[1] = 4 * i + 4 /\ buf[1] = <<St("pong_rounds", i + 1)>> /\ mem["pong_rounds"] = i
    \/ pc[1] = 4 * i + 4 /\ buf[1] = <<>> /\ mem["pong_rounds"] = i + 1
PongInv ==
    /\ pc[0] \in Nat \ {0} /\ buf[0] = <<>>
    /\ \E i \in 0 .. Rounds : Ponging(i) /\ (i = Rounds => pc[1] = 4 * i + 1)

\* The ponger counts every round once.
LEMMA PongStep ==
    ASSUME Shape, Clean, test = PingPong, PongInv, [Runs]_vars
    PROVE  PongInv' /\ Clean'
<1>0. /\ \A i \in 1 .. Len(Prog(0)) : Prog(0)[i].op \in {"give", "take"}
      /\ Test(test).final = {<<"pong_rounds", Rounds>>}
  <2> DEFINE a == <<Give("ping"), Take("pong")>>
             S == {Give("ping"), Take("pong")}
  <2>1. Test(test) = Pair(test_ping_pong, ponger_entry, {<<"pong_rounds", Rounds>>})
    BY Programs DEF PingPong
  <2>2. Prog(0) = Repeat(a) /\ Test(test).final = {<<"pong_rounds", Rounds>>}
    BY <2>1, ProgOf DEF test_ping_pong
  <2>3. a \in Seq(S) /\ Len(a) > 0
    OBVIOUS
  <2>4. \A o \in S : o.op \in {"give", "take"}
    BY DEF Give, Take
  <2> HIDE DEF a, S
  <2>5. Prog(0) \in Seq(S)
    BY <2>2, <2>3, RepeatAt
  <2> QED
    BY <2>2, <2>4, <2>5
<1>1. PICK i \in 0 .. Rounds : Ponging(i) /\ (i = Rounds => pc[1] = 4 * i + 1)
  BY DEF PongInv
<1>2. /\ 0 \in Harts /\ 1 \in Harts /\ Harts = {0, 1} /\ Rounds \in Nat \ {0}
      /\ "pong_rounds" \in Locs
  BY RoundsAssumption DEF Harts, Locs
<1>3. Over => \A f \in Test(test).final : mem[f[1]] = f[2]
  <2> SUFFICES ASSUME Over PROVE mem["pong_rounds"] = Rounds
    BY <1>0
  <2>1. pc[1] > 4 * Rounds
    BY <1>2, PingPongOps DEF Over
  <2> QED
    BY <1>1, <1>2, <2>1 DEF Ponging
<1>4. ASSUME mem'["pong_rounds"] = mem["pong_rounds"], buf'[1] = buf[1], pc'[1] = pc[1],
             reg'[1] = reg[1], buf'[0] = <<>>, pc'[0] \in Nat \ {0}
      PROVE  PongInv'
  <2>1. Fresh(1, "pong_rounds") => Fresh(1, "pong_rounds")'
    BY <1>2, <1>4, FreshKept
  <2>2. Ponging(i)' /\ (i = Rounds => pc'[1] = 4 * i + 1)
    BY <1>1, <1>4, <2>1 DEF Ponging
  <2> QED
    BY <1>4, <2>2 DEF PongInv
<1>5. CASE Idle /\ Clean'
  BY <1>4, <1>5 DEF Idle, PongInv
<1>6. CASE Hart(0)
  <2>1. /\ pc[0] <= Len(Prog(0)) /\ Op(0) = Prog(0)[pc[0]] /\ pc'[0] = pc[0] + 1
        /\ pc'[1] = pc[1] /\ buf'[1] = buf[1] /\ reg'[1] = reg[1]
    BY <1>2, <1>6, HartFrame
  <2>2. pc[0] \in 1 .. Len(Prog(0))
    BY <2>1, PingPongOps, RoundsAssumption DEF PongInv
  <2>3. Op(0).op \in {"give", "take"}
    BY <1>0, <2>1, <2>2
  <2>4. buf' = buf /\ mem' = mem /\ Calm
    BY <1>2, <1>6, <2>3, DoSem
  <2>5. PongInv'
    BY <1>4, <2>1, <2>4 DEF PongInv
  <2> QED
    BY <2>4, <2>5, CalmClean
<1>7. CASE Hart(1)
  <2>1. /\ pc[1] <= 4 * Rounds /\ Op(1) = Prog(1)[pc[1]] /\ pc'[1] = pc[1] + 1
        /\ pc'[0] = pc[0] /\ buf'[0] = buf[0]
    <3>1. /\ pc[1] <= Len(Prog(1)) /\ Op(1) = Prog(1)[pc[1]] /\ pc'[1] = pc[1] + 1
          /\ pc'[0] = pc[0] /\ buf'[0] = buf[0]
      BY <1>2, <1>7, HartFrame
    <3> QED
      BY <3>1, PingPongOps
  <2>2. i \in 0 .. Rounds - 1
    BY <1>1, <1>2, <2>1
  <2>3. /\ Prog(1)[4 * i + 1] = Take("ping") /\ Prog(1)[4 * i + 2] = Ld("pong_rounds")
        /\ Prog(1)[4 * i + 3] = StInc("pong_rounds") /\ Prog(1)[4 * i + 4] = Give("pong")
    BY <2>2, PingPongOps
  <2>4. pc'[0] \in Nat \ {0} /\ buf'[0] = <<>>
    BY <2>1 DEF PongInv
  <2>5. SUFFICES Calm /\ (Ponging(i)' \/ (Ponging(i + 1)' /\ pc'[1] = 4 * (i + 1) + 1))
    <3>1. i + 1 \in 0 .. Rounds /\ i # Rounds
      BY <1>2, <2>2
    <3>2. CASE Ponging(i)'
      BY <2>4, <2>5, <3>1, <3>2, CalmClean DEF PongInv
    <3>3. CASE Ponging(i + 1)' /\ pc'[1] = 4 * (i + 1) + 1
      BY <2>4, <2>5, <3>1, <3>3, CalmClean DEF PongInv
    <3> QED
      BY <2>5, <3>2, <3>3
  <2>6. CASE pc[1] = 4 * i + 1
    <3>1. Op(1).op \in {"give", "take"} /\ mem["pong_rounds"] = i
      BY <1>1, <2>1, <2>3, <2>6 DEF Take, Ponging
    <3>2. buf[1] = <<>> /\ early'[1] = {} /\ buf' = buf /\ mem' = mem /\ Calm
      BY <1>2, <1>7, <3>1, DoSem
    <3>3. Fresh(1, "pong_rounds")'
      BY <3>2 DEF Fresh
    <3> QED
      BY <2>1, <2>2, <2>6, <3>1, <3>2, <3>3 DEF Ponging
  <2>7. CASE pc[1] = 4 * i + 2
    <3>1. buf[1] = <<>> /\ mem["pong_rounds"] = i /\ Fresh(1, "pong_rounds")
      BY <1>1, <2>7 DEF Ponging
    <3>2. mem' = mem /\ buf' = buf /\ reg'[1] = mem["pong_rounds"] /\ Calm
      BY <1>2, <1>7, <2>1, <2>3, <2>7, <3>1, DoLd
    <3> QED
      BY <2>1, <2>2, <2>7, <3>1, <3>2 DEF Ponging
  <2>8. CASE pc[1] = 4 * i + 3
    <3>1. buf[1] = <<>> /\ mem["pong_rounds"] = i /\ reg[1] = i
      BY <1>1, <2>8 DEF Ponging
    <3>2. mem' = mem /\ buf'[1] = Append(buf[1], St("pong_rounds", reg[1] + 1)) /\ Calm
      BY <1>2, <1>7, <2>1, <2>3, <2>8, DoStInc
    <3>3. buf'[1] = <<St("pong_rounds", i + 1)>>
      BY <3>1, <3>2
    <3> QED
      BY <2>1, <2>2, <2>8, <3>1, <3>2, <3>3 DEF Ponging
  <2>9. CASE pc[1] = 4 * i + 4
    <3>1. Op(1).op \in {"give", "take"}
      BY <2>1, <2>3, <2>9 DEF Give
    <3>2. buf[1] = <<>> /\ buf' = buf /\ mem' = mem /\ Calm
      BY <1>2, <1>7, <3>1, DoSem
    <3>3. mem["pong_rounds"] = i + 1
      BY <1>1, <2>9, <3>2 DEF Ponging
    <3>4. pc'[1] = 4 * (i + 1) + 1
      BY <2>1, <2>2, <2>9
    <3> QED
      BY <3>2, <3>3, <3>4 DEF Ponging
  <2> QED
    BY <1>1, <2>6, <2>7, <2>8, <2>9 DEF Ponging
<1>8. CASE Drain(0)
  BY <1>2, <1>8, DrainFrame DEF PongInv
<1>9. CASE Drain(1)
  <2>0. pc' = pc /\ Calm /\ buf[1] # <<>> /\ buf'[0] = buf[0]
    BY <1>2, <1>9, DrainFrame
  <2>1. pc[1] = 4 * i + 4 /\ buf[1] = <<St("pong_rounds", i + 1)>>
    BY <1>1, <2>0 DEF Ponging
  <2>2. buf'[1] = <<>> /\ mem' = Apply(St("pong_rounds", i + 1), mem)
    BY <1>2, <1>9, <2>1, DrainOne
  <2>3. mem'["pong_rounds"] = i + 1
    BY <1>2, <2>2, ApplySt
  <2>4. Ponging(i)' /\ (i = Rounds => pc'[1] = 4 * i + 1)
    BY <1>1, <2>0, <2>1, <2>2, <2>3 DEF Ponging
  <2>5. PongInv'
    BY <2>0, <2>4 DEF PongInv
  <2> QED
    BY <2>0, <2>5, CalmClean
<1> QED
  BY <1>2, <1>3, <1>5, <1>6, <1>7, <1>8, <1>9, StepCases

-----------------------------------------------------------------------------
(***************************************************************************)
(* P4.3 on harts that keep loads in order.  Hart h is in its critical      *)
(* section or has not let go of the lock, or the lock is free; the harts   *)
(* have done i and j rounds.                                               *)
(***************************************************************************)
CritAt(p, k) ==
    /\ p[6 * k + 1] = Lock("lock") /\ p[6 * k + 2] = FenceR
    /\ p[6 * k + 3] = Ld("var") /\ p[6 * k + 4] = StInc("var")
    /\ p[6 * k + 5] = FenceW /\ p[6 * k + 6] = St("lock", 0)
CritSet == {Lock("lock"), FenceR, Ld("var"), StInc("var"), FenceW, St("lock", 0),
            St("done", 1), Spin("done", 1), Assert("var", 2 * Rounds)}

\* Before round i, or in what follows the last round.
Before(h, i) ==
    \/ pc[h] = 6 * i + 1
    \/ i = Rounds /\ pc[h] = 6 * i + 2
    \/ i = Rounds /\ pc[h] = 6 * i + 3
\* Without the lock and nothing of it in the buffer.
Without(h, i) ==
    /\ Before(h, i)
    /\ \/ buf[h] = <<>>
       \/ h = 1 /\ pc[h] = 6 * Rounds + 3 /\ buf[h] = <<St("done", 1)>>
\* In round i with the lock; var was c.
WithLock(h, i, c) ==
    \/ pc[h] = 6 * i + 2 /\ buf[h] = <<>> /\ mem["var"] = c
    \/ pc[h] = 6 * i + 3 /\ buf[h] = <<>> /\ mem["var"] = c
    \/ pc[h] = 6 * i + 4 /\ buf[h] = <<>> /\ mem["var"] = c /\ reg[h] = c
    \/ pc[h] = 6 * i + 5 /\ buf[h] = <<St("var", c + 1)>> /\ mem["var"] = c
    \/ pc[h] = 6 * i + 5 /\ buf[h] = <<>> /\ mem["var"] = c + 1
    \/ pc[h] = 6 * i + 6 /\ buf[h] = <<>> /\ mem["var"] = c + 1
\* The release is in the buffer: the lock is still taken in memory.
Releasing(h, i, c) ==
    /\ Before(h, i + 1) /\ (h = 1 => pc[h] = 6 * (i + 1) + 1)
    /\ buf[h] = <<St("lock", 0)>> /\ mem["var"] = c + 1

\* At most one hart has the lock; var counts the rounds done.
Mutex(h, i, j) ==
    /\ Without(1 - h, j)
    /\ \/ mem["lock"] = 0 /\ Without(h, i) /\ mem["var"] = i + j
       \/ /\ mem["lock"] = 1 /\ i < Rounds
          /\ WithLock(h, i, i + j) \/ Releasing(h, i, i + j)
\* Hart 0 goes past its wait only when hart 1 has finished.
Finish ==
    /\ mem["done"] = 1 => pc[1] = 6 * Rounds + 3
    /\ pc[0] > 6 * Rounds + 1 => pc[1] = 6 * Rounds + 3
LockInv == Finish /\ \E h \in Harts, i, j \in 0 .. Rounds : Mutex(h, i, j)

\* The critical sections that both harts repeat, round by round.
LEMMA CriticalBody ==
    /\ Repeat(Critical) \in Seq(CritSet) /\ Len(Repeat(Critical)) = 6 * Rounds
    /\ \A k \in 0 .. Rounds - 1 : CritAt(Repeat(Critical), k)
<1> DEFINE p == <<Lock("lock"), FenceR>>
           q == <<Ld("var"), StInc("var")>>
           r == <<FenceRW, St("lock", 0)>>
           b == (p \o q) \o r
<1>1. b = Critical
  BY DEF Critical, spinlock_acquire, spinlock_release
<1>2. /\ p \in Seq(CritSet) /\ Len(p) = 2 /\ p[1] = Lock("lock") /\ p[2] = FenceR
      /\ q \in Seq(CritSet) /\ Len(q) = 2 /\ q[1] = Ld("var") /\ q[2] = StInc("var")
      /\ r \in Seq(CritSet) /\ Len(r) = 2 /\ r[1] = FenceW /\ r[2] = St("lock", 0)
  BY DEF CritSet, FenceRW, FenceW
<1> HIDE DEF p, q, r
<1>3. /\ p \o q \in Seq(CritSet) /\ Joined(p \o q, p, q)
  BY <1>2, JoinedAt
<1>4. /\ b \in Seq(CritSet) /\ Len(b) = 6 /\ b[1] = p[1] /\ b[2] = p[2] /\ b[3] = q[1]
      /\ b[4] = q[2] /\ b[5] = r[1] /\ b[6] = r[2]
  <2> DEFINE s == p \o q
             u == s \o r
  <2>1. s \in Seq(CritSet) /\ Joined(s, p, q)
    BY <1>3
  <2> HIDE DEF s
  <2>2. u \in Seq(CritSet) /\ Joined(u, s, r)
    BY <1>2, <2>1, JoinedAt
  <2> HIDE DEF u
  <2>3. Len(s) = 4 /\ s[1] = p[1] /\ s[2] = p[2] /\ s[3] = q[1] /\ s[4] = q[2]
    BY <1>2, <2>1 DEF Joined
  <2>4. /\ Len(u) = 6 /\ u[1] = s[1] /\ u[2] = s[2] /\ u[3] = s[3] /\ u[4] = s[4]
        /\ u[5] = r[1] /\ u[6] = r[2]
    BY <1>2, <2>2, <2>3 DEF Joined
  <2> QED
    BY <2>2, <2>3, <2>4 DEF s, u
<1> HIDE DEF b
<1>5. /\ Repeat(b) \in Seq(CritSet) /\ Len(Repeat(b)) = 6 * Rounds
      /\ \A k \in 0 .. Rounds - 1, j \in 1 .. 6 : Repeat(b)[6 * k + j] = b[j]
  BY <1>4, Repeat6
<1>6. ASSUME NEW k \in 0 .. Rounds - 1 PROVE CritAt(Repeat(b), k)
  <2>1. \A j \in 1 .. 6 : Repeat(b)[6 * k + j] = b[j]
    BY <1>5
  <2> QED
    BY <1>2, <1>4, <2>1 DEF CritAt
<1> QED
  BY <1>1, <1>5, <1>6

\* A program that repeats the critical section and ends in two operations.
EndsIn(p, x, y) ==
    /\ Len(p) = 6 * Rounds + 2 /\ p[6 * Rounds + 1] = x /\ p[6 * Rounds + 2] = y
    /\ \A k \in 0 .. Rounds - 1 : CritAt(p, k)
\* What follows the last critical section.
LEMMA CriticalThen ==
    ASSUME NEW x \in CritSet, NEW y \in CritSet
    PROVE  EndsIn(Repeat(Critical) \o <<x, y>>, x, y)
<1> DEFINE r == Repeat(Critical)
           t == <<x, y>>
           n == 6 * Rounds
           p == r \o t
<1>1. r \in Seq(CritSet) /\ Len(r) = n /\ \A k \in 0 .. Rounds - 1 : CritAt(r, k)
  BY CriticalBody
<1>2. t \in Seq(CritSet) /\ Len(t) = 2 /\ t[1] = x /\ t[2] = y /\ n \in Nat
  BY RoundsAssumption
<1> HIDE DEF r, t, n
<1>3. Joined(p, r, t)
  BY <1>1, <1>2, JoinedAt
<1> HIDE DEF p
<1>4. /\ Len(p) = n + 2 /\ p[n + 1] = x /\ p[n + 2] = y
      /\ \A i \in 1 .. n : p[i] = r[i]
  BY <1>1, <1>2, <1>3 DEF Joined
<1>5. ASSUME NEW k \in 0 .. Rounds - 1 PROVE CritAt(p, k)
  <2>1. \A j \in 1 .. 6 : 6 * k + j \in 1 .. n
    BY RoundsAssumption DEF n
  <2>2. \A j \in 1 .. 6 : p[6 * k + j] = r[6 * k + j]
    BY <1>4, <2>1
  <2>3. CritAt(r, k)
    BY <1>1
  <2> QED
    BY <2>2, <2>3 DEF CritAt
<1>6. Len(p) = 6 * Rounds + 2 /\ p[6 * Rounds + 1] = x /\ p[6 * Rounds + 2] = y
  BY <1>4 DEF n
<1>7. p = Repeat(Critical) \o <<x, y>>
  BY DEF p, r, t
<1>8. EndsIn(p, x, y)
  BY <1>5, <1>6 DEF EndsIn
<1> QED
  BY <1>7, <1>8

\* P4_3 and core1_spinlock_worker, place by place.
LEMMA LockOps ==
    ASSUME test = "P4.3"
    PROVE  /\ \A h \in Harts : /\ Len(Prog(h)) = 6 * Rounds + 2
                               /\ \A k \in 0 .. Rounds - 1 : CritAt(Prog(h), k)
           /\ Prog(0)[6 * Rounds + 1] = Spin("done", 1)
           /\ Prog(0)[6 * Rounds + 2] = Assert("var", 2 * Rounds)
           /\ Prog(1)[6 * Rounds + 1] = FenceW
           /\ Prog(1)[6 * Rounds + 2] = St("done", 1)
           /\ Test(test).final = {}
<1>1. Test(test) = Pair(P4_3, core1_spinlock_worker, {})
  BY Programs
<1>2. Prog(0) = P4_3 /\ Prog(1) = core1_spinlock_worker /\ Test(test).final = {}
  BY <1>1, ProgOf
<1>3. /\ Spin("done", 1) \in CritSet /\ Assert("var", 2 * Rounds) \in CritSet
      /\ FenceW \in CritSet /\ St("done", 1) \in CritSet
  BY DEF CritSet
<1>4. /\ Len(Prog(0)) = 6 * Rounds + 2 /\ Prog(0)[6 * Rounds + 1] = Spin("done", 1)
      /\ Prog(0)[6 * Rounds + 2] = Assert("var", 2 * Rounds)
      /\ \A k \in 0 .. Rounds - 1 : CritAt(Prog(0), k)
  <2>1. Prog(0) = Repeat(Critical) \o <<Spin("done", 1), Assert("var", 2 * Rounds)>>
    BY <1>2 DEF P4_3
  <2>2. EndsIn(Prog(0), Spin("done", 1), Assert("var", 2 * Rounds))
    BY <1>3, <2>1, CriticalThen
  <2> QED
    BY <2>2 DEF EndsIn
<1>5. /\ Len(Prog(1)) = 6 * Rounds + 2 /\ Prog(1)[6 * Rounds + 1] = FenceW
      /\ Prog(1)[6 * Rounds + 2] = St("done", 1)
      /\ \A k \in 0 .. Rounds - 1 : CritAt(Prog(1), k)
  <2>1. Prog(1) = Repeat(Critical) \o <<FenceW, St("done", 1)>>
    BY <1>2 DEF core1_spinlock_worker
  <2>2. EndsIn(Prog(1), FenceW, St("done", 1))
    BY <1>3, <2>1, CriticalThen
  <2> QED
    BY <2>2 DEF EndsIn
<1> QED
  BY <1>2, <1>4, <1>5 DEF Harts

\* The names and numbers that the proofs about the lock use.
LEMMA LockFacts ==
    /\ Rounds \in Nat \ {0} /\ "lock" \in Locs /\ "var" \in Locs /\ "done" \in Locs
    /\ "lock" # "var" /\ "lock" # "done" /\ "var" # "done"
BY RoundsAssumption DEF Locs

\* After its last round: the done flag, or its wait and the assertion.
LEMMA LockEnd ==
    ASSUME Shape, NoneEarly, test = "P4.3", NEW x \in Harts, Without(x, Rounds), Hart(x),
           x = 0 /\ pc[x] = 6 * Rounds + 2 => mem["var"] = 2 * Rounds
    PROVE  Without(x, Rounds)' /\ mem' = mem /\ Calm
<1>0. /\ pc[x] <= 6 * Rounds + 2 /\ Op(x) = Prog(x)[pc[x]] /\ pc'[x] = pc[x] + 1
      /\ Rounds \in Nat \ {0} /\ x \in {0, 1} /\ buf[x] = <<>>
  <2>1. /\ pc[x] <= Len(Prog(x)) /\ Op(x) = Prog(x)[pc[x]] /\ pc'[x] = pc[x] + 1
    BY TwoHarts, HartFrame
  <2>2. pc[x] <= 6 * Rounds + 2
    BY <2>1, LockOps
  <2> QED
    BY <2>1, <2>2, LockFacts DEF Harts, Without, Before
<1>1. CASE pc[x] = 6 * Rounds + 1
  <2>1. Op(x) = Spin("done", 1) \/ Op(x) = FenceW
    BY <1>0, <1>1, LockOps
  <2>2. mem' = mem /\ buf' = buf /\ Calm
    BY <2>1, DoSpin, DoFenceW
  <2> QED
    BY <1>0, <1>1, <2>2 DEF Without, Before
<1>2. CASE pc[x] = 6 * Rounds + 2 /\ x = 0
  <2>1. Op(x) = Assert("var", 2 * Rounds)
    BY <1>0, <1>2, LockOps
  <2>2. Fresh(x, "var")
    BY FreshEmpty DEF NoneEarly
  <2>3. mem' = mem /\ buf' = buf /\ Calm
    BY <1>2, <2>1, <2>2, DoAssert
  <2> QED
    BY <1>0, <1>2, <2>3 DEF Without, Before
<1>3. CASE pc[x] = 6 * Rounds + 2 /\ x = 1
  <2>1. Op(x) = St("done", 1)
    BY <1>0, <1>3, LockOps
  <2>2. mem' = mem /\ buf'[x] = Append(buf[x], St("done", 1)) /\ Calm
    BY <2>1, DoSt
  <2>7. buf'[x] = <<St("done", 1)>>
    BY <1>0, <2>2
  <2>3. buf'[1] = <<St("done", 1)>>
    BY <1>3, <2>7
  <2>4. pc'[1] = 6 * Rounds + 3
    BY <1>0, <1>3
  <2>5. Before(1, Rounds)'
    BY <2>4 DEF Before
  <2>6. Without(1, Rounds)'
    BY <2>3, <2>4, <2>5 DEF Without
  <2> QED
    BY <1>3, <2>2, <2>6
<1> QED
  BY <1>0, <1>1, <1>2, <1>3 DEF Without, Before

\* Hart 0 asserts when both are through.
LEMMA BothThrough ==
    ASSUME Finish, NEW h \in Harts, NEW i \in 0 .. Rounds, NEW j \in 0 .. Rounds,
           Mutex(h, i, j), pc[0] = 6 * Rounds + 2
    PROVE  mem["var"] = 2 * Rounds
<1>0. pc[1] = 6 * Rounds + 3 /\ Rounds \in Nat \ {0}
  BY LockFacts DEF Finish
<1>1. CASE h = 0
  <2>1. j = Rounds
    BY <1>0, <1>1 DEF Mutex, Without, Before
  <2>2. CASE Without(0, i) /\ mem["var"] = i + j
    BY <1>0, <2>1, <2>2 DEF Without, Before
  <2>3. CASE i < Rounds /\ WithLock(0, i, i + j)
    BY <1>0, <2>3 DEF WithLock
  <2>4. CASE i < Rounds /\ Releasing(0, i, i + j)
    <3>1. i + 1 = Rounds /\ mem["var"] = (i + j) + 1
      BY <1>0, <2>4 DEF Releasing, Before
    <3> QED
      BY <1>0, <2>1, <3>1
  <2> QED
    BY <1>1, <2>2, <2>3, <2>4 DEF Mutex
<1>2. CASE h = 1
  <2>1. j = Rounds
    BY <1>0, <1>2 DEF Mutex, Without, Before
  <2> QED
    BY <1>0, <1>2, <2>1 DEF Mutex, Without, Before, WithLock, Releasing
<1> QED
  BY <1>1, <1>2 DEF Harts

\* The hart that takes, holds or releases the lock goes on.
LEMMA LockHart ==
    ASSUME Shape, NoneEarly, test = "P4.3", Finish, NEW h \in Harts, NEW i \in 0 .. Rounds,
           NEW j \in 0 .. Rounds, Mutex(h, i, j), Hart(h)
    PROVE  Mutex(h, i, j)' /\ Calm /\ mem'["done"] = mem["done"]
<1>0. /\ 1 - h \in Harts /\ 1 - h # h /\ h \in {0, 1} /\ Rounds \in Nat \ {0}
      /\ "lock" \in Locs /\ "var" \in Locs /\ "done" \in Locs
      /\ "lock" # "var" /\ "lock" # "done" /\ "var" # "done"
  BY TwoHarts, LockFacts DEF Harts
<1>1. /\ pc[h] <= 6 * Rounds + 2 /\ Op(h) = Prog(h)[pc[h]] /\ pc'[h] = pc[h] + 1
      /\ pc'[1 - h] = pc[1 - h] /\ buf'[1 - h] = buf[1 - h]
  <2>1. /\ pc[h] <= Len(Prog(h)) /\ Op(h) = Prog(h)[pc[h]] /\ pc'[h] = pc[h] + 1
        /\ pc'[1 - h] = pc[1 - h] /\ buf'[1 - h] = buf[1 - h]
    BY <1>0, HartFrame
  <2> QED
    BY <2>1, LockOps
<1>2. Without(1 - h, j)'
  BY <1>1 DEF Mutex, Without, Before
<1>3. i < Rounds =>
         /\ Prog(h)[6 * i + 1] = Lock("lock") /\ Prog(h)[6 * i + 2] = FenceR
         /\ Prog(h)[6 * i + 3] = Ld("var") /\ Prog(h)[6 * i + 4] = StInc("var")
         /\ Prog(h)[6 * i + 5] = FenceW /\ Prog(h)[6 * i + 6] = St("lock", 0)
  <2> SUFFICES ASSUME i < Rounds PROVE CritAt(Prog(h), i)
    BY DEF CritAt
  <2>1. i \in 0 .. Rounds - 1
    BY <1>0
  <2> QED
    BY <2>1, LockOps
<1>4. h = 0 /\ pc[h] = 6 * Rounds + 2 => mem["var"] = 2 * Rounds
  BY BothThrough
<1>5. CASE mem["lock"] = 0
  <2>0. Without(h, i) /\ mem["var"] = i + j
    BY <1>5 DEF Mutex
  <2>1. CASE i = Rounds
    <3>1. Without(h, i)' /\ mem' = mem /\ Calm
      BY <1>4, <2>0, <2>1, LockEnd
    <3> QED
      BY <1>2, <1>5, <2>0, <3>1 DEF Mutex
  <2>2. CASE i < Rounds
    <3>1. pc[h] = 6 * i + 1 /\ buf[h] = <<>>
      BY <1>0, <2>0, <2>2 DEF Without, Before
    <3>2. mem' = [mem EXCEPT !["lock"] = 1] /\ buf' = buf /\ Calm
      BY <1>1, <1>3, <2>2, <3>1, DoLock
    <3>3. mem'["lock"] = 1 /\ mem'["var"] = mem["var"] /\ mem'["done"] = mem["done"]
      BY <1>0, <3>2, MemAt
    <3>4. WithLock(h, i, i + j)'
      BY <1>1, <2>0, <3>1, <3>2, <3>3 DEF WithLock
    <3> QED
      BY <1>2, <2>2, <3>2, <3>3, <3>4 DEF Mutex
  <2> QED
    BY <1>0, <2>1, <2>2
<1>6. CASE mem["lock"] = 1 /\ i < Rounds /\ WithLock(h, i, i + j)
  <2>0. SUFFICES mem' = mem /\ Calm /\ (WithLock(h, i, i + j)' \/ Releasing(h, i, i + j)')
    BY <1>2, <1>6, <2>0 DEF Mutex
  <2>1. CASE pc[h] = 6 * i + 2
    <3>1. mem' = mem /\ buf' = buf /\ Calm
      BY <1>1, <1>3, <1>6, <2>1, DoFenceR
    <3> QED
      BY <1>1, <1>6, <2>1, <3>1 DEF WithLock
  <2>2. CASE pc[h] = 6 * i + 3
    <3>1. buf[h] = <<>> /\ mem["var"] = i + j /\ Fresh(h, "var")
      BY <1>6, <2>2, FreshEmpty DEF WithLock, NoneEarly
    <3>2. mem' = mem /\ buf' = buf /\ reg'[h] = mem["var"] /\ Calm
      BY <1>1, <1>3, <1>6, <2>2, <3>1, DoLd
    <3> QED
      BY <1>1, <2>2, <3>1, <3>2 DEF WithLock
  <2>3. CASE pc[h] = 6 * i + 4
    <3>1. buf[h] = <<>> /\ mem["var"] = i + j /\ reg[h] = i + j
      BY <1>6, <2>3 DEF WithLock
    <3>2. mem' = mem /\ buf'[h] = Append(buf[h], St("var", reg[h] + 1)) /\ Calm
      BY <1>1, <1>3, <1>6, <2>3, DoStInc
    <3>3. buf'[h] = <<St("var", (i + j) + 1)>>
      BY <3>1, <3>2
    <3> QED
      BY <1>1, <2>3, <3>1, <3>2, <3>3 DEF WithLock
  <2>4. CASE pc[h] = 6 * i + 5
    <3>1. buf[h] = <<>> /\ mem' = mem /\ buf' = buf /\ Calm
      BY <1>1, <1>3, <1>6, <2>4, DoFenceW
    <3>2. mem["var"] = (i + j) + 1
      BY <1>6, <2>4, <3>1 DEF WithLock
    <3> QED
      BY <1>1, <2>4, <3>1, <3>2 DEF WithLock
  <2>5. CASE pc[h] = 6 * i + 6
    <3>1. buf[h] = <<>> /\ mem["var"] = (i + j) + 1
      BY <1>6, <2>5 DEF WithLock
    <3>2. mem' = mem /\ buf'[h] = Append(buf[h], St("lock", 0)) /\ Calm
      BY <1>1, <1>3, <1>6, <2>5, DoSt
    <3>3. buf'[h] = <<St("lock", 0)>>
      BY <3>1, <3>2
    <3>4. pc'[h] = 6 * (i + 1) + 1
      BY <1>1, <2>5
    <3> QED
      BY <3>1, <3>2, <3>3, <3>4 DEF Releasing, Before
  <2> QED
    BY <1>6, <2>1, <2>2, <2>3, <2>4, <2>5 DEF WithLock
<1>7. CASE mem["lock"] = 1 /\ i < Rounds /\ Releasing(h, i, i + j)
  <2>0. /\ buf[h] = <<St("lock", 0)>> /\ mem["var"] = (i + j) + 1
        /\ Before(h, i + 1) /\ (h = 1 => pc[h] = 6 * (i + 1) + 1)
    BY <1>7 DEF Releasing
  <2>1. buf[h] # <<>> /\ ~Settled(h, "lock")
    <3>1. 1 \in DOMAIN buf[h] /\ buf[h][1] = St("lock", 0)
      BY <2>0
    <3> QED
      BY <2>0, <3>1 DEF Settled, St
  <2>2. i + 1 = Rounds
    <3> SUFFICES ASSUME i + 1 # Rounds PROVE FALSE
      OBVIOUS
    <3>1. i + 1 \in 0 .. Rounds - 1 /\ pc[h] = 6 * (i + 1) + 1
      BY <1>0, <1>7, <2>0 DEF Before
    <3>2. CritAt(Prog(h), i + 1)
      BY <3>1, LockOps
    <3>3. Op(h) = Lock("lock")
      BY <1>1, <3>1, <3>2 DEF CritAt
    <3> QED
      BY <2>1, <3>3, DoLock
  <2>3. h = 0
    <3> SUFFICES ASSUME h # 0 PROVE FALSE
      OBVIOUS
    <3>1. h = 1 /\ pc[h] = 6 * Rounds + 1
      BY <1>0, <2>0, <2>2
    <3>2. Op(h) = FenceW
      BY <1>1, <3>1, LockOps
    <3> QED
      BY <2>1, <3>2, DoFenceW
  <2>4. CASE pc[h] = 6 * Rounds + 1
    <3>1. mem' = mem /\ buf' = buf /\ Calm
      BY <1>1, <2>3, <2>4, LockOps, DoSpin
    <3>2. Releasing(h, i, i + j)'
      BY <1>0, <1>1, <2>0, <2>2, <2>3, <2>4, <3>1 DEF Releasing, Before
    <3> QED
      BY <1>2, <1>7, <3>1, <3>2 DEF Mutex
  <2>5. CASE pc[h] = 6 * Rounds + 2
    <3>1. Op(h) = Assert("var", 2 * Rounds) /\ Fresh(h, "var")
      BY <1>1, <2>3, <2>5, LockOps, FreshEmpty DEF NoneEarly
    <3>2. mem' = mem /\ buf' = buf /\ Calm
      BY <1>4, <2>3, <2>5, <3>1, DoAssert
    <3>3. Releasing(h, i, i + j)'
      BY <1>0, <1>1, <2>0, <2>2, <2>3, <2>5, <3>2 DEF Releasing, Before
    <3> QED
      BY <1>2, <1>7, <3>2, <3>3 DEF Mutex
  <2> QED
    BY <1>0, <1>1, <2>0, <2>2, <2>4, <2>5 DEF Before
<1> QED
  BY <1>5, <1>6, <1>7 DEF Mutex

\* Hart 0 passes its wait for the done flag only when hart 1 has finished.
LEMMA FinishHart ==
    ASSUME Shape, test = "P4.3", Finish, NEW x \in Harts, Hart(x), pc[0] \in Nat,
           mem'["done"] = mem["done"]
    PROVE  Finish'
<1>0. 0 \in Harts /\ 1 \in Harts /\ 0 # 1 /\ x \in {0, 1} /\ Rounds \in Nat \ {0}
  BY LockFacts DEF Harts
<1>1. CASE x = 0
  <2>1. pc[0] <= Len(Prog(0)) /\ Op(0) = Prog(0)[pc[0]] /\ pc'[0] = pc[0] + 1 /\ pc'[1] = pc[1]
    BY <1>0, <1>1, HartFrame
  <2>2. CASE pc[0] > 6 * Rounds + 1
    <3>1. pc[1] = 6 * Rounds + 3
      BY <2>2 DEF Finish
    <3> QED
      BY <2>1, <3>1 DEF Finish
  <2>3. CASE pc[0] = 6 * Rounds + 1
    <3>1. Op(0) = Spin("done", 1)
      BY <2>1, <2>3, LockOps
    <3>2. mem["done"] = 1
      BY <1>0, <1>1, <3>1, DoSpin
    <3>3. pc[1] = 6 * Rounds + 3
      BY <3>2 DEF Finish
    <3> QED
      BY <2>1, <3>3 DEF Finish
  <2>4. CASE pc[0] < 6 * Rounds + 1
    <3>1. ~(pc'[0] > 6 * Rounds + 1)
      BY <1>0, <2>1, <2>4
    <3> QED
      BY <2>1, <3>1 DEF Finish
  <2> QED
    BY <1>0, <2>2, <2>3, <2>4
<1>2. CASE x = 1
  <2>1. pc[1] <= Len(Prog(1)) /\ pc'[0] = pc[0]
    BY <1>0, <1>2, HartFrame
  <2>2. pc[1] # 6 * Rounds + 3
    BY <1>0, <2>1, LockOps
  <2> QED
    BY <2>1, <2>2 DEF Finish
<1> QED
  BY <1>0, <1>1, <1>2

\* Hart 0 is at some place of its program.
LEMMA MutexPc ==
    ASSUME NEW h \in Harts, NEW i \in 0 .. Rounds, NEW j \in 0 .. Rounds, Mutex(h, i, j)
    PROVE  pc[0] \in Nat
<1>0. h \in {0, 1} /\ Rounds \in Nat \ {0}
  BY LockFacts DEF Harts
<1>1. CASE h = 1
  BY <1>0, <1>1 DEF Mutex, Without, Before
<1>2. CASE h = 0 /\ Without(0, i)
  BY <1>0, <1>2 DEF Without, Before
<1>3. CASE h = 0 /\ WithLock(0, i, i + j)
  BY <1>0, <1>3 DEF WithLock
<1>4. CASE h = 0 /\ Releasing(0, i, i + j)
  BY <1>0, <1>4 DEF Releasing, Before
<1> QED
  BY <1>0, <1>1, <1>2, <1>3, <1>4 DEF Mutex

\* The part of the hart at the lock, while the other moves.
LEMMA MutexKept ==
    ASSUME NEW h \in Harts, NEW i \in 0 .. Rounds, NEW j \in 0 .. Rounds, Mutex(h, i, j),
           pc'[h] = pc[h], buf'[h] = buf[h], reg'[h] = reg[h], mem'["lock"] = mem["lock"],
           mem'["var"] = mem["var"], Without(1 - h, j)'
    PROVE  Mutex(h, i, j)'
<1>1. Without(h, i) => Without(h, i)'
  BY DEF Without, Before
<1>2. WithLock(h, i, i + j) => WithLock(h, i, i + j)'
  BY DEF WithLock
<1>3. Releasing(h, i, i + j) => Releasing(h, i, i + j)'
  BY DEF Releasing, Before
<1> QED
  BY <1>1, <1>2, <1>3 DEF Mutex

\* The done flag reaches memory.
LEMMA DoneDrain ==
    ASSUME Shape, NEW x \in Harts, NEW j, Without(x, j), Drain(x)
    PROVE  /\ x = 1 /\ pc[1] = 6 * Rounds + 3 /\ Without(x, j)' /\ Finish'
           /\ mem'["lock"] = mem["lock"] /\ mem'["var"] = mem["var"]
<1>0. pc' = pc /\ buf[x] # <<>>
  BY DrainFrame
<1>1. x = 1 /\ pc[x] = 6 * Rounds + 3 /\ buf[x] = <<St("done", 1)>>
  BY <1>0 DEF Without
<1>2. buf'[x] = <<>> /\ mem' = Apply(St("done", 1), mem)
  BY <1>1, DrainOne
<1>3. mem'["lock"] = mem["lock"] /\ mem'["var"] = mem["var"]
  <2>1. \A k \in Locs \ {"done"} : mem'[k] = mem[k]
    BY <1>2, ApplySt, LockFacts
  <2> QED
    BY <2>1, LockFacts
<1>4. Without(x, j)'
  BY <1>0, <1>2 DEF Without, Before
<1>5. Finish'
  BY <1>0, <1>1 DEF Finish
<1> QED
  BY <1>1, <1>3, <1>4, <1>5

\* What the hart at the lock has in its buffer reaches memory.
LEMMA LockDrain ==
    ASSUME Shape, Finish, NEW h \in Harts, NEW i \in 0 .. Rounds, NEW j \in 0 .. Rounds,
           Mutex(h, i, j), Drain(h)
    PROVE  Finish' /\ \E k \in 0 .. Rounds : Mutex(h, k, j)'
<1>0. /\ 1 - h \in Harts /\ 1 - h # h /\ Rounds \in Nat \ {0}
      /\ "lock" \in Locs /\ "var" \in Locs /\ "done" \in Locs
      /\ "lock" # "var" /\ "lock" # "done" /\ "var" # "done"
  BY TwoHarts, LockFacts
<1>1. pc' = pc /\ buf[h] # <<>> /\ buf'[1 - h] = buf[1 - h]
  BY <1>0, DrainFrame
<1>2. Without(1 - h, j)'
  BY <1>1 DEF Mutex, Without, Before
<1>3. ASSUME mem'["done"] = mem["done"] PROVE Finish'
  BY <1>1, <1>3 DEF Finish
<1>4. CASE mem["lock"] = 0 /\ Without(h, i) /\ mem["var"] = i + j
  <2>1. /\ Without(h, i)' /\ Finish' /\ mem'["lock"] = mem["lock"] /\ mem'["var"] = mem["var"]
    BY <1>4, DoneDrain
  <2>2. Mutex(h, i, j)'
    BY <1>2, <1>4, <2>1 DEF Mutex
  <2> QED
    BY <2>1, <2>2
<1>5. CASE mem["lock"] = 1 /\ i < Rounds /\ WithLock(h, i, i + j)
  <2>1. pc[h] = 6 * i + 5 /\ buf[h] = <<St("var", (i + j) + 1)>>
    BY <1>1, <1>5 DEF WithLock
  <2>2. buf'[h] = <<>> /\ mem' = Apply(St("var", (i + j) + 1), mem)
    BY <2>1, DrainOne
  <2>3. mem'["var"] = (i + j) + 1 /\ \A k \in Locs \ {"var"} : mem'[k] = mem[k]
    BY <1>0, <2>2, ApplySt
  <2>4. mem'["lock"] = 1 /\ mem'["done"] = mem["done"]
    BY <1>0, <1>5, <2>3
  <2>5. WithLock(h, i, i + j)'
    BY <1>1, <2>1, <2>2, <2>3 DEF WithLock
  <2>6. Mutex(h, i, j)'
    BY <1>2, <1>5, <2>4, <2>5 DEF Mutex
  <2> QED
    BY <1>3, <2>4, <2>6
<1>6. CASE mem["lock"] = 1 /\ i < Rounds /\ Releasing(h, i, i + j)
  <2>1. Before(h, i + 1) /\ buf[h] = <<St("lock", 0)>> /\ mem["var"] = (i + j) + 1
    BY <1>6 DEF Releasing
  <2>2. buf'[h] = <<>> /\ mem' = Apply(St("lock", 0), mem)
    BY <2>1, DrainOne
  <2>3. mem'["lock"] = 0 /\ \A k \in Locs \ {"lock"} : mem'[k] = mem[k]
    BY <1>0, <2>2, ApplySt
  <2>4. mem'["var"] = mem["var"] /\ mem'["done"] = mem["done"]
    BY <1>0, <2>3
  <2>5. mem'["var"] = (i + 1) + j /\ i + 1 \in 0 .. Rounds
    BY <1>0, <1>6, <2>1, <2>4
  <2>6. Before(h, i + 1)'
    BY <1>1, <2>1 DEF Before
  <2>7. Mutex(h, i + 1, j)'
    BY <1>2, <2>2, <2>3, <2>5, <2>6 DEF Mutex, Without
  <2> QED
    BY <1>3, <2>4, <2>5, <2>7
<1> QED
  BY <1>4, <1>5, <1>6 DEF Mutex

\* P4.3: the lock excludes, and every increment under it counts.
LEMMA LockStep ==
    ASSUME Shape, Clean, NoneEarly, test = "P4.3", LockInv, [Runs]_vars
    PROVE  LockInv' /\ Clean'
<1>1. PICK h \in Harts, i \in 0 .. Rounds, j \in 0 .. Rounds : Mutex(h, i, j)
  BY DEF LockInv
<1>0. /\ 1 - h \in Harts /\ 1 - h # h /\ Harts = {h, 1 - h} /\ 1 - (1 - h) = h
      /\ Rounds \in Nat \ {0} /\ h \in {0, 1} /\ Finish
  BY TwoHarts, LockFacts DEF LockInv, Harts
<1>2. Test(test).final = {} /\ pc[0] \in Nat
  BY <1>1, LockOps, MutexPc
<1>3. CASE Idle /\ Clean'
  <2>1. Without(1 - h, j)' /\ Finish'
    BY <1>0, <1>1, <1>3 DEF Idle, Mutex, Without, Before, Finish
  <2>2. Mutex(h, i, j)'
    BY <1>1, <1>3, <2>1, MutexKept DEF Idle
  <2> QED
    BY <1>3, <2>1, <2>2 DEF LockInv
<1>4. CASE Hart(h)
  <2>1. Mutex(h, i, j)' /\ Calm /\ mem'["done"] = mem["done"]
    BY <1>0, <1>1, <1>4, LockHart
  <2>2. Finish'
    BY <1>0, <1>2, <1>4, <2>1, FinishHart
  <2> QED
    BY <2>1, <2>2, CalmClean DEF LockInv
<1>5. CASE Hart(1 - h)
  <2>0. /\ pc[1 - h] <= Len(Prog(1 - h)) /\ Op(1 - h) = Prog(1 - h)[pc[1 - h]]
        /\ pc'[h] = pc[h] /\ buf'[h] = buf[h] /\ reg'[h] = reg[h]
    BY <1>0, <1>5, HartFrame
  <2>1. CASE j < Rounds
    <3>1. pc[1 - h] = 6 * j + 1
      BY <1>0, <1>1, <2>1 DEF Mutex, Without, Before
    <3>2. j \in 0 .. Rounds - 1
      BY <1>0, <2>1
    <3>3. CritAt(Prog(1 - h), j)
      BY <1>0, <3>2, LockOps
    <3>4. Op(1 - h) = Lock("lock")
      BY <2>0, <3>1, <3>3 DEF CritAt
    <3>5. mem["lock"] = 0
      BY <1>0, <1>5, <3>4, DoLock
    <3>6. Without(h, i) /\ Without(1 - h, j) /\ mem["var"] = j + i
      BY <1>0, <1>1, <3>5 DEF Mutex
    <3>7. Mutex(1 - h, j, i)
      BY <1>0, <3>5, <3>6 DEF Mutex
    <3>8. Mutex(1 - h, j, i)' /\ Calm /\ mem'["done"] = mem["done"]
      BY <1>0, <1>5, <3>7, LockHart
    <3>9. Finish'
      BY <1>0, <1>2, <1>5, <3>8, FinishHart
    <3> QED
      BY <1>0, <3>8, <3>9, CalmClean DEF LockInv
  <2>2. CASE j = Rounds
    <3>1. Without(1 - h, Rounds)
      BY <1>1, <2>2 DEF Mutex
    <3>2. 1 - h = 0 /\ pc[1 - h] = 6 * Rounds + 2 => mem["var"] = 2 * Rounds
      BY <1>0, <1>1, BothThrough
    <3>3. Without(1 - h, Rounds)' /\ mem' = mem /\ Calm
      BY <1>0, <1>5, <3>1, <3>2, LockEnd
    <3>4. Mutex(h, i, j)'
      BY <1>1, <2>0, <2>2, <3>3, MutexKept
    <3>5. Finish'
      BY <1>0, <1>2, <1>5, <3>3, FinishHart
    <3> QED
      BY <3>3, <3>4, <3>5, CalmClean DEF LockInv
  <2> QED
    BY <1>0, <2>1, <2>2
<1>6. CASE Drain(h)
  <2>1. Finish' /\ \E k \in 0 .. Rounds : Mutex(h, k, j)'
    BY <1>0, <1>1, <1>6, LockDrain
  <2>2. Calm
    BY <1>6, DrainFrame
  <2> QED
    BY <2>1, <2>2, CalmClean DEF LockInv
<1>7. CASE Drain(1 - h)
  <2>1. Calm /\ pc' = pc /\ reg' = reg /\ buf'[h] = buf[h]
    BY <1>0, <1>7, DrainFrame
  <2>2. Without(1 - h, j)
    BY <1>1 DEF Mutex
  <2>3. /\ Without(1 - h, j)' /\ Finish'
        /\ mem'["lock"] = mem["lock"] /\ mem'["var"] = mem["var"]
    BY <1>0, <1>7, <2>2, DoneDrain
  <2>4. Mutex(h, i, j)'
    BY <1>1, <2>1, <2>3, MutexKept
  <2> QED
    BY <2>1, <2>3, <2>4, CalmClean DEF LockInv
<1> QED
  BY <1>0, <1>2, <1>3, <1>4, <1>5, <1>6, <1>7, StepCases

-----------------------------------------------------------------------------
(***************************************************************************)
(* P4.2 on harts that keep their AMOs and stores in order.  Of the AMOs a  *)
(* hart has issued, a have reached memory and n are in its buffer, ahead   *)
(* of the done flag (d = 1).                                               *)
(***************************************************************************)
Entry == {AmoAdd("counter"), St("done", 1)}
\* A buffer with n AMOs and then, if d is 1, the done flag.
Queue(b, n, d) ==
    /\ b \in Seq(Entry) /\ Len(b) = n + d
    /\ \A k \in 1 .. n : b[k] = AmoAdd("counter")
    /\ d = 1 => b[n + 1] = St("done", 1)
Counting(h, a, n, d) ==
    /\ Queue(buf[h], n, d) /\ (d = 1 => h = 1 /\ pc[h] = Rounds + 2)
    /\ \/ pc[h] \in 1 .. Rounds + 1 /\ a + n = pc[h] - 1
       \/ pc[h] \in {Rounds + 2, Rounds + 3} /\ a + n = Rounds
\* Hart 1 has finished and all its AMOs have reached memory.
Through(n) == pc[1] = Rounds + 2 /\ n = 0
CountInv ==
    \E a, b, m, n \in 0 .. Rounds, d \in {0, 1} :
        /\ Counting(0, a, m, 0) /\ Counting(1, b, n, d) /\ mem["counter"] = a + b
        /\ mem["done"] = 1 => Through(n)
        /\ pc[0] > Rounds + 1 => Through(n)

\* A program that repeats the AMO and then goes on with t.
AmosThen(p, t) ==
    /\ Len(p) = Rounds + Len(t)
    /\ \A k \in 1 .. Rounds : p[k] = AmoAdd("counter")
    /\ \A k \in 1 .. Len(t) : p[Rounds + k] = t[k]
\* What follows the last AMO.
LEMMA AmosFirst ==
    ASSUME NEW S, AmoAdd("counter") \in S, NEW t \in Seq(S)
    PROVE  AmosThen(Repeat(<<AmoAdd("counter")>>) \o t, t)
<1> DEFINE o == AmoAdd("counter")
           r == Repeat(<<o>>)
           p == r \o t
<1>1. r \in Seq({o}) /\ Len(r) = Rounds /\ \A i \in 1 .. Rounds : r[i] = o
  BY Repeat1
<1>2. o \in S
  OBVIOUS
<1> HIDE DEF o, r
<1>3. r \in Seq(S)
  BY <1>1, <1>2
<1>4. Joined(p, r, t)
  BY <1>3, JoinedAt
<1> HIDE DEF p
<1>5. /\ Len(p) = Rounds + Len(t) /\ \A k \in 1 .. Rounds : p[k] = o
      /\ \A k \in 1 .. Len(t) : p[Rounds + k] = t[k]
  BY <1>1, <1>4 DEF Joined
<1>6. AmosThen(p, t)
  BY <1>5 DEF AmosThen, o
<1>7. p = Repeat(<<AmoAdd("counter")>>) \o t
  BY DEF p, r, o
<1> QED
  BY <1>6, <1>7

\* P4_2 and core1_atomic_incrementer, place by place.
LEMMA CountOps ==
    ASSUME test = "P4.2"
    PROVE  /\ \A h \in Harts, k \in 1 .. Rounds : Prog(h)[k] = AmoAdd("counter")
           /\ Len(Prog(0)) = Rounds + 2 /\ Len(Prog(1)) = Rounds + 1
           /\ Prog(0)[Rounds + 1] = Spin("done", 1)
           /\ Prog(0)[Rounds + 2] = Assert("counter", 2 * Rounds)
           /\ Prog(1)[Rounds + 1] = St("done", 1)
           /\ Test(test).final = {}
<1> DEFINE S == {AmoAdd("counter"), Spin("done", 1), Assert("counter", 2 * Rounds), St("done", 1)}
           t == <<Spin("done", 1), Assert("counter", 2 * Rounds)>>
           u == <<St("done", 1)>>
<1>1. Test(test) = Pair(P4_2, core1_atomic_incrementer, {})
  BY Programs
<1>2. Prog(0) = P4_2 /\ Prog(1) = core1_atomic_incrementer /\ Test(test).final = {}
  BY <1>1, ProgOf
<1>3. /\ t \in Seq(S) /\ Len(t) = 2 /\ t[1] = Spin("done", 1)
      /\ t[2] = Assert("counter", 2 * Rounds)
      /\ u \in Seq(S) /\ Len(u) = 1 /\ u[1] = St("done", 1) /\ AmoAdd("counter") \in S
  OBVIOUS
<1>4. /\ Prog(0) = Repeat(<<AmoAdd("counter")>>) \o t
      /\ Prog(1) = Repeat(<<AmoAdd("counter")>>) \o u
  BY <1>2 DEF P4_2, core1_atomic_incrementer
<1> HIDE DEF S, t, u
<1>5. AmosThen(Prog(0), t) /\ AmosThen(Prog(1), u)
  BY <1>3, <1>4, AmosFirst
<1>6. /\ Len(Prog(0)) = Rounds + 2 /\ Prog(0)[Rounds + 1] = t[1] /\ Prog(0)[Rounds + 2] = t[2]
      /\ Len(Prog(1)) = Rounds + 1 /\ Prog(1)[Rounds + 1] = u[1]
  BY <1>3, <1>5 DEF AmosThen
<1>7. \A h \in Harts, k \in 1 .. Rounds : Prog(h)[k] = AmoAdd("counter")
  BY <1>5 DEF AmosThen, Harts
<1> QED
  BY <1>2, <1>3, <1>6, <1>7

\* An entry is queued.
LEMMA QueueIn ==
    ASSUME NEW b, NEW n \in Nat, Queue(b, n, 0)
    PROVE  /\ Queue(Append(b, AmoAdd("counter")), n + 1, 0)
           /\ Queue(Append(b, St("done", 1)), n, 1)
<1> DEFINE o == AmoAdd("counter")
           f == St("done", 1)
<1>1. b \in Seq(Entry) /\ Len(b) = n /\ \A k \in 1 .. n : b[k] = o
  BY DEF Queue
<1>2. o \in Entry /\ f \in Entry
  BY DEF Entry
<1> HIDE DEF o, f
<1>3. ASSUME NEW e \in Entry
      PROVE  /\ Append(b, e) \in Seq(Entry) /\ Len(Append(b, e)) = n + 1
             /\ Append(b, e)[n + 1] = e /\ \A k \in 1 .. n : Append(b, e)[k] = o
  BY <1>1
<1>4. \A k \in 1 .. n + 1 : Append(b, o)[k] = o
  BY <1>2, <1>3
<1>5. Queue(Append(b, o), n + 1, 0)
  BY <1>2, <1>3, <1>4 DEF Queue, o
<1>6. Queue(Append(b, f), n, 1)
  BY <1>2, <1>3 DEF Queue, o, f
<1> QED
  BY <1>5, <1>6 DEF o, f

\* Without weak, entries leave the buffer in order.
LEMMA DrainFirst ==
    ASSUME Shape, ~weak, NEW h \in Harts, Drain(h), NEW S, buf[h] \in Seq(S)
    PROVE  /\ Len(buf[h]) > 0 /\ mem' = Apply(buf[h][1], mem)
           /\ buf'[h] \in Seq(S) /\ Len(buf'[h]) = Len(buf[h]) - 1
           /\ \A k \in 1 .. Len(buf[h]) - 1 : buf'[h][k] = buf[h][k + 1]
<1> DEFINE b == buf[h]
<1>1. PICK i \in DOMAIN b :
         /\ \A j \in 1 .. i - 1 : weak
         /\ mem' = Apply(b[i], mem)
         /\ buf' = [buf EXCEPT ![h] = SubSeq(b, 1, i - 1) \o SubSeq(b, i + 1, Len(b))]
  BY DEF Drain
<1>2. b \in Seq(S) /\ i \in 1 .. Len(b) /\ Len(b) \in Nat
  OBVIOUS
<1>3. i = 1
  <2> SUFFICES ASSUME i # 1 PROVE FALSE
    OBVIOUS
  <2>1. 1 \in 1 .. i - 1
    BY <1>2
  <2> QED
    BY <1>1, <2>1
<1>4. buf'[h] = SubSeq(b, 1, 0) \o SubSeq(b, 2, Len(b))
  BY <1>1, <1>3 DEF Shape, Indexed
<1>5. mem' = Apply(b[1], mem)
  BY <1>1, <1>3
<1> DEFINE c == SubSeq(b, 1, 0)
           e == SubSeq(b, 2, Len(b))
<1> HIDE DEF b
<1>6. c = <<>> /\ e \in Seq(S) /\ Len(e) = Len(b) - 1
      /\ \A k \in 1 .. Len(b) - 1 : e[k] = b[k + 1]
  <2>1. c \in Seq(S) /\ Len(c) = 0
    BY <1>2
  <2>2. c = <<>>
    BY <2>1
  <2>5. Len(b) \in Nat /\ 1 <= Len(b) /\ \A k \in 1 .. Len(b) : b[k] \in S
    BY <1>2
  <2>6. \A k \in 2 .. Len(b) : b[k] \in S
    BY <2>5
  <2>7. e \in Seq(S)
    BY <2>5, <2>6
  <2>8. Len(e) = Len(b) - 1
    <3>1. CASE Len(b) = 1
      <4>1. Len(SubSeq(b, 2, 1)) = 0
        OBVIOUS
      <4> QED
        BY <3>1, <4>1
    <3>2. CASE 2 <= Len(b)
      <4>1. Len(e) = (Len(b) - 2) + 1
        BY <2>5, <3>2
      <4> QED
        BY <2>5, <4>1
    <3>4. \A x \in Nat : 1 <= x => x = 1 \/ 2 <= x
      OBVIOUS
    <3>3. Len(b) = 1 \/ 2 <= Len(b)
      BY <2>5, <3>4
    <3> QED
      BY <3>1, <3>2, <3>3
  <2>3. e \in Seq(S) /\ Len(e) = Len(b) - 1
    BY <2>7, <2>8
  <2>4. ASSUME NEW k \in 1 .. Len(b) - 1 PROVE e[k] = b[k + 1]
    BY <1>2
  <2> QED
    BY <2>2, <2>3, <2>4
<1>7. buf'[h] = c \o e
  BY <1>4
<1> HIDE DEF c, e
<1>8. buf'[h] = e
  BY <1>6, <1>7
<1> QED
  BY <1>2, <1>5, <1>6, <1>8 DEF b

\* Hart h executes; when hart 0 asserts, all AMOs have reached memory or are its own.
LEMMA CountHart ==
    ASSUME Shape, NoneEarly, test = "P4.2", NEW h \in Harts, NEW a \in 0 .. Rounds,
           NEW n \in 0 .. Rounds, NEW d \in {0, 1}, Counting(h, a, n, d), Hart(h),
           h = 0 /\ pc[0] = Rounds + 2 /\ n = 0 => mem["counter"] = 2 * Rounds
    PROVE  /\ mem' = mem /\ Calm
           /\ \E m \in 0 .. Rounds, e \in {0, 1} :
                 /\ Counting(h, a, m, e)' /\ (h = 0 => e = 0)
                 /\ pc[h] > Rounds => m = n
           /\ h = 0 /\ pc[0] = Rounds + 1 => mem["done"] = 1
<1>0. h \in {0, 1} /\ Rounds \in Nat \ {0} /\ a + n \in Nat /\ d \in {0, 1}
  BY RoundsAssumption DEF Harts
<1>1. /\ pc[h] <= Len(Prog(h)) /\ Op(h) = Prog(h)[pc[h]] /\ pc'[h] = pc[h] + 1
  BY TwoHarts, HartFrame
<1>2. /\ Queue(buf[h], n, d) /\ (d = 1 => h = 1 /\ pc[h] = Rounds + 2)
      /\ \/ pc[h] \in 1 .. Rounds + 1 /\ a + n = pc[h] - 1
         \/ pc[h] \in {Rounds + 2, Rounds + 3} /\ a + n = Rounds
  BY DEF Counting
<1>3. d = 0 /\ Queue(buf[h], n, 0)
  <2>1. d = 1 => h = 1 /\ pc[h] = Rounds + 2
    BY <1>0, <1>2
  <2>2. ~(h = 1 /\ pc[h] = Rounds + 2)
    BY <1>0, <1>1, CountOps
  <2> QED
    BY <1>0, <1>2, <2>1, <2>2
<1>4. CASE pc[h] \in 1 .. Rounds
  <2>1. Op(h) = AmoAdd("counter")
    BY <1>1, <1>4, CountOps
  <2>2. mem' = mem /\ buf'[h] = Append(buf[h], AmoAdd("counter")) /\ Calm
    BY <2>1, DoAmoAdd
  <2>3. Queue(buf'[h], n + 1, 0)
    BY <1>0, <1>3, <2>2, QueueIn
  <2>6. a + n = pc[h] - 1 /\ a \in Nat /\ n \in Nat /\ pc[h] \in Nat /\ pc[h] <= Rounds
    BY <1>0, <1>2, <1>4
  <2>4. /\ pc'[h] \in 1 .. Rounds + 1 /\ a + (n + 1) = pc'[h] - 1 /\ n + 1 \in 0 .. Rounds
        /\ ~(pc[h] > Rounds) /\ pc[h] # Rounds + 1
    <3>1. pc'[h] = pc[h] + 1 /\ a + (n + 1) = pc[h] /\ pc[h] \in 1 .. Rounds
      BY <1>1, <1>4, <2>6
    <3>2. n + 1 <= Rounds /\ n + 1 \in Nat
      BY <2>6, <3>1, <1>0
    <3>3. pc'[h] \in 1 .. Rounds + 1 /\ pc'[h] - 1 = pc[h]
      BY <1>0, <3>1
    <3>4. n + 1 \in 0 .. Rounds
      BY <1>0, <3>2
    <3>5. ~(pc[h] > Rounds) /\ pc[h] # Rounds + 1
      BY <1>0, <3>1
    <3> QED
      BY <3>1, <3>3, <3>4, <3>5
  <2>5. Counting(h, a, n + 1, 0)'
    <3>1. pc'[h] \in 1 .. Rounds + 1 /\ a + (n + 1) = pc'[h] - 1
      BY <2>4
    <3> QED
      BY <2>3, <3>1 DEF Counting
  <2> QED
    BY <2>2, <2>4, <2>5
<1>5. CASE pc[h] = Rounds + 1 /\ h = 0
  <2>1. Op(h) = Spin("done", 1)
    BY <1>1, <1>5, CountOps
  <2>2. mem["done"] = 1 /\ mem' = mem /\ buf' = buf /\ Calm
    BY <2>1, DoSpin
  <2>3. pc'[h] = Rounds + 2 /\ a + n = Rounds
    BY <1>0, <1>1, <1>2, <1>5
  <2>4. Counting(h, a, n, 0)'
    BY <1>3, <2>2, <2>3 DEF Counting
  <2> QED
    BY <2>2, <2>4
<1>6. CASE pc[h] = Rounds + 1 /\ h = 1
  <2>1. Op(h) = St("done", 1)
    BY <1>1, <1>6, CountOps
  <2>2. mem' = mem /\ buf'[h] = Append(buf[h], St("done", 1)) /\ Calm
    BY <2>1, DoSt
  <2>3. pc'[h] = Rounds + 2 /\ a + n = Rounds
    BY <1>0, <1>1, <1>2, <1>6
  <2>4. Queue(buf'[h], n, 1)
    BY <1>0, <1>3, <2>2, QueueIn
  <2>5. Counting(h, a, n, 1)'
    BY <1>6, <2>3, <2>4 DEF Counting
  <2> QED
    BY <1>6, <2>2, <2>5
<1>7. CASE pc[h] = Rounds + 2
  <2>1. h = 0
    BY <1>0, <1>1, <1>7, CountOps
  <2>2. Op(h) = Assert("counter", 2 * Rounds)
    BY <1>1, <1>7, <2>1, CountOps
  <2>3. Settled(h, "counter") => n = 0
    <3> SUFFICES ASSUME n # 0 PROVE ~Settled(h, "counter")
      OBVIOUS
    <3>1. 1 \in DOMAIN buf[h] /\ buf[h][1] = AmoAdd("counter")
      BY <1>0, <1>3 DEF Queue
    <3> QED
      BY <3>1 DEF Settled, AmoAdd
  <2>4. Settled(h, "counter") => mem["counter"] = 2 * Rounds
    BY <1>7, <2>1, <2>3
  <2>5. Fresh(h, "counter")
    BY FreshEmpty DEF NoneEarly
  <2>6. mem' = mem /\ buf' = buf /\ Calm
    BY <2>2, <2>4, <2>5, DoAssert
  <2>7. pc'[h] = Rounds + 3 /\ a + n = Rounds /\ pc[h] # Rounds + 1
    BY <1>0, <1>1, <1>2, <1>7
  <2>8. Counting(h, a, n, 0)'
    <3>1. Queue(buf'[h], n, 0)
      BY <1>3, <2>6
    <3> QED
      BY <2>7, <3>1 DEF Counting
  <2> QED
    BY <2>1, <2>6, <2>7, <2>8
<1>8. pc[h] \in 1 .. Rounds \/ pc[h] = Rounds + 1 \/ pc[h] = Rounds + 2
  <2>1. pc[h] <= Rounds + 2
    <3>1. Len(Prog(0)) = Rounds + 2 /\ Len(Prog(1)) = Rounds + 1
      BY CountOps
    <3>2. CASE h = 0
      BY <1>1, <3>1, <3>2
    <3>3. CASE h = 1
      BY <1>0, <1>1, <1>2, <3>1, <3>3
    <3> QED
      BY <1>0, <3>2, <3>3
  <2> QED
    BY <1>0, <1>2, <2>1
<1> QED
  BY <1>0, <1>4, <1>5, <1>6, <1>7, <1>8

\* An AMO or the done flag leaves the buffer.
LEMMA CountDrain ==
    ASSUME Shape, ~weak, NEW h \in Harts, NEW a \in 0 .. Rounds, NEW n \in 0 .. Rounds,
           NEW d \in {0, 1}, Counting(h, a, n, d), Drain(h)
    PROVE  \/ /\ n > 0 /\ Counting(h, a + 1, n - 1, d)' /\ a + 1 \in 0 .. Rounds
              /\ n - 1 \in 0 .. Rounds
              /\ mem'["counter"] = mem["counter"] + 1 /\ mem'["done"] = mem["done"]
           \/ /\ n = 0 /\ d = 1 /\ Counting(h, a, 0, 0)' /\ mem'["counter"] = mem["counter"]
              /\ h = 1 /\ pc[1] = Rounds + 2
<1>0. h \in {0, 1} /\ Rounds \in Nat \ {0} /\ a \in Nat /\ n \in Nat /\ d \in {0, 1}
      /\ "counter" \in Locs /\ "done" \in Locs /\ "counter" # "done"
  BY RoundsAssumption DEF Harts, Locs
<1>1. /\ Queue(buf[h], n, d) /\ (d = 1 => h = 1 /\ pc[h] = Rounds + 2)
      /\ \/ pc[h] \in 1 .. Rounds + 1 /\ a + n = pc[h] - 1
         \/ pc[h] \in {Rounds + 2, Rounds + 3} /\ a + n = Rounds
  BY DEF Counting
<1>2. pc' = pc
  BY DrainFrame
<1>3. /\ Len(buf[h]) > 0 /\ mem' = Apply(buf[h][1], mem)
      /\ buf'[h] \in Seq(Entry) /\ Len(buf'[h]) = Len(buf[h]) - 1
      /\ \A k \in 1 .. Len(buf[h]) - 1 : buf'[h][k] = buf[h][k + 1]
  BY <1>1, DrainFirst DEF Queue
<1>4. Len(buf[h]) = n + d
  BY <1>1 DEF Queue
<1>5. CASE n > 0
  <2>1. buf[h][1] = AmoAdd("counter")
    BY <1>0, <1>1, <1>5 DEF Queue
  <2>2. mem' = Apply(AmoAdd("counter"), mem)
    BY <1>3, <2>1
  <2>3. mem'["counter"] = mem["counter"] + 1 /\ mem'["done"] = mem["done"]
    BY <1>0, <2>2 DEF Apply, AmoAdd, Shape, Indexed
  <2>4. /\ n - 1 \in Nat /\ n - 1 \in 0 .. Rounds /\ a + 1 \in 0 .. Rounds
        /\ (a + 1) + (n - 1) = a + n
    BY <1>0, <1>1, <1>5
  <2>5. Queue(buf'[h], n - 1, d)
    <3>1. Len(buf'[h]) = (n - 1) + d
      BY <1>0, <1>3, <1>4
    <3>2. ASSUME NEW k \in 1 .. n - 1 PROVE buf'[h][k] = AmoAdd("counter")
      <4>1. k \in 1 .. Len(buf[h]) - 1 /\ k + 1 \in 1 .. n
        BY <1>0, <1>4
      <4> QED
        BY <1>1, <1>3, <4>1 DEF Queue
    <3>3. ASSUME d = 1 PROVE buf'[h][(n - 1) + 1] = St("done", 1)
      <4>1. n \in 1 .. Len(buf[h]) - 1 /\ (n - 1) + 1 = n /\ buf[h][n + 1] = St("done", 1)
        BY <1>0, <1>1, <1>4, <1>5, <3>3 DEF Queue
      <4> QED
        BY <1>3, <4>1
    <3> QED
      BY <1>3, <3>1, <3>2, <3>3 DEF Queue
  <2>6. Counting(h, a + 1, n - 1, d)'
    BY <1>1, <1>2, <2>4, <2>5 DEF Counting
  <2> QED
    BY <1>5, <2>3, <2>4, <2>6
<1>6. CASE n = 0
  <2>1. d = 1 /\ h = 1 /\ pc[1] = Rounds + 2
    BY <1>0, <1>1, <1>3, <1>4, <1>6
  <2>2. buf[h][1] = St("done", 1)
    BY <1>1, <1>6, <2>1 DEF Queue
  <2>3. mem' = Apply(St("done", 1), mem)
    BY <1>3, <2>2
  <2>4. mem'["counter"] = mem["counter"]
    BY <1>0, <2>3, ApplySt
  <2>5. Queue(buf'[h], 0, 0)
    BY <1>3, <1>4, <1>6, <2>1 DEF Queue
  <2>6. a + 0 = Rounds
    BY <1>0, <1>1, <1>6, <2>1
  <2>7. Counting(h, a, 0, 0)'
    BY <1>2, <2>1, <2>5, <2>6 DEF Counting
  <2> QED
    BY <1>6, <2>1, <2>4, <2>7
<1> QED
  BY <1>0, <1>5, <1>6

\* P4.2: every AMO of both harts counts before hart 0 asserts.
LEMMA CountStep ==
    ASSUME Shape, Clean, NoneEarly, ~weak, test = "P4.2", CountInv, [Runs]_vars
    PROVE  CountInv' /\ Clean'
<1>1. PICK a \in 0 .. Rounds, b \in 0 .. Rounds, m \in 0 .. Rounds, n \in 0 .. Rounds,
           d \in {0, 1} :
         /\ Counting(0, a, m, 0) /\ Counting(1, b, n, d) /\ mem["counter"] = a + b
         /\ mem["done"] = 1 => Through(n)
         /\ pc[0] > Rounds + 1 => Through(n)
  BY DEF CountInv
<1>0. 0 \in Harts /\ 1 \in Harts /\ 0 # 1 /\ Rounds \in Nat \ {0} /\ Harts = {0, 1}
  BY RoundsAssumption DEF Harts
<1>2. Test(test).final = {}
  BY CountOps
<1>3. CASE Idle /\ Clean'
  <2>1. Counting(0, a, m, 0)' /\ Counting(1, b, n, d)'
    BY <1>1, <1>3 DEF Idle, Counting
  <2>2. /\ mem'["counter"] = a + b /\ (mem'["done"] = 1 => Through(n)')
        /\ (pc'[0] > Rounds + 1 => Through(n)')
    BY <1>1, <1>3 DEF Idle, Through
  <2> QED
    BY <1>3, <2>1, <2>2 DEF CountInv
<1>4. CASE Hart(0)
  <2>0. pc'[0] = pc[0] + 1 /\ pc'[1] = pc[1] /\ buf'[1] = buf[1]
    BY <1>0, <1>4, HartFrame
  <2>1. pc[0] = Rounds + 2 /\ m = 0 => mem["counter"] = 2 * Rounds
    <3> SUFFICES ASSUME pc[0] = Rounds + 2, m = 0 PROVE mem["counter"] = 2 * Rounds
      OBVIOUS
    <3>1. pc[1] = Rounds + 2 /\ n = 0
      BY <1>0, <1>1 DEF Through
    <3>2. a + 0 = Rounds /\ b + 0 = Rounds
      BY <1>0, <1>1, <3>1 DEF Counting
    <3> QED
      BY <1>0, <1>1, <3>2
  <2>2. PICK k \in 0 .. Rounds : Counting(0, a, k, 0)'
    BY <1>0, <1>1, <1>4, <2>1, CountHart
  <2>3. mem' = mem /\ Calm /\ (pc[0] = Rounds + 1 => mem["done"] = 1)
    BY <1>0, <1>1, <1>4, <2>1, CountHart
  <2>4. Counting(1, b, n, d)'
    BY <1>1, <2>0 DEF Counting
  <2>5. Through(n) => Through(n)'
    BY <2>0 DEF Through
  <2>6. pc[0] \in Nat
    BY <1>0, <1>1 DEF Counting
  <2>7. pc'[0] > Rounds + 1 => Through(n)
    BY <1>0, <1>1, <2>0, <2>3, <2>6
  <2>8. CountInv'
    BY <1>1, <2>2, <2>3, <2>4, <2>5, <2>7 DEF CountInv
  <2> QED
    BY <2>3, <2>8, CalmClean
<1>5. CASE Hart(1)
  <2>0. pc[1] <= Len(Prog(1)) /\ pc'[0] = pc[0] /\ buf'[0] = buf[0]
    BY <1>0, <1>5, HartFrame
  <2>1. PICK k \in 0 .. Rounds, e \in {0, 1} : Counting(1, b, k, e)'
    BY <1>0, <1>1, <1>5, CountHart
  <2>2. mem' = mem /\ Calm
    BY <1>0, <1>1, <1>5, CountHart
  <2>3. Counting(0, a, m, 0)'
    BY <1>1, <2>0 DEF Counting
  <2>4. ~Through(n)
    BY <1>0, <2>0, CountOps DEF Through
  <2>5. CountInv'
    BY <1>1, <2>0, <2>1, <2>2, <2>3, <2>4 DEF CountInv
  <2> QED
    BY <2>2, <2>5, CalmClean
<1>6. CASE Drain(0)
  <2>0. pc' = pc /\ Calm /\ buf'[1] = buf[1]
    BY <1>0, <1>6, DrainFrame
  <2>1. /\ Counting(0, a + 1, m - 1, 0)' /\ a + 1 \in 0 .. Rounds /\ m - 1 \in 0 .. Rounds
        /\ mem'["counter"] = mem["counter"] + 1 /\ mem'["done"] = mem["done"]
    BY <1>0, <1>1, <1>6, CountDrain
  <2>2. Counting(1, b, n, d)'
    BY <1>1, <2>0 DEF Counting
  <2>3. /\ mem'["counter"] = (a + 1) + b /\ (mem'["done"] = 1 => Through(n)')
        /\ (pc'[0] > Rounds + 1 => Through(n)')
    BY <1>0, <1>1, <2>0, <2>1 DEF Through
  <2>4. CountInv'
    BY <2>1, <2>2, <2>3 DEF CountInv
  <2> QED
    BY <2>0, <2>4, CalmClean
<1>7. CASE Drain(1)
  <2>0. pc' = pc /\ Calm /\ buf'[0] = buf[0]
    BY <1>0, <1>7, DrainFrame
  <2>1. Counting(0, a, m, 0)'
    BY <1>1, <2>0 DEF Counting
  <2>2. CASE /\ n > 0 /\ Counting(1, b + 1, n - 1, d)' /\ b + 1 \in 0 .. Rounds
             /\ n - 1 \in 0 .. Rounds
             /\ mem'["counter"] = mem["counter"] + 1 /\ mem'["done"] = mem["done"]
    <3>1. ~Through(n)
      BY <2>2 DEF Through
    <3>2. /\ mem'["counter"] = a + (b + 1) /\ mem'["done"] # 1 /\ ~(pc'[0] > Rounds + 1)
      BY <1>0, <1>1, <2>0, <2>2, <3>1
    <3> QED
      BY <2>0, <2>1, <2>2, <3>2, CalmClean DEF CountInv
  <2>3. CASE /\ Counting(1, b, 0, 0)' /\ mem'["counter"] = mem["counter"]
             /\ pc[1] = Rounds + 2
    <3>1. Through(0)'
      BY <2>0, <2>3 DEF Through
    <3>2. 0 \in 0 .. Rounds /\ mem'["counter"] = a + b
      BY <1>0, <1>1, <2>3
    <3> QED
      BY <2>0, <2>1, <2>3, <3>1, <3>2, CalmClean DEF CountInv
  <2> QED
    BY <1>0, <1>1, <1>7, <2>2, <2>3, CountDrain
<1> QED
  BY <1>0, <1>2, <1>3, <1>4, <1>5, <1>6, <1>7, StepCases

-----------------------------------------------------------------------------
(***************************************************************************)
(* While hart 0's stores ahead of the wake's fence reach memory.           *)
(***************************************************************************)
\* What the wake leaves in memory, but for g_smode_target.
Woken(l) == IF l = "expected" /\ test \in {"P4.1A", "P4.1B"} THEN 1 ELSE 0

\* Store i leaves the right value, or one behind it will.
Right(i) ==
    \/ reset[i].loc = "target" \/ reset[i].v = Woken(reset[i].loc)
    \/ \E j \in DOMAIN reset : j > i /\ reset[j].loc = reset[i].loc

\* The stores are on their way and what they have reached is set.
Queued ==
    /\ reset \in Seq([op : {"st"}, loc : Locs, v : {0, 1}])
    /\ \A i \in 1 .. Len(reset) : Right(i)
    /\ \A l \in Locs \ {"target"} : l \in Pending \/ mem[l] = Woken(l)

\* Neither hart has done anything: hart 0 waits at the fence; hart 1 has no
\* function yet, or waits for a flag or turn that the reset leaves at 0.
Waking ==
    /\ test \in Baremetal /\ reset # <<>> /\ Queued /\ Clean
    /\ pc[0] = 1 /\ pc[1] = 1 /\ buf[0] = <<>> /\ buf[1] = <<>>
    /\ ~weak => reset[Len(reset)].loc = "target"
    /\ weak => /\ test \in {"P4.1A", "P4.4"} /\ mem["flag"] = 0 /\ mem["turn"] = 0
               /\ \A i \in 1 .. Len(reset) : reset[i].loc \in {"flag", "turn"} => reset[i].v = 0
    /\ test = "P4.1A" => \A e \in early[0] : e[1] = "expected" => e[2] = 1

\* A sequence without its i-th element.
LEMMA Removed ==
    ASSUME NEW S, NEW s \in Seq(S), NEW i \in 1 .. Len(s)
    PROVE  LET t == SubSeq(s, 1, i - 1) \o SubSeq(s, i + 1, Len(s)) IN
           /\ t \in Seq(S) /\ Len(t) = Len(s) - 1
           /\ \A j \in 1 .. Len(t) : t[j] = IF j < i THEN s[j] ELSE s[j + 1]
<1>1. SubSeq(s, 1, i - 1) \in Seq(S) /\ Len(SubSeq(s, 1, i - 1)) = i - 1
      /\ \A j \in 1 .. i - 1 : SubSeq(s, 1, i - 1)[j] = s[j]
  OBVIOUS
<1>2. SubSeq(s, i + 1, Len(s)) \in Seq(S) /\ Len(SubSeq(s, i + 1, Len(s))) = Len(s) - i
      /\ \A j \in 1 .. Len(s) - i : SubSeq(s, i + 1, Len(s))[j] = s[i + j]
  OBVIOUS
<1> DEFINE p == SubSeq(s, 1, i - 1)
           q == SubSeq(s, i + 1, Len(s))
           t == p \o q
<1>3. p \in Seq(S) /\ Len(p) = i - 1 /\ \A j \in 1 .. i - 1 : p[j] = s[j]
  BY <1>1
<1>4. q \in Seq(S) /\ Len(q) = Len(s) - i /\ \A j \in 1 .. Len(s) - i : q[j] = s[i + j]
  BY <1>2
<1> HIDE DEF p, q
<1>5. t \in Seq(S) /\ Joined(t, p, q)
  BY <1>3, <1>4, JoinedAt
<1> HIDE DEF t
<1>6. Len(t) = Len(s) - 1
  BY <1>3, <1>4, <1>5 DEF Joined
<1>7. ASSUME NEW j \in 1 .. Len(t) PROVE t[j] = IF j < i THEN s[j] ELSE s[j + 1]
  <2>1. CASE j < i
    BY <2>1, <1>3, <1>5 DEF Joined
  <2>2. CASE ~(j < i)
    <3>1. j - (i - 1) \in 1 .. Len(q) /\ (i - 1) + (j - (i - 1)) = j /\ i + (j - (i - 1)) = j + 1
      BY <2>2, <1>4, <1>6
    <3>2. t[(i - 1) + (j - (i - 1))] = q[j - (i - 1)]
      BY <3>1, <1>3, <1>5 DEF Joined
    <3>3. q[j - (i - 1)] = s[i + (j - (i - 1))]
      BY <3>1, <1>4
    <3> QED
      BY <2>2, <3>1, <3>2, <3>3
  <2> QED
    BY <2>1, <2>2
<1> QED
  BY <1>5, <1>6, <1>7 DEF t, p, q

\* One of the stores reaches memory.
LEMMA WakeStoreStep ==
    ASSUME Shape, Waking, WakeStore
    PROVE  /\ Queued' /\ Clean' /\ pc' = pc /\ buf' = buf /\ early' = early
           /\ ~weak /\ reset' # <<>> => reset'[Len(reset')].loc = "target"
           /\ weak => /\ mem'["flag"] = 0 /\ mem'["turn"] = 0
                      /\ \A j \in 1 .. Len(reset') :
                            reset'[j].loc \in {"flag", "turn"} => reset'[j].v = 0
<1> DEFINE R == [op : {"st"}, loc : Locs, v : {0, 1}]
<1>1. PICK i \in DOMAIN reset :
        /\ \A j \in 1 .. i - 1 : weak /\ reset[j].loc # reset[i].loc
        /\ mem' = Apply(reset[i], mem)
        /\ reset' = SubSeq(reset, 1, i - 1) \o SubSeq(reset, i + 1, Len(reset))
        /\ UNCHANGED <<test, weak, pc, buf, early, reg, sems, bad, failed>>
  BY DEF WakeStore
<1>2. /\ reset \in Seq(R) /\ Len(reset) \in Nat /\ DOMAIN reset = 1 .. Len(reset)
      /\ i \in 1 .. Len(reset) /\ reset[i] \in R
  <2>1. reset \in Seq(R)
    BY DEF Waking, Queued
  <2> HIDE DEF R
  <2> QED
    BY <1>1, <2>1
<1>3. /\ reset' \in Seq(R) /\ Len(reset') = Len(reset) - 1
      /\ \A j \in 1 .. Len(reset') : reset'[j] = IF j < i THEN reset[j] ELSE reset[j + 1]
  <2> HIDE DEF R
  <2> QED
    BY <1>1, <1>2, Removed
<1>4. Clean' /\ test' = test /\ (weak <=> weak')
  BY <1>1 DEF Waking, Clean
<1>5. \A l : Woken(l)' = Woken(l)
  BY <1>4 DEF Woken
<1>6. /\ mem'[reset[i].loc] = reset[i].v
      /\ \A l \in Locs \ {reset[i].loc} : mem'[l] = mem[l]
  <2>1. reset[i].loc \in Locs /\ reset[i] = St(reset[i].loc, reset[i].v)
    BY <1>2 DEF St
  <2> QED
    BY <1>1, <2>1, ApplySt
\* the place of another store after the step
<1>7. ASSUME NEW m \in 1 .. Len(reset), m # i
      PROVE  LET n == IF m < i THEN m ELSE m - 1 IN n \in 1 .. Len(reset') /\ reset'[n] = reset[m]
  <2>1. CASE m < i
    <3>1. m \in 1 .. Len(reset')
      BY <1>2, <1>3, <2>1
    <3> QED
      BY <1>3, <2>1, <3>1
  <2>2. CASE ~(m < i)
    <3>1. m - 1 \in 1 .. Len(reset') /\ ~(m - 1 < i) /\ (m - 1) + 1 = m
      BY <1>2, <1>3, <1>7, <2>2
    <3>2. reset'[m - 1] = reset[(m - 1) + 1]
      BY <1>3, <3>1
    <3> QED
      BY <2>2, <3>1, <3>2
  <2> QED
    BY <2>1, <2>2
<1>8. ASSUME NEW j \in 1 .. Len(reset') PROVE Right(j)'
  <2> DEFINE k == IF j < i THEN j ELSE j + 1
  <2>1. k \in 1 .. Len(reset) /\ k # i /\ reset'[j] = reset[k]
    BY <1>2, <1>3
  <2>2. Right(k)
    BY <2>1 DEF Waking, Queued
  <2>3. CASE reset[k].loc = "target" \/ reset[k].v = Woken(reset[k].loc)
    BY <1>5, <2>1, <2>3 DEF Right
  <2>4. ASSUME NEW m \in DOMAIN reset, m > k, reset[m].loc = reset[k].loc PROVE Right(j)'
    <3>1. m # i
      <4>1. m = i => k \in 1 .. i - 1
        BY <1>2, <2>1, <2>4
      <4> QED
        BY <1>1, <2>4, <4>1
    <3> DEFINE n == IF m < i THEN m ELSE m - 1
    <3>2. n \in 1 .. Len(reset') /\ reset'[n] = reset[m]
      BY <1>2, <1>7, <3>1
    <3>3. n > j
      BY <1>2, <2>1, <2>4, <3>1
    <3>4. n \in DOMAIN reset' /\ n > j /\ reset'[n].loc = reset'[j].loc
      BY <1>3, <2>1, <2>4, <3>2, <3>3
    <3> QED
      BY <3>4 DEF Right
  <2> QED
    BY <2>2, <2>3, <2>4 DEF Right
<1>9. ASSUME NEW l \in Locs \ {"target"} PROVE l \in Pending' \/ mem'[l] = Woken(l)
  <2>0. ASSUME NEW m \in 1 .. Len(reset), m # i, reset[m].loc = l PROVE l \in Pending'
    <3>1. PICK n \in 1 .. Len(reset') : reset'[n] = reset[m]
      BY <1>7, <2>0
    <3>2. n \in DOMAIN reset' /\ reset'[n].loc = l
      BY <1>3, <2>0, <3>1
    <3> QED
      BY <3>2 DEF Pending
  <2>1. CASE l # reset[i].loc
    <3>1. l \in Pending \/ mem[l] = Woken(l)
      BY DEF Waking, Queued
    <3>2. mem'[l] = mem[l]
      BY <1>6, <2>1
    <3>3. ASSUME l \in Pending PROVE l \in Pending'
      <4>1. PICK m \in DOMAIN reset : l = reset[m].loc
        BY <3>3 DEF Pending
      <4> QED
        BY <1>2, <2>0, <2>1, <4>1
    <3> QED
      BY <3>1, <3>2, <3>3
  <2>2. CASE l = reset[i].loc
    <3>1. Right(i)
      BY <1>2 DEF Waking, Queued
    <3>2. CASE reset[i].v = Woken(reset[i].loc)
      BY <1>6, <2>2, <3>2
    <3>3. ASSUME NEW m \in DOMAIN reset, m > i, reset[m].loc = reset[i].loc PROVE l \in Pending'
      BY <1>2, <2>0, <2>2, <3>3
    <3> QED
      BY <2>2, <3>1, <3>2, <3>3 DEF Right
  <2> QED
    BY <2>1, <2>2
<1>10. Queued'
  <2>1. \A l \in Locs \ {"target"} : l \in Pending' \/ mem'[l] = Woken(l)'
    BY <1>5, <1>9
  <2>2. \A j \in 1 .. Len(reset') : Right(j)'
    BY <1>8
  <2> QED
    BY <1>3, <2>1, <2>2 DEF Queued
<1>11. ASSUME ~weak, reset' # <<>> PROVE reset'[Len(reset')].loc = "target"
  <2>1. i = 1
    BY <1>1, <1>2, <1>11
  <2>2. Len(reset') > 0
    BY <1>3, <1>11
  <2>3. reset'[Len(reset')] = reset[Len(reset)]
    BY <1>2, <1>3, <2>1, <2>2
  <2> QED
    BY <1>11, <2>3 DEF Waking
<1>12. ASSUME weak
       PROVE  /\ mem'["flag"] = 0 /\ mem'["turn"] = 0
              /\ \A j \in 1 .. Len(reset') :
                    reset'[j].loc \in {"flag", "turn"} => reset'[j].v = 0
  <2>1. /\ mem["flag"] = 0 /\ mem["turn"] = 0 /\ "flag" \in Locs /\ "turn" \in Locs
        /\ \A j \in 1 .. Len(reset) : reset[j].loc \in {"flag", "turn"} => reset[j].v = 0
    BY <1>12 DEF Waking, Locs
  <2>2. ASSUME NEW l \in {"flag", "turn"} PROVE mem'[l] = 0
    BY <1>2, <1>6, <2>1, <2>2
  <2>3. ASSUME NEW j \in 1 .. Len(reset'), reset'[j].loc \in {"flag", "turn"}
        PROVE  reset'[j].v = 0
    <3> DEFINE k == IF j < i THEN j ELSE j + 1
    <3>1. k \in 1 .. Len(reset) /\ reset'[j] = reset[k]
      BY <1>2, <1>3
    <3> HIDE DEF k
    <3> QED
      BY <2>1, <2>3, <3>1
  <2> QED
    BY <2>2, <2>3
<1> QED
  BY <1>1, <1>4, <1>10, <1>11, <1>12

-----------------------------------------------------------------------------
(***************************************************************************)
(* All the tests together.                                                 *)
(***************************************************************************)
\* How far the running test is, with no assertion failed.
Follows ==
    \/ test = "P4.0" /\ (weak \/ (MagicInv /\ Clean))
    \/ test = "P4.1A" /\ FenceAInv /\ Clean
    \/ test = "P4.1B" /\ (weak \/ (FenceBInv /\ Clean))
    \/ test = "P4.2" /\ (weak \/ (CountInv /\ Clean))
    \/ test = "P4.3" /\ (weak \/ (LockInv /\ Clean))
    \/ test = "P4.4" /\ TurnInv /\ Clean
    \/ test = "Z_second_cpu" /\ SecondCpuInv /\ Clean
    \/ test = "Z_fence" /\ FenceInv(0) /\ Clean
    \/ test = "Z_fence_rev" /\ FenceInv(1) /\ Clean
    \/ test = "Z_stress" /\ StressInv /\ Clean
    \/ test = "Z_spinlock" /\ ZSpinlockInv /\ Clean
    \/ test = "Z_ping_pong" /\ PongInv /\ Clean
\* The inductive invariant: nothing is claimed of a test of Unordered on weak harts.
SoundInv ==
    /\ Shape /\ (weak \/ NoneEarly)
    /\ \/ weak /\ test \in Unordered
       \/ Waking
       \/ reset = <<>> /\ Follows

\* No step changes the test or the kind of harts, and loads are satisfied early
\* only on weak ones.
LEMMA SameTest ==
    ASSUME [Next]_vars
    PROVE  test' = test /\ (weak <=> weak') /\ (~weak /\ Shape /\ NoneEarly => NoneEarly')
<1>1. CASE UNCHANGED vars
  BY <1>1 DEF vars, NoneEarly
<1>2. CASE Join
  BY <1>2 DEF Join, NoneEarly
<1>3. ASSUME NEW h \in Harts, Drain(h)
      PROVE  test' = test /\ (weak <=> weak') /\ (NoneEarly => NoneEarly')
  BY <1>3 DEF Drain, NoneEarly
<1>4. ASSUME NEW h \in Harts, Prefetch(h) PROVE test' = test /\ (weak <=> weak') /\ weak
  BY <1>4 DEF Prefetch
<1>6. CASE WakeStore
  BY <1>6 DEF WakeStore, NoneEarly
<1>5. ASSUME NEW h \in Harts, Hart(h)
      PROVE  test' = test /\ (weak <=> weak') /\ (Shape /\ NoneEarly => NoneEarly')
  <2>1. test' = test /\ weak' = weak
    BY <1>5 DEF Hart, Issue, Load, SpinWait, Fence, LockAmo, Atomic, Sem, At
  <2>2. \/ early' = early \/ early' = [early EXCEPT ![h] = {}]
        \/ \E l : early' = [early EXCEPT ![h] = {e \in @ : e[1] # l}]
    <3>1. CASE Issue(h)
      BY <3>1 DEF Issue, NotEarly
    <3>2. CASE Load(h)
      BY <3>2 DEF Load, NotEarly
    <3>3. CASE SpinWait(h) \/ LockAmo(h)
      BY <3>3 DEF SpinWait, LockAmo
    <3>4. CASE Fence(h)
      BY <3>4 DEF Fence
    <3>5. CASE Atomic(h) \/ Sem(h)
      BY <3>5 DEF Atomic, Sem
    <3> QED
      BY <1>5, <3>1, <3>2, <3>3, <3>4, <3>5 DEF Hart
  <2>3. Shape /\ NoneEarly => NoneEarly'
    <3> SUFFICES ASSUME Shape, NoneEarly, NEW g \in Harts PROVE early'[g] = {}
      BY DEF NoneEarly
    <3>1. CASE early' = early
      BY <3>1 DEF NoneEarly
    <3>2. CASE early' = [early EXCEPT ![h] = {}]
      BY <3>2 DEF NoneEarly, Shape, Indexed
    <3>3. ASSUME NEW l, early' = [early EXCEPT ![h] = {e \in @ : e[1] # l}]
          PROVE  early'[g] = {}
      <4>1. early[h] = {} /\ early[g] = {}
        BY DEF NoneEarly
      <4>2. CASE g = h
        <5>1. early'[h] = {e \in early[h] : e[1] # l}
          BY <3>3 DEF Shape, Indexed
        <5> QED
          BY <4>1, <4>2, <5>1
      <4>3. CASE g # h
        <5>1. early'[g] = early[g]
          BY <3>3, <4>3 DEF Shape, Indexed
        <5> QED
          BY <4>1, <5>1
      <4> QED
        BY <4>2, <4>3
    <3> QED
      BY <2>2, <3>1, <3>2, <3>3
  <2> QED
    BY <2>1, <2>3
<1> QED
  BY <1>1, <1>2, <1>3, <1>4, <1>5, <1>6 DEF Next

\* The producer and the consumer, either way round.
LEMMA FencePrograms ==
    /\ test = "Z_fence" =>
         Prog(0) = producer_entry /\ Prog(1) = consumer_entry /\ Test(test).final = {}
    /\ test = "Z_fence_rev" =>
         Prog(1) = producer_entry /\ Prog(0) = consumer_entry /\ Test(test).final = {}
<1>1. ASSUME test = "Z_fence"
      PROVE  Prog(0) = producer_entry /\ Prog(1) = consumer_entry /\ Test(test).final = {}
  <2>1. Test(test) = Pair(producer_entry, consumer_entry, {})
    BY <1>1, Programs DEF test_fence_producer_consumer
  <2> QED
    BY <2>1, ProgOf
<1>2. ASSUME test = "Z_fence_rev"
      PROVE  Prog(1) = producer_entry /\ Prog(0) = consumer_entry /\ Test(test).final = {}
  <2>1. Test(test) = Pair(consumer_entry, producer_entry, {})
    BY <1>2, Programs DEF test_fence_producer_consumer_rev
  <2> QED
    BY <2>1, ProgOf
<1> QED
  BY <1>1, <1>2

\* A test of which all is in memory that the wake stores can begin.
LEMMA Arrived ==
    ASSUME test' \in Baremetal, Clean', pc'[0] = 1, pc'[1] = 1, buf'[0] = <<>>, buf'[1] = <<>>,
           \A l \in Locs \ {"target"} : mem'[l] = Woken(l)', (weak \/ NoneEarly)',
           weak' => test' \in {"P4.1A", "P4.4"},
           test' = "P4.1A" => \A e \in early'[0] : e[1] = "expected" => e[2] = 1
    PROVE  Follows'
<1>1. /\ 0 \in Harts /\ 1 \in Harts /\ Rounds \in Nat \ {0} /\ 0 \in 0 .. Rounds
  BY RoundsAssumption DEF Harts
<1>2. \A l \in Locs \ {"target", "expected"} : mem'[l] = 0
  BY DEF Woken
<1>3. /\ mem'["payload"] = 0 /\ mem'["flag"] = 0 /\ mem'["done"] = 0 /\ mem'["wrote"] = 0
      /\ mem'["counter"] = 0 /\ mem'["lock"] = 0 /\ mem'["var"] = 0 /\ mem'["turn"] = 0
      /\ mem'["count"] = 0 /\ mem'["ok"] = 0
  BY <1>2 DEF Locs
<1>4. test' \in {"P4.1A", "P4.1B"} => mem'["expected"] = 1
  BY DEF Woken, Locs
<1>5. CASE test' = "P4.0"
  <2>1. MagicInv'
    BY <1>3 DEF MagicInv, Sending
  <2> QED
    BY <1>5, <2>1 DEF Follows
<1>6. CASE test' = "P4.1A"
  <2>1. Fresh(0, "expected")'
    BY <1>4, <1>6 DEF Fresh
  <2>2. MessageInv(0, 1)'
    BY <1>3, <1>4, <1>6, <2>1 DEF MessageInv, Offering, Receiving
  <2>3. FenceAInv'
    BY <2>2 DEF FenceAInv
  <2> QED
    BY <1>6, <2>3 DEF Follows
<1>7. CASE test' = "P4.1B"
  <2>1. ASSUME NoneEarly' PROVE Fresh(1, "expected")'
    BY <1>1, <2>1 DEF Fresh, NoneEarly
  <2>2. NoneEarly' => MessageInv(1, 0)'
    BY <1>3, <1>4, <1>7, <2>1 DEF MessageInv, Offering, Receiving
  <2>3. NoneEarly' => FenceBInv'
    BY <2>2 DEF FenceBInv
  <2> QED
    BY <1>7, <2>3 DEF Follows
<1>8. CASE test' = "P4.2"
  <2>1. Queue(<<>>, 0, 0)
    BY DEF Queue
  <2>2. Counting(0, 0, 0, 0)' /\ Counting(1, 0, 0, 0)' /\ mem'["counter"] = 0 + 0
    BY <1>1, <1>3, <2>1 DEF Counting
  <2>3. mem'["done"] # 1 /\ ~(pc'[0] > Rounds + 1)
    BY <1>1, <1>3
  <2>4. CountInv'
    BY <1>1, <2>2, <2>3 DEF CountInv
  <2> QED
    BY <1>8, <2>4 DEF Follows
<1>9. CASE test' = "P4.3"
  <2>1. Without(0, 0)' /\ Without(1, 0)' /\ mem'["lock"] = 0 /\ mem'["var"] = 0 + 0
    BY <1>1, <1>3 DEF Without, Before
  <2>2. Mutex(0, 0, 0)'
    BY <1>1, <2>1 DEF Mutex
  <2>3. Finish'
    BY <1>1, <1>3 DEF Finish
  <2>4. LockInv'
    BY <1>1, <2>2, <2>3 DEF LockInv
  <2> QED
    BY <1>9, <2>4 DEF Follows
<1>10. CASE test' = "P4.4"
  <2>1. HasTurn(0, 0)'
    BY <1>1, <1>3 DEF HasTurn, Holding
  <2>2. TurnInv'
    BY <1>1, <2>1 DEF TurnInv
  <2> QED
    BY <1>10, <2>2 DEF Follows
<1> QED
  BY <1>5, <1>6, <1>7, <1>8, <1>9, <1>10 DEF Baremetal

\* Hart 1 does nothing while the stores are on their way: on ordered harts its
\* function is the last to arrive, on weak ones P4.1A and P4.4 make it wait.
LEMMA HartsWait ==
    ASSUME Shape, Waking, NEW h \in Harts
    PROVE  ~Hart(h) /\ ~Drain(h)
<1> SUFFICES ASSUME Hart(h) \/ Drain(h) PROVE FALSE
  OBVIOUS
<1>1. ~Drain(h)
  BY DrainFrame DEF Waking, Harts
<1>2. Started(h)
  BY <1>1 DEF Hart, Issue, Load, SpinWait, Fence, LockAmo, Atomic, Sem, At
<1>3. h = 1 /\ "target" \notin Pending
  BY <1>2 DEF Started, Waking, Harts
<1>4. weak
  <2>1. reset # <<>> /\ reset \in Seq([op : {"st"}, loc : Locs, v : {0, 1}])
    BY DEF Waking, Queued
  <2> DEFINE R == [op : {"st"}, loc : Locs, v : {0, 1}]
  <2>2. reset \in Seq(R) /\ reset # <<>>
    BY <2>1
  <2> HIDE DEF R
  <2>3. Len(reset) \in DOMAIN reset
    BY <2>2
  <2>4. reset[Len(reset)].loc \in Pending
    BY <2>3 DEF Pending
  <2> QED
    BY <1>3, <2>4 DEF Waking
<1>5. Op(1) = Prog(1)[1] /\ test \in {"P4.1A", "P4.4"} /\ mem["flag"] = 0 /\ mem["turn"] = 0
  BY <1>4 DEF Waking, Op
<1>6. CASE test = "P4.1A"
  <2>1. Test(test) = Pair(P4_1A, core1_fence_consumer, {})
    BY <1>6, Programs
  <2>2. Prog(1) = core1_fence_consumer
    BY <2>1, ProgOf
  <2>3. Op(1) = Spin("flag", 1)
    BY <1>5, <2>2 DEF core1_fence_consumer, Consume
  <2> QED
    BY <1>1, <1>3, <1>5, <2>3, DoSpin
<1>7. CASE test = "P4.4"
  <2>1. Op(1) = Spin("turn", 1)
    <3>1. 0 \in 0 .. Rounds - 1 /\ 6 * 0 + 1 = 1
      BY RoundsAssumption
    <3>2. \A g \in Harts : TurnAt(Prog(g), g, 1 - g, 0)
      BY <1>7, <3>1, TurnOps
    <3>3. 1 \in Harts /\ 1 - 1 = 0
      BY DEF Harts
    <3>4. TurnAt(Prog(1), 1, 1 - 1, 0)
      BY <3>2, <3>3
    <3>5. Prog(1)[6 * 0 + 1] = Spin("turn", 1)
      BY <3>4 DEF TurnAt
    <3> QED
      BY <1>5, <3>1, <3>5
  <2> QED
    BY <1>1, <1>3, <1>5, <2>1, DoSpin
<1> QED
  BY <1>5, <1>6, <1>7

\* The tests of the bare-metal suite assert nothing after a join.
LEMMA BaremetalFinal == ASSUME test \in Baremetal PROVE Test(test).final = {}
<1>1. \E p, q : Test(test) = Pair(p, q, {})
  BY Programs DEF Baremetal
<1> QED
  BY <1>1, ProgOf

\* While the stores of the wake arrive, nothing else happens but early loads.
LEMMA WakingStep ==
    ASSUME Shape, weak \/ NoneEarly, Waking, [Next]_vars
    PROVE  Waking' \/ (reset' = <<>> /\ Follows')
<1>1. test' = test /\ (weak <=> weak') /\ (weak \/ NoneEarly)'
  BY SameTest
<1>2. \A l : Woken(l)' = Woken(l)
  BY <1>1 DEF Woken
<1>3. CASE WakeStore
  <2>1. /\ Queued' /\ Clean' /\ pc' = pc /\ buf' = buf /\ early' = early
        /\ ~weak /\ reset' # <<>> => reset'[Len(reset')].loc = "target"
        /\ weak => /\ mem'["flag"] = 0 /\ mem'["turn"] = 0
                   /\ \A j \in 1 .. Len(reset') :
                         reset'[j].loc \in {"flag", "turn"} => reset'[j].v = 0
    BY <1>3, WakeStoreStep
  <2>2. CASE reset' # <<>>
    <3>1. Waking'
      BY <1>1, <2>1, <2>2 DEF Waking
    <3> QED
      BY <3>1
  <2>3. CASE reset' = <<>>
    <3>1. Pending' = {}
      BY <2>3 DEF Pending
    <3>2. \A l \in Locs \ {"target"} : mem'[l] = Woken(l)'
      BY <2>1, <3>1 DEF Queued
    <3>3. Follows'
      BY <1>1, <2>1, <3>2, Arrived DEF Waking
    <3> QED
      BY <2>3, <3>3
  <2> QED
    BY <2>2, <2>3
<1>4. CASE ~WakeStore
  <2>1. /\ reset' = reset /\ mem' = mem /\ pc' = pc /\ buf' = buf /\ Clean'
        /\ (early' = early \/ \E h \in Harts : Prefetch(h))
    <3>1. CASE UNCHANGED vars
      BY <3>1 DEF vars, Waking, Clean
    <3>2. CASE Join
      BY <3>2, BaremetalFinal DEF Join, Waking, Clean
    <3>3. ASSUME NEW h \in Harts, Prefetch(h)
          PROVE  reset' = reset /\ mem' = mem /\ pc' = pc /\ buf' = buf /\ Clean'
      BY <3>3 DEF Prefetch, Waking, Clean
    <3> QED
      BY <1>4, <3>1, <3>2, <3>3, HartsWait DEF Next
  <2>2. Queued'
    <3>1. Pending' = Pending /\ \A i : Right(i)' = Right(i)
      BY <1>2, <2>1 DEF Pending, Right
    <3> QED
      BY <1>2, <2>1, <3>1 DEF Waking, Queued
  <2>3. ASSUME test = "P4.1A", NEW e \in early'[0], e[1] = "expected" PROVE e[2] = 1
    <3>0. 0 \in Harts /\ \A x \in early[0] : x[1] = "expected" => x[2] = 1
      BY <2>3 DEF Waking, Harts
    <3>1. CASE early' = early
      BY <2>3, <3>0, <3>1
    <3>2. ASSUME NEW h \in Harts, Prefetch(h) PROVE e[2] = 1
      <4>1. PICK l \in Ahead(h) : /\ h = 0 => l \notin Pending
                                  /\ early' = [early EXCEPT ![h] = @ \cup {<<l, mem[l]>>}]
        BY <3>2 DEF Prefetch
      <4>2. early'[0] = early[0] \/ (h = 0 /\ early'[0] = early[0] \cup {<<l, mem[l]>>})
        BY <3>0, <4>1 DEF Shape, Indexed
      <4>3. CASE e \in early[0]
        BY <2>3, <3>0, <4>3
      <4>4. CASE h = 0 /\ e = <<l, mem[l]>>
        <5>1. l = "expected" /\ e[2] = mem[l]
          BY <2>3, <4>4
        <5>2. "expected" \in Locs \ {"target"} /\ "expected" \notin Pending
          BY <4>1, <4>4, <5>1 DEF Locs
        <5>3. mem["expected"] = 1
          BY <2>3, <5>2 DEF Waking, Queued, Woken
        <5> QED
          BY <5>1, <5>3
      <4> QED
        BY <2>3, <4>2, <4>3, <4>4
    <3> QED
      BY <2>1, <3>1, <3>2
  <2>4. Waking'
    BY <1>1, <2>1, <2>2, <2>3 DEF Waking
  <2> QED
    BY <2>4
<1> QED
  BY <1>3, <1>4

\* Every step keeps the running test on its way.
LEMMA FollowsStep ==
    ASSUME Shape, weak \/ NoneEarly, reset = <<>>, Follows, [Next]_vars
    PROVE  reset' = <<>> /\ Follows'
<1>0. [Runs]_vars
  <2>1. ~WakeStore
    BY DEF WakeStore
  <2> QED
    BY <2>1 DEF Next, Runs
<1>15. reset' = <<>>
  <2>1. CASE UNCHANGED vars
    BY <2>1 DEF vars
  <2>2. ASSUME NEW h \in Harts, Drain(h) \/ Prefetch(h) PROVE reset' = reset
    BY <2>2 DEF Drain, Prefetch
  <2>3. ASSUME NEW h \in Harts, Hart(h) PROVE reset' = reset
    BY <2>3 DEF Hart, Issue, Load, SpinWait, Fence, LockAmo, Atomic, Sem, At
  <2>4. CASE Join
    BY <2>4 DEF Join
  <2> QED
    BY <1>0, <2>1, <2>2, <2>3, <2>4 DEF Runs
<1>1. /\ Shape /\ Shape' /\ test' = test /\ (weak <=> weak') /\ (weak \/ NoneEarly)
      /\ (weak \/ NoneEarly)' /\ [Runs]_vars
  BY <1>0, ShapeKept, SameTest
<1>2. ASSUME test = "P4.0", weak \/ (MagicInv /\ Clean) PROVE Follows'
  BY <1>1, <1>2, MagicStep DEF Follows
<1>3. ASSUME test = "P4.1A", FenceAInv, Clean PROVE Follows'
  BY <1>1, <1>3, FenceAStep DEF Follows
<1>4. ASSUME test = "P4.1B", weak \/ (FenceBInv /\ Clean) PROVE Follows'
  BY <1>1, <1>4, FenceBStep DEF Follows
<1>5. ASSUME test = "P4.2", weak \/ (CountInv /\ Clean) PROVE Follows'
  BY <1>1, <1>5, CountStep DEF Follows
<1>6. ASSUME test = "P4.3", weak \/ (LockInv /\ Clean) PROVE Follows'
  BY <1>1, <1>6, LockStep DEF Follows
<1>7. ASSUME test = "P4.4", TurnInv, Clean PROVE Follows'
  BY <1>1, <1>7, TurnStep DEF Follows
<1>8. ASSUME test = "Z_second_cpu", SecondCpuInv, Clean PROVE Follows'
  BY <1>1, <1>8, SecondCpuStep DEF Follows
<1>9. ASSUME test = "Z_fence", FenceInv(0), Clean PROVE Follows'
  <2>1. 0 \in Harts /\ 1 - 0 = 1
    BY DEF Harts
  <2>2. FenceInv(0)' /\ Clean'
    BY <1>1, <1>9, <2>1, FencePrograms, FenceStep
  <2> QED
    BY <1>1, <1>9, <2>2 DEF Follows
<1>10. ASSUME test = "Z_fence_rev", FenceInv(1), Clean PROVE Follows'
  <2>1. 1 \in Harts /\ 1 - 1 = 0
    BY DEF Harts
  <2>2. FenceInv(1)' /\ Clean'
    BY <1>1, <1>10, <2>1, FencePrograms, FenceStep
  <2> QED
    BY <1>1, <1>10, <2>2 DEF Follows
<1>11. ASSUME test = "Z_stress", StressInv, Clean PROVE Follows'
  BY <1>1, <1>11, StressStep DEF Follows
<1>12. ASSUME test = "Z_spinlock", ZSpinlockInv, Clean PROVE Follows'
  BY <1>1, <1>12, ZSpinlockStep DEF Follows
<1>13. ASSUME test = "Z_ping_pong", PongInv, Clean PROVE Follows'
  BY <1>1, <1>13, PongStep DEF Follows, PingPong
<1>14. Follows'
  BY <1>2, <1>3, <1>4, <1>5, <1>6, <1>7, <1>8, <1>9, <1>10, <1>11, <1>12, <1>13
     DEF Follows
<1> QED
  BY <1>14, <1>15

\* No step leaves the invariant.
LEMMA SoundStep == ASSUME SoundInv, [Next]_vars PROVE SoundInv'
<1>1. /\ Shape' /\ test' = test /\ (weak <=> weak') /\ (weak \/ NoneEarly)'
  BY ShapeKept, SameTest DEF SoundInv
<1>2. CASE weak /\ test \in Unordered
  BY <1>1, <1>2 DEF SoundInv
<1>3. CASE Waking
  BY <1>1, <1>3, WakingStep DEF SoundInv
<1>4. CASE reset = <<>> /\ Follows
  BY <1>1, <1>4, FollowsStep DEF SoundInv
<1> QED
  BY <1>2, <1>3, <1>4 DEF SoundInv

\* Stores that set each location right, and then g_smode_target, are a wake.
LEMMA QueuedFirst ==
    ASSUME NEW p \in Seq([op : {"st"}, loc : Locs, v : {0, 1}]), reset = p \o <<St("target", 1)>>,
           \A i \in 1 .. Len(p) :
              \/ p[i].v = Woken(p[i].loc)
              \/ \E j \in 1 .. Len(p) : j > i /\ p[j].loc = p[i].loc,
           \A l \in Locs \ {"target"} : mem[l] = Woken(l) \/ \E i \in 1 .. Len(p) : p[i].loc = l
    PROVE  /\ Queued /\ reset # <<>> /\ reset[Len(reset)].loc = "target"
           /\ \A i \in 1 .. Len(reset) :
                 reset[i].loc = "target" \/ (i \in 1 .. Len(p) /\ reset[i] = p[i])
<1> DEFINE R == [op : {"st"}, loc : Locs, v : {0, 1}]
           t == <<St("target", 1)>>
<1>1. p \in Seq(R)
  OBVIOUS
<1>2. t \in Seq(R) /\ Len(t) = 1 /\ t[1].loc = "target"
  <2>1. St("target", 1) \in R /\ St("target", 1).loc = "target"
    BY DEF St, Locs
  <2> QED
    BY <2>1
<1>3. reset = p \o t
  OBVIOUS
<1> HIDE DEF R, t
<1>4. reset \in Seq(R) /\ Joined(reset, p, t)
  BY <1>1, <1>2, <1>3, JoinedAt
<1>5. /\ Len(p) \in Nat /\ Len(reset) = Len(p) + 1 /\ DOMAIN reset = 1 .. Len(reset)
      /\ \A i \in 1 .. Len(p) : reset[i] = p[i]
      /\ reset[Len(p) + 1] = t[1]
  BY <1>1, <1>2, <1>4 DEF Joined
<1>6. reset[Len(reset)].loc = "target" /\ reset # <<>>
  BY <1>2, <1>4, <1>5
<1>7. ASSUME NEW i \in 1 .. Len(reset)
      PROVE  reset[i].loc = "target" \/ (i \in 1 .. Len(p) /\ reset[i] = p[i])
  BY <1>5, <1>6
<1>8. ASSUME NEW i \in 1 .. Len(reset) PROVE Right(i)
  <2>1. CASE reset[i].loc = "target"
    BY <2>1 DEF Right
  <2>2. CASE i \in 1 .. Len(p) /\ reset[i] = p[i] /\ p[i].v = Woken(p[i].loc)
    BY <2>2 DEF Right
  <2>3. ASSUME i \in 1 .. Len(p), NEW j \in 1 .. Len(p), j > i, p[j].loc = p[i].loc
        PROVE  Right(i)
    <3>1. j \in DOMAIN reset /\ reset[j].loc = reset[i].loc
      BY <1>5, <2>3
    <3> QED
      BY <2>3, <3>1 DEF Right
  <2> QED
    BY <1>7, <2>1, <2>2, <2>3
<1>9. ASSUME NEW l \in Locs \ {"target"} PROVE l \in Pending \/ mem[l] = Woken(l)
  <2>1. ASSUME NEW i \in 1 .. Len(p), p[i].loc = l PROVE l \in Pending
    <3>1. i \in DOMAIN reset /\ reset[i].loc = l
      BY <1>5, <2>1
    <3> QED
      BY <3>1 DEF Pending
  <2> QED
    BY <2>1
<1>10. Queued
  BY <1>4, <1>8, <1>9 DEF Queued, R
<1> QED
  BY <1>6, <1>7, <1>10

\* Each test of the bare-metal suite starts with its wake under way.
LEMMA WakingInit ==
    ASSUME Init, test \in Baremetal, Clean, NoneEarly, ~(weak /\ test \in Unordered)
    PROVE  Waking
<1> DEFINE R == [op : {"st"}, loc : Locs, v : {0, 1}]
<1>1. /\ pc[0] = 1 /\ pc[1] = 1 /\ buf[0] = <<>> /\ buf[1] = <<>> /\ early[0] = {}
  BY DEF Init, Harts
<1>2. reset = Wake(test) /\ mem = Left(test)
  BY DEF Init
<1>3. weak => test \in {"P4.1A", "P4.4"}
  BY DEF Baremetal, Unordered
<1>4. test # "P4.1B" => \A l \in Locs : mem[l] = 0
  BY <1>2 DEF Left
<1>5. weak => mem["flag"] = 0 /\ mem["turn"] = 0
  BY <1>3, <1>4 DEF Locs
<1>6. \A l \in Locs, v \in {0, 1} : St(l, v) \in R /\ St(l, v).loc = l /\ St(l, v).v = v
  BY DEF St
<1>7. ASSUME NEW p \in Seq(R), reset = p \o <<St("target", 1)>>,
             \A i \in 1 .. Len(p) :
                \/ p[i].v = Woken(p[i].loc)
                \/ \E j \in 1 .. Len(p) : j > i /\ p[j].loc = p[i].loc,
             \A l \in Locs \ {"target"} :
                mem[l] = Woken(l) \/ \E i \in 1 .. Len(p) : p[i].loc = l,
             \A i \in 1 .. Len(p) : p[i].loc \in {"flag", "turn"} => p[i].v = 0
      PROVE  Waking
  <2>1. /\ Queued /\ reset # <<>> /\ reset[Len(reset)].loc = "target"
        /\ \A i \in 1 .. Len(reset) :
              reset[i].loc = "target" \/ (i \in 1 .. Len(p) /\ reset[i] = p[i])
    BY <1>7, QueuedFirst
  <2>2. \A i \in 1 .. Len(reset) : reset[i].loc \in {"flag", "turn"} => reset[i].v = 0
    BY <1>7, <2>1
  <2> QED
    BY <1>1, <1>3, <1>5, <2>1, <2>2 DEF Waking
<1>8. ASSUME NEW p \in Seq(R), reset = p \o <<St("target", 1)>>, test \notin {"P4.1A", "P4.1B"},
             \A i \in 1 .. Len(p) : p[i].v = 0
      PROVE  Waking
  <2>1. \A l : Woken(l) = 0
    BY <1>8 DEF Woken
  <2> QED
    BY <1>4, <1>7, <1>8, <2>1
<1>9. CASE test = "P4.0"
  <2> DEFINE p == <<St("payload", 0), St("wrote", 0)>>
  <2>1. p \in Seq(R) /\ \A i \in 1 .. Len(p) : p[i].v = 0
    <3>1. "payload" \in Locs /\ "wrote" \in Locs
      BY DEF Locs
    <3> HIDE DEF R
    <3> QED
      BY <1>6, <3>1
  <2>2. reset = p \o <<St("target", 1)>>
    BY <1>2, <1>9 DEF Wake
  <2> HIDE DEF p
  <2> QED
    BY <1>8, <1>9, <2>1, <2>2
<1>10. CASE test = "P4.2"
  <2> DEFINE p == <<St("counter", 0), St("done", 0)>>
  <2>1. p \in Seq(R) /\ \A i \in 1 .. Len(p) : p[i].v = 0
    <3>1. "counter" \in Locs /\ "done" \in Locs
      BY DEF Locs
    <3> HIDE DEF R
    <3> QED
      BY <1>6, <3>1
  <2>2. reset = p \o <<St("target", 1)>>
    BY <1>2, <1>10 DEF Wake
  <2> HIDE DEF p
  <2> QED
    BY <1>8, <1>10, <2>1, <2>2
<1>11. CASE test = "P4.3"
  <2> DEFINE p == <<St("lock", 0), St("var", 0), St("done", 0)>>
  <2>1. p \in Seq(R) /\ \A i \in 1 .. Len(p) : p[i].v = 0
    <3>1. "lock" \in Locs /\ "var" \in Locs /\ "done" \in Locs
      BY DEF Locs
    <3> HIDE DEF R
    <3> QED
      BY <1>6, <3>1
  <2>2. reset = p \o <<St("target", 1)>>
    BY <1>2, <1>11 DEF Wake
  <2> HIDE DEF p
  <2> QED
    BY <1>8, <1>11, <2>1, <2>2
<1>12. CASE test = "P4.4"
  <2> DEFINE p == <<St("count", 0), St("turn", 0)>>
  <2>1. p \in Seq(R) /\ \A i \in 1 .. Len(p) : p[i].v = 0
    <3>1. "count" \in Locs /\ "turn" \in Locs
      BY DEF Locs
    <3> HIDE DEF R
    <3> QED
      BY <1>6, <3>1
  <2>2. reset = p \o <<St("target", 1)>>
    BY <1>2, <1>12 DEF Wake
  <2> HIDE DEF p
  <2> QED
    BY <1>8, <1>12, <2>1, <2>2
<1>13. CASE test \in {"P4.1A", "P4.1B"}
  <2>0. /\ "payload" \in Locs /\ "expected" \in Locs /\ "flag" \in Locs /\ "done" \in Locs
        /\ "ok" \in Locs
    BY DEF Locs
  <2> DEFINE q == fence_reset
             x == <<St("expected", 1)>>
             p == q \o x
  <2>1. /\ q \in Seq(R) /\ Len(q) = 5 /\ q[1] = St("payload", 0) /\ q[2] = St("expected", 0)
        /\ q[3] = St("flag", 0) /\ q[4] = St("done", 0) /\ q[5] = St("ok", 0)
        /\ x \in Seq(R) /\ Len(x) = 1 /\ x[1] = St("expected", 1)
    <3> HIDE DEF R
    <3> QED
      BY <1>6, <2>0 DEF fence_reset
  <2>2. reset = p \o <<St("target", 1)>>
    BY <1>2, <1>13 DEF Wake
  <2>3. p \in Seq(R) /\ Joined(p, q, x)
    <3> HIDE DEF R, q, x
    <3> QED
      BY <2>1, JoinedAt
  <2> HIDE DEF p, q, x
  <2>4. /\ Len(p) = 6 /\ p[1] = St("payload", 0) /\ p[2] = St("expected", 0)
        /\ p[3] = St("flag", 0) /\ p[4] = St("done", 0) /\ p[5] = St("ok", 0)
        /\ p[6] = St("expected", 1)
    <3>1. Len(p) = 6 /\ \A i \in 1 .. 5 : p[i] = q[i]
      BY <2>1, <2>3 DEF Joined
    <3>2. p[5 + 1] = x[1]
      BY <2>1, <2>3 DEF Joined
    <3> QED
      BY <2>1, <3>1, <3>2
  <2>5. Woken("expected") = 1 /\ \A l : l # "expected" => Woken(l) = 0
    BY <1>13 DEF Woken
  <2>6. /\ p[1].loc = "payload" /\ p[1].v = 0 /\ p[2].loc = "expected" /\ p[2].v = 0
        /\ p[3].loc = "flag" /\ p[3].v = 0 /\ p[4].loc = "done" /\ p[4].v = 0
        /\ p[5].loc = "ok" /\ p[5].v = 0 /\ p[6].loc = "expected" /\ p[6].v = 1
    BY <2>4 DEF St
  <2>7. ASSUME NEW i \in 1 .. Len(p)
        PROVE  \/ p[i].v = Woken(p[i].loc)
               \/ \E j \in 1 .. Len(p) : j > i /\ p[j].loc = p[i].loc
    <3>1. i \in {1, 2, 3, 4, 5, 6}
      BY <2>4
    <3>2. CASE i = 2
      <4>1. 6 \in 1 .. Len(p) /\ 6 > i /\ p[6].loc = p[i].loc
        BY <2>4, <2>6, <3>2
      <4> QED
        BY <4>1
    <3>3. CASE i # 2
      BY <2>5, <2>6, <3>1, <3>3
    <3> QED
      BY <3>2, <3>3
  <2>8. ASSUME NEW l \in Locs \ {"target"}
        PROVE  mem[l] = Woken(l) \/ \E i \in 1 .. Len(p) : p[i].loc = l
    <3>1. CASE l \in {"payload", "expected", "flag", "done", "ok"}
      BY <2>4, <2>6, <3>1
    <3>2. CASE l \notin {"payload", "expected", "flag", "done", "ok"}
      BY <1>2, <2>5, <3>2 DEF Left
    <3> QED
      BY <3>1, <3>2
  <2>9. ASSUME NEW i \in 1 .. Len(p), p[i].loc \in {"flag", "turn"} PROVE p[i].v = 0
    <3>1. i \in {1, 2, 3, 4, 5, 6}
      BY <2>4
    <3> QED
      BY <2>6, <2>9, <3>1
  <2> QED
    BY <1>7, <2>2, <2>3, <2>7, <2>8, <2>9
<1> QED
  BY <1>9, <1>10, <1>11, <1>12, <1>13 DEF Baremetal

\* It starts so.
LEMMA SoundInit == ASSUME Init PROVE SoundInv
<1>1. /\ 0 \in Harts /\ 1 \in Harts /\ 1 - 0 = 1 /\ 1 - 1 = 0 /\ Rounds \in Nat \ {0}
      /\ 0 \in 0 .. Rounds
  BY RoundsAssumption DEF Harts
<1>2. Shape
  BY DEF Init, Left, Shape, Indexed
<1>4. Clean /\ NoneEarly
  BY DEF Init, Clean, NoneEarly
<1>5. CASE test \in Baremetal
  BY <1>2, <1>4, <1>5, WakingInit DEF SoundInv
<1>6. CASE test \in Zephyr
  <2>1. test \notin {"P4.0", "P4.1A", "P4.1B", "P4.2", "P4.3", "P4.4"}
    BY <1>6 DEF Zephyr
  <2>2. reset = <<>>
    BY <2>1 DEF Init, Wake
  <2>3. /\ pc[0] = 1 /\ pc[1] = 1 /\ buf[0] = <<>> /\ buf[1] = <<>>
        /\ \A l \in Locs : mem[l] = 0
    BY <1>1, <2>1 DEF Init, Left
  <2>4. SecondCpuInv
    BY <1>1, <2>3 DEF SecondCpuInv, Locs
  <2>5. FenceInv(0) /\ FenceInv(1)
    BY <1>1, <2>3 DEF FenceInv, Consuming, Producing, Locs
  <2>6. StressInv
    <3>1. Stressed(0, 0, 0) /\ Stressed(1, 0, 0)
      BY <1>1, <2>3 DEF Stressed, Locs
    <3> QED
      BY <1>1, <3>1 DEF StressInv, Harts
  <2>7. ZSpinlockInv
    <3>1. Exclusion(0, 0, 0)
      BY <1>1, <2>3 DEF Exclusion, Outside, Locs
    <3> QED
      BY <1>1, <3>1 DEF ZSpinlockInv
  <2>8. PongInv
    <3>1. Ponging(0) /\ 0 # Rounds
      BY <1>1, <2>3 DEF Ponging, Locs
    <3> QED
      BY <1>1, <2>3, <3>1 DEF PongInv
  <2>9. Follows
    BY <1>4, <1>6, <2>4, <2>5, <2>6, <2>7, <2>8 DEF Zephyr, Follows
  <2> QED
    BY <1>2, <1>4, <2>2, <2>9 DEF SoundInv
<1> QED
  BY <1>5, <1>6 DEF Init

\* For every number of rounds, on RVWMO harts as on ordered ones: no assertion of
\* any dual-core test fails, but for P4.0, P4.1B, P4.2 and P4.3 on RVWMO harts,
\* where hart 0's reset of g_p4 is not ordered before the wake, or no fence is
\* between the flag they wait for and the value they assert.
THEOREM DualCoreTestsSound == Spec => []DCSound
<1>1. Init => SoundInv
  BY SoundInit
<1>2. SoundInv /\ [Next]_vars => SoundInv'
  BY SoundStep
<1>3. SoundInv => DCSound
  BY DEF SoundInv, Waking, Follows, Clean, DCSound, Unordered
<1> QED
  BY <1>1, <1>2, <1>3, PTL DEF Spec
=============================================================================
