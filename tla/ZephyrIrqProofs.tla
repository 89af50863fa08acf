-------------------------- MODULE ZephyrIrqProofs --------------------------
(***************************************************************************)
(* TLAPS proofs about ZephyrIrq, for every lateness of the interrupt and   *)
(* every number of turns of P2.3: no expiration of the k_timer is lost or  *)
(* counted twice between its callback and the thread that waits for it,    *)
(* and no assertion of the tests fails but the one on P3.1's SC, after an  *)
(* M-mode trap has dropped its reservation.                                *)
(***************************************************************************)
EXTENDS ZephyrIrq, TLAPS

\* The counters: timer_count stops at MaxCount, and the semaphore never holds
\* more than was given.
Counters == timer_count \in 0 .. MaxCount /\ sem \in Nat /\ taken \in Nat

CountInv == Counters /\ NoExpiryLost

\* The steps that leave the three counters alone.
Quiet == UNCHANGED <<timer_count, sem, taken>>

-----------------------------------------------------------------------------
\* No counter changes but in an expiry, a k_sem_take or the start of a test.
LEMMA OtherSteps ==
    ASSUME [Next]_vars
    PROVE  \/ Quiet
           \/ timer_expiry
           \/ k_sem_take
           \/ \E t \in DOMAIN Tests : Begin(t)
<1> USE DEF Quiet, kernel, timerstate, page, others, test
<1>1. CASE Tick \/ MTimerTrap \/ EnterIsr
  BY <1>1 DEF Tick, MTimerTrap, EnterIsr
<1>2. CASE Isr
  BY <1>2 DEF Isr, WaitExpires, LeaveIsr
<1>3. CASE Thread
  <2>1. CASE k_timer_start \/ k_timer_stop \/ Delay \/ BusyEnds
    BY <2>1 DEF k_timer_start, k_timer_stop, Delay, BusyEnds
  <2>2. CASE IrqLock \/ z_riscv_mmu_set_fault_fixup \/ MapRaw \/ LoadOk \/ p2_fixup
    BY <2>2 DEF IrqLock, z_riscv_mmu_set_fault_fixup, MapRaw, LoadOk, p2_fixup
  <2>3. CASE IrqOffload \/ LrSc \/ Zassert
    BY <2>3 DEF IrqOffload, LrSc, Zassert
  <2> QED
    BY <1>3, <2>1, <2>2, <2>3 DEF Thread
<1>4. CASE UNCHANGED vars
  BY <1>4 DEF vars
<1> QED
  BY <1>1, <1>2, <1>3, <1>4 DEF Next

\* One step of the clock, the interrupt or the thread.
LEMMA CountStep == ASSUME CountInv, [Next]_vars PROVE CountInv'
<1> USE BoundAssumption DEF CountInv, Counters, NoExpiryLost, MaxCount
<1>1. CASE Quiet
  BY <1>1 DEF Quiet
<1>2. CASE timer_expiry
  <2>1. timer_count' = Inc(timer_count) /\ k_sem_give
    BY <1>2 DEF timer_expiry
  <2>2. CASE wait = "sem"
    BY <2>1, <2>2 DEF k_sem_give, Inc
  <2>3. CASE wait # "sem"
    <3>1. sem' = Inc(sem) /\ taken' = taken
      BY <2>1, <2>3 DEF k_sem_give
    <3> QED
      BY <2>1, <3>1 DEF Inc
  <2> QED
    BY <2>2, <2>3
<1>3. CASE k_sem_take
  <2>1. timer_count' = timer_count
    BY <1>3 DEF k_sem_take, timerstate
  <2>2. CASE sem > 0
    BY <1>3, <2>1, <2>2 DEF k_sem_take
  <2>3. CASE ~(sem > 0)
    BY <1>3, <2>1, <2>3 DEF k_sem_take
  <2> QED
    BY <2>2, <2>3
<1>4. CASE \E t \in DOMAIN Tests : Begin(t)
  <2>1. timer_count' = 0 /\ sem' = 0 /\ taken' = 0
    BY <1>4 DEF Begin, p2_before
  <2> QED
    BY <2>1
<1> QED
  BY <1>1, <1>2, <1>3, <1>4, OtherSteps

\* For every Want, every bound on the lateness of the interrupt and every order
\* of the tests: as long as the callback's count is below its bound, each
\* expiration has given exactly one unit of timer_sem, which is still there or
\* was taken by a k_sem_take of this test.
THEOREM NoExpiryEverLost == Spec => []NoExpiryLost
<1>1. Init => CountInv
  BY BoundAssumption DEF Init, CountInv, Counters, NoExpiryLost, MaxCount
<1>2. CountInv /\ [Next]_vars => CountInv'
  BY CountStep
<1>3. CountInv => NoExpiryLost
  BY DEF CountInv
<1> QED
  BY <1>1, <1>2, <1>3, PTL DEF Spec

-----------------------------------------------------------------------------
(***************************************************************************)
(* The tests' assertions.  The invariant says, for each test and each of   *)
(* its operations, what holds when the thread stands before it.            *)
(***************************************************************************)
Whats == {"taken", "in isr", "one", "none", "want", "fixed", "ticked", "offload", "sc"}
Ops ==
    {Start(1, Off), Start(1, 1), Stop, Take(4), Sleep(2), Busy(2), Lock(TRUE), Lock(FALSE),
     SetFixup, MapInvalid, Load, Offload, LR, SC} \cup {Check(w) : w \in Whats}

\* The thread stands before operation k + 1 of the program.
Stands(prog, k) ==
    /\ Len(todo) = Len(prog) - k
    /\ \A i \in 1 .. Len(todo) : todo[i] = prog[i + k]

Types ==
    /\ timer \in Int /\ period \in Int /\ until \in Int
    /\ wait \in {"no", "sem", "sleep", "busy"} /\ isr \in {"no", "stimer"}
    /\ todo \in Seq(Ops)

\* The one-shot timer before and after its only expiration, of whose unit n are
\* left; the thread that waits for it has 3 ticks to spare.
Pending == timer <= 1 /\ timer_count = 0 /\ sem = 0
Fired(n) == timer = Off /\ timer_count = 1 /\ sem = n /\ cb = "stimer"
Waiting == wait = "sem" /\ until <= 4 /\ timer <= until - 3
Ready == wait = "no"

In2_1(k) ==
    /\ locked = FALSE
    /\ k = 0 => Ready /\ timer = Off /\ timer_count = 0 /\ sem = 0
    /\ k = 1 => Ready /\ period = Off /\ (Pending \/ Fired(1))
    /\ k = 2 => period = Off /\ ((Waiting /\ Pending) \/ (Ready /\ Fired(0) /\ res = 0))
    /\ k \in {3, 4} => Ready /\ Fired(0)
    /\ k = 5 => wait \in {"no", "sleep"} /\ Fired(0)

In2_2(k) ==
    /\ locked = FALSE /\ Ready
    /\ k = 1 => offload = TRUE

\* Turn j of the loop is operations 2j and 2j + 1.
In2_3(k) ==
    /\ locked = FALSE
    /\ k = 0 => Ready /\ taken = 0
    /\ k \in 1 .. 2 * Want + 1 => timer <= 1 /\ period = 1
    /\ \A j \in 0 .. Want : k = 2 * j + 1 => Ready /\ taken = j
    /\ \A j \in 1 .. Want : k = 2 * j =>
         (Waiting /\ taken = j - 1) \/ (Ready /\ taken = j /\ res = 0)
    /\ k = 2 * Want + 2 => Ready /\ taken = Want

In2_4(k) ==
    /\ locked = FALSE
    /\ k # 5 => Ready
    /\ k < 2 => fix_count = 0
    /\ k > 0 => fixup = TRUE
    /\ k \in {2, 3} => fix_count = (IF pteV = TRUE THEN 1 ELSE 0)
    /\ k > 3 => pteV = TRUE /\ fix_count = 1
    /\ k \in 3 .. 5 => timer <= 1 /\ period = 1
    /\ k = 5 => wait \in {"no", "sleep"} /\ (timer_count > 0 \/ (wait = "sleep" /\ timer < until))
    /\ k > 5 => timer_count > 0

In2_5(k) ==
    /\ k \in 1 .. 4 => locked = TRUE /\ isr = "no"
    /\ k \notin 1 .. 4 => locked = FALSE
    /\ k \notin {3, 6} => Ready
    /\ k < 2 => timer = Off /\ timer_count = 0 /\ sem = 0
    /\ k \in 2 .. 4 => Pending
    /\ k \in 2 .. 6 => period = Off
    /\ k = 3 => wait \in {"no", "busy"}
    /\ k = 5 => Pending \/ Fired(1)
    /\ k = 6 => (Waiting /\ Pending) \/ (Ready /\ Fired(0) /\ res = 0)
    /\ k = 7 => Fired(0)

In3_1(k) ==
    /\ Ready
    /\ k \in {1, 2, 3, 6, 7, 8} => locked = TRUE /\ isr = "no"
    /\ k \in {0, 4, 5, 9} => locked = FALSE
    /\ k \in {2, 7} => resv = TRUE \/ dropped = TRUE
    /\ k \in {3, 4, 8, 9} => sc = 0 \/ dropped = TRUE

Between == todo = <<>> /\ Ready /\ locked = FALSE

Where ==
    \/ Between
    \/ \E k \in 0 .. 5 : Stands(P2_1, k) /\ In2_1(k)
    \/ \E k \in 0 .. 1 : Stands(P2_2, k) /\ In2_2(k)
    \/ \E k \in 0 .. 2 * Want + 2 : Stands(P2_3, k) /\ In2_3(k)
    \/ \E k \in 0 .. 7 : Stands(P2_4, k) /\ In2_4(k)
    \/ \E k \in 0 .. 7 : Stands(P2_5, k) /\ In2_5(k)
    \/ \E k \in 0 .. 9 : Stands(P3_1, k) /\ In3_1(k)

\* What the property says, in a form the provers like.
Excused == failed \in {"none", "sc"} /\ (failed = "sc" => dropped = TRUE)

SoundInv == CountInv /\ Types /\ Excused /\ Where

-----------------------------------------------------------------------------
(***************************************************************************)
(* The programs and the step from one operation to the next.               *)
(***************************************************************************)
\* The operations are told apart by their names.
LEMMA OpNames ==
    /\ Start(1, Off).op = "start" /\ Start(1, 1).op = "start" /\ Stop.op = "stop"
    /\ Take(4).op = "take" /\ Sleep(2).op = "sleep" /\ Busy(2).op = "busy"
    /\ Lock(TRUE).op = "lock" /\ Lock(FALSE).op = "lock"
    /\ SetFixup.op = "fixup" /\ MapInvalid.op = "map" /\ Load.op = "load"
    /\ Offload.op = "offload" /\ LR.op = "lr" /\ SC.op = "sc"
    /\ \A w \in Whats : Check(w).op = "check" /\ Check(w).what = w
BY DEF Start, Stop, Take, Sleep, Busy, Lock, SetFixup, MapInvalid, Load, Offload, LR, SC, Check

\* Their arguments.
LEMMA OpArgs ==
    /\ Start(1, Off).d = 1 /\ Start(1, Off).p = Off /\ Start(1, 1).d = 1 /\ Start(1, 1).p = 1
    /\ Take(4).d = 4 /\ Sleep(2).d = 2 /\ Busy(2).d = 2
    /\ Lock(TRUE).b = TRUE /\ Lock(FALSE).b = FALSE
BY DEF Start, Take, Sleep, Busy, Lock

\* The fixed programs, operation by operation.
LEMMA Prog2_1 ==
    /\ P2_1 \in Seq(Ops) /\ Len(P2_1) = 6
    /\ P2_1[1] = Start(1, Off) /\ P2_1[2] = Take(4) /\ P2_1[3] = Check("taken")
    /\ P2_1[4] = Check("in isr") /\ P2_1[5] = Sleep(2) /\ P2_1[6] = Check("one")
BY DEF P2_1, Ops, Whats

\* P2.2 has two operations.
LEMMA Prog2_2 ==
    P2_2 \in Seq(Ops) /\ Len(P2_2) = 2 /\ P2_2[1] = Offload /\ P2_2[2] = Check("offload")
BY DEF P2_2, Ops, Whats

\* P2.4: the fault under the running timer.
LEMMA Prog2_4 ==
    /\ P2_4 \in Seq(Ops) /\ Len(P2_4) = 8
    /\ P2_4[1] = SetFixup /\ P2_4[2] = MapInvalid /\ P2_4[3] = Start(1, 1)
    /\ P2_4[4] = Load /\ P2_4[5] = Sleep(2) /\ P2_4[6] = Stop
    /\ P2_4[7] = Check("fixed") /\ P2_4[8] = Check("ticked")
BY DEF P2_4, Ops, Whats

\* P2.5: the timer behind the lock.
LEMMA Prog2_5 ==
    /\ P2_5 \in Seq(Ops) /\ Len(P2_5) = 8
    /\ P2_5[1] = Lock(TRUE) /\ P2_5[2] = Start(1, Off) /\ P2_5[3] = Busy(2)
    /\ P2_5[4] = Check("none") /\ P2_5[5] = Lock(FALSE) /\ P2_5[6] = Take(4)
    /\ P2_5[7] = Check("taken") /\ P2_5[8] = Check("one")
BY DEF P2_5, Ops, Whats

\* P3.1: two pairs of LR and SC.
LEMMA Prog3_1 ==
    /\ P3_1 \in Seq(Ops) /\ Len(P3_1) = 10
    /\ P3_1[1] = Lock(TRUE) /\ P3_1[2] = LR /\ P3_1[3] = SC /\ P3_1[4] = Lock(FALSE)
    /\ P3_1[5] = Check("sc")
    /\ P3_1[6] = Lock(TRUE) /\ P3_1[7] = LR /\ P3_1[8] = SC /\ P3_1[9] = Lock(FALSE)
    /\ P3_1[10] = Check("sc")
BY DEF P3_1, Ops, Whats

\* P2.3 has Want turns.
LEMMA Prog2_3 ==
    /\ P2_3 \in Seq(Ops) /\ Len(P2_3) = 2 * Want + 3
    /\ P2_3[1] = Start(1, 1)
    /\ \A j \in 1 .. Want : P2_3[2 * j] = Take(4) /\ P2_3[2 * j + 1] = Check("taken")
    /\ P2_3[2 * Want + 2] = Stop /\ P2_3[2 * Want + 3] = Check("want")
<1> DEFINE A == <<Start(1, 1)>>
           B == [i \in 1 .. 2 * Want |-> IF i % 2 = 1 THEN P2_3Turn[1] ELSE P2_3Turn[2]]
           C == <<Stop, Check("want")>>
<1>1. A \in Seq(Ops) /\ Len(A) = 1 /\ A[1] = Start(1, 1)
  BY DEF Ops
<1>2. C \in Seq(Ops) /\ Len(C) = 2 /\ C[1] = Stop /\ C[2] = Check("want")
  BY DEF Ops, Whats
<1>3. P2_3Turn[1] = Take(4) /\ P2_3Turn[2] = Check("taken")
        /\ Take(4) \in Ops /\ Check("taken") \in Ops
  BY DEF P2_3Turn, Ops, Whats
<1>4. 2 * Want \in Nat
  BY BoundAssumption
<1>5. B \in Seq(Ops) /\ Len(B) = 2 * Want
  BY <1>3, <1>4
<1>6. \A i \in 1 .. 2 * Want : B[i] = IF i % 2 = 1 THEN Take(4) ELSE Check("taken")
  BY <1>3
<1>7. P2_3 = (A \o B) \o C
  BY DEF P2_3
<1> HIDE DEF A, B, C
<1> DEFINE D == A \o B
<1>7a. D = A \o B
  OBVIOUS
<1> HIDE DEF D
<1>8. /\ D \in Seq(Ops) /\ Len(D) = 2 * Want + 1 /\ D[1] = A[1]
      /\ \A i \in 1 .. 2 * Want : D[i + 1] = B[i]
  <2>1. /\ D \in Seq(Ops) /\ Len(D) = Len(A) + Len(B)
        /\ \A i \in 1 .. Len(A) : D[i] = A[i]
        /\ \A i \in 1 .. Len(B) : D[Len(A) + i] = B[i]
    <3>1. A \in Seq(Ops) /\ B \in Seq(Ops)
      BY <1>1, <1>5
    <3> QED
      BY <1>7a, <3>1
  <2>2. \A i \in 1 .. 2 * Want : D[1 + i] = B[i]
    BY <1>1, <1>5, <2>1
  <2>3. \A i \in 1 .. 2 * Want : 1 + i = i + 1
    BY <1>4
  <2> QED
    BY <1>1, <1>4, <1>5, <2>1, <2>2, <2>3
<1>9. /\ P2_3 \in Seq(Ops) /\ Len(P2_3) = 2 * Want + 3
      /\ \A i \in 1 .. 2 * Want + 1 : P2_3[i] = D[i]
      /\ P2_3[2 * Want + 2] = C[1] /\ P2_3[2 * Want + 3] = C[2]
  <2>1. P2_3 = D \o C
    BY <1>7, <1>7a
  <2>2. /\ P2_3 \in Seq(Ops) /\ Len(P2_3) = Len(D) + Len(C)
        /\ \A i \in 1 .. Len(D) : P2_3[i] = D[i]
        /\ \A i \in 1 .. Len(C) : P2_3[Len(D) + i] = C[i]
    <3>1. D \in Seq(Ops) /\ C \in Seq(Ops)
      BY <1>2, <1>8
    <3> QED
      BY <2>1, <3>1
  <2>3. P2_3[(2 * Want + 1) + 1] = C[1] /\ P2_3[(2 * Want + 1) + 2] = C[2]
    BY <1>2, <1>8, <2>2
  <2>4. (2 * Want + 1) + 1 = 2 * Want + 2 /\ (2 * Want + 1) + 2 = 2 * Want + 3
    BY <1>4
  <2> QED
    BY <1>2, <1>4, <1>8, <2>2, <2>3, <2>4
<1>10. \A i \in 1 .. 2 * Want : P2_3[i + 1] = B[i]
  BY <1>4, <1>8, <1>9
<1>11. P2_3[1] = Start(1, 1)
  BY <1>1, <1>4, <1>8, <1>9
<1>12. ASSUME NEW j \in 1 .. Want
       PROVE  P2_3[2 * j] = Take(4) /\ P2_3[2 * j + 1] = Check("taken")
  <2>1. 2 * j - 1 \in 1 .. 2 * Want /\ 2 * j \in 1 .. 2 * Want /\ (2 * j - 1) + 1 = 2 * j
    BY BoundAssumption
  <2>2. (2 * j - 1) % 2 = 1 /\ (2 * j) % 2 = 0
    OBVIOUS
  <2>3. P2_3[(2 * j - 1) + 1] = B[2 * j - 1] /\ P2_3[2 * j + 1] = B[2 * j]
    BY <1>10, <2>1
  <2>4. B[2 * j - 1] = Take(4) /\ B[2 * j] = Check("taken")
    BY <1>6, <2>1, <2>2
  <2> QED
    BY <2>1, <2>3, <2>4
<1> QED
  BY <1>2, <1>9, <1>11, <1>12

\* From one operation to the next.
LEMMA Advance ==
    ASSUME Types, NEW prog, NEW n \in Nat, Len(prog) = n, NEW k \in Nat, k < n,
           Stands(prog, k)
    PROVE  /\ todo # <<>> /\ Op = prog[k + 1]
           /\ todo' = todo => Stands(prog, k)'
           /\ todo' = Tail(todo) /\ k + 1 < n => Stands(prog, k + 1)'
           /\ todo' = Tail(todo) /\ k + 1 = n => todo' = <<>>
<1>0. todo \in Seq(Ops)
  BY DEF Types
<1>1. Len(todo) \in Nat \ {0} /\ Len(todo) = Len(prog) - k
  BY <1>0 DEF Stands
<1>2. todo # <<>> /\ Op = todo[1]
  BY <1>0, <1>1 DEF Op
<1>3. todo[1] = prog[1 + k] /\ 1 + k = k + 1
  BY <1>1 DEF Stands
<1>4. /\ Len(Tail(todo)) = Len(todo) - 1 /\ Tail(todo) \in Seq(Ops)
      /\ \A i \in 1 .. Len(todo) - 1 : Tail(todo)[i] = todo[i + 1]
  BY <1>0, <1>1, <1>2
<1>5. ASSUME todo' = Tail(todo) PROVE Stands(prog, k + 1)'
  <2>1. Len(todo') = Len(prog) - (k + 1)
    BY <1>1, <1>4, <1>5
  <2>2. ASSUME NEW i \in 1 .. Len(todo') PROVE todo'[i] = prog[i + (k + 1)]
    <3>1. i \in 1 .. Len(todo) - 1 /\ i + 1 \in 1 .. Len(todo)
      BY <1>1, <1>4, <1>5
    <3>2. todo'[i] = todo[i + 1] /\ todo[i + 1] = prog[(i + 1) + k]
      BY <1>4, <1>5, <3>1 DEF Stands
    <3>3. (i + 1) + k = i + (k + 1)
      BY <3>1
    <3> QED
      BY <3>2, <3>3
  <2> QED
    BY <2>1, <2>2 DEF Stands
<1>6. ASSUME todo' = Tail(todo), k + 1 = n PROVE todo' = <<>>
  BY <1>1, <1>4, <1>6
<1>7. todo' = todo => Stands(prog, k)'
  BY DEF Stands
<1> QED
  BY <1>2, <1>3, <1>5, <1>6, <1>7

\* What runs besides the thread's operations.
Machine == Tick \/ MTimerTrap \/ EnterIsr \/ Isr \/ BusyEnds \/ UNCHANGED vars

\* While a test runs, a step is the machine's or the next operation.
LEMMA Turn ==
    ASSUME todo # <<>>, [Next]_vars
    PROVE  \/ Machine
           \/ Op.op = "start" /\ k_timer_start
           \/ Op.op = "stop" /\ k_timer_stop
           \/ Op.op = "take" /\ k_sem_take
           \/ Op.op \in {"sleep", "busy"} /\ Delay
           \/ Op.op = "lock" /\ IrqLock
           \/ Op.op = "fixup" /\ z_riscv_mmu_set_fault_fixup
           \/ Op.op = "map" /\ MapRaw
           \/ Op.op = "load" /\ (LoadOk \/ p2_fixup)
           \/ Op.op = "offload" /\ IrqOffload
           \/ Op.op \in {"lr", "sc"} /\ LrSc
           \/ Op.op = "check" /\ Zassert
<1>1. CASE Tick \/ MTimerTrap \/ EnterIsr \/ Isr \/ UNCHANGED vars
  BY <1>1 DEF Machine
<1>2. CASE Thread
  <2>1. CASE BusyEnds
    BY <2>1 DEF Machine
  <2>2. CASE k_timer_start \/ k_timer_stop \/ k_sem_take \/ Delay \/ IrqLock
    BY <2>2 DEF k_timer_start, k_timer_stop, k_sem_take, Delay, IrqLock, At
  <2>3. CASE z_riscv_mmu_set_fault_fixup \/ MapRaw \/ LoadOk \/ IrqOffload \/ LrSc \/ Zassert
    BY <2>3 DEF z_riscv_mmu_set_fault_fixup, MapRaw, LoadOk, IrqOffload, LrSc, Zassert, At
  <2>4. CASE p2_fixup
    BY <2>4, OpNames DEF p2_fixup
  <2> QED
    BY <1>2, <2>1, <2>2, <2>3, <2>4 DEF Thread
<1>3. ~(\E t \in DOMAIN Tests : Begin(t))
  BY DEF Begin
<1> QED
  BY <1>1, <1>2, <1>3 DEF Next

\* The same, by the operation's name.
LEMMA OnlyOp ==
    ASSUME todo # <<>>, [Next]_vars, ~Machine
    PROVE  /\ Op.op = "start" => k_timer_start
           /\ Op.op = "stop" => k_timer_stop
           /\ Op.op = "take" => k_sem_take
           /\ Op.op \in {"sleep", "busy"} => Delay
           /\ Op.op = "lock" => IrqLock
           /\ Op.op = "fixup" => z_riscv_mmu_set_fault_fixup
           /\ Op.op = "map" => MapRaw
           /\ Op.op = "load" => LoadOk \/ p2_fixup
           /\ Op.op = "offload" => IrqOffload
           /\ Op.op \in {"lr", "sc"} => LrSc
           /\ Op.op = "check" => Zassert
BY Turn

-----------------------------------------------------------------------------
(***************************************************************************)
(* The machine.                                                            *)
(***************************************************************************)
\* A tick of the clock, an expiration of the k_timer, the end of a wait, or
\* nothing the tests see.
Clock ==
    /\ wait = "busy" \/ (timer > -Late /\ until > -Late)
    /\ timer' = Age(timer) /\ until' = Age(until)
    /\ UNCHANGED <<wait, sem, res, timer_count, cb, taken>>
Expiry ==
    /\ isr = "stimer" /\ timer <= 0
    /\ timer' = (IF period = Off THEN Off ELSE timer + period)
    /\ timer_count' = Inc(timer_count) /\ cb' = "stimer"
    /\ k_sem_give
WaitEnds ==
    /\ \/ isr = "stimer" /\ wait = "sem" /\ until <= timer
       \/ isr = "stimer" /\ wait = "sleep" /\ until <= timer
       \/ wait = "busy"
    /\ wait' = "no"
    /\ UNCHANGED <<timer, sem, timer_count, cb, taken>>
Still == UNCHANGED <<timer, until, wait, sem, res, timer_count, cb, taken>>

Aside ==
    /\ UNCHANGED <<period, locked, page, sc, offload, todo, failed>>
    /\ dropped = TRUE => dropped' = TRUE
    /\ locked = TRUE => /\ isr = "no" => isr' = "no"
                        /\ resv = TRUE => resv' = TRUE \/ dropped' = TRUE

\* What a step of the machine may do.
LEMMA MachineEffect ==
    ASSUME Types, Machine
    PROVE  Aside /\ (Clock \/ Expiry \/ WaitEnds \/ Still)
<1> USE DEF Aside, kernel, timerstate, page, others, test
<1>1. CASE Tick
  BY <1>1 DEF Tick, Clock
<1>0. CASE MTimerTrap
  BY <1>0 DEF MTimerTrap, Still
<1>2. CASE EnterIsr
  BY <1>2 DEF EnterIsr, Still
<1>3. CASE timer_expiry
  BY <1>3 DEF timer_expiry, Expiry
<1>4. CASE WaitExpires
  BY <1>4 DEF WaitExpires, WaitEnds, Waking
<1>5. CASE LeaveIsr
  BY <1>5 DEF LeaveIsr, Still
<1>6. CASE BusyEnds
  BY <1>6 DEF BusyEnds, WaitEnds
<1>7. CASE UNCHANGED vars
  BY <1>7 DEF vars, Still
<1> QED
  BY <1>0, <1>1, <1>2, <1>3, <1>4, <1>5, <1>6, <1>7 DEF Machine, Isr

\* Aging: a timer that is off stays off, the others only go down; two that are
\* not at the bound of the lateness go down together.
LEMMA AgeFacts ==
    ASSUME Types, Clock
    PROVE  /\ timer = Off => timer' = Off
           /\ timer <= 1 => timer' <= timer
           /\ until <= 4 => until' <= until
           /\ timer <= 1 /\ until <= 4 /\ wait # "busy" =>
                timer' = timer - 1 /\ until' = until - 1
BY BoundAssumption DEF Types, Clock, Age, Off

\* The thread that waits for the timer is still waiting, or was given its unit
\* by an expiration of the timer.
LEMMA WaitingKept ==
    ASSUME Types, Waiting, Machine
    PROVE  \/ Waiting' /\ UNCHANGED <<sem, timer_count, taken>> /\ timer' <= timer
           \/ Ready' /\ Expiry /\ res' = 0 /\ taken' = taken + 1 /\ sem' = sem
<1>1. CASE Clock
  BY <1>1, AgeFacts DEF Waiting, Clock, Types
<1>2. CASE Expiry
  BY <1>2 DEF Expiry, k_sem_give, Waiting, Ready
<1>3. CASE WaitEnds
  BY <1>3 DEF WaitEnds, Waiting, Types
<1>4. CASE Still
  BY <1>4 DEF Still, Waiting, Types
<1> QED
  BY <1>1, <1>2, <1>3, <1>4, MachineEffect

\* A thread that does not wait goes on not to wait; what it took stays.
LEMMA ReadyKept ==
    ASSUME Types, Ready, Machine
    PROVE  /\ Ready' /\ UNCHANGED <<res, taken>>
           /\ \/ Expiry /\ sem' = Inc(sem)
              \/ UNCHANGED <<sem, timer_count, cb>> /\ (timer' = timer \/ Clock)
<1>1. CASE Clock
  BY <1>1 DEF Ready, Clock
<1>2. CASE Expiry
  BY <1>2 DEF Expiry, k_sem_give, Ready
<1>3. CASE WaitEnds
  BY <1>3 DEF WaitEnds, Ready
<1>4. CASE Still
  BY <1>4 DEF Still, Ready
<1> QED
  BY <1>1, <1>2, <1>3, <1>4, MachineEffect

\* The one-shot timer expires once, for a thread that waits or does not.
LEMMA OneShotKept ==
    ASSUME Types, period = Off, Machine
    PROVE  /\ Ready /\ Pending => Ready' /\ (Pending' \/ Fired(1)')
           /\ Ready /\ Fired(1) => Ready' /\ Fired(1)'
           /\ Ready /\ Fired(0) => Ready' /\ Fired(0)' /\ res' = res
           /\ Waiting /\ Pending =>
                (Waiting /\ Pending)' \/ (Ready /\ Fired(0) /\ res = 0)'
<1>0. Inc(0) = 1 /\ MaxCount \in Nat /\ ~(Off <= 0) /\ ~(Off <= 1)
  BY BoundAssumption DEF Inc, MaxCount, Off
<1>1. ASSUME Expiry, timer_count = 0 PROVE timer' = Off /\ timer_count' = 1 /\ cb' = "stimer"
  BY <1>0, <1>1 DEF Expiry
<1>2. ASSUME Ready, Pending PROVE Ready' /\ (Pending' \/ Fired(1)')
  <2>1. CASE Expiry /\ sem' = Inc(sem)
    BY <1>0, <1>1, <1>2, <2>1, ReadyKept DEF Pending, Fired
  <2>2. CASE UNCHANGED <<sem, timer_count, cb>> /\ (timer' = timer \/ Clock)
    <3>1. timer' <= 1
      BY <1>2, <2>2, AgeFacts DEF Pending, Types, Clock, Age
    <3> QED
      BY <1>2, <2>2, <3>1, ReadyKept DEF Pending
  <2> QED
    BY <1>2, <2>1, <2>2, ReadyKept
<1>3. ASSUME NEW n, Ready, Fired(n) PROVE Ready' /\ Fired(n)' /\ res' = res
  <2>1. ~Expiry
    BY <1>0, <1>3 DEF Expiry, Fired
  <2>2. timer' = Off
    BY <1>3, <2>1, ReadyKept, AgeFacts DEF Fired
  <2> QED
    BY <1>3, <2>1, <2>2, ReadyKept DEF Fired
<1>4. ASSUME Waiting, Pending
      PROVE  (Waiting /\ Pending)' \/ (Ready /\ Fired(0) /\ res = 0)'
  <2>1. CASE Waiting' /\ UNCHANGED <<sem, timer_count, taken>> /\ timer' <= timer
    <3>1. timer' \in Int
      BY <2>1, MachineEffect DEF Types, Clock, Age, Expiry, WaitEnds, Still
    <3> QED
      BY <1>4, <2>1, <3>1 DEF Pending, Types
  <2>2. CASE Ready' /\ Expiry /\ res' = 0 /\ taken' = taken + 1 /\ sem' = sem
    BY <1>1, <1>4, <2>2 DEF Pending, Fired
  <2> QED
    BY <1>4, <2>1, <2>2, WaitingKept
<1> QED
  BY <1>2, <1>3, <1>4

-----------------------------------------------------------------------------
(***************************************************************************)
(* The thread.                                                             *)
(***************************************************************************)
\* Each operation is one of Ops, and ends with the next.
LEMMA OpCases ==
    ASSUME todo \in Seq(Ops), todo # <<>>
    PROVE  /\ Op \in Ops /\ Tail(todo) \in Seq(Ops)
           /\ Op.op = "start" => Op.d = 1 /\ Op.p \in Int
           /\ Op.op = "take" => Op.d = 4
           /\ Op.op \in {"sleep", "busy"} => Op.d = 2
<1>1. Op \in Ops /\ Tail(todo) \in Seq(Ops)
  BY DEF Op
<1>2. Off \in Int
  BY DEF Off
<1> QED
  BY <1>1, <1>2 DEF Ops, Start, Stop, Take, Sleep, Busy, Lock, SetFixup, MapInvalid, Load,
                   Offload, LR, SC, Check

\* What the assertions say.
LEMMA HoldsIs ==
    /\ Holds("taken") <=> res = 0
    /\ Holds("in isr") <=> cb = "stimer"
    /\ Holds("one") <=> timer_count = 1
    /\ Holds("none") <=> timer_count = 0
    /\ Holds("want") <=> timer_count >= Want
    /\ Holds("fixed") <=> pteV /\ fix_count >= 1
    /\ Holds("ticked") <=> timer_count > 0
    /\ Holds("offload") <=> offload
    /\ Holds("sc") <=> sc = 0
BY DEF Holds

\* An assertion that holds.
LEMMA CheckStep ==
    ASSUME NEW w \in Whats, Op = Check(w), Holds(w), Zassert
    PROVE  /\ todo' = Tail(todo) /\ failed' = failed /\ Running
           /\ UNCHANGED <<kernel, locked, timerstate, page, others, taken>>
<1>1. Op.what = w
  BY OpNames
<1>2. failed' = failed
  BY <1>1 DEF Zassert
<1> QED
  BY <1>1, <1>2 DEF Zassert

\* Every test is a program of Ops.
LEMMA TestPrograms ==
    ASSUME NEW t \in DOMAIN Tests
    PROVE  /\ Tests[t] \in Seq(Ops)
           /\ Tests[t] \in {P2_1, P2_2, P2_3, P2_4, P2_5, P3_1}
<1>1. Tests[t] \in {P2_1, P2_2, P2_3, P2_4, P2_5, P3_1}
  BY DEF Tests
<1> QED
  BY <1>1, Prog2_1, Prog2_2, Prog2_3, Prog2_4, Prog2_5, Prog3_1

\* The types hold after every step.
LEMMA TypesStep == ASSUME Types, [Next]_vars PROVE Types'
<1> USE DEF kernel, timerstate, page, others, test
<1>0. Off \in Int
  BY DEF Off
<1>1. CASE Machine
  <2>1. todo' = todo /\ period' = period
    BY <1>1, MachineEffect DEF Aside
  <2>2. timer' \in Int /\ until' \in Int /\ wait' \in {"no", "sem", "sleep", "busy"}
    <3>1. CASE Tick
      BY <3>1, BoundAssumption DEF Tick, Age, Types
    <3>2. CASE MTimerTrap \/ EnterIsr \/ LeaveIsr \/ UNCHANGED vars
      BY <3>2 DEF MTimerTrap, EnterIsr, LeaveIsr, vars, Types
    <3>3. CASE timer_expiry
      BY <1>0, <3>3 DEF timer_expiry, k_sem_give, Types
    <3>4. CASE WaitExpires \/ BusyEnds
      BY <1>0, <3>4 DEF WaitExpires, BusyEnds, Types
    <3> QED
      BY <1>1, <3>1, <3>2, <3>3, <3>4 DEF Machine, Isr
  <2>3. isr' \in {"no", "stimer"}
    BY <1>1 DEF Machine, Isr, Tick, MTimerTrap, EnterIsr, timer_expiry, WaitExpires, LeaveIsr, BusyEnds,
                vars, Types
  <2> QED
    BY <2>1, <2>2, <2>3 DEF Types
<1>2. CASE todo = <<>> /\ \E t \in DOMAIN Tests : Begin(t)
  BY <1>0, <1>2, TestPrograms DEF Begin, p2_before, Types
<1>3. CASE todo # <<>> /\ ~Machine
  <2>0. todo \in Seq(Ops)
    BY DEF Types
  <2>1. CASE Op.op = "start" /\ k_timer_start
    BY <1>3, <2>0, <2>1, OpCases DEF k_timer_start, At, Types
  <2>2. CASE Op.op = "stop" /\ k_timer_stop
    BY <1>0, <1>3, <2>0, <2>2, OpCases DEF k_timer_stop, At, Types
  <2>3. CASE Op.op = "take" /\ k_sem_take
    BY <1>3, <2>0, <2>3, OpCases DEF k_sem_take, At, Types
  <2>4. CASE Op.op \in {"sleep", "busy"} /\ Delay
    BY <1>3, <2>0, <2>4, OpCases DEF Delay, At, Types
  <2>5. CASE IrqLock \/ z_riscv_mmu_set_fault_fixup \/ MapRaw \/ LoadOk
    BY <1>3, <2>0, <2>5, OpCases
       DEF IrqLock, z_riscv_mmu_set_fault_fixup, MapRaw, LoadOk, At, Types
  <2>6. CASE p2_fixup
    BY <2>6 DEF p2_fixup, Types
  <2>7. CASE IrqOffload \/ LrSc \/ Zassert
    <3>1. <<>> \in Seq(Ops)
      OBVIOUS
    <3> QED
      BY <1>3, <2>0, <2>7, <3>1, OpCases DEF IrqOffload, LrSc, Zassert, At, Types
  <2> QED
    BY <1>3, <2>1, <2>2, <2>3, <2>4, <2>5, <2>6, <2>7, Turn
<1>4. \/ Machine
      \/ todo # <<>>
      \/ \E t \in DOMAIN Tests : Begin(t)
  BY DEF Next, Machine, Thread, k_timer_start, k_timer_stop, k_sem_take, Delay, IrqLock,
         z_riscv_mmu_set_fault_fixup, MapRaw, LoadOk, p2_fixup, IrqOffload, LrSc, Zassert, At
<1> QED
  BY <1>1, <1>2, <1>3, <1>4

\* The last operation of a test leads between the tests.
LEMMA TestEnds ==
    ASSUME todo' = <<>>, Ready', locked' = FALSE
    PROVE  Where'
BY DEF Where, Between

\* P2.1: one expiration, taken by the thread, and no second one.
LEMMA Step2_1 ==
    ASSUME Types, NEW k \in 0 .. 5, Stands(P2_1, k), In2_1(k), [Next]_vars
    PROVE  failed' = failed /\ Where'
<1> DEFINE Goal == failed' = failed /\ Where'
<1>1. /\ todo # <<>> /\ Op = P2_1[k + 1]
      /\ todo' = todo => Stands(P2_1, k)'
      /\ todo' = Tail(todo) /\ k + 1 < 6 => Stands(P2_1, k + 1)'
      /\ todo' = Tail(todo) /\ k + 1 = 6 => todo' = <<>>
  <2>1. 6 \in Nat /\ k \in Nat /\ k < 6
    OBVIOUS
  <2>2. Len(P2_1) = 6
    BY Prog2_1, Zenon
  <2> QED
    BY <2>1, <2>2, Advance, Zenon
<1>2. /\ k = 0 => Op = Start(1, Off)
      /\ k = 1 => Op = Take(4)
      /\ k = 2 => Op = Check("taken")
      /\ k = 3 => Op = Check("in isr")
      /\ k = 4 => Op = Sleep(2)
      /\ k = 5 => Op = Check("one")
  <2>1. Op = P2_1[k + 1] /\ 0 + 1 = 1 /\ 1 + 1 = 2 /\ 2 + 1 = 3 /\ 3 + 1 = 4 /\ 4 + 1 = 5 /\ 5 + 1 = 6
    BY <1>1
  <2> QED
    BY <2>1, Prog2_1, Zenon
<1>3. ASSUME NEW j \in 0 .. 5, Stands(P2_1, j)', In2_1(j)', failed' = failed PROVE Goal
  BY <1>3 DEF Where
<1>4. ASSUME Machine PROVE Goal
  <2>1. Aside
    BY <1>4, MachineEffect
  <2>2. In2_1(k)'
    <3>1. locked' = FALSE /\ period' = period
      BY <2>1 DEF Aside, In2_1
    <3>2. CASE k = 0
      BY <1>4, <3>1, <3>2, ReadyKept, AgeFacts DEF In2_1, Expiry, Off
    <3>3. CASE k \in {1, 2}
      BY <1>4, <3>1, <3>3, OneShotKept DEF In2_1
    <3>4. CASE k \in {3, 4}
      BY <1>4, <3>1, <3>4, ReadyKept, AgeFacts DEF In2_1, Fired, Expiry, Off
    <3>5. CASE k = 5
      BY <1>4, <3>1, <3>5, MachineEffect, AgeFacts
         DEF In2_1, Fired, Expiry, Off, Clock, WaitEnds, Still
    <3> QED
      BY <3>2, <3>3, <3>4, <3>5
  <2>3. todo' = todo /\ failed' = failed
    BY <2>1 DEF Aside
  <2> HIDE DEF Goal
  <2> QED
    BY <1>1, <1>3, <2>2, <2>3
<1>5. ASSUME ~Machine, todo' = Tail(todo), failed' = failed, k < 5, In2_1(k + 1)' PROVE Goal
  <2>1. k + 1 \in 0 .. 5 /\ k + 1 < 6
    BY <1>5
  <2> HIDE DEF Goal
  <2> QED
    BY <1>1, <1>3, <1>5, <2>1
<1> USE DEF kernel, timerstate, page, others, test
<1>6. ASSUME ~Machine, k = 0 PROVE In2_1(1)' /\ todo' = Tail(todo) /\ failed' = failed
  <2>1. k_timer_start /\ Op = Start(1, Off)
    BY <1>1, <1>2, <1>6, OpNames, OnlyOp
  <2> QED
    BY <1>6, <2>1, OpArgs DEF k_timer_start, At, Running, In2_1, Ready, Pending
<1>7. ASSUME ~Machine, k = 1 PROVE In2_1(2)' /\ todo' = Tail(todo) /\ failed' = failed
  <2>1. k_sem_take /\ Op = Take(4)
    BY <1>1, <1>2, <1>7, OpNames, OnlyOp
  <2> QED
    BY <1>7, <2>1, OpArgs
       DEF k_sem_take, At, Running, In2_1, Ready, Pending, Fired, Waiting, Types
<1>8. ASSUME ~Machine, k = 2 PROVE In2_1(3)' /\ todo' = Tail(todo) /\ failed' = failed
  <2>1. Zassert /\ Op = Check("taken") /\ "taken" \in Whats
    BY <1>1, <1>2, <1>8, OpNames, OnlyOp DEF Whats
  <2>2. Running
    BY <2>1 DEF Zassert, At
  <2>3. Fired(0) /\ Holds("taken")
    BY <1>8, <2>2, HoldsIs DEF Running, In2_1, Waiting
  <2>4. /\ todo' = Tail(todo) /\ failed' = failed
        /\ UNCHANGED <<kernel, locked, timerstate, page, others, taken>>
    BY <2>1, <2>3, CheckStep
  <2> QED
    BY <1>8, <2>2, <2>3, <2>4 DEF Running, In2_1, Ready, Fired
<1>9. ASSUME ~Machine, k = 3 PROVE In2_1(4)' /\ todo' = Tail(todo) /\ failed' = failed
  <2>1. Zassert /\ Op = Check("in isr") /\ "in isr" \in Whats
    BY <1>1, <1>2, <1>9, OpNames, OnlyOp DEF Whats
  <2>2. Holds("in isr")
    BY <1>9, HoldsIs DEF In2_1, Fired
  <2>3. /\ todo' = Tail(todo) /\ failed' = failed
        /\ UNCHANGED <<kernel, locked, timerstate, page, others, taken>>
    BY <2>1, <2>2, CheckStep
  <2> QED
    BY <1>9, <2>3 DEF In2_1, Ready, Fired
<1>10. ASSUME ~Machine, k = 4 PROVE In2_1(5)' /\ todo' = Tail(todo) /\ failed' = failed
  <2>1. Delay /\ Op = Sleep(2) /\ Op.op = "sleep"
    BY <1>1, <1>2, <1>10, OpNames, OnlyOp
  <2> QED
    BY <1>10, <2>1 DEF Delay, At, In2_1, Fired
<1>11. ASSUME ~Machine, k = 5 PROVE Goal
  <2>1. Zassert /\ Op = Check("one") /\ "one" \in Whats
    BY <1>1, <1>2, <1>11, OpNames, OnlyOp DEF Whats
  <2>2. Holds("one")
    BY <1>11, HoldsIs DEF In2_1, Fired
  <2>3. /\ todo' = Tail(todo) /\ failed' = failed /\ Running
        /\ UNCHANGED <<kernel, locked, timerstate, page, others, taken>>
    BY <2>1, <2>2, CheckStep
  <2>4. Ready' /\ locked' = FALSE /\ todo' = <<>>
    BY <1>1, <1>11, <2>3 DEF In2_1, Ready, Running
  <2> QED
    BY <2>3, <2>4, TestEnds
<1> HIDE DEF Goal
<1>12. ASSUME ~Machine PROVE Goal
  <2>1. 0 + 1 = 1 /\ 1 + 1 = 2 /\ 2 + 1 = 3 /\ 3 + 1 = 4 /\ 4 + 1 = 5
    OBVIOUS
  <2>2. ASSUME k < 5 PROVE In2_1(k + 1)' /\ todo' = Tail(todo) /\ failed' = failed
    <3>1. k = 0 \/ k = 1 \/ k = 2 \/ k = 3 \/ k = 4
      BY <2>2
    <3> QED
      BY <1>6, <1>7, <1>8, <1>9, <1>10, <1>12, <2>1, <3>1, Zenon
  <2>3. k < 5 \/ k = 5
    OBVIOUS
  <2> QED
    BY <1>5, <1>11, <1>12, <2>2, <2>3
<1>13. Goal
  BY <1>4, <1>12
<1> QED
  BY <1>13 DEF Goal

\* An assertion that is made only where it holds.
LEMMA OnlyCheck ==
    ASSUME todo # <<>>, [Next]_vars, ~Machine, NEW w \in Whats, Op = Check(w),
           Running => Holds(w)
    PROVE  /\ todo' = Tail(todo) /\ failed' = failed /\ Running
           /\ UNCHANGED <<kernel, locked, timerstate, page, others, taken>>
<1>1. Zassert
  BY OpNames, OnlyOp
<1>2. Running
  BY <1>1 DEF Zassert, At
<1> QED
  BY <1>1, <1>2, CheckStep

\* P2.2: irq_offload has run its handler when it returns.
LEMMA Step2_2 ==
    ASSUME Types, NEW k \in 0 .. 1, Stands(P2_2, k), In2_2(k), [Next]_vars
    PROVE  failed' = failed /\ Where'
<1> DEFINE Goal == failed' = failed /\ Where'
<1>1. /\ todo # <<>> /\ Op = P2_2[k + 1]
      /\ todo' = todo => Stands(P2_2, k)'
      /\ todo' = Tail(todo) /\ k + 1 < 2 => Stands(P2_2, k + 1)'
      /\ todo' = Tail(todo) /\ k + 1 = 2 => todo' = <<>>
  <2>1. 2 \in Nat /\ k \in Nat /\ k < 2
    OBVIOUS
  <2>2. Len(P2_2) = 2
    BY Prog2_2, Zenon
  <2> QED
    BY <2>1, <2>2, Advance, Zenon
<1>2. /\ k = 0 => Op = Offload
      /\ k = 1 => Op = Check("offload")
  <2>1. Op = P2_2[k + 1] /\ 0 + 1 = 1 /\ 1 + 1 = 2
    BY <1>1
  <2> QED
    BY <2>1, Prog2_2, Zenon
<1>3. ASSUME NEW j \in 0 .. 1, Stands(P2_2, j)', In2_2(j)', failed' = failed PROVE Goal
  BY <1>3 DEF Where
<1>4. ASSUME Machine PROVE Goal
  <2>1. Aside /\ Ready'
    BY <1>4, MachineEffect, ReadyKept DEF In2_2
  <2>2. In2_2(k)' /\ todo' = todo /\ failed' = failed
    BY <2>1 DEF Aside, In2_2
  <2> HIDE DEF Goal
  <2> QED
    BY <1>1, <1>3, <2>2
<1> USE DEF kernel, timerstate, page, others, test
<1>5. ASSUME ~Machine, k = 0 PROVE Goal
  <2>1. IrqOffload /\ Op = Offload
    BY <1>1, <1>2, <1>5, OpNames, OnlyOp
  <2>2. In2_2(1)' /\ todo' = Tail(todo) /\ failed' = failed
    BY <1>5, <2>1 DEF IrqOffload, At, In2_2, Ready
  <2>3. k + 1 = 1 /\ 1 \in 0 .. 1 /\ k + 1 < 2
    BY <1>5
  <2> HIDE DEF Goal
  <2> QED
    BY <1>1, <1>3, <2>2, <2>3
<1>6. ASSUME ~Machine, k = 1 PROVE Goal
  <2>1. Op = Check("offload") /\ "offload" \in Whats /\ Holds("offload")
    BY <1>2, <1>6, HoldsIs DEF Whats, In2_2
  <2>2. /\ todo' = Tail(todo) /\ failed' = failed
        /\ UNCHANGED <<kernel, locked, timerstate, page, others, taken>>
    BY <1>1, <1>6, <2>1, OnlyCheck
  <2>3. Ready' /\ locked' = FALSE /\ todo' = <<>>
    BY <1>1, <1>6, <2>2 DEF In2_2, Ready
  <2> QED
    BY <2>2, <2>3, TestEnds
<1>7. Goal
  <2>1. k = 0 \/ k = 1
    OBVIOUS
  <2> HIDE DEF Goal
  <2> QED
    BY <1>4, <1>5, <1>6, <2>1
<1> QED
  BY <1>7 DEF Goal

\* P3.1: with interrupts locked, only a trap of the firmware drops the
\* reservation between the pair.
LEMMA Step3_1 ==
    ASSUME Types, NEW k \in 0 .. 9, Stands(P3_1, k), In3_1(k), [Next]_vars
    PROVE  (failed' = failed \/ (failed' = "sc" /\ dropped' = TRUE)) /\ Where'
<1> DEFINE Goal == (failed' = failed \/ (failed' = "sc" /\ dropped' = TRUE)) /\ Where'
<1>1. /\ todo # <<>> /\ Op = P3_1[k + 1]
      /\ todo' = todo => Stands(P3_1, k)'
      /\ todo' = Tail(todo) /\ k + 1 < 10 => Stands(P3_1, k + 1)'
      /\ todo' = Tail(todo) /\ k + 1 = 10 => todo' = <<>>
  <2>1. 10 \in Nat /\ k \in Nat /\ k < 10
    OBVIOUS
  <2>2. Len(P3_1) = 10
    BY Prog3_1, Zenon
  <2> QED
    BY <2>1, <2>2, Advance, Zenon
<1>2. /\ k \in {0, 5} => Op = Lock(TRUE)
      /\ k \in {1, 6} => Op = LR
      /\ k \in {2, 7} => Op = SC
      /\ k \in {3, 8} => Op = Lock(FALSE)
      /\ k \in {4, 9} => Op = Check("sc")
  <2>1. /\ Op = P3_1[k + 1]
        /\ 0 + 1 = 1 /\ 1 + 1 = 2 /\ 2 + 1 = 3 /\ 3 + 1 = 4 /\ 4 + 1 = 5
        /\ 5 + 1 = 6 /\ 6 + 1 = 7 /\ 7 + 1 = 8 /\ 8 + 1 = 9 /\ 9 + 1 = 10
    BY <1>1
  <2>2. k \in {0, 5} => Op = Lock(TRUE)
    BY <2>1, Prog3_1, Zenon
  <2>3. k \in {1, 6} => Op = LR
    BY <2>1, Prog3_1, Zenon
  <2>4. k \in {2, 7} => Op = SC
    BY <2>1, Prog3_1, Zenon
  <2>5. k \in {3, 8} => Op = Lock(FALSE)
    BY <2>1, Prog3_1, Zenon
  <2>6. k \in {4, 9} => Op = Check("sc")
    BY <2>1, Prog3_1, Zenon
  <2> QED
    BY <2>2, <2>3, <2>4, <2>5, <2>6
<1>3. ASSUME NEW j \in 0 .. 9, Stands(P3_1, j)', In3_1(j)', failed' = failed PROVE Goal
  BY <1>3 DEF Where
<1>4. ASSUME Machine PROVE Goal
  <2>1. Aside /\ Ready'
    BY <1>4, MachineEffect, ReadyKept DEF In3_1
  <2>2. In3_1(k)' /\ todo' = todo /\ failed' = failed
    BY <2>1 DEF Aside, In3_1
  <2> HIDE DEF Goal
  <2> QED
    BY <1>1, <1>3, <2>2
<1> USE DEF kernel, timerstate, page, others, test
<1>5. ASSUME ~Machine, k \in {0, 5}
      PROVE  In3_1(k + 1)' /\ todo' = Tail(todo) /\ failed' = failed
  <2>1. IrqLock /\ Op = Lock(TRUE)
    BY <1>1, <1>2, <1>5, OpNames, OnlyOp
  <2>2. locked' = TRUE
    BY <2>1, OpArgs, Zenon DEF IrqLock
  <2>3. UNCHANGED <<wait, isr, resv, sc, dropped, failed>> /\ todo' = Tail(todo) /\ Running
    BY <2>1 DEF IrqLock, At
  <2> QED
    BY <1>5, <2>2, <2>3 DEF Running, In3_1, Ready
<1>6. ASSUME ~Machine, k \in {1, 6}
      PROVE  In3_1(k + 1)' /\ todo' = Tail(todo) /\ failed' = failed
  <2>1. LrSc /\ Op.op = "lr"
    BY <1>1, <1>2, <1>6, OpNames, OnlyOp
  <2> QED
    BY <1>6, <2>1 DEF LrSc, At, In3_1, Ready
<1>7. ASSUME ~Machine, k \in {2, 7}
      PROVE  In3_1(k + 1)' /\ todo' = Tail(todo) /\ failed' = failed
  <2>1. LrSc /\ Op.op = "sc" /\ (resv = TRUE \/ dropped = TRUE)
    BY <1>1, <1>2, <1>7, OpNames, OnlyOp DEF In3_1
  <2> QED
    BY <1>7, <2>1 DEF LrSc, At, In3_1, Ready
<1>8. ASSUME ~Machine, k \in {3, 8}
      PROVE  In3_1(k + 1)' /\ todo' = Tail(todo) /\ failed' = failed
  <2>1. IrqLock /\ Op = Lock(FALSE)
    BY <1>1, <1>2, <1>8, OpNames, OnlyOp
  <2>2. locked' = FALSE
    BY <2>1, OpArgs, Zenon DEF IrqLock
  <2>3. UNCHANGED <<wait, isr, resv, sc, dropped, failed>> /\ todo' = Tail(todo)
    BY <2>1 DEF IrqLock, At
  <2> QED
    BY <1>8, <2>2, <2>3 DEF In3_1, Ready
<1>9. ASSUME ~Machine, k \in {4, 9}, sc = 0
      PROVE  /\ todo' = Tail(todo) /\ failed' = failed /\ Ready' /\ locked' = FALSE
             /\ k = 4 => In3_1(k + 1)'
  <2>1. Op = Check("sc") /\ "sc" \in Whats /\ Holds("sc")
    BY <1>2, <1>9, HoldsIs DEF Whats
  <2>2. /\ todo' = Tail(todo) /\ failed' = failed
        /\ UNCHANGED <<kernel, locked, timerstate, page, others, taken>>
    BY <1>1, <1>9, <2>1, OnlyCheck
  <2> QED
    BY <1>9, <2>2 DEF In3_1, Ready
<1>13. ASSUME ~Machine, k \in {4, 9}, sc # 0 PROVE Goal
  <2>1. Op = Check("sc") /\ "sc" \in Whats /\ ~Holds("sc") /\ dropped = TRUE
    BY <1>2, <1>13, HoldsIs DEF Whats, In3_1
  <2>2. Zassert /\ Op.what = "sc"
    BY <1>1, <1>13, <2>1, OpNames, OnlyOp
  <2>3. todo' = <<>> /\ failed' = "sc" /\ UNCHANGED <<wait, locked, dropped>>
    BY <2>1, <2>2 DEF Zassert
  <2>4. Ready' /\ locked' = FALSE
    BY <1>13, <2>3 DEF In3_1, Ready
  <2> QED
    BY <2>1, <2>3, <2>4, TestEnds
<1> HIDE DEF Goal
<1>10. ASSUME ~Machine, k # 9, k = 4 => sc = 0 PROVE Goal
  <2>1. In3_1(k + 1)' /\ todo' = Tail(todo) /\ failed' = failed
    <3>1. k \in {0, 5} \/ k \in {1, 6} \/ k \in {2, 7} \/ k \in {3, 8} 
          \/ (k = 4 /\ k \in {4, 9} /\ sc = 0)
      BY <1>10
    <3> QED
      BY <1>5, <1>6, <1>7, <1>8, <1>9, <1>10, <3>1, Zenon
  <2>2. k + 1 \in 0 .. 9 /\ k + 1 < 10
    BY <1>10
  <2> QED
    BY <1>1, <1>3, <2>1, <2>2, Zenon
<1>11. ASSUME ~Machine, k = 9, sc = 0 PROVE Goal
  <2>1. todo' = Tail(todo) /\ failed' = failed /\ Ready' /\ locked' = FALSE
    BY <1>9, <1>11
  <2>2. todo' = <<>>
    BY <1>1, <1>11, <2>1
  <2> QED
    BY <2>1, <2>2, TestEnds DEF Goal
<1>12. Goal
  BY <1>4, <1>10, <1>11, <1>13
<1> QED
  BY <1>12 DEF Goal

\* P2.5: no expiration behind the lock, one after it, taken by the thread.
LEMMA Step2_5 ==
    ASSUME Types, NEW k \in 0 .. 7, Stands(P2_5, k), In2_5(k), [Next]_vars
    PROVE  failed' = failed /\ Where'
<1> DEFINE Goal == failed' = failed /\ Where'
<1>1. /\ todo # <<>> /\ Op = P2_5[k + 1]
      /\ todo' = todo => Stands(P2_5, k)'
      /\ todo' = Tail(todo) /\ k + 1 < 8 => Stands(P2_5, k + 1)'
      /\ todo' = Tail(todo) /\ k + 1 = 8 => todo' = <<>>
  <2>1. 8 \in Nat /\ k \in Nat /\ k < 8
    OBVIOUS
  <2>2. Len(P2_5) = 8
    BY Prog2_5, Zenon
  <2> QED
    BY <2>1, <2>2, Advance, Zenon
<1>2. /\ k = 0 => Op = Lock(TRUE)
      /\ k = 1 => Op = Start(1, Off)
      /\ k = 2 => Op = Busy(2)
      /\ k = 3 => Op = Check("none")
      /\ k = 4 => Op = Lock(FALSE)
      /\ k = 5 => Op = Take(4)
      /\ k = 6 => Op = Check("taken")
      /\ k = 7 => Op = Check("one")
  <2>1. /\ Op = P2_5[k + 1]
        /\ 0 + 1 = 1 /\ 1 + 1 = 2 /\ 2 + 1 = 3 /\ 3 + 1 = 4 /\ 4 + 1 = 5
        /\ 5 + 1 = 6 /\ 6 + 1 = 7 /\ 7 + 1 = 8
    BY <1>1
  <2> QED
    BY <2>1, Prog2_5, Zenon
<1>3. ASSUME NEW j \in 0 .. 7, Stands(P2_5, j)', In2_5(j)', failed' = failed PROVE Goal
  BY <1>3 DEF Where
<1>4. ASSUME Machine PROVE Goal
  <2>1. Aside
    BY <1>4, MachineEffect
  <2>2. ASSUME k \in 1 .. 4 PROVE ~Expiry /\ locked' = TRUE /\ isr' = "no"
    BY <2>1, <2>2 DEF Aside, In2_5, Expiry
  <2>3. In2_5(k)'
    <3>1. period' = period /\ (k \notin 1 .. 4 => locked' = FALSE)
      BY <2>1 DEF Aside, In2_5
    <3>2. CASE k = 0
      BY <1>4, <3>1, <3>2, ReadyKept, AgeFacts DEF In2_5, Expiry, Off
    <3>3. CASE k = 1
      BY <1>4, <2>2, <3>1, <3>3, ReadyKept, AgeFacts DEF In2_5
    <3>4. CASE k \in {2, 3, 4}
      <4>1. Pending'
        <5>1. k \in 1 .. 4 /\ Pending
          BY <3>4 DEF In2_5
        <5>2. Clock \/ WaitEnds \/ Still
          BY <1>4, <2>2, <5>1, MachineEffect
        <5>3. UNCHANGED <<sem, timer_count>>
          BY <5>2 DEF Clock, WaitEnds, Still
        <5>4. timer' <= 1
          BY <5>1, <5>2, AgeFacts, TypesStep DEF Pending, Types, Clock, WaitEnds, Still
        <5> QED
          BY <5>1, <5>3, <5>4 DEF Pending
      <4>2. k # 3 => Ready'
        BY <1>4, <3>4, ReadyKept DEF In2_5
      <4>3. k = 3 => wait' \in {"no", "busy"}
        BY <1>4, <2>2, <3>4, MachineEffect DEF In2_5, Clock, WaitEnds, Still
      <4>4. locked' = TRUE /\ isr' = "no" /\ period' = Off
        <5>1. k \in 1 .. 4 /\ k \in 2 .. 6
          BY <3>4
        <5>2. period = Off
          BY <5>1 DEF In2_5
        <5> QED
          BY <2>2, <3>1, <5>1, <5>2
      <4> QED
        BY <3>4, <4>1, <4>2, <4>3, <4>4 DEF In2_5
    <3>5. CASE k \in {5, 6}
      BY <1>4, <3>1, <3>5, OneShotKept DEF In2_5
    <3>6. CASE k = 7
      BY <1>4, <3>1, <3>6, ReadyKept, AgeFacts DEF In2_5, Fired, Expiry, Off
    <3> QED
      BY <3>2, <3>3, <3>4, <3>5, <3>6
  <2>4. todo' = todo /\ failed' = failed
    BY <2>1 DEF Aside
  <2> HIDE DEF Goal
  <2> QED
    BY <1>1, <1>3, <2>3, <2>4
<1> USE DEF kernel, timerstate, page, others, test
<1>5. ASSUME ~Machine, k = 0 PROVE In2_5(1)' /\ todo' = Tail(todo) /\ failed' = failed
  <2>1. IrqLock /\ Op = Lock(TRUE)
    BY <1>1, <1>2, <1>5, OpNames, OnlyOp
  <2>2. locked' = TRUE
    BY <2>1, OpArgs, Zenon DEF IrqLock
  <2>3. /\ UNCHANGED <<wait, isr, timer, timer_count, sem, failed>>
        /\ todo' = Tail(todo) /\ Running
    BY <2>1 DEF IrqLock, At
  <2> QED
    BY <1>5, <2>2, <2>3 DEF Running, In2_5, Ready
<1>6. ASSUME ~Machine, k = 1 PROVE In2_5(2)' /\ todo' = Tail(todo) /\ failed' = failed
  <2>1. k_timer_start /\ Op = Start(1, Off)
    BY <1>1, <1>2, <1>6, OpNames, OnlyOp
  <2> QED
    BY <1>6, <2>1, OpArgs DEF k_timer_start, At, Running, In2_5, Ready, Pending
<1>7. ASSUME ~Machine, k = 2 PROVE In2_5(3)' /\ todo' = Tail(todo) /\ failed' = failed
  <2>1. Delay /\ Op = Busy(2) /\ Op.op = "busy"
    BY <1>1, <1>2, <1>7, OpNames, OnlyOp
  <2> QED
    BY <1>7, <2>1 DEF Delay, At, In2_5, Pending
<1>8. ASSUME ~Machine, k = 3 PROVE In2_5(4)' /\ todo' = Tail(todo) /\ failed' = failed
  <2>1. Op = Check("none") /\ "none" \in Whats /\ Holds("none")
    <3>1. Pending
      BY <1>8 DEF In2_5
    <3>2. Holds("none")
      BY <3>1, HoldsIs DEF Pending
    <3> QED
      BY <1>2, <1>8, <3>2 DEF Whats
  <2>2. /\ todo' = Tail(todo) /\ failed' = failed /\ Running
        /\ UNCHANGED <<kernel, locked, timerstate, page, others, taken>>
    BY <1>1, <1>8, <2>1, OnlyCheck
  <2> QED
    BY <1>8, <2>2 DEF In2_5, Ready, Pending, Running
<1>9. ASSUME ~Machine, k = 4 PROVE In2_5(5)' /\ todo' = Tail(todo) /\ failed' = failed
  <2>1. IrqLock /\ Op = Lock(FALSE)
    BY <1>1, <1>2, <1>9, OpNames, OnlyOp
  <2>2. locked' = FALSE
    BY <2>1, OpArgs, Zenon DEF IrqLock
  <2>3. /\ UNCHANGED <<wait, period, timer, timer_count, sem, failed>>
        /\ todo' = Tail(todo)
    BY <2>1 DEF IrqLock, At
  <2> QED
    BY <1>9, <2>2, <2>3 DEF In2_5, Ready, Pending
<1>10. ASSUME ~Machine, k = 5 PROVE In2_5(6)' /\ todo' = Tail(todo) /\ failed' = failed
  <2>1. k_sem_take /\ Op = Take(4)
    BY <1>1, <1>2, <1>10, OpNames, OnlyOp
  <2> QED
    BY <1>10, <2>1, OpArgs
       DEF k_sem_take, At, Running, In2_5, Ready, Pending, Fired, Waiting, Types
<1>11. ASSUME ~Machine, k = 6 PROVE In2_5(7)' /\ todo' = Tail(todo) /\ failed' = failed
  <2>1. Op = Check("taken") /\ "taken" \in Whats
    BY <1>2, <1>11 DEF Whats
  <2>2. Running => Fired(0) /\ Holds("taken")
    BY <1>11, HoldsIs DEF Running, In2_5, Waiting
  <2>3. /\ todo' = Tail(todo) /\ failed' = failed /\ Running
        /\ UNCHANGED <<kernel, locked, timerstate, page, others, taken>>
    BY <1>1, <1>11, <2>1, <2>2, OnlyCheck
  <2> QED
    BY <1>11, <2>2, <2>3 DEF Running, In2_5, Ready, Fired
<1>12. ASSUME ~Machine, k = 7 PROVE Goal
  <2>1. Op = Check("one") /\ "one" \in Whats /\ Holds("one")
    BY <1>2, <1>12, HoldsIs DEF Whats, In2_5, Fired
  <2>2. /\ todo' = Tail(todo) /\ failed' = failed /\ Running
        /\ UNCHANGED <<kernel, locked, timerstate, page, others, taken>>
    BY <1>1, <1>12, <2>1, OnlyCheck
  <2>3. Ready' /\ locked' = FALSE /\ todo' = <<>>
    BY <1>1, <1>12, <2>2 DEF In2_5, Ready, Running
  <2> QED
    BY <2>2, <2>3, TestEnds
<1> HIDE DEF Goal
<1>13. ASSUME ~Machine, k # 7 PROVE Goal
  <2>1. 0 + 1 = 1 /\ 1 + 1 = 2 /\ 2 + 1 = 3 /\ 3 + 1 = 4 /\ 4 + 1 = 5 /\ 5 + 1 = 6 /\ 6 + 1 = 7
    OBVIOUS
  <2>2. In2_5(k + 1)' /\ todo' = Tail(todo) /\ failed' = failed
    <3>1. k = 0 \/ k = 1 \/ k = 2 \/ k = 3 \/ k = 4 \/ k = 5 \/ k = 6
      BY <1>13
    <3> QED
      BY <1>5, <1>6, <1>7, <1>8, <1>9, <1>10, <1>11, <1>13, <2>1, <3>1, Zenon
  <2>3. k + 1 \in 0 .. 7 /\ k + 1 < 8
    BY <1>13
  <2> QED
    BY <1>1, <1>3, <2>2, <2>3
<1>14. Goal
  BY <1>4, <1>12, <1>13
<1> QED
  BY <1>14 DEF Goal

\* P2.4: the page is repaired by one fault, and the timer ticks before the
\* thread's sleep is over.
LEMMA Step2_4 ==
    ASSUME Types, Counters, NEW k \in 0 .. 7, Stands(P2_4, k), In2_4(k),
           [Next]_vars
    PROVE  failed' = failed /\ Where'
<1> DEFINE Goal == failed' = failed /\ Where'
<1>1. /\ todo # <<>> /\ Op = P2_4[k + 1]
      /\ todo' = todo => Stands(P2_4, k)'
      /\ todo' = Tail(todo) /\ k + 1 < 8 => Stands(P2_4, k + 1)'
      /\ todo' = Tail(todo) /\ k + 1 = 8 => todo' = <<>>
  <2>1. 8 \in Nat /\ k \in Nat /\ k < 8
    OBVIOUS
  <2>2. Len(P2_4) = 8
    BY Prog2_4, Zenon
  <2> QED
    BY <2>1, <2>2, Advance, Zenon
<1>2. /\ k = 0 => Op = SetFixup
      /\ k = 1 => Op = MapInvalid
      /\ k = 2 => Op = Start(1, 1)
      /\ k = 3 => Op = Load
      /\ k = 4 => Op = Sleep(2)
      /\ k = 5 => Op = Stop
      /\ k = 6 => Op = Check("fixed")
      /\ k = 7 => Op = Check("ticked")
  <2>1. /\ Op = P2_4[k + 1]
        /\ 0 + 1 = 1 /\ 1 + 1 = 2 /\ 2 + 1 = 3 /\ 3 + 1 = 4 /\ 4 + 1 = 5
        /\ 5 + 1 = 6 /\ 6 + 1 = 7 /\ 7 + 1 = 8
    BY <1>1
  <2> QED
    BY <2>1, Prog2_4, Zenon
<1>3. ASSUME NEW j \in 0 .. 7, Stands(P2_4, j)', In2_4(j)', failed' = failed PROVE Goal
  BY <1>3 DEF Where
<1>4. ASSUME Machine PROVE Goal
  <2>1. Aside
    BY <1>4, MachineEffect
  <2>2. In2_4(k)'
    <3>1. /\ locked' = FALSE /\ period' = period /\ UNCHANGED <<fixup, pteV, fix_count>>
      BY <2>1 DEF Aside, In2_4, page
    <3>2. k # 5 => Ready'
      BY <1>4, ReadyKept DEF In2_4
    <3>3. timer_count > 0 => timer_count' > 0
      <4>1. timer_count' \in {timer_count, Inc(timer_count)}
        BY <1>4, MachineEffect DEF Clock, Expiry, WaitEnds, Still
      <4> QED
        BY <4>1, BoundAssumption DEF Counters, Inc, MaxCount
    <3>4. k \in 3 .. 5 => timer' <= 1
      BY <1>4, MachineEffect, BoundAssumption
         DEF In2_4, Types, Clock, Age, Expiry, WaitEnds, Still, Off
    <3>5. ASSUME k = 5, ~(timer_count > 0)
          PROVE  \/ timer_count' > 0
                 \/ wait' = "sleep" /\ timer' < until'
      <4>1. wait = "sleep" /\ timer < until /\ timer <= 1
        BY <3>5 DEF In2_4
      <4>2. CASE Clock
        <5>1. timer' = timer - 1 /\ until' \in {until, until - 1} /\ wait' = "sleep"
          BY <4>1, <4>2 DEF Clock, Age, Types, Off
        <5> QED
          BY <4>1, <5>1 DEF Types
      <4>3. CASE Expiry
        BY <3>5, <4>3, BoundAssumption DEF Expiry, Counters, Inc, MaxCount
      <4>4. CASE WaitEnds
        BY <4>1, <4>4 DEF WaitEnds, Types
      <4>5. CASE Still
        BY <4>1, <4>5 DEF Still
      <4> QED
        BY <1>4, <4>2, <4>3, <4>4, <4>5, MachineEffect
    <3>6. k = 5 => wait' \in {"no", "sleep"}
      BY <1>4, MachineEffect DEF In2_4, Clock, Expiry, k_sem_give, WaitEnds, Still
    <3> QED
      BY <3>1, <3>2, <3>3, <3>4, <3>5, <3>6 DEF In2_4
  <2>3. todo' = todo /\ failed' = failed
    BY <2>1 DEF Aside
  <2> HIDE DEF Goal
  <2> QED
    BY <1>1, <1>3, <2>2, <2>3
<1> USE DEF kernel, timerstate, page, others, test
<1>5. ASSUME ~Machine, k = 0 PROVE In2_4(1)' /\ todo' = Tail(todo) /\ failed' = failed
  <2>1. z_riscv_mmu_set_fault_fixup
    BY <1>1, <1>2, <1>5, OpNames, OnlyOp
  <2> QED
    BY <1>5, <2>1 DEF z_riscv_mmu_set_fault_fixup, At, In2_4, Ready
<1>6. ASSUME ~Machine, k = 1 PROVE In2_4(2)' /\ todo' = Tail(todo) /\ failed' = failed
  <2>1. MapRaw
    BY <1>1, <1>2, <1>6, OpNames, OnlyOp
  <2> QED
    BY <1>6, <2>1 DEF MapRaw, At, In2_4, Ready
<1>7. ASSUME ~Machine, k = 2 PROVE In2_4(3)' /\ todo' = Tail(todo) /\ failed' = failed
  <2>1. k_timer_start /\ Op = Start(1, 1)
    BY <1>1, <1>2, <1>7, OpNames, OnlyOp
  <2>2. timer' = 1 /\ period' = 1
    BY <2>1, OpArgs DEF k_timer_start
  <2>3. UNCHANGED <<wait, locked, page, failed>> /\ todo' = Tail(todo)
    BY <2>1 DEF k_timer_start, At
  <2> QED
    BY <1>7, <2>2, <2>3 DEF In2_4, Ready
<1>8. ASSUME ~Machine, k = 3, LoadOk PROVE In2_4(4)' /\ todo' = Tail(todo) /\ failed' = failed
  BY <1>8 DEF LoadOk, At, In2_4, Ready
<1>9. ASSUME ~Machine, k = 3, p2_fixup PROVE In2_4(3)' /\ todo' = todo /\ failed' = failed
  <2>1. fix_count = 0
    BY <1>9 DEF p2_fixup, In2_4
  <2>2. fix_count' = 1 /\ pteV' = TRUE
    BY <1>9, <2>1 DEF p2_fixup, CountWrap
  <2>3. UNCHANGED <<wait, locked, timer, period, fixup, failed, todo>>
    BY <1>9 DEF p2_fixup
  <2> QED
    BY <1>9, <2>2, <2>3 DEF In2_4, Ready
<1>10. ASSUME ~Machine, k = 4 PROVE In2_4(5)' /\ todo' = Tail(todo) /\ failed' = failed
  <2>1. Delay /\ Op = Sleep(2) /\ Op.op = "sleep"
    BY <1>1, <1>2, <1>10, OpNames, OnlyOp
  <2>2. /\ wait' = "sleep" /\ until' = 2 /\ todo' = Tail(todo)
        /\ UNCHANGED <<timer, period, locked, page, failed>>
    BY <2>1, OpArgs DEF Delay, At
  <2>3. timer' < until'
    BY <1>10, <2>2 DEF In2_4, Types
  <2> QED
    BY <1>10, <2>2, <2>3 DEF In2_4
<1>11. ASSUME ~Machine, k = 5 PROVE In2_4(6)' /\ todo' = Tail(todo) /\ failed' = failed
  <2>1. k_timer_stop
    BY <1>1, <1>2, <1>11, OpNames, OnlyOp
  <2> QED
    BY <1>11, <2>1 DEF k_timer_stop, At, Running, In2_4, Ready
<1>12. ASSUME ~Machine, k = 6 PROVE In2_4(7)' /\ todo' = Tail(todo) /\ failed' = failed
  <2>1. Op = Check("fixed") /\ "fixed" \in Whats /\ Holds("fixed")
    <3>1. pteV = TRUE /\ fix_count = 1 /\ 1 >= 1
      BY <1>12 DEF In2_4
    <3>2. Holds("fixed")
      BY <3>1, HoldsIs
    <3> QED
      BY <1>2, <1>12, <3>2 DEF Whats
  <2>2. /\ todo' = Tail(todo) /\ failed' = failed
        /\ UNCHANGED <<kernel, locked, timerstate, page, others, taken>>
    BY <1>1, <1>12, <2>1, OnlyCheck
  <2> QED
    BY <1>12, <2>2 DEF In2_4, Ready
<1>13. ASSUME ~Machine, k = 7 PROVE Goal
  <2>1. Op = Check("ticked") /\ "ticked" \in Whats /\ Holds("ticked")
    <3>1. timer_count > 0
      BY <1>13 DEF In2_4
    <3>2. Holds("ticked")
      BY <3>1, HoldsIs
    <3> QED
      BY <1>2, <1>13, <3>2 DEF Whats
  <2>2. /\ todo' = Tail(todo) /\ failed' = failed
        /\ UNCHANGED <<kernel, locked, timerstate, page, others, taken>>
    BY <1>1, <1>13, <2>1, OnlyCheck
  <2>3. Ready' /\ locked' = FALSE /\ todo' = <<>>
    BY <1>1, <1>13, <2>2 DEF In2_4, Ready
  <2> QED
    BY <2>2, <2>3, TestEnds
<1> HIDE DEF Goal
<1>14. ASSUME ~Machine, k = 3, p2_fixup PROVE Goal
  BY <1>1, <1>3, <1>9, <1>14
<1>15. ASSUME ~Machine, k # 7, ~(k = 3 /\ p2_fixup) PROVE Goal
  <2>1. 0 + 1 = 1 /\ 1 + 1 = 2 /\ 2 + 1 = 3 /\ 3 + 1 = 4 /\ 4 + 1 = 5 /\ 5 + 1 = 6 /\ 6 + 1 = 7
    OBVIOUS
  <2>2. k = 3 => LoadOk
    BY <1>1, <1>2, <1>15, OpNames, OnlyOp
  <2>3. In2_4(k + 1)' /\ todo' = Tail(todo) /\ failed' = failed
    <3>1. k = 0 \/ k = 1 \/ k = 2 \/ k = 3 \/ k = 4 \/ k = 5 \/ k = 6
      BY <1>15
    <3> QED
      BY <1>5, <1>6, <1>7, <1>8, <1>10, <1>11, <1>12, <1>15, <2>1, <2>2, <3>1, Zenon
  <2>4. k + 1 \in 0 .. 7 /\ k + 1 < 8
    BY <1>15
  <2> QED
    BY <1>1, <1>3, <2>3, <2>4
<1>16. Goal
  BY <1>4, <1>13, <1>14, <1>15
<1> QED
  BY <1>16 DEF Goal

\* A periodic timer of period 1 is never more than a period away.
LEMMA PeriodicKept ==
    ASSUME Types, timer <= 1, period = 1, Machine
    PROVE  timer' <= 1 /\ period' = 1
<1>1. period' = 1
  BY MachineEffect DEF Aside
<1>2. CASE Clock
  <2>1. timer' <= timer /\ timer' \in Int
    BY <1>2, AgeFacts, BoundAssumption DEF Types, Clock, Age, Off
  <2> QED
    BY <1>1, <2>1 DEF Types
<1>3. CASE Expiry
  <2>1. 1 # Off
    BY DEF Off
  <2>2. timer' = timer + 1 /\ timer <= 0
    BY <1>3, <2>1 DEF Expiry
  <2> QED
    BY <1>1, <2>2 DEF Types
<1>4. CASE WaitEnds \/ Still
  BY <1>1, <1>4 DEF WaitEnds, Still
<1> QED
  BY <1>2, <1>3, <1>4, MachineEffect

\* P2.3: every turn takes a unit, and the units taken are expirations counted.
LEMMA Step2_3 ==
    ASSUME Types, CountInv, NEW k \in 0 .. 2 * Want + 2, Stands(P2_3, k),
           In2_3(k), [Next]_vars
    PROVE  failed' = failed /\ Where'
<1> DEFINE Goal == failed' = failed /\ Where'
<1>0. Want \in Nat /\ Want >= 1 /\ k \in Nat
  BY BoundAssumption
<1>1. /\ todo # <<>> /\ Op = P2_3[k + 1]
      /\ todo' = todo => Stands(P2_3, k)'
      /\ todo' = Tail(todo) /\ k + 1 < 2 * Want + 3 => Stands(P2_3, k + 1)'
      /\ todo' = Tail(todo) /\ k + 1 = 2 * Want + 3 => todo' = <<>>
  <2>1. 2 * Want + 3 \in Nat /\ k \in Nat /\ k < 2 * Want + 3
    BY <1>0
  <2>2. Len(P2_3) = 2 * Want + 3
    BY Prog2_3, Zenon
  <2> QED
    BY <2>1, <2>2, Advance, Zenon
<1>2. \/ k = 0
      \/ \E j \in 1 .. Want : k = 2 * j - 1
      \/ \E j \in 1 .. Want : k = 2 * j
      \/ k = 2 * Want + 1
      \/ k = 2 * Want + 2
  <2>1. CASE k \in 1 .. 2 * Want /\ k % 2 = 0
    <3>1. k \div 2 \in 1 .. Want /\ k = 2 * (k \div 2)
      BY <1>0, <2>1
    <3> QED
      BY <3>1
  <2>2. CASE k \in 1 .. 2 * Want /\ k % 2 = 1
    <3>1. (k + 1) \div 2 \in 1 .. Want /\ k = 2 * ((k + 1) \div 2) - 1
      BY <1>0, <2>2
    <3> QED
      BY <3>1
  <2> QED
    BY <1>0, <2>1, <2>2
<1>3. ASSUME NEW i \in 0 .. 2 * Want + 2, Stands(P2_3, i)', In2_3(i)', failed' = failed PROVE Goal
  BY <1>3 DEF Where
<1>4. ASSUME NEW j \in 0 .. Want, locked' = FALSE, timer' <= 1, period' = 1, Ready', taken' = j
      PROVE  In2_3(2 * j + 1)'
  BY <1>0, <1>4 DEF In2_3
<1>5. ASSUME NEW j \in 1 .. Want, locked' = FALSE, timer' <= 1, period' = 1,
             (Waiting' /\ taken' = j - 1) \/ (Ready' /\ taken' = j /\ res' = 0)
      PROVE  In2_3(2 * j)'
  BY <1>0, <1>5 DEF In2_3
<1>6. /\ locked = FALSE
      /\ k \in 1 .. 2 * Want + 1 => timer <= 1 /\ period = 1
      /\ k = 0 => Ready /\ taken = 0
      /\ \A j \in 1 .. Want : k = 2 * j - 1 => Ready /\ taken = j - 1
      /\ \A j \in 1 .. Want : k = 2 * j =>
           (Waiting /\ taken = j - 1) \/ (Ready /\ taken = j /\ res = 0)
      /\ k = 2 * Want + 1 => Ready /\ taken = Want
      /\ k = 2 * Want + 2 => Ready /\ taken = Want
  <2>1. ASSUME NEW j \in 1 .. Want, k = 2 * j - 1 PROVE Ready /\ taken = j - 1
    <3>1. j - 1 \in 0 .. Want /\ k = 2 * (j - 1) + 1
      BY <1>0, <2>1
    <3> QED
      BY <3>1 DEF In2_3
  <2>2. ASSUME k = 2 * Want + 1 PROVE Ready /\ taken = Want
    <3>1. Want \in 0 .. Want
      BY <1>0
    <3> QED
      BY <2>2, <3>1 DEF In2_3
  <2> QED
    BY <2>1, <2>2 DEF In2_3
<1>7. ASSUME Machine PROVE Goal
  <2>1. Aside /\ locked' = FALSE /\ todo' = todo /\ failed' = failed
    BY <1>6, <1>7, MachineEffect DEF Aside
  <2>2. k \in 1 .. 2 * Want + 1 => timer' <= 1 /\ period' = 1
    BY <1>6, <1>7, PeriodicKept
  <2>3. Ready => Ready' /\ taken' = taken /\ res' = res
    BY <1>7, ReadyKept
  <2>4. In2_3(k)'
    <3>1. CASE k = 0
      BY <1>0, <1>6, <2>1, <2>3, <3>1 DEF In2_3
    <3>2. ASSUME NEW j \in 1 .. Want, k = 2 * j - 1 PROVE In2_3(k)'
      <4>1. j - 1 \in 0 .. Want /\ k = 2 * (j - 1) + 1 /\ k \in 1 .. 2 * Want + 1
        BY <1>0, <3>2
      <4>2. In2_3(2 * (j - 1) + 1)'
        BY <1>4, <1>6, <2>1, <2>2, <2>3, <3>2, <4>1
      <4> QED
        BY <4>1, <4>2
    <3>3. ASSUME NEW j \in 1 .. Want, k = 2 * j PROVE In2_3(k)'
      <4>1. k \in 1 .. 2 * Want + 1 /\ (j - 1) + 1 = j
        BY <1>0, <3>3
      <4>2. (Waiting' /\ taken' = j - 1) \/ (Ready' /\ taken' = j /\ res' = 0)
        <5>1. CASE Waiting /\ taken = j - 1
          BY <1>7, <4>1, <5>1, WaitingKept
        <5>2. CASE Ready /\ taken = j /\ res = 0
          BY <2>3, <5>2
        <5> QED
          BY <1>6, <3>3, <5>1, <5>2
      <4>3. In2_3(2 * j)'
        BY <1>5, <2>1, <2>2, <4>1, <4>2
      <4> QED
        BY <3>3, <4>3
    <3>4. CASE k = 2 * Want + 1
      <4>1. Want \in 0 .. Want /\ k \in 1 .. 2 * Want + 1
        BY <1>0, <3>4
      <4>2. In2_3(2 * Want + 1)'
        BY <1>4, <1>6, <2>1, <2>2, <2>3, <3>4, <4>1
      <4> QED
        BY <3>4, <4>2
    <3>5. CASE k = 2 * Want + 2
      BY <1>0, <1>6, <2>1, <2>3, <3>5 DEF In2_3
    <3> QED
      BY <1>2, <3>1, <3>2, <3>3, <3>4, <3>5
  <2> HIDE DEF Goal
  <2> QED
    BY <1>1, <1>3, <2>1, <2>4
<1> USE DEF kernel, timerstate, page, others, test
<1>8. ASSUME ~Machine, k = 0 PROVE In2_3(k + 1)' /\ todo' = Tail(todo) /\ failed' = failed
  <2>1. Op = Start(1, 1)
    <3>1. k + 1 = 1
      BY <1>8
    <3> QED
      BY <1>1, <3>1, Prog2_3, Zenon
  <2>2. k_timer_start
    BY <1>1, <1>8, <2>1, OpNames, OnlyOp
  <2>3. /\ timer' = 1 /\ period' = 1 /\ UNCHANGED <<wait, locked, taken, failed>>
        /\ todo' = Tail(todo)
    BY <2>1, <2>2, OpArgs DEF k_timer_start, At
  <2>4. 0 \in 0 .. Want /\ k + 1 = 2 * 0 + 1
    BY <1>0, <1>8
  <2>5. In2_3(2 * 0 + 1)'
    <3>1. locked' = FALSE /\ timer' <= 1 /\ period' = 1 /\ Ready' /\ taken' = 0
      BY <1>6, <1>8, <2>3 DEF Ready
    <3> QED
      BY <1>4, <2>4, <3>1, Zenon
  <2> QED
    BY <2>3, <2>4, <2>5
<1>9. ASSUME ~Machine, NEW j \in 1 .. Want, k = 2 * j - 1
      PROVE  In2_3(k + 1)' /\ todo' = Tail(todo) /\ failed' = failed
  <2>1. k + 1 = 2 * j /\ k \in 1 .. 2 * Want + 1 /\ (j - 1) + 1 = j
    BY <1>0, <1>9
  <2>2. Op = Take(4)
    BY <1>1, <2>1, Prog2_3, Zenon
  <2>3. k_sem_take /\ Op.d = 4
    BY <1>1, <1>9, <2>2, OpNames, OpArgs, OnlyOp
  <2>4. /\ UNCHANGED <<timer, period, locked, failed>> /\ todo' = Tail(todo)
        /\ \/ res' = 0 /\ taken' = taken + 1 /\ wait' = wait
           \/ wait' = "sem" /\ until' = 4 /\ taken' = taken
    BY <2>3 DEF k_sem_take, At
  <2>5. Ready /\ taken = j - 1 /\ timer <= 1 /\ period = 1
    BY <1>6, <1>9, <2>1
  <2>6. (Waiting' /\ taken' = j - 1) \/ (Ready' /\ taken' = j /\ res' = 0)
    BY <2>1, <2>4, <2>5 DEF Waiting, Ready, Types
  <2>7. In2_3(2 * j)'
    BY <1>5, <1>6, <2>4, <2>5, <2>6
  <2> QED
    BY <2>1, <2>4, <2>7
<1>10. ASSUME ~Machine, NEW j \in 1 .. Want, k = 2 * j
       PROVE  In2_3(k + 1)' /\ todo' = Tail(todo) /\ failed' = failed
  <2>1. k + 1 = 2 * j + 1 /\ k \in 1 .. 2 * Want + 1 /\ j \in 0 .. Want
    BY <1>0, <1>10
  <2>2. Op = Check("taken")
    BY <1>1, <2>1, Prog2_3, Zenon
  <2>3. Running => Ready /\ taken = j /\ res = 0
    BY <1>6, <1>10 DEF Running, Waiting
  <2>4. "taken" \in Whats /\ (Running => Holds("taken"))
    BY <2>3, HoldsIs DEF Whats
  <2>5. /\ todo' = Tail(todo) /\ failed' = failed /\ Running
        /\ UNCHANGED <<kernel, locked, timerstate, page, others, taken>>
    BY <1>1, <1>10, <2>2, <2>4, OnlyCheck
  <2>6. UNCHANGED <<timer, period, wait, locked, taken>>
    BY <2>5
  <2>7. In2_3(2 * j + 1)'
    BY <1>4, <1>6, <2>1, <2>3, <2>5, <2>6 DEF Ready
  <2> QED
    BY <2>1, <2>5, <2>7
<1>11. ASSUME ~Machine, k = 2 * Want + 1
       PROVE  In2_3(k + 1)' /\ todo' = Tail(todo) /\ failed' = failed
  <2>1. k + 1 = 2 * Want + 2
    BY <1>0, <1>11
  <2>2. Op = Stop
    BY <1>1, <2>1, Prog2_3, Zenon
  <2>3. k_timer_stop
    BY <1>1, <1>11, <2>2, OpNames, OnlyOp
  <2>4. UNCHANGED <<wait, locked, taken, failed>> /\ todo' = Tail(todo)
    BY <2>3 DEF k_timer_stop, At
  <2>5. In2_3(2 * Want + 2)'
    BY <1>0, <1>6, <1>11, <2>4 DEF In2_3, Ready
  <2> QED
    BY <2>1, <2>4, <2>5
<1>12. ASSUME ~Machine, k = 2 * Want + 2 PROVE Goal
  <2>1. k + 1 = 2 * Want + 3
    BY <1>0, <1>12
  <2>2. Op = Check("want")
    BY <1>1, <2>1, Prog2_3, Zenon
  <2>3. timer_count >= Want
    <3>1. taken = Want
      BY <1>6, <1>12
    <3> QED
      BY <1>0, <3>1 DEF CountInv, Counters, NoExpiryLost, MaxCount
  <2>4. "want" \in Whats /\ Holds("want")
    BY <2>3, HoldsIs DEF Whats
  <2>5. /\ todo' = Tail(todo) /\ failed' = failed
        /\ UNCHANGED <<kernel, locked, timerstate, page, others, taken>>
    BY <1>1, <1>12, <2>2, <2>4, OnlyCheck
  <2>6. wait' = wait /\ locked' = locked
    BY <2>5
  <2>7. Ready' /\ locked' = FALSE /\ todo' = <<>>
    BY <1>1, <1>6, <1>12, <2>1, <2>5, <2>6 DEF Ready
  <2> QED
    BY <2>5, <2>7, TestEnds
<1> HIDE DEF Goal
<1>13. ASSUME ~Machine, k # 2 * Want + 2 PROVE Goal
  <2>1. In2_3(k + 1)' /\ todo' = Tail(todo) /\ failed' = failed
    BY <1>2, <1>8, <1>9, <1>10, <1>11, <1>13, Zenon
  <2>2. k + 1 \in 0 .. 2 * Want + 2 /\ k + 1 < 2 * Want + 3
    BY <1>0, <1>13
  <2> QED
    BY <1>1, <1>3, <2>1, <2>2
<1>14. Goal
  BY <1>7, <1>12, <1>13
<1> QED
  BY <1>14 DEF Goal

-----------------------------------------------------------------------------
\* Between the tests nothing is asserted; a test begins at its first operation
\* with what the fixture has reset.
LEMMA StepBetween ==
    ASSUME Types, Between, [Next]_vars
    PROVE  failed' = failed /\ Where'
<1>1. CASE Machine
  <2>1. Ready' /\ locked' = FALSE /\ todo' = <<>> /\ failed' = failed
    BY <1>1, MachineEffect, ReadyKept DEF Between, Aside
  <2> QED
    BY <2>1, TestEnds
<1>2. ASSUME NEW t \in DOMAIN Tests, Begin(t) PROVE failed' = failed /\ Where'
  <2>1. /\ timer' = Off /\ sem' = 0 /\ timer_count' = 0 /\ fix_count' = 0 /\ taken' = 0
        /\ Ready' /\ locked' = FALSE /\ failed' = failed
    BY <1>2 DEF Begin, p2_before, Between, Ready
  <2>2. todo' \in {P2_1, P2_2, P2_3, P2_4, P2_5, P3_1}
    BY <1>2, TestPrograms DEF Begin
  <2>3. ASSUME NEW prog \in Seq(Ops), todo' = prog PROVE Stands(prog, 0)'
    <3>1. Len(prog) \in Nat /\ Len(prog) - 0 = Len(prog)
      BY <2>3
    <3>2. \A i \in 1 .. Len(prog) : i + 0 = i
      BY <3>1
    <3> QED
      BY <2>3, <3>1, <3>2 DEF Stands
  <2>4. CASE todo' = P2_1
    <3>1. Stands(P2_1, 0)'
      BY <2>3, <2>4, Prog2_1, Zenon
    <3>2. In2_1(0)' /\ 0 \in 0 .. 5
      BY <2>1 DEF In2_1
    <3> QED
      BY <2>1, <3>1, <3>2, Zenon DEF Where
  <2>5. CASE todo' = P2_2
    <3>1. Stands(P2_2, 0)'
      BY <2>3, <2>5, Prog2_2, Zenon
    <3>2. In2_2(0)' /\ 0 \in 0 .. 1
      BY <2>1 DEF In2_2
    <3> QED
      BY <2>1, <3>1, <3>2, Zenon DEF Where
  <2>6. CASE todo' = P2_3
    <3>1. Stands(P2_3, 0)'
      BY <2>3, <2>6, Prog2_3, Zenon
    <3>2. In2_3(0)' /\ 0 \in 0 .. 2 * Want + 2
      BY <2>1, BoundAssumption DEF In2_3
    <3> QED
      BY <2>1, <3>1, <3>2, Zenon DEF Where
  <2>7. CASE todo' = P2_4
    <3>1. Stands(P2_4, 0)'
      BY <2>3, <2>7, Prog2_4, Zenon
    <3>2. In2_4(0)' /\ 0 \in 0 .. 7
      BY <2>1 DEF In2_4
    <3> QED
      BY <2>1, <3>1, <3>2, Zenon DEF Where
  <2>8. CASE todo' = P2_5
    <3>1. Stands(P2_5, 0)'
      BY <2>3, <2>8, Prog2_5, Zenon
    <3>2. In2_5(0)' /\ 0 \in 0 .. 7
      BY <2>1 DEF In2_5
    <3> QED
      BY <2>1, <3>1, <3>2, Zenon DEF Where
  <2>9. CASE todo' = P3_1
    <3>1. Stands(P3_1, 0)'
      BY <2>3, <2>9, Prog3_1, Zenon
    <3>2. In3_1(0)' /\ 0 \in 0 .. 9
      BY <2>1 DEF In3_1
    <3> QED
      BY <2>1, <3>1, <3>2, Zenon DEF Where
  <2> QED
    BY <2>2, <2>4, <2>5, <2>6, <2>7, <2>8, <2>9
<1>3. Machine \/ \E t \in DOMAIN Tests : Begin(t)
  <2>1. todo = <<>>
    BY DEF Between
  <2> QED
    BY <2>1 DEF Next, Machine, Thread, k_timer_start, k_timer_stop, k_sem_take, Delay, IrqLock,
           z_riscv_mmu_set_fault_fixup, MapRaw, LoadOk, p2_fixup, IrqOffload, LrSc, Zassert, At
<1> QED
  BY <1>1, <1>2, <1>3

\* That a reservation was dropped is not forgotten.
LEMMA DroppedStays == ASSUME [Next]_vars, dropped = TRUE PROVE dropped' = TRUE
<1> USE DEF kernel, timerstate, page, others, test
<1>1. CASE Tick \/ MTimerTrap \/ EnterIsr \/ UNCHANGED vars
  BY <1>1 DEF Tick, MTimerTrap, EnterIsr, vars
<1>2. CASE Isr
  BY <1>2 DEF Isr, timer_expiry, WaitExpires, LeaveIsr
<1>3. CASE Thread
  <2>1. CASE k_timer_start \/ k_timer_stop \/ k_sem_take \/ Delay \/ BusyEnds
    BY <2>1 DEF k_timer_start, k_timer_stop, k_sem_take, Delay, BusyEnds
  <2>2. CASE IrqLock \/ z_riscv_mmu_set_fault_fixup \/ MapRaw \/ LoadOk \/ p2_fixup
    BY <2>2 DEF IrqLock, z_riscv_mmu_set_fault_fixup, MapRaw, LoadOk, p2_fixup
  <2>3. CASE IrqOffload \/ LrSc \/ Zassert
    BY <2>3 DEF IrqOffload, LrSc, Zassert
  <2> QED
    BY <1>3, <2>1, <2>2, <2>3 DEF Thread
<1>4. CASE \E t \in DOMAIN Tests : Begin(t)
  BY <1>4 DEF Begin
<1> QED
  BY <1>1, <1>2, <1>3, <1>4 DEF Next

\* One step of the clock, the interrupt or the thread keeps the invariant.
LEMMA SoundStep == ASSUME SoundInv, [Next]_vars PROVE SoundInv'
<1>1. CountInv' /\ Types'
  BY CountStep, TypesStep DEF SoundInv
<1>2. CountInv /\ Counters /\ Types /\ Excused
  BY DEF SoundInv, CountInv
<1>3. (failed' = failed \/ (failed' = "sc" /\ dropped' = TRUE)) /\ Where'
  <2>1. CASE Between
    BY <1>2, <2>1, StepBetween
  <2>2. ASSUME NEW k \in 0 .. 5, Stands(P2_1, k), In2_1(k) PROVE failed' = failed /\ Where'
    BY <1>2, <2>2, Step2_1
  <2>3. ASSUME NEW k \in 0 .. 1, Stands(P2_2, k), In2_2(k) PROVE failed' = failed /\ Where'
    BY <1>2, <2>3, Step2_2
  <2>4. ASSUME NEW k \in 0 .. 2 * Want + 2, Stands(P2_3, k), In2_3(k)
        PROVE  failed' = failed /\ Where'
    BY <1>2, <2>4, Step2_3
  <2>5. ASSUME NEW k \in 0 .. 7, Stands(P2_4, k), In2_4(k) PROVE failed' = failed /\ Where'
    BY <1>2, <2>5, Step2_4
  <2>6. ASSUME NEW k \in 0 .. 7, Stands(P2_5, k), In2_5(k) PROVE failed' = failed /\ Where'
    BY <1>2, <2>6, Step2_5
  <2>7. ASSUME NEW k \in 0 .. 9, Stands(P3_1, k), In3_1(k) 
        PROVE  (failed' = failed \/ (failed' = "sc" /\ dropped' = TRUE)) /\ Where'
    BY <1>2, <2>7, Step3_1
  <2>8. Where
    BY DEF SoundInv
  <2> QED
    BY <2>1, <2>2, <2>3, <2>4, <2>5, <2>6, <2>7, <2>8, Zenon DEF Where
<1>4. Excused'
  BY <1>2, <1>3, DroppedStays DEF Excused
<1> QED
  BY <1>1, <1>3, <1>4 DEF SoundInv

\* No assertion of the interrupt tests fails, and that on P3.1's SC only after an
\* M-mode trap between LR and SC: for every lateness of the system-timer
\* interrupt, every number of turns of P2.3, every order of the tests and every
\* interleaving of the thread, the clock, the firmware and the announcement.
THEOREM InterruptTestsSound == Spec => []ZP2Sound
<1>1. Init => SoundInv
  <2>1. ASSUME Init PROVE SoundInv
    <3>1. CountInv
      BY <2>1, BoundAssumption DEF Init, CountInv, Counters, NoExpiryLost, MaxCount
    <3>2. Types /\ Excused
      BY <2>1 DEF Init, Types, Off, Excused
    <3>3. Where
      BY <2>1 DEF Init, Where, Between, Ready
    <3> QED
      BY <3>1, <3>2, <3>3 DEF SoundInv
  <2> QED
    BY <2>1
<1>2. SoundInv /\ [Next]_vars => SoundInv'
  BY SoundStep
<1>3. SoundInv => ZP2Sound
  BY Zenon DEF SoundInv, Excused, ZP2Sound
<1> QED
  BY <1>1, <1>2, <1>3, PTL DEF Spec
=============================================================================
