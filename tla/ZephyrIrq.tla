----------------------------- MODULE ZephyrIrq -----------------------------
(***************************************************************************)
(* The interrupt suite of zephyr-suite (p2_interrupts.c) and the LR/SC     *)
(* test of p3_atomics.c, on what they use of the Zephyr kernel: a k_timer, *)
(* a k_sem, timed waits, irq_lock and the system-timer interrupt.          *)
(*                                                                         *)
(* One CPU.  The interrupt may come arbitrarily late: sys_clock_announce   *)
(* then works off every timeout that is due, in order of deadline.  Times  *)
(* are what is left of a delay, negative when it is overdue.               *)
(***************************************************************************)
EXTENDS Integers, Sequences, FiniteSets

CONSTANTS
    Late,      \* bound: ticks by which a timeout may be overdue
    MaxTests,  \* bound: tests run in one boot
    Want       \* expirations that P2.3 waits for: 5 in the code

ASSUME BoundAssumption == Late \in Nat \ {0} /\ MaxTests \in Nat /\ Want \in Nat \ {0}

VARIABLES
    timer, period,    \* ticks until the k_timer expires, or Off; its period
    wait, until,      \* what the test thread waits for, and ticks until it gives up
    sem, res,         \* count of timer_sem; what the last k_sem_take returned
    isr,              \* "no", "stimer" (the announcement runs)
    locked,           \* irq_lock held: sstatus.SIE clear
    timer_count, cb,  \* the callback's counter, and the cause it saw
    fixup, pteV, fix_count,   \* P2.4: the resolver, the page's V bit
    resv, sc,         \* LR reservation, result of the last SC
    stip,             \* the firmware has forwarded a timer interrupt: mip.STIP
    offload,          \* irq_offload's handler has run
    todo, ran,
    failed,           \* the last assertion that failed, or "none"
    taken,            \* history: successful k_sem_takes of this test
    dropped           \* history: an M-mode trap has dropped a reservation

kernel == <<timer, period, wait, until, sem, res, isr>>
timerstate == <<timer_count, cb>>
page == <<fixup, pteV, fix_count>>
others == <<resv, sc, offload, stip, dropped>>
test == <<todo, ran, failed>>
vars == <<kernel, locked, timerstate, page, others, test, taken>>

Off == 99        \* K_NO_WAIT as a period, or a timer that does not run
CountWrap == 8   \* bound: fix_count counts modulo 8
MaxCount == Want + 2              \* bound: counts of expirations stop here
Inc(n) == IF n < MaxCount THEN n + 1 ELSE n
EAGAIN == -11

-----------------------------------------------------------------------------
Start(d, p) == [op |-> "start", d |-> d, p |-> p]
Stop == [op |-> "stop"]
Take(d) == [op |-> "take", d |-> d]
Sleep(d) == [op |-> "sleep", d |-> d]
Busy(d) == [op |-> "busy", d |-> d]
Lock(b) == [op |-> "lock", b |-> b]
SetFixup == [op |-> "fixup"]
MapInvalid == [op |-> "map"]
Load == [op |-> "load"]
Offload == [op |-> "offload"]
LR == [op |-> "lr"]
SC == [op |-> "sc"]
Check(what) == [op |-> "check", what |-> what]

\* Delays keep their order, not their length: 1 for the timer's 1 to 10 ms,
\* 2 to 4 for what must be longer.
P2_1 == <<Start(1, Off), Take(4), Check("taken"), Check("in isr"), Sleep(2), Check("one")>>
P2_2 == <<Offload, Check("offload")>>
\* one turn: k_sem_take and its assertion
P2_3Turn == <<Take(4), Check("taken")>>
P2_3 ==
    <<Start(1, 1)>>
    \o [i \in 1 .. 2 * Want |-> IF i % 2 = 1 THEN P2_3Turn[1] ELSE P2_3Turn[2]]
    \o <<Stop, Check("want")>>
P2_5 ==
    <<Lock(TRUE), Start(1, Off), Busy(2), Check("none"), Lock(FALSE),
      Take(4), Check("taken"), Check("one")>>
P2_4 ==
    <<SetFixup, MapInvalid, Start(1, 1), Load, Sleep(2), Stop,
      Check("fixed"), Check("ticked")>>
\* Bug variant: no irq_lock around the pair.
P3_1_Unlocked == <<LR, SC, Check("sc"), LR, SC, Check("sc")>>
P3_1 ==
    <<Lock(TRUE), LR, SC, Lock(FALSE), Check("sc"),
      Lock(TRUE), LR, SC, Lock(FALSE), Check("sc")>>

\* P3.1 is of another image; the kernel's timer interrupts it all the same.
Tests == <<P2_1, P2_2, P2_3, P2_4, P2_5, P3_1>>

Init ==
    /\ timer = Off /\ period = Off /\ wait = "no" /\ until = Off
    /\ sem = 0 /\ res = 0 /\ isr = "no" /\ locked = FALSE
    /\ timer_count = 0 /\ cb = "none"
    /\ fixup = FALSE /\ pteV = FALSE /\ fix_count = 0
    /\ resv = FALSE /\ sc = 0 /\ offload = FALSE
    /\ todo = <<>> /\ ran = {} /\ failed = "none" /\ taken = 0
    /\ stip = FALSE /\ dropped = FALSE

-----------------------------------------------------------------------------
(***************************************************************************)
(* The kernel.                                                             *)
(***************************************************************************)
Age(t) == IF t \in {Off, -Late} THEN t ELSE t - 1
Running == wait = "no" /\ isr = "no"

\* Time passes while a timeout runs; none is more than Late ticks overdue, but
\* for the timer that waits behind a lock for the end of k_busy_wait.  An
\* announcement covers the ticks counted when it began.
Tick ==
    /\ isr = "no"
    /\ \E t \in {timer, until} : t # Off
    /\ wait = "busy" \/ (timer > -Late /\ until > -Late)
    /\ timer' = Age(timer) /\ until' = Age(until)
    /\ UNCHANGED <<period, wait, sem, res, isr, locked, timerstate, page, others, test, taken>>

\* MTIP, for a timeout of the test or of the kernel's own: the firmware traps
\* it and forwards it as STIP.  irq_lock clears sstatus.SIE, which does not hold
\* off M mode, and any trap drops the reservation.
MTimerTrap ==
    /\ isr = "no" /\ ~stip
    /\ stip' = TRUE /\ resv' = FALSE
    /\ dropped' = IF resv THEN TRUE ELSE dropped
    /\ UNCHANGED <<kernel, locked, timerstate, page, sc, offload, test, taken>>

\* The S-mode timer interrupt; the driver's sbi_set_timer clears STIP.
EnterIsr ==
    /\ isr = "no" /\ stip /\ ~locked
    /\ isr' = "stimer" /\ stip' = FALSE /\ resv' = FALSE
    /\ UNCHANGED <<timer, period, wait, until, sem, res, locked, timerstate, page,
                   sc, offload, dropped, test, taken>>

Waking == wait \in {"sem", "sleep"} /\ until <= 0

\* A waiting thread gets the unit at once and its timeout is aborted.
k_sem_give ==
    IF wait = "sem"
    THEN wait' = "no" /\ until' = Off /\ res' = 0 /\ taken' = taken + 1 /\ UNCHANGED sem
    ELSE sem' = Inc(sem) /\ UNCHANGED <<wait, until, res, taken>>

\* timer_expiry, called from the announcement in order of deadline; a periodic
\* timer is started again from the deadline just passed.
timer_expiry ==
    /\ isr = "stimer" /\ timer <= 0 /\ (Waking => timer <= until)
    /\ timer' = IF period = Off THEN Off ELSE timer + period
    /\ timer_count' = Inc(timer_count)
    /\ cb' = isr
    /\ k_sem_give
    /\ UNCHANGED <<period, isr, locked, page, others, test>>

\* A timed wait runs out.
WaitExpires ==
    /\ isr = "stimer" /\ Waking /\ until <= timer
    /\ res' = IF wait = "sem" THEN EAGAIN ELSE res
    /\ wait' = "no" /\ until' = Off
    /\ UNCHANGED <<timer, period, sem, isr, locked, timerstate, page, others, test, taken>>

LeaveIsr ==
    /\ isr = "stimer" /\ timer > 0 /\ ~Waking
    /\ isr' = "no"
    /\ UNCHANGED <<timer, period, wait, until, sem, res, locked, timerstate, page,
                   others, test, taken>>

\* k_busy_wait reads the clock itself and sees the end, locked or not.
BusyEnds ==
    /\ wait = "busy" /\ until <= 0 /\ isr = "no"
    /\ wait' = "no" /\ until' = Off
    /\ UNCHANGED <<timer, period, sem, res, isr, locked, timerstate, page, others, test, taken>>

-----------------------------------------------------------------------------
(***************************************************************************)
(* The tests.                                                              *)
(***************************************************************************)
\* Bug variant: no k_sem_reset.
p2_before_KeepsSem ==
    /\ timer' = Off /\ UNCHANGED sem
    /\ timer_count' = 0 /\ cb' = "none" /\ fixup' = FALSE /\ fix_count' = 0

p2_before ==
    /\ timer' = Off /\ sem' = 0
    /\ timer_count' = 0 /\ cb' = "none" /\ fixup' = FALSE /\ fix_count' = 0

Begin(t) ==
    /\ Running /\ todo = <<>>
    /\ t \notin ran /\ Cardinality(ran) < MaxTests
    /\ ran' = ran \cup {t} /\ todo' = Tests[t] /\ taken' = 0
    /\ p2_before
    /\ UNCHANGED <<period, wait, until, res, isr, locked, pteV, others, failed>>

Op == Head(todo)
At(o) == Running /\ todo # <<>> /\ Op.op = o /\ todo' = Tail(todo) /\ UNCHANGED ran

k_timer_start ==
    /\ At("start") /\ timer' = Op.d /\ period' = Op.p
    /\ UNCHANGED <<wait, until, sem, res, isr, locked, timerstate, page, others, failed, taken>>

k_timer_stop ==
    /\ At("stop") /\ timer' = Off
    /\ UNCHANGED <<period, wait, until, sem, res, isr, locked, timerstate, page, others, failed, taken>>

k_sem_take ==
    /\ At("take")
    /\ IF sem > 0
       THEN sem' = sem - 1 /\ res' = 0 /\ taken' = taken + 1 /\ UNCHANGED <<wait, until>>
       ELSE wait' = "sem" /\ until' = Op.d /\ UNCHANGED <<sem, res, taken>>
    /\ UNCHANGED <<timer, period, isr, locked, timerstate, page, others, failed>>

\* k_msleep, k_busy_wait
Delay ==
    /\ At("sleep") \/ At("busy")
    /\ wait' = Op.op /\ until' = Op.d
    /\ UNCHANGED <<timer, period, sem, res, isr, locked, timerstate, page, others, failed, taken>>

\* irq_lock, irq_unlock
IrqLock ==
    /\ At("lock") /\ locked' = Op.b
    /\ UNCHANGED <<kernel, timerstate, page, others, failed, taken>>

z_riscv_mmu_set_fault_fixup ==
    /\ At("fixup") /\ fixup' = TRUE
    /\ UNCHANGED <<kernel, locked, timerstate, pteV, fix_count, others, failed, taken>>

MapRaw ==
    /\ At("map") /\ pteV' = FALSE
    /\ UNCHANGED <<kernel, locked, timerstate, fixup, fix_count, others, failed, taken>>

LoadOk ==
    /\ pteV /\ At("load")
    /\ UNCHANGED <<kernel, locked, timerstate, page, others, failed, taken>>

\* Bug variant: returns true without having set V.
p2_fixup_NoV ==
    /\ Running /\ todo # <<>> /\ Op = Load /\ ~pteV /\ fixup
    /\ fix_count' = (fix_count + 1) % CountWrap
    /\ UNCHANGED <<kernel, locked, timerstate, fixup, pteV, others, test, taken>>

\* The load faults and the resolver repairs the PTE; the instruction is tried
\* again, after an interrupt or more.  Interrupts stay off in the handler.
p2_fixup ==
    /\ Running /\ todo # <<>> /\ Op = Load /\ ~pteV /\ fixup
    /\ pteV' = TRUE /\ fix_count' = (fix_count + 1) % CountWrap
    /\ UNCHANGED <<kernel, locked, timerstate, fixup, others, test, taken>>

IrqOffload ==
    /\ At("offload") /\ offload' = TRUE
    /\ UNCHANGED <<kernel, locked, timerstate, page, resv, sc, stip, dropped, failed, taken>>

\* lr.d and sc.d
LrSc ==
    /\ \/ At("lr") /\ resv' = TRUE /\ UNCHANGED sc
       \/ At("sc") /\ sc' = (IF resv THEN 0 ELSE 1) /\ resv' = FALSE
    /\ UNCHANGED <<kernel, locked, timerstate, page, offload, stip, dropped, failed, taken>>

Holds(c) ==
    CASE c = "taken"   -> res = 0
      [] c = "in isr"  -> cb = "stimer"
      [] c = "one"     -> timer_count = 1
      [] c = "none"    -> timer_count = 0
      [] c = "want"    -> timer_count >= Want
      [] c = "fixed"   -> pteV /\ fix_count >= 1
      [] c = "ticked"  -> timer_count > 0
      [] c = "offload" -> offload
      [] c = "sc"      -> sc = 0

\* zassert_*: a failure ends the test
Zassert ==
    /\ Running /\ todo # <<>> /\ Op.op = "check"
    /\ \/ Holds(Op.what) /\ todo' = Tail(todo) /\ UNCHANGED failed
       \/ ~Holds(Op.what) /\ todo' = <<>> /\ failed' = Op.what
    /\ UNCHANGED <<kernel, locked, timerstate, page, others, ran, taken>>

Thread ==
    \/ k_timer_start \/ k_timer_stop \/ k_sem_take \/ Delay \/ IrqLock
    \/ z_riscv_mmu_set_fault_fixup \/ MapRaw \/ LoadOk \/ p2_fixup \/ IrqOffload
    \/ LrSc \/ Zassert \/ BusyEnds
Isr == timer_expiry \/ WaitExpires \/ LeaveIsr

Due == timer <= 0 \/ Waking

Next == Tick \/ MTimerTrap \/ EnterIsr \/ Isr \/ Thread \/ \E t \in DOMAIN Tests : Begin(t)

\* The clock runs, a due interrupt is taken in M and then in S mode, handlers end, and the thread runs
\* when no interrupt does.  SF for the clock and the thread: both go on however
\* often an interrupt comes between.
Spec ==
    /\ Init /\ [][Next]_vars
    /\ SF_vars(Tick) /\ WF_vars(Due /\ MTimerTrap) /\ WF_vars(EnterIsr)
    /\ WF_vars(Isr) /\ SF_vars(Thread)

-----------------------------------------------------------------------------
\* No assertion of the interrupt tests fails, in whatever order they run and
\* however late an interrupt is delivered, up to timeouts that are overdue
\* together with the timer they wait for.  irq_lock keeps the S-mode interrupt
\* out of P3.1's LR/SC pair, and only the firmware's own timer trap, which it
\* does not hold off, can make that SC fail (p3_atomics.c:173, 181).
ZP2Sound ==
    /\ failed \in {"none", "sc"}
    /\ failed = "sc" => dropped

\* Every expiration gives one unit of timer_sem and none is lost or counted
\* twice, across waits that time out, late announcements and left-over units.
NoExpiryLost == timer_count < MaxCount => timer_count = sem + taken

\* A test that has begun ends: the fault of P2.4 is repaired for good and no
\* wait outlasts its timeout.
ZP2Ends == todo # <<>> ~> todo = <<>>
=============================================================================
