--------------------------- MODULE TrapPathProofs ---------------------------
(***************************************************************************)
(* TLAPS proofs about TrapPath, for any set of harts and any time bound,   *)
(* and about the phase P2Interrupts that runs over it: InterruptPhaseSound *)
(* at the end, whose invariant P2Inv says what holds before each of the    *)
(* operations of the phase.                                                *)
(***************************************************************************)
EXTENDS P2Interrupts, TLAPS

USE TimeAssumption, CounterAssumption, ResetAssumption, HartAssumption

\* The state every action of a hart leaves alone is grouped in tuples.
LEMMA Unchanged ==
    ASSUME UNCHANGED vars
    PROVE  /\ mtime' = mtime /\ mtimecmp' = mtimecmp /\ msip' = msip
           /\ mtie' = mtie /\ stip' = stip /\ ssip' = ssip
           /\ STIE' = STIE /\ SSIE' = SSIE /\ SIE' = SIE /\ SPIE' = SPIE
           /\ inM' = inM /\ pc' = pc /\ g_trap' = g_trap
           /\ request' = request /\ owed' = owed
BY DEF vars

\* A g_trap counter stays in its range.
LEMMA BumpType == \A n \in 0 .. CounterWrap - 1 : Bump(n) \in 0 .. CounterWrap - 1
BY DEF Bump

\* The trap path is well typed (every CSR, CLINT word and counter it writes).
THEOREM TypeCorrect == Spec => []TypeOK
<1>1. Init => TypeOK
  <2> SUFFICES ASSUME Init PROVE TypeOK
    OBVIOUS
  <2>1. mtimecmp \in [Harts -> 0 .. Never]
    BY DEF Init, Never
  <2>2. mtie \subseteq Harts
    BY BootAssumption, Zenon DEF Init
  <2>3. g_trap \in [fault_count : 0 .. CounterWrap - 1,
                    timer_irq_count : 0 .. CounterWrap - 1,
                    soft_irq_count : 0 .. CounterWrap - 1,
                    last_irq_cause : Irq \cup {"none"}]
    BY DEF Init
  <2> QED
    BY <2>1, <2>2, <2>3 DEF Init, TypeOK, Never
<1>2. TypeOK /\ [Next]_vars => TypeOK'
  <2> SUFFICES ASSUME TypeOK, [Next]_vars PROVE TypeOK'
    OBVIOUS
  <2> USE DEF TypeOK, clint, mcsr, scsr
  <2>1. CASE Tick
    BY <2>1 DEF Tick
  <2>2. ASSUME NEW h \in Harts, MMode(h) PROVE TypeOK'
    <3>1. CASE IRQ_M_SOFT_clear(h)
      BY <3>1 DEF IRQ_M_SOFT_clear
    <3>2. CASE IRQ_M_SOFT_inject(h)
      BY <3>2 DEF IRQ_M_SOFT_inject
    <3>3. CASE IRQ_M_TIMER(h)
      BY <3>3 DEF IRQ_M_TIMER, Never
    <3> QED
      BY <2>2, <3>1, <3>2, <3>3 DEF MMode
  <2>3. ASSUME NEW h \in Harts, SHandler(h) PROVE TypeOK'
    <3>1. CASE STrapSoft(h)
      BY <3>1, BumpType DEF STrapSoft, EnterS, Irq
    <3>2. CASE STrapTimer(h)
      BY <3>2, BumpType DEF STrapTimer, EnterS, Irq
    <3>3. CASE STrapSoftAck(h)
      BY <3>3 DEF STrapSoftAck, SBI_CLEAR_IPI
    <3>4. CASE STrapTimerAck(h)
      BY <3>4 DEF STrapTimerAck, SBI_SET_TIMER, Never
    <3>5. CASE SRet(h)
      BY <3>5 DEF SRet
    <3> QED
      BY <2>3, <3>1, <3>2, <3>3, <3>4, <3>5 DEF SHandler
  <2>4. ASSUME NEW h \in Harts, Client(h) PROVE TypeOK'
    <3>1. ASSUME NEW set \in BOOLEAN, SetSIE(h, set) PROVE TypeOK'
      BY <3>1 DEF SetSIE
    <3>2. ASSUME NEW irqs \in SUBSET Irq, write_sie(h, irqs) PROVE TypeOK'
      BY <3>2 DEF write_sie
    <3>3. ASSUME NEW t \in Deadline \cup {Never}, sbi_set_timer(h, t) PROVE TypeOK'
      BY <3>3 DEF sbi_set_timer, SBI_SET_TIMER, Deadline, Never
    <3>4. ASSUME NEW target \in Harts \cup {NoHart}, sbi_send_ipi(h, target)
          PROVE TypeOK'
      BY <3>4 DEF sbi_send_ipi, SBI_SEND_IPI
    <3>5. CASE sbi_clear_ipi(h)
      BY <3>5 DEF sbi_clear_ipi, SBI_CLEAR_IPI
    <3>6. CASE ReflectEcall(h)
      BY <3>6, BumpType DEF ReflectEcall
    <3> QED
      BY <2>4, <3>1, <3>2, <3>3, <3>4, <3>5, <3>6 DEF Client
  <2>5. CASE UNCHANGED vars
    BY <2>5, Unchanged
  <2> QED
    BY <2>1, <2>2, <2>3, <2>4, <2>5 DEF Next
<1> QED
  BY <1>1, <1>2, PTL DEF Spec

-----------------------------------------------------------------------------
\* The conjunct of TimerFaithful for one hart.
TimerOf(h) ==
    /\ h \in stip => /\ h \notin mtie
                     /\ mtimecmp[h] = Never
                     /\ request[h] <= mtime
    /\ h \notin stip /\ h \in mtie => mtimecmp[h] = request[h]
    /\ h \notin stip /\ h \notin mtie => request[h] = Never

\* Only five actions touch the timer; the others leave TimerOf as it is.
LEMMA TimerFrame ==
    ASSUME TimerFaithful,
           mtimecmp' = mtimecmp, mtie' = mtie, stip' = stip,
           request' = request, mtime' = mtime
    PROVE  TimerFaithful'
BY DEF TimerFaithful

\* SBI_SET_TIMER re-arms: comparator and request agree, STIP is gone.
LEMMA SetTimerFaithful ==
    ASSUME TypeOK, TimerFaithful, NEW h \in Harts, NEW t \in 0 .. Never,
           SBI_SET_TIMER(h, t), mtime' = mtime
    PROVE  TimerFaithful'
<1> SUFFICES ASSUME NEW k \in Harts PROVE TimerOf(k)'
  BY DEF TimerFaithful, TimerOf
<1>1. CASE k = h
  BY <1>1 DEF SBI_SET_TIMER, TypeOK, TimerOf
<1>2. CASE k # h
  BY <1>2 DEF SBI_SET_TIMER, TypeOK, TimerOf, TimerFaithful
<1> QED
  BY <1>1, <1>2

\* With MTIE clear at boot, the S-mode timer is one-shot and faithful on
\* every hart: STIP is pending only for a requested deadline that has passed.
THEOREM TimerIsFaithful ==
    ASSUME BootMTIE = FALSE
    PROVE  Spec => []TimerFaithful
<1>1. Init => TimerFaithful
  BY DEF Init, TimerFaithful
<1>2. TypeOK /\ TimerFaithful /\ [Next]_vars => TimerFaithful'
  <2> SUFFICES ASSUME TypeOK, TimerFaithful, [Next]_vars PROVE TimerFaithful'
    OBVIOUS
  <2> USE DEF clint, mcsr, scsr
  <2>1. CASE Tick
    BY <2>1 DEF Tick, TimerFaithful, TypeOK, Never
  <2>2. ASSUME NEW h \in Harts, MMode(h) PROVE TimerFaithful'
    <3>1. CASE IRQ_M_SOFT_clear(h)
      BY <3>1, TimerFrame DEF IRQ_M_SOFT_clear
    <3>2. CASE IRQ_M_SOFT_inject(h)
      BY <3>2, TimerFrame DEF IRQ_M_SOFT_inject
    <3>3. CASE IRQ_M_TIMER(h)
      <4> SUFFICES ASSUME NEW k \in Harts PROVE TimerOf(k)'
        BY DEF TimerFaithful, TimerOf
      <4>1. CASE k = h
        \* h was armed, hence not pending: the comparator held the request.
        BY <3>3, <4>1
           DEF IRQ_M_TIMER, MTimerTakeable, TypeOK, TimerOf, TimerFaithful
      <4>2. CASE k # h
        BY <3>3, <4>2 DEF IRQ_M_TIMER, TypeOK, TimerOf, TimerFaithful
      <4> QED
        BY <4>1, <4>2
    <3> QED
      BY <2>2, <3>1, <3>2, <3>3 DEF MMode
  <2>3. ASSUME NEW h \in Harts, SHandler(h) PROVE TimerFaithful'
    <3>1. CASE STrapSoft(h) \/ STrapTimer(h) \/ STrapSoftAck(h) \/ SRet(h)
      BY <3>1, TimerFrame DEF STrapSoft, STrapTimer, STrapSoftAck, SRet
    <3>2. CASE STrapTimerAck(h)
      BY <3>2, SetTimerFaithful DEF STrapTimerAck, Never
    <3> QED
      BY <2>3, <3>1, <3>2 DEF SHandler
  <2>4. ASSUME NEW h \in Harts, Client(h) PROVE TimerFaithful'
    <3>1. ASSUME NEW set \in BOOLEAN, SetSIE(h, set) PROVE TimerFaithful'
      BY <3>1, TimerFrame DEF SetSIE
    <3>2. ASSUME NEW irqs \in SUBSET Irq, write_sie(h, irqs) PROVE TimerFaithful'
      BY <3>2, TimerFrame DEF write_sie
    <3>3. ASSUME NEW t \in Deadline \cup {Never}, sbi_set_timer(h, t)
          PROVE TimerFaithful'
      BY <3>3, SetTimerFaithful DEF sbi_set_timer, Deadline, Never
    <3>4. ASSUME NEW target \in Harts \cup {NoHart}, sbi_send_ipi(h, target)
          PROVE TimerFaithful'
      BY <3>4, TimerFrame DEF sbi_send_ipi
    <3>5. CASE sbi_clear_ipi(h) \/ ReflectEcall(h)
      BY <3>5, TimerFrame DEF sbi_clear_ipi, ReflectEcall
    <3> QED
      BY <2>4, <3>1, <3>2, <3>3, <3>4, <3>5 DEF Client
  <2>5. CASE UNCHANGED vars
    BY <2>5, Unchanged, TimerFrame
  <2> QED
    BY <2>1, <2>2, <2>3, <2>4, <2>5 DEF Next
<1> QED
  BY <1>1, <1>2, TypeCorrect, PTL DEF Spec

-----------------------------------------------------------------------------
\* No IPI is lost between the CLINT and SSIP, for any number of harts sending
\* to each other: IpiNotLost is inductive.
THEOREM IpiIsNotLost == Spec => []IpiNotLost
<1>1. Init => IpiNotLost
  BY DEF Init, IpiNotLost
<1>2. IpiNotLost /\ [Next]_vars => IpiNotLost'
  <2> SUFFICES ASSUME IpiNotLost, [Next]_vars PROVE IpiNotLost'
    OBVIOUS
  <2> USE DEF IpiNotLost, clint, mcsr, scsr
  <2>1. CASE Tick
    BY <2>1 DEF Tick
  <2>2. ASSUME NEW h \in Harts, MMode(h) PROVE IpiNotLost'
    BY <2>2 DEF MMode, IRQ_M_SOFT_clear, IRQ_M_SOFT_inject, IRQ_M_TIMER
  <2>3. ASSUME NEW h \in Harts, SHandler(h) PROVE IpiNotLost'
    BY <2>3 DEF SHandler, STrapSoft, STrapTimer, STrapSoftAck, STrapTimerAck,
                SRet, SBI_CLEAR_IPI
  <2>4. ASSUME NEW h \in Harts, Client(h) PROVE IpiNotLost'
    BY <2>4 DEF Client, SetSIE, write_sie, sbi_set_timer, sbi_send_ipi,
                sbi_clear_ipi, ReflectEcall, SBI_SEND_IPI, SBI_CLEAR_IPI
  <2>5. CASE UNCHANGED vars
    BY <2>5, Unchanged
  <2> QED
    BY <2>1, <2>2, <2>3, <2>4, <2>5 DEF Next
<1> QED
  BY <1>1, <1>2, PTL DEF Spec

\* s_trap_handler is never re-entered on a hart, and an interrupt gives SIE
\* back to the code it interrupted.
THEOREM HandlerIsMasked == Spec => []HandlerMasked
<1>1. Init => HandlerMasked
  BY DEF Init, HandlerMasked
<1>2. TypeOK /\ HandlerMasked /\ [Next]_vars => HandlerMasked'
  <2> SUFFICES ASSUME TypeOK, HandlerMasked, [Next]_vars PROVE HandlerMasked'
    OBVIOUS
  <2> USE DEF TypeOK, HandlerMasked, clint, mcsr, scsr
  <2>1. CASE Tick
    BY <2>1 DEF Tick
  <2>2. ASSUME NEW h \in Harts, MMode(h) PROVE HandlerMasked'
    BY <2>2 DEF MMode, IRQ_M_SOFT_clear, IRQ_M_SOFT_inject, IRQ_M_TIMER
  <2>3. ASSUME NEW h \in Harts, SHandler(h) PROVE HandlerMasked'
    <3>1. CASE STrapSoft(h) \/ STrapTimer(h)
      BY <3>1 DEF STrapSoft, STrapTimer, EnterS, SSoftTakeable, STimerTakeable
    <3>2. CASE STrapSoftAck(h) \/ STrapTimerAck(h)
      BY <3>2 DEF STrapSoftAck, STrapTimerAck
    <3>3. CASE SRet(h)
      BY <3>3 DEF SRet
    <3> QED
      BY <2>3, <3>1, <3>2, <3>3 DEF SHandler
  <2>4. ASSUME NEW h \in Harts, Client(h) PROVE HandlerMasked'
    BY <2>4 DEF Client, SetSIE, write_sie, sbi_set_timer, sbi_send_ipi,
                sbi_clear_ipi, ReflectEcall, InThread
  <2>5. CASE UNCHANGED vars
    BY <2>5, Unchanged
  <2> QED
    BY <2>1, <2>2, <2>3, <2>4, <2>5 DEF Next
<1> QED
  BY <1>1, <1>2, TypeCorrect, PTL DEF Spec

-----------------------------------------------------------------------------
(***************************************************************************)
(* The interrupt phase P2 over the trap path.  The invariant says, for     *)
(* each of the 73 operations of the phase, what holds before it: which     *)
(* interrupt is due, what the counters say, what is masked.                *)
(***************************************************************************)
\* The timer interrupt, or the IPI, that was asked for and is not counted yet.
TimerDue == request[Core0] # Never /\ pc[Core0] # "s_timer"
SoftDue == Core0 \in owed /\ pc[Core0] # "s_soft"

\* The counts of the two since they were last reset, with what is due.
TimerSum(n) == g_trap.timer_irq_count = IF TimerDue THEN n - 1 ELSE n
SoftSum(n) == g_trap.soft_irq_count = IF SoftDue THEN n - 1 ELSE n
FaultSum(n) == g_trap.fault_count = IF TimerDue THEN n - 1 ELSE n

\* Between clear_csr(sstatus, SIE) and set_csr(sstatus, SIE).
Off == pc[Core0] = "thread" /\ Core0 \notin SIE

\* What holds when the phase stands before operation i.
OffPlaces ==
    1 .. 3 \cup 7 .. 12 \cup 16 .. 21 \cup 32 .. 36 \cup 41 .. 49 \cup 52 .. 55 \cup 63 .. 71
        \cup 73 .. 74
NoSoftPlaces == 1 .. 13 \cup 17 .. 46 \cup 53 .. 74
NoTimerPlaces ==
    1 .. 4 \cup 8 .. 22 \cup {25, 28} \cup 31 .. 37 \cup 64 .. 67 \cup 73 .. 74

Masks(i) ==
    /\ i \in OffPlaces => Off
    /\ i \in 55 .. 60 => Core0 \notin STIE
    /\ i \in 66 .. 72 => Core0 \in STIE

Dues(i) ==
    /\ i \in NoSoftPlaces => ~SoftDue
    /\ i \in 47 .. 49 => SoftDue
    /\ i \in {15, 16, 51, 52} /\ timedOut = FALSE => ~SoftDue
    /\ i \in NoTimerPlaces => ~TimerDue
    /\ i \in 57 .. 60 \cup 68 .. 71 => TimerDue
    /\ i \in {6, 7, 24, 27, 30, 62, 63} /\ timedOut = FALSE => ~TimerDue
    /\ i = 69 /\ wokeEarly = FALSE => Core0 \in stip
    /\ i \in 70 .. 71 => Core0 \in stip
    /\ i = 72 /\ TimerDue => pc[Core0] = "thread" /\ Core0 \in SIE \cap stip

Counts(i) ==
    /\ i \in 2 .. 4 \cup 20 .. 22 \cup 65 .. 67 => TimerSum(0)
    /\ i \in 5 .. 9 \cup 23 .. 25 \cup 57 .. 63 \cup 68 .. 73 => TimerSum(1)
    /\ i \in 26 .. 28 => TimerSum(2)
    /\ i \in 29 .. 32 => TimerSum(3)
    /\ i \in 54 .. 56 => g_trap.timer_irq_count = 0
    /\ i \in 11 .. 13 \cup 44 .. 46 => SoftSum(0)
    /\ i \in 14 .. 18 \cup 47 .. 52 => SoftSum(1)
    /\ i \in 5 .. 9 /\ ~TimerDue => g_trap.last_irq_cause = "timer"
    /\ i \in 14 .. 18 /\ ~SoftDue => g_trap.last_irq_cause = "soft"

Faulting(i) ==
    /\ i \in 34 .. 37 => FaultSum(0)
    /\ i \in 35 .. 37 => va_valid = FALSE
    /\ i = 38 => IF va_valid = TRUE \/ pc[Core0] = "s_fault" THEN FaultSum(2) ELSE FaultSum(1)
    /\ i \in 39 .. 42 => FaultSum(2)
    /\ i \in 35 .. 38 => page = "DEAD0004"
    /\ i \in 39 .. 42 => val = "DEAD0004"

Place(i) == Masks(i) /\ Dues(i) /\ Counts(i) /\ Faulting(i)

\* The hart and its timer, as in TrapPath.  The other harts never run.
Hart ==
    /\ mtime \in 0 .. MaxTime
    /\ mtimecmp \in [Harts -> 0 .. Never] /\ request \in [Harts -> 0 .. Never]
    /\ pc \in [Harts -> {"thread", "s_soft", "s_timer", "s_ret", "s_fault"}]
    /\ \A h \in Harts : h # Core0 => pc[h] = "thread"
    /\ SIE \subseteq {Core0} /\ mtie \subseteq {Core0} /\ stip \subseteq {Core0}
    /\ owed \subseteq {Core0} /\ msip \subseteq owed /\ inM \subseteq owed /\ ssip \subseteq owed
    /\ pc[Core0] # "thread" => Core0 \notin SIE
GTrap ==
    g_trap \in [fault_count : 0 .. CounterWrap - 1, timer_irq_count : 0 .. CounterWrap - 1,
                soft_irq_count : 0 .. CounterWrap - 1, last_irq_cause : Irq \cup {"none"}]
Script ==
    /\ ip \in 1 .. 74 /\ running \in BOOLEAN /\ timedOut \in BOOLEAN /\ wokeEarly \in BOOLEAN
    /\ pc[Core0] = "s_fault" => ip = 38
Base == Hart /\ GTrap /\ TimerFaithful /\ Script

P2Inv ==
    /\ Base /\ P2Sound
    /\ running = TRUE => code = 0 /\ Place(ip)

-----------------------------------------------------------------------------
(***************************************************************************)
(* The program.                                                            *)
(***************************************************************************)
\* A sequence of length n.
LEMMA IsSequence ==
    ASSUME NEW S, NEW n \in Nat, NEW f, f \in [1 .. n -> S]
    PROVE  f \in Seq(S) /\ Len(f) = n
OBVIOUS

\* Its elements may be taken from a larger set.
LEMMA Wider ==
    ASSUME NEW S, NEW T, S \subseteq T, NEW f \in Seq(S)
    PROVE  f \in Seq(T)
OBVIOUS

\* u is s followed by t.
Follows(u, s, t) ==
    /\ Len(u) = Len(s) + Len(t)
    /\ \A i \in 1 .. Len(s) : u[i] = s[i]
    /\ \A i \in 1 .. Len(t) : u[Len(s) + i] = t[i]

\* Concatenation, element by element.
LEMMA Concatenation ==
    ASSUME NEW S, NEW s, NEW t, NEW u, s \in Seq(S), t \in Seq(S), u = s \o t
    PROVE  u \in Seq(S) /\ Follows(u, s, t)
<1>1. s \o t \in Seq(S) /\ Follows(s \o t, s, t)
  BY DEF Follows
<1> QED
  BY <1>1, Zenon

\* The assertions on a Boolean.
InTime(c) == Eq("timeout", FALSE, c)
IsPending(c) == Eq("STIP", TRUE, c)
Faulted(c) == Eq("faulted", TRUE, c)

\* The parts of the program, one after the other.
LEMMA Parts ==
    /\ Len(Program) = 73
    /\ \A i \in 1 .. 9 : Program[i] = P2_1[i]
    /\ \A i \in 1 .. 9 : Program[9 + i] = P2_2[i]
    /\ \A i \in 1 .. 14 : Program[18 + i] = P2_3[i]
    /\ \A i \in 1 .. 10 : Program[32 + i] = P2_4[i]
    /\ \A i \in 1 .. 10 : Program[42 + i] = P2_5[i]
    /\ \A i \in 1 .. 11 : Program[52 + i] = P2_6[i]
    /\ \A i \in 1 .. 10 : Program[63 + i] = P2_7[i]
<1> DEFINE S == {P2_1[i] : i \in 1 .. 9}
               \cup {P2_2[i] : i \in 1 .. 9}
               \cup {P2_3[i] : i \in 1 .. 14}
               \cup {P2_4[i] : i \in 1 .. 10}
               \cup {P2_5[i] : i \in 1 .. 10}
               \cup {P2_6[i] : i \in 1 .. 11}
               \cup {P2_7[i] : i \in 1 .. 10}
<1>1. P2_1 \in Seq(S) /\ Len(P2_1) = 9
  <2>1. P2_1 \in [1 .. 9 -> {P2_1[i] : i \in 1 .. 9}] /\ 9 \in Nat
    BY DEF P2_1
  <2>2. P2_1 \in Seq({P2_1[i] : i \in 1 .. 9}) /\ Len(P2_1) = 9
    BY <2>1, IsSequence, Zenon
  <2>3. {P2_1[i] : i \in 1 .. 9} \subseteq S
    OBVIOUS
  <2> HIDE DEF S
  <2> QED
    BY <2>2, <2>3, Wider
<1>2. P2_2 \in Seq(S) /\ Len(P2_2) = 9
  <2>1. P2_2 \in [1 .. 9 -> {P2_2[i] : i \in 1 .. 9}] /\ 9 \in Nat
    BY DEF P2_2
  <2>2. P2_2 \in Seq({P2_2[i] : i \in 1 .. 9}) /\ Len(P2_2) = 9
    BY <2>1, IsSequence, Zenon
  <2>3. {P2_2[i] : i \in 1 .. 9} \subseteq S
    OBVIOUS
  <2> HIDE DEF S
  <2> QED
    BY <2>2, <2>3, Wider
<1>3. P2_3 \in Seq(S) /\ Len(P2_3) = 14
  <2>1. P2_3 \in [1 .. 14 -> {P2_3[i] : i \in 1 .. 14}] /\ 14 \in Nat
    BY DEF P2_3
  <2>2. P2_3 \in Seq({P2_3[i] : i \in 1 .. 14}) /\ Len(P2_3) = 14
    BY <2>1, IsSequence, Zenon
  <2>3. {P2_3[i] : i \in 1 .. 14} \subseteq S
    OBVIOUS
  <2> HIDE DEF S
  <2> QED
    BY <2>2, <2>3, Wider
<1>4. P2_4 \in Seq(S) /\ Len(P2_4) = 10
  <2>1. P2_4 \in [1 .. 10 -> {P2_4[i] : i \in 1 .. 10}] /\ 10 \in Nat
    BY DEF P2_4
  <2>2. P2_4 \in Seq({P2_4[i] : i \in 1 .. 10}) /\ Len(P2_4) = 10
    BY <2>1, IsSequence, Zenon
  <2>3. {P2_4[i] : i \in 1 .. 10} \subseteq S
    OBVIOUS
  <2> HIDE DEF S
  <2> QED
    BY <2>2, <2>3, Wider
<1>5. P2_5 \in Seq(S) /\ Len(P2_5) = 10
  <2>1. P2_5 \in [1 .. 10 -> {P2_5[i] : i \in 1 .. 10}] /\ 10 \in Nat
    BY DEF P2_5
  <2>2. P2_5 \in Seq({P2_5[i] : i \in 1 .. 10}) /\ Len(P2_5) = 10
    BY <2>1, IsSequence, Zenon
  <2>3. {P2_5[i] : i \in 1 .. 10} \subseteq S
    OBVIOUS
  <2> HIDE DEF S
  <2> QED
    BY <2>2, <2>3, Wider
<1>6. P2_6 \in Seq(S) /\ Len(P2_6) = 11
  <2>1. P2_6 \in [1 .. 11 -> {P2_6[i] : i \in 1 .. 11}] /\ 11 \in Nat
    BY DEF P2_6
  <2>2. P2_6 \in Seq({P2_6[i] : i \in 1 .. 11}) /\ Len(P2_6) = 11
    BY <2>1, IsSequence, Zenon
  <2>3. {P2_6[i] : i \in 1 .. 11} \subseteq S
    OBVIOUS
  <2> HIDE DEF S
  <2> QED
    BY <2>2, <2>3, Wider
<1>7. P2_7 \in Seq(S) /\ Len(P2_7) = 10
  <2>1. P2_7 \in [1 .. 10 -> {P2_7[i] : i \in 1 .. 10}] /\ 10 \in Nat
    BY DEF P2_7
  <2>2. P2_7 \in Seq({P2_7[i] : i \in 1 .. 10}) /\ Len(P2_7) = 10
    BY <2>1, IsSequence, Zenon
  <2>3. {P2_7[i] : i \in 1 .. 10} \subseteq S
    OBVIOUS
  <2> HIDE DEF S
  <2> QED
    BY <2>2, <2>3, Wider
<1> HIDE DEF S
<1> DEFINE C2 == P2_1 \o P2_2
           C3 == C2 \o P2_3
           C4 == C3 \o P2_4
           C5 == C4 \o P2_5
           C6 == C5 \o P2_6
           C7 == C6 \o P2_7
<1>8. Program = C7
  BY DEF Program
<1>9. C2 = P2_1 \o P2_2 /\ C3 = C2 \o P2_3 /\ C4 = C3 \o P2_4
        /\ C5 = C4 \o P2_5 /\ C6 = C5 \o P2_6 /\ C7 = C6 \o P2_7
  OBVIOUS
<1> HIDE DEF C2, C3, C4, C5, C6, C7
<1>10. C2 \in Seq(S) /\ Follows(C2, P2_1, P2_2)
  <2>1. P2_1 \in Seq(S) /\ P2_2 \in Seq(S) /\ C2 = P2_1 \o P2_2
    BY <1>1, <1>2, <1>9
  <2> QED
    BY <2>1, Concatenation, Zenon
<1>11. Len(C2) = 18
  <2>1. Len(C2) = Len(P2_1) + Len(P2_2) /\ Len(P2_1) = 9 /\ Len(P2_2) = 9
    BY <1>10, <1>2, <1>1 DEF Follows
  <2> QED
    BY <2>1
<1>12. C3 \in Seq(S) /\ Follows(C3, C2, P2_3)
  <2>1. C2 \in Seq(S) /\ P2_3 \in Seq(S) /\ C3 = C2 \o P2_3
    BY <1>10, <1>3, <1>9
  <2> QED
    BY <2>1, Concatenation, Zenon
<1>13. Len(C3) = 32
  <2>1. Len(C3) = Len(C2) + Len(P2_3) /\ Len(C2) = 18 /\ Len(P2_3) = 14
    BY <1>12, <1>3, <1>11 DEF Follows
  <2> QED
    BY <2>1
<1>14. C4 \in Seq(S) /\ Follows(C4, C3, P2_4)
  <2>1. C3 \in Seq(S) /\ P2_4 \in Seq(S) /\ C4 = C3 \o P2_4
    BY <1>12, <1>4, <1>9
  <2> QED
    BY <2>1, Concatenation, Zenon
<1>15. Len(C4) = 42
  <2>1. Len(C4) = Len(C3) + Len(P2_4) /\ Len(C3) = 32 /\ Len(P2_4) = 10
    BY <1>14, <1>4, <1>13 DEF Follows
  <2> QED
    BY <2>1
<1>16. C5 \in Seq(S) /\ Follows(C5, C4, P2_5)
  <2>1. C4 \in Seq(S) /\ P2_5 \in Seq(S) /\ C5 = C4 \o P2_5
    BY <1>14, <1>5, <1>9
  <2> QED
    BY <2>1, Concatenation, Zenon
<1>17. Len(C5) = 52
  <2>1. Len(C5) = Len(C4) + Len(P2_5) /\ Len(C4) = 42 /\ Len(P2_5) = 10
    BY <1>16, <1>5, <1>15 DEF Follows
  <2> QED
    BY <2>1
<1>18. C6 \in Seq(S) /\ Follows(C6, C5, P2_6)
  <2>1. C5 \in Seq(S) /\ P2_6 \in Seq(S) /\ C6 = C5 \o P2_6
    BY <1>16, <1>6, <1>9
  <2> QED
    BY <2>1, Concatenation, Zenon
<1>19. Len(C6) = 63
  <2>1. Len(C6) = Len(C5) + Len(P2_6) /\ Len(C5) = 52 /\ Len(P2_6) = 11
    BY <1>18, <1>6, <1>17 DEF Follows
  <2> QED
    BY <2>1
<1>20. C7 \in Seq(S) /\ Follows(C7, C6, P2_7)
  <2>1. C6 \in Seq(S) /\ P2_7 \in Seq(S) /\ C7 = C6 \o P2_7
    BY <1>18, <1>7, <1>9
  <2> QED
    BY <2>1, Concatenation, Zenon
<1>21. Len(C7) = 73
  <2>1. Len(C7) = Len(C6) + Len(P2_7) /\ Len(C6) = 63 /\ Len(P2_7) = 10
    BY <1>20, <1>7, <1>19 DEF Follows
  <2> QED
    BY <2>1
<1>22. \A i \in 1 .. 9 : C2[i] = P2_1[i]
  <2>1. Len(P2_1) = 9
    BY <1>1
  <2>2. \A i \in 1 .. Len(P2_1) : C2[i] = P2_1[i]
    BY <1>10 DEF Follows
  <2> QED
    BY <2>1, <2>2
<1>23. \A i \in 1 .. 9 : C2[9 + i] = P2_2[i]
  <2>1. Len(P2_1) = 9 /\ Len(P2_2) = 9
    BY <1>1, <1>2
  <2>2. \A i \in 1 .. Len(P2_2) : C2[Len(P2_1) + i] = P2_2[i]
    BY <1>10 DEF Follows
  <2> QED
    BY <2>1, <2>2
<1>24. \A i \in 1 .. 18 : C3[i] = C2[i]
  <2>1. Len(C2) = 18
    BY <1>11
  <2>2. \A i \in 1 .. Len(C2) : C3[i] = C2[i]
    BY <1>12 DEF Follows
  <2> QED
    BY <2>1, <2>2
<1>25. \A i \in 1 .. 14 : C3[18 + i] = P2_3[i]
  <2>1. Len(C2) = 18 /\ Len(P2_3) = 14
    BY <1>11, <1>3
  <2>2. \A i \in 1 .. Len(P2_3) : C3[Len(C2) + i] = P2_3[i]
    BY <1>12 DEF Follows
  <2> QED
    BY <2>1, <2>2
<1>26. \A i \in 1 .. 32 : C4[i] = C3[i]
  <2>1. Len(C3) = 32
    BY <1>13
  <2>2. \A i \in 1 .. Len(C3) : C4[i] = C3[i]
    BY <1>14 DEF Follows
  <2> QED
    BY <2>1, <2>2
<1>27. \A i \in 1 .. 10 : C4[32 + i] = P2_4[i]
  <2>1. Len(C3) = 32 /\ Len(P2_4) = 10
    BY <1>13, <1>4
  <2>2. \A i \in 1 .. Len(P2_4) : C4[Len(C3) + i] = P2_4[i]
    BY <1>14 DEF Follows
  <2> QED
    BY <2>1, <2>2
<1>28. \A i \in 1 .. 42 : C5[i] = C4[i]
  <2>1. Len(C4) = 42
    BY <1>15
  <2>2. \A i \in 1 .. Len(C4) : C5[i] = C4[i]
    BY <1>16 DEF Follows
  <2> QED
    BY <2>1, <2>2
<1>29. \A i \in 1 .. 10 : C5[42 + i] = P2_5[i]
  <2>1. Len(C4) = 42 /\ Len(P2_5) = 10
    BY <1>15, <1>5
  <2>2. \A i \in 1 .. Len(P2_5) : C5[Len(C4) + i] = P2_5[i]
    BY <1>16 DEF Follows
  <2> QED
    BY <2>1, <2>2
<1>30. \A i \in 1 .. 52 : C6[i] = C5[i]
  <2>1. Len(C5) = 52
    BY <1>17
  <2>2. \A i \in 1 .. Len(C5) : C6[i] = C5[i]
    BY <1>18 DEF Follows
  <2> QED
    BY <2>1, <2>2
<1>31. \A i \in 1 .. 11 : C6[52 + i] = P2_6[i]
  <2>1. Len(C5) = 52 /\ Len(P2_6) = 11
    BY <1>17, <1>6
  <2>2. \A i \in 1 .. Len(P2_6) : C6[Len(C5) + i] = P2_6[i]
    BY <1>18 DEF Follows
  <2> QED
    BY <2>1, <2>2
<1>32. \A i \in 1 .. 63 : C7[i] = C6[i]
  <2>1. Len(C6) = 63
    BY <1>19
  <2>2. \A i \in 1 .. Len(C6) : C7[i] = C6[i]
    BY <1>20 DEF Follows
  <2> QED
    BY <2>1, <2>2
<1>33. \A i \in 1 .. 10 : C7[63 + i] = P2_7[i]
  <2>1. Len(C6) = 63 /\ Len(P2_7) = 10
    BY <1>19, <1>7
  <2>2. \A i \in 1 .. Len(P2_7) : C7[Len(C6) + i] = P2_7[i]
    BY <1>20 DEF Follows
  <2> QED
    BY <2>1, <2>2
<1>34. Len(Program) = 73
  BY <1>8, <1>21
<1>35. \A i \in 1 .. 10 : Program[63 + i] = P2_7[i]
  BY <1>8, <1>33
<1>36. \A i \in 1 .. 63 : Program[i] = C6[i]
  BY <1>8, <1>32
<1>37. \A i \in 1 .. 11 : Program[52 + i] = P2_6[i]
  <2>1. \A i \in 1 .. 11 : 52 + i \in 1 .. 63
    OBVIOUS
  <2> QED
    BY <2>1, <1>36, <1>31
<1>38. \A i \in 1 .. 52 : Program[i] = C5[i]
  <2>1. \A i \in 1 .. 52 : i \in 1 .. 63
    OBVIOUS
  <2> QED
    BY <2>1, <1>36, <1>30
<1>39. \A i \in 1 .. 10 : Program[42 + i] = P2_5[i]
  <2>1. \A i \in 1 .. 10 : 42 + i \in 1 .. 52
    OBVIOUS
  <2> QED
    BY <2>1, <1>38, <1>29
<1>40. \A i \in 1 .. 42 : Program[i] = C4[i]
  <2>1. \A i \in 1 .. 42 : i \in 1 .. 52
    OBVIOUS
  <2> QED
    BY <2>1, <1>38, <1>28
<1>41. \A i \in 1 .. 10 : Program[32 + i] = P2_4[i]
  <2>1. \A i \in 1 .. 10 : 32 + i \in 1 .. 42
    OBVIOUS
  <2> QED
    BY <2>1, <1>40, <1>27
<1>42. \A i \in 1 .. 32 : Program[i] = C3[i]
  <2>1. \A i \in 1 .. 32 : i \in 1 .. 42
    OBVIOUS
  <2> QED
    BY <2>1, <1>40, <1>26
<1>43. \A i \in 1 .. 14 : Program[18 + i] = P2_3[i]
  <2>1. \A i \in 1 .. 14 : 18 + i \in 1 .. 32
    OBVIOUS
  <2> QED
    BY <2>1, <1>42, <1>25
<1>44. \A i \in 1 .. 18 : Program[i] = C2[i]
  <2>1. \A i \in 1 .. 18 : i \in 1 .. 32
    OBVIOUS
  <2> QED
    BY <2>1, <1>42, <1>24
<1>45. \A i \in 1 .. 9 : Program[9 + i] = P2_2[i]
  <2>1. \A i \in 1 .. 9 : 9 + i \in 1 .. 18
    OBVIOUS
  <2> QED
    BY <2>1, <1>44, <1>23
<1>46. \A i \in 1 .. 9 : Program[i] = P2_1[i]
  <2>1. \A i \in 1 .. 9 : i \in 1 .. 18
    OBVIOUS
  <2> QED
    BY <2>1, <1>44, <1>22
<1> QED
  BY <1>34, <1>35, <1>37, <1>39, <1>41, <1>43, <1>45, <1>46

\* The operations by their place.
LEMMA Ops2_1 ==
    /\ Program[1] = Reset({"fault_count", "timer_irq_count"})
    /\ Program[2] = EnableIrq("timer")
    /\ Program[3] = EnableS
    /\ Program[4] = Arm
    /\ Program[5] = Spin("timer_irq_count", 1)
    /\ Program[6] = DisableS
    /\ Program[7] = InTime(600)
    /\ Program[8] = Eq("timer_irq_count", 1, 601)
    /\ Program[9] = Eq("last_irq_cause", "timer", 602)
<1>1. /\ P2_1[1] = Reset({"fault_count", "timer_irq_count"})
      /\ P2_1[2] = EnableIrq("timer")
      /\ P2_1[3] = EnableS
      /\ P2_1[4] = Arm
      /\ P2_1[5] = Spin("timer_irq_count", 1)
      /\ P2_1[6] = DisableS
      /\ P2_1[7] = InTime(600)
      /\ P2_1[8] = Eq("timer_irq_count", 1, 601)
      /\ P2_1[9] = Eq("last_irq_cause", "timer", 602)
  BY DEF P2_1, InTime, IsPending, Faulted
<1>2. /\ Program[1] = P2_1[1]
      /\ Program[2] = P2_1[2]
      /\ Program[3] = P2_1[3]
      /\ Program[4] = P2_1[4]
      /\ Program[5] = P2_1[5]
      /\ Program[6] = P2_1[6]
      /\ Program[7] = P2_1[7]
      /\ Program[8] = P2_1[8]
      /\ Program[9] = P2_1[9]
  BY Parts
<1> QED
  BY <1>1, <1>2

\* Those of part 2.
LEMMA Ops2_2 ==
    /\ Program[10] = Reset({"soft_irq_count"})
    /\ Program[11] = EnableIrq("soft")
    /\ Program[12] = EnableS
    /\ Program[13] = SelfIpi
    /\ Program[14] = Spin("soft_irq_count", 1)
    /\ Program[15] = DisableS
    /\ Program[16] = InTime(610)
    /\ Program[17] = Eq("soft_irq_count", 1, 611)
    /\ Program[18] = Eq("last_irq_cause", "soft", 612)
<1>1. /\ P2_2[1] = Reset({"soft_irq_count"})
      /\ P2_2[2] = EnableIrq("soft")
      /\ P2_2[3] = EnableS
      /\ P2_2[4] = SelfIpi
      /\ P2_2[5] = Spin("soft_irq_count", 1)
      /\ P2_2[6] = DisableS
      /\ P2_2[7] = InTime(610)
      /\ P2_2[8] = Eq("soft_irq_count", 1, 611)
      /\ P2_2[9] = Eq("last_irq_cause", "soft", 612)
  BY DEF P2_2, InTime, IsPending, Faulted
<1>2. /\ Program[9 + 1] = P2_2[1] /\ 9 + 1 = 10
      /\ Program[9 + 2] = P2_2[2] /\ 9 + 2 = 11
      /\ Program[9 + 3] = P2_2[3] /\ 9 + 3 = 12
      /\ Program[9 + 4] = P2_2[4] /\ 9 + 4 = 13
      /\ Program[9 + 5] = P2_2[5] /\ 9 + 5 = 14
      /\ Program[9 + 6] = P2_2[6] /\ 9 + 6 = 15
      /\ Program[9 + 7] = P2_2[7] /\ 9 + 7 = 16
      /\ Program[9 + 8] = P2_2[8] /\ 9 + 8 = 17
      /\ Program[9 + 9] = P2_2[9] /\ 9 + 9 = 18
  BY Parts
<1>3. /\ Program[10] = P2_2[1]
      /\ Program[11] = P2_2[2]
      /\ Program[12] = P2_2[3]
      /\ Program[13] = P2_2[4]
      /\ Program[14] = P2_2[5]
      /\ Program[15] = P2_2[6]
      /\ Program[16] = P2_2[7]
      /\ Program[17] = P2_2[8]
      /\ Program[18] = P2_2[9]
  BY <1>2
<1> QED
  BY <1>1, <1>3

\* Those of part 3.
LEMMA Ops2_3 ==
    /\ Program[19] = Reset({"timer_irq_count"})
    /\ Program[20] = EnableIrq("timer")
    /\ Program[21] = EnableS
    /\ Program[22] = Arm
    /\ Program[23] = Spin("timer_irq_count", 1)
    /\ Program[24] = InTime(620)
    /\ Program[25] = Arm
    /\ Program[26] = Spin("timer_irq_count", 2)
    /\ Program[27] = InTime(621)
    /\ Program[28] = Arm
    /\ Program[29] = Spin("timer_irq_count", 3)
    /\ Program[30] = InTime(622)
    /\ Program[31] = DisableS
    /\ Program[32] = Eq("timer_irq_count", 3, 625)
<1>1. /\ P2_3[1] = Reset({"timer_irq_count"})
      /\ P2_3[2] = EnableIrq("timer")
      /\ P2_3[3] = EnableS
      /\ P2_3[4] = Arm
      /\ P2_3[5] = Spin("timer_irq_count", 1)
      /\ P2_3[6] = InTime(620)
      /\ P2_3[7] = Arm
      /\ P2_3[8] = Spin("timer_irq_count", 2)
      /\ P2_3[9] = InTime(621)
      /\ P2_3[10] = Arm
      /\ P2_3[11] = Spin("timer_irq_count", 3)
      /\ P2_3[12] = InTime(622)
      /\ P2_3[13] = DisableS
      /\ P2_3[14] = Eq("timer_irq_count", 3, 625)
  BY DEF P2_3, InTime, IsPending, Faulted
<1>2. /\ Program[18 + 1] = P2_3[1] /\ 18 + 1 = 19
      /\ Program[18 + 2] = P2_3[2] /\ 18 + 2 = 20
      /\ Program[18 + 3] = P2_3[3] /\ 18 + 3 = 21
      /\ Program[18 + 4] = P2_3[4] /\ 18 + 4 = 22
      /\ Program[18 + 5] = P2_3[5] /\ 18 + 5 = 23
      /\ Program[18 + 6] = P2_3[6] /\ 18 + 6 = 24
      /\ Program[18 + 7] = P2_3[7] /\ 18 + 7 = 25
      /\ Program[18 + 8] = P2_3[8] /\ 18 + 8 = 26
      /\ Program[18 + 9] = P2_3[9] /\ 18 + 9 = 27
      /\ Program[18 + 10] = P2_3[10] /\ 18 + 10 = 28
      /\ Program[18 + 11] = P2_3[11] /\ 18 + 11 = 29
      /\ Program[18 + 12] = P2_3[12] /\ 18 + 12 = 30
      /\ Program[18 + 13] = P2_3[13] /\ 18 + 13 = 31
      /\ Program[18 + 14] = P2_3[14] /\ 18 + 14 = 32
  BY Parts
<1>3. /\ Program[19] = P2_3[1]
      /\ Program[20] = P2_3[2]
      /\ Program[21] = P2_3[3]
      /\ Program[22] = P2_3[4]
      /\ Program[23] = P2_3[5]
      /\ Program[24] = P2_3[6]
      /\ Program[25] = P2_3[7]
      /\ Program[26] = P2_3[8]
      /\ Program[27] = P2_3[9]
      /\ Program[28] = P2_3[10]
      /\ Program[29] = P2_3[11]
      /\ Program[30] = P2_3[12]
      /\ Program[31] = P2_3[13]
      /\ Program[32] = P2_3[14]
  BY <1>2
<1> QED
  BY <1>1, <1>3

\* Those of part 4.
LEMMA Ops2_4 ==
    /\ Program[33] = Reset({"fault_count", "timer_irq_count"})
    /\ Program[34] = MapInvalid
    /\ Program[35] = EnableIrq("timer")
    /\ Program[36] = EnableS
    /\ Program[37] = Arm
    /\ Program[38] = Load
    /\ Program[39] = Delay
    /\ Program[40] = DisableS
    /\ Program[41] = Faulted(630)
    /\ Program[42] = Eq("val", "DEAD0004", 631)
<1>1. /\ P2_4[1] = Reset({"fault_count", "timer_irq_count"})
      /\ P2_4[2] = MapInvalid
      /\ P2_4[3] = EnableIrq("timer")
      /\ P2_4[4] = EnableS
      /\ P2_4[5] = Arm
      /\ P2_4[6] = Load
      /\ P2_4[7] = Delay
      /\ P2_4[8] = DisableS
      /\ P2_4[9] = Faulted(630)
      /\ P2_4[10] = Eq("val", "DEAD0004", 631)
  BY DEF P2_4, InTime, IsPending, Faulted
<1>2. /\ Program[32 + 1] = P2_4[1] /\ 32 + 1 = 33
      /\ Program[32 + 2] = P2_4[2] /\ 32 + 2 = 34
      /\ Program[32 + 3] = P2_4[3] /\ 32 + 3 = 35
      /\ Program[32 + 4] = P2_4[4] /\ 32 + 4 = 36
      /\ Program[32 + 5] = P2_4[5] /\ 32 + 5 = 37
      /\ Program[32 + 6] = P2_4[6] /\ 32 + 6 = 38
      /\ Program[32 + 7] = P2_4[7] /\ 32 + 7 = 39
      /\ Program[32 + 8] = P2_4[8] /\ 32 + 8 = 40
      /\ Program[32 + 9] = P2_4[9] /\ 32 + 9 = 41
      /\ Program[32 + 10] = P2_4[10] /\ 32 + 10 = 42
  BY Parts
<1>3. /\ Program[33] = P2_4[1]
      /\ Program[34] = P2_4[2]
      /\ Program[35] = P2_4[3]
      /\ Program[36] = P2_4[4]
      /\ Program[37] = P2_4[5]
      /\ Program[38] = P2_4[6]
      /\ Program[39] = P2_4[7]
      /\ Program[40] = P2_4[8]
      /\ Program[41] = P2_4[9]
      /\ Program[42] = P2_4[10]
  BY <1>2
<1> QED
  BY <1>1, <1>3

\* Those of part 5.
LEMMA Ops2_5 ==
    /\ Program[43] = Reset({"soft_irq_count"})
    /\ Program[44] = EnableIrq("soft")
    /\ Program[45] = DisableS
    /\ Program[46] = SelfIpi
    /\ Program[47] = Delay
    /\ Program[48] = Eq("soft_irq_count", 0, 640)
    /\ Program[49] = EnableS
    /\ Program[50] = Spin("soft_irq_count", 1)
    /\ Program[51] = DisableS
    /\ Program[52] = Eq("soft_irq_count", 1, 641)
<1>1. /\ P2_5[1] = Reset({"soft_irq_count"})
      /\ P2_5[2] = EnableIrq("soft")
      /\ P2_5[3] = DisableS
      /\ P2_5[4] = SelfIpi
      /\ P2_5[5] = Delay
      /\ P2_5[6] = Eq("soft_irq_count", 0, 640)
      /\ P2_5[7] = EnableS
      /\ P2_5[8] = Spin("soft_irq_count", 1)
      /\ P2_5[9] = DisableS
      /\ P2_5[10] = Eq("soft_irq_count", 1, 641)
  BY DEF P2_5, InTime, IsPending, Faulted
<1>2. /\ Program[42 + 1] = P2_5[1] /\ 42 + 1 = 43
      /\ Program[42 + 2] = P2_5[2] /\ 42 + 2 = 44
      /\ Program[42 + 3] = P2_5[3] /\ 42 + 3 = 45
      /\ Program[42 + 4] = P2_5[4] /\ 42 + 4 = 46
      /\ Program[42 + 5] = P2_5[5] /\ 42 + 5 = 47
      /\ Program[42 + 6] = P2_5[6] /\ 42 + 6 = 48
      /\ Program[42 + 7] = P2_5[7] /\ 42 + 7 = 49
      /\ Program[42 + 8] = P2_5[8] /\ 42 + 8 = 50
      /\ Program[42 + 9] = P2_5[9] /\ 42 + 9 = 51
      /\ Program[42 + 10] = P2_5[10] /\ 42 + 10 = 52
  BY Parts
<1>3. /\ Program[43] = P2_5[1]
      /\ Program[44] = P2_5[2]
      /\ Program[45] = P2_5[3]
      /\ Program[46] = P2_5[4]
      /\ Program[47] = P2_5[5]
      /\ Program[48] = P2_5[6]
      /\ Program[49] = P2_5[7]
      /\ Program[50] = P2_5[8]
      /\ Program[51] = P2_5[9]
      /\ Program[52] = P2_5[10]
  BY <1>2
<1> QED
  BY <1>1, <1>3

\* Those of part 6.
LEMMA Ops2_6 ==
    /\ Program[53] = Reset({"timer_irq_count"})
    /\ Program[54] = WriteSie({"soft"})
    /\ Program[55] = EnableS
    /\ Program[56] = Arm
    /\ Program[57] = Delay
    /\ Program[58] = Eq("timer_irq_count", 0, 650)
    /\ Program[59] = IsPending(651)
    /\ Program[60] = EnableIrq("timer")
    /\ Program[61] = Spin("timer_irq_count", 1)
    /\ Program[62] = DisableS
    /\ Program[63] = Eq("timer_irq_count", 1, 652)
<1>1. /\ P2_6[1] = Reset({"timer_irq_count"})
      /\ P2_6[2] = WriteSie({"soft"})
      /\ P2_6[3] = EnableS
      /\ P2_6[4] = Arm
      /\ P2_6[5] = Delay
      /\ P2_6[6] = Eq("timer_irq_count", 0, 650)
      /\ P2_6[7] = IsPending(651)
      /\ P2_6[8] = EnableIrq("timer")
      /\ P2_6[9] = Spin("timer_irq_count", 1)
      /\ P2_6[10] = DisableS
      /\ P2_6[11] = Eq("timer_irq_count", 1, 652)
  BY DEF P2_6, InTime, IsPending, Faulted
<1>2. /\ Program[52 + 1] = P2_6[1] /\ 52 + 1 = 53
      /\ Program[52 + 2] = P2_6[2] /\ 52 + 2 = 54
      /\ Program[52 + 3] = P2_6[3] /\ 52 + 3 = 55
      /\ Program[52 + 4] = P2_6[4] /\ 52 + 4 = 56
      /\ Program[52 + 5] = P2_6[5] /\ 52 + 5 = 57
      /\ Program[52 + 6] = P2_6[6] /\ 52 + 6 = 58
      /\ Program[52 + 7] = P2_6[7] /\ 52 + 7 = 59
      /\ Program[52 + 8] = P2_6[8] /\ 52 + 8 = 60
      /\ Program[52 + 9] = P2_6[9] /\ 52 + 9 = 61
      /\ Program[52 + 10] = P2_6[10] /\ 52 + 10 = 62
      /\ Program[52 + 11] = P2_6[11] /\ 52 + 11 = 63
  BY Parts
<1>3. /\ Program[53] = P2_6[1]
      /\ Program[54] = P2_6[2]
      /\ Program[55] = P2_6[3]
      /\ Program[56] = P2_6[4]
      /\ Program[57] = P2_6[5]
      /\ Program[58] = P2_6[6]
      /\ Program[59] = P2_6[7]
      /\ Program[60] = P2_6[8]
      /\ Program[61] = P2_6[9]
      /\ Program[62] = P2_6[10]
      /\ Program[63] = P2_6[11]
  BY <1>2
<1> QED
  BY <1>1, <1>3

\* Those of part 7.
LEMMA Ops2_7 ==
    /\ Program[64] = Reset({"timer_irq_count"})
    /\ Program[65] = EnableIrq("timer")
    /\ Program[66] = DisableS
    /\ Program[67] = Arm
    /\ Program[68] = Wfi
    /\ Program[69] = IsPending(660)
    /\ Program[70] = Eq("timer_irq_count", 0, 661)
    /\ Program[71] = EnableS
    /\ Program[72] = DisableS
    /\ Program[73] = Eq("timer_irq_count", 1, 662)
<1>1. /\ P2_7[1] = Reset({"timer_irq_count"})
      /\ P2_7[2] = EnableIrq("timer")
      /\ P2_7[3] = DisableS
      /\ P2_7[4] = Arm
      /\ P2_7[5] = Wfi
      /\ P2_7[6] = IsPending(660)
      /\ P2_7[7] = Eq("timer_irq_count", 0, 661)
      /\ P2_7[8] = EnableS
      /\ P2_7[9] = DisableS
      /\ P2_7[10] = Eq("timer_irq_count", 1, 662)
  BY DEF P2_7, InTime, IsPending, Faulted
<1>2. /\ Program[63 + 1] = P2_7[1] /\ 63 + 1 = 64
      /\ Program[63 + 2] = P2_7[2] /\ 63 + 2 = 65
      /\ Program[63 + 3] = P2_7[3] /\ 63 + 3 = 66
      /\ Program[63 + 4] = P2_7[4] /\ 63 + 4 = 67
      /\ Program[63 + 5] = P2_7[5] /\ 63 + 5 = 68
      /\ Program[63 + 6] = P2_7[6] /\ 63 + 6 = 69
      /\ Program[63 + 7] = P2_7[7] /\ 63 + 7 = 70
      /\ Program[63 + 8] = P2_7[8] /\ 63 + 8 = 71
      /\ Program[63 + 9] = P2_7[9] /\ 63 + 9 = 72
      /\ Program[63 + 10] = P2_7[10] /\ 63 + 10 = 73
  BY Parts
<1>3. /\ Program[64] = P2_7[1]
      /\ Program[65] = P2_7[2]
      /\ Program[66] = P2_7[3]
      /\ Program[67] = P2_7[4]
      /\ Program[68] = P2_7[5]
      /\ Program[69] = P2_7[6]
      /\ Program[70] = P2_7[7]
      /\ Program[71] = P2_7[8]
      /\ Program[72] = P2_7[9]
      /\ Program[73] = P2_7[10]
  BY <1>2
<1> QED
  BY <1>1, <1>3

\* The parts of an operation.
Field(o, k) == o[k]

\* What they are, for each kind of operation.
LEMMA OpFields ==
    /\ \A x : Field(Reset(x), 1) = "reset" /\ Field(Reset(x), 2) = x
    /\ \A x : Field(EnableIrq(x), 1) = "csrs_sie" /\ Field(EnableIrq(x), 2) = x
    /\ \A x : Field(WriteSie(x), 1) = "csrw_sie" /\ Field(WriteSie(x), 2) = x
    /\ Field(EnableS, 1) = "SIE" /\ Field(EnableS, 2) = TRUE
    /\ Field(DisableS, 1) = "SIE" /\ Field(DisableS, 2) = FALSE
    /\ Field(Arm, 1) = "set_timer"
    /\ Field(SelfIpi, 1) = "send_ipi"
    /\ \A x, n : /\ Field(Spin(x, n), 1) = "spin"
                 /\ Field(Spin(x, n), 2) = x /\ Field(Spin(x, n), 3) = n
    /\ Field(Delay, 1) = "delay" /\ Field(Wfi, 1) = "wfi"
    /\ Field(MapInvalid, 1) = "map" /\ Field(Load, 1) = "load"
    /\ \A f, v, c : /\ Field(Eq(f, v, c), 1) = "eq" /\ Field(Eq(f, v, c), 2) = f
                     /\ Field(Eq(f, v, c), 3) = v /\ Field(Eq(f, v, c), 4) = c
    /\ \A c : /\ Field(InTime(c), 1) = "eq" /\ Field(InTime(c), 2) = "timeout"
              /\ Field(InTime(c), 3) = FALSE /\ Field(InTime(c), 4) = c
    /\ \A c : /\ Field(IsPending(c), 1) = "eq" /\ Field(IsPending(c), 2) = "STIP"
              /\ Field(IsPending(c), 3) = TRUE /\ Field(IsPending(c), 4) = c
    /\ \A c : /\ Field(Faulted(c), 1) = "eq" /\ Field(Faulted(c), 2) = "faulted"
              /\ Field(Faulted(c), 3) = TRUE /\ Field(Faulted(c), 4) = c
BY DEF Field, Reset, EnableIrq, WriteSie, EnableS, DisableS, Arm, SelfIpi, Spin, Delay, Wfi,
       MapInvalid, Load, Eq, InTime, IsPending, Faulted

\* The kinds of the operations.
LEMMA KindOf ==
    /\ Field(Program[1], 1) = "reset" /\ Field(Program[2], 1) = "csrs_sie"
    /\ Field(Program[3], 1) = "SIE" /\ Field(Program[4], 1) = "set_timer"
    /\ Field(Program[5], 1) = "spin" /\ Field(Program[6], 1) = "SIE"
    /\ Field(Program[7], 1) = "eq" /\ Field(Program[8], 1) = "eq"
    /\ Field(Program[9], 1) = "eq" /\ Field(Program[10], 1) = "reset"
    /\ Field(Program[11], 1) = "csrs_sie" /\ Field(Program[12], 1) = "SIE"
    /\ Field(Program[13], 1) = "send_ipi" /\ Field(Program[14], 1) = "spin"
    /\ Field(Program[15], 1) = "SIE" /\ Field(Program[16], 1) = "eq"
    /\ Field(Program[17], 1) = "eq" /\ Field(Program[18], 1) = "eq"
    /\ Field(Program[19], 1) = "reset" /\ Field(Program[20], 1) = "csrs_sie"
    /\ Field(Program[21], 1) = "SIE" /\ Field(Program[22], 1) = "set_timer"
    /\ Field(Program[23], 1) = "spin" /\ Field(Program[24], 1) = "eq"
    /\ Field(Program[25], 1) = "set_timer" /\ Field(Program[26], 1) = "spin"
    /\ Field(Program[27], 1) = "eq" /\ Field(Program[28], 1) = "set_timer"
    /\ Field(Program[29], 1) = "spin" /\ Field(Program[30], 1) = "eq"
    /\ Field(Program[31], 1) = "SIE" /\ Field(Program[32], 1) = "eq"
    /\ Field(Program[33], 1) = "reset" /\ Field(Program[34], 1) = "map"
    /\ Field(Program[35], 1) = "csrs_sie" /\ Field(Program[36], 1) = "SIE"
    /\ Field(Program[37], 1) = "set_timer" /\ Field(Program[38], 1) = "load"
    /\ Field(Program[39], 1) = "delay" /\ Field(Program[40], 1) = "SIE"
    /\ Field(Program[41], 1) = "eq" /\ Field(Program[42], 1) = "eq"
    /\ Field(Program[43], 1) = "reset"
    /\ Field(Program[44], 1) = "csrs_sie" /\ Field(Program[45], 1) = "SIE"
    /\ Field(Program[46], 1) = "send_ipi" /\ Field(Program[47], 1) = "delay"
    /\ Field(Program[48], 1) = "eq" /\ Field(Program[49], 1) = "SIE"
    /\ Field(Program[50], 1) = "spin" /\ Field(Program[51], 1) = "SIE"
    /\ Field(Program[52], 1) = "eq" /\ Field(Program[53], 1) = "reset"
    /\ Field(Program[54], 1) = "csrw_sie" /\ Field(Program[55], 1) = "SIE"
    /\ Field(Program[56], 1) = "set_timer" /\ Field(Program[57], 1) = "delay"
    /\ Field(Program[58], 1) = "eq" /\ Field(Program[59], 1) = "eq"
    /\ Field(Program[60], 1) = "csrs_sie" /\ Field(Program[61], 1) = "spin"
    /\ Field(Program[62], 1) = "SIE" /\ Field(Program[63], 1) = "eq"
    /\ Field(Program[64], 1) = "reset" /\ Field(Program[65], 1) = "csrs_sie"
    /\ Field(Program[66], 1) = "SIE" /\ Field(Program[67], 1) = "set_timer"
    /\ Field(Program[68], 1) = "wfi" /\ Field(Program[69], 1) = "eq"
    /\ Field(Program[70], 1) = "eq" /\ Field(Program[71], 1) = "SIE"
    /\ Field(Program[72], 1) = "SIE" /\ Field(Program[73], 1) = "eq"
<1>1. /\ Field(Program[1], 1) = "reset"
      /\ Field(Program[2], 1) = "csrs_sie"
      /\ Field(Program[3], 1) = "SIE"
      /\ Field(Program[4], 1) = "set_timer"
      /\ Field(Program[5], 1) = "spin"
      /\ Field(Program[6], 1) = "SIE"
      /\ Field(Program[7], 1) = "eq"
      /\ Field(Program[8], 1) = "eq"
      /\ Field(Program[9], 1) = "eq"
  <2>1. /\ Field(Reset({"fault_count", "timer_irq_count"}), 1) = "reset"
        /\ Field(EnableIrq("timer"), 1) = "csrs_sie"
        /\ Field(EnableS, 1) = "SIE"
        /\ Field(Arm, 1) = "set_timer"
        /\ Field(Spin("timer_irq_count", 1), 1) = "spin"
        /\ Field(DisableS, 1) = "SIE"
        /\ Field(InTime(600), 1) = "eq"
        /\ Field(Eq("timer_irq_count", 1, 601), 1) = "eq"
        /\ Field(Eq("last_irq_cause", "timer", 602), 1) = "eq"
    BY OpFields
  <2> QED
    BY Ops2_1, <2>1
<1>2. /\ Field(Program[10], 1) = "reset"
      /\ Field(Program[11], 1) = "csrs_sie"
      /\ Field(Program[12], 1) = "SIE"
      /\ Field(Program[13], 1) = "send_ipi"
      /\ Field(Program[14], 1) = "spin"
      /\ Field(Program[15], 1) = "SIE"
      /\ Field(Program[16], 1) = "eq"
      /\ Field(Program[17], 1) = "eq"
      /\ Field(Program[18], 1) = "eq"
  <2>1. /\ Field(Reset({"soft_irq_count"}), 1) = "reset"
        /\ Field(EnableIrq("soft"), 1) = "csrs_sie"
        /\ Field(EnableS, 1) = "SIE"
        /\ Field(SelfIpi, 1) = "send_ipi"
        /\ Field(Spin("soft_irq_count", 1), 1) = "spin"
        /\ Field(DisableS, 1) = "SIE"
        /\ Field(InTime(610), 1) = "eq"
        /\ Field(Eq("soft_irq_count", 1, 611), 1) = "eq"
        /\ Field(Eq("last_irq_cause", "soft", 612), 1) = "eq"
    BY OpFields
  <2> QED
    BY Ops2_2, <2>1
<1>3. /\ Field(Program[19], 1) = "reset"
      /\ Field(Program[20], 1) = "csrs_sie"
      /\ Field(Program[21], 1) = "SIE"
      /\ Field(Program[22], 1) = "set_timer"
      /\ Field(Program[23], 1) = "spin"
      /\ Field(Program[24], 1) = "eq"
      /\ Field(Program[25], 1) = "set_timer"
      /\ Field(Program[26], 1) = "spin"
      /\ Field(Program[27], 1) = "eq"
      /\ Field(Program[28], 1) = "set_timer"
      /\ Field(Program[29], 1) = "spin"
      /\ Field(Program[30], 1) = "eq"
      /\ Field(Program[31], 1) = "SIE"
      /\ Field(Program[32], 1) = "eq"
  <2>1. /\ Field(Reset({"timer_irq_count"}), 1) = "reset"
        /\ Field(EnableIrq("timer"), 1) = "csrs_sie"
        /\ Field(EnableS, 1) = "SIE"
        /\ Field(Arm, 1) = "set_timer"
        /\ Field(Spin("timer_irq_count", 1), 1) = "spin"
        /\ Field(InTime(620), 1) = "eq"
        /\ Field(Arm, 1) = "set_timer"
        /\ Field(Spin("timer_irq_count", 2), 1) = "spin"
        /\ Field(InTime(621), 1) = "eq"
        /\ Field(Arm, 1) = "set_timer"
        /\ Field(Spin("timer_irq_count", 3), 1) = "spin"
        /\ Field(InTime(622), 1) = "eq"
        /\ Field(DisableS, 1) = "SIE"
        /\ Field(Eq("timer_irq_count", 3, 625), 1) = "eq"
    BY OpFields
  <2> QED
    BY Ops2_3, <2>1
<1>4. /\ Field(Program[33], 1) = "reset"
      /\ Field(Program[34], 1) = "map"
      /\ Field(Program[35], 1) = "csrs_sie"
      /\ Field(Program[36], 1) = "SIE"
      /\ Field(Program[37], 1) = "set_timer"
      /\ Field(Program[38], 1) = "load"
      /\ Field(Program[39], 1) = "delay"
      /\ Field(Program[40], 1) = "SIE"
      /\ Field(Program[41], 1) = "eq"
      /\ Field(Program[42], 1) = "eq"
  <2>1. /\ Field(Reset({"fault_count", "timer_irq_count"}), 1) = "reset"
        /\ Field(MapInvalid, 1) = "map"
        /\ Field(EnableIrq("timer"), 1) = "csrs_sie"
        /\ Field(EnableS, 1) = "SIE"
        /\ Field(Arm, 1) = "set_timer"
        /\ Field(Load, 1) = "load"
        /\ Field(Delay, 1) = "delay"
        /\ Field(DisableS, 1) = "SIE"
        /\ Field(Faulted(630), 1) = "eq"
        /\ Field(Eq("val", "DEAD0004", 631), 1) = "eq"
    BY OpFields
  <2> QED
    BY Ops2_4, <2>1
<1>5. /\ Field(Program[43], 1) = "reset"
      /\ Field(Program[44], 1) = "csrs_sie"
      /\ Field(Program[45], 1) = "SIE"
      /\ Field(Program[46], 1) = "send_ipi"
      /\ Field(Program[47], 1) = "delay"
      /\ Field(Program[48], 1) = "eq"
      /\ Field(Program[49], 1) = "SIE"
      /\ Field(Program[50], 1) = "spin"
      /\ Field(Program[51], 1) = "SIE"
      /\ Field(Program[52], 1) = "eq"
  <2>1. /\ Field(Reset({"soft_irq_count"}), 1) = "reset"
        /\ Field(EnableIrq("soft"), 1) = "csrs_sie"
        /\ Field(DisableS, 1) = "SIE"
        /\ Field(SelfIpi, 1) = "send_ipi"
        /\ Field(Delay, 1) = "delay"
        /\ Field(Eq("soft_irq_count", 0, 640), 1) = "eq"
        /\ Field(EnableS, 1) = "SIE"
        /\ Field(Spin("soft_irq_count", 1), 1) = "spin"
        /\ Field(DisableS, 1) = "SIE"
        /\ Field(Eq("soft_irq_count", 1, 641), 1) = "eq"
    BY OpFields
  <2> QED
    BY Ops2_5, <2>1
<1>6. /\ Field(Program[53], 1) = "reset"
      /\ Field(Program[54], 1) = "csrw_sie"
      /\ Field(Program[55], 1) = "SIE"
      /\ Field(Program[56], 1) = "set_timer"
      /\ Field(Program[57], 1) = "delay"
      /\ Field(Program[58], 1) = "eq"
      /\ Field(Program[59], 1) = "eq"
      /\ Field(Program[60], 1) = "csrs_sie"
      /\ Field(Program[61], 1) = "spin"
      /\ Field(Program[62], 1) = "SIE"
      /\ Field(Program[63], 1) = "eq"
  <2>1. /\ Field(Reset({"timer_irq_count"}), 1) = "reset"
        /\ Field(WriteSie({"soft"}), 1) = "csrw_sie"
        /\ Field(EnableS, 1) = "SIE"
        /\ Field(Arm, 1) = "set_timer"
        /\ Field(Delay, 1) = "delay"
        /\ Field(Eq("timer_irq_count", 0, 650), 1) = "eq"
        /\ Field(IsPending(651), 1) = "eq"
        /\ Field(EnableIrq("timer"), 1) = "csrs_sie"
        /\ Field(Spin("timer_irq_count", 1), 1) = "spin"
        /\ Field(DisableS, 1) = "SIE"
        /\ Field(Eq("timer_irq_count", 1, 652), 1) = "eq"
    BY OpFields
  <2> QED
    BY Ops2_6, <2>1
<1>7. /\ Field(Program[64], 1) = "reset"
      /\ Field(Program[65], 1) = "csrs_sie"
      /\ Field(Program[66], 1) = "SIE"
      /\ Field(Program[67], 1) = "set_timer"
      /\ Field(Program[68], 1) = "wfi"
      /\ Field(Program[69], 1) = "eq"
      /\ Field(Program[70], 1) = "eq"
      /\ Field(Program[71], 1) = "SIE"
      /\ Field(Program[72], 1) = "SIE"
      /\ Field(Program[73], 1) = "eq"
  <2>1. /\ Field(Reset({"timer_irq_count"}), 1) = "reset"
        /\ Field(EnableIrq("timer"), 1) = "csrs_sie"
        /\ Field(DisableS, 1) = "SIE"
        /\ Field(Arm, 1) = "set_timer"
        /\ Field(Wfi, 1) = "wfi"
        /\ Field(IsPending(660), 1) = "eq"
        /\ Field(Eq("timer_irq_count", 0, 661), 1) = "eq"
        /\ Field(EnableS, 1) = "SIE"
        /\ Field(DisableS, 1) = "SIE"
        /\ Field(Eq("timer_irq_count", 1, 662), 1) = "eq"
    BY OpFields
  <2> QED
    BY Ops2_7, <2>1
<1> QED
  BY <1>1, <1>2, <1>3, <1>4, <1>5, <1>6, <1>7

\* Where the operations of a kind are.
LEMMA WhereIs ==
    ASSUME NEW i \in 1 .. 73
    PROVE  /\ Field(Program[i], 1) = "reset" => i \in {1, 10, 19, 33, 43, 53, 64}
           /\ Field(Program[i], 1) = "csrs_sie" => i \in {2, 11, 20, 35, 44, 60, 65}
           /\ Field(Program[i], 1) = "SIE" => i \in {3, 6, 12, 15, 21, 31, 36, 40, 45, 49,
                 51, 55, 62, 66, 71, 72}
           /\ Field(Program[i], 1) = "set_timer" => i \in {4, 22, 25, 28, 37, 56, 67}
           /\ Field(Program[i], 1) = "spin" => i \in {5, 14, 23, 26, 29, 50, 61}
           /\ Field(Program[i], 1) = "eq" => i \in {7, 8, 9, 16, 17, 18, 24, 27, 30, 32, 41, 42,
                 48, 52, 58, 59, 63, 69, 70, 73}
           /\ Field(Program[i], 1) = "send_ipi" => i \in {13, 46}
           /\ Field(Program[i], 1) = "map" => i \in {34}
           /\ Field(Program[i], 1) = "load" => i \in {38}
           /\ Field(Program[i], 1) = "delay" => i \in {39, 47, 57}
           /\ Field(Program[i], 1) = "csrw_sie" => i \in {54}
           /\ Field(Program[i], 1) = "wfi" => i \in {68}
<1> DEFINE K == Field(Program[i], 1)
<1>1. ASSUME i \in 1 .. 9
      PROVE  \/ i = 1 /\ K = "reset"
             \/ i = 2 /\ K = "csrs_sie"
             \/ i = 3 /\ K = "SIE"
             \/ i = 4 /\ K = "set_timer"
             \/ i = 5 /\ K = "spin"
             \/ i = 6 /\ K = "SIE"
             \/ i = 7 /\ K = "eq"
             \/ i = 8 /\ K = "eq"
             \/ i = 9 /\ K = "eq"
  <2>1. \/ i = 1
        \/ i = 2
        \/ i = 3
        \/ i = 4
        \/ i = 5
        \/ i = 6
        \/ i = 7
        \/ i = 8
        \/ i = 9
    BY <1>1
  <2>2. /\ Field(Program[1], 1) = "reset"
        /\ Field(Program[2], 1) = "csrs_sie"
        /\ Field(Program[3], 1) = "SIE"
        /\ Field(Program[4], 1) = "set_timer"
        /\ Field(Program[5], 1) = "spin"
        /\ Field(Program[6], 1) = "SIE"
        /\ Field(Program[7], 1) = "eq"
        /\ Field(Program[8], 1) = "eq"
        /\ Field(Program[9], 1) = "eq"
    BY KindOf
  <2> QED
    BY <2>1, <2>2
<1>2. ASSUME i \in 10 .. 18
      PROVE  \/ i = 10 /\ K = "reset"
             \/ i = 11 /\ K = "csrs_sie"
             \/ i = 12 /\ K = "SIE"
             \/ i = 13 /\ K = "send_ipi"
             \/ i = 14 /\ K = "spin"
             \/ i = 15 /\ K = "SIE"
             \/ i = 16 /\ K = "eq"
             \/ i = 17 /\ K = "eq"
             \/ i = 18 /\ K = "eq"
  <2>1. \/ i = 10
        \/ i = 11
        \/ i = 12
        \/ i = 13
        \/ i = 14
        \/ i = 15
        \/ i = 16
        \/ i = 17
        \/ i = 18
    BY <1>2
  <2>2. /\ Field(Program[10], 1) = "reset"
        /\ Field(Program[11], 1) = "csrs_sie"
        /\ Field(Program[12], 1) = "SIE"
        /\ Field(Program[13], 1) = "send_ipi"
        /\ Field(Program[14], 1) = "spin"
        /\ Field(Program[15], 1) = "SIE"
        /\ Field(Program[16], 1) = "eq"
        /\ Field(Program[17], 1) = "eq"
        /\ Field(Program[18], 1) = "eq"
    BY KindOf
  <2> QED
    BY <2>1, <2>2
<1>3. ASSUME i \in 19 .. 32
      PROVE  \/ i = 19 /\ K = "reset"
             \/ i = 20 /\ K = "csrs_sie"
             \/ i = 21 /\ K = "SIE"
             \/ i = 22 /\ K = "set_timer"
             \/ i = 23 /\ K = "spin"
             \/ i = 24 /\ K = "eq"
             \/ i = 25 /\ K = "set_timer"
             \/ i = 26 /\ K = "spin"
             \/ i = 27 /\ K = "eq"
             \/ i = 28 /\ K = "set_timer"
             \/ i = 29 /\ K = "spin"
             \/ i = 30 /\ K = "eq"
             \/ i = 31 /\ K = "SIE"
             \/ i = 32 /\ K = "eq"
  <2>1. \/ i = 19
        \/ i = 20
        \/ i = 21
        \/ i = 22
        \/ i = 23
        \/ i = 24
        \/ i = 25
        \/ i = 26
        \/ i = 27
        \/ i = 28
        \/ i = 29
        \/ i = 30
        \/ i = 31
        \/ i = 32
    BY <1>3
  <2>2. /\ Field(Program[19], 1) = "reset"
        /\ Field(Program[20], 1) = "csrs_sie"
        /\ Field(Program[21], 1) = "SIE"
        /\ Field(Program[22], 1) = "set_timer"
        /\ Field(Program[23], 1) = "spin"
        /\ Field(Program[24], 1) = "eq"
        /\ Field(Program[25], 1) = "set_timer"
        /\ Field(Program[26], 1) = "spin"
        /\ Field(Program[27], 1) = "eq"
        /\ Field(Program[28], 1) = "set_timer"
        /\ Field(Program[29], 1) = "spin"
        /\ Field(Program[30], 1) = "eq"
        /\ Field(Program[31], 1) = "SIE"
        /\ Field(Program[32], 1) = "eq"
    BY KindOf
  <2> QED
    BY <2>1, <2>2
<1>4. ASSUME i \in 33 .. 42
      PROVE  \/ i = 33 /\ K = "reset"
             \/ i = 34 /\ K = "map"
             \/ i = 35 /\ K = "csrs_sie"
             \/ i = 36 /\ K = "SIE"
             \/ i = 37 /\ K = "set_timer"
             \/ i = 38 /\ K = "load"
             \/ i = 39 /\ K = "delay"
             \/ i = 40 /\ K = "SIE"
             \/ i = 41 /\ K = "eq"
             \/ i = 42 /\ K = "eq"
  <2>1. \/ i = 33
        \/ i = 34
        \/ i = 35
        \/ i = 36
        \/ i = 37
        \/ i = 38
        \/ i = 39
        \/ i = 40
        \/ i = 41
        \/ i = 42
    BY <1>4
  <2>2. /\ Field(Program[33], 1) = "reset"
        /\ Field(Program[34], 1) = "map"
        /\ Field(Program[35], 1) = "csrs_sie"
        /\ Field(Program[36], 1) = "SIE"
        /\ Field(Program[37], 1) = "set_timer"
        /\ Field(Program[38], 1) = "load"
        /\ Field(Program[39], 1) = "delay"
        /\ Field(Program[40], 1) = "SIE"
        /\ Field(Program[41], 1) = "eq"
        /\ Field(Program[42], 1) = "eq"
    BY KindOf
  <2> QED
    BY <2>1, <2>2
<1>5. ASSUME i \in 43 .. 52
      PROVE  \/ i = 43 /\ K = "reset"
             \/ i = 44 /\ K = "csrs_sie"
             \/ i = 45 /\ K = "SIE"
             \/ i = 46 /\ K = "send_ipi"
             \/ i = 47 /\ K = "delay"
             \/ i = 48 /\ K = "eq"
             \/ i = 49 /\ K = "SIE"
             \/ i = 50 /\ K = "spin"
             \/ i = 51 /\ K = "SIE"
             \/ i = 52 /\ K = "eq"
  <2>1. \/ i = 43
        \/ i = 44
        \/ i = 45
        \/ i = 46
        \/ i = 47
        \/ i = 48
        \/ i = 49
        \/ i = 50
        \/ i = 51
        \/ i = 52
    BY <1>5
  <2>2. /\ Field(Program[43], 1) = "reset"
        /\ Field(Program[44], 1) = "csrs_sie"
        /\ Field(Program[45], 1) = "SIE"
        /\ Field(Program[46], 1) = "send_ipi"
        /\ Field(Program[47], 1) = "delay"
        /\ Field(Program[48], 1) = "eq"
        /\ Field(Program[49], 1) = "SIE"
        /\ Field(Program[50], 1) = "spin"
        /\ Field(Program[51], 1) = "SIE"
        /\ Field(Program[52], 1) = "eq"
    BY KindOf
  <2> QED
    BY <2>1, <2>2
<1>6. ASSUME i \in 53 .. 63
      PROVE  \/ i = 53 /\ K = "reset"
             \/ i = 54 /\ K = "csrw_sie"
             \/ i = 55 /\ K = "SIE"
             \/ i = 56 /\ K = "set_timer"
             \/ i = 57 /\ K = "delay"
             \/ i = 58 /\ K = "eq"
             \/ i = 59 /\ K = "eq"
             \/ i = 60 /\ K = "csrs_sie"
             \/ i = 61 /\ K = "spin"
             \/ i = 62 /\ K = "SIE"
             \/ i = 63 /\ K = "eq"
  <2>1. \/ i = 53
        \/ i = 54
        \/ i = 55
        \/ i = 56
        \/ i = 57
        \/ i = 58
        \/ i = 59
        \/ i = 60
        \/ i = 61
        \/ i = 62
        \/ i = 63
    BY <1>6
  <2>2. /\ Field(Program[53], 1) = "reset"
        /\ Field(Program[54], 1) = "csrw_sie"
        /\ Field(Program[55], 1) = "SIE"
        /\ Field(Program[56], 1) = "set_timer"
        /\ Field(Program[57], 1) = "delay"
        /\ Field(Program[58], 1) = "eq"
        /\ Field(Program[59], 1) = "eq"
        /\ Field(Program[60], 1) = "csrs_sie"
        /\ Field(Program[61], 1) = "spin"
        /\ Field(Program[62], 1) = "SIE"
        /\ Field(Program[63], 1) = "eq"
    BY KindOf
  <2> QED
    BY <2>1, <2>2
<1>7. ASSUME i \in 64 .. 73
      PROVE  \/ i = 64 /\ K = "reset"
             \/ i = 65 /\ K = "csrs_sie"
             \/ i = 66 /\ K = "SIE"
             \/ i = 67 /\ K = "set_timer"
             \/ i = 68 /\ K = "wfi"
             \/ i = 69 /\ K = "eq"
             \/ i = 70 /\ K = "eq"
             \/ i = 71 /\ K = "SIE"
             \/ i = 72 /\ K = "SIE"
             \/ i = 73 /\ K = "eq"
  <2>1. \/ i = 64
        \/ i = 65
        \/ i = 66
        \/ i = 67
        \/ i = 68
        \/ i = 69
        \/ i = 70
        \/ i = 71
        \/ i = 72
        \/ i = 73
    BY <1>7
  <2>2. /\ Field(Program[64], 1) = "reset"
        /\ Field(Program[65], 1) = "csrs_sie"
        /\ Field(Program[66], 1) = "SIE"
        /\ Field(Program[67], 1) = "set_timer"
        /\ Field(Program[68], 1) = "wfi"
        /\ Field(Program[69], 1) = "eq"
        /\ Field(Program[70], 1) = "eq"
        /\ Field(Program[71], 1) = "SIE"
        /\ Field(Program[72], 1) = "SIE"
        /\ Field(Program[73], 1) = "eq"
    BY KindOf
  <2> QED
    BY <2>1, <2>2
<1>8. \/ i \in 1 .. 9
      \/ i \in 10 .. 18
      \/ i \in 19 .. 32
      \/ i \in 33 .. 42
      \/ i \in 43 .. 52
      \/ i \in 53 .. 63
      \/ i \in 64 .. 73
  OBVIOUS
<1> HIDE DEF K
<1>9. K = "reset" => i \in {1, 10, 19, 33, 43, 53, 64}
  BY <1>1, <1>2, <1>3, <1>4, <1>5, <1>6, <1>7, <1>8
<1>10. K = "csrs_sie" => i \in {2, 11, 20, 35, 44, 60, 65}
  BY <1>1, <1>2, <1>3, <1>4, <1>5, <1>6, <1>7, <1>8
<1>11. K = "SIE" => i \in {3, 6, 12, 15, 21, 31, 36, 40, 45, 49, 51, 55, 62, 66, 71, 72}
  BY <1>1, <1>2, <1>3, <1>4, <1>5, <1>6, <1>7, <1>8
<1>12. K = "set_timer" => i \in {4, 22, 25, 28, 37, 56, 67}
  BY <1>1, <1>2, <1>3, <1>4, <1>5, <1>6, <1>7, <1>8
<1>13. K = "spin" => i \in {5, 14, 23, 26, 29, 50, 61}
  BY <1>1, <1>2, <1>3, <1>4, <1>5, <1>6, <1>7, <1>8
<1>14. K = "eq" => i \in {7, 8, 9, 16, 17, 18, 24, 27, 30, 32, 41, 42, 48, 52, 58, 59, 63, 69,
   70, 73}
  BY <1>1, <1>2, <1>3, <1>4, <1>5, <1>6, <1>7, <1>8
<1>15. K = "send_ipi" => i \in {13, 46}
  BY <1>1, <1>2, <1>3, <1>4, <1>5, <1>6, <1>7, <1>8
<1>16. K = "map" => i \in {34}
  BY <1>1, <1>2, <1>3, <1>4, <1>5, <1>6, <1>7, <1>8
<1>17. K = "load" => i \in {38}
  BY <1>1, <1>2, <1>3, <1>4, <1>5, <1>6, <1>7, <1>8
<1>18. K = "delay" => i \in {39, 47, 57}
  BY <1>1, <1>2, <1>3, <1>4, <1>5, <1>6, <1>7, <1>8
<1>19. K = "csrw_sie" => i \in {54}
  BY <1>1, <1>2, <1>3, <1>4, <1>5, <1>6, <1>7, <1>8
<1>20. K = "wfi" => i \in {68}
  BY <1>1, <1>2, <1>3, <1>4, <1>5, <1>6, <1>7, <1>8
<1> QED
  BY <1>9, <1>10, <1>11, <1>12, <1>13, <1>14, <1>15, <1>16, <1>17, <1>18, <1>19, <1>20 DEF K

-----------------------------------------------------------------------------
(***************************************************************************)
(* The machine under the phase.                                            *)
(***************************************************************************)
\* SBI_SET_TIMER keeps TimerFaithful with a handler of page faults, too.
LEMMA SetTimerFaithful2 ==
    ASSUME Hart, TimerFaithful, NEW h \in Harts, NEW t \in 0 .. Never,
           SBI_SET_TIMER(h, t), mtime' = mtime
    PROVE  TimerFaithful'
<1> SUFFICES ASSUME NEW k \in Harts PROVE TimerOf(k)'
  BY DEF TimerFaithful, TimerOf
<1>1. CASE k = h
  BY <1>1 DEF SBI_SET_TIMER, Hart, TimerOf
<1>2. CASE k # h
  BY <1>2 DEF SBI_SET_TIMER, Hart, TimerOf, TimerFaithful
<1> QED
  BY <1>1, <1>2

\* Only hart 0 takes interrupts.
LEMMA OnlyCore0 ==
    ASSUME Hart, NEW h \in Harts, MMode(h) \/ SHandler(h)
    PROVE  h = Core0
<1>1. CASE MMode(h)
  BY <1>1 DEF MMode, IRQ_M_SOFT_clear, IRQ_M_SOFT_inject, IRQ_M_TIMER, MSoftTakeable,
              MTimerTakeable, Hart
<1>2. CASE STrapSoft(h) \/ STrapTimer(h)
  BY <1>2 DEF STrapSoft, STrapTimer, SSoftTakeable, STimerTakeable, Hart
<1>3. CASE STrapSoftAck(h) \/ STrapTimerAck(h) \/ SRet(h)
  BY <1>3 DEF STrapSoftAck, STrapTimerAck, SRet, Hart
<1> QED
  BY <1>1, <1>2, <1>3 DEF SHandler

\* What a step of the machine may do.
Quiet ==
    /\ UNCHANGED <<request, pc, owed, SIE, g_trap>>
    /\ Core0 \in stip => Core0 \in stip'
TimerTaken ==
    /\ request[Core0] # Never /\ pc[Core0] = "thread" /\ Core0 \in SIE /\ Core0 \in STIE
    /\ pc'[Core0] = "s_timer" /\ Core0 \notin SIE'
    /\ g_trap' = [g_trap EXCEPT !.fault_count = Bump(@), !.timer_irq_count = Bump(@),
                                !.last_irq_cause = "timer"]
    /\ UNCHANGED <<request, owed, stip>>
SoftTaken ==
    /\ Core0 \in owed /\ pc[Core0] = "thread" /\ Core0 \in SIE
    /\ pc'[Core0] = "s_soft" /\ Core0 \notin SIE'
    /\ g_trap' = [g_trap EXCEPT !.fault_count = Bump(@), !.soft_irq_count = Bump(@),
                                !.last_irq_cause = "soft"]
    /\ UNCHANGED <<request, owed, stip>>
TimerAcked ==
    /\ pc[Core0] = "s_timer" /\ pc'[Core0] = "s_ret" /\ request'[Core0] = Never
    /\ UNCHANGED <<owed, SIE, g_trap>>
SoftAcked ==
    /\ pc[Core0] = "s_soft" /\ pc'[Core0] = "s_ret" /\ Core0 \notin owed'
    /\ UNCHANGED <<request, SIE, g_trap, stip>>
Returned ==
    /\ pc[Core0] = "s_ret" /\ pc'[Core0] = "thread"
    /\ UNCHANGED <<request, owed, g_trap, stip>>

\* A step of the machine is one of these, and leaves the test alone.
LEMMA MachineEffect ==
    ASSUME Base, Machine \/ UNCHANGED allvars
    PROVE  /\ UNCHANGED <<p2vars, STIE>>
           /\ Quiet \/ TimerTaken \/ SoftTaken \/ TimerAcked \/ SoftAcked \/ Returned
<1> USE DEF clint, mcsr, scsr
<1>1. CASE UNCHANGED allvars
  BY <1>1 DEF allvars, vars, Quiet
<1>2. ASSUME UNCHANGED p2vars, Tick PROVE UNCHANGED <<p2vars, STIE>> /\ Quiet
  BY <1>2 DEF Tick, Quiet
<1>3. ASSUME UNCHANGED p2vars, MMode(Core0) PROVE UNCHANGED <<p2vars, STIE>> /\ Quiet
  BY <1>3 DEF MMode, IRQ_M_SOFT_clear, IRQ_M_SOFT_inject, IRQ_M_TIMER, Quiet
<1> HIDE DEF clint, mcsr, scsr
<1>4. ASSUME STrapTimer(Core0) PROVE UNCHANGED STIE /\ TimerTaken
  <2>1. Core0 \in SIE /\ Core0 \in STIE /\ Core0 \in stip /\ EnterS(Core0, "s_timer")
    BY <1>4 DEF STrapTimer, STimerTakeable
  <2>2. pc[Core0] = "thread" /\ request[Core0] # Never
    BY <2>1, Core0Assumption DEF Base, Hart, TimerFaithful, Never
  <2>3. UNCHANGED <<request, owed, stip, STIE>>
    BY <1>4 DEF STrapTimer, mcsr
  <2>4. pc'[Core0] = "s_timer" /\ Core0 \notin SIE'
    BY <2>1, Core0Assumption DEF EnterS, Base, Hart
  <2>5. g_trap' = [g_trap EXCEPT !.fault_count = Bump(@), !.timer_irq_count = Bump(@),
                                 !.last_irq_cause = "timer"]
    BY <1>4 DEF STrapTimer
  <2> QED
    BY <2>1, <2>2, <2>3, <2>4, <2>5 DEF TimerTaken
<1>5. ASSUME STrapSoft(Core0) PROVE UNCHANGED STIE /\ SoftTaken
  <2>1. Core0 \in SIE /\ Core0 \in ssip /\ EnterS(Core0, "s_soft")
    BY <1>5 DEF STrapSoft, SSoftTakeable
  <2>2. pc[Core0] = "thread" /\ Core0 \in owed
    BY <2>1, Core0Assumption DEF Base, Hart
  <2>3. UNCHANGED <<request, owed, stip, STIE>>
    BY <1>5 DEF STrapSoft, mcsr
  <2>4. pc'[Core0] = "s_soft" /\ Core0 \notin SIE'
    BY <2>1, Core0Assumption DEF EnterS, Base, Hart
  <2>5. g_trap' = [g_trap EXCEPT !.fault_count = Bump(@), !.soft_irq_count = Bump(@),
                                 !.last_irq_cause = "soft"]
    BY <1>5 DEF STrapSoft
  <2> QED
    BY <2>1, <2>2, <2>3, <2>4, <2>5 DEF SoftTaken
<1>6. ASSUME STrapTimerAck(Core0) PROVE UNCHANGED STIE /\ TimerAcked
  BY <1>6, Core0Assumption
     DEF STrapTimerAck, SBI_SET_TIMER, TimerAcked, Base, Hart, scsr
<1>7. ASSUME STrapSoftAck(Core0) PROVE UNCHANGED STIE /\ SoftAcked
  BY <1>7, Core0Assumption
     DEF STrapSoftAck, SBI_CLEAR_IPI, SoftAcked, Base, Hart, scsr
<1>8. ASSUME SRet(Core0) PROVE UNCHANGED STIE /\ Returned
  BY <1>8, Core0Assumption DEF SRet, Returned, Base, Hart, mcsr
<1>9. ASSUME Machine
      PROVE  UNCHANGED p2vars /\ (Tick \/ MMode(Core0) \/ SHandler(Core0))
  BY <1>9, OnlyCore0 DEF Machine, Base
<1> QED
  BY <1>1, <1>2, <1>3, <1>4, <1>5, <1>6, <1>7, <1>8, <1>9 DEF SHandler

\* The interrupts that are due, under a step of the machine.
LEMMA DueKept ==
    ASSUME Base, Machine \/ UNCHANGED allvars
    PROVE  /\ Off => Off'
           /\ ~TimerDue => ~TimerDue'
           /\ ~SoftDue => ~SoftDue'
           /\ TimerDue /\ (Off \/ Core0 \notin STIE) => TimerDue'
           /\ SoftDue /\ Off => SoftDue'
           /\ TimerDue /\ Core0 \in stip => Core0 \in stip'
           /\ ~SoftDue /\ TimerDue /\ pc[Core0] = "thread" /\ Core0 \in SIE \cap stip /\ TimerDue'
                => pc'[Core0] = "thread" /\ Core0 \in SIE' \cap stip'
           /\ pc'[Core0] = "s_fault" <=> pc[Core0] = "s_fault"
<1> USE DEF Off, TimerDue, SoftDue
<1>1. CASE Quiet
  BY <1>1 DEF Quiet
<1>2. CASE TimerTaken
  BY <1>2 DEF TimerTaken
<1>3. CASE SoftTaken
  BY <1>3 DEF SoftTaken
<1>4. CASE TimerAcked
  BY <1>4 DEF TimerAcked
<1>5. CASE SoftAcked
  BY <1>5 DEF SoftAcked
<1>6. CASE Returned
  BY <1>6 DEF Returned
<1> QED
  BY <1>1, <1>2, <1>3, <1>4, <1>5, <1>6, MachineEffect

\* A counter below its limit counts.
LEMMA Counted ==
    ASSUME CounterWrap > 3, NEW n \in 0 .. 3, NEW m \in 0 .. CounterWrap - 1, m = n - 1
    PROVE  Bump(m) = n
BY CounterAssumption DEF Bump

\* What the counters say, under a step of the machine.
LEMMA CountKept ==
    ASSUME Base, CounterWrap > 3, Machine \/ UNCHANGED allvars
    PROVE  /\ \A n \in 0 .. 3 : TimerSum(n) => TimerSum(n)'
           /\ \A n \in 0 .. 1 : SoftSum(n) => SoftSum(n)'
           /\ \A n \in 0 .. 2 : ~SoftDue /\ FaultSum(n) => FaultSum(n)'
           /\ g_trap.timer_irq_count = 0 /\ (Off \/ Core0 \notin STIE)
                => g_trap'.timer_irq_count = 0
           /\ ~SoftDue /\ (TimerDue \/ g_trap.last_irq_cause = "timer")
                => TimerDue' \/ g_trap'.last_irq_cause = "timer"
           /\ ~TimerDue /\ (SoftDue \/ g_trap.last_irq_cause = "soft")
                => SoftDue' \/ g_trap'.last_irq_cause = "soft"
<1> USE DEF Off, TimerDue, SoftDue, TimerSum, SoftSum, FaultSum
<1>0. GTrap
  BY DEF Base
<1>1. CASE Quiet
  BY <1>1 DEF Quiet
<1>2. CASE TimerTaken
  <2>1. /\ g_trap'.timer_irq_count = Bump(g_trap.timer_irq_count)
        /\ g_trap'.fault_count = Bump(g_trap.fault_count)
        /\ g_trap'.soft_irq_count = g_trap.soft_irq_count
        /\ g_trap'.last_irq_cause = "timer"
    BY <1>0, <1>2 DEF TimerTaken, GTrap
  <2>2. /\ g_trap.timer_irq_count \in 0 .. CounterWrap - 1
        /\ g_trap.fault_count \in 0 .. CounterWrap - 1
    BY <1>0 DEF GTrap
  <2>3. TimerDue /\ ~TimerDue' /\ (SoftDue <=> SoftDue') /\ Core0 \in SIE /\ Core0 \in STIE
    BY <1>2 DEF TimerTaken
  <2> HIDE DEF TimerDue, SoftDue
  <2>4. \A n \in 0 .. 3 : TimerSum(n) => TimerSum(n)'
    BY <2>1, <2>2, <2>3, Counted
  <2>5. \A n \in 0 .. 2 : FaultSum(n) => FaultSum(n)'
    BY <2>1, <2>2, <2>3, Counted
  <2> QED
    BY <2>1, <2>3, <2>4, <2>5
<1>3. CASE SoftTaken
  <2>1. /\ g_trap'.soft_irq_count = Bump(g_trap.soft_irq_count)
        /\ g_trap'.timer_irq_count = g_trap.timer_irq_count
        /\ g_trap'.last_irq_cause = "soft"
    BY <1>0, <1>3 DEF SoftTaken, GTrap
  <2>2. g_trap.soft_irq_count \in 0 .. CounterWrap - 1
    BY <1>0 DEF GTrap
  <2>3. SoftDue /\ ~SoftDue' /\ (TimerDue <=> TimerDue')
    BY <1>3 DEF SoftTaken
  <2> HIDE DEF TimerDue, SoftDue
  <2>4. \A n \in 0 .. 1 : SoftSum(n) => SoftSum(n)'
    BY <2>1, <2>2, <2>3, Counted
  <2> QED
    BY <2>1, <2>3, <2>4
<1>4. CASE TimerAcked
  <2>1. g_trap' = g_trap /\ ~TimerDue /\ ~TimerDue' /\ (SoftDue <=> SoftDue')
    BY <1>4 DEF TimerAcked
  <2> HIDE DEF TimerDue, SoftDue
  <2> QED
    BY <2>1
<1>5. CASE SoftAcked
  <2>1. g_trap' = g_trap /\ ~SoftDue /\ ~SoftDue' /\ (TimerDue <=> TimerDue')
    BY <1>5 DEF SoftAcked
  <2> HIDE DEF TimerDue, SoftDue
  <2> QED
    BY <2>1
<1>6. CASE Returned
  BY <1>6 DEF Returned
<1> HIDE DEF Off, TimerDue, SoftDue, TimerSum, SoftSum, FaultSum
<1> QED
  BY <1>1, <1>2, <1>3, <1>4, <1>5, <1>6, MachineEffect

\* A step of the machine keeps what holds before each operation.
LEMMA PlaceKept ==
    ASSUME Base, CounterWrap > 3, Machine \/ UNCHANGED allvars, Place(ip)
    PROVE  Place(ip)' /\ ip' = ip
<1>1. UNCHANGED <<ip, timedOut, wokeEarly, va_valid, page, val, STIE>>
  BY MachineEffect DEF p2vars, aside
<1>2. ip \in 1 .. 74
  BY DEF Base, Script
<1>3. Masks(ip)'
  BY <1>1, DueKept DEF Place, Masks
<1>4. Dues(ip)'
  <2>1. ip \in NoSoftPlaces => ~SoftDue'
    BY DueKept DEF Place, Dues
  <2>2. ip \in 47 .. 49 => SoftDue'
    BY <1>2, DueKept DEF Place, Dues, Masks, OffPlaces
  <2>3. ip \in NoTimerPlaces => ~TimerDue'
    BY DueKept DEF Place, Dues
  <2>4. ip \in 57 .. 60 \cup 68 .. 71 => TimerDue'
    BY <1>2, DueKept DEF Place, Dues, Masks, OffPlaces
  <2>5. /\ ip = 69 /\ wokeEarly = FALSE => Core0 \in stip'
        /\ ip \in 70 .. 71 => Core0 \in stip'
    BY <1>2, DueKept DEF Place, Dues
  <2>6. ip = 72 /\ TimerDue' => pc'[Core0] = "thread" /\ Core0 \in SIE' \cap stip'
    <3>1. ip = 72 => ip \in NoSoftPlaces
      BY DEF NoSoftPlaces
    <3> QED
      BY <3>1, DueKept DEF Place, Dues
  <2>7. ip \in {15, 16, 51, 52} /\ timedOut = FALSE => ~SoftDue'
    BY DueKept DEF Place, Dues
  <2>8. ip \in {6, 7, 24, 27, 30, 62, 63} /\ timedOut = FALSE => ~TimerDue'
    BY DueKept DEF Place, Dues
  <2> QED
    BY <1>1, <2>1, <2>2, <2>3, <2>4, <2>5, <2>6, <2>7, <2>8
       DEF Dues
<1>5. Counts(ip)'
  <2>1. ip \in 2 .. 4 \cup 20 .. 22 \cup 65 .. 67 => TimerSum(0)'
    BY CountKept DEF Place, Counts
  <2>2. ip \in 5 .. 9 \cup 23 .. 25 \cup 57 .. 63 \cup 68 .. 73 => TimerSum(1)'
    BY CountKept DEF Place, Counts
  <2>3. ip \in 26 .. 28 => TimerSum(2)'
    BY CountKept DEF Place, Counts
  <2>4. ip \in 29 .. 32 => TimerSum(3)'
    BY CountKept DEF Place, Counts
  <2>5. ip \in 54 .. 56 => g_trap'.timer_irq_count = 0
    <3>1. ip \in 54 .. 56 => ip \in OffPlaces \/ ip \in 55 .. 60
      BY DEF OffPlaces
    <3> QED
      BY <3>1, CountKept DEF Place, Counts, Masks
  <2>6. ip \in 11 .. 13 \cup 44 .. 46 => SoftSum(0)'
    BY CountKept DEF Place, Counts
  <2>7. ip \in 14 .. 18 \cup 47 .. 52 => SoftSum(1)'
    BY CountKept DEF Place, Counts
  <2>8. ip \in 5 .. 9 /\ ~TimerDue' => g_trap'.last_irq_cause = "timer"
    <3>1. ip \in 5 .. 9 => ip \in NoSoftPlaces
      BY DEF NoSoftPlaces
    <3> QED
      BY <3>1, CountKept DEF Place, Counts, Dues
  <2>9. ip \in 14 .. 18 /\ ~SoftDue' => g_trap'.last_irq_cause = "soft"
    <3>1. ip \in 14 .. 18 => ip \in NoTimerPlaces
      BY DEF NoTimerPlaces
    <3> QED
      BY <3>1, CountKept DEF Place, Counts, Dues
  <2> QED
    BY <1>1, <2>1, <2>2, <2>3, <2>4, <2>5, <2>6, <2>7, <2>8, <2>9 DEF Counts
<1>6. Faulting(ip)'
  <2>1. ip \in 34 .. 42 => ip \in NoSoftPlaces
    BY DEF NoSoftPlaces
  <2>2. ip \in 34 .. 42 => ~SoftDue
    BY <2>1 DEF Place, Dues
  <2>3. \A n \in 0 .. 2 : ~SoftDue /\ FaultSum(n) => FaultSum(n)'
    BY CountKept
  <2>4. ip \in 34 .. 37 => FaultSum(0)'
    BY <2>2, <2>3 DEF Place, Faulting
  <2>5. ip \in 39 .. 42 => FaultSum(2)'
    BY <2>2, <2>3 DEF Place, Faulting
  <2>6. ip = 38 => IF va_valid' = TRUE \/ pc'[Core0] = "s_fault" THEN FaultSum(2)' ELSE FaultSum(1)'
    <3>1. ip = 38 => IF va_valid = TRUE \/ pc[Core0] = "s_fault" THEN FaultSum(2) ELSE FaultSum(1)
      BY DEF Place, Faulting
    <3>2. pc'[Core0] = "s_fault" <=> pc[Core0] = "s_fault"
      BY DueKept
    <3> QED
      BY <1>1, <2>2, <2>3, <3>1, <3>2
  <2> QED
    BY <1>1, <2>4, <2>5, <2>6 DEF Place, Faulting
<1> QED
  BY <1>1, <1>3, <1>4, <1>5, <1>6 DEF Place

-----------------------------------------------------------------------------
(***************************************************************************)
(* Every step keeps the types, the timer and the fault at the load.        *)
(***************************************************************************)
\* The hart is about to execute operation ip.
LEMMA AtPlace ==
    ASSUME Base, NEW op, At(op)
    PROVE  /\ running = TRUE /\ pc[Core0] = "thread" /\ Executes(Core0)
           /\ ip \in 1 .. 73 /\ Field(Program[ip], 1) = op
<1>1. running /\ InThread(Core0) /\ ip <= Len(Program) /\ Program[ip][1] = op
  BY DEF At
<1>2. running = TRUE /\ ip \in 1 .. 74
  BY <1>1, Zenon DEF Base, Script
<1>3. pc[Core0] = "thread" /\ Executes(Core0)
  BY <1>1 DEF InThread
<1>4. Len(Program) = 73
  BY Parts
<1>5. ip \in 1 .. 73
  BY <1>1, <1>2, <1>4
<1>6. Field(Program[ip], 1) = op
  BY <1>1, Zenon DEF Field
<1> QED
  BY <1>2, <1>3, <1>5, <1>6

\* A step that writes none of these keeps Hart.
LEMMA HartFrame ==
    ASSUME Hart, UNCHANGED <<mtime, mtimecmp, request, pc, SIE, mtie, stip, owed, msip, inM, ssip>>
    PROVE  Hart'
BY DEF Hart

\* A step of the machine keeps Base.
LEMMA MachineBase ==
    ASSUME Base, Machine \/ UNCHANGED allvars
    PROVE  Base'
<1> USE DEF clint, mcsr, scsr
<1>0. Hart /\ GTrap /\ TimerFaithful /\ Script
  BY DEF Base
<1>1. CASE UNCHANGED allvars
  BY <1>1 DEF allvars, vars, p2vars, aside, verdict, Base, Hart, GTrap, TimerFaithful, Script
<1>2. ASSUME Tick PROVE Hart' /\ GTrap' /\ TimerFaithful'
  <2>1. Hart'
    BY <1>0, <1>2 DEF Tick, Hart
  <2>2. GTrap'
    BY <1>0, <1>2 DEF Tick, GTrap
  <2>3. TimerFaithful'
    BY <1>0, <1>2 DEF Tick, Hart, TimerFaithful, Never
  <2> QED
    BY <2>1, <2>2, <2>3
<1>3. ASSUME IRQ_M_SOFT_clear(Core0) \/ IRQ_M_SOFT_inject(Core0)
      PROVE  Hart' /\ GTrap' /\ TimerFaithful'
  <2>1. Hart'
    BY <1>0, <1>3 DEF IRQ_M_SOFT_clear, IRQ_M_SOFT_inject, Hart, MSoftTakeable
  <2>2. GTrap'
    BY <1>0, <1>3 DEF IRQ_M_SOFT_clear, IRQ_M_SOFT_inject, GTrap
  <2>3. TimerFaithful'
    BY <1>0, <1>3, TimerFrame DEF IRQ_M_SOFT_clear, IRQ_M_SOFT_inject
  <2> QED
    BY <2>1, <2>2, <2>3
<1>4. ASSUME IRQ_M_TIMER(Core0) PROVE Hart' /\ GTrap' /\ TimerFaithful'
  <2>1. Hart'
    BY <1>0, <1>4, Core0Assumption, TimeAssumption DEF IRQ_M_TIMER, Hart, Never
  <2>2. GTrap'
    BY <1>0, <1>4 DEF IRQ_M_TIMER, GTrap
  <2>3. TimerFaithful'
    BY <1>0, <1>4, Core0Assumption, TimeAssumption
       DEF IRQ_M_TIMER, Hart, TimerFaithful, Never, MTimerTakeable
  <2> QED
    BY <2>1, <2>2, <2>3
<1>5. ASSUME STrapSoft(Core0) PROVE Hart' /\ GTrap' /\ TimerFaithful'
  <2>1. Hart'
    <3>1. EnterS(Core0, "s_soft")
          /\ UNCHANGED <<mtime, mtimecmp, request, mtie, stip, owed, msip, inM, ssip>>
      BY <1>5 DEF STrapSoft
    <3> QED
      BY <1>0, <3>1, Core0Assumption DEF EnterS, Hart
  <2>2. GTrap'
    BY <1>0, <1>5, BumpType DEF STrapSoft, GTrap, Irq
  <2>3. TimerFaithful'
    BY <1>0, <1>5, TimerFrame DEF STrapSoft
  <2> QED
    BY <2>1, <2>2, <2>3
<1>6. ASSUME STrapTimer(Core0) PROVE Hart' /\ GTrap' /\ TimerFaithful'
  <2>1. Hart'
    <3>1. EnterS(Core0, "s_timer")
          /\ UNCHANGED <<mtime, mtimecmp, request, mtie, stip, owed, msip, inM, ssip>>
      BY <1>6 DEF STrapTimer
    <3> QED
      BY <1>0, <3>1, Core0Assumption DEF EnterS, Hart
  <2>2. GTrap'
    BY <1>0, <1>6, BumpType DEF STrapTimer, GTrap, Irq
  <2>3. TimerFaithful'
    BY <1>0, <1>6, TimerFrame DEF STrapTimer
  <2> QED
    BY <2>1, <2>2, <2>3
<1>7. ASSUME STrapSoftAck(Core0) PROVE Hart' /\ GTrap' /\ TimerFaithful'
  <2>1. Hart'
    <3>1. Core0 \notin inM /\ Core0 \notin msip
      BY <1>7 DEF STrapSoftAck, Executes, MSoftTakeable
    <3> QED
      BY <1>0, <1>7, <3>1, Core0Assumption DEF STrapSoftAck, SBI_CLEAR_IPI, Hart
  <2>2. GTrap'
    BY <1>0, <1>7 DEF STrapSoftAck, GTrap
  <2>3. TimerFaithful'
    BY <1>0, <1>7, TimerFrame DEF STrapSoftAck
  <2> QED
    BY <2>1, <2>2, <2>3
<1>8. ASSUME STrapTimerAck(Core0) PROVE Hart' /\ GTrap' /\ TimerFaithful'
  <2>0. Never \in 0 .. Never
    BY TimeAssumption DEF Never
  <2>1. Hart'
    BY <1>0, <1>8, <2>0, Core0Assumption DEF STrapTimerAck, SBI_SET_TIMER, Hart
  <2>2. GTrap'
    BY <1>0, <1>8 DEF STrapTimerAck, GTrap
  <2>3. TimerFaithful'
    BY <1>0, <1>8, <2>0, Core0Assumption, SetTimerFaithful2 DEF STrapTimerAck
  <2> QED
    BY <2>1, <2>2, <2>3
<1>9. ASSUME SRet(Core0) PROVE Hart' /\ GTrap' /\ TimerFaithful'
  <2>1. Hart'
    BY <1>0, <1>9, Core0Assumption DEF SRet, Hart
  <2>2. GTrap'
    BY <1>0, <1>9 DEF SRet, GTrap
  <2>3. TimerFaithful'
    BY <1>0, <1>9, TimerFrame DEF SRet
  <2> QED
    BY <2>1, <2>2, <2>3
<1> HIDE DEF clint, mcsr, scsr
<1>10. ASSUME Machine PROVE Hart' /\ GTrap' /\ TimerFaithful'
  <2>1. Tick \/ MMode(Core0) \/ SHandler(Core0)
    BY <1>0, <1>10, OnlyCore0 DEF Machine
  <2> QED
    BY <2>1, <1>2, <1>3, <1>4, <1>5, <1>6, <1>7, <1>8, <1>9 DEF MMode, SHandler
<1>11. Script'
  BY <1>0, MachineEffect, DueKept DEF Script, p2vars, aside, verdict
<1> QED
  BY <1>1, <1>10, <1>11 DEF Base

\* What the resets name.
LEMMA ResetArg ==
    ASSUME NEW i \in {1, 10, 19, 33, 43, 53, 64}
    PROVE  /\ i \in {1, 33} => Field(Program[i], 2) = {"fault_count", "timer_irq_count"}
           /\ i \in {10, 43} => Field(Program[i], 2) = {"soft_irq_count"}
           /\ i \in {19, 53, 64} => Field(Program[i], 2) = {"timer_irq_count"}
           /\ "last_irq_cause" \notin Field(Program[i], 2)
<1>1. i = 1 \/ i = 10 \/ i = 19 \/ i = 33 \/ i = 43 \/ i = 53 \/ i = 64
  OBVIOUS
<1>2. /\ Program[1] = Reset({"fault_count", "timer_irq_count"})
      /\ Program[33] = Reset({"fault_count", "timer_irq_count"})
      /\ Program[10] = Reset({"soft_irq_count"}) /\ Program[43] = Reset({"soft_irq_count"})
      /\ Program[19] = Reset({"timer_irq_count"}) /\ Program[53] = Reset({"timer_irq_count"})
      /\ Program[64] = Reset({"timer_irq_count"})
  BY Ops2_1, Ops2_2, Ops2_3, Ops2_4, Ops2_5, Ops2_6, Ops2_7
<1>3. \A x : Field(Reset(x), 2) = x
  BY OpFields
<1> QED
  BY <1>1, <1>2, <1>3

\* The arguments of an operation.
LEMMA ArgOf == \A k : Arg(k) = Field(Program[ip], k)
BY Zenon DEF Arg, Field

\* What a reset does to the counters.
LEMMA ResetEffect ==
    ASSUME Base, ResetCounters
    PROVE  /\ GTrap'
           /\ ip \in {1, 10, 19, 33, 43, 53, 64}
           /\ ip \in {1, 19, 33, 53, 64} => g_trap'.timer_irq_count = 0
           /\ ip \in {10, 43} => g_trap'.soft_irq_count = 0
           /\ ip = 33 => g_trap'.fault_count = 0
<1> DEFINE A == Field(Program[ip], 2)
<1>1. At("reset") /\ g_trap' = [f \in DOMAIN g_trap |-> IF f \in A THEN 0 ELSE g_trap[f]]
  BY ArgOf DEF ResetCounters
<1>2. ip \in 1 .. 73 /\ Field(Program[ip], 1) = "reset"
  BY <1>1, AtPlace
<1>3. ip \in {1, 10, 19, 33, 43, 53, 64}
  BY <1>2, WhereIs
<1>4. /\ ip \in {1, 33} => A = {"fault_count", "timer_irq_count"}
      /\ ip \in {10, 43} => A = {"soft_irq_count"}
      /\ ip \in {19, 53, 64} => A = {"timer_irq_count"}
      /\ "last_irq_cause" \notin A
  BY <1>3, ResetArg
<1> HIDE DEF A
<1>5. GTrap
  BY DEF Base
<1>6. 0 \in 0 .. CounterWrap - 1
  BY CounterAssumption
<1>7. /\ g_trap'.timer_irq_count = IF "timer_irq_count" \in A THEN 0 ELSE g_trap.timer_irq_count
      /\ g_trap'.soft_irq_count = IF "soft_irq_count" \in A THEN 0 ELSE g_trap.soft_irq_count
      /\ g_trap'.fault_count = IF "fault_count" \in A THEN 0 ELSE g_trap.fault_count
  BY <1>1, <1>5 DEF GTrap
<1>8. GTrap'
  BY <1>1, <1>4, <1>5, <1>6 DEF GTrap
<1> QED
  BY <1>3, <1>4, <1>7, <1>8

\* A comparison kept in a variable.
LEMMA Comparison ==
    ASSUME NEW a \in Nat, NEW b \in Nat, NEW t, t = (a < b)
    PROVE  t \in BOOLEAN /\ (t = FALSE => a >= b)
<1>1. CASE a < b
  <2>1. t = TRUE
    BY <1>1, Zenon
  <2> QED
    BY <2>1, Zenon
<1>2. CASE ~(a < b)
  <2>0. (a < b) = FALSE
    BY <1>2, SMT
  <2>1. t = FALSE
    BY <2>0, Zenon
  <2>2. a >= b
    BY <1>2, SMT
  <2> QED
    BY <2>1, <2>2, Zenon
<1> QED
  BY <1>1, <1>2, Zenon

\* A bounded loop that does not time out has seen its count.
LEMMA SpinEffect ==
    ASSUME Base, SpinEnd
    PROVE  /\ timedOut' \in BOOLEAN
           /\ ip \in {5, 14, 23, 26, 29, 50, 61}
           /\ ip \in {5, 23, 61} /\ timedOut' = FALSE => g_trap.timer_irq_count >= 1
           /\ ip = 26 /\ timedOut' = FALSE => g_trap.timer_irq_count >= 2
           /\ ip = 29 /\ timedOut' = FALSE => g_trap.timer_irq_count >= 3
           /\ ip \in {14, 50} /\ timedOut' = FALSE => g_trap.soft_irq_count >= 1
<1> DEFINE A == Field(Program[ip], 2)
           B == Field(Program[ip], 3)
<1>1. At("spin") /\ timedOut' = (g_trap[A] < B)
  BY ArgOf DEF SpinEnd
<1>2. ip \in 1 .. 73 /\ Field(Program[ip], 1) = "spin"
  BY <1>1, AtPlace
<1>3. ip \in {5, 14, 23, 26, 29, 50, 61}
  BY <1>2, WhereIs
<1>4. /\ Program[5] = Spin("timer_irq_count", 1) /\ Program[23] = Spin("timer_irq_count", 1)
      /\ Program[61] = Spin("timer_irq_count", 1) /\ Program[26] = Spin("timer_irq_count", 2)
      /\ Program[29] = Spin("timer_irq_count", 3) /\ Program[14] = Spin("soft_irq_count", 1)
      /\ Program[50] = Spin("soft_irq_count", 1)
  BY Ops2_1, Ops2_2, Ops2_3, Ops2_5, Ops2_6
<1>5. \A x, n : Field(Spin(x, n), 2) = x /\ Field(Spin(x, n), 3) = n
  BY OpFields
<1>6. /\ ip \in {5, 23, 61} => A = "timer_irq_count" /\ B = 1
      /\ ip = 26 => A = "timer_irq_count" /\ B = 2
      /\ ip = 29 => A = "timer_irq_count" /\ B = 3
      /\ ip \in {14, 50} => A = "soft_irq_count" /\ B = 1
  BY <1>4, <1>5
<1> HIDE DEF A, B
<1>7. g_trap.timer_irq_count \in Nat /\ g_trap.soft_irq_count \in Nat
  BY CounterAssumption DEF Base, GTrap
<1>8. g_trap[A] \in Nat /\ B \in Nat
  BY <1>3, <1>6, <1>7
<1>9. timedOut' \in BOOLEAN /\ (timedOut' = FALSE => g_trap[A] >= B)
  BY <1>1, <1>8, Comparison, Zenon
<1>10. timedOut' \in BOOLEAN
  BY <1>9, Zenon
<1> QED
  BY <1>3, <1>6, <1>9, <1>10

\* The next deadline is one.
LEMMA SoonIsDeadline == ASSUME Hart PROVE Soon \in 0 .. Never /\ Soon # Never
BY TimeAssumption DEF Hart, Soon, Never

\* A step of the phase keeps Base.
LEMMA TestBase ==
    ASSUME Base, Test
    PROVE  Base'
<1> USE DEF clint, mcsr, scsr, verdict, vars, aside
<1> DEFINE Good == Hart' /\ GTrap' /\ TimerFaithful'
           Clock == UNCHANGED <<mtime, mtimecmp, request, pc, mtie, stip, owed, msip, inM, ssip>>
<1>0. Hart /\ GTrap /\ TimerFaithful /\ Script
  BY DEF Base
<1>1. ASSUME Clock, SIE' = SIE, GTrap' PROVE Good
  BY <1>0, <1>1, HartFrame, TimerFrame
<1>2. ASSUME g_trap' = g_trap PROVE GTrap'
  BY <1>0, <1>2 DEF GTrap
<1>3. ASSUME ResetCounters PROVE Good
  BY <1>1, <1>3, ResetEffect DEF ResetCounters
<1>4. ASSUME EnableSie \/ AssignSie PROVE Good
  BY <1>1, <1>2, <1>4 DEF EnableSie, AssignSie, write_sie
<1>5. ASSUME WriteSIE PROVE Good
  <2>1. Clock /\ g_trap' = g_trap /\ SIE' \subseteq SIE \cup {Core0} /\ pc[Core0] = "thread"
    BY <1>5 DEF WriteSIE, SetSIE, InThread
  <2>2. Hart'
    BY <1>0, <2>1 DEF Hart
  <2> QED
    BY <1>0, <1>2, <2>1, <2>2, TimerFrame
<1>6. ASSUME ArmTimer PROVE Good
  <2>1. /\ SBI_SET_TIMER(Core0, Soon) /\ g_trap' = g_trap
        /\ UNCHANGED <<mtime, msip, ssip, SIE, inM, pc, owed>>
    BY <1>6 DEF ArmTimer, sbi_set_timer
  <2>2. Soon \in 0 .. Never
    BY <1>0, SoonIsDeadline
  <2>3. Hart'
    BY <1>0, <2>1, <2>2, Core0Assumption DEF Hart, SBI_SET_TIMER
  <2>4. TimerFaithful'
    BY <1>0, <2>1, <2>2, Core0Assumption, SetTimerFaithful2
  <2> QED
    BY <1>2, <2>1, <2>3, <2>4
<1>7. ASSUME SendSelfIpi PROVE Good
  <2>1. /\ SBI_SEND_IPI(Core0) /\ g_trap' = g_trap
        /\ UNCHANGED <<mtime, mtimecmp, request, pc, SIE, mtie, stip, ssip, inM>>
    BY <1>7 DEF SendSelfIpi, sbi_send_ipi
  <2>2. Hart'
    BY <1>0, <2>1, Core0Assumption DEF Hart, SBI_SEND_IPI
  <2> QED
    BY <1>0, <1>2, <2>1, <2>2, TimerFrame
<1>8. ASSUME SpinEnd \/ Pause \/ MapPage \/ Assert \/ Return PROVE Good
  BY <1>1, <1>2, <1>8 DEF SpinEnd, Pause, MapPage, Assert, Return
<1>9. ASSUME LoadVa PROVE Good
  <2>1. CASE UNCHANGED vars
    BY <1>1, <1>2, <2>1
  <2>2. CASE /\ EnterS(Core0, "s_fault")
             /\ g_trap' = [g_trap EXCEPT !.fault_count = Bump(@)]
             /\ UNCHANGED <<mtime, clint, mcsr, STIE, SSIE, inM, request, owed>>
    <3>1. Hart'
      BY <1>0, <2>2, Core0Assumption DEF EnterS, Hart
    <3>2. GTrap'
      BY <1>0, <2>2, BumpType DEF GTrap
    <3> QED
      BY <1>0, <2>2, <3>1, <3>2, TimerFrame
  <2> QED
    BY <1>9, <2>1, <2>2 DEF LoadVa
<1>10. ASSUME FixPte PROVE Good
  <2>1. /\ pc[Core0] = "s_fault" /\ pc' = [pc EXCEPT ![Core0] = "s_ret"] /\ g_trap' = g_trap
        /\ UNCHANGED <<mtime, mtimecmp, request, SIE, mtie, stip, owed, msip, inM, ssip>>
    BY <1>10 DEF FixPte
  <2>2. Hart'
    BY <1>0, <2>1, Core0Assumption DEF Hart
  <2> QED
    BY <1>0, <1>2, <2>1, <2>2, TimerFrame
<1> HIDE DEF Good, clint, mcsr, scsr, verdict, vars, aside
<1>11. Good
  BY <1>3, <1>4, <1>5, <1>6, <1>7, <1>8, <1>9, <1>10 DEF Test
<1>12. Script'
  <2> USE DEF Script, Done
  <2>1. ASSUME NEW op, At(op), Done, UNCHANGED <<pc, timedOut, running>>, wokeEarly' \in BOOLEAN
        PROVE  Script'
    <3>1. ip' \in 1 .. 74 /\ pc'[Core0] = "thread"
      <4>1. ip \in 1 .. 73 /\ pc[Core0] = "thread"
        BY <2>1, AtPlace, Zenon
      <4> QED
        BY <2>1, <4>1
    <3>2. running' \in BOOLEAN /\ timedOut' \in BOOLEAN
      BY <1>0, <2>1, Zenon
    <3> QED
      BY <2>1, <3>1, <3>2
  <2>2. ASSUME NEW op, At(op), UNCHANGED <<ip, pc, timedOut, wokeEarly>>, running' = FALSE
        PROVE  Script'
    BY <1>0, <2>2
  <2>0. wokeEarly \in BOOLEAN
    BY <1>0
  <2>3. CASE ResetCounters
    BY <2>0, <2>1, <2>3 DEF ResetCounters, verdict, aside
  <2>4. CASE EnableSie \/ AssignSie \/ WriteSIE \/ ArmTimer \/ SendSelfIpi
    BY <2>0, <2>1, <2>4 DEF EnableSie, AssignSie, WriteSIE, ArmTimer, SendSelfIpi, write_sie,
       SetSIE, sbi_set_timer, sbi_send_ipi, verdict, aside
  <2>5. CASE SpinEnd
    <3>1. timedOut' \in BOOLEAN
      BY <2>5, SpinEffect, Zenon
    <3>2. At("spin") /\ ip' = ip + 1 /\ UNCHANGED <<pc, running, wokeEarly>>
      BY <2>5 DEF SpinEnd, vars, verdict
    <3>3. ip' \in 1 .. 74 /\ pc'[Core0] = "thread"
      <4>1. ip \in 1 .. 73 /\ pc[Core0] = "thread"
        BY <3>2, AtPlace, Zenon
      <4> QED
        BY <3>2, <4>1
    <3>4. running' \in BOOLEAN /\ wokeEarly' \in BOOLEAN
      BY <1>0, <3>2, Zenon
    <3> QED
      BY <3>1, <3>3, <3>4
  <2>6. CASE Pause \/ MapPage
    <3>1. wokeEarly' \in BOOLEAN
      <4>1. wokeEarly' = wokeEarly \/ wokeEarly' = TRUE
        BY <2>6, Zenon DEF Pause, MapPage
      <4> QED
        BY <2>0, <4>1, Zenon
    <3> QED
      BY <2>1, <2>6, <3>1 DEF Pause, MapPage, vars, verdict
  <2>7. CASE LoadVa
    <3>1. At("load") /\ UNCHANGED <<timedOut, running, wokeEarly>>
      BY <2>7 DEF LoadVa, verdict
    <3>2. ip = 38
      <4>1. ip \in 1 .. 73 /\ Field(Program[ip], 1) = "load"
        BY <3>1, AtPlace
      <4> QED
        BY <4>1, WhereIs
    <3>3. CASE Done /\ UNCHANGED vars
      BY <2>0, <2>1, <3>1, <3>3 DEF vars
    <3>4. CASE UNCHANGED ip
      BY <1>0, <3>1, <3>2, <3>4
    <3> QED
      BY <2>7, <3>3, <3>4 DEF LoadVa
  <2>8. CASE FixPte
    <3>1. pc'[Core0] = "s_ret" /\ UNCHANGED <<ip, timedOut, running, wokeEarly>>
      BY <1>0, <2>8, Core0Assumption DEF FixPte, verdict, Hart
    <3> QED
      BY <1>0, <3>1
  <2>9. CASE Assert
    <3>1. At("eq") /\ UNCHANGED <<pc, timedOut, wokeEarly>>
      BY <2>9 DEF Assert, vars, aside
    <3>2. \/ Done /\ UNCHANGED running
          \/ running' = FALSE /\ UNCHANGED ip
      BY <2>9 DEF Assert, verdict
    <3> QED
      BY <2>0, <2>1, <2>2, <3>1, <3>2
  <2>10. CASE Return
    BY <1>0, <2>10 DEF Return, vars, aside
  <2> QED
    BY <2>3, <2>4, <2>5, <2>6, <2>7, <2>8, <2>9, <2>10 DEF Test
<1> QED
  BY <1>11, <1>12 DEF Base, Good

-----------------------------------------------------------------------------
(***************************************************************************)
(* The steps of the phase, operation by operation.                         *)
(***************************************************************************)
\* An operation that leaves the interrupts and the counters alone ...
Still == UNCHANGED <<request, pc, owed, stip, g_trap>>

\* ... and what it keeps.
Kept ==
    /\ TimerDue' <=> TimerDue
    /\ SoftDue' <=> SoftDue
    /\ \A n \in 0 .. 3 : TimerSum(n)' <=> TimerSum(n)
    /\ \A n \in 0 .. 3 : SoftSum(n)' <=> SoftSum(n)
    /\ \A n \in 0 .. 3 : FaultSum(n)' <=> FaultSum(n)
    /\ g_trap' = g_trap /\ stip' = stip /\ pc' = pc

\* It keeps what is due and what is counted.
LEMMA StillKeeps == Still => Kept
BY DEF Still, Kept, TimerDue, SoftDue, TimerSum, SoftSum, FaultSum

\* A delay changes nothing; wfi completes with the timer pending, or early.
LEMMA PauseStep ==
    ASSUME Base, Place(ip), Pause
    PROVE  Place(ip)'
<1>1. ip' = ip + 1 /\ Still /\ UNCHANGED <<STIE, SIE, timedOut, va_valid, page, val>>
  BY DEF Pause, vars, Done, Still
<1>2. ip \in {39, 47, 57, 68}
  <2>1. ip \in 1 .. 73 /\ (Field(Program[ip], 1) = "delay" \/ Field(Program[ip], 1) = "wfi")
    BY AtPlace DEF Pause
  <2> QED
    BY <2>1, WhereIs
<1>3. Kept
  BY <1>1, StillKeeps
<1>4. Off' <=> Off
  BY <1>1, <1>3 DEF Off, Kept
<1>5. ip = 68 /\ wokeEarly' = FALSE => Core0 \in stip
  <2> SUFFICES ASSUME ip = 68, wokeEarly' = FALSE PROVE Core0 \in stip
    OBVIOUS
  <2>1. At("wfi") /\ WfiResumes(Core0)
    <3>1. Field(Program[68], 1) = "wfi"
      BY KindOf
    <3>2. ~At("delay")
      <4>1. At("delay") => Field(Program[ip], 1) = "delay"
        BY AtPlace
      <4> QED
        BY <3>1, <4>1
    <3>3. wokeEarly' # TRUE
      BY Zenon
    <3> QED
      BY <3>2, <3>3, Zenon DEF Pause
  <2>2. pc[Core0] = "thread" /\ Executes(Core0)
    BY <2>1, AtPlace
  <2>3. ~SoftDue
    BY DEF Place, Dues, NoSoftPlaces
  <2>4. Core0 \notin ssip
    BY <2>2, <2>3 DEF SoftDue, Base, Hart
  <2> QED
    BY <2>1, <2>2, <2>4 DEF WfiResumes, Executes
<1> USE DEF Place, Masks, Dues, Counts, Faulting, OffPlaces, NoSoftPlaces, NoTimerPlaces, Kept
<1>10. CASE ip = 39
  BY <1>10, <1>1, <1>3, <1>4, <1>5
<1>11. CASE ip = 47
  BY <1>11, <1>1, <1>3, <1>4, <1>5
<1>12. CASE ip = 57
  BY <1>12, <1>1, <1>3, <1>4, <1>5
<1>13. CASE ip = 68
  BY <1>13, <1>1, <1>3, <1>4, <1>5
<1> HIDE DEF Place, Masks, Dues, Counts, Faulting, OffPlaces, NoSoftPlaces, NoTimerPlaces,
         Kept
<1> QED
  BY <1>2, <1>10, <1>11, <1>12, <1>13

\* pt_map_page and the clearing of V.
LEMMA MapStep ==
    ASSUME Base, Place(ip), MapPage
    PROVE  Place(ip)'
<1>1. ip' = ip + 1 /\ Still /\ va_valid' = FALSE /\ page' = "DEAD0004"
      /\ UNCHANGED <<STIE, SIE, timedOut, wokeEarly>>
  BY DEF MapPage, vars, Done, Still
<1>2. ip \in {34}
  <2>1. ip \in 1 .. 73 /\ Field(Program[ip], 1) = "map"
    BY AtPlace DEF MapPage
  <2> QED
    BY <2>1, WhereIs
<1>3. Kept
  BY <1>1, StillKeeps
<1>4. Off' <=> Off
  BY <1>1, <1>3 DEF Off, Kept
<1> USE DEF Place, Masks, Dues, Counts, Faulting, OffPlaces, NoSoftPlaces, NoTimerPlaces, Kept
<1>10. CASE ip = 34
  BY <1>10, <1>1, <1>3, <1>4
<1> HIDE DEF Place, Masks, Dues, Counts, Faulting, OffPlaces, NoSoftPlaces, NoTimerPlaces,
         Kept
<1> QED
  BY <1>2, <1>10

\* The writes of sie.
LEMMA SieStep ==
    ASSUME Base, Place(ip), EnableSie \/ AssignSie
    PROVE  Place(ip)'
<1>1. ip' = ip + 1 /\ Still
      /\ UNCHANGED <<SIE, timedOut, wokeEarly, va_valid, page, val>>
  BY DEF EnableSie, AssignSie, write_sie, mcsr, Done, Still, aside
<1>2. ip \in {2, 11, 20, 35, 44, 54, 60, 65}
  <2>1. ip \in 1 .. 73 /\ (Field(Program[ip], 1) = "csrs_sie" \/ Field(Program[ip], 1) = "csrw_sie")
    BY AtPlace DEF EnableSie, AssignSie
  <2> QED
    BY <2>1, WhereIs
<1>3. Kept
  BY <1>1, StillKeeps
<1>4. Off' <=> Off
  BY <1>1, <1>3 DEF Off, Kept
<1>5. ip = 54 => Core0 \notin STIE'
  <2> SUFFICES ASSUME ip = 54 PROVE Core0 \notin STIE'
    OBVIOUS
  <2>1. Field(Program[54], 1) = "csrw_sie" /\ Field(Program[54], 2) = {"soft"}
    BY Ops2_6, OpFields
  <2>2. AssignSie
    <3>1. EnableSie => Field(Program[ip], 1) = "csrs_sie"
      BY AtPlace DEF EnableSie
    <3> QED
      BY <2>1, <3>1
  <2>3. Arg(2) = {"soft"}
    BY <2>1, ArgOf
  <2> QED
    BY <2>2, <2>3 DEF AssignSie, write_sie
<1>6. ip = 65 => Core0 \in STIE'
  <2> SUFFICES ASSUME ip = 65 PROVE Core0 \in STIE'
    OBVIOUS
  <2>1. Field(Program[65], 1) = "csrs_sie" /\ Field(Program[65], 2) = "timer"
    BY Ops2_7, OpFields
  <2>2. EnableSie
    <3>1. AssignSie => Field(Program[ip], 1) = "csrw_sie"
      BY AtPlace DEF AssignSie
    <3> QED
      BY <2>1, <3>1
  <2>3. Arg(2) = "timer"
    BY <2>1, ArgOf
  <2> QED
    BY <2>2, <2>3 DEF EnableSie, write_sie
<1> USE DEF Place, Masks, Dues, Counts, Faulting, OffPlaces, NoSoftPlaces, NoTimerPlaces, Kept
<1>10. CASE ip = 2
  BY <1>10, <1>1, <1>3, <1>4, <1>5, <1>6
<1>11. CASE ip = 11
  BY <1>11, <1>1, <1>3, <1>4, <1>5, <1>6
<1>12. CASE ip = 20
  BY <1>12, <1>1, <1>3, <1>4, <1>5, <1>6
<1>13. CASE ip = 35
  BY <1>13, <1>1, <1>3, <1>4, <1>5, <1>6
<1>14. CASE ip = 44
  BY <1>14, <1>1, <1>3, <1>4, <1>5, <1>6
<1>15. CASE ip = 54
  BY <1>15, <1>1, <1>3, <1>4, <1>5, <1>6
<1>16. CASE ip = 60
  BY <1>16, <1>1, <1>3, <1>4, <1>5, <1>6
<1>17. CASE ip = 65
  BY <1>17, <1>1, <1>3, <1>4, <1>5, <1>6
<1> HIDE DEF Place, Masks, Dues, Counts, Faulting, OffPlaces, NoSoftPlaces, NoTimerPlaces,
         Kept
<1> QED
  BY <1>2, <1>10, <1>11, <1>12, <1>13, <1>14, <1>15, <1>16, <1>17

\* set_csr sets SIE ...
LEMMA OnArg ==
    ASSUME NEW i \in {3, 12, 21, 36, 49, 55, 71}
    PROVE  Field(Program[i], 2) = TRUE
<1>1. /\ Program[3] = EnableS
      /\ Program[12] = EnableS
      /\ Program[21] = EnableS
      /\ Program[36] = EnableS
      /\ Program[49] = EnableS
      /\ Program[55] = EnableS
      /\ Program[71] = EnableS
  BY Ops2_1, Ops2_2, Ops2_3, Ops2_4, Ops2_5, Ops2_6, Ops2_7
<1>2. Program[i] = EnableS
  BY <1>1
<1>3. Field(EnableS, 2) = TRUE
  BY OpFields
<1> QED
  BY <1>2, <1>3, Zenon

\* ... and clear_csr clears it.
LEMMA OffArg ==
    ASSUME NEW i \in {6, 15, 31, 40, 45, 51, 62, 66, 72}
    PROVE  Field(Program[i], 2) = FALSE
<1>1. /\ Program[6] = DisableS
      /\ Program[15] = DisableS
      /\ Program[31] = DisableS
      /\ Program[40] = DisableS
      /\ Program[45] = DisableS
      /\ Program[51] = DisableS
      /\ Program[62] = DisableS
      /\ Program[66] = DisableS
      /\ Program[72] = DisableS
  BY Ops2_1, Ops2_2, Ops2_3, Ops2_4, Ops2_5, Ops2_6, Ops2_7
<1>2. Program[i] = DisableS
  BY <1>1
<1>3. Field(DisableS, 2) = FALSE
  BY OpFields
<1> QED
  BY <1>2, <1>3, Zenon

\* The writes of SIE: the timer that waits for P2.7 is taken before the second.
LEMMA SIEStep ==
    ASSUME Base, Place(ip), WriteSIE
    PROVE  Place(ip)'
<1>1. ip' = ip + 1 /\ Still
      /\ UNCHANGED <<STIE, timedOut, wokeEarly, va_valid, page, val>>
  BY DEF WriteSIE, SetSIE, mcsr, Done, Still, aside
<1>2. ip \in {3, 6, 12, 15, 21, 31, 36, 40, 45, 49, 51, 55, 62, 66, 71, 72}
  <2>1. ip \in 1 .. 73 /\ Field(Program[ip], 1) = "SIE"
    BY AtPlace DEF WriteSIE
  <2> QED
    BY <2>1, WhereIs
<1>3. Kept
  BY <1>1, StillKeeps
<1>4. pc[Core0] = "thread" /\ Executes(Core0)
  BY AtPlace DEF WriteSIE
<1>5. /\ ip \in {3, 12, 21, 36, 49, 55, 71} => Core0 \in SIE'
      /\ ip \in {6, 15, 31, 40, 45, 51, 62, 66, 72} => Off'
  <2>1. SIE' = IF Arg(2) THEN SIE \cup {Core0} ELSE SIE \ {Core0}
    BY DEF WriteSIE, SetSIE
  <2>2. ASSUME ip \in {3, 12, 21, 36, 49, 55, 71} PROVE Core0 \in SIE'
    <3>1. Field(Program[ip], 2) = TRUE
      BY <2>2, OnArg
    <3>2. Arg(2) = TRUE
      BY <3>1, ArgOf, Zenon
    <3> QED
      BY <2>1, <3>2
  <2>3. ASSUME ip \in {6, 15, 31, 40, 45, 51, 62, 66, 72} PROVE Off'
    <3>1. Field(Program[ip], 2) = FALSE
      BY <2>3, OffArg
    <3>2. Arg(2) = FALSE
      BY <3>1, ArgOf, Zenon
    <3> QED
      BY <1>3, <1>4, <2>1, <3>2 DEF Off, Kept
  <2> QED
    BY <2>2, <2>3
<1>6. ip = 72 => ~TimerDue
  <2> SUFFICES ASSUME ip = 72, TimerDue PROVE FALSE
    OBVIOUS
  <2>1. Core0 \in SIE \cap stip /\ Core0 \in STIE
    BY DEF Place, Dues, Masks
  <2> QED
    BY <1>4, <2>1 DEF Executes, STimerTakeable
<1> USE DEF Place, Masks, Dues, Counts, Faulting, OffPlaces, NoSoftPlaces, NoTimerPlaces, Kept
<1>10. CASE ip = 3
  BY <1>10, <1>1, <1>3, <1>4, <1>5, <1>6
<1>11. CASE ip = 6
  BY <1>11, <1>1, <1>3, <1>4, <1>5, <1>6
<1>12. CASE ip = 12
  BY <1>12, <1>1, <1>3, <1>4, <1>5, <1>6
<1>13. CASE ip = 15
  BY <1>13, <1>1, <1>3, <1>4, <1>5, <1>6
<1>14. CASE ip = 21
  BY <1>14, <1>1, <1>3, <1>4, <1>5, <1>6
<1>15. CASE ip = 31
  BY <1>15, <1>1, <1>3, <1>4, <1>5, <1>6
<1>16. CASE ip = 36
  BY <1>16, <1>1, <1>3, <1>4, <1>5, <1>6
<1>17. CASE ip = 40
  BY <1>17, <1>1, <1>3, <1>4, <1>5, <1>6
<1>18. CASE ip = 45
  BY <1>18, <1>1, <1>3, <1>4, <1>5, <1>6
<1>19. CASE ip = 49
  BY <1>19, <1>1, <1>3, <1>4, <1>5, <1>6
<1>20. CASE ip = 51
  BY <1>20, <1>1, <1>3, <1>4, <1>5, <1>6
<1>21. CASE ip = 55
  BY <1>21, <1>1, <1>3, <1>4, <1>5, <1>6
<1>22. CASE ip = 62
  BY <1>22, <1>1, <1>3, <1>4, <1>5, <1>6
<1>23. CASE ip = 66
  BY <1>23, <1>1, <1>3, <1>4, <1>5, <1>6
<1>24. CASE ip = 71
  BY <1>24, <1>1, <1>3, <1>4, <1>5, <1>6
<1>25. CASE ip = 72
  BY <1>25, <1>1, <1>3, <1>4, <1>5, <1>6
<1> HIDE DEF Place, Masks, Dues, Counts, Faulting, OffPlaces, NoSoftPlaces, NoTimerPlaces,
         Kept
<1> QED
  BY <1>2, <1>10, <1>11, <1>12, <1>13, <1>14, <1>15, <1>16, <1>17, <1>18, <1>19, <1>20,
     <1>21, <1>22, <1>23, <1>24, <1>25

\* A bounded loop ends by its count or by its timeout.
LEMMA SpinStep ==
    ASSUME Base, Place(ip), SpinEnd
    PROVE  Place(ip)'
<1>1. ip' = ip + 1 /\ Still /\ UNCHANGED <<SIE, STIE, wokeEarly, va_valid, page, val>>
  BY DEF SpinEnd, vars, Done, Still
<1>2. ip \in {5, 14, 23, 26, 29, 50, 61}
  BY SpinEffect
<1>3. Kept
  BY <1>1, StillKeeps
<1>4. Off' <=> Off
  BY <1>1, <1>3 DEF Off, Kept
<1>5. /\ ip \in {5, 23, 26, 29, 61} /\ timedOut' = FALSE => ~TimerDue
      /\ ip \in {14, 50} /\ timedOut' = FALSE => ~SoftDue
  <2>1. /\ ip \in {5, 23, 61} => TimerSum(1)
        /\ ip = 26 => TimerSum(2)
        /\ ip = 29 => TimerSum(3)
        /\ ip \in {14, 50} => SoftSum(1)
    BY DEF Place, Counts
  <2>2. /\ ip \in {5, 23, 61} /\ timedOut' = FALSE => g_trap.timer_irq_count >= 1
        /\ ip = 26 /\ timedOut' = FALSE => g_trap.timer_irq_count >= 2
        /\ ip = 29 /\ timedOut' = FALSE => g_trap.timer_irq_count >= 3
        /\ ip \in {14, 50} /\ timedOut' = FALSE => g_trap.soft_irq_count >= 1
    BY SpinEffect
  <2> QED
    BY <2>1, <2>2 DEF TimerSum, SoftSum
<1> USE DEF Place, Masks, Dues, Counts, Faulting, OffPlaces, NoSoftPlaces, NoTimerPlaces, Kept
<1>10. CASE ip = 5
  BY <1>10, <1>1, <1>3, <1>4, <1>5
<1>11. CASE ip = 14
  BY <1>11, <1>1, <1>3, <1>4, <1>5
<1>12. CASE ip = 23
  BY <1>12, <1>1, <1>3, <1>4, <1>5
<1>13. CASE ip = 26
  BY <1>13, <1>1, <1>3, <1>4, <1>5
<1>14. CASE ip = 29
  BY <1>14, <1>1, <1>3, <1>4, <1>5
<1>15. CASE ip = 50
  BY <1>15, <1>1, <1>3, <1>4, <1>5
<1>16. CASE ip = 61
  BY <1>16, <1>1, <1>3, <1>4, <1>5
<1> HIDE DEF Place, Masks, Dues, Counts, Faulting, OffPlaces, NoSoftPlaces, NoTimerPlaces,
         Kept
<1> QED
  BY <1>2, <1>10, <1>11, <1>12, <1>13, <1>14, <1>15, <1>16

\* sbi_set_timer: one more timer interrupt is due, for which STIP is not set yet.
LEMMA ArmStep ==
    ASSUME Base, Place(ip), ArmTimer
    PROVE  Place(ip)'
<1>1. /\ ip' = ip + 1 /\ UNCHANGED <<pc, owed, g_trap, SIE, STIE>>
      /\ UNCHANGED <<timedOut, wokeEarly, va_valid, page, val>>
      /\ SBI_SET_TIMER(Core0, Soon)
  BY DEF ArmTimer, sbi_set_timer, scsr, Done, aside
<1>2. ip \in {4, 22, 25, 28, 37, 56, 67}
  <2>1. ip \in 1 .. 73 /\ Field(Program[ip], 1) = "set_timer"
    BY AtPlace DEF ArmTimer
  <2> QED
    BY <2>1, WhereIs
<1>3. pc[Core0] = "thread"
  BY AtPlace DEF ArmTimer
<1>4. request'[Core0] # Never
  BY <1>1, Core0Assumption, SoonIsDeadline DEF SBI_SET_TIMER, Base, Hart
<1>5. TimerDue' /\ (SoftDue' <=> SoftDue) /\ (Off' <=> Off)
  BY <1>1, <1>3, <1>4 DEF TimerDue, SoftDue, Off
<1>6. /\ ip # 56 => ~TimerDue
      /\ ip \in {4, 22, 67} => TimerSum(0)
      /\ ip = 25 => TimerSum(1)
      /\ ip = 28 => TimerSum(2)
      /\ ip = 56 => g_trap.timer_irq_count = 0
      /\ ip = 37 => FaultSum(0)
  BY <1>2 DEF Place, Dues, Counts, Faulting, NoTimerPlaces
<1>7. /\ ip \in {4, 22, 56, 67} => TimerSum(1)'
      /\ ip = 25 => TimerSum(2)'
      /\ ip = 28 => TimerSum(3)'
      /\ ip = 37 => FaultSum(1)'
  BY <1>1, <1>2, <1>5, <1>6 DEF TimerSum, FaultSum
<1> USE DEF Place, Masks, Dues, Counts, Faulting, OffPlaces, NoSoftPlaces, NoTimerPlaces
<1>10. CASE ip = 4
  BY <1>10, <1>1, <1>3, <1>5, <1>7
<1>11. CASE ip = 22
  BY <1>11, <1>1, <1>3, <1>5, <1>7
<1>12. CASE ip = 25
  BY <1>12, <1>1, <1>3, <1>5, <1>7
<1>13. CASE ip = 28
  BY <1>13, <1>1, <1>3, <1>5, <1>7
<1>14. CASE ip = 37
  BY <1>14, <1>1, <1>3, <1>5, <1>7
<1>15. CASE ip = 56
  BY <1>15, <1>1, <1>3, <1>5, <1>7
<1>16. CASE ip = 67
  BY <1>16, <1>1, <1>3, <1>5, <1>7
<1> HIDE DEF Place, Masks, Dues, Counts, Faulting, OffPlaces, NoSoftPlaces, NoTimerPlaces
<1> QED
  BY <1>2, <1>10, <1>11, <1>12, <1>13, <1>14, <1>15, <1>16

\* sbi_send_ipi to itself: one IPI is due.
LEMMA IpiStep ==
    ASSUME Base, Place(ip), SendSelfIpi
    PROVE  Place(ip)'
<1>1. /\ ip' = ip + 1 /\ UNCHANGED <<request, pc, g_trap, stip, SIE, STIE>>
      /\ UNCHANGED <<timedOut, wokeEarly, va_valid, page, val>>
      /\ SBI_SEND_IPI(Core0)
  BY DEF SendSelfIpi, sbi_send_ipi, scsr, mcsr, Done, aside
<1>2. ip \in {13, 46}
  <2>1. ip \in 1 .. 73 /\ Field(Program[ip], 1) = "send_ipi"
    BY AtPlace DEF SendSelfIpi
  <2> QED
    BY <2>1, WhereIs
<1>3. pc[Core0] = "thread"
  BY AtPlace DEF SendSelfIpi
<1>4. Core0 \in owed'
  BY <1>1, Core0Assumption DEF SBI_SEND_IPI
<1>5. SoftDue' /\ (TimerDue' <=> TimerDue) /\ (Off' <=> Off)
  BY <1>1, <1>3, <1>4 DEF TimerDue, SoftDue, Off
<1>6. ~SoftDue /\ SoftSum(0)
  BY <1>2 DEF Place, Dues, Counts, NoSoftPlaces
<1>7. SoftSum(1)'
  BY <1>1, <1>5, <1>6 DEF SoftSum
<1> USE DEF Place, Masks, Dues, Counts, Faulting, OffPlaces, NoSoftPlaces, NoTimerPlaces
<1>10. CASE ip = 13
  BY <1>10, <1>1, <1>3, <1>5, <1>7
<1>11. CASE ip = 46
  BY <1>11, <1>1, <1>3, <1>5, <1>7
<1> HIDE DEF Place, Masks, Dues, Counts, Faulting, OffPlaces, NoSoftPlaces, NoTimerPlaces
<1> QED
  BY <1>2, <1>10, <1>11

\* The resets of the counters.
LEMMA ResetStep ==
    ASSUME Base, Place(ip), ResetCounters
    PROVE  Place(ip)'
<1>1. /\ ip' = ip + 1 /\ UNCHANGED <<request, pc, owed, stip, SIE, STIE>>
      /\ UNCHANGED <<timedOut, wokeEarly, va_valid, page, val>>
  BY DEF ResetCounters, scsr, mcsr, Done, aside
<1>2. ip \in {1, 10, 19, 33, 43, 53, 64}
  BY ResetEffect
<1>3. (TimerDue' <=> TimerDue) /\ (SoftDue' <=> SoftDue) /\ (Off' <=> Off)
  BY <1>1 DEF TimerDue, SoftDue, Off
<1>4. /\ ip \in {1, 19, 33, 64} => ~TimerDue
      /\ ip \in {10, 43} => ~SoftDue
  BY DEF Place, Dues, NoTimerPlaces, NoSoftPlaces
<1>5. /\ ip \in {1, 19, 64} => TimerSum(0)'
      /\ ip \in {10, 43} => SoftSum(0)'
      /\ ip = 33 => FaultSum(0)'
      /\ ip = 53 => g_trap'.timer_irq_count = 0
  BY <1>3, <1>4, ResetEffect DEF TimerSum, SoftSum, FaultSum
<1> USE DEF Place, Masks, Dues, Counts, Faulting, OffPlaces, NoSoftPlaces, NoTimerPlaces
<1>10. CASE ip = 1
  BY <1>10, <1>1, <1>3, <1>5
<1>11. CASE ip = 10
  BY <1>11, <1>1, <1>3, <1>5
<1>12. CASE ip = 19
  BY <1>12, <1>1, <1>3, <1>5
<1>13. CASE ip = 33
  BY <1>13, <1>1, <1>3, <1>5
<1>14. CASE ip = 43
  BY <1>14, <1>1, <1>3, <1>5
<1>15. CASE ip = 53
  BY <1>15, <1>1, <1>3, <1>5
<1>16. CASE ip = 64
  BY <1>16, <1>1, <1>3, <1>5
<1> HIDE DEF Place, Masks, Dues, Counts, Faulting, OffPlaces, NoSoftPlaces, NoTimerPlaces
<1> QED
  BY <1>2, <1>10, <1>11, <1>12, <1>13, <1>14, <1>15, <1>16

\* The load of P2.4 and the handler of its fault.
LEMMA LoadStep ==
    ASSUME Base, Place(ip), LoadVa, CounterWrap > 3
    PROVE  Place(ip)'
<1>1. At("load") /\ UNCHANGED timedOut
  BY DEF LoadVa
<1>2. ip = 38 /\ pc[Core0] = "thread"
  <2>1. ip \in 1 .. 73 /\ Field(Program[ip], 1) = "load" /\ pc[Core0] = "thread"
    BY <1>1, AtPlace
  <2> QED
    BY <2>1, WhereIs
<1>3. /\ IF va_valid = TRUE THEN FaultSum(2) ELSE FaultSum(1)
      /\ ~SoftDue /\ page = "DEAD0004"
  BY <1>2 DEF Place, Faulting, Dues, NoSoftPlaces
<1>4. ASSUME va_valid, ip' = ip + 1, val' = page, UNCHANGED vars, UNCHANGED va_valid
      PROVE  Place(ip)'
  <2>1. FaultSum(2)
    BY <1>3, <1>4
  <2>2. Kept
    BY <1>4, StillKeeps DEF vars, Still
  <2>3. ip' = 39 /\ FaultSum(2)' /\ ~SoftDue' /\ val' = "DEAD0004"
    BY <1>2, <1>3, <1>4, <2>1, <2>2 DEF Kept
  <2> QED
    BY <2>3 DEF Place, Masks, Dues, Counts, Faulting, OffPlaces, NoSoftPlaces, NoTimerPlaces
<1>5. ASSUME ~va_valid, EnterS(Core0, "s_fault"),
             g_trap' = [g_trap EXCEPT !.fault_count = Bump(@)],
             UNCHANGED <<request, owed, ip, page>>
      PROVE  Place(ip)'
  <2>1. pc'[Core0] = "s_fault"
    BY <1>5, Core0Assumption DEF EnterS, Base, Hart
  <2>2. (TimerDue' <=> TimerDue) /\ ~SoftDue'
    BY <1>2, <1>3, <1>5, <2>1 DEF TimerDue, SoftDue
  <2>3. FaultSum(1) /\ g_trap.fault_count \in 0 .. CounterWrap - 1
    BY <1>3, <1>5 DEF Base, GTrap
  <2>4. g_trap'.fault_count = Bump(g_trap.fault_count)
    BY <1>5 DEF Base, GTrap
  <2>5. FaultSum(2)'
    BY <2>2, <2>3, <2>4, Counted DEF FaultSum
  <2> QED
    BY <1>2, <1>3, <1>5, <2>1, <2>2, <2>5
       DEF Place, Masks, Dues, Counts, Faulting, OffPlaces, NoSoftPlaces, NoTimerPlaces
<1> QED
  BY <1>4, <1>5 DEF LoadVa, Done

\* The handler sets V.
LEMMA FixStep ==
    ASSUME Base, Place(ip), FixPte
    PROVE  Place(ip)'
<1>1. /\ pc[Core0] = "s_fault" /\ pc' = [pc EXCEPT ![Core0] = "s_ret"] /\ va_valid' = TRUE
      /\ UNCHANGED <<request, owed, g_trap, ip, page>>
  BY DEF FixPte
<1>2. ip = 38 /\ pc'[Core0] = "s_ret"
  BY <1>1, Core0Assumption DEF Base, Script, Hart
<1>3. FaultSum(2) /\ ~SoftDue /\ page = "DEAD0004"
  BY <1>1, <1>2 DEF Place, Faulting, Dues, NoSoftPlaces
<1>4. FaultSum(2)' /\ ~SoftDue'
  BY <1>1, <1>2, <1>3 DEF FaultSum, TimerDue, SoftDue
<1> QED
  BY <1>1, <1>2, <1>3, <1>4
     DEF Place, Masks, Dues, Counts, Faulting, OffPlaces, NoSoftPlaces, NoTimerPlaces

\* The outcomes of an assertion.
Passed == ip' = ip + 1 /\ UNCHANGED <<running, code>>
Failed(c) == running' = FALSE /\ code' = c

\* The last bounded loop has timed out.
Late == timedOut # FALSE
Timely(c) == (~Late /\ Passed) \/ Failed(c)

\* What an assertion reads.
LEMMA Observations ==
    /\ Observed("timeout") = timedOut
    /\ Observed("STIP") = (Core0 \in stip)
    /\ Observed("faulted") = (g_trap.fault_count >= 1)
    /\ Observed("val") = val
    /\ Observed("timer_irq_count") = g_trap.timer_irq_count
    /\ Observed("soft_irq_count") = g_trap.soft_irq_count
    /\ Observed("last_irq_cause") = g_trap.last_irq_cause
BY DEF Observed

\* An assertion passes or fails by what it reads.
LEMMA AssertArgs ==
    ASSUME Assert, NEW f, NEW v, NEW c, Field(Program[ip], 2) = f, Field(Program[ip], 3) = v,
           Field(Program[ip], 4) = c
    PROVE  (Observed(f) = v /\ Passed) \/ (Observed(f) # v /\ Failed(c))
<1>1. Arg(2) = f /\ Arg(3) = v /\ Arg(4) = c
  BY ArgOf, Zenon
<1>2. IF Observed(f) = v THEN Done /\ UNCHANGED verdict
                         ELSE running' = FALSE /\ code' = c /\ UNCHANGED ip
  BY <1>1, Zenon DEF Assert
<1> QED
  BY <1>2 DEF Passed, Failed, Done, verdict

\* An assertion on a counter or a cause.
LEMMA AssertEq ==
    ASSUME Assert, NEW f, NEW v, NEW c, Program[ip] = Eq(f, v, c)
    PROVE  (Observed(f) = v /\ Passed) \/ (Observed(f) # v /\ Failed(c))
<1>1. Field(Program[ip], 2) = f /\ Field(Program[ip], 3) = v /\ Field(Program[ip], 4) = c
  <2>1. Field(Eq(f, v, c), 2) = f /\ Field(Eq(f, v, c), 3) = v /\ Field(Eq(f, v, c), 4) = c
    BY DEF Field, Eq
  <2>2. \A k : Field(Program[ip], k) = Field(Eq(f, v, c), k)
    OBVIOUS
  <2> QED
    BY <2>1, <2>2, Zenon
<1> QED
  BY <1>1, AssertArgs, Zenon

\* An assertion that a loop has not timed out.
LEMMA AssertInTime ==
    ASSUME Assert, NEW c, Program[ip] = InTime(c)
    PROVE  Timely(c)
<1>1. (Observed("timeout") = FALSE /\ Passed) \/ Failed(c)
  BY AssertEq, Zenon DEF InTime
<1> QED
  BY <1>1, Observations, Zenon DEF Timely, Late

\* An assertion that STIP is set.
LEMMA AssertPending ==
    ASSUME Assert, NEW c, Program[ip] = IsPending(c)
    PROVE  (Core0 \in stip /\ Passed) \/ (Core0 \notin stip /\ Failed(c))
<1>1. (Observed("STIP") = TRUE /\ Passed) \/ (Observed("STIP") # TRUE /\ Failed(c))
  BY AssertEq, Zenon DEF IsPending
<1> QED
  BY <1>1, Observations, Zenon

\* An assertion that a fault was counted.
LEMMA AssertFaulted ==
    ASSUME Assert, NEW c, Program[ip] = Faulted(c)
    PROVE  Passed \/ (~(g_trap.fault_count >= 1) /\ Failed(c))
<1>1. Passed \/ (Observed("faulted") # TRUE /\ Failed(c))
  BY AssertEq, Zenon DEF Faulted
<1> QED
  BY <1>1, Observations, Zenon

\* What holds after an assertion that passes.
LEMMA AssertAdvance ==
    ASSUME Base, Place(ip), Still, Passed,
           UNCHANGED <<SIE, STIE, timedOut, wokeEarly, va_valid, page, val>>,
           ip \in {7, 8, 9, 16, 17, 18, 24, 27, 30, 32, 41, 42, 48, 52, 58, 59, 63, 69, 70, 73},
           ip \in {7, 16, 24, 27, 30} => timedOut = FALSE,
           ip = 52 => ~SoftDue, ip = 63 => ~TimerDue, ip = 69 => Core0 \in stip
    PROVE  Place(ip)'
<1>1. ip' = ip + 1
  BY DEF Passed
<1>2. ip \in {7, 8, 9, 16, 17, 18, 24, 27, 30, 32, 41, 42, 48, 52, 58, 59, 63, 69, 70, 73}
  OBVIOUS
<1>3. Kept
  BY StillKeeps
<1>4. Off' <=> Off
  BY <1>3 DEF Off, Kept
<1> USE DEF Place, Masks, Dues, Counts, Faulting, OffPlaces, NoSoftPlaces, NoTimerPlaces, Kept
<1>10. CASE ip = 7
  BY <1>10, <1>1, <1>3, <1>4
<1>11. CASE ip = 8
  BY <1>11, <1>1, <1>3, <1>4
<1>12. CASE ip = 9
  BY <1>12, <1>1, <1>3, <1>4
<1>13. CASE ip = 16
  BY <1>13, <1>1, <1>3, <1>4
<1>14. CASE ip = 17
  BY <1>14, <1>1, <1>3, <1>4
<1>15. CASE ip = 18
  BY <1>15, <1>1, <1>3, <1>4
<1>16. CASE ip = 24
  BY <1>16, <1>1, <1>3, <1>4
<1>17. CASE ip = 27
  BY <1>17, <1>1, <1>3, <1>4
<1>18. CASE ip = 30
  BY <1>18, <1>1, <1>3, <1>4
<1>19. CASE ip = 32
  BY <1>19, <1>1, <1>3, <1>4
<1>20. CASE ip = 41
  BY <1>20, <1>1, <1>3, <1>4
<1>21. CASE ip = 48
  BY <1>21, <1>1, <1>3, <1>4
<1>22. CASE ip = 52
  BY <1>22, <1>1, <1>3, <1>4
<1>23. CASE ip = 58
  BY <1>23, <1>1, <1>3, <1>4
<1>24. CASE ip = 59
  BY <1>24, <1>1, <1>3, <1>4
<1>25. CASE ip = 63
  BY <1>25, <1>1, <1>3, <1>4
<1>26. CASE ip = 69
  BY <1>26, <1>1, <1>3, <1>4
<1>27. CASE ip = 70
  BY <1>27, <1>1, <1>3, <1>4
<1>28. CASE ip = 73
  BY <1>28, <1>1, <1>3, <1>4
<1>29. CASE ip = 42
  BY <1>29, <1>1, <1>3, <1>4
<1> HIDE DEF Place, Masks, Dues, Counts, Faulting, OffPlaces, NoSoftPlaces, NoTimerPlaces,
         Kept
<1> QED
  BY <1>2, <1>10, <1>11, <1>12, <1>13, <1>14, <1>15, <1>16, <1>17, <1>18, <1>19, <1>20,
     <1>21, <1>22, <1>23, <1>24, <1>25, <1>26, <1>27, <1>28, <1>29

\* The assertions of the phase: those on what was delivered pass, those on a
\* loop that timed out, or on a wfi that completed early, may fail.
LEMMA AssertStep ==
    ASSUME Base, Place(ip), running = TRUE, code = 0, Assert
    PROVE  \/ Passed /\ Place(ip)'
           \/ running' = FALSE /\ P2Sound'
<1> DEFINE Goal == (Passed /\ Place(ip)') \/ (running' = FALSE /\ P2Sound')
<1>1. Still /\ UNCHANGED <<SIE, STIE, timedOut, wokeEarly, va_valid, page, val>>
  BY DEF Assert, vars, Still, aside
<1>2. ip \in {7, 8, 9, 16, 17, 18, 24, 27, 30, 32, 41, 42, 48, 52, 58, 59, 63, 69, 70, 73}
  <2>1. ip \in 1 .. 73 /\ Field(Program[ip], 1) = "eq"
    BY AtPlace DEF Assert
  <2> QED
    BY <2>1, WhereIs
<1>4. ASSUME Passed, ip \in {7, 16, 24, 27, 30} => ~Late,
             ip = 52 => ~SoftDue, ip = 63 => ~TimerDue, ip = 69 => Core0 \in stip
      PROVE  Goal
  <2>1. ip \in {7, 16, 24, 27, 30} => timedOut = FALSE
    BY <1>4 DEF Late
  <2> QED
    BY <1>1, <1>2, <1>4, <2>1, AssertAdvance DEF Goal
<1>5. ASSUME NEW c, Failed(c), c \notin DeliveryCodes, c \notin {641, 652, 660} PROVE Goal
  BY <1>5 DEF Failed, P2Sound
<1>6. ASSUME NEW c, Failed(c), c \in {641, 652}, Late PROVE Goal
  <2>0. timedOut \in BOOLEAN
    BY DEF Base, Script
  <2>1. timedOut'
    <3>1. Late /\ timedOut' = timedOut
      BY <1>1, <1>6
    <3> QED
      BY <2>0, <3>1, Zenon DEF Late
  <2>2. code' \in {641, 652} /\ running' = FALSE
    BY <1>6 DEF Failed
  <2>3. code' \notin DeliveryCodes
    BY <2>2 DEF DeliveryCodes
  <2> QED
    BY <2>1, <2>2, <2>3 DEF P2Sound, Goal
<1> HIDE DEF Goal
<1>10. ASSUME ip = 7 PROVE Goal
  <2>1. Program[ip] = InTime(600)
    BY <1>10, Ops2_1
  <2>2. Timely(600)
    BY <2>1, AssertInTime
  <2>3. Failed(600) => Goal
    BY <1>5 DEF DeliveryCodes
  <2>4. ASSUME ~Late, Passed PROVE Goal
    BY <1>10, <1>4, <2>4
  <2> QED
    BY <2>2, <2>3, <2>4 DEF Timely
<1>11. ASSUME ip = 8 PROVE Goal
  <2>1. Program[ip] = Eq("timer_irq_count", 1, 601)
    BY <1>11, Ops2_1
  <2>2. \/ g_trap.timer_irq_count = 1 /\ Passed
        \/ g_trap.timer_irq_count # 1 /\ Failed(601)
    BY <2>1, AssertEq, Observations
  <2>3. g_trap.timer_irq_count = 1
    BY <1>11 DEF Place, Dues, Counts, NoSoftPlaces, NoTimerPlaces, TimerSum, SoftSum
  <2>4. ASSUME Passed PROVE Goal
    BY <1>11, <1>4, <2>4
  <2> QED
    BY <2>2, <2>3, <2>4
<1>12. ASSUME ip = 9 PROVE Goal
  <2>1. Program[ip] = Eq("last_irq_cause", "timer", 602)
    BY <1>12, Ops2_1
  <2>2. \/ g_trap.last_irq_cause = "timer" /\ Passed
        \/ g_trap.last_irq_cause # "timer" /\ Failed(602)
    BY <2>1, AssertEq, Observations
  <2>3. g_trap.last_irq_cause = "timer"
    BY <1>12 DEF Place, Dues, Counts, NoSoftPlaces, NoTimerPlaces, TimerSum, SoftSum
  <2>4. ASSUME Passed PROVE Goal
    BY <1>12, <1>4, <2>4
  <2> QED
    BY <2>2, <2>3, <2>4
<1>13. ASSUME ip = 16 PROVE Goal
  <2>1. Program[ip] = InTime(610)
    BY <1>13, Ops2_2
  <2>2. Timely(610)
    BY <2>1, AssertInTime
  <2>3. Failed(610) => Goal
    BY <1>5 DEF DeliveryCodes
  <2>4. ASSUME ~Late, Passed PROVE Goal
    BY <1>13, <1>4, <2>4
  <2> QED
    BY <2>2, <2>3, <2>4 DEF Timely
<1>14. ASSUME ip = 17 PROVE Goal
  <2>1. Program[ip] = Eq("soft_irq_count", 1, 611)
    BY <1>14, Ops2_2
  <2>2. \/ g_trap.soft_irq_count = 1 /\ Passed
        \/ g_trap.soft_irq_count # 1 /\ Failed(611)
    BY <2>1, AssertEq, Observations
  <2>3. g_trap.soft_irq_count = 1
    BY <1>14 DEF Place, Dues, Counts, NoSoftPlaces, NoTimerPlaces, TimerSum, SoftSum
  <2>4. ASSUME Passed PROVE Goal
    BY <1>14, <1>4, <2>4
  <2> QED
    BY <2>2, <2>3, <2>4
<1>15. ASSUME ip = 18 PROVE Goal
  <2>1. Program[ip] = Eq("last_irq_cause", "soft", 612)
    BY <1>15, Ops2_2
  <2>2. \/ g_trap.last_irq_cause = "soft" /\ Passed
        \/ g_trap.last_irq_cause # "soft" /\ Failed(612)
    BY <2>1, AssertEq, Observations
  <2>3. g_trap.last_irq_cause = "soft"
    BY <1>15 DEF Place, Dues, Counts, NoSoftPlaces, NoTimerPlaces, TimerSum, SoftSum
  <2>4. ASSUME Passed PROVE Goal
    BY <1>15, <1>4, <2>4
  <2> QED
    BY <2>2, <2>3, <2>4
<1>16. ASSUME ip = 24 PROVE Goal
  <2>1. Program[ip] = InTime(620)
    BY <1>16, Ops2_3
  <2>2. Timely(620)
    BY <2>1, AssertInTime
  <2>3. Failed(620) => Goal
    BY <1>5 DEF DeliveryCodes
  <2>4. ASSUME ~Late, Passed PROVE Goal
    BY <1>16, <1>4, <2>4
  <2> QED
    BY <2>2, <2>3, <2>4 DEF Timely
<1>17. ASSUME ip = 27 PROVE Goal
  <2>1. Program[ip] = InTime(621)
    BY <1>17, Ops2_3
  <2>2. Timely(621)
    BY <2>1, AssertInTime
  <2>3. Failed(621) => Goal
    BY <1>5 DEF DeliveryCodes
  <2>4. ASSUME ~Late, Passed PROVE Goal
    BY <1>17, <1>4, <2>4
  <2> QED
    BY <2>2, <2>3, <2>4 DEF Timely
<1>18. ASSUME ip = 30 PROVE Goal
  <2>1. Program[ip] = InTime(622)
    BY <1>18, Ops2_3
  <2>2. Timely(622)
    BY <2>1, AssertInTime
  <2>3. Failed(622) => Goal
    BY <1>5 DEF DeliveryCodes
  <2>4. ASSUME ~Late, Passed PROVE Goal
    BY <1>18, <1>4, <2>4
  <2> QED
    BY <2>2, <2>3, <2>4 DEF Timely
<1>19. ASSUME ip = 32 PROVE Goal
  <2>1. Program[ip] = Eq("timer_irq_count", 3, 625)
    BY <1>19, Ops2_3
  <2>2. \/ g_trap.timer_irq_count = 3 /\ Passed
        \/ g_trap.timer_irq_count # 3 /\ Failed(625)
    BY <2>1, AssertEq, Observations
  <2>3. g_trap.timer_irq_count = 3
    BY <1>19 DEF Place, Dues, Counts, NoSoftPlaces, NoTimerPlaces, TimerSum, SoftSum
  <2>4. ASSUME Passed PROVE Goal
    BY <1>19, <1>4, <2>4
  <2> QED
    BY <2>2, <2>3, <2>4
<1>9. ASSUME ip = 42 PROVE Goal
  <2>1. Program[ip] = Eq("val", "DEAD0004", 631)
    BY <1>9, Ops2_4
  <2>2. (val = "DEAD0004" /\ Passed) \/ (val # "DEAD0004" /\ Failed(631))
    BY <2>1, AssertEq, Observations
  <2>3. val = "DEAD0004"
    BY <1>9 DEF Place, Faulting
  <2>4. ASSUME Passed PROVE Goal
    BY <1>9, <1>4, <2>4
  <2> QED
    BY <2>2, <2>3, <2>4
<1>20. ASSUME ip = 41 PROVE Goal
  <2>1. Program[ip] = Faulted(630)
    BY <1>20, Ops2_4
  <2>2. Passed \/ (~(g_trap.fault_count >= 1) /\ Failed(630))
    BY <2>1, AssertFaulted
  <2>3. g_trap.fault_count >= 1
    BY <1>20 DEF Place, Faulting, FaultSum
  <2>4. ASSUME Passed PROVE Goal
    BY <1>20, <1>4, <2>4
  <2> QED
    BY <2>2, <2>3, <2>4
<1>21. ASSUME ip = 48 PROVE Goal
  <2>1. Program[ip] = Eq("soft_irq_count", 0, 640)
    BY <1>21, Ops2_5
  <2>2. \/ g_trap.soft_irq_count = 0 /\ Passed
        \/ g_trap.soft_irq_count # 0 /\ Failed(640)
    BY <2>1, AssertEq, Observations
  <2>3. g_trap.soft_irq_count = 0
    BY <1>21 DEF Place, Dues, Counts, NoSoftPlaces, NoTimerPlaces, TimerSum, SoftSum
  <2>4. ASSUME Passed PROVE Goal
    BY <1>21, <1>4, <2>4
  <2> QED
    BY <2>2, <2>3, <2>4
<1>22. ASSUME ip = 52 PROVE Goal
  <2>1. Program[ip] = Eq("soft_irq_count", 1, 641)
    BY <1>22, Ops2_5
  <2>2. \/ g_trap.soft_irq_count = 1 /\ Passed
        \/ g_trap.soft_irq_count # 1 /\ Failed(641)
    BY <2>1, AssertEq, Observations
  <2>0. SoftSum(1) /\ (timedOut = FALSE => ~SoftDue)
    BY <1>22 DEF Place, Dues, Counts
  <2>3. SoftSum(1) /\ (~Late => ~SoftDue)
    BY <2>0 DEF Late
  <2>4. (g_trap.soft_irq_count = 1 => ~SoftDue) /\ (~Late => g_trap.soft_irq_count = 1)
    BY <2>3 DEF SoftSum
  <2>5. g_trap.soft_irq_count # 1 /\ Failed(641) => Goal
    BY <1>6, <2>4
  <2>6. ASSUME g_trap.soft_irq_count = 1, Passed PROVE Goal
    BY <1>22, <1>4, <2>4, <2>6
  <2> QED
    BY <2>2, <2>5, <2>6
<1>23. ASSUME ip = 58 PROVE Goal
  <2>1. Program[ip] = Eq("timer_irq_count", 0, 650)
    BY <1>23, Ops2_6
  <2>2. \/ g_trap.timer_irq_count = 0 /\ Passed
        \/ g_trap.timer_irq_count # 0 /\ Failed(650)
    BY <2>1, AssertEq, Observations
  <2>3. g_trap.timer_irq_count = 0
    BY <1>23 DEF Place, Dues, Counts, NoSoftPlaces, NoTimerPlaces, TimerSum, SoftSum
  <2>4. ASSUME Passed PROVE Goal
    BY <1>23, <1>4, <2>4
  <2> QED
    BY <2>2, <2>3, <2>4
<1>24. ASSUME ip = 59 PROVE Goal
  <2>1. Program[ip] = IsPending(651)
    BY <1>24, Ops2_6
  <2>2. Passed \/ (Core0 \notin stip /\ Failed(651))
    BY <2>1, AssertPending
  <2>3. Failed(651) => Goal
    BY <1>5 DEF DeliveryCodes
  <2>4. ASSUME Passed PROVE Goal
    BY <1>24, <1>4, <2>4
  <2> QED
    BY <2>2, <2>3, <2>4
<1>25. ASSUME ip = 63 PROVE Goal
  <2>1. Program[ip] = Eq("timer_irq_count", 1, 652)
    BY <1>25, Ops2_6
  <2>2. \/ g_trap.timer_irq_count = 1 /\ Passed
        \/ g_trap.timer_irq_count # 1 /\ Failed(652)
    BY <2>1, AssertEq, Observations
  <2>0. TimerSum(1) /\ (timedOut = FALSE => ~TimerDue)
    BY <1>25 DEF Place, Dues, Counts
  <2>3. TimerSum(1) /\ (~Late => ~TimerDue)
    BY <2>0 DEF Late
  <2>4. (g_trap.timer_irq_count = 1 => ~TimerDue) /\ (~Late => g_trap.timer_irq_count = 1)
    BY <2>3 DEF TimerSum
  <2>5. g_trap.timer_irq_count # 1 /\ Failed(652) => Goal
    BY <1>6, <2>4
  <2>6. ASSUME g_trap.timer_irq_count = 1, Passed PROVE Goal
    BY <1>25, <1>4, <2>4, <2>6
  <2> QED
    BY <2>2, <2>5, <2>6
<1>26. ASSUME ip = 69 PROVE Goal
  <2>1. Program[ip] = IsPending(660)
    BY <1>26, Ops2_7
  <2>2. (Core0 \in stip /\ Passed) \/ (Core0 \notin stip /\ Failed(660))
    BY <2>1, AssertPending
  <2>3. wokeEarly = FALSE => Core0 \in stip
    BY <1>26 DEF Place, Dues
  <2>4. ASSUME Passed, Core0 \in stip PROVE Goal
    BY <1>26, <1>4, <2>4
  <2>5. ASSUME Failed(660), Core0 \notin stip PROVE Goal
    <3>1. wokeEarly'
      <4>1. wokeEarly \in BOOLEAN /\ wokeEarly # FALSE /\ wokeEarly' = wokeEarly
        BY <1>1, <2>3, <2>5 DEF Base, Script
      <4> QED
        BY <4>1, Zenon
    <3>2. code' = 660 /\ running' = FALSE
      BY <2>5 DEF Failed
    <3>3. code' \notin DeliveryCodes /\ code' \notin {641, 652}
      BY <3>2 DEF DeliveryCodes
    <3> QED
      BY <3>1, <3>2, <3>3 DEF P2Sound, Goal
  <2> QED
    BY <2>2, <2>4, <2>5
<1>27. ASSUME ip = 70 PROVE Goal
  <2>1. Program[ip] = Eq("timer_irq_count", 0, 661)
    BY <1>27, Ops2_7
  <2>2. \/ g_trap.timer_irq_count = 0 /\ Passed
        \/ g_trap.timer_irq_count # 0 /\ Failed(661)
    BY <2>1, AssertEq, Observations
  <2>3. g_trap.timer_irq_count = 0
    BY <1>27 DEF Place, Dues, Counts, NoSoftPlaces, NoTimerPlaces, TimerSum, SoftSum
  <2>4. ASSUME Passed PROVE Goal
    BY <1>27, <1>4, <2>4
  <2> QED
    BY <2>2, <2>3, <2>4
<1>28. ASSUME ip = 73 PROVE Goal
  <2>1. Program[ip] = Eq("timer_irq_count", 1, 662)
    BY <1>28, Ops2_7
  <2>2. \/ g_trap.timer_irq_count = 1 /\ Passed
        \/ g_trap.timer_irq_count # 1 /\ Failed(662)
    BY <2>1, AssertEq, Observations
  <2>3. g_trap.timer_irq_count = 1
    BY <1>28 DEF Place, Dues, Counts, NoSoftPlaces, NoTimerPlaces, TimerSum, SoftSum
  <2>4. ASSUME Passed PROVE Goal
    BY <1>28, <1>4, <2>4
  <2> QED
    BY <2>2, <2>3, <2>4
<1>29. Goal
  BY <1>2, <1>9, <1>10, <1>11, <1>12, <1>13, <1>14, <1>15, <1>16, <1>17, <1>18, <1>19,
     <1>20, <1>21, <1>22, <1>23, <1>24, <1>25, <1>26, <1>27, <1>28
<1> QED
  BY <1>29 DEF Goal

-----------------------------------------------------------------------------
(***************************************************************************)
(* The invariant, and the theorem.                                         *)
(***************************************************************************)
\* The phase starts with nothing due and nothing counted.
LEMMA P2InvInit == ASSUME P2Init, BootMTIE = FALSE PROVE P2Inv
<1>1. /\ Init /\ ip = 1 /\ timedOut = FALSE /\ wokeEarly = FALSE /\ va_valid = FALSE
      /\ running = TRUE /\ code = 0
  BY DEF P2Init
<1>2. mtie = {}
  BY <1>1 DEF Init
<1>3. Never \in 0 .. Never /\ 0 \in 0 .. MaxTime
  BY TimeAssumption DEF Never
<1>4. mtimecmp \in [Harts -> 0 .. Never]
  BY <1>1, ResetAssumption DEF Init, Never
<1>5. Hart
  BY <1>1, <1>2, <1>3, <1>4, Core0Assumption DEF Init, Hart
<1>6. GTrap
  BY <1>1, CounterAssumption DEF Init, GTrap
<1>7. TimerFaithful
  BY <1>1, <1>2 DEF Init, TimerFaithful
<1>8. pc[Core0] = "thread" /\ Core0 \notin SIE /\ request[Core0] = Never /\ Core0 \notin owed
  BY <1>1, Core0Assumption DEF Init
<1>9. Script
  <2>1. ip \in 1 .. 74
    BY <1>1
  <2> QED
    BY <1>1, <1>8, <2>1 DEF Script
<1>10. P2Sound
  BY <1>1 DEF P2Sound, DeliveryCodes
<1>11. Off /\ ~TimerDue /\ ~SoftDue
  BY <1>8 DEF Off, TimerDue, SoftDue
<1>12. Place(ip)
  BY <1>1, <1>11 DEF Place, Masks, Dues, Counts, Faulting, OffPlaces, NoSoftPlaces,
     NoTimerPlaces
<1> QED
  BY <1>1, <1>5, <1>6, <1>7, <1>9, <1>10, <1>12 DEF P2Inv, Base

\* Every step keeps the invariant.
LEMMA P2InvStep ==
    ASSUME P2Inv, CounterWrap > 3, [P2Next]_allvars
    PROVE  P2Inv'
<1>0. Base /\ P2Sound /\ (running = TRUE => code = 0 /\ Place(ip))
  BY DEF P2Inv
<1>1. ASSUME P2Sound, UNCHANGED <<code, timedOut, wokeEarly>> PROVE P2Sound'
  BY <1>1 DEF P2Sound
<1>2. ASSUME Machine \/ UNCHANGED allvars PROVE P2Inv'
  <2>1. UNCHANGED <<running, code, timedOut, wokeEarly>>
    BY <1>0, <1>2, MachineEffect DEF p2vars, aside, verdict
  <2>2. Base'
    BY <1>0, <1>2, MachineBase
  <2>3. P2Sound'
    BY <1>0, <1>1, <2>1
  <2>4. ASSUME running = TRUE PROVE Place(ip)'
    BY <1>0, <1>2, <2>4, PlaceKept
  <2> QED
    BY <1>0, <2>1, <2>2, <2>3, <2>4 DEF P2Inv
<1>3. ASSUME Test PROVE P2Inv'
  <2>1. Base'
    BY <1>0, <1>3, TestBase
  <2>2. CASE FixPte
    <3>1. UNCHANGED <<running, code, timedOut, wokeEarly>>
      BY <2>2 DEF FixPte, verdict
    <3>2. ASSUME running = TRUE PROVE Place(ip)'
      BY <1>0, <2>2, <3>2, FixStep
    <3> QED
      BY <1>0, <1>1, <2>1, <3>1, <3>2 DEF P2Inv
  <2>3. CASE Return
    BY <1>0, <1>1, <2>1, <2>3 DEF Return, P2Inv, aside
  <2>4. ASSUME NEW op, At(op) PROVE running = TRUE /\ code = 0 /\ Place(ip)
    BY <1>0, <2>4, AtPlace
  <2>5. CASE Assert
    <3>1. Place(ip) /\ running = TRUE /\ code = 0
      BY <2>4, <2>5 DEF Assert
    <3>2. \/ Passed /\ Place(ip)'
          \/ running' = FALSE /\ P2Sound'
      BY <1>0, <2>5, <3>1, AssertStep
    <3>3. UNCHANGED <<timedOut, wokeEarly>>
      BY <2>5 DEF Assert, aside
    <3> QED
      BY <1>0, <1>1, <2>1, <3>1, <3>2, <3>3 DEF P2Inv, Passed
  <2>6. CASE SpinEnd
    <3>1. code = 0 /\ UNCHANGED <<running, code>> /\ Place(ip)
      BY <2>4, <2>6 DEF SpinEnd, verdict
    <3>2. Place(ip)'
      BY <1>0, <2>6, <3>1, SpinStep
    <3>3. P2Sound'
      BY <3>1 DEF P2Sound, DeliveryCodes
    <3> QED
      BY <2>1, <3>1, <3>2, <3>3 DEF P2Inv
  <2>7. ASSUME UNCHANGED <<running, code>>, Place(ip)', running = TRUE, code = 0
        PROVE  P2Inv'
    <3>1. P2Sound'
      BY <2>7 DEF P2Sound, DeliveryCodes
    <3> QED
      BY <2>1, <2>7, <3>1 DEF P2Inv
  <2>8. CASE ResetCounters
    <3>1. UNCHANGED <<running, code>> /\ running = TRUE /\ code = 0 /\ Place(ip)
      BY <2>4, <2>8 DEF ResetCounters, verdict
    <3> QED
      BY <1>0, <2>7, <2>8, <3>1, ResetStep
  <2>9. CASE EnableSie \/ AssignSie
    <3>1. UNCHANGED <<running, code>> /\ running = TRUE /\ code = 0 /\ Place(ip)
      BY <2>4, <2>9 DEF EnableSie, AssignSie, verdict
    <3> QED
      BY <1>0, <2>7, <2>9, <3>1, SieStep
  <2>10. CASE WriteSIE
    <3>1. UNCHANGED <<running, code>> /\ running = TRUE /\ code = 0 /\ Place(ip)
      BY <2>4, <2>10 DEF WriteSIE, verdict
    <3> QED
      BY <1>0, <2>7, <2>10, <3>1, SIEStep
  <2>11. CASE ArmTimer
    <3>1. UNCHANGED <<running, code>> /\ running = TRUE /\ code = 0 /\ Place(ip)
      BY <2>4, <2>11 DEF ArmTimer, verdict
    <3> QED
      BY <1>0, <2>7, <2>11, <3>1, ArmStep
  <2>12. CASE SendSelfIpi
    <3>1. UNCHANGED <<running, code>> /\ running = TRUE /\ code = 0 /\ Place(ip)
      BY <2>4, <2>12 DEF SendSelfIpi, verdict
    <3> QED
      BY <1>0, <2>7, <2>12, <3>1, IpiStep
  <2>13. CASE Pause
    <3>1. UNCHANGED <<running, code>> /\ running = TRUE /\ code = 0 /\ Place(ip)
      BY <2>4, <2>13 DEF Pause, verdict
    <3> QED
      BY <1>0, <2>7, <2>13, <3>1, PauseStep
  <2>14. CASE MapPage
    <3>1. UNCHANGED <<running, code>> /\ running = TRUE /\ code = 0 /\ Place(ip)
      BY <2>4, <2>14 DEF MapPage, verdict
    <3> QED
      BY <1>0, <2>7, <2>14, <3>1, MapStep
  <2>15. CASE LoadVa
    <3>1. UNCHANGED <<running, code>> /\ running = TRUE /\ code = 0 /\ Place(ip)
      BY <2>4, <2>15 DEF LoadVa, verdict
    <3> QED
      BY <1>0, <2>7, <2>15, <3>1, LoadStep
  <2> QED
    BY <1>3, <2>2, <2>3, <2>5, <2>6, <2>8, <2>9, <2>10, <2>11, <2>12, <2>13, <2>14,
       <2>15 DEF Test
<1> QED
  BY <1>2, <1>3 DEF P2Next

\* No assertion of phase P2 on what the trap path delivers can fail: for every
\* time bound, reset value of the comparator and set of harts, wherever the
\* interrupts fall, however long the loops are and whenever wfi completes; 660
\* needs a wfi that completed with nothing pending.  The counters must be able
\* to count the three interrupts of P2.3.
THEOREM InterruptPhaseSound ==
    ASSUME BootMTIE = FALSE, CounterWrap > 3
    PROVE  P2Spec => []P2Sound
<1>1. P2Init => P2Inv
  BY P2InvInit
<1>2. P2Inv /\ [P2Next]_allvars => P2Inv'
  BY P2InvStep
<1>3. P2Inv => P2Sound
  BY DEF P2Inv
<1> QED
  BY <1>1, <1>2, <1>3, PTL DEF P2Spec
=============================================================================
