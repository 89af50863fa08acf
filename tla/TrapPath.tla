------------------------------ MODULE TrapPath ------------------------------
(***************************************************************************)
(* The two-level trap path of the bare-metal suite: the M-mode firmware    *)
(* (common/m_trap.c behind the vector of common/boot.S), the S-mode        *)
(* handler (s_trap_handler of common/smode.c) and the S-mode code that     *)
(* calls them through the helpers of common/test.h.                        *)
(*                                                                         *)
(* A CSR or CLINT bit that every hart has is the SET of harts whose bit is *)
(* set.  M-mode code runs with mstatus.MIE = 0, so it is atomic for its    *)
(* own hart; only msip[] is written by other harts, and the one handler    *)
(* that reads and then acts on it (IRQ_M_SOFT) is two steps.               *)
(***************************************************************************)
EXTENDS Naturals

CONSTANTS
    Harts,        \* hart ids, NUM_HARTS of them
    NoHart,       \* an a0 outside 0..NUM_HARTS-1, which SBI_SEND_IPI ignores
    TimerHarts,   \* the harts whose S-mode code calls sbi_set_timer
    MaxTime,      \* bound on mtime
    ResetCmp,     \* the values mtimecmp may have when the firmware starts
    BootMTIE,     \* does the boot code leave mie.MTIE set?
    CounterWrap   \* the g_trap counters are C ints: they wrap, here at this value

ASSUME HartAssumption == NoHart \notin Harts
ASSUME TimerHartsAssumption == TimerHarts \subseteq Harts
ASSUME TimeAssumption == MaxTime \in Nat
ASSUME CounterAssumption == CounterWrap \in Nat \ {0}
ASSUME ResetAssumption == ResetCmp \subseteq 0 .. MaxTime + 1
ASSUME BootAssumption == BootMTIE \in BOOLEAN

\* 0xFFFFFFFFFFFFFFFF: a deadline mtime does not reach.
Never == MaxTime + 1
Deadline == 0 .. MaxTime
Irq == {"timer", "soft"}

VARIABLES
    mtime,      \* CLINT mtime
    mtimecmp,   \* CLINT mtimecmp[hart]
    msip,       \* harts whose CLINT msip word is 1
    mtie,       \* harts with mie.MTIE
    stip, ssip, \* harts with mip.STIP, mip.SSIP
    STIE, SSIE, \* harts with sie.STIE, sie.SSIE
    SIE, SPIE,  \* harts with sstatus.SIE, sstatus.SPIE
    inM,        \* harts in m_trap_handler between "*msip = 0" and "set SSIP"
    pc,         \* "thread", or the place in s_trap_handler
    g_trap,     \* the counters the S-mode handler keeps
    request,    \* history: the deadline the S-mode code last asked for and has
                \* not had acknowledged, Never if none
    owed        \* history: harts sent an IPI that nobody has acknowledged

clint == <<mtimecmp, msip>>
mcsr == <<mtie, stip, ssip>>
scsr == <<STIE, SSIE, SIE, SPIE>>
vars == <<mtime, mtimecmp, msip, mtie, stip, ssip, STIE, SSIE, SIE, SPIE,
          inM, pc, g_trap, request, owed>>

(***************************************************************************)
(* Interrupt pending and enabled.  mideleg sends the S interrupts to S     *)
(* mode; the M ones are always enabled while the hart runs below M mode.   *)
(***************************************************************************)
MSoftTakeable(h) == h \in msip
MTimerTakeable(h) == h \in mtie /\ mtimecmp[h] <= mtime
SSoftTakeable(h) == h \in SIE \cap SSIE \cap ssip
STimerTakeable(h) == h \in SIE \cap STIE \cap stip

\* The hart executes its next S-mode instruction: it is in S mode and no
\* interrupt comes first.
Executes(h) ==
    /\ h \notin inM
    /\ ~MSoftTakeable(h) /\ ~MTimerTakeable(h)
    /\ ~SSoftTakeable(h) /\ ~STimerTakeable(h)

InThread(h) == pc[h] = "thread" /\ Executes(h)

\* What wfi waits for: an interrupt pending and locally enabled, whatever SIE is.
WfiResumes(h) ==
    \/ MSoftTakeable(h) \/ MTimerTakeable(h)
    \/ h \in (SSIE \cap ssip) \cup (STIE \cap stip)

-----------------------------------------------------------------------------
\* boot.S, once both harts have left M mode.
Init ==
    /\ mtime = 0
    /\ mtimecmp \in [Harts -> ResetCmp]
    /\ msip = {}
    /\ mtie = IF BootMTIE THEN Harts ELSE {}
    /\ stip = {} /\ ssip = {}
    /\ STIE = {} /\ SSIE = {} /\ SIE = {} /\ SPIE = {}
    /\ inM = {}
    /\ pc = [h \in Harts |-> "thread"]
    /\ g_trap = [fault_count |-> 0, timer_irq_count |-> 0,
                 soft_irq_count |-> 0, last_irq_cause |-> "none"]
    /\ request = [h \in Harts |-> Never]
    /\ owed = {}

Tick ==
    /\ mtime < MaxTime
    /\ mtime' = mtime + 1
    /\ UNCHANGED <<clint, mcsr, scsr, inM, pc, g_trap, request, owed>>

-----------------------------------------------------------------------------
(***************************************************************************)
(* M mode: the interrupts of m_trap_handler, in the order of their         *)
(* priority (MSI before MTI).                                              *)
(***************************************************************************)
\* Bug variant: the handler clears the msip words of all harts.
IRQ_M_SOFT_clear_AllHarts(h) ==
    /\ h \notin inM /\ MSoftTakeable(h)
    /\ msip' = {}
    /\ inM' = inM \cup {h}
    /\ UNCHANGED <<mtime, mtimecmp, mcsr, scsr, pc, g_trap, request, owed>>

IRQ_M_SOFT_clear(h) ==
    /\ h \notin inM /\ MSoftTakeable(h)
    /\ msip' = msip \ {h}
    /\ inM' = inM \cup {h}
    /\ UNCHANGED <<mtime, mtimecmp, mcsr, scsr, pc, g_trap, request, owed>>

\* Bug variant: SSIP is not the mip bit that is set.
IRQ_M_SOFT_inject_WrongBit(h) ==
    /\ h \in inM
    /\ stip' = stip \cup {h}
    /\ inM' = inM \ {h}
    /\ UNCHANGED <<mtime, clint, mtie, ssip, scsr, pc, g_trap, request, owed>>

IRQ_M_SOFT_inject(h) ==
    /\ h \in inM
    /\ ssip' = ssip \cup {h}
    /\ inM' = inM \ {h}
    /\ UNCHANGED <<mtime, clint, mtie, stip, scsr, pc, g_trap, request, owed>>

IRQ_M_TIMER(h) ==
    /\ h \notin inM /\ ~MSoftTakeable(h) /\ MTimerTakeable(h)
    /\ mtie' = mtie \ {h}
    /\ mtimecmp' = [mtimecmp EXCEPT ![h] = Never]
    /\ stip' = stip \cup {h}
    /\ UNCHANGED <<mtime, msip, ssip, scsr, inM, pc, g_trap, request, owed>>

\* Bug variants: STIP survives a new deadline, MTIE is not set again, and
\* the target hart is not checked against NUM_HARTS.
SBI_SET_TIMER_KeepsStip(h, t) ==
    /\ mtimecmp' = [mtimecmp EXCEPT ![h] = t]
    /\ mtie' = mtie \cup {h}
    /\ request' = [request EXCEPT ![h] = t]
    /\ UNCHANGED stip

SBI_SET_TIMER_NoMtie(h, t) ==
    /\ mtimecmp' = [mtimecmp EXCEPT ![h] = t]
    /\ stip' = stip \ {h}
    /\ request' = [request EXCEPT ![h] = t]
    /\ UNCHANGED mtie

SBI_SEND_IPI_Unchecked(target) ==
    /\ msip' = msip \cup {target}
    /\ owed' = owed \cup {target}

\* The SBI calls of m_trap_handler: what each does before it returns mepc + 4.
SBI_SET_TIMER(h, t) ==
    /\ mtimecmp' = [mtimecmp EXCEPT ![h] = t]
    /\ stip' = stip \ {h}
    /\ mtie' = mtie \cup {h}
    /\ request' = [request EXCEPT ![h] = t]

SBI_SEND_IPI(target) ==
    /\ msip' = msip \cup ({target} \cap Harts)
    /\ owed' = owed \cup ({target} \cap Harts)

SBI_CLEAR_IPI(h) ==
    /\ ssip' = ssip \ {h}
    /\ owed' = owed \ {h}

-----------------------------------------------------------------------------
(***************************************************************************)
(* S-mode trap entry and sret, and s_trap_handler's interrupt branch.      *)
(***************************************************************************)
EnterS(h, place) ==
    /\ pc' = [pc EXCEPT ![h] = place]
    /\ SPIE' = IF h \in SIE THEN SPIE \cup {h} ELSE SPIE \ {h}
    /\ SIE' = SIE \ {h}

Bump(n) == (n + 1) % CounterWrap

\* IRQ_S_SOFT, taken before a pending timer interrupt.
STrapSoft(h) ==
    /\ h \notin inM /\ ~MSoftTakeable(h) /\ ~MTimerTakeable(h)
    /\ SSoftTakeable(h)
    /\ EnterS(h, "s_soft")
    /\ g_trap' = [g_trap EXCEPT !.fault_count = Bump(@),
                                !.soft_irq_count = Bump(@),
                                !.last_irq_cause = "soft"]
    /\ UNCHANGED <<mtime, clint, mcsr, STIE, SSIE, inM, request, owed>>

STrapTimer(h) ==
    /\ h \notin inM /\ ~MSoftTakeable(h) /\ ~MTimerTakeable(h)
    /\ ~SSoftTakeable(h) /\ STimerTakeable(h)
    /\ EnterS(h, "s_timer")
    /\ g_trap' = [g_trap EXCEPT !.fault_count = Bump(@),
                                !.timer_irq_count = Bump(@),
                                !.last_irq_cause = "timer"]
    /\ UNCHANGED <<mtime, clint, mcsr, STIE, SSIE, inM, request, owed>>

\* Bug variants: SSIP is left pending; the handler enables interrupts itself.
STrapSoftAck_NoClear(h) ==
    /\ pc[h] = "s_soft" /\ Executes(h)
    /\ pc' = [pc EXCEPT ![h] = "s_ret"]
    /\ UNCHANGED <<mtime, clint, mcsr, scsr, inM, g_trap, request, owed>>

STrapTimerAck_Enables(h) ==
    /\ pc[h] = "s_timer" /\ Executes(h)
    /\ SBI_SET_TIMER(h, Never)
    /\ pc' = [pc EXCEPT ![h] = "s_ret"]
    /\ SIE' = SIE \cup {h}
    /\ UNCHANGED <<mtime, msip, ssip, STIE, SSIE, SPIE, inM, g_trap, owed>>

\* csrc sip, SSIP
STrapSoftAck(h) ==
    /\ pc[h] = "s_soft" /\ Executes(h)
    /\ SBI_CLEAR_IPI(h)
    /\ pc' = [pc EXCEPT ![h] = "s_ret"]
    /\ UNCHANGED <<mtime, clint, mtie, stip, scsr, inM, g_trap, request>>

\* The handler's own ecall, sbi_set_timer(max)
STrapTimerAck(h) ==
    /\ pc[h] = "s_timer" /\ Executes(h)
    /\ SBI_SET_TIMER(h, Never)
    /\ pc' = [pc EXCEPT ![h] = "s_ret"]
    /\ UNCHANGED <<mtime, msip, ssip, scsr, inM, g_trap, owed>>

\* The end of _s_trap_vector
SRet(h) ==
    /\ pc[h] = "s_ret" /\ Executes(h)
    /\ SIE' = IF h \in SPIE THEN SIE \cup {h} ELSE SIE \ {h}
    /\ SPIE' = SPIE \cup {h}
    /\ pc' = [pc EXCEPT ![h] = "thread"]
    /\ UNCHANGED <<mtime, clint, mcsr, STIE, SSIE, inM, g_trap, request, owed>>

-----------------------------------------------------------------------------
(***************************************************************************)
(* What S-mode code does through test.h.                                   *)
(***************************************************************************)
SetSIE(h, set) ==
    /\ InThread(h)
    /\ SIE' = IF set THEN SIE \cup {h} ELSE SIE \ {h}
    /\ UNCHANGED <<mtime, clint, mcsr, STIE, SSIE, SPIE, inM, pc, g_trap,
                   request, owed>>

write_sie(h, irqs) ==
    /\ InThread(h)
    /\ STIE' = IF "timer" \in irqs THEN STIE \cup {h} ELSE STIE \ {h}
    /\ SSIE' = IF "soft" \in irqs THEN SSIE \cup {h} ELSE SSIE \ {h}
    /\ UNCHANGED <<mtime, clint, mcsr, SIE, SPIE, inM, pc, g_trap, request, owed>>

sbi_set_timer(h, t) ==
    /\ InThread(h)
    /\ SBI_SET_TIMER(h, t)
    /\ UNCHANGED <<mtime, msip, ssip, scsr, inM, pc, g_trap, owed>>

sbi_send_ipi(h, target) ==
    /\ InThread(h)
    /\ SBI_SEND_IPI(target)
    /\ UNCHANGED <<mtime, mtimecmp, mcsr, scsr, inM, pc, g_trap, request>>

\* sbi_clear_ipi and clear_sip_ssip: the same bit, from M or from S mode.
sbi_clear_ipi(h) ==
    /\ InThread(h)
    /\ SBI_CLEAR_IPI(h)
    /\ UNCHANGED <<mtime, clint, mtie, stip, scsr, inM, pc, g_trap, request>>

\* A non-SBI ecall is reflected: the firmware writes scause, sepc, stval and
\* SPP and returns to stvec.  Unlike a delegated trap it changes neither SIE
\* nor SPIE, so the handler starts with the caller's SIE and its sret loads
\* SIE from whatever SPIE an earlier trap left.  The suite issues one such
\* ecall (P0.3), with interrupts disabled.
ReflectEcall(h) ==
    /\ InThread(h) /\ h \notin SIE
    /\ pc' = [pc EXCEPT ![h] = "s_ret"]
    /\ g_trap' = [g_trap EXCEPT !.fault_count = Bump(@)]
    /\ UNCHANGED <<mtime, clint, mcsr, scsr, inM, request, owed>>

-----------------------------------------------------------------------------
MMode(h) == IRQ_M_SOFT_clear(h) \/ IRQ_M_SOFT_inject(h) \/ IRQ_M_TIMER(h)

SHandler(h) ==
    \/ STrapSoft(h) \/ STrapTimer(h)
    \/ STrapSoftAck(h) \/ STrapTimerAck(h) \/ SRet(h)

Client(h) ==
    \/ \E set \in BOOLEAN : SetSIE(h, set)
    \/ \E irqs \in SUBSET Irq : write_sie(h, irqs)
    \/ h \in TimerHarts /\ \E t \in Deadline \cup {Never} : sbi_set_timer(h, t)
    \/ \E target \in Harts \cup {NoHart} : sbi_send_ipi(h, target)
    \/ sbi_clear_ipi(h)
    \/ ReflectEcall(h)

Next == Tick \/ \E h \in Harts : MMode(h) \/ SHandler(h) \/ Client(h)

Spec == Init /\ [][Next]_vars

\* A hart that is running takes its M-mode interrupts and leaves their handler.
FairSpec == Spec /\ \A h \in Harts : WF_vars(MMode(h))

-----------------------------------------------------------------------------
TypeOK ==
    /\ mtime \in 0 .. MaxTime
    /\ mtimecmp \in [Harts -> 0 .. Never]
    /\ msip \subseteq Harts /\ mtie \subseteq Harts
    /\ stip \subseteq Harts /\ ssip \subseteq Harts
    /\ STIE \subseteq Harts /\ SSIE \subseteq Harts
    /\ SIE \subseteq Harts /\ SPIE \subseteq Harts
    /\ inM \subseteq Harts
    /\ pc \in [Harts -> {"thread", "s_soft", "s_timer", "s_ret"}]
    /\ g_trap \in [fault_count : 0 .. CounterWrap - 1,
                   timer_irq_count : 0 .. CounterWrap - 1,
                   soft_irq_count : 0 .. CounterWrap - 1,
                   last_irq_cause : Irq \cup {"none"}]
    /\ request \in [Harts -> 0 .. Never]
    /\ owed \subseteq Harts

\* The timer as the S-mode code sees it is one-shot and faithful: STIP is
\* pending only for a deadline that was asked for and has passed, and then
\* the CLINT comparator is disarmed; a deadline not yet delivered is the one
\* in the comparator, with MTIE set; MTIE off with no STIP means nothing is
\* outstanding.  (m_trap.c IRQ_M_TIMER / SBI_SET_TIMER, smode.c IRQ_S_TIMER.)
TimerFaithful ==
    \A h \in Harts :
        /\ h \in stip => /\ h \notin mtie
                         /\ mtimecmp[h] = Never
                         /\ request[h] <= mtime
        /\ h \notin stip /\ h \in mtie => mtimecmp[h] = request[h]
        /\ h \notin stip /\ h \notin mtie => request[h] = Never

\* A hart that was sent an IPI and has not acknowledged it still has it on the
\* way: in the CLINT, in the M-mode handler, or as SSIP.  IPIs coalesce, but
\* none vanishes between the msip and the SSIP level, whoever sends when.
IpiNotLost == owed \subseteq msip \cup inM \cup ssip

\* s_trap_handler is never re-entered (it runs with SIE clear, so one frame of
\* _s_trap_vector is live at a time), and an interrupt handler will give the
\* interrupted code its SIE back: it was set, so SPIE is.
HandlerMasked ==
    \A h \in Harts :
        /\ pc[h] # "thread" => h \notin SIE
        /\ pc[h] \in {"s_soft", "s_timer"} => h \in SPIE

\* An armed deadline leads to a pending STIP unless the S-mode code moves it.
\* (With one hart: IPIs sent to a hart without end keep it in IRQ_M_SOFT.)
TimerPends ==
    \A h \in Harts, t \in Deadline :
        request[h] = t ~> (h \in stip \/ request[h] # t)

\* An IPI leads to SSIP on its target, whichever harts send how many meanwhile,
\* crossing IPIs of two harts included.
IpiPends == \A h \in Harts : h \in msip ~> h \in ssip

\* An S-mode interrupt that is pending while SIE and its sie bit are set is
\* acknowledged, the timer also when a software interrupt goes first: the
\* handlers run to their end, give SIE back and clear the bit.
IrqAcknowledged ==
    \A h \in Harts :
        /\ SSoftTakeable(h) ~> h \notin ssip
        /\ STimerTakeable(h) ~> h \notin stip
=============================================================================
