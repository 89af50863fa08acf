---------------------------- MODULE P2Interrupts ----------------------------
(***************************************************************************)
(* tests/p2_interrupts.c on hart Core0, run over the trap path: the phase  *)
(* as the sequence of its operations, each carried out by the helper of    *)
(* TrapPath it calls, with interrupts falling between any two of them.     *)
(*                                                                         *)
(* Every bounded loop may end by its timeout at any point, every delay     *)
(* loop may be shorter or longer than the deadline it should outlast, and  *)
(* wfi may complete at once, as the architecture allows.                   *)
(***************************************************************************)
EXTENDS TrapPath, Sequences

CONSTANT Core0
ASSUME Core0Assumption == Core0 \in Harts

VARIABLES
    ip,        \* index into Program of the next operation
    timedOut,  \* the last bounded loop ended with timeout = 0
    wokeEarly, \* wfi completed with no interrupt pending
    va_valid,  \* V of the PTE of P2.4's page
    page,      \* what the frame named by that PTE holds
    val,       \* the value P2.4's load returned
    running,   \* neither test_pass nor test_fail has been called
    code       \* the argument of test_fail, 0 if it has not been called

verdict == <<running, code>>
aside == <<timedOut, wokeEarly, va_valid, page, val>>
p2vars == <<ip, aside, verdict>>
allvars == <<vars, p2vars>>

(***************************************************************************)
(* The operations of the test.  <<"eq", f, v, c>> is ASSERT_EQ or       *)
(* test_assert: f must have value v, or the phase fails with code c.        *)
(***************************************************************************)
Reset(counters) == <<"reset", counters>>
EnableIrq(irq) == <<"csrs_sie", irq>>
WriteSie(irqs) == <<"csrw_sie", irqs>>
EnableS == <<"SIE", TRUE>>
DisableS == <<"SIE", FALSE>>
Arm == <<"set_timer">>
SelfIpi == <<"send_ipi">>
Spin(counter, n) == <<"spin", counter, n>>
Delay == <<"delay">>
Wfi == <<"wfi">>
MapInvalid == <<"map">>
Load == <<"load">>
Eq(f, v, c) == <<"eq", f, v, c>>

P2_1 == << Reset({"fault_count", "timer_irq_count"}),
           EnableIrq("timer"), EnableS, Arm, Spin("timer_irq_count", 1), DisableS,
           Eq("timeout", FALSE, 600), Eq("timer_irq_count", 1, 601),
           Eq("last_irq_cause", "timer", 602) >>

P2_2 == << Reset({"soft_irq_count"}),
           EnableIrq("soft"), EnableS, SelfIpi, Spin("soft_irq_count", 1), DisableS,
           Eq("timeout", FALSE, 610), Eq("soft_irq_count", 1, 611),
           Eq("last_irq_cause", "soft", 612) >>

P2_3 == << Reset({"timer_irq_count"}), EnableIrq("timer"), EnableS,
           Arm, Spin("timer_irq_count", 1), Eq("timeout", FALSE, 620),
           Arm, Spin("timer_irq_count", 2), Eq("timeout", FALSE, 621),
           Arm, Spin("timer_irq_count", 3), Eq("timeout", FALSE, 622),
           DisableS, Eq("timer_irq_count", 3, 625) >>

P2_4 == << Reset({"fault_count", "timer_irq_count"}), MapInvalid,
           EnableIrq("timer"), EnableS, Arm, Load, Delay, DisableS,
           Eq("faulted", TRUE, 630), Eq("val", "DEAD0004", 631) >>

P2_5 == << Reset({"soft_irq_count"}), EnableIrq("soft"), DisableS,
           SelfIpi, Delay, Eq("soft_irq_count", 0, 640),
           EnableS, Spin("soft_irq_count", 1), DisableS,
           Eq("soft_irq_count", 1, 641) >>

P2_6 == << Reset({"timer_irq_count"}), WriteSie({"soft"}), EnableS, Arm, Delay,
           Eq("timer_irq_count", 0, 650), Eq("STIP", TRUE, 651),
           EnableIrq("timer"), Spin("timer_irq_count", 1), DisableS,
           Eq("timer_irq_count", 1, 652) >>

P2_7 == << Reset({"timer_irq_count"}), EnableIrq("timer"), DisableS, Arm, Wfi,
           Eq("STIP", TRUE, 660), Eq("timer_irq_count", 0, 661),
           EnableS, DisableS, Eq("timer_irq_count", 1, 662) >>

Program == P2_1 \o P2_2 \o P2_3 \o P2_4 \o P2_5 \o P2_6 \o P2_7

Observed(f) ==
    CASE f = "timeout" -> timedOut
      [] f = "STIP"    -> Core0 \in stip
      [] f = "faulted" -> g_trap.fault_count >= 1
      [] f = "val"     -> val
      [] OTHER         -> g_trap[f]

-----------------------------------------------------------------------------
P2Init ==
    /\ Init
    /\ ip = 1 /\ timedOut = FALSE /\ wokeEarly = FALSE
    /\ va_valid = FALSE /\ page = "none" /\ val = "none"
    /\ running = TRUE /\ code = 0

\* The next operation is op, and the hart executes it.
At(op) ==
    /\ running /\ InThread(Core0)
    /\ ip <= Len(Program) /\ Program[ip][1] = op

Arg(i) == Program[ip][i]
Done == ip' = ip + 1

SieOf == {i \in Irq : \/ i = "timer" /\ Core0 \in STIE
                      \/ i = "soft" /\ Core0 \in SSIE}

\* read_mtime() + d, for a d that may already have passed when the comparator
\* is written: the bound MaxTime plays that part.
Soon == IF mtime < MaxTime THEN mtime + 1 ELSE MaxTime

ResetCounters ==
    /\ At("reset") /\ Done
    /\ g_trap' = [f \in DOMAIN g_trap |-> IF f \in Arg(2) THEN 0 ELSE g_trap[f]]
    /\ UNCHANGED <<mtime, clint, mcsr, scsr, inM, pc, request, owed,
                   aside, verdict>>

EnableSie ==
    /\ At("csrs_sie") /\ Done
    /\ write_sie(Core0, SieOf \cup {Arg(2)})
    /\ UNCHANGED <<aside, verdict>>

\* Bug variant: csrs instead of csrw.
AssignSie_Csrs ==
    /\ At("csrw_sie") /\ Done
    /\ write_sie(Core0, SieOf \cup Arg(2))
    /\ UNCHANGED <<aside, verdict>>

AssignSie ==
    /\ At("csrw_sie") /\ Done
    /\ write_sie(Core0, Arg(2))
    /\ UNCHANGED <<aside, verdict>>

WriteSIE ==
    /\ At("SIE") /\ Done
    /\ SetSIE(Core0, Arg(2))
    /\ UNCHANGED <<aside, verdict>>

ArmTimer ==
    /\ At("set_timer") /\ Done
    /\ sbi_set_timer(Core0, Soon)
    /\ UNCHANGED <<aside, verdict>>

SendSelfIpi ==
    /\ At("send_ipi") /\ Done
    /\ sbi_send_ipi(Core0, Core0)
    /\ UNCHANGED <<aside, verdict>>

\* while (count < n && --timeout > 0): ends by the count or by the timeout
SpinEnd ==
    /\ At("spin") /\ Done
    /\ timedOut' = (g_trap[Arg(2)] < Arg(3))
    /\ UNCHANGED <<vars, wokeEarly, va_valid, page, val, verdict>>

\* A delay loop ends; wfi completes, whether an interrupt is pending or not
Pause ==
    /\ \/ At("delay") /\ UNCHANGED wokeEarly
       \/ At("wfi") /\ WfiResumes(Core0) /\ UNCHANGED wokeEarly
       \/ At("wfi") /\ ~WfiResumes(Core0) /\ wokeEarly' = TRUE
    /\ Done
    /\ UNCHANGED <<vars, timedOut, va_valid, page, val, verdict>>

\* *pa = 0xDEAD0004, pt_map_page without V, sfence.vma
MapPage ==
    /\ At("map") /\ Done
    /\ va_valid' = FALSE /\ page' = "DEAD0004"
    /\ UNCHANGED <<vars, timedOut, wokeEarly, val, verdict>>

\* The load of P2.4: it retires when the PTE is valid, else it faults into
\* s_trap_handler, which sets V and retries it.
LoadVa ==
    /\ At("load")
    /\ \/ /\ va_valid /\ Done
          /\ val' = page
          /\ UNCHANGED vars
       \/ /\ ~va_valid
          /\ EnterS(Core0, "s_fault")
          /\ g_trap' = [g_trap EXCEPT !.fault_count = Bump(@)]
          /\ UNCHANGED <<mtime, clint, mcsr, STIE, SSIE, inM, request, owed,
                         ip, val>>
    /\ UNCHANGED <<timedOut, wokeEarly, va_valid, page, verdict>>

\* Bug variant: the handler returns without setting V.
FixPte_NoV ==
    /\ pc[Core0] = "s_fault" /\ Executes(Core0)
    /\ pc' = [pc EXCEPT ![Core0] = "s_ret"]
    /\ UNCHANGED <<mtime, clint, mcsr, scsr, inM, g_trap, request, owed,
                   ip, aside, verdict>>

FixPte ==
    /\ pc[Core0] = "s_fault" /\ Executes(Core0)
    /\ va_valid' = TRUE
    /\ pc' = [pc EXCEPT ![Core0] = "s_ret"]
    /\ UNCHANGED <<mtime, clint, mcsr, scsr, inM, g_trap, request, owed,
                   ip, timedOut, wokeEarly, page, val, verdict>>

\* ASSERT_EQ / test_assert: a mismatch ends the phase in test_fail(code)
Assert ==
    /\ At("eq")
    /\ IF Observed(Arg(2)) = Arg(3)
         THEN Done /\ UNCHANGED verdict
         ELSE running' = FALSE /\ code' = Arg(4) /\ UNCHANGED ip
    /\ UNCHANGED <<vars, aside>>

Return ==
    /\ running /\ ip = Len(Program) + 1 /\ InThread(Core0)
    /\ running' = FALSE
    /\ UNCHANGED <<vars, code, ip, aside>>

Test ==
    \/ ResetCounters \/ EnableSie \/ AssignSie \/ WriteSIE \/ ArmTimer
    \/ SendSelfIpi \/ SpinEnd \/ Pause \/ MapPage \/ LoadVa \/ FixPte
    \/ Assert \/ Return

Machine ==
    /\ Tick \/ \E h \in Harts : MMode(h) \/ SHandler(h)
    /\ UNCHANGED p2vars

P2Next == Machine \/ Test

P2Spec ==
    /\ P2Init /\ [][P2Next]_allvars
    /\ WF_allvars(Test) /\ WF_allvars(Machine)

-----------------------------------------------------------------------------
\* The codes whose assertion is about what the trap path does, not about how
\* long a loop or wfi lasts.
DeliveryCodes == {601, 602, 611, 612, 625, 630, 631, 640, 650, 661, 662}

\* No assertion on what was delivered can fail, wherever interrupts fall and
\* however long the loops are: each armed timer and each IPI is counted once,
\* masked ones not at all, P2.4's retried load returns what its page holds, and
\* the timer P2.4 may leave armed disturbs none of P2.5 to P2.7.  641 and 652
\* fail only when their loop timed out, and 660 (p2_interrupts.c:206) only when
\* wfi completed with nothing pending; 661 and 662 hold then, too.
P2Sound ==
    /\ code \notin DeliveryCodes
    /\ code \in {641, 652} => timedOut
    /\ code = 660 => wokeEarly

\* The phase ends: with a verdict, never stuck in wfi or in the retried load.
P2Ends == <>~running
=============================================================================
