------------------------------ MODULE ParkWake ------------------------------
(***************************************************************************)
(* Hart 1's park loop and hart 0's wake_core1_smode (common/smode.c), from *)
(* the boot code (common/boot.S) to the way tests/p4_dualcore.c uses them, *)
(* over the IPI path of TrapPath.                                          *)
(*                                                                         *)
(* A function passed to wake_core1_smode is the number of the test that    *)
(* passes it; 0 is the null pointer.  Memory is sequentially consistent    *)
(* here: the hazards are those the protocol has even then.                 *)
(***************************************************************************)
EXTENDS TrapPath, Sequences

CONSTANT
    Tests       \* the P4 tests in order, each by the way it synchronises:
                \*   "writer"    hart 1 works, then sets its done flag, on which
                \*               hart 0 waits           (P4.0, P4.2, P4.3, P4.4)
                \*   "consumer"  hart 1 waits for hart 0's flag first    (P4.1A)
                \*   "producer"  hart 1 sets the flag, then waits for hart 0 to
                \*               set fence_done                          (P4.1B)

ASSUME TestsAssumption == Tests \in Seq({"writer", "consumer", "producer"})
ASSUME HartsAssumption == Harts = {0, 1}

VARIABLES
    clearsBss, \* hart 0 clears .bss while hart 1 boots (boot.S), or finds it
               \* zeroed (the QEMU port)
    wfiSleeps, \* wfi stalls until an interrupt, or completes at once
    ready,     \* g_core1_smode_ready
    target,    \* g_smode_target
    flag,      \* g_p4.fence_flag
    done,      \* the done flag of the running test (core1_*_done, fence_done)
    pc0,       \* where hart 0 is
    test,      \* the test hart 0 is in
    pc1,       \* where hart 1 is
    cur,       \* the function hart 1 is executing
    lastRun    \* history: the last function hart 1 called

pvars == <<ready, target, flag, done, pc0, test, pc1, cur, lastRun>>
allvars == <<vars, pvars>>
platform == <<clearsBss, wfiSleeps>>

\* 0, the null pointer, and the end of the phase are no test.
Kind(k) == IF k \in DOMAIN Tests THEN Tests[k] ELSE "none"

-----------------------------------------------------------------------------
PWInit ==
    /\ Init
    /\ clearsBss \in BOOLEAN /\ wfiSleeps \in BOOLEAN
    /\ ready = 0 /\ target = 0 /\ flag = 0 /\ done = 0
    /\ pc0 = (IF clearsBss THEN "bss" ELSE "reset") /\ test = 1
    /\ pc1 = "boot" /\ cur = 0 /\ lastRun = 0

-----------------------------------------------------------------------------
(***************************************************************************)
(* Hart 0: _start, then test_main, one test after the other.               *)
(***************************************************************************)
At0(here, there) == pc0 = here /\ pc0' = there /\ InThread(0)

ClearBss ==
    /\ At0("bss", "reset")
    /\ ready' = 0 /\ target' = 0 /\ flag' = 0 /\ done' = 0
    /\ UNCHANGED <<vars, test, pc1, cur, lastRun>>

\* Bug variant: the done flag of the last test survives.
ResetP4_KeepsDone ==
    /\ test <= Len(Tests)
    /\ At0("reset", "ready?")
    /\ flag' = 0
    /\ UNCHANGED <<vars, ready, target, done, test, pc1, cur, lastRun>>

\* g_p4 = (p4_state_t){0}
ResetP4 ==
    /\ test <= Len(Tests)
    /\ At0("reset", "ready?")
    /\ flag' = 0 /\ done' = 0
    /\ UNCHANGED <<vars, ready, target, test, pc1, cur, lastRun>>

\* wake_core1_smode: wait for hart 1, publish the function, send the IPI
AwaitReady ==
    /\ At0("ready?", "publish") /\ ready = 1
    /\ UNCHANGED <<vars, ready, target, flag, done, test, pc1, cur, lastRun>>

Publish ==
    /\ At0("publish", "ipi")
    /\ target' = test
    /\ UNCHANGED <<vars, ready, flag, done, test, pc1, cur, lastRun>>

SendIpi ==
    /\ At0("ipi", "body")
    /\ sbi_send_ipi(0, 1)
    /\ UNCHANGED <<ready, target, flag, done, test, pc1, cur, lastRun>>

\* Bug variants: the flag is not raised; the result is not waited for.
RaiseFlag_Not ==
    /\ Kind(test) = "consumer" /\ At0("body", "wait")
    /\ UNCHANGED <<vars, ready, target, flag, done, test, pc1, cur, lastRun>>

AwaitDone_Not ==
    /\ \/ Kind(test) = "writer" /\ At0("body", "reset")
       \/ Kind(test) = "consumer" /\ At0("wait", "reset")
    /\ test' = test + 1
    /\ UNCHANGED <<vars, ready, target, flag, done, pc1, cur, lastRun>>

\* Hart 0's side of the test, up to the point where it trusts the result
RaiseFlag ==
    /\ Kind(test) = "consumer" /\ At0("body", "wait")
    /\ flag' = 1
    /\ UNCHANGED <<vars, ready, target, done, test, pc1, cur, lastRun>>

AwaitFlag ==
    /\ Kind(test) = "producer" /\ At0("body", "confirm") /\ flag = 1
    /\ UNCHANGED <<vars, ready, target, flag, done, test, pc1, cur, lastRun>>

\* P4.1B: fence_done = 1, and on to the next test without waiting for hart 1
Confirm ==
    /\ At0("confirm", "reset")
    /\ done' = 1 /\ test' = test + 1
    /\ UNCHANGED <<vars, ready, target, flag, pc1, cur, lastRun>>

AwaitDone ==
    /\ \/ Kind(test) = "writer" /\ At0("body", "reset")
       \/ Kind(test) = "consumer" /\ At0("wait", "reset")
    /\ done = 1 /\ test' = test + 1
    /\ UNCHANGED <<vars, ready, target, flag, done, pc1, cur, lastRun>>

Core0 ==
    \/ ClearBss \/ ResetP4 \/ AwaitReady \/ Publish \/ SendIpi
    \/ RaiseFlag \/ AwaitFlag \/ Confirm \/ AwaitDone

-----------------------------------------------------------------------------
(***************************************************************************)
(* Hart 1: core1_smode_park_loop and the worker it calls.                  *)
(***************************************************************************)
At1(here, there) == pc1 = here /\ pc1' = there /\ InThread(1)

\* stvec, sie.SSIE, sstatus.SIE
Setup ==
    /\ At1("boot", "announce")
    /\ SSIE' = SSIE \cup {1} /\ SIE' = SIE \cup {1}
    /\ UNCHANGED <<mtime, clint, mcsr, STIE, SPIE, inM, pc, g_trap, request, owed,
                   ready, target, flag, done, pc0, test, cur, lastRun>>

Announce ==
    /\ At1("announce", "clear")
    /\ ready' = 1
    /\ UNCHANGED <<vars, target, flag, done, pc0, test, cur, lastRun>>

\* Bug variants: the target is reset before the wait instead of after the
\* call; it is not reset at all.
clear_sip_ssip_Resets ==
    /\ At1("clear", "check")
    /\ sbi_clear_ipi(1)
    /\ target' = 0
    /\ UNCHANGED <<ready, flag, done, pc0, test, cur, lastRun>>

Forget_Not ==
    /\ At1("forget", "clear")
    /\ cur' = 0
    /\ UNCHANGED <<vars, ready, target, flag, done, pc0, test, lastRun>>

clear_sip_ssip ==
    /\ At1("clear", "check")
    /\ sbi_clear_ipi(1)
    /\ UNCHANGED <<ready, target, flag, done, pc0, test, cur, lastRun>>

\* while (g_smode_target == 0)
Check ==
    /\ At1("check", IF target = 0 THEN "wfi" ELSE "call")
    /\ UNCHANGED <<vars, ready, target, flag, done, pc0, test, cur, lastRun>>

\* wfi stalls the hart: no interrupt that is already gone ends the stall.
ExecWfi ==
    /\ At1("wfi", IF wfiSleeps THEN "asleep" ELSE "check")
    /\ UNCHANGED <<vars, ready, target, flag, done, pc0, test, cur, lastRun>>

\* The stall ends before the interrupt that ends it is taken.
WakeUp ==
    /\ pc1 = "asleep" /\ WfiResumes(1)
    /\ pc1' = "check"
    /\ UNCHANGED <<vars, ready, target, flag, done, pc0, test, cur, lastRun>>

\* g_smode_target(): the volatile pointer is read a second time
Call ==
    /\ At1("call", IF Kind(target) = "consumer" THEN "flag?" ELSE "work")
    /\ cur' = target /\ lastRun' = target
    /\ UNCHANGED <<vars, ready, target, flag, done, pc0, test>>

WorkerAwaitsFlag ==
    /\ At1("flag?", "work") /\ flag = 1
    /\ UNCHANGED <<vars, ready, target, flag, done, pc0, test, cur, lastRun>>

\* The worker's last store for hart 0: the done flag, or fence_flag in P4.1B
WorkerSignals ==
    /\ IF Kind(cur) = "producer"
         THEN /\ At1("work", "confirmed?") /\ flag' = 1 /\ UNCHANGED done
         ELSE /\ At1("work", "forget") /\ done' = 1 /\ UNCHANGED flag
    /\ UNCHANGED <<vars, ready, target, pc0, test, cur, lastRun>>

WorkerAwaitsDone ==
    /\ At1("confirmed?", "forget") /\ done = 1
    /\ UNCHANGED <<vars, ready, target, flag, done, pc0, test, cur, lastRun>>

\* g_smode_target = 0
Forget ==
    /\ At1("forget", "clear")
    /\ target' = 0 /\ cur' = 0
    /\ UNCHANGED <<vars, ready, flag, done, pc0, test, lastRun>>

Core1 ==
    \/ Setup \/ Announce \/ clear_sip_ssip \/ Check \/ ExecWfi \/ WakeUp
    \/ Call \/ WorkerAwaitsFlag \/ WorkerSignals \/ WorkerAwaitsDone \/ Forget

\* Traps on hart 1, which takes none before WakeUp while it is stalled.  Hart 0
\* keeps SIE clear throughout P4 and nobody sends it an IPI.
Machine ==
    /\ pc1 # "asleep"
    /\ MMode(1) \/ SHandler(1)
    /\ UNCHANGED pvars

PWNext == (Core0 \/ Core1 \/ Machine) /\ UNCHANGED platform

PWSpec ==
    /\ PWInit /\ [][PWNext]_<<allvars, platform>>
    /\ WF_allvars(Core0) /\ WF_allvars(Core1) /\ WF_allvars(Machine)

-----------------------------------------------------------------------------
\* Hart 1 never calls through a null pointer, although it reads g_smode_target
\* twice, and never runs a function again or after a later one: one call per
\* wake at most, in the order of the wakes.
CallsAreFresh ==
    [][pc1 = "call" /\ pc1' # "call" => cur' # 0 /\ cur' > lastRun]_allvars

\* A worker stores its result flag while hart 0 is still in that worker's
\* test: no late store of one test reaches the next one's g_p4.
StoresInOwnTest ==
    [][flag' > flag \/ done' > done => pc1' = pc1 \/ cur = test]_allvars

\* Hart 0 takes a result for test k only from function k: it has been called.
ResultsAreGenuine ==
    [][test' > test => lastRun = test]_allvars

\* The two ways the first wake can fail: hart 0's clearing of .bss came after
\* hart 1 announced itself, and smode.c:366 waits for a flag nobody sets again;
\* or hart 1 took the IPI between its test of g_smode_target and wfi, and is
\* asleep although there is a function to run.
ReadyWiped == pc0 = "ready?" /\ ready = 0 /\ pc1 \notin {"boot", "announce"}
Overslept == pc1 = "asleep" /\ target # 0

\* The promise of wake_core1_smode, for the first wake: hart 1 runs the function,
\* unless .bss is cleared while it boots and wipes its announcement for good, or
\* wfi stalls and it oversleeps for good.  There is no third way, and on a
\* platform that does neither the function runs.
FirstWakeRuns ==
    \/ <>(lastRun >= 1)
    \/ clearsBss /\ <>[]ReadyWiped
    \/ wfiSleeps /\ <>[]Overslept

\* Hart 1 forgets only the function it has just run (smode.c:358 "reset and
\* wait for next test").
ForgetsOnlyWhatItRan == [][target' = 0 /\ target # 0 => target = cur]_allvars

\* On every platform the park loop gets control back from every function it
\* calls, except that of P4.1B: hart 0 goes on and zeroes g_p4 without waiting
\* for the producer to see fence_done.
WorkersReturn == (cur # 0 /\ Kind(cur) # "producer") ~> (cur = 0)
=============================================================================
