--------------------------- MODULE ParkWakeProofs ---------------------------
(***************************************************************************)
(* TLAPS proofs about ParkWake: what hart 1 runs and what hart 0 believes, *)
(* for every sequence of tests, on every platform and whatever the trap    *)
(* path does in between.                                                   *)
(***************************************************************************)
EXTENDS ParkWake, TLAPS

USE TestsAssumption

\* Hart 0 has not published the function of the current test yet.
Before == {"bss", "reset", "ready?", "publish"}
\* It has, and still waits for the result.
Waiting == {"ipi", "body", "wait"}
\* Hart 1 is in a function.
Inside == {"flag?", "work", "confirmed?", "forget"}

PWTypes ==
    /\ ready \in {0, 1} /\ flag \in {0, 1} /\ done \in {0, 1}
    /\ test \in 1 .. Len(Tests) + 1
    /\ target \in 0 .. Len(Tests) /\ cur \in 0 .. Len(Tests)
    /\ lastRun \in 0 .. Len(Tests)
    /\ pc0 \in Before \cup Waiting \cup {"confirm"}
    /\ pc1 \in {"boot", "announce", "clear", "check", "wfi", "asleep", "call"} \cup Inside

\* What hart 0's place says about the last function that hart 1 called.
Order ==
    /\ pc0 \in Before => lastRun = test - 1 /\ target < test
    /\ pc0 \in Waiting => lastRun \in {test - 1, test} /\ target <= test
    /\ pc0 = "confirm" => lastRun = test /\ target <= test
    /\ pc0 \notin {"bss", "reset"} => test <= Len(Tests)
    /\ pc0 = "bss" => target = 0
    /\ pc0 = "wait" => Kind(test) = "consumer"
    /\ pc0 = "confirm" => Kind(test) = "producer"

\* A published function is new to hart 1, or it is in it or in the one before.
Target ==
    /\ pc1 = "call" => target # 0
    /\ cur = 0 => target = 0 \/ target > lastRun
    /\ cur # 0 => cur = lastRun
    /\ cur # 0 <=> pc1 \in Inside

\* A worker that has not stored its result yet works for the current test, and
\* the result is not there before it is called.
Result ==
    /\ pc1 \in {"flag?", "work"} => pc0 \in Waiting /\ cur = test
    /\ pc1 = "flag?" => Kind(cur) = "consumer"
    /\ pc1 = "confirmed?" => Kind(cur) = "producer"
    /\ pc0 \in {"ready?", "publish"} => flag = 0 /\ done = 0
    /\ pc0 \in Waiting /\ (lastRun < test \/ pc1 \in {"flag?", "work"}) =>
        /\ Kind(test) # "producer" => done = 0
        /\ Kind(test) = "producer" => flag = 0

PWInv == PWTypes /\ Order /\ Target /\ Result

-----------------------------------------------------------------------------
\* Boot establishes it: nothing is published, called or stored.
LEMMA PWInitInv == PWInit => PWInv
BY DEF PWInit, PWInv, PWTypes, Order, Target, Result, Before, Waiting, Inside, Kind

\* A step of the trap path, or of nobody, leaves the protocol alone.
LEMMA PWFrame == ASSUME PWInv, UNCHANGED pvars PROVE PWInv'
BY DEF pvars, PWInv, PWTypes, Order, Target, Result, Kind

\* Hart 0's steps, one after the other.
LEMMA Core0Inv == ASSUME PWInv, Core0 PROVE PWInv'
<1> USE DEF PWInv, PWTypes, Order, Target, Result, Before, Waiting, Inside, Kind, At0
<1>1. CASE ClearBss
  BY <1>1 DEF ClearBss
<1>2. CASE ResetP4
  BY <1>2 DEF ResetP4
<1>3. CASE AwaitReady
  BY <1>3 DEF AwaitReady
<1>4. CASE Publish
  BY <1>4 DEF Publish
<1>5. CASE SendIpi
  BY <1>5 DEF SendIpi
<1>6. CASE RaiseFlag
  BY <1>6 DEF RaiseFlag
<1>7. CASE AwaitFlag
  BY <1>7 DEF AwaitFlag
<1>8. CASE Confirm
  BY <1>8 DEF Confirm
<1>9. CASE AwaitDone
  BY <1>9 DEF AwaitDone
<1> QED
  BY <1>1, <1>2, <1>3, <1>4, <1>5, <1>6, <1>7, <1>8, <1>9 DEF Core0

\* Hart 1's.
LEMMA Core1Inv == ASSUME PWInv, Core1 PROVE PWInv'
<1> USE DEF PWInv, PWTypes, Order, Target, Result, Before, Waiting, Inside, Kind, At1
<1>1. CASE Setup
  BY <1>1 DEF Setup
<1>2. CASE Announce
  BY <1>2 DEF Announce
<1>3. CASE clear_sip_ssip
  BY <1>3 DEF clear_sip_ssip
<1>4. CASE Check
  BY <1>4 DEF Check
<1>5. CASE ExecWfi
  BY <1>5 DEF ExecWfi
<1>6. CASE WakeUp
  BY <1>6 DEF WakeUp
<1>7. CASE Call
  BY <1>7 DEF Call
<1>8. CASE WorkerAwaitsFlag
  BY <1>8 DEF WorkerAwaitsFlag
<1>9. CASE WorkerSignals
  BY <1>9 DEF WorkerSignals
<1>10. CASE WorkerAwaitsDone
  BY <1>10 DEF WorkerAwaitsDone
<1>11. CASE Forget
  BY <1>11 DEF Forget
<1> QED
  BY <1>1, <1>2, <1>3, <1>4, <1>5, <1>6, <1>7, <1>8, <1>9, <1>10, <1>11 DEF Core1

\* The protocol's state is consistent throughout: who has published, called and
\* stored what is as hart 0's and hart 1's places say.
THEOREM ProtocolInvariant == PWSpec => []PWInv
<1>1. PWInv /\ [PWNext]_<<allvars, platform>> => PWInv'
  <2> SUFFICES ASSUME PWInv, [PWNext]_<<allvars, platform>> PROVE PWInv'
    OBVIOUS
  <2>1. CASE Core0
    BY <2>1, Core0Inv
  <2>2. CASE Core1
    BY <2>2, Core1Inv
  <2>3. CASE Machine
    BY <2>3, PWFrame DEF Machine
  <2>4. CASE UNCHANGED <<allvars, platform>>
    BY <2>4, PWFrame DEF allvars
  <2> QED
    BY <2>1, <2>2, <2>3, <2>4 DEF PWNext
<1> QED
  BY <1>1, PWInitInv, PTL DEF PWSpec
-----------------------------------------------------------------------------
\* What the three properties say of one step.
Fresh == pc1 = "call" /\ pc1' # "call" => cur' # 0 /\ cur' > lastRun
OwnTest == flag' > flag \/ done' > done => pc1' = pc1 \/ cur = test
Genuine == test' > test => lastRun = test

\* The park loop calls no null pointer and no function twice, although it reads
\* g_smode_target a second time and hart 0 may publish in between: at "call"
\* the target is set and newer than the last function run.
THEOREM EveryCallIsFresh == PWSpec => CallsAreFresh
<1>1. PWInv /\ [PWNext]_<<allvars, platform>> => [Fresh]_allvars
  <2> SUFFICES ASSUME PWInv, PWNext, pc1 = "call", pc1' # "call"
               PROVE  cur' # 0 /\ cur' > lastRun
    BY DEF Fresh, allvars
  <2>1. CASE Core0
    BY <2>1 DEF Core0, ClearBss, ResetP4, AwaitReady, Publish, SendIpi, RaiseFlag,
                AwaitFlag, Confirm, AwaitDone
  <2>2. CASE Core1
    <3>1. Call
      BY <2>2 DEF Core1, At1, Setup, Announce, clear_sip_ssip, Check, ExecWfi,
                  WakeUp, WorkerAwaitsFlag, WorkerSignals, WorkerAwaitsDone, Forget
    <3> QED
      BY <3>1 DEF Call, PWInv, PWTypes, Target, Inside
  <2>3. CASE Machine
    BY <2>3 DEF Machine, pvars
  <2> QED
    BY <2>1, <2>2, <2>3 DEF PWNext
<1> QED
  BY <1>1, ProtocolInvariant, PTL DEF PWSpec, CallsAreFresh, Fresh

\* No late store of a worker reaches the g_p4 of the next test: the worker that
\* still has its flag to store is the one of the test hart 0 is in.
THEOREM StoresAreInOwnTest == PWSpec => StoresInOwnTest
<1>1. PWInv /\ [PWNext]_<<allvars, platform>> => [OwnTest]_allvars
  <2> SUFFICES ASSUME PWInv, PWNext, flag' > flag \/ done' > done, pc1' # pc1
               PROVE  cur = test
    BY DEF OwnTest, allvars
  <2>1. CASE Core0
    BY <2>1 DEF Core0, ClearBss, ResetP4, AwaitReady, Publish, SendIpi, RaiseFlag,
                AwaitFlag, Confirm, AwaitDone
  <2>2. CASE Core1
    <3>1. WorkerSignals
      BY <2>2 DEF Core1, Setup, Announce, clear_sip_ssip, Check, ExecWfi, WakeUp,
                  Call, WorkerAwaitsFlag, WorkerAwaitsDone, Forget, PWInv, PWTypes
    <3> QED
      BY <3>1 DEF WorkerSignals, At1, PWInv, Result
  <2>3. CASE Machine
    BY <2>3 DEF Machine, pvars
  <2> QED
    BY <2>1, <2>2, <2>3 DEF PWNext
<1> QED
  BY <1>1, ProtocolInvariant, PTL DEF PWSpec, StoresInOwnTest, OwnTest

\* Hart 0 leaves a test only when hart 1 has run that test's function: no flag
\* of an earlier test, nor a half-cleared g_p4, is taken for its result.
THEOREM EveryResultIsGenuine == PWSpec => ResultsAreGenuine
<1>1. PWInv /\ [PWNext]_<<allvars, platform>> => [Genuine]_allvars
  <2> SUFFICES ASSUME PWInv, PWNext, test' > test PROVE lastRun = test
    BY DEF Genuine, allvars
  <2>1. CASE Core0
    <3>1. Confirm \/ AwaitDone
      BY <2>1 DEF Core0, ClearBss, ResetP4, AwaitReady, Publish, SendIpi,
                  RaiseFlag, AwaitFlag, PWInv, PWTypes
    <3>2. CASE Confirm
      BY <3>2 DEF Confirm, At0, PWInv, Order
    <3>3. CASE AwaitDone
      BY <3>3 DEF AwaitDone, At0, PWInv, PWTypes, Order, Result, Waiting
    <3> QED
      BY <3>1, <3>2, <3>3
  <2>2. CASE Core1
    BY <2>2 DEF Core1, Setup, Announce, clear_sip_ssip, Check, ExecWfi, WakeUp,
                Call, WorkerAwaitsFlag, WorkerSignals, WorkerAwaitsDone, Forget,
                PWInv, PWTypes
  <2>3. CASE Machine
    BY <2>3 DEF Machine, pvars, PWInv, PWTypes
  <2> QED
    BY <2>1, <2>2, <2>3 DEF PWNext
<1> QED
  BY <1>1, ProtocolInvariant, PTL DEF PWSpec, ResultsAreGenuine, Genuine
=============================================================================
