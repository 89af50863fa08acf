--------------------------- MODULE VerdictProofs ---------------------------
(***************************************************************************)
(* TLAPS proofs about Verdict: the exit status can be believed, for every  *)
(* set of fail codes in which 512 is the only one with a zero low byte,    *)
(* every set of panic causes and every length of message.                  *)
(***************************************************************************)
EXTENDS Verdict, TLAPS

\* What the suite's codes satisfy: of those from 11 to 790 that it uses, and of
\* 500 plus a cause, only 512 looks like a pass to the host.
Codes512 == \A c \in Codes \cup PanicCodes : c % 256 = 0 => c = 512

Reported == {Open, Pass} \cup Codes \cup PanicCodes
Places == {"run", "putc", "drain", "exit", "wfi"}

VTypes ==
    /\ sink \in {"htif", "sifive"}
    /\ harts \in {{0}, {0, 1}}
    /\ tohost \in [dev : {0, 1}, data : Nat]
    /\ pc \in [harts -> Places]
    /\ verdict \in [harts -> Reported]
    /\ stored \in Nat /\ shown \in Nat

\* A hart is in the exit path only with a verdict, and an odd word of device 0
\* is the verdict of a hart that will not run again.
Mailbox ==
    /\ \A h \in harts : pc[h] \in {"exit", "wfi"} => verdict[h] # Open
    /\ tohost.dev = 0 /\ tohost.data % 2 = 1 =>
         \E h \in harts : pc[h] = "wfi" /\ tohost = HtifWord(verdict[h])
    /\ sink = "sifive" =>
         tohost = Empty /\ \A h \in harts : pc[h] \in {"run", "wfi"}

\* With one hart, whoever has found the mailbox empty finds it so until it
\* stores, and what is stored is shown or in the mailbox.
Console ==
    harts = {0} =>
        /\ stored = shown + tohost.dev
        /\ pc[0] \in {"putc", "exit"} => tohost = Empty

\* The status is the low byte of a verdict that was reported.
Status ==
    exit # Open =>
        /\ tohost = Empty
        /\ \E h \in harts : verdict[h] # Open /\ exit = verdict[h] % 256

VInv == VTypes /\ Mailbox /\ Console /\ Status

-----------------------------------------------------------------------------
\* A verdict is a natural number once there is one.
LEMMA ReportedNat == \A v \in Reported : v # Open => v \in Nat
BY CodesAssumption DEF Reported, Open, Pass, PanicCodes

\* The word on the way to the host and back: what Spike and QEMU keep of a
\* verdict is its low byte.
LEMMA LowByte ==
    ASSUME NEW v \in Nat
    PROVE  /\ (HtifWord(v).data \div 2) % 256 = v % 256
           /\ HtifWord(v).data % 2 = 1
           /\ HtifWord(v).data \in Nat
           /\ (FinisherWord(v) \div 65536) % 256 = v % 256
<1>1. HtifWord(v).data = 2 * v + 1
  BY DEF HtifWord, Word
<1>2. (2 * v + 1) \div 2 = v /\ (2 * v + 1) % 2 = 1
  OBVIOUS
<1>3. (13107 + v * 65536) \div 65536 = v
  OBVIOUS
<1>4. 21845 \div 65536 = 0
  OBVIOUS
<1>5. FinisherWord(v) \div 65536 = v
  BY <1>3, <1>4 DEF FinisherWord, Pass
<1> QED
  BY <1>1, <1>2, <1>5

\* The invariant, at the start.
LEMMA VerdictInit == ASSUME Init PROVE VInv
BY DEF Init, VInv, VTypes, Mailbox, Console, Status, Empty, Word, Open, Reported, Places

\* One step of a hart or of the host.
LEMMA VerdictStep == ASSUME VInv, [Next]_vars PROVE VInv'
<1> USE DEF VInv, VTypes, Mailbox, Console, Status, Empty, Word, Goes, Places
<1>1. ASSUME NEW h \in harts, Putc(h) PROVE VInv'
  <2>1. CASE PutcPoll(h)
    BY <2>1 DEF PutcPoll
  <2>2. CASE PutcStore(h)
    BY <2>2 DEF PutcStore
  <2>3. CASE PutcDrain(h)
    BY <2>3 DEF PutcDrain
  <2>4. CASE PutcUart(h)
    BY <2>4 DEF PutcUart
  <2> QED
    BY <1>1, <2>1, <2>2, <2>3, <2>4 DEF Putc
<1>2. ASSUME NEW h \in harts, Report(h) PROVE VInv'
  <2>1. CASE HtifPoll(h)
    BY <2>1 DEF HtifPoll
  <2>2. CASE HtifStore(h)
    <3>1. verdict[h] \in Nat
      BY <2>2, ReportedNat DEF HtifStore
    <3>2. tohost' = HtifWord(verdict[h]) /\ tohost' \in [dev : {0, 1}, data : Nat]
      BY <2>2, <3>1 DEF HtifStore, HtifWord
    <3>3. tohost'.dev = 0
      BY <3>2 DEF HtifWord
    <3>4. pc'[h] = "wfi" /\ verdict' = verdict /\ harts' = harts
      BY <2>2 DEF HtifStore
    <3>5. VTypes'
      BY <2>2, <3>2 DEF HtifStore
    <3>6. Mailbox'
      BY <2>2, <3>2, <3>4 DEF HtifStore
    <3>7. Console'
      BY <2>2, <3>3 DEF HtifStore
    <3>8. Status'
      BY <2>2 DEF HtifStore
    <3> QED
      BY <3>5, <3>6, <3>7, <3>8
  <2>3. CASE qemu_test_exit(h)
    <3>1. verdict[h] \in Nat /\ verdict[h] # Open
      BY <2>3, ReportedNat DEF qemu_test_exit
    <3>2. exit' = verdict[h] % 256
      BY <2>3, <3>1, LowByte DEF qemu_test_exit
    <3> QED
      BY <2>3, <3>1, <3>2 DEF qemu_test_exit
  <2> QED
    BY <1>2, <2>1, <2>2, <2>3 DEF Report
<1>3. ASSUME NEW h \in harts, NEW v \in Reported \ {Open}, NEW chars, pc[h] # "wfi",
             Goes(h, pc[h], "run"), Reports(h, v, chars)
      PROVE  VInv'
  <2>1. VTypes'
    BY <1>3 DEF Reports
  <2>2. Mailbox'
    BY <1>3 DEF Reports
  <2>3. Console' /\ Status'
    BY <1>3 DEF Reports
  <2> QED
    BY <2>1, <2>2, <2>3
<1>4. ASSUME NEW h \in harts, Fails(h) PROVE VInv'
  <2>1. CASE \E code \in Codes : test_fail(h, code)
    <3>1. PICK code \in Codes, chars \in 1 .. MaxText :
             Goes(h, "run", "run") /\ Reports(h, code, chars)
      BY <2>1 DEF test_fail
    <3>2. code \in Reported \ {Open}
      BY CodesAssumption DEF Reported, Open
    <3> QED
      BY <1>3, <3>1, <3>2
  <2>2. CASE \E cause \in Causes : panic(h, cause)
    <3>1. PICK cause \in Causes : pc[h] # "wfi" /\ Goes(h, pc[h], "run") /\ Reports(h, 500 + cause, 0)
      BY <2>2 DEF panic
    <3>2. 500 + cause \in Reported \ {Open}
      BY CodesAssumption DEF Reported, Open, PanicCodes
    <3>3. \A v \in Reported \ {Open} : Reports(h, v, 0) => VInv'
      BY <1>3, <3>1
    <3> QED
      BY <3>1, <3>2, <3>3
  <2> QED
    BY <1>4, <2>1, <2>2 DEF Fails
<1>5. CASE test_pass
  <2>1. 0 \in harts /\ Pass \in Reported \ {Open}
    BY DEF Reported, Open, Pass
  <2>2. Goes(0, "run", "run") /\ Reports(0, Pass, 1)
    BY <1>5 DEF test_pass
  <2> QED
    BY <1>3, <2>1, <2>2
<1>6. CASE Host
  <2>1. CASE tohost.dev = 0 /\ tohost.data % 2 = 1
    <3>1. PICK h \in harts : pc[h] = "wfi" /\ tohost = HtifWord(verdict[h])
      BY <2>1
    <3>2. verdict[h] # Open /\ verdict[h] \in Nat
      BY <3>1, ReportedNat
    <3>3. exit' = verdict[h] % 256
      BY <1>6, <2>1, <3>1, <3>2, LowByte DEF Host
    <3> QED
      BY <1>6, <2>1, <3>2, <3>3 DEF Host
  <2>2. CASE ~(tohost.dev = 0 /\ tohost.data % 2 = 1)
    BY <1>6, <2>2 DEF Host
  <2> QED
    BY <2>1, <2>2
<1>7. CASE UNCHANGED vars
  BY <1>7 DEF vars
<1> QED
  BY <1>1, <1>2, <1>4, <1>5, <1>6, <1>7 DEF Next

\* For every set of codes that meets Codes512, however the texts of two harts,
\* their verdicts and the panics interleave on the one mailbox: the host's exit
\* status is 0 only for a pass or the code 512, a nonzero status is the low byte
\* of a code some hart reports, and with one hart nothing printed is lost.
THEOREM StatusAlwaysSound ==
    ASSUME Codes512
    PROVE  Spec => []StatusSound
<1>1. Init => VInv
  BY VerdictInit
<1>2. VInv /\ [Next]_vars => VInv'
  BY VerdictStep
<1>3. VInv => StatusSound
  <2> SUFFICES ASSUME VInv, exit # Open
               PROVE  /\ exit = 0 => \E h \in harts : verdict[h] \in {Pass, 512}
                      /\ exit # 0 => \E h \in harts : verdict[h] > 0 /\ verdict[h] % 256 = exit
                      /\ harts = {0} => shown = stored
    BY DEF StatusSound
  <2>1. PICK h \in harts : verdict[h] # Open /\ exit = verdict[h] % 256
    BY DEF VInv, Status
  <2>2. verdict[h] \in Reported /\ verdict[h] \in Nat
    BY <2>1, ReportedNat DEF VInv, VTypes
  <2>3. exit = 0 => verdict[h] \in {Pass, 512}
    BY <2>1, <2>2 DEF Codes512, Reported
  <2>4. exit # 0 => verdict[h] > 0
    BY <2>1, <2>2
  <2>5. harts = {0} => shown = stored
    BY DEF VInv, VTypes, Status, Console, Empty, Word
  <2> QED
    BY <2>1, <2>3, <2>4, <2>5
<1> QED
  BY <1>1, <1>2, <1>3, PTL DEF Spec
=============================================================================
