---------------------------- MODULE BlinkProofs ----------------------------
(***************************************************************************)
(* TLAPS proofs about Blink: the LED and its timer follow the period that  *)
(* main asks for, for every period that is a multiple of the step.         *)
(***************************************************************************)
EXTENDS Blink, TLAPS

USE PeriodAssumption

\* The periods main counts down through.
Periods == {Step * k : k \in 0 .. Max \div Step}

Places == {"sensor_init", "blink_init", "main", "start", "stop", "led0",
           "sleep", "get", "return"}

BTypes ==
    /\ led \in {0, 1}
    /\ pc \in Places
    /\ timer \in [armed : BOOLEAN, period : 0 .. Max]
    /\ period_ms \in Periods /\ asked \in Periods /\ ret \in {0, Errno}

\* The timer runs as asked, or is about to be told.
TimerInv ==
    /\ timer.armed => timer.period > 0
    /\ pc \in {"sleep", "get"} =>
         timer = IF asked = 0 THEN Off ELSE [armed |-> TRUE, period |-> asked]
    /\ pc = "start" => asked > 0
    /\ pc \in {"stop", "led0"} => asked = 0
    /\ pc = "led0" => timer = Off

\* With one CPU no expiry is under way between steps, and with the timer off
\* nothing lights an LED that was switched off.
LedInv ==
    /\ ~smp => ~expiring
    /\ pc \in {"sleep", "get"} /\ asked = 0 /\ ret = 0 /\ ~smp => led = 0

BInv == BTypes /\ TimerInv /\ LedInv

-----------------------------------------------------------------------------
\* Unsigned arithmetic is exact below the wrap.
LEMMA UnsignedExact == \A n \in 0 .. Max : Unsigned(n) = n
BY DEF Unsigned

\* Max is the last of the periods when the step divides it.
LEMMA MaxPeriod == ASSUME Max % Step = 0 PROVE Max \in Periods
<1>1. Max = Step * (Max \div Step) + (Max % Step)
  OBVIOUS
<1>2. Max \div Step \in Nat
  OBVIOUS
<1> QED
  BY <1>1, <1>2 DEF Periods

\* A period is at most Max.
LEMMA PeriodRange == \A p \in Periods : p \in 0 .. Max
<1> SUFFICES ASSUME NEW k \in 0 .. Max \div Step PROVE Step * k \in 0 .. Max
  BY DEF Periods
<1>1. Max \div Step \in Nat /\ Step * (Max \div Step) <= Max
  OBVIOUS
<1>2. Step * k <= Step * (Max \div Step)
  BY <1>1
<1>3. Step * k >= 0
  BY <1>1
<1> QED
  BY <1>1, <1>2, <1>3

\* One step below a period is a period: channel_get's subtraction never wraps.
LEMMA PeriodStep == \A p \in Periods : p # 0 => p - Step \in Periods
<1> SUFFICES ASSUME NEW k \in 0 .. Max \div Step, Step * k # 0
             PROVE  Step * k - Step \in Periods
  BY DEF Periods
<1>1. k # 0
  OBVIOUS
<1>2. Step * k - Step = Step * (k - 1)
  OBVIOUS
<1> QED
  BY <1>1, <1>2 DEF Periods
-----------------------------------------------------------------------------
\* Before main runs, the drivers may have started the timer; BInv says nothing
\* of it yet.
LEMMA BlinkInit == ASSUME Max % Step = 0, Init PROVE BInv
<1>1. 0 \in Periods /\ Max \in Periods
  BY MaxPeriod, PeriodRange DEF Periods
<1> QED
  BY <1>1 DEF Init, BInv, BTypes, TimerInv, LedInv, Places, Off, Errno

\* One step of main, of a driver or of the timer interrupt.
LEMMA BlinkStep == ASSUME Max % Step = 0, BInv, [Next]_vars PROVE BInv'
<1> USE PeriodRange DEF BInv, BTypes, TimerInv, LedInv, Places, Off, Errno
<1>0. 0 \in Periods /\ Max \in Periods
  BY MaxPeriod DEF Periods
<1>1. CASE example_sensor_init
  BY <1>1 DEF example_sensor_init
<1>2. CASE blink_gpio_led_init
  <2>1. \/ timer' = timer
        \/ \E p \in BootPeriods : p > 0 /\ timer' = [armed |-> TRUE, period |-> p]
    BY <1>2 DEF blink_gpio_led_init, k_timer_start
  <2>2. timer' \in [armed : BOOLEAN, period : 0 .. Max] /\ (timer'.armed => timer'.period > 0)
    <3>1. ASSUME NEW p \in BootPeriods, p > 0, timer' = [armed |-> TRUE, period |-> p]
          PROVE  /\ timer' \in [armed : BOOLEAN, period : 0 .. Max]
                 /\ timer'.armed => timer'.period > 0
      <4>1. p \in 0 .. Max
        OBVIOUS
      <4> QED
        BY <3>1, <4>1
    <3> QED
      BY <2>1, <3>1
  <2> QED
    BY <1>2, <2>2 DEF blink_gpio_led_init
<1>3. CASE blink_off
  BY <1>0, <1>3 DEF blink_off, Call
<1>4. CASE sample_fetch
  BY <1>4 DEF sample_fetch
<1>5. CASE channel_get
  <2>1. NextPeriod \in Periods
    BY <1>0, PeriodStep, UnsignedExact DEF NextPeriod
  <2> QED
    BY <1>5, <2>1 DEF channel_get, Call
<1>6. CASE SetPeriodStart
  BY <1>6 DEF SetPeriodStart, k_timer_start
<1>7. CASE SetPeriodStop
  BY <1>7 DEF SetPeriodStop
<1>8. CASE SetPeriodLed
  BY <1>8 DEF SetPeriodLed
<1>9. CASE Expire
  <2>1. timer.armed = TRUE /\ (timer.period > 0) = TRUE
    BY <1>9 DEF Expire
  <2>2. timer' = timer
    BY <1>9, <2>1 DEF Expire
  <2>3. CASE smp
    BY <1>9, <2>2, <2>3 DEF Expire
  <2>4. CASE ~smp
    <3>1. ~(pc \in {"sleep", "get"} /\ asked = 0)
      BY <2>1
    <3>2. LedInv'
      BY <1>9, <2>4, <3>1 DEF Expire
    <3>3. led' \in {0, 1}
      BY <1>9, <2>4 DEF Expire, Toggle
    <3> QED
      BY <1>9, <2>2, <3>2, <3>3 DEF Expire
  <2> QED
    BY <2>3, <2>4
<1>10. CASE on_timer_expire
  BY <1>10 DEF on_timer_expire, Toggle
<1>11. CASE Approach
  BY <1>11 DEF Approach
<1>12. CASE UNCHANGED vars
  BY <1>12 DEF vars
<1> QED
  BY <1>1, <1>2, <1>3, <1>4, <1>5, <1>6, <1>7, <1>8, <1>9, <1>10, <1>11, <1>12
     DEF Next, Main

\* Whatever the step, as long as it divides the maximum (100 and 1000 in main.c):
\* between two calls of set_period_ms the period has not wrapped, the timer runs
\* with the period asked for or not at all, and on one CPU an LED switched off
\* is off, wherever the timer interrupt fell.
THEOREM LedAlwaysFollows ==
    ASSUME Max % Step = 0
    PROVE  Spec => []LedFollows
<1>1. Init => BInv
  BY BlinkInit
<1>2. BInv /\ [Next]_vars => BInv'
  BY BlinkStep
<1>3. BInv => LedFollows
  BY DEF BInv, BTypes, TimerInv, LedInv, LedFollows, Periods
<1> QED
  BY <1>1, <1>2, <1>3, PTL DEF Spec
=============================================================================
