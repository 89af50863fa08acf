------------------------------- MODULE Blink -------------------------------
(***************************************************************************)
(* The example application (app/src/main.c) over its two drivers: the      *)
(* proximity sensor (drivers/sensor/example_sensor) that it polls, and the *)
(* blinking LED (drivers/blink/gpio_led.c), whose kernel timer toggles the *)
(* pin from the timer interrupt.                                           *)
(*                                                                         *)
(* Time is abstract: a running timer may expire at any moment and a sleep  *)
(* may last any time.  A GPIO call may fail; then the pin keeps its level. *)
(***************************************************************************)
EXTENDS Integers

CONSTANTS
    Step, Max,     \* BLINK_PERIOD_MS_STEP, BLINK_PERIOD_MS_MAX
    Wrap,          \* period_ms is unsigned: its arithmetic is modulo Wrap
    BootPeriods    \* what the devicetree may give as blink-period-ms

ASSUME PeriodAssumption ==
    /\ Step \in Nat \ {0} /\ Max \in Nat \ {0}
    /\ Wrap \in Nat /\ Max < Wrap
    /\ BootPeriods \subseteq 0 .. Max

\* What gpio_pin_get_dt returns when it fails: any negative errno.
Errno == -1
Off == [armed |-> FALSE, period |-> 0]

VARIABLES
    smp,         \* can the timer interrupt run while the thread runs?
    pin,         \* the level of the sensor's input
    state,       \* data->state of the sensor
    led,         \* the level of the LED pin
    timer,       \* data->timer: is it running, and its period (0: one shot)
    expiring,    \* an expiry handler is running on another CPU
    ready,       \* the devices whose initialisation succeeded
    pc,          \* where main is
    last_val,    \* last_val.val1
    period_ms,   \* main's period
    asked,       \* the period of the last call of set_period_ms
    ret          \* what that call returned

vars == <<smp, pin, state, led, timer, expiring, ready, pc, last_val,
          period_ms, asked, ret>>

-----------------------------------------------------------------------------
Init ==
    /\ smp \in BOOLEAN
    /\ pin \in {0, 1} /\ state = 0 /\ led = 0
    /\ timer = Off /\ expiring = FALSE
    /\ ready = {} /\ pc = "sensor_init" /\ last_val = 0 /\ period_ms = Max
    /\ asked = 0 /\ ret = 0

k_timer_start(period) == timer' = [armed |-> TRUE, period |-> period]

\* The drivers are initialised before main.  Either may fail at its GPIO, the
\* blink driver then before it starts its timer.
example_sensor_init ==
    /\ pc = "sensor_init" /\ pc' = "blink_init"
    /\ ready' \in {{}, {"sensor"}}
    /\ UNCHANGED <<smp, pin, state, led, timer, expiring, last_val,
                   period_ms, asked, ret>>

blink_gpio_led_init ==
    /\ pc = "blink_init" /\ pc' = "main"
    /\ \/ UNCHANGED <<ready, timer>>
       \/ /\ ready' = ready \cup {"blink"}
          /\ \E p \in BootPeriods :
                IF p > 0 THEN k_timer_start(p) ELSE UNCHANGED timer
    /\ UNCHANGED <<smp, pin, state, led, expiring, last_val, period_ms,
                   asked, ret>>

-----------------------------------------------------------------------------
(***************************************************************************)
(* blink_gpio_led_set_period_ms, called by main: one step, or for period 0 *)
(* two, because an interrupt may fall between them.                        *)
(***************************************************************************)
Call(p) == asked' = p /\ pc' = (IF p = 0 THEN "stop" ELSE "start")

\* Bug variant: the repeat interval is missing.
SetPeriodStart_OneShot ==
    /\ pc = "start"
    /\ k_timer_start(0)
    /\ ret' = 0 /\ pc' = "sleep"
    /\ UNCHANGED <<ready, smp, pin, state, led, expiring, last_val,
                   period_ms, asked>>

SetPeriodStart ==
    /\ pc = "start"
    /\ k_timer_start(asked)
    /\ ret' = 0 /\ pc' = "sleep"
    /\ UNCHANGED <<ready, smp, pin, state, led, expiring, last_val,
                   period_ms, asked>>

\* Bug variant: the timer is not stopped.
SetPeriodStop_KeepsTimer ==
    /\ pc = "stop" /\ pc' = "led0"
    /\ UNCHANGED <<ready, smp, pin, state, led, timer, expiring, last_val,
                   period_ms, asked, ret>>

SetPeriodStop ==
    /\ pc = "stop"
    /\ timer' = Off /\ pc' = "led0"
    /\ UNCHANGED <<ready, smp, pin, state, led, expiring, last_val,
                   period_ms, asked, ret>>

\* gpio_pin_set_dt(led, 0).  main looks at the result in blink_off only, when
\* its own period is still Max.
SetPeriodLed ==
    /\ pc = "led0"
    /\ \/ led' = 0 /\ ret' = 0 /\ pc' = "sleep"
       \/ /\ ret' = Errno /\ UNCHANGED led
          /\ pc' = IF period_ms = Max THEN "return" ELSE "sleep"
    /\ UNCHANGED <<ready, smp, pin, state, timer, expiring, last_val,
                   period_ms, asked>>

-----------------------------------------------------------------------------
(***************************************************************************)
(* main.                                                                   *)
(***************************************************************************)
\* The two devices must be ready.
blink_off ==
    /\ pc = "main"
    /\ IF ready = {"sensor", "blink"} THEN Call(0)
                                      ELSE pc' = "return" /\ UNCHANGED asked
    /\ UNCHANGED <<ready, smp, pin, state, led, timer, expiring, last_val,
                   period_ms, ret>>

\* k_sleep, then example_sensor_sample_fetch, which stores an error as if it
\* were a sample and returns 0.
sample_fetch ==
    /\ pc = "sleep" /\ pc' = "get"
    /\ state' \in {pin, Errno}
    /\ UNCHANGED <<ready, smp, pin, led, timer, expiring, last_val,
                   period_ms, asked, ret>>

Unsigned(n) == n % Wrap

NextPeriod == IF period_ms = 0 THEN Max ELSE Unsigned(period_ms - Step)

\* The sample, for SENSOR_CHAN_PROX, the one channel main asks for.
example_sensor_channel_get == state

\* sensor_channel_get, the edge test, and the call it leads to
channel_get ==
    /\ pc = "get"
    /\ IF last_val = 0 /\ example_sensor_channel_get = 1
         THEN period_ms' = NextPeriod /\ Call(NextPeriod)
         ELSE pc' = "sleep" /\ UNCHANGED <<period_ms, asked>>
    /\ last_val' = example_sensor_channel_get
    /\ UNCHANGED <<ready, smp, pin, state, led, timer, expiring, ret>>

Main ==
    \/ example_sensor_init \/ blink_gpio_led_init \/ blink_off
    \/ sample_fetch \/ channel_get
    \/ SetPeriodStart \/ SetPeriodStop \/ SetPeriodLed

-----------------------------------------------------------------------------
(***************************************************************************)
(* The timer interrupt.  The kernel reloads a periodic timer and calls     *)
(* blink_gpio_led_on_timer_expire; on one CPU the thread does not run      *)
(* before that has returned.                                               *)
(***************************************************************************)
\* gpio_pin_toggle_dt; a failure is only logged.
Toggle == led' \in {led, 1 - led}

Expire ==
    /\ timer.armed /\ ~expiring
    /\ timer' = [timer EXCEPT !.armed = timer.period > 0]
    /\ IF smp THEN expiring' = TRUE /\ UNCHANGED led
              ELSE Toggle /\ UNCHANGED expiring
    /\ UNCHANGED <<ready, smp, pin, state, pc, last_val, period_ms, asked, ret>>

on_timer_expire ==
    /\ expiring /\ expiring' = FALSE
    /\ Toggle
    /\ UNCHANGED <<ready, smp, pin, state, timer, pc, last_val, period_ms,
                   asked, ret>>

\* Somebody approaches the sensor, or leaves.
Approach ==
    /\ pin' = 1 - pin
    /\ UNCHANGED <<ready, smp, state, led, timer, expiring, pc, last_val,
                   period_ms, asked, ret>>

Next == Main \/ Expire \/ on_timer_expire \/ Approach

\* The thread and the interrupts run, and toggling the pin does not fail for
\* ever; nobody has to come near the sensor.
Spec ==
    /\ Init /\ [][Next]_vars
    /\ WF_vars(Main) /\ WF_vars(Expire) /\ WF_vars(on_timer_expire)
    /\ SF_vars((Expire \/ on_timer_expire) /\ led' # led)

-----------------------------------------------------------------------------
\* Between two calls of the driver the hardware is as main last asked: the
\* period is one of the steps from Max to 0 (it never wraps below 0), the
\* timer runs with just that period or not at all, and an LED that was
\* switched off successfully stays off although its timer may have expired
\* at any point of the call.  The last part is for one CPU: with SMP an expiry
\* handler that already runs when k_timer_stop returns toggles the LED later.
LedFollows ==
    pc \in {"sleep", "get"} =>
        /\ asked \in {Step * k : k \in 0 .. Max \div Step}
        /\ timer = IF asked = 0 THEN Off ELSE [armed |-> TRUE, period |-> asked]
        /\ asked = 0 /\ ret = 0 /\ ~smp => led = 0

\* A blinking LED goes on blinking: with the timer running the LED changes
\* again and again, whatever main does, until it is asked to stop.
KeepsBlinking ==
    \A level \in {0, 1} :
        asked > 0 /\ pc \in {"sleep", "get"} /\ led = level
            ~> led # level \/ asked = 0
=============================================================================
