------------------------------ MODULE MCBlink ------------------------------
(* Blink for TLC, with the application's own period steps. *)
EXTENDS Blink

MCBootPeriods == {0, Max}
=============================================================================
