----------------------------- MODULE MCParkWake -----------------------------
(* ParkWake for TLC: the P4 tests by the way they synchronise, and the      *)
(* shortest sequence on which a function can be lost.                       *)
EXTENDS ParkWake

MCResetCmp == {Never}
P4Tests == <<"writer", "consumer", "producer", "writer">>
TwoWriters == <<"writer", "writer">>
=============================================================================
