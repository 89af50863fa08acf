----------------------------- MODULE MCVerdict -----------------------------
(* Verdict for TLC: fail codes on both sides of the eight-bit boundaries    *)
(* the suite's codes (11 to 790) cross, and an illegal instruction and an   *)
(* unhandled interrupt as causes of a panic.                                *)
EXTENDS Verdict

MCCodes == {255, 257, 512, 790}
MCCauses == {2, 11}
=============================================================================
