---------------------------- MODULE MCZephyrIrq ----------------------------
(* ZephyrIrq for TLC: constants only, see ZephyrIrq.cfg.                    *)
EXTENDS ZephyrIrq
=============================================================================
