---------------------------- MODULE MCFrameManager ----------------------------
(* Model-checking instance of FrameManager: modules are model values.      *)
EXTENDS FrameManager, TLC
=============================================================================
