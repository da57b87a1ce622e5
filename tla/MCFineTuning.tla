---------------------------- MODULE MCFineTuning ----------------------------
(* Small instances of FineTuning for TLC.                                  *)
EXTENDS FineTuning
=============================================================================
