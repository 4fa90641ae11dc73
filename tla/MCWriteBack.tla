---------------------------- MODULE MCWriteBack -----------------------------
(***************************************************************************)
(* Small instances of WriteBack for TLC: two packets and two values are    *)
(* enough for a value to come back, two workers for one job to run inside  *)
(* another's window and for two sweeps to overlap.                         *)
(***************************************************************************)
EXTENDS WriteBack
=============================================================================
