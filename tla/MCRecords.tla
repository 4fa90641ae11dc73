----------------------------- MODULE MCRecords ------------------------------
(***************************************************************************)
(* Small instances of RecordsPromotion for TLC: one configuration for each *)
(* question, with one session, one or two packets and at most one crash.   *)
(***************************************************************************)
EXTENDS RecordsPromotion
=============================================================================
