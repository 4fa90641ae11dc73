--------------------------- MODULE MCApprovalGate ---------------------------
(***************************************************************************)
(* Small instances of ApprovalGate for TLC: two packets, so that an answer *)
(* to one can meet the other, and two requests for it to be late.          *)
(***************************************************************************)
EXTENDS ApprovalGate
=============================================================================
