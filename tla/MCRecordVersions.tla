-------------------------- MODULE MCRecordVersions --------------------------
(***************************************************************************)
(* A small instance of RecordVersions for TLC: three packets are needed    *)
(* for a row derived from a derived row, two threads for a commit that     *)
(* overtakes another.                                                      *)
(***************************************************************************)
EXTENDS RecordVersions
=============================================================================
