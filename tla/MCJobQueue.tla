----------------------------- MODULE MCJobQueue -----------------------------
(***************************************************************************)
(* A small instance of JobQueue for TLC.  A burst needs two producers.     *)
(***************************************************************************)
EXTENDS JobQueue
=============================================================================
