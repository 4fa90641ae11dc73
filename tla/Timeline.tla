------------------------------ MODULE Timeline ------------------------------
(***************************************************************************)
(* What a record of the org service promises about valid time: for every   *)
(* day it holds one belief, the number of the version that says what was   *)
(* true on that day (0: nothing).  A version recorded with a valid_from    *)
(* speaks for that day and all later ones and leaves the days before it as *)
(* they were; a retraction empties all days.  Rows, stamps, transactions   *)
(* and their order are not in this module: RecordVersions implements it.   *)
(***************************************************************************)
EXTENDS Naturals

CONSTANT LastDay

VARIABLES belief, last

Days == 0..LastDay

Init == belief = [d \in Days |-> 0] /\ last = 0

Assert(from) ==
    /\ last' = last + 1
    /\ belief' = [d \in Days |-> IF d < from THEN belief[d] ELSE last + 1]

Retract == belief' = [d \in Days |-> 0] /\ UNCHANGED last

Next == (\E f \in Days : Assert(f)) \/ Retract

Spec == Init /\ [][Next]_<<belief, last>>
=============================================================================
