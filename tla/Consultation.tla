----------------------------- MODULE Consultation -----------------------------
(***************************************************************************)
(* What two paired Sparrows promise each other, without mailboxes, retries *)
(* or processes that end: only what was asked is judged, only what was     *)
(* judged is told, and neither is taken back.                              *)
(***************************************************************************)
CONSTANTS Questions, Verdicts

VARIABLES
    put,        \* the questions that were asked
    given,      \* the verdicts the other side gave on each
    told        \* the verdicts the asker took for the result of each

consultationVars == <<put, given, told>>

ConsultationInit ==
    /\ put = {}
    /\ given = [q \in Questions |-> {}]
    /\ told = [q \in Questions |-> {}]

Put(q) ==
    /\ put' = put \cup {q}
    /\ UNCHANGED <<given, told>>

Judge(q, v) ==
    /\ q \in put
    /\ given' = [given EXCEPT ![q] = @ \cup {v}]
    /\ UNCHANGED <<put, told>>

Tell(q, v) ==
    /\ v \in given[q]
    /\ told' = [told EXCEPT ![q] = @ \cup {v}]
    /\ UNCHANGED <<put, given>>

ConsultationNext ==
    \E q \in Questions :
        \/ Put(q)
        \/ \E v \in Verdicts : Judge(q, v) \/ Tell(q, v)

ConsultationSpec == ConsultationInit /\ [][ConsultationNext]_consultationVars
=============================================================================
