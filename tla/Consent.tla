------------------------------- MODULE Consent -------------------------------
(***************************************************************************)
(* What the approval gate promises the human, without slots, events or     *)
(* request threads: one question at a time, each answered once; an         *)
(* approval buys one irreversible click of the run that asked; a question  *)
(* withdrawn by a new chat can only be refused.                            *)
(***************************************************************************)
EXTENDS Naturals

CONSTANTS Questions, Nothing

VARIABLES
    open,           \* the question the human is asked, or Nothing
    settled,        \* questions approved or refused
    withdrawn,      \* questions a new chat took back
    allowance       \* clicks the run may still make

consentVars == <<open, settled, withdrawn, allowance>>

ConsentInit ==
    /\ open = Nothing
    /\ settled = {} /\ withdrawn = {}
    /\ allowance = 0

Pose(q) ==
    /\ open = Nothing
    /\ q \notin settled \cup withdrawn
    /\ open' = q
    /\ UNCHANGED <<settled, withdrawn, allowance>>

Settle ==
    /\ open # Nothing /\ open \notin settled
    /\ settled' = settled \cup {open}
    /\ open' = Nothing
    /\ UNCHANGED withdrawn

Allow ==
    /\ Settle
    /\ open \notin withdrawn
    /\ allowance' = allowance + 1

Deny ==
    /\ Settle
    /\ UNCHANGED allowance

Withdraw ==
    /\ open # Nothing
    /\ withdrawn' = withdrawn \cup {open}
    /\ UNCHANGED <<open, settled, allowance>>

\* a click, which may be the last of its run
Click ==
    /\ allowance > 0
    /\ allowance' \in {0, allowance - 1}
    /\ UNCHANGED <<open, settled, withdrawn>>

EndRun ==
    /\ allowance' = 0
    /\ UNCHANGED <<open, settled, withdrawn>>

ConsentNext ==
    \/ \E q \in Questions : Pose(q)
    \/ Allow \/ Deny \/ Withdraw \/ Click \/ EndRun

ConsentSpec == ConsentInit /\ [][ConsentNext]_consentVars
=============================================================================
