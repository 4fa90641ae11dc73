-------------------------- MODULE ApprovedRecords ---------------------------
(***************************************************************************)
(* What the records layer promises the organization: a record version is   *)
(* written only for a packet a human approved, and at most once.           *)
(***************************************************************************)
EXTENDS Naturals

CONSTANT PacketIds

VARIABLES
    consent,    \* packets a human approved
    ledger      \* record versions written for each packet

recordVars == <<consent, ledger>>

RecordsInit ==
    /\ consent = {}
    /\ ledger = [p \in PacketIds |-> 0]

Approve(p) ==
    /\ consent' = consent \cup {p}
    /\ UNCHANGED ledger

Write(p) ==
    /\ p \in consent /\ ledger[p] = 0
    /\ ledger' = [ledger EXCEPT ![p] = 1]
    /\ UNCHANGED consent

RecordsNext == \E p \in PacketIds : Approve(p) \/ Write(p)

RecordsSpec == RecordsInit /\ [][RecordsNext]_recordVars
=============================================================================
