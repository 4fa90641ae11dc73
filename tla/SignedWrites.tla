----------------------------- MODULE SignedWrites -----------------------------
(***************************************************************************)
(* What the write-back promises the approver, without jobs, attempts,      *)
(* transactions or processes that end.                                     *)
(*                                                                         *)
(* A packet signs a diff of the value the field has.  It may write once    *)
(* each time it was found that the field still holds the signed value, and *)
(* its outcome is final: verified only while the field holds what it was   *)
(* to write, in conflict only while it holds something foreign.  A notice  *)
(* follows a verified write and a look that found another value; it is     *)
(* answered by a new version or by a look that found the value restored.   *)
(***************************************************************************)
CONSTANTS Packets, Values, Unsigned

VARIABLES
    value,              \* of the field
    from, to,           \* the diff each packet signed
    outcome,            \* of each packet
    armed,              \* packets that may write, once
    strayed, restored,  \* written packets a look found changed, or as written
    notice              \* of each packet

signedVars == <<value, from, to, outcome, armed, strayed, restored, notice>>

diffs == <<from, to>>
looks == <<strayed, restored>>

SignedInit ==
    /\ value \in Values
    /\ from = [p \in Packets |-> Unsigned] /\ to = [p \in Packets |-> Unsigned]
    /\ outcome = [p \in Packets |-> "none"] /\ notice = [p \in Packets |-> "none"]
    /\ armed = {} /\ strayed = {} /\ restored = {}

\* anyone may write to the field
OthersWrite(v) ==
    /\ value' = v
    /\ UNCHANGED <<diffs, outcome, armed, looks, notice>>

Sign(p, v) ==
    /\ from[p] = Unsigned
    /\ from' = [from EXCEPT ![p] = value]
    /\ to' = [to EXCEPT ![p] = v]
    /\ UNCHANGED <<value, outcome, armed, looks, notice>>

\* a recorded version answers what was noticed before it
Record(p) ==
    /\ from[p] # Unsigned /\ outcome[p] = "none"
    /\ outcome' = [outcome EXCEPT ![p] = "pending"]
    /\ notice' = [q \in Packets |-> IF notice[q] = "open" THEN "resolved" ELSE notice[q]]
    /\ UNCHANGED <<value, diffs, armed, looks>>

Arm(p) ==
    /\ outcome[p] = "pending" /\ value = from[p]
    /\ armed' = armed \cup {p}
    /\ UNCHANGED <<value, diffs, outcome, looks, notice>>

\* the write, after which the attempt may have been the last
Write(p) ==
    /\ p \in armed /\ outcome[p] = "pending"
    /\ armed' = armed \ {p}
    /\ value' = to[p]
    /\ outcome' \in {outcome, [outcome EXCEPT ![p] = "failed"]}
    /\ UNCHANGED <<diffs, looks, notice>>

Settle(p, s) ==
    /\ outcome[p] = "pending"
    /\ \/ s = "verified" /\ value = to[p]
       \/ s = "conflict" /\ value \notin {from[p], to[p]}
       \/ s = "failed"
    /\ outcome' = [outcome EXCEPT ![p] = s]
    /\ armed' = armed \ {p}
    /\ UNCHANGED <<value, diffs, looks, notice>>

Look(p) ==
    /\ outcome[p] = "verified"
    /\ \/ value # to[p] /\ strayed' = strayed \cup {p} /\ UNCHANGED restored
       \/ value = to[p] /\ restored' = restored \cup {p} /\ UNCHANGED strayed
    /\ UNCHANGED <<value, diffs, outcome, armed, notice>>

Notice(p) ==
    /\ p \in strayed /\ notice[p] = "none"
    /\ notice' = [notice EXCEPT ![p] = "open"]
    /\ strayed' \subseteq strayed
    /\ UNCHANGED <<value, diffs, outcome, armed, restored>>

Resolve(p) ==
    /\ p \in restored /\ notice[p] = "open"
    /\ notice' = [notice EXCEPT ![p] = "resolved"]
    /\ restored' \subseteq restored
    /\ UNCHANGED <<value, diffs, outcome, armed, strayed>>

\* what was found may be forgotten
Forget ==
    /\ armed' \subseteq armed
    /\ strayed' \subseteq strayed /\ restored' \subseteq restored
    /\ UNCHANGED <<value, diffs, outcome, notice>>

SignedNext ==
    \/ \E v \in Values : OthersWrite(v)
    \/ \E p \in Packets :
          \/ \E v \in Values : Sign(p, v)
          \/ Record(p) \/ Arm(p) \/ Write(p)
          \/ \E s \in {"verified", "conflict", "failed"} : Settle(p, s)
          \/ Look(p) \/ Notice(p) \/ Resolve(p)
    \/ Forget

SignedSpec == SignedInit /\ [][SignedNext]_signedVars
=============================================================================
