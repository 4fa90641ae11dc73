---------------------------- MODULE JobContract -----------------------------
(***************************************************************************)
(* What the job runner promises its producers, without threads, backoff or *)
(* crashes: an accepted job is owed until it is settled; its handler runs  *)
(* only while it is owed; it is settled as done only after a run.          *)
(***************************************************************************)
EXTENDS Naturals

CONSTANT Jobs

VARIABLES
    state,      \* of each job: not yet accepted, owed, done, given up
    effects     \* completed handler runs of each job

contractVars == <<state, effects>>

ContractInit ==
    /\ state = [j \in Jobs |-> "absent"]
    /\ effects = [j \in Jobs |-> 0]

Accept(j) ==
    /\ state[j] = "absent"
    /\ state' = [state EXCEPT ![j] = "owed"]
    /\ UNCHANGED effects

Perform(j) ==
    /\ state[j] = "owed"
    /\ effects' = [effects EXCEPT ![j] = @ + 1]
    /\ UNCHANGED state

Complete(j) ==
    /\ state[j] = "owed" /\ effects[j] > 0
    /\ state' = [state EXCEPT ![j] = "done"]
    /\ UNCHANGED effects

GiveUp(j) ==
    /\ state[j] = "owed"
    /\ state' = [state EXCEPT ![j] = "dead"]
    /\ UNCHANGED effects

ContractNext ==
    \E j \in Jobs : Accept(j) \/ Perform(j) \/ Complete(j) \/ GiveUp(j)

ContractSpec == ContractInit /\ [][ContractNext]_contractVars
=============================================================================
