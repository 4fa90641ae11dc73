-------------------------- MODULE RecordsPromotion --------------------------
(***************************************************************************)
(* How a claim becomes a record (app/services/records): propose mints a    *)
(* packet, a live human approves, edits or rejects it, deliver submits the *)
(* approved one to the Org Record Service, an outbox retries.              *)
(*                                                                         *)
(* One claim, its packets, its outbox rows, the service.  The operations   *)
(* run on the threads of the HTTP server and on the worker thread          *)
(* (records_tick).  A store call is atomic, an operation is not: each is   *)
(* the list Calls[op] of the store and service calls it makes, in program  *)
(* order, and the calls of different threads interleave.  A packet stands  *)
(* for its payload and hash; a hash the human did not see is a refusal     *)
(* without effect.  Audit and learning entries are left out.               *)
(***************************************************************************)
EXTENDS Integers, Sequences, FiniteSets

CONSTANTS
    Humans,        \* HTTP server threads that serve the live session
    Worker,        \* the job worker's thread
    MaxPackets,    \* bound: packets minted for the claim
    MaxCrashes,    \* bound: crashes of the node
    Forwarding,    \* may the owner forward packets to the scope's approvers?
    Building       \* does the claim builder touch the claim while it is open?

ASSUME PromotionAssumption ==
    /\ Worker \notin Humans
    /\ MaxPackets \in Nat \ {0} /\ MaxCrashes \in Nat
    /\ Forwarding \in BOOLEAN /\ Building \in BOOLEAN

Threads == Humans \cup {Worker}
PacketIds == 1..MaxPackets
NoPacket == 0

ClaimStates == {"draft", "proposed", "conflicting", "edited", "approved",
                "recorded", "rejected", "discarded", "expired", "failed"}
OpenClaimStates == {"draft", "proposed", "conflicting", "edited"}
PacketStates == {"unminted", "open", "superseded", "expired", "rejected",
                 "edited", "approved", "submitted", "recorded", "failed",
                 "forwarded"}

\* node_store._TRANSITIONS
Transitions == [
    draft       |-> {"proposed", "discarded", "expired", "conflicting"},
    proposed    |-> {"approved", "edited", "rejected", "expired",
                     "conflicting", "draft"},
    conflicting |-> {"proposed", "rejected", "discarded", "expired"},
    edited      |-> {"approved", "rejected", "expired"},
    approved    |-> {"recorded", "failed", "proposed"},
    failed      |-> {"approved", "proposed"},
    recorded    |-> {"proposed"},
    rejected    |-> {}, discarded |-> {}, expired |-> {}]

Allowed(from, to) == to = from \/ to \in Transitions[from]

\* The calls of each operation, in program order.  "read" and "claim" are the
\* two halves of node_store.transition; "list" and "close" are
\* packets_for_claim and the updates of the rows it listed; "done" and
\* "refused" are the ways deliver returns to its caller,
\* "settle" closes the side of a conflict the reviewer did not pick.
Calls == [
    idle    |-> <<>>,
    propose |-> <<"list", "close", "read", "claim", "mint">>,
    pick    |-> <<"list", "close", "read", "claim", "mint", "settle">>,
    approve |-> <<"packet", "read", "claim", "outbox", "deliver">>,
    edit    |-> <<"packet", "read", "claim", "mint">>,
    reject  |-> <<"packet", "read", "claim">>,
    expire  |-> <<"read", "claim", "list", "close">>,
    discard |-> <<"read", "claim", "list", "close">>,
    retry   |-> <<"packet", "read", "claim", "outbox">>,
    forward |-> <<"offer", "packet">>,
    conflict |-> <<"read", "claim">>,
    lose    |-> <<"read", "claim">>,
    remint  |-> <<"list", "close", "read", "claim", "mint">>,
    deliver |-> <<"check", "packet", "send">>,
    record  |-> <<"packet", "read", "claim", "done">>,
    fail    |-> <<"packet", "read", "claim", "refused">>,
    stale   |-> <<"packet", "list", "close", "read", "claim", "mint",
                  "refused">>,
    unavailable |-> <<"packet", "postponed">>]

Ops == DOMAIN Calls

\* the state an operation's update_packet writes
PacketTo == [op \in Ops |->
    CASE op \in {"approve", "retry", "unavailable"} -> "approved"
      [] op = "edit" -> "edited"
      [] op = "reject" -> "rejected"
      [] op = "forward" -> "forwarded"
      [] op = "deliver" -> "submitted"
      [] op = "record" -> "recorded"
      [] op \in {"fail", "stale"} -> "failed"
      [] OTHER -> "superseded"]

\* the state an operation's transition moves the claim to
ClaimTo == [op \in Ops |->
    CASE op \in {"propose", "pick", "remint", "stale"} -> "proposed"
      [] op \in {"approve", "retry"} -> "approved"
      [] op = "edit" -> "edited"
      [] op \in {"reject", "lose"} -> "rejected"
      [] op = "expire" -> "expired"
      [] op = "discard" -> "discarded"
      [] op = "conflict" -> "conflicting"
      [] op = "record" -> "recorded"
      [] OTHER -> "failed"]

VARIABLES
    claim,        \* claims.status
    recordRef,    \* the packet whose version claims.record_ref names
    rival,        \* is there a conflicting claim that names this one?
    packet,       \* promotion_packets.state
    decision,     \* promotion_packets.decision
    outbox,       \* packets with an undone packet_submit row
    claimDue,     \* has claims.expires_at passed?
    packetDue,    \* packets past their TTL (node and service read one value)
    \* the threads
    op, todo, pkt,
    listed,       \* rows an operation listed and has yet to close
    caller,       \* who called deliver: "decide" or "drain"
    batch,        \* rows the drain fetched and has yet to handle
    held,         \* rows the drain fetched that are still undone
    \* the service
    versions,     \* record versions written for each packet
    forwarded,    \* forwarded_packets.state
    sending,      \* forwarded packets an approver's node is submitting
    conflicted,   \* packets whose write-back job ended in conflict
    \* history
    approved,     \* packets a human approved
    crashes

claims == <<claim, recordRef, rival>>
packets == <<packet, decision>>
clock == <<claimDue, packetDue>>
control == <<op, todo, pkt>>
locals == <<listed, caller>>
drain == <<batch, held>>
ledgers == <<versions, forwarded>>
service == <<versions, forwarded, sending, conflicted>>
history == <<approved, crashes>>
vars == <<claim, recordRef, rival, packet, decision, outbox, claimDue,
          packetDue, op, todo, pkt, listed, caller, batch, held, versions,
          forwarded, sending, conflicted, approved, crashes>>

CallNames == {"mark"} \cup
    UNION {{Calls[o][i] : i \in 1..Len(Calls[o])} : o \in Ops}

TypeOK ==
    /\ claim \in ClaimStates
    /\ recordRef \in PacketIds \cup {NoPacket}
    /\ claimDue \in BOOLEAN /\ rival \in BOOLEAN
    /\ packet \in [PacketIds -> PacketStates]
    /\ decision \in [PacketIds -> {"none", "approve", "edit", "reject"}]
    /\ packetDue \subseteq PacketIds /\ outbox \subseteq PacketIds
    /\ op \in [Threads -> Ops] /\ todo \in [Threads -> Seq(CallNames)]
    /\ pkt \in [Threads -> PacketIds \cup {NoPacket}]
    /\ listed \in [Threads -> SUBSET PacketIds]
    /\ caller \in [Threads -> {"decide", "drain"}]
    /\ batch \subseteq PacketIds /\ held \subseteq outbox
    /\ versions \in [PacketIds -> {0, 1}]
    /\ forwarded \in [PacketIds -> {"none", "open", "recorded"}]
    /\ sending \subseteq PacketIds
    /\ conflicted \subseteq PacketIds /\ approved \subseteq PacketIds
    /\ crashes \in 0..MaxCrashes

\* The claim builder has inserted a draft.
Init ==
    /\ claim = "draft" /\ recordRef = NoPacket /\ rival = FALSE
    /\ packet = [p \in PacketIds |-> "unminted"]
    /\ decision = [p \in PacketIds |-> "none"]
    /\ outbox = {} /\ claimDue = FALSE /\ packetDue = {}
    /\ op = [t \in Threads |-> "idle"]
    /\ todo = [t \in Threads |-> <<>>]
    /\ pkt = [t \in Threads |-> NoPacket]
    /\ listed = [t \in Threads |-> {}]
    /\ caller = [t \in Threads |-> "decide"]
    /\ batch = {} /\ held = {}
    /\ versions = [p \in PacketIds |-> 0]
    /\ forwarded = [p \in PacketIds |-> "none"]
    /\ sending = {} /\ conflicted = {}
    /\ approved = {} /\ crashes = 0

-----------------------------------------------------------------------------
(* Threads                                                                 *)

Idle(t) == op[t] = "idle"
At(t, call) == todo[t] # <<>> /\ Head(todo[t]) = call

\* thread t goes on with the calls of operation o on packet p
Run(t, o, p) ==
    /\ op' = [op EXCEPT ![t] = o]
    /\ todo' = [todo EXCEPT ![t] = Calls[o]]
    /\ pkt' = [pkt EXCEPT ![t] = p]

Rest(t) == Run(t, "idle", NoPacket)

\* leave the current call for another one of the same operation
Skip(t, call) ==
    todo' = [todo EXCEPT ![t] = <<call>>] /\ UNCHANGED <<op, pkt>>

\* past the current call; the last one ends the operation
Advance(t) ==
    \/ Len(todo[t]) = 1 /\ Rest(t)
    \/ Len(todo[t]) > 1 /\ todo' = [todo EXCEPT ![t] = Tail(@)]
                        /\ UNCHANGED <<op, pkt>>

Begin(t, o, p) ==
    Idle(t) /\ Run(t, o, p) /\ UNCHANGED <<locals, drain, service, crashes>>

-----------------------------------------------------------------------------
(* The operations: their checks, before the first write                    *)

Minted == {p \in PacketIds : packet[p] # "unminted"}
OpenPackets == {p \in PacketIds : packet[p] = "open"}

\* proposing one side of a conflict also settles the other
Propose(t) ==
    /\ claim \in {"draft", "conflicting", "proposed"}
    /\ Begin(t, IF claim = "conflicting" /\ rival THEN "pick" ELSE "propose",
             NoPacket)
    /\ UNCHANGED <<claims, packets, outbox, clock, approved>>

\* claim_builder and the drift notices propose a claim they have just inserted
AutoPropose ==
    /\ Building /\ batch = {}
    /\ Minted = {} /\ claim = "draft"
    /\ Propose(Worker)

\* mutant: a packet that is no longer open is decided again
DecideAgain(t, p, verdict) ==
    /\ packet[p] # "unminted" /\ p \notin packetDue
    /\ Begin(t, verdict, p)
    /\ approved' = IF verdict = "approve" THEN approved \cup {p} ELSE approved
    /\ UNCHANGED <<claims, packets, outbox, clock>>

\* decide: the packet is open, carries the hash the human saw and is not past
\* its TTL; the human's approval is on record from here
Decide(t, p, verdict) ==
    /\ packet[p] = "open" /\ p \notin packetDue
    /\ Begin(t, verdict, p)
    /\ approved' = IF verdict = "approve" THEN approved \cup {p} ELSE approved
    /\ UNCHANGED <<claims, packets, outbox, clock>>

\* decide on a packet past its TTL closes it and refuses
DecideTooLate(t, p) ==
    /\ Idle(t)
    /\ packet[p] = "open" /\ p \in packetDue
    /\ packet' = [packet EXCEPT ![p] = "expired"]
    /\ UNCHANGED <<claims, decision, outbox, clock, control, locals, drain,
                   service, history>>

Forward(t, p) ==
    /\ Forwarding /\ packet[p] = "open"
    /\ Begin(t, "forward", p)
    /\ UNCHANGED <<claims, packets, outbox, clock, approved>>

\* discard has no check of its own: transition refuses
Discard(t) ==
    /\ Begin(t, "discard", NoPacket)
    /\ UNCHANGED <<claims, packets, outbox, clock, approved>>

\* the last failed packet that was approved, still inside its TTL
Retryable(p) ==
    LET candidates == {q \in PacketIds :
                         packet[q] = "failed" /\ decision[q] = "approve"}
    IN  /\ p \in candidates /\ \A q \in candidates : q <= p
        /\ p \notin packetDue

Retry(t, p) ==
    /\ claim = "failed" /\ Retryable(p)
    /\ Begin(t, "retry", p)
    /\ UNCHANGED <<claims, packets, outbox, clock, approved>>

\* the reviewer proposed the rival: this side of the conflict closes
Lose(t) ==
    /\ rival /\ rival' = FALSE
    /\ Begin(t, "lose", NoPacket)
    /\ UNCHANGED <<claim, recordRef, packets, outbox, clock, approved>>

\* claim_builder: a candidate with another value was inserted as conflicting
MarkConflict ==
    /\ Building /\ batch = {}
    /\ claim \in OpenClaimStates /\ ~rival
    /\ rival' = TRUE
    /\ Begin(Worker, "conflict", NoPacket)
    /\ UNCHANGED <<claim, recordRef, packets, outbox, clock, approved>>

ExpireStale ==
    /\ Building /\ batch = {}
    /\ claimDue /\ claim \in OpenClaimStates
    /\ Begin(Worker, "expire", NoPacket)
    /\ UNCHANGED <<claims, packets, outbox, clock, approved>>

\* heartbeat: the write-back of the version this claim stands on conflicted
Reconcile ==
    /\ batch = {}
    /\ claim = "recorded" /\ recordRef \in conflicted
    /\ Begin(Worker, "remint", NoPacket)
    /\ UNCHANGED <<claims, packets, outbox, clock, approved>>

\* drain_outbox fetches the rows whose next_at has come, then handles them in
\* order
DrainStart ==
    /\ Idle(Worker) /\ batch = {} /\ outbox # {}
    /\ \E due \in SUBSET outbox : due # {} /\ batch' = due /\ held' = due
    /\ UNCHANGED <<claims, packets, outbox, clock, control, locals, service,
                   history>>

DrainRow ==
    /\ Idle(Worker)
    /\ \E p \in batch :
         /\ \A q \in batch : p <= q
         /\ batch' = batch \ {p}
         /\ Run(Worker, "deliver", p)
    /\ caller' = [caller EXCEPT ![Worker] = "drain"]
    /\ UNCHANGED <<claims, packets, outbox, clock, listed, held, service,
                   history>>

-----------------------------------------------------------------------------
(* The calls                                                               *)

\* packets_for_claim
ListPackets(t) ==
    /\ At(t, "list")
    /\ listed' = [listed EXCEPT ![t] = OpenPackets]
    /\ Advance(t)
    /\ UNCHANGED <<claims, packets, outbox, clock, caller, drain, service,
                   history>>

\* one update_packet for each row that was open when it was listed
CloseOne(t) ==
    /\ At(t, "close")
    /\ \E p \in listed[t] :
         /\ packet' = [packet EXCEPT ![p] =
                         IF op[t] = "expire" THEN "expired" ELSE "superseded"]
         /\ listed' = [listed EXCEPT ![t] = @ \ {p}]
    /\ UNCHANGED <<claims, decision, outbox, clock, control, caller, drain,
                   service, history>>

AllClosed(t) ==
    /\ At(t, "close") /\ listed[t] = {}
    /\ Advance(t)
    /\ UNCHANGED <<claims, packets, outbox, clock, locals, drain, service,
                   history>>

\* a TransitionError ends the operation; inside remint it is caught, out of
\* deliver it also ends the drain
Refuse(t) ==
    \/ /\ op[t] = "stale"
       /\ Skip(t, "refused") /\ UNCHANGED drain
    \/ /\ op[t] # "stale"
       /\ Rest(t)
       /\ IF op[t] \in {"record", "fail"} /\ caller[t] = "drain"
          THEN batch' = {} /\ held' = {}
          ELSE UNCHANGED drain

\* transition, first half: read the claim and check the edge
ReadClaim(t) ==
    /\ At(t, "read")
    /\ \/ Allowed(claim, ClaimTo[op[t]]) /\ Advance(t) /\ UNCHANGED drain
       \/ ~Allowed(claim, ClaimTo[op[t]]) /\ Refuse(t)
    /\ UNCHANGED <<claims, packets, outbox, clock, locals, service, history>>

\* transition, second half: write the new status, whatever it is by now
WriteClaim(t) ==
    /\ At(t, "claim")
    /\ claim' = ClaimTo[op[t]]
    /\ recordRef' = IF op[t] = "record" THEN pkt[t] ELSE recordRef
    /\ Advance(t)
    /\ UNCHANGED <<rival, packets, outbox, clock, locals, drain, service,
                   history>>

\* the side of the conflict that was not picked is rejected
SettleRival(t) ==
    /\ At(t, "settle")
    /\ rival' = FALSE
    /\ Advance(t)
    /\ UNCHANGED <<claim, recordRef, packets, outbox, clock, locals, drain,
                   service, history>>

\* update_packet with the operation's verdict
WritePacket(t) ==
    /\ At(t, "packet")
    /\ packet' = [packet EXCEPT ![pkt[t]] = PacketTo[op[t]]]
    /\ decision' = IF op[t] \in {"approve", "edit", "reject"}
                   THEN [decision EXCEPT ![pkt[t]] = op[t]] ELSE decision
    /\ Advance(t)
    /\ UNCHANGED <<claims, outbox, clock, locals, drain, service, history>>

\* _mint: a new open packet, or the service refuses the preview
Mint(t) ==
    /\ At(t, "mint")
    /\ \/ \E p \in PacketIds \ Minted :
            /\ \A q \in PacketIds : q < p => q \in Minted
            /\ packet' = [packet EXCEPT ![p] = "open"]
            /\ Advance(t)
       \/ /\ UNCHANGED packet
          /\ IF op[t] = "stale" THEN Advance(t) ELSE Rest(t)
    /\ UNCHANGED <<claims, decision, outbox, clock, locals, drain, service,
                   history>>

\* node_store.enqueue: one undone row per packet
EnqueueSubmit(t) ==
    /\ At(t, "outbox")
    /\ outbox' = outbox \cup {pkt[t]}
    /\ Advance(t)
    /\ UNCHANGED <<claims, packets, clock, locals, drain, service, history>>

\* decide delivers inline after it has queued the row
DeliverInline(t) ==
    /\ At(t, "deliver")
    /\ Run(t, "deliver", pkt[t])
    /\ caller' = [caller EXCEPT ![t] = "decide"]
    /\ UNCHANGED <<claims, packets, outbox, clock, listed, drain, service,
                   history>>

\* _mark_outbox_done
MarkDone(t) ==
    /\ At(t, "mark")
    /\ outbox' = outbox \ {pkt[t]} /\ held' = held \ {pkt[t]}
    /\ Advance(t)
    /\ UNCHANGED <<claims, packets, clock, locals, batch, service, history>>

-----------------------------------------------------------------------------
(* deliver and the service                                                 *)

Deliverable(p) == packet[p] \in {"approved", "submitted"}

\* the egress verdict: an unapproved send is denied, any send may be
EgressAllows(p) == decision[p] = "approve" \/ packet[p] = "submitted"

\* mutant: the TTL is left to the service
CheckDeliveryNoTtl(t) ==
    /\ At(t, "check")
    /\ \/ ~Deliverable(pkt[t]) /\ Skip(t, "done")
       \/ Deliverable(pkt[t]) /\ Run(t, "fail", pkt[t])
       \/ Deliverable(pkt[t]) /\ EgressAllows(pkt[t]) /\ Advance(t)
    /\ UNCHANGED <<claims, packets, outbox, clock, locals, drain, service,
                   history>>

\* deliver's checks: the packet's state, its TTL, the egress verdict
CheckDelivery(t) ==
    /\ At(t, "check")
    /\ \/ ~Deliverable(pkt[t]) /\ Skip(t, "done")
       \/ Deliverable(pkt[t]) /\ Run(t, "fail", pkt[t])
       \/ /\ Deliverable(pkt[t]) /\ EgressAllows(pkt[t])
          /\ pkt[t] \notin packetDue
          /\ Advance(t)
    /\ UNCHANGED <<claims, packets, outbox, clock, locals, drain, service,
                   history>>

\* mutant: no idempotency on payload_hash
AcceptAgain(p) ==
    /\ p \notin packetDue
    /\ versions' = [versions EXCEPT ![p] = @ + 1]
    /\ UNCHANGED forwarded

\* service.submit_packet, one transaction: a packet that already has its
\* version is answered with it, another writes one while its TTL lasts
Accept(p) ==
    \/ versions[p] > 0 /\ UNCHANGED ledgers
    \/ /\ versions[p] = 0 /\ p \notin packetDue
       /\ versions' = [versions EXCEPT ![p] = 1]
       /\ forwarded' = [forwarded EXCEPT ![p] =
                          IF @ = "none" THEN "none" ELSE "recorded"]

\* mutant: a submission without an answer is taken for recorded
SendHopes(t) ==
    /\ At(t, "send")
    /\ \/ Accept(pkt[t]) /\ Run(t, "record", pkt[t])
       \/ UNCHANGED ledgers /\ Run(t, "record", pkt[t])
    /\ UNCHANGED <<claims, packets, outbox, clock, locals, drain, sending,
                   conflicted, history>>

\* submit_packet over the network: recorded; refused (the credential, a grant,
\* the TTL, a stale preview); no answer, the submission lost or written
Send(t) ==
    /\ At(t, "send")
    /\ \/ Accept(pkt[t]) /\ Run(t, "record", pkt[t])
       \/ Accept(pkt[t]) /\ Run(t, "unavailable", pkt[t])
       \/ UNCHANGED ledgers /\ Run(t, "unavailable", pkt[t])
       \/ UNCHANGED ledgers /\ Run(t, "fail", pkt[t])
       \/ /\ versions[pkt[t]] = 0
          /\ UNCHANGED ledgers /\ Run(t, "stale", pkt[t])
    /\ UNCHANGED <<claims, packets, outbox, clock, locals, drain, sending,
                   conflicted, history>>

\* the drain marks the row it fetched as done
RowDone(t) ==
    /\ outbox' = IF pkt[t] \in held THEN outbox \ {pkt[t]} ELSE outbox
    /\ held' = held \ {pkt[t]}

\* deliver returned: decide looks for the packet's rows, the drain has its own
Delivered(t) ==
    /\ At(t, "done")
    /\ \/ caller[t] = "decide" /\ Skip(t, "mark") /\ UNCHANGED <<outbox, held>>
       \/ caller[t] = "drain" /\ RowDone(t) /\ Rest(t)
    /\ UNCHANGED <<claims, packets, clock, locals, batch, service, history>>

\* deliver raised OrgRefused: only the drain marks the row done
Refused(t) ==
    /\ At(t, "refused")
    /\ \/ caller[t] = "decide" /\ UNCHANGED <<outbox, held>>
       \/ caller[t] = "drain" /\ RowDone(t)
    /\ Rest(t)
    /\ UNCHANGED <<claims, packets, clock, locals, batch, service, history>>

\* deliver raised OrgUnavailable: the row stays for a later drain
Postponed(t) ==
    /\ At(t, "postponed")
    /\ held' = IF caller[t] = "drain" THEN held \ {pkt[t]} ELSE held
    /\ Rest(t)
    /\ UNCHANGED <<claims, packets, outbox, clock, locals, batch, service,
                   history>>

\* forward_packet: the service opens it to the scope's approvers, once; without
\* an answer the node's packet stays open
Offer(t) ==
    /\ At(t, "offer")
    /\ \/ /\ pkt[t] \notin packetDue
          /\ forwarded' = [forwarded EXCEPT ![pkt[t]] =
                             IF @ = "none" THEN "open" ELSE @]
          /\ Advance(t) \/ Rest(t)
       \/ UNCHANGED forwarded /\ Rest(t)
    /\ UNCHANGED <<claims, packets, outbox, clock, locals, drain, versions,
                   sending, conflicted, history>>

\* an approver's node: approve_forwarded, then its submission
ApproverApproves(p) ==
    /\ forwarded[p] = "open" /\ p \notin packetDue
    /\ approved' = approved \cup {p}
    /\ sending' = sending \cup {p}
    /\ UNCHANGED <<claims, packets, outbox, clock, control, locals, drain,
                   ledgers, conflicted, crashes>>

ApproverSubmits(p) ==
    /\ p \in sending
    /\ sending' = sending \ {p}
    /\ Accept(p) \/ UNCHANGED ledgers
    /\ UNCHANGED <<claims, packets, outbox, clock, control, locals, drain,
                   conflicted, history>>

\* the sync worker finds that the external value moved
WriteBackConflicts(p) ==
    /\ versions[p] > 0 /\ p \notin conflicted
    /\ conflicted' = conflicted \cup {p}
    /\ UNCHANGED <<claims, packets, outbox, clock, control, locals, drain,
                   ledgers, sending, history>>

-----------------------------------------------------------------------------
(* Time and crashes                                                        *)

PacketTtlPasses(p) ==
    /\ p \in Minted /\ p \notin packetDue
    /\ packetDue' = packetDue \cup {p}
    /\ UNCHANGED <<claims, packets, outbox, claimDue, control, locals, drain,
                   service, history>>

ClaimTtlPasses ==
    /\ Building /\ ~claimDue /\ claimDue' = TRUE
    /\ UNCHANGED <<claims, packets, outbox, packetDue, control, locals, drain,
                   service, history>>

\* every thread of the node stops where it stands; the tables remain
Crash ==
    /\ crashes < MaxCrashes
    /\ crashes' = crashes + 1
    /\ op' = [t \in Threads |-> "idle"]
    /\ todo' = [t \in Threads |-> <<>>]
    /\ pkt' = [t \in Threads |-> NoPacket]
    /\ listed' = [t \in Threads |-> {}]
    /\ caller' = [t \in Threads |-> "decide"]
    /\ batch' = {} /\ held' = {}
    /\ UNCHANGED <<claims, packets, outbox, clock, service, approved>>

-----------------------------------------------------------------------------
Call(t) ==
    \/ ListPackets(t) \/ CloseOne(t) \/ AllClosed(t) \/ ReadClaim(t)
    \/ WriteClaim(t) \/ SettleRival(t) \/ WritePacket(t) \/ Mint(t)
    \/ EnqueueSubmit(t) \/ DeliverInline(t) \/ MarkDone(t)
    \/ CheckDelivery(t) \/ Send(t)
    \/ Delivered(t) \/ Refused(t) \/ Postponed(t) \/ Offer(t)

HumanRequest(t) ==
    \/ Propose(t) \/ Discard(t) \/ Lose(t)
    \/ \E p \in PacketIds :
         \/ \E verdict \in {"approve", "edit", "reject"} : Decide(t, p, verdict)
         \/ DecideTooLate(t, p) \/ Forward(t, p) \/ Retry(t, p)

WorkerTick ==
    \/ AutoPropose \/ MarkConflict \/ ExpireStale \/ Reconcile
    \/ DrainStart \/ DrainRow

ServiceStep ==
    \E p \in PacketIds :
        ApproverApproves(p) \/ ApproverSubmits(p) \/ WriteBackConflicts(p)

Next ==
    \/ \E t \in Threads : Call(t)
    \/ \E t \in Humans : HumanRequest(t)
    \/ WorkerTick
    \/ ServiceStep
    \/ \E p \in PacketIds : PacketTtlPasses(p)
    \/ ClaimTtlPasses
    \/ Crash

Spec == Init /\ [][Next]_vars

\* Threads are scheduled, the tick drains what is due, time passes.  Nothing
\* is assumed of the service (it may never answer) nor of the humans.
Fairness ==
    /\ \A t \in Threads : WF_vars(Call(t))
    /\ SF_vars(DrainStart) /\ WF_vars(DrainRow)
    /\ WF_vars(\E p \in PacketIds : PacketTtlPasses(p))

FairSpec == Spec /\ Fairness

-----------------------------------------------------------------------------
(* Safety                                                                  *)

\* Only packets a human approved become records, whichever thread delivers and
\* however often (promotion.py decide, deliver, approve_forwarded), and one
\* approval is written at most once (service.submit_packet).
Promise == INSTANCE ApprovedRecords WITH
    consent <- approved, ledger <- versions
KeepsPromise == Promise!RecordsSpec

\* A claim or a packet the node shows as recorded has its version at the
\* service: a lost answer never turns into a claim of success.
RecordedIsWritten ==
    /\ claim = "recorded" => recordRef # NoPacket /\ versions[recordRef] > 0
    /\ \A p \in PacketIds : packet[p] = "recorded" => versions[p] > 0

\* A packet the owner rejected is never written to the record, neither before
\* nor after (one session at a time; two may decide one packet at once).  What
\* was forwarded before is for the approver to decide.
RejectedStaysOut ==
    \A p \in PacketIds :
        packet[p] = "rejected" /\ forwarded[p] = "none" => versions[p] = 0

-----------------------------------------------------------------------------
(* Liveness                                                                *)

\* No row hangs in the outbox, which is empty again and again: even when the
\* service never answers and when a refused transition cuts a drain short, each
\* row is done in the end, recorded, refused or past its packet's TTL
\* (org_client.drain_outbox).
OutboxDrains == []<>(outbox = {})

-----------------------------------------------------------------------------
(* What the comments promise and the code does not do                      *)

\* promotion.py:17: an approved submission waits in the outbox.  With nobody
\* at work and no crash, an approved claim has a deliverable packet there.
ApprovalIsQueued ==
    (claim = "approved" /\ crashes = 0 /\ batch = {}
        /\ \A t \in Threads : Idle(t))
            => \E p \in outbox : Deliverable(p)

\* service.py:560: a packet that recorded and is resubmitted after expiry gets
\* its version back, so no delivery given up for its TTL has written one.
ExpiredIsNotWritten ==
    [][\A t \in Threads :
         (At(t, "check") /\ op'[t] = "fail" /\ pkt[t] \in packetDue)
             => versions[pkt[t]] = 0]_vars

\* node_store.py:28: a record is reopened only to be proposed again.
RecordedReopensAsProposed ==
    [][(claim = "recorded") => claim' \in {"recorded", "proposed"}]_vars

\* node_store.py:17: terminal states never transition again.
TerminalIsFinal ==
    [][(claim \in {"rejected", "discarded", "expired"})
         => claim' = claim]_vars

\* promotion.py:169: re-proposing replaces the open packet, one live packet
\* per claim.
OneLivePacket == Cardinality(OpenPackets) <= 1
=============================================================================
