----------------------------- MODULE FleetRelay -----------------------------
(***************************************************************************)
(* A signal's way from one Sparrow through the firm relay to the feeds of  *)
(* its colleagues: the sender's outbox (app/services/fleet/relay_client),  *)
(* the relay's log and retry queue (org_coordinator/relay), the            *)
(* recipient's replay guard (fleet/inbound, fleet/dedup).                  *)
(*                                                                         *)
(* The sender has a thread per send, the relay a handler per publish and a *)
(* courier thread per recipient; each side has a file of rows to retry and *)
(* two passes over it that may overlap, its own loop and one on request.   *)
(* A critical section on a file is one action.  A POST is one action too:  *)
(* what it does at the other side and the answer that comes back.  Where   *)
(* the answer is lost, the other side's handler goes on by itself.         *)
(* Signatures, schemas and kinds appear as refusals.  One topic.           *)
(***************************************************************************)
EXTENDS Integers, FiniteSets

CONSTANTS
    Signals,          \* origin ids minted on the sending Sparrow
    Recipients,       \* the other enrolled nodes
    MaxOutbox,        \* relay_client.MAX_OUTBOX
    MaxQueue,         \* relay.MAX_QUEUE
    Policies,         \* do admins change the topic and the blocked list?
    Requests,         \* does anyone ask for a pass?
    MaxNodeExits, MaxRelayExits, MaxRecipientExits   \* bounds on exits

ASSUME FleetAssumption ==
    /\ IsFiniteSet(Signals) /\ IsFiniteSet(Recipients)
    /\ MaxOutbox \in Nat \ {0} /\ MaxQueue \in Nat \ {0}
    /\ Policies \in BOOLEAN /\ Requests \in BOOLEAN
    /\ MaxNodeExits \in Nat /\ MaxRelayExits \in Nat
    /\ MaxRecipientExits \in Nat

Deliveries == Signals \X Recipients
Passes == {"loop", "request"}

VARIABLES
    \* the sending Sparrow
    blocked,          \* signals whose subject is on its blocked list
    thread,           \* each signal's send: "none", "post" or "queue"
    outbox,           \* fleet outbox file
    load, keep,       \* each pass's rows to do, and rows to put back
    looping,          \* has this process started its retry loop?
    \* the relay
    admitted,         \* recipients the topic and its barrier let through
    seen,             \* relay_seen.json
    handling,         \* signals marked by a handler that has yet to log them
    logged,           \* signals with a "forward" row in the chained log
    addressed,        \* deliveries that row names
    courier, toQueue, \* deliveries a courier thread will post, will queue
    queue,            \* relay_queue.json
    rload, rkeep,     \* each pass's rows to do, and rows to put back
    rlate,            \* signals past expires_at when the pass began
    \* the recipients
    marked,           \* deliveries in a recipient's `seen` ledger
    arriving,         \* deliveries marked by a handler yet to emit them
    feed,             \* times each delivery was emitted
    \* the world and the history
    expired,          \* signals past expires_at
    released,         \* signals shared by a rule or an approved offer
    accepted,         \* signals whose send the relay answered with 200
    given,            \* signals the sender gave up: refused or expired
    confirmed,        \* deliveries the recipient answered with 200
    ended,            \* deliveries with a "delivery_*" row in the log
    cutOutbox, cutQueue,      \* rows that fell off the end of a full file
    nodeExits, relayExits, recipientExits

senderVars == <<thread, outbox, load, keep, looping, released, accepted,
                given, cutOutbox, nodeExits>>
forwarding == <<seen, handling, logged, addressed, courier>>
retrying == <<toQueue, queue, rload, rkeep, rlate, confirmed, ended, cutQueue>>
recipientVars == <<marked, arriving, feed>>
policy == <<blocked, admitted>>
faults == <<relayExits, recipientExits>>
vars == <<senderVars, forwarding, retrying, recipientVars, policy, faults, expired>>

SenderOK ==
    /\ thread \in [Signals -> {"none", "post", "queue"}]
    /\ released \subseteq Signals
    /\ \A s \in Signals : thread[s] # "none" => s \in released
    /\ outbox \subseteq released /\ cutOutbox \subseteq released
    /\ load \in [Passes -> SUBSET released] /\ keep \in [Passes -> SUBSET released]
    /\ accepted \subseteq released /\ given \subseteq released
    /\ looping \in BOOLEAN /\ nodeExits \in Nat

ForwardOK ==
    /\ seen \subseteq released /\ handling \subseteq seen /\ logged \subseteq seen
    /\ addressed \subseteq logged \X Recipients
    /\ courier \subseteq addressed

RetryOK ==
    /\ toQueue \subseteq addressed /\ queue \subseteq addressed
    /\ cutQueue \subseteq addressed
    /\ rload \in [Passes -> SUBSET addressed]
    /\ rkeep \in [Passes -> SUBSET addressed]
    /\ rlate \in [Passes -> SUBSET Signals]
    /\ confirmed \subseteq addressed /\ ended \subseteq addressed

RecipientOK ==
    /\ marked \subseteq addressed /\ arriving \subseteq marked
    /\ feed \in [Deliveries -> {0, 1}]

WorldOK ==
    /\ blocked \subseteq Signals /\ admitted \subseteq Recipients
    /\ expired \subseteq Signals
    /\ relayExits \in Nat /\ recipientExits \in Nat

TypeOK == SenderOK /\ ForwardOK /\ RetryOK /\ RecipientOK /\ WorldOK

Init ==
    /\ blocked = {} /\ admitted = Recipients
    /\ thread = [s \in Signals |-> "none"]
    /\ outbox = {} /\ looping = FALSE
    /\ load = [k \in Passes |-> {}] /\ keep = [k \in Passes |-> {}]
    /\ seen = {} /\ handling = {} /\ logged = {} /\ addressed = {}
    /\ courier = {} /\ toQueue = {} /\ queue = {}
    /\ rload = [k \in Passes |-> {}] /\ rkeep = [k \in Passes |-> {}]
    /\ rlate = [k \in Passes |-> {}]
    /\ marked = {} /\ arriving = {} /\ feed = [d \in Deliveries |-> 0]
    /\ expired = {} /\ released = {} /\ accepted = {} /\ given = {}
    /\ confirmed = {} /\ ended = {} /\ cutOutbox = {} /\ cutQueue = {}
    /\ nodeExits = 0 /\ relayExits = 0 /\ recipientExits = 0

-----------------------------------------------------------------------------
(* POST /relay/publish: check, mark, log, forward.                         *)

\* the log row names the recipients of the moment; each gets a courier
Log(s) ==
    /\ logged' = logged \cup {s}
    /\ addressed' = addressed \cup ({s} \X admitted)
    /\ courier' = courier \cup ({s} \X admitted)

Unmoved(answer, answers) == answer \in answers /\ UNCHANGED forwarding

\* mutant: the replay guard is gone
PublishAgain(s, answer) ==
    \/ Unmoved(answer, {"refused", "retry"})
    \/ s \notin expired /\ seen' = seen \cup {s} /\ Log(s) /\ UNCHANGED handling

\* mutant: the answer is a 200 before the signal is handled
PublishAccepts(s, answer) ==
    \/ Unmoved(answer, {"refused", "retry", "ok"})
    \/ /\ s \notin expired /\ s \notin seen /\ answer = "ok"
       /\ seen' = seen \cup {s} /\ Log(s) /\ UNCHANGED handling

\* mutant: couriers start before the row is in the log
PublishForwardsFirst(s, answer) ==
    \/ Unmoved(answer, {"refused", "retry"})
    \/ s \notin expired /\ s \in seen /\ Unmoved(answer, {"ok"})
    \/ /\ s \notin expired /\ s \notin seen /\ answer = "retry"
       /\ seen' = seen \cup {s} /\ handling' = handling \cup {s}
       /\ courier' = courier \cup ({s} \X admitted)
       /\ addressed' = addressed \cup ({s} \X admitted)
       /\ UNCHANGED logged

\* One publish and what the sender makes of it: "ok" is a 200, "refused" a
\* 4xx, "retry" a 5xx or no answer; then the handler may be on its way.
Publish(s, answer) ==
    \/ Unmoved(answer, {"refused", "retry"})
    \/ s \notin expired /\ s \in seen /\ Unmoved(answer, {"ok"})
    \/ /\ s \notin expired /\ s \notin seen /\ answer = "ok"
       /\ seen' = seen \cup {s} /\ Log(s) /\ UNCHANGED handling
    \/ /\ s \notin expired /\ s \notin seen /\ answer = "retry"
       /\ seen' = seen \cup {s} /\ handling' = handling \cup {s}
       /\ UNCHANGED <<logged, addressed, courier>>

Handle(s) ==
    /\ s \in handling /\ handling' = handling \ {s}
    /\ Log(s)
    /\ UNCHANGED <<senderVars, seen, retrying, recipientVars, policy, faults, expired>>

-----------------------------------------------------------------------------
(* The sender.                                                             *)

\* (older + newer)[-max:].  The rows are in order in the code; which of the
\* older ones go first is left open here.
Kept(older, newer, max) ==
    LET room == max - Cardinality(newer)
    IN  {rest \in SUBSET older :
           Cardinality(rest) = IF Cardinality(older) <= room
                               THEN Cardinality(older) ELSE room}

\* router.apply or an approval lets the signal go: a thread sends it
Release(s) ==
    /\ s \notin released /\ s \notin blocked /\ s \notin expired
    /\ released' = released \cup {s}
    /\ thread' = [thread EXCEPT ![s] = "post"]
    /\ UNCHANGED <<outbox, load, keep, looping, accepted, given, cutOutbox,
                   nodeExits, forwarding, retrying, recipientVars, policy,
                   faults, expired>>

\* an expired signal does not get through prepare
Answered(s, answer) ==
    \/ s \in expired /\ answer = "refused" /\ UNCHANGED forwarding
    \/ s \notin expired /\ Publish(s, answer)

Settle(s, answer) ==
    /\ accepted' = IF answer = "ok" THEN accepted \cup {s} ELSE accepted
    /\ given' = IF answer = "refused" THEN given \cup {s} ELSE given

Send(s, answer) ==
    /\ thread[s] = "post"
    /\ Answered(s, answer) /\ Settle(s, answer)
    /\ thread' = [thread EXCEPT ![s] = IF answer = "retry" THEN "queue" ELSE "none"]
    /\ UNCHANGED <<outbox, load, keep, looping, released, cutOutbox, nodeExits,
                   retrying, recipientVars, policy, faults, expired>>

Enqueue(s) ==
    /\ thread[s] = "queue"
    /\ thread' = [thread EXCEPT ![s] = "none"]
    /\ \E rest \in Kept(outbox, {s}, MaxOutbox) :
         /\ outbox' = rest \cup {s}
         /\ cutOutbox' = cutOutbox \cup (outbox \ rest)
    /\ looping' = TRUE
    /\ UNCHANGED <<load, keep, released, accepted, given, nodeExits, forwarding,
                   retrying, recipientVars, policy, faults, expired>>

\* mutant: the pass leaves the file as it is
TakeOutboxCopies(k) ==
    /\ outbox # {} /\ load[k] = {} /\ keep[k] = {}
    /\ IF k = "loop" THEN looping ELSE Requests
    /\ load' = [load EXCEPT ![k] = outbox]
    /\ UNCHANGED <<outbox, thread, keep, looping, released, accepted, given,
                   cutOutbox, nodeExits, forwarding, retrying, recipientVars,
                   policy, faults, expired>>

TakeOutbox(k) ==
    /\ outbox # {} /\ load[k] = {} /\ keep[k] = {}
    /\ IF k = "loop" THEN looping ELSE Requests
    /\ load' = [load EXCEPT ![k] = outbox]
    /\ outbox' = {}
    /\ UNCHANGED <<thread, keep, looping, released, accepted, given, cutOutbox,
                   nodeExits, forwarding, retrying, recipientVars, policy,
                   faults, expired>>

\* mutant: an expired row is tried again
RetryAnsweredAnyway(s, answer) ==
    IF s \in expired THEN answer = "retry" /\ UNCHANGED forwarding
    ELSE Publish(s, answer)

RetryAnswered(s, answer) == Answered(s, answer)

RetrySend(k, s, answer) ==
    /\ s \in load[k]
    /\ load' = [load EXCEPT ![k] = @ \ {s}]
    /\ RetryAnswered(s, answer) /\ Settle(s, answer)
    /\ keep' = IF answer = "retry" THEN [keep EXCEPT ![k] = @ \cup {s}] ELSE keep
    /\ UNCHANGED <<thread, outbox, looping, released, cutOutbox, nodeExits,
                   retrying, recipientVars, policy, faults, expired>>

PutBack(k) ==
    /\ load[k] = {} /\ keep[k] # {}
    /\ \E rest \in Kept(keep[k], outbox, MaxOutbox) :
         /\ outbox' = rest \cup outbox
         /\ cutOutbox' = cutOutbox \cup (keep[k] \ rest)
    /\ keep' = [keep EXCEPT ![k] = {}]
    /\ UNCHANGED <<thread, load, looping, released, accepted, given, nodeExits,
                   forwarding, retrying, recipientVars, policy, faults, expired>>

\* the Sparrow's process ends and starts: the outbox file is what it keeps
NodeExits ==
    /\ nodeExits < MaxNodeExits /\ nodeExits' = nodeExits + 1
    /\ thread' = [s \in Signals |-> "none"]
    /\ load' = [k \in Passes |-> {}] /\ keep' = [k \in Passes |-> {}]
    /\ looping' = FALSE
    /\ UNCHANGED <<outbox, released, accepted, given, cutOutbox, forwarding,
                   retrying, recipientVars, policy, faults, expired>>

-----------------------------------------------------------------------------
(* Recipients: POST /peer/ask with kind "signal".                          *)

Show(d) == feed' = [feed EXCEPT ![d] = @ + 1]

\* mutant: a replayed origin_id is taken for a new one
ReceiveAgain(d, answer) ==
    \/ answer \in {"refused", "retry"} /\ UNCHANGED recipientVars
    \/ /\ d[1] \notin expired /\ answer \in {"ok", "retry"}
       /\ marked' = marked \cup {d} /\ Show(d) /\ UNCHANGED arriving

\* mutant: the signal is acknowledged but not emitted
ReceiveForgets(d, answer) ==
    \/ answer \in {"refused", "retry"} /\ UNCHANGED recipientVars
    \/ /\ d[1] \notin expired /\ answer = "ok"
       /\ marked' = marked \cup {d} /\ UNCHANGED <<arriving, feed>>

\* One delivery and what the relay makes of it: "ok" is a 2xx, "retry" a 404,
\* a 5xx or no answer, "refused" any other status.
Receive(d, answer) ==
    \/ answer \in {"refused", "retry"} /\ UNCHANGED recipientVars
    \/ d[1] \notin expired /\ d \in marked /\ answer = "ok" /\ UNCHANGED recipientVars
    \/ /\ d[1] \notin expired /\ d \notin marked /\ answer = "ok"
       /\ marked' = marked \cup {d} /\ Show(d) /\ UNCHANGED arriving
    \/ /\ d[1] \notin expired /\ d \notin marked /\ answer = "retry"
       /\ marked' = marked \cup {d} /\ arriving' = arriving \cup {d}
       /\ UNCHANGED feed

Emit(d) ==
    /\ d \in arriving /\ arriving' = arriving \ {d}
    /\ Show(d)
    /\ UNCHANGED <<senderVars, forwarding, retrying, marked, policy, faults, expired>>

\* the recipient's process ends and starts: its ledger is what it keeps
RecipientExits(r) ==
    /\ recipientExits < MaxRecipientExits
    /\ recipientExits' = recipientExits + 1
    /\ arriving' = {d \in arriving : d[2] # r}
    /\ UNCHANGED <<senderVars, forwarding, retrying, marked, feed, policy,
                   relayExits, expired>>

-----------------------------------------------------------------------------
(* The relay's couriers and its retry queue.                               *)

Conclude(d, answer) ==
    /\ confirmed' = IF answer = "ok" THEN confirmed \cup {d} ELSE confirmed
    /\ ended' = IF answer = "refused" THEN ended \cup {d} ELSE ended

CourierPosts(d, answer) ==
    /\ d \in courier /\ courier' = courier \ {d}
    /\ Receive(d, answer) /\ Conclude(d, answer)
    /\ toQueue' = IF answer = "retry" THEN toQueue \cup {d} ELSE toQueue
    /\ UNCHANGED <<senderVars, seen, handling, logged, addressed, queue, rload,
                   rkeep, rlate, cutQueue, policy, faults, expired>>

CourierQueues(d) ==
    /\ d \in toQueue /\ toQueue' = toQueue \ {d}
    /\ \E rest \in Kept(queue, {d}, MaxQueue) :
         /\ queue' = rest \cup {d}
         /\ cutQueue' = cutQueue \cup (queue \ rest)
    /\ UNCHANGED <<senderVars, forwarding, rload, rkeep, rlate, confirmed, ended,
                   recipientVars, policy, faults, expired>>

\* the retry loop runs from the relay's start on
TakeQueue(k) ==
    /\ queue # {} /\ rload[k] = {} /\ rkeep[k] = {}
    /\ k = "loop" \/ Requests
    /\ rload' = [rload EXCEPT ![k] = queue]
    /\ rlate' = [rlate EXCEPT ![k] = expired]
    /\ queue' = {}
    /\ UNCHANGED <<senderVars, forwarding, toQueue, rkeep, confirmed, ended,
                   cutQueue, recipientVars, policy, faults, expired>>

\* mutant: a row that came too late is kept
RedeliveredAnyway(k, d, answer) ==
    IF d[1] \in rlate[k] THEN answer = "retry" /\ UNCHANGED recipientVars
    ELSE Receive(d, answer)

\* the row came too late, is not due yet (on the loop only), or is posted
Redelivered(k, d, answer) ==
    \/ d[1] \in rlate[k] /\ answer = "refused" /\ UNCHANGED recipientVars
    \/ d[1] \notin rlate[k] /\ Receive(d, answer)

Redeliver(k, d, answer) ==
    /\ d \in rload[k]
    /\ rload' = [rload EXCEPT ![k] = @ \ {d}]
    /\ Redelivered(k, d, answer) /\ Conclude(d, answer)
    /\ rkeep' = IF answer = "retry" THEN [rkeep EXCEPT ![k] = @ \cup {d}] ELSE rkeep
    /\ UNCHANGED <<senderVars, forwarding, toQueue, queue, rlate, cutQueue,
                   policy, faults, expired>>

\* mutant: what was queued during the pass is overwritten
RequeueOnly(k) ==
    /\ rload[k] = {} /\ rkeep[k] # {}
    /\ queue' = rkeep[k] /\ rkeep' = [rkeep EXCEPT ![k] = {}]
    /\ UNCHANGED <<senderVars, forwarding, toQueue, rload, rlate, confirmed,
                   ended, cutQueue, recipientVars, policy, faults, expired>>

Requeue(k) ==
    /\ rload[k] = {} /\ rkeep[k] # {}
    /\ \E rest \in Kept(rkeep[k], queue, MaxQueue) :
         /\ queue' = rest \cup queue
         /\ cutQueue' = cutQueue \cup (rkeep[k] \ rest)
    /\ rkeep' = [rkeep EXCEPT ![k] = {}]
    /\ UNCHANGED <<senderVars, forwarding, toQueue, rload, rlate, confirmed,
                   ended, recipientVars, policy, faults, expired>>

\* the relay's process ends and starts: its files are what it keeps
RelayExits ==
    /\ relayExits < MaxRelayExits /\ relayExits' = relayExits + 1
    /\ handling' = {} /\ courier' = {} /\ toQueue' = {}
    /\ rload' = [k \in Passes |-> {}] /\ rkeep' = [k \in Passes |-> {}]
    /\ UNCHANGED <<senderVars, seen, logged, addressed, queue, rlate, confirmed,
                   ended, cutQueue, recipientVars, policy, recipientExits, expired>>

-----------------------------------------------------------------------------
(* Admins and time.                                                        *)

SetTopic(members) ==
    /\ Policies /\ members # admitted
    /\ admitted' = members
    /\ UNCHANGED <<senderVars, forwarding, retrying, recipientVars, blocked,
                   faults, expired>>

Block(s) ==
    /\ Policies /\ s \notin blocked
    /\ blocked' = blocked \cup {s}
    /\ UNCHANGED <<senderVars, forwarding, retrying, recipientVars, admitted,
                   faults, expired>>

Expire(s) ==
    /\ s \notin expired /\ expired' = expired \cup {s}
    /\ UNCHANGED <<senderVars, forwarding, retrying, recipientVars, policy, faults>>

Answers == {"ok", "refused", "retry"}

Next ==
    \/ \E s \in Signals :
         \/ Release(s) \/ Enqueue(s) \/ Handle(s) \/ Block(s) \/ Expire(s)
         \/ \E a \in Answers : Send(s, a)
         \/ \E k \in Passes, a \in Answers : RetrySend(k, s, a)
    \/ \E k \in Passes : TakeOutbox(k) \/ PutBack(k) \/ TakeQueue(k) \/ Requeue(k)
    \/ \E d \in Deliveries :
         \/ CourierQueues(d) \/ Emit(d)
         \/ \E a \in Answers : CourierPosts(d, a)
         \/ \E k \in Passes, a \in Answers : Redeliver(k, d, a)
    \/ \E r \in Recipients : RecipientExits(r)
    \/ \E members \in SUBSET Recipients : SetTopic(members)
    \/ NodeExits \/ RelayExits

Spec == Init /\ [][Next]_vars

\* Threads run on and time passes.  Nobody has to ask for a pass.
Fairness ==
    /\ \A s \in Signals :
         /\ WF_vars(\E a \in Answers : Send(s, a))
         /\ WF_vars(Enqueue(s)) /\ WF_vars(Handle(s)) /\ WF_vars(Expire(s))
         /\ \A k \in Passes : WF_vars(\E a \in Answers : RetrySend(k, s, a))
    /\ WF_vars(TakeOutbox("loop")) /\ WF_vars(TakeQueue("loop"))
    /\ \A k \in Passes : WF_vars(PutBack(k)) /\ WF_vars(Requeue(k))
    /\ \A d \in Deliveries :
         /\ WF_vars(\E a \in Answers : CourierPosts(d, a))
         /\ WF_vars(CourierQueues(d)) /\ WF_vars(Emit(d))
         /\ \A k \in Passes : WF_vars(\E a \in Answers : Redeliver(k, d, a))

FairSpec == Spec /\ Fairness

-----------------------------------------------------------------------------
(* Properties                                                              *)

Apart(sets) ==
    \A i, j \in DOMAIN sets : i # j => sets[i] \cap sets[j] = {}

All(sets) == UNION {sets[i] : i \in DOMAIN sets}

SendPlaces ==
    <<{s \in Signals : thread[s] # "none"}, outbox, load["loop"], keep["loop"],
      load["request"], keep["request"], accepted, given, cutOutbox>>

DeliveryPlaces ==
    <<courier, toQueue, queue, rload["loop"], rkeep["loop"], rload["request"],
      rkeep["request"], confirmed, ended, cutQueue>>

\* A signal is in one hand: no second thread, row or pass sends it, and none
\* sends what was accepted or given up.  Sends, refusals, both passes and the
\* file move it about.
OneSend == Apart(SendPlaces)

\* While the process lives no signal is lost between thread, file and passes:
\* it is being sent, waiting, answered, expired, or fell off a full outbox.
NoSendForgotten == nodeExits = 0 => released = All(SendPlaces)

\* The same for the relay: publishing twice, or passes that overlap, do not give
\* a delivery a second courier or row.
OneRow == Apart(DeliveryPlaces)

\* The log names whom a signal was forwarded to.  While the relay lives each of
\* those is on its way, confirmed, ended by a row of the log, or fell off a full
\* queue.
NoDeliveryForgotten == relayExits = 0 => addressed = All(DeliveryPlaces)

\* A colleague sees only what the compliance log shows as forwarded to them.
DeliveredIsLogged ==
    \A d \in Deliveries : feed[d] > 0 => d[1] \in logged /\ d \in addressed

\* What the sender books as sent is in the log, or a handler is about to log
\* it; so a retry answered "duplicate" was not answered in vain.  Until the
\* relay's process ends (see AcceptedIsLogged).
AcceptedIsForwarded == relayExits = 0 => accepted \subseteq logged \cup handling

\* What the relay books as delivered is in the feed, or about to be.  Until a
\* recipient's process ends (see SeenWasAccepted).
ConfirmedIsShown ==
    recipientExits = 0 => \A d \in confirmed : feed[d] = 1 \/ d \in arriving

\* The fleet keeps its promise: only released signals are shown, once each.
Feed == INSTANCE SignalFeed WITH sent <- released, shown <- feed
KeepsFeed == Feed!FeedSpec

\* Every released signal is accepted, given up for a refusal or for age, or
\* falls off a full outbox.
EverySendSettles ==
    \A s \in Signals : s \in released ~> s \in accepted \cup given \cup cutOutbox

\* Every delivery the log promises is confirmed, gets its closing row, or falls
\* off a full queue.
EveryDeliverySettles ==
    \A d \in Deliveries : d \in addressed ~> d \in confirmed \cup ended \cup cutQueue

-----------------------------------------------------------------------------
(* What documents and comments say and the code does not do.               *)

\* relay.py:3 and relay_log.py:16: the log is what compliance reads, and it sees
\* attempts as well as deliveries.
AcceptedIsLogged == accepted \subseteq logged \cup handling

\* relay.py:18: a failed delivery is queued and retried; one that expires
\* undelivered is logged and dropped.
Retried == queue \cup UNION {rload[k] \cup rkeep[k] : k \in Passes}
UndeliveredIsLogged ==
    [][Retried \subseteq (Retried \cup confirmed \cup ended \cup cutQueue)']_vars

\* relay_client.py:10: a network failure queues the signal for retry.
QueuedIsRetried == \A s \in Signals : s \in outbox ~> s \notin outbox

\* dedup.py:11: `seen` holds the origin ids already accepted from the relay.
SeenWasAccepted == \A d \in marked : feed[d] = 1 \/ d \in arriving

\* fleet-federation.md: the blocked list names subjects that may never leave.
\* Here for signals that wait in the outbox when their subject is blocked.
BlockedStaysHome ==
    [][\A s \in outbox \cup load["loop"] \cup load["request"] :
         s \in blocked /\ s \notin seen => s \notin seen']_vars

\* topics.py:3: a node may receive from a topic only while it is a member and
\* its group admitted.  Here for deliveries that wait in the queue.
ReceivesOnlyAdmitted ==
    [][\A d \in rload["loop"] \cup rload["request"] :
         feed'[d] > feed[d] => d[2] \in admitted]_vars
=============================================================================
