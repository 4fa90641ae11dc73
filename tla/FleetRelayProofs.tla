-------------------------- MODULE FleetRelayProofs --------------------------
(***************************************************************************)
(* Proofs about FleetRelay, for all finite sets of signals and recipients, *)
(* all sizes of the two files and any number of exits.                     *)
(*                                                                         *)
(* The argument: a delivery exists only once it is in the log (ForwardOK), *)
(* a recipient's ledger is marked before the feed shows anything, and a    *)
(* marked delivery is emitted by the one handler that marked it (Shown).   *)
(* So the ledger, not the relay's bookkeeping, keeps the feed free of      *)
(* repetitions, whatever is queued twice or lost.                          *)
(***************************************************************************)
EXTENDS FleetRelay, TLAPS

\* the feed shows what is in the ledger and no longer in a handler's hands
Shown == \A d \in Deliveries : feed[d] = 1 => d \in marked /\ d \notin arriving

\* every mark is shown or about to be, while recipients live
Acked ==
    /\ confirmed \subseteq marked
    /\ recipientExits = 0 => \A d \in marked : feed[d] = 1 \/ d \in arriving

\* every mark of the relay is logged or about to be, while it lives
Booked ==
    /\ accepted \subseteq seen
    /\ relayExits = 0 => seen \subseteq logged \cup handling

IInv == TypeOK /\ Shown /\ Acked /\ Booked

-----------------------------------------------------------------------------
(* What the two POSTs do to the state they touch.                          *)

\* a publish keeps the relay's book in order and forgets nothing
LEMMA Published ==
    ASSUME NEW s \in released, NEW answer \in Answers,
           ForwardOK, WorldOK, Publish(s, answer), UNCHANGED <<released, admitted>>,
           relayExits = 0 => seen \subseteq logged \cup handling
    PROVE  /\ ForwardOK' /\ addressed \subseteq addressed' /\ seen \subseteq seen'
           /\ answer = "ok" => s \in seen'
           /\ relayExits = 0 => seen' \subseteq logged' \cup handling'
<1>1. CASE UNCHANGED forwarding /\ (answer = "ok" => s \in seen)
  BY <1>1 DEF ForwardOK, forwarding
<1>2. CASE /\ s \notin seen /\ seen' = seen \cup {s}
           /\ Log(s) /\ UNCHANGED handling
  BY <1>2 DEF ForwardOK, WorldOK, Log
<1>3. CASE /\ answer = "retry"
           /\ seen' = seen \cup {s} /\ handling' = handling \cup {s}
           /\ UNCHANGED <<logged, addressed, courier>>
  BY <1>3 DEF ForwardOK
<1> QED
  BY <1>1, <1>2, <1>3 DEF Publish, Unmoved

\* a delivery marks before it shows, and shows only what was unmarked
LEMMA Received ==
    ASSUME NEW d \in addressed, NEW answer \in Answers,
           ForwardOK, SenderOK, RecipientOK, Shown, Receive(d, answer),
           recipientExits = 0 => \A e \in marked : feed[e] = 1 \/ e \in arriving,
           UNCHANGED <<addressed, recipientExits>>
    PROVE  /\ RecipientOK' /\ Shown' /\ marked \subseteq marked'
           /\ answer = "ok" => d \in marked'
           /\ recipientExits = 0 =>
                \A e \in marked' : feed'[e] = 1 \/ e \in arriving'
<1> d \in Deliveries
  BY DEF ForwardOK, SenderOK, Deliveries
<1>1. CASE UNCHANGED recipientVars /\ (answer = "ok" => d \in marked)
  BY <1>1 DEF recipientVars, RecipientOK, Shown
<1>2. CASE /\ d \notin marked /\ marked' = marked \cup {d}
           /\ Show(d) /\ UNCHANGED arriving
  BY <1>2 DEF Show, RecipientOK, Shown
<1>3. CASE /\ d \notin marked /\ answer = "retry" /\ marked' = marked \cup {d}
           /\ arriving' = arriving \cup {d} /\ UNCHANGED feed
  BY <1>3 DEF RecipientOK, Shown
<1> QED
  BY <1>1, <1>2, <1>3 DEF Receive

LEMMA KeptIsOlder ==
    ASSUME NEW older, NEW newer, NEW max, NEW rest \in Kept(older, newer, max)
    PROVE  rest \subseteq older
BY DEF Kept

-----------------------------------------------------------------------------
(* Which part of the state each part of the invariant looks at.            *)

LEMMA SenderFrame == SenderOK /\ UNCHANGED senderVars => SenderOK'
BY DEF SenderOK, senderVars

LEMMA ForwardFrame ==
    ForwardOK /\ UNCHANGED forwarding /\ released \subseteq released' => ForwardOK'
BY DEF ForwardOK, forwarding

LEMMA RetryFrame ==
    RetryOK /\ UNCHANGED retrying /\ addressed \subseteq addressed' => RetryOK'
<1> SUFFICES ASSUME RetryOK, UNCHANGED retrying, addressed \subseteq addressed'
             PROVE  RetryOK'
  OBVIOUS
<1>1. /\ rload' \in [Passes -> SUBSET addressed']
      /\ rkeep' \in [Passes -> SUBSET addressed']
  BY DEF RetryOK, retrying
<1> QED
  BY <1>1 DEF RetryOK, retrying

LEMMA RecipientFrame ==
    RecipientOK /\ Shown /\ UNCHANGED recipientVars
      /\ addressed \subseteq addressed' => RecipientOK' /\ Shown'
BY DEF RecipientOK, Shown, recipientVars

LEMMA AckedFrame ==
    Acked /\ UNCHANGED <<recipientVars, confirmed, recipientExits>> => Acked'
BY DEF Acked, recipientVars

LEMMA BookedFrame ==
    Booked /\ UNCHANGED <<forwarding, accepted, relayExits>> => Booked'
BY DEF Booked, forwarding

LEMMA WorldFrame == WorldOK /\ UNCHANGED <<policy, faults, expired>> => WorldOK'
BY DEF WorldOK, policy, faults

-----------------------------------------------------------------------------
(* The steps, one lemma for each party.                                    *)

\* actions of the sender that post nothing
LEMMA SenderStep ==
    ASSUME IInv,
           \/ \E s \in Signals : Release(s) \/ Enqueue(s)
           \/ \E k \in Passes : TakeOutbox(k) \/ PutBack(k)
           \/ NodeExits
    PROVE  IInv'
<1>1. SenderOK'
  <2>1. ASSUME NEW s \in Signals, Release(s) PROVE SenderOK'
    BY <2>1 DEF Release, IInv, TypeOK, SenderOK
  <2>2. ASSUME NEW s \in Signals, Enqueue(s) PROVE SenderOK'
    <3> PICK rest \in Kept(outbox, {s}, MaxOutbox) :
          /\ outbox' = rest \cup {s}
          /\ cutOutbox' = cutOutbox \cup (outbox \ rest)
      BY <2>2 DEF Enqueue
    <3> rest \subseteq outbox /\ s \in released
      BY <2>2, KeptIsOlder DEF Enqueue, IInv, TypeOK, SenderOK
    <3> QED
      BY <2>2 DEF Enqueue, IInv, TypeOK, SenderOK
  <2>3. ASSUME NEW k \in Passes, TakeOutbox(k) PROVE SenderOK'
    BY <2>3 DEF TakeOutbox, IInv, TypeOK, SenderOK
  <2>4. ASSUME NEW k \in Passes, PutBack(k) PROVE SenderOK'
    <3> PICK rest \in Kept(keep[k], outbox, MaxOutbox) :
          /\ outbox' = rest \cup outbox
          /\ cutOutbox' = cutOutbox \cup (keep[k] \ rest)
      BY <2>4 DEF PutBack
    <3> rest \subseteq keep[k] /\ keep[k] \subseteq released
      BY KeptIsOlder DEF IInv, TypeOK, SenderOK
    <3> QED
      BY <2>4 DEF PutBack, IInv, TypeOK, SenderOK
  <2>5. CASE NodeExits
    <3>1. /\ load' \in [Passes -> SUBSET released]
          /\ keep' \in [Passes -> SUBSET released]
      BY <2>5 DEF NodeExits
    <3>2. /\ thread' \in [Signals -> {"none", "post", "queue"}]
          /\ \A s \in Signals : thread'[s] = "none"
      BY <2>5 DEF NodeExits
    <3>3. /\ UNCHANGED <<outbox, released, accepted, given, cutOutbox>>
          /\ nodeExits' = nodeExits + 1
      BY <2>5 DEF NodeExits
    <3>5. looping' \in BOOLEAN
      BY <2>5, Zenon DEF NodeExits
    <3>6. nodeExits' \in Nat
      BY <3>3 DEF IInv, TypeOK, SenderOK
    <3>4. /\ released \subseteq Signals /\ outbox \subseteq released
          /\ cutOutbox \subseteq released
          /\ accepted \subseteq released /\ given \subseteq released
      BY DEF IInv, TypeOK, SenderOK
    <3> QED
      BY <3>1, <3>2, <3>3, <3>4, <3>5, <3>6 DEF SenderOK
  <2> QED
    BY <2>1, <2>2, <2>3, <2>4, <2>5
<1>2. /\ released \subseteq released'
      /\ UNCHANGED <<forwarding, retrying, recipientVars, policy, faults, expired,
                     accepted>>
  BY DEF Release, Enqueue, TakeOutbox, PutBack, NodeExits
<1>3. UNCHANGED <<addressed, confirmed, relayExits, recipientExits>>
  BY <1>2 DEF forwarding, retrying, faults
<1> QED
  BY <1>1, <1>2, <1>3, ForwardFrame, RetryFrame, RecipientFrame, AckedFrame,
     BookedFrame, WorldFrame DEF IInv, TypeOK

\* a send or a retried send
LEMMA PostStep ==
    ASSUME IInv, NEW s \in Signals, NEW k \in Passes, NEW answer \in Answers,
           Send(s, answer) \/ RetrySend(k, s, answer)
    PROVE  IInv'
<1>1. /\ s \in released
      /\ Answered(s, answer) /\ Settle(s, answer)
      /\ UNCHANGED <<released, retrying, recipientVars, policy, faults, expired>>
  BY DEF Send, RetrySend, RetryAnswered, IInv, TypeOK, SenderOK
<1>2. UNCHANGED <<admitted, confirmed, relayExits, recipientExits>>
  BY <1>1 DEF retrying, policy, faults
<1>3. /\ ForwardOK' /\ addressed \subseteq addressed' /\ seen \subseteq seen'
      /\ answer = "ok" => s \in seen'
      /\ relayExits = 0 => seen' \subseteq logged' \cup handling'
  <2>1. CASE answer = "refused" /\ UNCHANGED forwarding
    BY <2>1, <1>1 DEF IInv, TypeOK, ForwardOK, Booked, forwarding
  <2>2. CASE Publish(s, answer)
    BY <2>2, <1>1, <1>2, Published DEF IInv, TypeOK, Booked
  <2> QED
    BY <1>1, <2>1, <2>2 DEF Answered
<1>4. SenderOK'
  <2>1. accepted' \subseteq released /\ given' \subseteq released
    BY <1>1 DEF Settle, IInv, TypeOK, SenderOK
  <2>2. CASE Send(s, answer)
    BY <2>1, <2>2, <1>1 DEF Send, IInv, TypeOK, SenderOK
  <2>3. CASE RetrySend(k, s, answer)
    BY <2>1, <2>3, <1>1 DEF RetrySend, IInv, TypeOK, SenderOK
  <2> QED
    BY <2>2, <2>3
<1>5. Booked'
  BY <1>1, <1>2, <1>3 DEF Booked, Settle, IInv
<1> QED
  BY <1>1, <1>2, <1>3, <1>4, <1>5, RetryFrame, RecipientFrame, AckedFrame,
     WorldFrame DEF IInv, TypeOK

\* the relay logs what it has marked
LEMMA HandleStep ==
    ASSUME IInv, NEW s \in Signals, Handle(s)
    PROVE  IInv'
<1>1. ForwardOK' /\ addressed \subseteq addressed' /\ Booked'
  BY DEF Handle, Log, IInv, TypeOK, ForwardOK, WorldOK, SenderOK, senderVars,
         policy, faults, Booked
<1>2. UNCHANGED <<senderVars, retrying, recipientVars, policy, faults, expired>>
  BY DEF Handle
<1>3. UNCHANGED <<confirmed, recipientExits>>
  BY <1>2 DEF retrying, faults
<1> QED
  BY <1>1, <1>2, <1>3, SenderFrame, RetryFrame, RecipientFrame, AckedFrame,
     WorldFrame DEF IInv, TypeOK

\* a courier's post or a post of a pass
LEMMA DeliverStep ==
    ASSUME IInv, NEW d \in Deliveries, NEW k \in Passes, NEW answer \in Answers,
           CourierPosts(d, answer) \/ Redeliver(k, d, answer)
    PROVE  IInv'
<1>1. /\ d \in addressed /\ Conclude(d, answer)
      /\ Receive(d, answer) \/ (answer = "refused" /\ UNCHANGED recipientVars)
      /\ UNCHANGED <<senderVars, seen, handling, logged, addressed, policy,
                     faults, expired>>
  BY DEF CourierPosts, Redeliver, Redelivered, IInv, TypeOK, ForwardOK, RetryOK,
         forwarding
<1>2. UNCHANGED <<released, accepted, relayExits, recipientExits>>
  BY <1>1 DEF senderVars, faults
<1>3. /\ RecipientOK' /\ Shown' /\ marked \subseteq marked'
      /\ answer = "ok" => d \in marked'
      /\ recipientExits = 0 => \A e \in marked' : feed'[e] = 1 \/ e \in arriving'
  <2>1. CASE answer = "refused" /\ UNCHANGED recipientVars
    <3>1. RecipientOK' /\ Shown'
      BY <2>1, <1>1, RecipientFrame DEF IInv, TypeOK
    <3> QED
      BY <2>1, <3>1 DEF IInv, Acked, recipientVars
  <2>2. CASE Receive(d, answer)
    BY <2>2, <1>1, <1>2, Received DEF IInv, TypeOK, Acked
  <2> QED
    BY <1>1, <2>1, <2>2
<1>4. ForwardOK'
  BY <1>1, <1>2 DEF CourierPosts, Redeliver, IInv, TypeOK, ForwardOK, forwarding
<1>5. RetryOK'
  <2>1. confirmed' \subseteq addressed /\ ended' \subseteq addressed
    BY <1>1 DEF Conclude, IInv, TypeOK, RetryOK
  <2>2. CASE CourierPosts(d, answer)
    BY <2>1, <2>2, <1>1 DEF CourierPosts, IInv, TypeOK, RetryOK
  <2>3. CASE Redeliver(k, d, answer)
    BY <2>1, <2>3, <1>1 DEF Redeliver, IInv, TypeOK, RetryOK
  <2> QED
    BY <2>2, <2>3
<1>6. Acked' /\ Booked'
  BY <1>1, <1>2, <1>3 DEF Acked, Booked, Conclude, IInv
<1> QED
  BY <1>1, <1>3, <1>4, <1>5, <1>6, SenderFrame, WorldFrame DEF IInv, TypeOK

\* actions on the relay's retry queue that post nothing
LEMMA QueueStep ==
    ASSUME IInv,
           \/ \E d \in Deliveries : CourierQueues(d)
           \/ \E k \in Passes : TakeQueue(k) \/ Requeue(k)
    PROVE  IInv'
<1>1. UNCHANGED <<senderVars, forwarding, confirmed, ended, recipientVars, policy,
                  faults, expired>>
  BY DEF CourierQueues, TakeQueue, Requeue
<1>2. UNCHANGED <<addressed, released, accepted, relayExits, recipientExits>>
  BY <1>1 DEF forwarding, senderVars, faults
<1>3. RetryOK'
  <2>1. ASSUME NEW d \in Deliveries, CourierQueues(d) PROVE RetryOK'
    <3> PICK rest \in Kept(queue, {d}, MaxQueue) :
          /\ queue' = rest \cup {d}
          /\ cutQueue' = cutQueue \cup (queue \ rest)
      BY <2>1 DEF CourierQueues
    <3> rest \subseteq queue /\ d \in addressed
      BY <2>1, KeptIsOlder DEF CourierQueues, IInv, TypeOK, RetryOK
    <3> QED
      BY <2>1, <1>2 DEF CourierQueues, IInv, TypeOK, RetryOK
  <2>2. ASSUME NEW k \in Passes, TakeQueue(k) PROVE RetryOK'
    <3>1. rlate' \in [Passes -> SUBSET Signals] /\ rload' \in [Passes -> SUBSET addressed]
      BY <2>2 DEF TakeQueue, IInv, TypeOK, RetryOK, WorldOK
    <3> QED
      BY <2>2, <1>2, <3>1 DEF TakeQueue, IInv, TypeOK, RetryOK
  <2>3. ASSUME NEW k \in Passes, Requeue(k) PROVE RetryOK'
    <3> PICK rest \in Kept(rkeep[k], queue, MaxQueue) :
          /\ queue' = rest \cup queue
          /\ cutQueue' = cutQueue \cup (rkeep[k] \ rest)
      BY <2>3 DEF Requeue
    <3> rest \subseteq rkeep[k] /\ rkeep[k] \subseteq addressed
      BY KeptIsOlder DEF IInv, TypeOK, RetryOK
    <3> QED
      BY <2>3, <1>2 DEF Requeue, IInv, TypeOK, RetryOK
  <2> QED
    BY <2>1, <2>2, <2>3
<1> QED
  BY <1>1, <1>2, <1>3, SenderFrame, ForwardFrame, RecipientFrame, AckedFrame,
     BookedFrame, WorldFrame DEF IInv, TypeOK

\* a recipient emits what it has marked
LEMMA EmitStep ==
    ASSUME IInv, NEW d \in Deliveries, Emit(d)
    PROVE  IInv'
<1>1. UNCHANGED <<senderVars, forwarding, retrying, policy, faults, expired>>
  BY DEF Emit
<1>2. UNCHANGED <<addressed, released, accepted, confirmed, relayExits, recipientExits>>
  BY <1>1 DEF forwarding, senderVars, retrying, faults
<1>3. feed[d] = 0
  BY DEF Emit, IInv, TypeOK, RecipientOK, Shown
<1>4. RecipientOK' /\ Shown'
  BY <1>2, <1>3 DEF Emit, Show, IInv, TypeOK, RecipientOK, Shown
<1>5. Acked'
  BY <1>2, <1>3 DEF Emit, Show, IInv, TypeOK, RecipientOK, Acked
<1> QED
  BY <1>1, <1>2, <1>4, <1>5, SenderFrame, ForwardFrame, RetryFrame, BookedFrame,
     WorldFrame DEF IInv, TypeOK

\* the other processes end
LEMMA ExitStep ==
    ASSUME IInv, (\E r \in Recipients : RecipientExits(r)) \/ RelayExits
    PROVE  IInv'
<1>1. ASSUME NEW r \in Recipients, RecipientExits(r) PROVE IInv'
  <2>1. UNCHANGED <<senderVars, forwarding, retrying, policy, relayExits, expired>>
    BY <1>1 DEF RecipientExits
  <2>2. UNCHANGED <<addressed, released, accepted, confirmed>>
    BY <2>1 DEF forwarding, senderVars, retrying
  <2>3. RecipientOK' /\ Shown'
    BY <1>1, <2>2 DEF RecipientExits, IInv, TypeOK, RecipientOK, Shown
  <2>4. Acked' /\ WorldOK'
    BY <1>1, <2>2 DEF RecipientExits, IInv, TypeOK, Acked, WorldOK, policy
  <2> QED
    BY <2>1, <2>2, <2>3, <2>4, SenderFrame, ForwardFrame, RetryFrame,
       BookedFrame DEF IInv, TypeOK
<1>2. CASE RelayExits
  <2>1. UNCHANGED <<senderVars, recipientVars, policy, recipientExits, expired,
                    confirmed, addressed>>
    BY <1>2 DEF RelayExits
  <2>2. ForwardOK' /\ RetryOK'
    BY <1>2 DEF RelayExits, IInv, TypeOK, ForwardOK, RetryOK, senderVars
  <2>3. Booked' /\ WorldOK'
    BY <1>2 DEF RelayExits, IInv, TypeOK, Booked, WorldOK, senderVars, policy
  <2> QED
    BY <2>1, <2>2, <2>3, SenderFrame, RecipientFrame, AckedFrame
    DEF IInv, TypeOK
<1> QED
  BY <1>1, <1>2

\* admins act and time passes
LEMMA WorldStep ==
    ASSUME IInv,
           \/ \E members \in SUBSET Recipients : SetTopic(members)
           \/ \E s \in Signals : Block(s) \/ Expire(s)
    PROVE  IInv'
<1>1. UNCHANGED <<senderVars, forwarding, retrying, recipientVars, faults>>
  BY DEF SetTopic, Block, Expire
<1>2. UNCHANGED <<addressed, released, accepted, confirmed, relayExits, recipientExits>>
  BY <1>1 DEF forwarding, senderVars, retrying, faults
<1>3. WorldOK'
  BY <1>2 DEF SetTopic, Block, Expire, IInv, TypeOK, WorldOK, policy, faults
<1> QED
  BY <1>1, <1>2, <1>3, SenderFrame, ForwardFrame, RetryFrame, RecipientFrame,
     AckedFrame, BookedFrame DEF IInv, TypeOK

LEMMA IInvStep == IInv /\ [Next]_vars => IInv'
<1> SUFFICES ASSUME IInv, [Next]_vars PROVE IInv'
  OBVIOUS
<1>1. CASE UNCHANGED vars
  <2>1. UNCHANGED <<senderVars, forwarding, retrying, recipientVars, policy, faults,
                    expired>>
    BY <1>1 DEF vars
  <2>2. UNCHANGED <<addressed, released, accepted, confirmed, relayExits, recipientExits>>
    BY <2>1 DEF forwarding, senderVars, retrying, faults
  <2> QED
    BY <2>1, <2>2, SenderFrame, ForwardFrame, RetryFrame, RecipientFrame,
       AckedFrame, BookedFrame, WorldFrame DEF IInv, TypeOK
<1>2. CASE Next
  <2> "loop" \in Passes
    BY DEF Passes
  <2>1. CASE \E s \in Signals :
               \/ Release(s) \/ Enqueue(s) \/ Handle(s) \/ Block(s) \/ Expire(s)
               \/ \E a \in Answers : Send(s, a)
               \/ \E k \in Passes, a \in Answers : RetrySend(k, s, a)
    <3> PICK s \in Signals :
               \/ Release(s) \/ Enqueue(s) \/ Handle(s) \/ Block(s) \/ Expire(s)
               \/ \E a \in Answers : Send(s, a)
               \/ \E k \in Passes, a \in Answers : RetrySend(k, s, a)
      BY <2>1
    <3>1. CASE Release(s) \/ Enqueue(s)
      BY <3>1, SenderStep
    <3>2. CASE Handle(s)
      BY <3>2, HandleStep
    <3>3. CASE Block(s) \/ Expire(s)
      BY <3>3, WorldStep
    <3>4. ASSUME NEW a \in Answers, Send(s, a) PROVE IInv'
      BY <3>4, PostStep
    <3>5. ASSUME NEW k \in Passes, NEW a \in Answers, RetrySend(k, s, a)
          PROVE  IInv'
      BY <3>5, PostStep
    <3> QED
      BY <3>1, <3>2, <3>3, <3>4, <3>5
  <2>2. CASE \E k \in Passes :
               TakeOutbox(k) \/ PutBack(k) \/ TakeQueue(k) \/ Requeue(k)
    BY <2>2, SenderStep, QueueStep
  <2>3. CASE \E d \in Deliveries :
               \/ CourierQueues(d) \/ Emit(d)
               \/ \E a \in Answers : CourierPosts(d, a)
               \/ \E k \in Passes, a \in Answers : Redeliver(k, d, a)
    <3>1. ASSUME NEW d \in Deliveries, CourierQueues(d) \/ Emit(d) PROVE IInv'
      BY <3>1, QueueStep, EmitStep
    <3>2. ASSUME NEW d \in Deliveries, NEW k \in Passes, NEW a \in Answers,
                 CourierPosts(d, a) \/ Redeliver(k, d, a)
          PROVE  IInv'
      BY <3>2, DeliverStep
    <3> QED
      BY <2>3, <3>1, <3>2
  <2>4. CASE \/ \E r \in Recipients : RecipientExits(r)
             \/ RelayExits
    BY <2>4, ExitStep
  <2>5. CASE NodeExits
    BY <2>5, SenderStep
  <2>6. CASE \E members \in SUBSET Recipients : SetTopic(members)
    BY <2>6, WorldStep
  <2> QED
    BY <1>2, <2>1, <2>2, <2>3, <2>4, <2>5, <2>6 DEF Next
<1> QED
  BY <1>1, <1>2

LEMMA IInvInit == Init => IInv
<1> SUFFICES ASSUME Init PROVE IInv
  OBVIOUS
<1>1. SenderOK /\ WorldOK
  BY DEF Init, SenderOK, WorldOK
<1>2. ForwardOK /\ RetryOK /\ RecipientOK
  BY DEF Init, ForwardOK, RetryOK, RecipientOK
<1>3. Shown /\ Acked /\ Booked
  BY DEF Init, Shown, Acked, Booked
<1> QED
  BY <1>1, <1>2, <1>3 DEF IInv, TypeOK

THEOREM Inductive == Spec => []IInv
BY IInvInit, IInvStep, PTL DEF Spec

-----------------------------------------------------------------------------
(* What follows.                                                           *)

\* Every row, thread and pass is about a released signal, and every mark,
\* queue and book of the relay about a logged delivery.
THEOREM TypeCorrect == Spec => []TypeOK
BY Inductive, PTL DEF IInv

\* No feed shows what the chained log does not show as forwarded to that
\* colleague, whatever was lost, retried or restarted.
THEOREM DeliveredLogged == Spec => []DeliveredIsLogged
<1>1. IInv => DeliveredIsLogged
  BY DEF IInv, TypeOK, RecipientOK, ForwardOK, Shown, DeliveredIsLogged, Deliveries
<1> QED
  BY <1>1, Inductive, PTL

\* Until the relay's process ends, what the sender booked as sent is logged or
\* in the hands of a handler that will log it.
THEOREM AcceptedForwarded == Spec => []AcceptedIsForwarded
<1>1. IInv => AcceptedIsForwarded
  BY DEF IInv, Booked, AcceptedIsForwarded
<1> QED
  BY <1>1, Inductive, PTL

\* Until a recipient's process ends, what the relay booked as delivered is in
\* the feed or in the hands of a handler that will emit it.
THEOREM ConfirmedShown == Spec => []ConfirmedIsShown
<1>1. IInv => ConfirmedIsShown
  BY DEF IInv, Acked, ConfirmedIsShown
<1> QED
  BY <1>1, Inductive, PTL

-----------------------------------------------------------------------------
(* The fleet implements SignalFeed.                                        *)

LEMMA ShowIsShown ==
    ASSUME IInv, NEW d \in addressed, d \notin marked \/ d \in arriving, Show(d),
           UNCHANGED released
    PROVE  Feed!Show(d)
<1>1. d \in Deliveries /\ d[1] \in released
  BY DEF IInv, TypeOK, ForwardOK, SenderOK, Deliveries
<1>2. feed[d] = 0
  BY <1>1 DEF IInv, TypeOK, RecipientOK, Shown
<1> QED
  BY <1>1, <1>2 DEF Show, Feed!Show, IInv, TypeOK, RecipientOK

LEMMA ReceiveIsShown ==
    ASSUME IInv, NEW d \in addressed, NEW answer \in Answers, Receive(d, answer),
           UNCHANGED released
    PROVE  [Feed!FeedNext]_Feed!feedVars
<1>1. d \in Signals \X Recipients
  BY DEF IInv, TypeOK, ForwardOK, SenderOK
<1>2. CASE UNCHANGED feed
  BY <1>2 DEF Feed!feedVars
<1>3. CASE d \notin marked /\ Show(d)
  BY <1>1, <1>3, ShowIsShown DEF Feed!FeedNext
<1> QED
  BY <1>2, <1>3 DEF Receive, recipientVars

LEMMA FeedStep == IInv /\ [Next]_vars => [Feed!FeedNext]_Feed!feedVars
<1> SUFFICES ASSUME IInv, [Next]_vars PROVE [Feed!FeedNext]_Feed!feedVars
  OBVIOUS
<1>1. ASSUME NEW s \in Signals, Release(s) PROVE Feed!FeedNext
  BY <1>1 DEF Release, recipientVars, Feed!FeedNext, Feed!LetGo
<1>2. ASSUME NEW d \in Deliveries, Emit(d) PROVE Feed!FeedNext
  <2>1. d \in addressed /\ d \in arriving /\ Show(d) /\ UNCHANGED released
    BY <1>2 DEF Emit, senderVars, IInv, TypeOK, RecipientOK
  <2> QED
    BY <2>1, ShowIsShown DEF Feed!FeedNext, Deliveries
<1>3. ASSUME NEW d \in Deliveries, NEW k \in Passes, NEW answer \in Answers,
             CourierPosts(d, answer) \/ Redeliver(k, d, answer)
      PROVE  [Feed!FeedNext]_Feed!feedVars
  <2>1. /\ d \in addressed /\ UNCHANGED released
        /\ Receive(d, answer) \/ UNCHANGED recipientVars
    BY <1>3 DEF CourierPosts, Redeliver, Redelivered, senderVars, IInv, TypeOK,
                ForwardOK, RetryOK
  <2> QED
    BY <2>1, ReceiveIsShown DEF recipientVars, Feed!feedVars
<1>4. CASE UNCHANGED <<released, feed>>
  BY <1>4 DEF Feed!feedVars
<1>5. CASE UNCHANGED vars
  BY <1>4, <1>5 DEF vars, senderVars, recipientVars
<1>6. CASE Next
  <2>1. ASSUME NEW s \in Signals,
               \/ Enqueue(s) \/ Handle(s) \/ Block(s) \/ Expire(s)
               \/ \E a \in Answers : Send(s, a)
               \/ \E k \in Passes, a \in Answers : RetrySend(k, s, a)
        PROVE  UNCHANGED <<released, feed>>
    BY <2>1 DEF Enqueue, Handle, Block, Expire, Send, RetrySend, senderVars,
                recipientVars
  <2>2. ASSUME NEW k \in Passes,
               TakeOutbox(k) \/ PutBack(k) \/ TakeQueue(k) \/ Requeue(k)
        PROVE  UNCHANGED <<released, feed>>
    BY <2>2 DEF TakeOutbox, PutBack, TakeQueue, Requeue, senderVars, recipientVars
  <2>3. ASSUME NEW d \in Deliveries, CourierQueues(d)
        PROVE  UNCHANGED <<released, feed>>
    BY <2>3 DEF CourierQueues, senderVars, recipientVars
  <2>4. ASSUME \/ \E r \in Recipients : RecipientExits(r)
               \/ \E members \in SUBSET Recipients : SetTopic(members)
               \/ NodeExits \/ RelayExits
        PROVE  UNCHANGED <<released, feed>>
    BY <2>4 DEF RecipientExits, SetTopic, NodeExits, RelayExits, senderVars,
                recipientVars
  <2>5. CASE \E s \in Signals :
               \/ Release(s) \/ Enqueue(s) \/ Handle(s) \/ Block(s) \/ Expire(s)
               \/ \E a \in Answers : Send(s, a)
               \/ \E k \in Passes, a \in Answers : RetrySend(k, s, a)
    BY <2>5, <1>1, <1>4, <2>1
  <2>6. CASE \E d \in Deliveries :
               \/ CourierQueues(d) \/ Emit(d)
               \/ \E a \in Answers : CourierPosts(d, a)
               \/ \E k \in Passes, a \in Answers : Redeliver(k, d, a)
    <3> "loop" \in Passes
      BY DEF Passes
    <3> QED
      BY <2>6, <1>2, <1>3, <1>4, <2>3
  <2> QED
    BY <1>4, <1>6, <2>2, <2>4, <2>5, <2>6 DEF Next
<1> QED
  BY <1>5, <1>6

\* Only released signals are shown and none twice in a feed: outboxes, relay,
\* restarts and duplicate posts implement the plain promise of SignalFeed.
THEOREM Implements == Spec => KeepsFeed
<1>1. Init => Feed!FeedInit
  BY DEF Init, Feed!FeedInit, Deliveries
<1> QED
  BY <1>1, FeedStep, Inductive, PTL DEF Spec, KeepsFeed, Feed!FeedSpec
=============================================================================
