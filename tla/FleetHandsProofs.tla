-------------------------- MODULE FleetHandsProofs --------------------------
(***************************************************************************)
(* Proofs about the rows of FleetRelay: a signal is in one hand at the     *)
(* sender, a delivery in one hand at the relay, and none is dropped while  *)
(* the process lives.                                                      *)
(*                                                                         *)
(* The hands of a side are a sequence of disjoint sets.  Each action adds  *)
(* to one of them something new to all (Release, Log), moves a part of one *)
(* to another, or, when a process ends, empties some.                      *)
(***************************************************************************)
EXTENDS FleetRelayProofs

\* g is f with X moved from i to j
MovedTo(f, g, i, j, X) ==
    /\ DOMAIN g = DOMAIN f
    /\ i \in DOMAIN f /\ j \in DOMAIN f /\ i # j
    /\ X \subseteq f[i]
    /\ g[i] = f[i] \ X /\ g[j] = f[j] \cup X
    /\ \A k \in DOMAIN f \ {i, j} : g[k] = f[k]

\* g is f with X added to i
AddedTo(f, g, i, X) ==
    /\ DOMAIN g = DOMAIN f /\ i \in DOMAIN f
    /\ g[i] = f[i] \cup X
    /\ \A k \in DOMAIN f \ {i} : g[k] = f[k]

\* X moved from i to j in the sequence f
Move(f, i, j, X) == [f EXCEPT ![i] = @ \ X, ![j] = @ \cup X]

-----------------------------------------------------------------------------
(* Moving, adding and dropping keep hands apart.                           *)

LEMMA InAll ==
    ASSUME NEW f, NEW x
    PROVE  x \in All(f) <=> \E k \in DOMAIN f : x \in f[k]
BY DEF All

LEMMA MovedApart ==
    ASSUME NEW f, NEW g, NEW i, NEW j, NEW X, MovedTo(f, g, i, j, X), Apart(f)
    PROVE  Apart(g) /\ All(g) = All(f)
<1>1. Apart(g)
  BY DEF MovedTo, Apart
<1>2. ASSUME NEW x PROVE x \in All(g) <=> x \in All(f)
  <2>1. (\E k \in DOMAIN f : x \in g[k]) <=> (\E k \in DOMAIN f : x \in f[k])
    BY DEF MovedTo
  <2> QED
    BY <2>1, InAll DEF MovedTo
<1> QED
  BY <1>1, <1>2

LEMMA MoveMoves ==
    ASSUME NEW f, NEW i \in DOMAIN f, NEW j \in DOMAIN f, i # j,
           NEW X \in SUBSET f[i]
    PROVE  MovedTo(f, Move(f, i, j, X), i, j, X)
BY DEF Move, MovedTo

LEMMA AddedApart ==
    ASSUME NEW f, NEW g, NEW i, NEW X, AddedTo(f, g, i, X), Apart(f),
           X \cap All(f) = {}
    PROVE  Apart(g) /\ All(g) = All(f) \cup X
<1>1. Apart(g)
  <2>1. \A k \in DOMAIN f : X \cap f[k] = {}
    BY InAll
  <2> QED
    BY <2>1 DEF AddedTo, Apart
<1>2. ASSUME NEW x PROVE x \in All(g) <=> x \in All(f) \cup X
  <2>1. (\E k \in DOMAIN f : x \in g[k])
          <=> (x \in X \/ \E k \in DOMAIN f : x \in f[k])
    BY DEF AddedTo
  <2> QED
    BY <2>1, InAll DEF AddedTo
<1> QED
  BY <1>1, <1>2

LEMMA FewerApart ==
    ASSUME NEW f, NEW g, DOMAIN g = DOMAIN f, Apart(f),
           \A k \in DOMAIN f : g[k] \subseteq f[k]
    PROVE  Apart(g)
BY DEF Apart

LEMMA SameApart ==
    ASSUME NEW f, NEW g, DOMAIN g = DOMAIN f, Apart(f),
           \A k \in DOMAIN f : g[k] = f[k]
    PROVE  Apart(g) /\ All(g) = All(f)
<1>1. Apart(g)
  BY DEF Apart
<1>2. ASSUME NEW x PROVE x \in All(g) <=> x \in All(f)
  BY InAll
<1> QED
  BY <1>1, <1>2

-----------------------------------------------------------------------------
(* The sender's hands.                                                     *)

LEMMA SendHands ==
    /\ DOMAIN SendPlaces = 1..9
    /\ SendPlaces[1] = {s \in Signals : thread[s] # "none"}
    /\ SendPlaces[2] = outbox
    /\ SendPlaces[3] = load["loop"] /\ SendPlaces[4] = keep["loop"]
    /\ SendPlaces[5] = load["request"] /\ SendPlaces[6] = keep["request"]
    /\ SendPlaces[7] = accepted /\ SendPlaces[8] = given
    /\ SendPlaces[9] = cutOutbox
BY DEF SendPlaces

LEMMA SendHandsNext ==
    /\ DOMAIN SendPlaces' = 1..9
    /\ SendPlaces'[1] = {s \in Signals : thread'[s] # "none"}
    /\ SendPlaces'[2] = outbox'
    /\ SendPlaces'[3] = load'["loop"] /\ SendPlaces'[4] = keep'["loop"]
    /\ SendPlaces'[5] = load'["request"] /\ SendPlaces'[6] = keep'["request"]
    /\ SendPlaces'[7] = accepted' /\ SendPlaces'[8] = given'
    /\ SendPlaces'[9] = cutOutbox'
BY DEF SendPlaces

\* the places of a pass's rows to do and rows to put back
LoadPlace(k) == IF k = "loop" THEN 3 ELSE 5
KeepPlace(k) == IF k = "loop" THEN 4 ELSE 6

LEMMA PassHands ==
    ASSUME NEW k \in Passes
    PROVE  /\ SendPlaces[LoadPlace(k)] = load[k]
           /\ SendPlaces[KeepPlace(k)] = keep[k]
           /\ LoadPlace(k) \in {3, 5} /\ KeepPlace(k) \in {4, 6}
BY SendHands DEF LoadPlace, KeepPlace, Passes

SendInv == OneSend /\ NoSendForgotten

LEMMA SendMoved ==
    ASSUME SendInv, NEW i, NEW j, NEW X,
           MovedTo(SendPlaces, SendPlaces', i, j, X),
           UNCHANGED <<released, nodeExits>>
    PROVE  SendInv'
<1>1. Apart(SendPlaces') /\ All(SendPlaces') = All(SendPlaces)
  BY MovedApart DEF SendInv, OneSend
<1> QED
  BY <1>1 DEF SendInv, OneSend, NoSendForgotten

LEMMA SendUnmoved ==
    ASSUME SendInv, UNCHANGED <<outbox, load, keep, accepted, given, cutOutbox,
                                released, nodeExits>>,
           \A s \in Signals : thread'[s] # "none" <=> thread[s] # "none"
    PROVE  SendInv'
<1>1. \A i \in DOMAIN SendPlaces : SendPlaces'[i] = SendPlaces[i]
  BY SendHands, SendHandsNext
<1>2. Apart(SendPlaces') /\ All(SendPlaces') = All(SendPlaces)
  BY <1>1, SendHands, SendHandsNext, SameApart DEF SendInv, OneSend
<1> QED
  BY <1>2 DEF SendInv, OneSend, NoSendForgotten

LEMMA HeldReleased == SenderOK => All(SendPlaces) \subseteq released
<1> SUFFICES ASSUME SenderOK, NEW i \in DOMAIN SendPlaces
             PROVE  SendPlaces[i] \subseteq released
  BY InAll
<1> QED
  BY SendHands DEF SenderOK, Passes

LEMMA ReleaseKeeps ==
    ASSUME SenderOK, SendInv, NEW s \in Signals, Release(s)
    PROVE  SendInv'
<1>1. AddedTo(SendPlaces, SendPlaces', 1, {s})
  <2>1. SendPlaces'[1] = SendPlaces[1] \cup {s}
    BY SendHands, SendHandsNext DEF Release, SenderOK
  <2>2. \A k \in DOMAIN SendPlaces \ {1} : SendPlaces'[k] = SendPlaces[k]
    BY SendHands, SendHandsNext DEF Release
  <2> QED
    BY <2>1, <2>2, SendHands, SendHandsNext DEF AddedTo
<1>2. {s} \cap All(SendPlaces) = {}
  BY HeldReleased DEF Release
<1>3. Apart(SendPlaces') /\ All(SendPlaces') = All(SendPlaces) \cup {s}
  BY <1>1, <1>2, AddedApart DEF SendInv, OneSend
<1> QED
  BY <1>3 DEF SendInv, OneSend, NoSendForgotten, Release

LEMMA SendKeeps ==
    ASSUME SenderOK, SendInv, NEW s \in Signals, NEW answer \in Answers,
           Send(s, answer)
    PROVE  SendInv'
<1>1. UNCHANGED <<released, nodeExits, outbox, load, keep, cutOutbox>>
      /\ Settle(s, answer)
  BY DEF Send
<1>2. CASE answer = "retry"
  BY <1>1, <1>2, SendUnmoved DEF Send, Settle, SenderOK
<1>3. CASE answer # "retry"
  <2> DEFINE j == IF answer = "ok" THEN 7 ELSE 8
  <2>1. SendPlaces'[1] = SendPlaces[1] \ {s} /\ {s} \subseteq SendPlaces[1]
    BY <1>3, SendHands, SendHandsNext DEF Send, SenderOK
  <2>2. SendPlaces'[j] = SendPlaces[j] \cup {s}
    BY <1>1, <1>3, SendHands, SendHandsNext DEF Settle, Answers
  <2>3. \A k \in DOMAIN SendPlaces \ {1, j} : SendPlaces'[k] = SendPlaces[k]
    BY <1>1, <1>3, SendHands, SendHandsNext DEF Settle, Answers
  <2>4. MovedTo(SendPlaces, SendPlaces', 1, j, {s})
    BY <2>1, <2>2, <2>3, SendHands, SendHandsNext DEF MovedTo
  <2> QED
    BY <1>1, <2>4, SendMoved
<1> QED
  BY <1>2, <1>3

LEMMA EnqueueKeeps ==
    ASSUME SenderOK, SendInv, NEW s \in Signals, Enqueue(s)
    PROVE  SendInv'
<1> PICK rest \in Kept(outbox, {s}, MaxOutbox) :
      outbox' = rest \cup {s} /\ cutOutbox' = cutOutbox \cup (outbox \ rest)
  BY DEF Enqueue
<1> DEFINE h == Move(SendPlaces, 1, 2, {s})
<1>1. rest \subseteq outbox
  BY KeptIsOlder
<1>2. {s} \subseteq SendPlaces[1] /\ s \notin outbox
  BY SendHands DEF Enqueue, SendInv, OneSend, Apart
<1>3. MovedTo(SendPlaces, h, 1, 2, {s})
  BY <1>2, SendHands, MoveMoves
<1>4. Apart(h) /\ All(h) = All(SendPlaces)
  BY <1>3, MovedApart DEF SendInv, OneSend
<1> HIDE DEF h
<1>5. MovedTo(h, SendPlaces', 2, 9, outbox \ rest)
  <2>1. h[2] = outbox \cup {s} /\ h[9] = cutOutbox /\ DOMAIN h = 1..9
        /\ h[1] = SendPlaces[1] \ {s}
        /\ \A k \in (1..9) \ {1, 2} : h[k] = SendPlaces[k]
    BY <1>3, SendHands DEF MovedTo
  <2>2. SendPlaces'[2] = h[2] \ (outbox \ rest)
    BY <1>1, <1>2, <2>1, SendHandsNext
  <2>3. SendPlaces'[9] = h[9] \cup (outbox \ rest)
    BY <2>1, SendHandsNext
  <2>4. SendPlaces'[1] = h[1]
    BY <2>1, SendHands, SendHandsNext DEF Enqueue, SenderOK
  <2>5. \A k \in (1..9) \ {1, 2, 9} : SendPlaces'[k] = h[k]
    BY <2>1, SendHands, SendHandsNext DEF Enqueue
  <2> QED
    BY <2>1, <2>2, <2>3, <2>4, <2>5, SendHandsNext DEF MovedTo
<1>6. Apart(SendPlaces') /\ All(SendPlaces') = All(SendPlaces)
  BY <1>4, <1>5, MovedApart
<1> QED
  BY <1>6 DEF SendInv, OneSend, NoSendForgotten, Enqueue

LEMMA TakeOutboxKeeps ==
    ASSUME SenderOK, SendInv, NEW k \in Passes, TakeOutbox(k)
    PROVE  SendInv'
<1>1. /\ outbox' = {} /\ load'[k] = outbox /\ load[k] = {}
      /\ \A p \in Passes \ {k} : load'[p] = load[p]
      /\ UNCHANGED <<thread, keep, accepted, given, cutOutbox, released, nodeExits>>
  BY DEF TakeOutbox, SenderOK
<1>2. MovedTo(SendPlaces, SendPlaces', 2, LoadPlace(k), outbox)
  <2>1. SendPlaces'[2] = SendPlaces[2] \ outbox
    BY <1>1, SendHands, SendHandsNext
  <2>2. SendPlaces'[LoadPlace(k)] = SendPlaces[LoadPlace(k)] \cup outbox
    BY <1>1, SendHands, SendHandsNext DEF LoadPlace, Passes
  <2>3. \A i \in DOMAIN SendPlaces \ {2, LoadPlace(k)} :
           SendPlaces'[i] = SendPlaces[i]
    BY <1>1, SendHands, SendHandsNext DEF LoadPlace, Passes
  <2> QED
    BY <2>1, <2>2, <2>3, PassHands, SendHands, SendHandsNext DEF MovedTo
<1> QED
  BY <1>1, <1>2, SendMoved

LEMMA RetrySendKeeps ==
    ASSUME SenderOK, SendInv, NEW k \in Passes, NEW s \in Signals,
           NEW answer \in Answers, RetrySend(k, s, answer)
    PROVE  SendInv'
<1> DEFINE j == IF answer = "ok" THEN 7
                ELSE IF answer = "refused" THEN 8 ELSE KeepPlace(k)
<1>1. /\ s \in load[k] /\ load'[k] = load[k] \ {s}
      /\ \A p \in Passes \ {k} : load'[p] = load[p] /\ keep'[p] = keep[p]
      /\ keep'[k] = IF answer = "retry" THEN keep[k] \cup {s} ELSE keep[k]
      /\ Settle(s, answer)
      /\ UNCHANGED <<thread, outbox, cutOutbox, released, nodeExits>>
  BY DEF RetrySend, SenderOK
<1>2. MovedTo(SendPlaces, SendPlaces', LoadPlace(k), j, {s})
  <2>1. SendPlaces'[LoadPlace(k)] = SendPlaces[LoadPlace(k)] \ {s}
    BY <1>1, SendHands, SendHandsNext DEF LoadPlace, Passes
  <2>2. SendPlaces'[j] = SendPlaces[j] \cup {s}
    BY <1>1, SendHands, SendHandsNext DEF KeepPlace, Passes, Settle, Answers
  <2>3. \A i \in DOMAIN SendPlaces \ {LoadPlace(k), j} :
           SendPlaces'[i] = SendPlaces[i]
    BY <1>1, SendHands, SendHandsNext
    DEF LoadPlace, KeepPlace, Passes, Settle, Answers
  <2> QED
    BY <1>1, <2>1, <2>2, <2>3, PassHands, SendHands, SendHandsNext DEF MovedTo
<1> QED
  BY <1>1, <1>2, SendMoved

LEMMA PutBackKeeps ==
    ASSUME SenderOK, SendInv, NEW k \in Passes, PutBack(k)
    PROVE  SendInv'
<1> PICK rest \in Kept(keep[k], outbox, MaxOutbox) :
      outbox' = rest \cup outbox /\ cutOutbox' = cutOutbox \cup (keep[k] \ rest)
  BY DEF PutBack
<1> DEFINE h == Move(SendPlaces, KeepPlace(k), 2, rest)
<1>1. /\ rest \subseteq keep[k] /\ keep'[k] = {}
      /\ \A p \in Passes \ {k} : keep'[p] = keep[p]
      /\ UNCHANGED <<thread, load, accepted, given, released, nodeExits>>
  BY KeptIsOlder DEF PutBack, SenderOK
<1>2. MovedTo(SendPlaces, h, KeepPlace(k), 2, rest)
  BY <1>1, SendHands, PassHands, MoveMoves
<1>3. Apart(h) /\ All(h) = All(SendPlaces)
  BY <1>2, MovedApart DEF SendInv, OneSend
<1> HIDE DEF h
<1>4. MovedTo(h, SendPlaces', KeepPlace(k), 9, keep[k] \ rest)
  <2>1. /\ h[KeepPlace(k)] = keep[k] \ rest /\ h[2] = outbox \cup rest
        /\ DOMAIN h = 1..9
        /\ \A i \in (1..9) \ {KeepPlace(k), 2} : h[i] = SendPlaces[i]
    BY <1>2, SendHands, PassHands DEF MovedTo
  <2>2. SendPlaces'[KeepPlace(k)] = {} /\ SendPlaces'[2] = h[2]
    BY <1>1, <2>1, SendHandsNext DEF KeepPlace, Passes
  <2>3. SendPlaces'[9] = h[9] \cup (keep[k] \ rest)
    BY <2>1, SendHands, SendHandsNext, PassHands
  <2>4. \A i \in (1..9) \ {KeepPlace(k), 2, 9} : SendPlaces'[i] = h[i]
    BY <1>1, <2>1, SendHands, SendHandsNext, SMTT(30) DEF KeepPlace, Passes
  <2> QED
    BY <2>1, <2>2, <2>3, <2>4, PassHands, SendHandsNext, SMTT(30) DEF MovedTo
<1>5. Apart(SendPlaces') /\ All(SendPlaces') = All(SendPlaces)
  BY <1>3, <1>4, MovedApart
<1> QED
  BY <1>1, <1>5 DEF SendInv, OneSend, NoSendForgotten

LEMMA NodeExitsKeeps ==
    ASSUME SenderOK, SendInv, NodeExits
    PROVE  SendInv'
<1>1. \A i \in DOMAIN SendPlaces : SendPlaces'[i] \subseteq SendPlaces[i]
  BY SendHands, SendHandsNext DEF NodeExits, Passes
<1>2. Apart(SendPlaces')
  BY <1>1, SendHands, SendHandsNext, FewerApart DEF SendInv, OneSend
<1>3. nodeExits' # 0
  BY DEF NodeExits, SenderOK
<1> QED
  BY <1>2, <1>3 DEF SendInv, OneSend, NoSendForgotten

LEMMA SendInvStep == SenderOK /\ SendInv /\ [Next]_vars => SendInv'
<1> SUFFICES ASSUME SenderOK, SendInv, [Next]_vars PROVE SendInv'
  OBVIOUS
<1>1. ASSUME NEW s \in Signals, Release(s) \/ Enqueue(s) PROVE SendInv'
  BY <1>1, ReleaseKeeps, EnqueueKeeps
<1>2. ASSUME NEW s \in Signals, NEW a \in Answers, Send(s, a) PROVE SendInv'
  BY <1>2, SendKeeps
<1>3. ASSUME NEW s \in Signals, NEW k \in Passes, NEW a \in Answers,
             RetrySend(k, s, a)
      PROVE  SendInv'
  BY <1>3, RetrySendKeeps
<1>4. ASSUME NEW k \in Passes, TakeOutbox(k) \/ PutBack(k) PROVE SendInv'
  BY <1>4, TakeOutboxKeeps, PutBackKeeps
<1>5. CASE NodeExits
  BY <1>5, NodeExitsKeeps
<1>6. CASE UNCHANGED senderVars
  BY <1>6, SendUnmoved DEF senderVars
<1>7. ASSUME NEW s \in Signals, Handle(s) \/ Block(s) \/ Expire(s)
      PROVE  UNCHANGED senderVars
  BY <1>7 DEF Handle, Block, Expire
<1>8. ASSUME NEW k \in Passes, TakeQueue(k) \/ Requeue(k)
      PROVE  UNCHANGED senderVars
  BY <1>8 DEF TakeQueue, Requeue
<1>9. ASSUME NEW d \in Deliveries,
             \/ CourierQueues(d) \/ Emit(d)
             \/ \E a \in Answers : CourierPosts(d, a)
             \/ \E k \in Passes, a \in Answers : Redeliver(k, d, a)
      PROVE  UNCHANGED senderVars
  BY <1>9 DEF CourierQueues, Emit, CourierPosts, Redeliver
<1>10. ASSUME \/ \E r \in Recipients : RecipientExits(r)
              \/ \E members \in SUBSET Recipients : SetTopic(members)
              \/ RelayExits
       PROVE  UNCHANGED senderVars
  BY <1>10 DEF RecipientExits, SetTopic, RelayExits
<1> QED
  BY <1>1, <1>2, <1>3, <1>4, <1>5, <1>6, <1>7, <1>8, <1>9, <1>10 DEF Next, vars

LEMMA SendInvInit == Init => SendInv
<1> SUFFICES ASSUME Init PROVE SendInv
  OBVIOUS
<1>1. \A i \in DOMAIN SendPlaces : SendPlaces[i] = {}
  BY SendHands DEF Init, Passes
<1>2. All(SendPlaces) = {}
  BY <1>1, InAll
<1> QED
  BY <1>1, <1>2 DEF SendInv, OneSend, NoSendForgotten, Apart, Init

LEMMA SendInvHolds == Spec => []SendInv
<1>1. SenderOK /\ SendInv /\ [Next]_vars => SendInv'
  BY SendInvStep
<1>2. IInv => SenderOK
  BY DEF IInv, TypeOK
<1> QED
  BY <1>1, <1>2, SendInvInit, Inductive, PTL DEF Spec

\* A signal is in one hand: sent by one thread, kept in one row, of the file
\* or of one pass, accepted, given up or cut (relay_client.py's outbox).
THEOREM OneSendHolds == Spec => []OneSend
<1>1. SendInv => OneSend
  BY DEF SendInv
<1> QED
  BY <1>1, SendInvHolds, PTL

\* While the Sparrow's process lives, the outbox and its passes lose no
\* signal, other than off the end of a full file.
THEOREM NoSendForgottenHolds == Spec => []NoSendForgotten
<1>1. SendInv => NoSendForgotten
  BY DEF SendInv
<1> QED
  BY <1>1, SendInvHolds, PTL

-----------------------------------------------------------------------------
(* Deliveries: the log row makes them, and couriers, the queue and its two *)
(* passes pass them on by the same argument.  What is new is that a signal *)
(* is logged once: its handler is the one that marked it in                *)
(* relay_seen.json (Fresh).                                                *)


LEMMA RowHands ==
    /\ DOMAIN DeliveryPlaces = 1..10
    /\ DeliveryPlaces[1] = courier /\ DeliveryPlaces[2] = toQueue
    /\ DeliveryPlaces[3] = queue
    /\ DeliveryPlaces[4] = rload["loop"] /\ DeliveryPlaces[5] = rkeep["loop"]
    /\ DeliveryPlaces[6] = rload["request"] /\ DeliveryPlaces[7] = rkeep["request"]
    /\ DeliveryPlaces[8] = confirmed /\ DeliveryPlaces[9] = ended
    /\ DeliveryPlaces[10] = cutQueue
BY DEF DeliveryPlaces

LEMMA RowHandsNext ==
    /\ DOMAIN DeliveryPlaces' = 1..10
    /\ DeliveryPlaces'[1] = courier' /\ DeliveryPlaces'[2] = toQueue'
    /\ DeliveryPlaces'[3] = queue'
    /\ DeliveryPlaces'[4] = rload'["loop"] /\ DeliveryPlaces'[5] = rkeep'["loop"]
    /\ DeliveryPlaces'[6] = rload'["request"] /\ DeliveryPlaces'[7] = rkeep'["request"]
    /\ DeliveryPlaces'[8] = confirmed' /\ DeliveryPlaces'[9] = ended'
    /\ DeliveryPlaces'[10] = cutQueue'
BY DEF DeliveryPlaces

\* the places of a pass's rows to do and rows to put back
RLoadPlace(k) == IF k = "loop" THEN 4 ELSE 6
RKeepPlace(k) == IF k = "loop" THEN 5 ELSE 7

LEMMA RPassHands ==
    ASSUME NEW k \in Passes
    PROVE  /\ DeliveryPlaces[RLoadPlace(k)] = rload[k]
           /\ DeliveryPlaces[RKeepPlace(k)] = rkeep[k]
           /\ RLoadPlace(k) \in {4, 6} /\ RKeepPlace(k) \in {5, 7}
BY RowHands DEF RLoadPlace, RKeepPlace, Passes

\* a handler logs a signal at most once
Fresh == handling \cap logged = {}

Rows == OneRow /\ NoDeliveryForgotten
RowInv == Rows /\ Fresh

BookOK == ForwardOK /\ RetryOK /\ WorldOK

LEMMA RowMoved ==
    ASSUME RowInv, NEW i, NEW j, NEW X,
           MovedTo(DeliveryPlaces, DeliveryPlaces', i, j, X),
           UNCHANGED <<addressed, handling, logged, relayExits>>
    PROVE  RowInv'
<1>1. Apart(DeliveryPlaces') /\ All(DeliveryPlaces') = All(DeliveryPlaces)
  BY MovedApart DEF RowInv, Rows, OneRow
<1> QED
  BY <1>1 DEF RowInv, Rows, OneRow, NoDeliveryForgotten, Fresh

LEMMA RowsUnmoved ==
    ASSUME Rows, UNCHANGED <<courier, addressed, retrying, relayExits>>
    PROVE  Rows'
<1>1. \A i \in DOMAIN DeliveryPlaces : DeliveryPlaces'[i] = DeliveryPlaces[i]
  BY RowHands, RowHandsNext DEF retrying
<1>2. Apart(DeliveryPlaces') /\ All(DeliveryPlaces') = All(DeliveryPlaces)
  BY <1>1, RowHands, RowHandsNext, SameApart DEF Rows, OneRow
<1> QED
  BY <1>2 DEF Rows, OneRow, NoDeliveryForgotten

LEMMA HeldAddressed == BookOK => All(DeliveryPlaces) \subseteq addressed
<1> SUFFICES ASSUME BookOK, NEW i \in DOMAIN DeliveryPlaces
             PROVE  DeliveryPlaces[i] \subseteq addressed
  BY InAll
<1> QED
  BY RowHands DEF BookOK, ForwardOK, RetryOK, Passes

-----------------------------------------------------------------------------
(* The log row and the publish that makes it.                              *)

LEMMA LogKeeps ==
    ASSUME BookOK, Rows, NEW s \in Signals \ logged, Log(s),
           UNCHANGED <<retrying, relayExits>>
    PROVE  Rows'
<1> DEFINE X == {s} \X admitted
<1>1. AddedTo(DeliveryPlaces, DeliveryPlaces', 1, X)
  <2>1. DeliveryPlaces'[1] = DeliveryPlaces[1] \cup X
    BY RowHands, RowHandsNext DEF Log
  <2>2. \A k \in DOMAIN DeliveryPlaces \ {1} :
          DeliveryPlaces'[k] = DeliveryPlaces[k]
    BY RowHands, RowHandsNext DEF retrying
  <2> QED
    BY <2>1, <2>2, RowHands, RowHandsNext DEF AddedTo
<1>2. X \cap All(DeliveryPlaces) = {}
  BY HeldAddressed DEF BookOK, ForwardOK
<1>3. addressed' = addressed \cup X
  BY DEF Log
<1> HIDE DEF X
<1>4. /\ Apart(DeliveryPlaces')
      /\ All(DeliveryPlaces') = All(DeliveryPlaces) \cup X
  BY <1>1, <1>2, AddedApart DEF Rows, OneRow
<1> QED
  BY <1>3, <1>4 DEF Rows, OneRow, NoDeliveryForgotten

LEMMA PublishKeeps ==
    ASSUME BookOK, RowInv, NEW s \in Signals, NEW answer \in Answers,
           Publish(s, answer), UNCHANGED <<retrying, relayExits>>
    PROVE  RowInv'
<1>1. CASE UNCHANGED forwarding
  <2>1. Rows'
    BY <1>1, RowsUnmoved DEF forwarding, RowInv
  <2> QED
    BY <1>1, <2>1 DEF RowInv, Fresh, forwarding
<1>2. CASE s \notin seen /\ Log(s) /\ UNCHANGED handling
  <2>1. s \notin logged /\ s \notin handling
    BY <1>2 DEF BookOK, ForwardOK
  <2>2. Rows'
    BY <1>2, <2>1, LogKeeps DEF RowInv
  <2> QED
    BY <1>2, <2>1, <2>2 DEF RowInv, Fresh, Log
<1>3. CASE /\ s \notin seen /\ handling' = handling \cup {s}
           /\ UNCHANGED <<logged, addressed, courier>>
  <2>1. s \notin logged
    BY <1>3 DEF BookOK, ForwardOK
  <2>2. Rows'
    BY <1>3, RowsUnmoved DEF RowInv
  <2> QED
    BY <1>3, <2>1, <2>2 DEF RowInv, Fresh
<1> QED
  BY <1>1, <1>2, <1>3 DEF Publish, Unmoved

LEMMA PostKeeps ==
    ASSUME BookOK, RowInv, NEW s \in Signals, NEW answer \in Answers,
           \/ Send(s, answer)
           \/ \E k \in Passes : RetrySend(k, s, answer)
    PROVE  RowInv'
<1>1. Answered(s, answer) /\ UNCHANGED <<retrying, relayExits>>
  BY DEF Send, RetrySend, RetryAnswered, faults
<1>2. CASE UNCHANGED forwarding
  <2>1. Rows'
    BY <1>1, <1>2, RowsUnmoved DEF forwarding, RowInv
  <2> QED
    BY <1>2, <2>1 DEF RowInv, Fresh, forwarding
<1>3. CASE Publish(s, answer)
  BY <1>1, <1>3, PublishKeeps
<1> QED
  BY <1>1, <1>2, <1>3 DEF Answered

LEMMA HandleKeeps ==
    ASSUME BookOK, RowInv, NEW s \in Signals, Handle(s)
    PROVE  RowInv'
<1>1. s \notin logged /\ Log(s) /\ handling' = handling \ {s}
      /\ UNCHANGED <<retrying, relayExits>>
  BY DEF Handle, RowInv, Fresh, faults
<1>2. Rows'
  BY <1>1, LogKeeps DEF RowInv
<1> QED
  BY <1>1, <1>2 DEF RowInv, Fresh, Log

-----------------------------------------------------------------------------
(* Couriers, the queue and its passes.                                     *)

LEMMA CourierPostsKeeps ==
    ASSUME BookOK, RowInv, NEW d \in Deliveries, NEW answer \in Answers,
           CourierPosts(d, answer)
    PROVE  RowInv'
<1> DEFINE j == IF answer = "ok" THEN 8 ELSE IF answer = "refused" THEN 9 ELSE 2
<1>1. /\ d \in courier /\ courier' = courier \ {d}
      /\ toQueue' = IF answer = "retry" THEN toQueue \cup {d} ELSE toQueue
      /\ Conclude(d, answer)
      /\ UNCHANGED <<queue, rload, rkeep, cutQueue, addressed, handling, logged,
                     relayExits>>
  BY DEF CourierPosts, faults
<1>2. MovedTo(DeliveryPlaces, DeliveryPlaces', 1, j, {d})
  <2>1. DeliveryPlaces'[1] = DeliveryPlaces[1] \ {d} /\ {d} \subseteq DeliveryPlaces[1]
    BY <1>1, RowHands, RowHandsNext
  <2>2. DeliveryPlaces'[j] = DeliveryPlaces[j] \cup {d}
    BY <1>1, RowHands, RowHandsNext DEF Conclude, Answers
  <2>3. \A k \in DOMAIN DeliveryPlaces \ {1, j} :
          DeliveryPlaces'[k] = DeliveryPlaces[k]
    BY <1>1, RowHands, RowHandsNext DEF Conclude, Answers
  <2> QED
    BY <2>1, <2>2, <2>3, RowHands, RowHandsNext DEF MovedTo
<1> QED
  BY <1>1, <1>2, RowMoved

LEMMA CourierQueuesKeeps ==
    ASSUME BookOK, RowInv, NEW d \in Deliveries, CourierQueues(d)
    PROVE  RowInv'
<1> PICK rest \in Kept(queue, {d}, MaxQueue) :
      queue' = rest \cup {d} /\ cutQueue' = cutQueue \cup (queue \ rest)
  BY DEF CourierQueues
<1> DEFINE h == Move(DeliveryPlaces, 2, 3, {d})
<1>1. /\ rest \subseteq queue /\ toQueue' = toQueue \ {d}
      /\ UNCHANGED <<courier, rload, rkeep, confirmed, ended, addressed,
                     handling, logged, relayExits>>
  BY KeptIsOlder DEF CourierQueues, forwarding, faults
<1>2. {d} \subseteq DeliveryPlaces[2] /\ d \notin queue
  BY RowHands DEF CourierQueues, RowInv, Rows, OneRow, Apart
<1>3. MovedTo(DeliveryPlaces, h, 2, 3, {d})
  BY <1>2, RowHands, MoveMoves
<1>4. Apart(h) /\ All(h) = All(DeliveryPlaces)
  BY <1>3, MovedApart DEF RowInv, Rows, OneRow
<1> HIDE DEF h
<1>5. MovedTo(h, DeliveryPlaces', 3, 10, queue \ rest)
  <2>1. /\ h[2] = toQueue \ {d} /\ h[3] = queue \cup {d} /\ h[10] = cutQueue
        /\ DOMAIN h = 1..10
        /\ \A k \in (1..10) \ {2, 3} : h[k] = DeliveryPlaces[k]
    BY <1>3, RowHands DEF MovedTo
  <2>2. DeliveryPlaces'[3] = h[3] \ (queue \ rest)
    BY <1>1, <1>2, <2>1, RowHandsNext
  <2>3. DeliveryPlaces'[10] = h[10] \cup (queue \ rest)
    BY <2>1, RowHandsNext
  <2>4. \A k \in (1..10) \ {3, 10} : DeliveryPlaces'[k] = h[k]
    BY <1>1, <2>1, RowHands, RowHandsNext
  <2> QED
    BY <2>1, <2>2, <2>3, <2>4, RowHandsNext DEF MovedTo
<1>6. Apart(DeliveryPlaces') /\ All(DeliveryPlaces') = All(DeliveryPlaces)
  BY <1>4, <1>5, MovedApart
<1> QED
  BY <1>1, <1>6 DEF RowInv, Rows, OneRow, NoDeliveryForgotten, Fresh

LEMMA TakeQueueKeeps ==
    ASSUME BookOK, RowInv, NEW k \in Passes, TakeQueue(k)
    PROVE  RowInv'
<1>1. /\ queue' = {} /\ rload'[k] = queue /\ rload[k] = {}
      /\ \A p \in Passes \ {k} : rload'[p] = rload[p]
      /\ UNCHANGED <<courier, toQueue, rkeep, confirmed, ended, cutQueue,
                     addressed, handling, logged, relayExits>>
  BY DEF TakeQueue, BookOK, RetryOK, forwarding, faults
<1>2. MovedTo(DeliveryPlaces, DeliveryPlaces', 3, RLoadPlace(k), queue)
  <2>1. DeliveryPlaces'[3] = DeliveryPlaces[3] \ queue
    BY <1>1, RowHands, RowHandsNext
  <2>2. DeliveryPlaces'[RLoadPlace(k)] = DeliveryPlaces[RLoadPlace(k)] \cup queue
    BY <1>1, RowHands, RowHandsNext DEF RLoadPlace, Passes
  <2>3. \A i \in DOMAIN DeliveryPlaces \ {3, RLoadPlace(k)} :
          DeliveryPlaces'[i] = DeliveryPlaces[i]
    BY <1>1, RowHands, RowHandsNext DEF RLoadPlace, Passes
  <2> QED
    BY <2>1, <2>2, <2>3, RPassHands, RowHands, RowHandsNext DEF MovedTo
<1> QED
  BY <1>1, <1>2, RowMoved

LEMMA RedeliverKeeps ==
    ASSUME BookOK, RowInv, NEW k \in Passes, NEW d \in Deliveries,
           NEW answer \in Answers, Redeliver(k, d, answer)
    PROVE  RowInv'
<1> DEFINE j == IF answer = "ok" THEN 8
                ELSE IF answer = "refused" THEN 9 ELSE RKeepPlace(k)
<1>1. /\ d \in rload[k] /\ rload'[k] = rload[k] \ {d}
      /\ \A p \in Passes \ {k} : rload'[p] = rload[p] /\ rkeep'[p] = rkeep[p]
      /\ rkeep'[k] = IF answer = "retry" THEN rkeep[k] \cup {d} ELSE rkeep[k]
      /\ Conclude(d, answer)
      /\ UNCHANGED <<courier, toQueue, queue, cutQueue, addressed, handling,
                     logged, relayExits>>
  BY DEF Redeliver, BookOK, RetryOK, forwarding, faults
<1>2. MovedTo(DeliveryPlaces, DeliveryPlaces', RLoadPlace(k), j, {d})
  <2>1. DeliveryPlaces'[RLoadPlace(k)] = DeliveryPlaces[RLoadPlace(k)] \ {d}
    BY <1>1, RowHands, RowHandsNext DEF RLoadPlace, Passes
  <2>2. DeliveryPlaces'[j] = DeliveryPlaces[j] \cup {d}
    BY <1>1, RowHands, RowHandsNext DEF RKeepPlace, Passes, Conclude, Answers
  <2>3. \A i \in DOMAIN DeliveryPlaces \ {RLoadPlace(k), j} :
          DeliveryPlaces'[i] = DeliveryPlaces[i]
    BY <1>1, RowHands, RowHandsNext
    DEF RLoadPlace, RKeepPlace, Passes, Conclude, Answers
  <2> QED
    BY <1>1, <2>1, <2>2, <2>3, RPassHands, RowHands, RowHandsNext DEF MovedTo
<1> QED
  BY <1>1, <1>2, RowMoved

LEMMA RequeueKeeps ==
    ASSUME BookOK, RowInv, NEW k \in Passes, Requeue(k)
    PROVE  RowInv'
<1> PICK rest \in Kept(rkeep[k], queue, MaxQueue) :
      queue' = rest \cup queue /\ cutQueue' = cutQueue \cup (rkeep[k] \ rest)
  BY DEF Requeue
<1> DEFINE h == Move(DeliveryPlaces, RKeepPlace(k), 3, rest)
<1>1. /\ rest \subseteq rkeep[k] /\ rkeep'[k] = {}
      /\ \A p \in Passes \ {k} : rkeep'[p] = rkeep[p]
      /\ UNCHANGED <<courier, toQueue, rload, confirmed, ended, addressed,
                     handling, logged, relayExits>>
  BY KeptIsOlder DEF Requeue, BookOK, RetryOK, forwarding, faults
<1>2. MovedTo(DeliveryPlaces, h, RKeepPlace(k), 3, rest)
  BY <1>1, RowHands, RPassHands, MoveMoves
<1>3. Apart(h) /\ All(h) = All(DeliveryPlaces)
  BY <1>2, MovedApart DEF RowInv, Rows, OneRow
<1> HIDE DEF h
<1>4. MovedTo(h, DeliveryPlaces', RKeepPlace(k), 10, rkeep[k] \ rest)
  <2>1. /\ h[RKeepPlace(k)] = rkeep[k] \ rest /\ h[3] = queue \cup rest
        /\ DOMAIN h = 1..10
        /\ \A i \in (1..10) \ {RKeepPlace(k), 3} : h[i] = DeliveryPlaces[i]
    BY <1>2, RowHands, RPassHands DEF MovedTo
  <2>2. DeliveryPlaces'[RKeepPlace(k)] = {} /\ DeliveryPlaces'[3] = h[3]
    BY <1>1, <2>1, RowHandsNext DEF RKeepPlace, Passes
  <2>3. DeliveryPlaces'[10] = h[10] \cup (rkeep[k] \ rest)
    BY <2>1, RowHands, RowHandsNext, RPassHands
  <2>4. \A i \in (1..10) \ {RKeepPlace(k), 3, 10} : DeliveryPlaces'[i] = h[i]
    BY <1>1, <2>1, RowHands, RowHandsNext DEF RKeepPlace, Passes
  <2> QED
    BY <2>1, <2>2, <2>3, <2>4, RPassHands, RowHandsNext, SMTT(30) DEF MovedTo
<1>5. Apart(DeliveryPlaces') /\ All(DeliveryPlaces') = All(DeliveryPlaces)
  BY <1>3, <1>4, MovedApart
<1> QED
  BY <1>1, <1>5 DEF RowInv, Rows, OneRow, NoDeliveryForgotten, Fresh

LEMMA RelayExitsKeeps ==
    ASSUME BookOK, RowInv, RelayExits
    PROVE  RowInv'
<1>1. \A i \in DOMAIN DeliveryPlaces : DeliveryPlaces'[i] \subseteq DeliveryPlaces[i]
  BY RowHands, RowHandsNext DEF RelayExits, Passes
<1>2. Apart(DeliveryPlaces')
  BY <1>1, RowHands, RowHandsNext, FewerApart DEF RowInv, Rows, OneRow
<1>3. relayExits' # 0 /\ handling' = {}
  BY DEF RelayExits, BookOK, WorldOK
<1> QED
  BY <1>2, <1>3 DEF RowInv, Rows, OneRow, NoDeliveryForgotten, Fresh

-----------------------------------------------------------------------------
(* Every step, and the theorems.                                           *)

LEMMA RowInvStep == BookOK /\ RowInv /\ [Next]_vars => RowInv'
<1> SUFFICES ASSUME BookOK, RowInv, [Next]_vars PROVE RowInv'
  OBVIOUS
<1>1. ASSUME NEW s \in Signals, NEW a \in Answers,
             Send(s, a) \/ \E k \in Passes : RetrySend(k, s, a)
      PROVE  RowInv'
  BY <1>1, PostKeeps
<1>2. ASSUME NEW s \in Signals, Handle(s) PROVE RowInv'
  BY <1>2, HandleKeeps
<1>3. ASSUME NEW k \in Passes, TakeQueue(k) \/ Requeue(k) PROVE RowInv'
  BY <1>3, TakeQueueKeeps, RequeueKeeps
<1>4. ASSUME NEW d \in Deliveries, NEW a \in Answers, CourierPosts(d, a)
      PROVE  RowInv'
  BY <1>4, CourierPostsKeeps
<1>5. ASSUME NEW d \in Deliveries, CourierQueues(d) PROVE RowInv'
  BY <1>5, CourierQueuesKeeps
<1>6. ASSUME NEW k \in Passes, NEW d \in Deliveries, NEW a \in Answers,
             Redeliver(k, d, a)
      PROVE  RowInv'
  BY <1>6, RedeliverKeeps
<1>7. CASE RelayExits
  BY <1>7, RelayExitsKeeps
<1>8. CASE UNCHANGED <<forwarding, retrying, relayExits>>
  <2>1. Rows'
    BY <1>8, RowsUnmoved DEF RowInv, forwarding
  <2> QED
    BY <1>8, <2>1 DEF RowInv, Fresh, forwarding
<1>9. ASSUME NEW s \in Signals, Release(s) \/ Enqueue(s) \/ Block(s) \/ Expire(s)
      PROVE  UNCHANGED <<forwarding, retrying, relayExits>>
  BY <1>9 DEF Release, Enqueue, Block, Expire, faults
<1>10. ASSUME NEW k \in Passes, TakeOutbox(k) \/ PutBack(k)
       PROVE  UNCHANGED <<forwarding, retrying, relayExits>>
  BY <1>10 DEF TakeOutbox, PutBack, faults
<1>11. ASSUME \/ \E d \in Deliveries : Emit(d)
              \/ \E r \in Recipients : RecipientExits(r)
              \/ \E members \in SUBSET Recipients : SetTopic(members)
              \/ NodeExits
       PROVE  UNCHANGED <<forwarding, retrying, relayExits>>
  BY <1>11 DEF Emit, RecipientExits, SetTopic, NodeExits, faults
<1>12. UNCHANGED vars => UNCHANGED <<forwarding, retrying, relayExits>>
  BY DEF vars, faults
<1> QED
  BY <1>1, <1>2, <1>3, <1>4, <1>5, <1>6, <1>7, <1>8, <1>9, <1>10, <1>11, <1>12
  DEF Next

LEMMA RowInvInit == Init => RowInv
<1> SUFFICES ASSUME Init PROVE RowInv
  OBVIOUS
<1>1. \A i \in DOMAIN DeliveryPlaces : DeliveryPlaces[i] = {}
  BY RowHands DEF Init, Passes
<1>2. All(DeliveryPlaces) = {}
  BY <1>1, InAll
<1> QED
  BY <1>1, <1>2
  DEF RowInv, Rows, OneRow, NoDeliveryForgotten, Fresh, Apart, Init

LEMMA RowInvHolds == Spec => []RowInv
<1>1. BookOK /\ RowInv /\ [Next]_vars => RowInv'
  BY RowInvStep
<1>2. IInv => BookOK
  BY DEF IInv, TypeOK, BookOK
<1> QED
  BY <1>1, <1>2, RowInvInit, Inductive, PTL DEF Spec

\* A delivery has one courier, one row of the queue or of a pass, or one
\* outcome (relay.py's queue and its two flushes).
THEOREM OneRowHolds == Spec => []OneRow
<1>1. RowInv => OneRow
  BY DEF RowInv, Rows
<1> QED
  BY <1>1, RowInvHolds, PTL

\* While the relay lives, each delivery its log promises is on its way, closed
\* or cut off the end of a full queue.
THEOREM NoDeliveryForgottenHolds == Spec => []NoDeliveryForgotten
<1>1. RowInv => NoDeliveryForgotten
  BY DEF RowInv, Rows
<1> QED
  BY <1>1, RowInvHolds, PTL
=============================================================================
