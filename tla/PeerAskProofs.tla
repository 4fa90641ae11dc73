---------------------------- MODULE PeerAskProofs ---------------------------
(***************************************************************************)
(* What a peer is told was agreed to, and no question is forgotten, for    *)
(* every number of asks, threads, rows and faults.                         *)
(*                                                                         *)
(* The rows of the other side are the memory of both arguments: a row is   *)
(* never taken back and never changes its ask, so an ask that once had a   *)
(* row has a result or a row that is still open (`Known').  Before that it *)
(* is in the mailbox, or in the hands of the request that asks.            *)
(***************************************************************************)
EXTENDS PeerAsk, FiniteSetTheorems, TLAPS

\* The other has, or had, a row of the ask; or the asker has its result.
Known(a) == shown[a] # {} \/ \E i \in Used : row[i].ask = a

Safe(a) == a \in mailbox \/ Known(a)

\* Who holds a verdict holds one that was given.
Consented ==
    /\ \A t \in Senders : sender[t] # Idle /\ sender[t].step \in Says
          => sender[t].step \in agreed[sender[t].ask]
    /\ \A i \in Undelivered : row[i].says \in agreed[row[i].ask]
    /\ \A h \in Hands : hand[h] # Idle => hand[h].says \in agreed[row[hand[h].row].ask]
    /\ \A h \in Hands : \A m \in list[h] : m.says \in agreed[row[m.row].ask]
    /\ \A m \in late : m.says \in agreed[m.ask]

\* A row is closed for an answer that was recorded.
ClosedIsShown ==
    /\ \A i \in Used : row[i].status = "decided" => shown[row[i].ask] # {}
    /\ \A h \in Hands : HandAt(h, {"landed"}) => shown[row[hand[h].row].ask] # {}

\* What each place may forget, because another one holds the ask.
Holds(t, a) == sender[t] # Idle /\ sender[t].ask = a
Boxed(t) == sender[t].box \/ sender[t].step = "mark"
Heard(t) == sender[t].step \in {"pending", "remove"}

Kept ==
    /\ \A a \in Asks : sent[a] \in Outstanding =>
          a \in cut \/ Safe(a) \/ \E t \in Senders : Holds(t, a)
    /\ \A t \in Senders, a \in Asks : Holds(t, a) =>
          (Boxed(t) => Safe(a)) /\ (Heard(t) => Known(a))
    /\ \A t \in Senders : \A a \in todo[t] : Safe(a)
    /\ \A a \in Asks : \A m \in late : m.ask = a => Known(a)

\* Whatever is on its way, or in a row, was asked.
Wants(a) ==
    \/ a \in mailbox \/ stray[a] > 0
    \/ \E t \in Senders : Holds(t, a) \/ a \in todo[t]
    \/ \E i \in Used : row[i].ask = a

Wanted == \A a \in Asks : Wants(a) => sent[a] # "none"

\* So was what has a verdict.
Grounded == \A a \in Asks : agreed[a] # {} => sent[a] # "none"

IInv ==
    /\ TypeOK /\ ShownIsAgreed /\ Consented /\ ClosedIsShown
    /\ Kept /\ Wanted /\ Grounded

-----------------------------------------------------------------------------
(* Every step keeps the types.                                             *)

LEMMA SenderTypes ==
    ASSUME TypeOK, NEW t \in Senders,
           \/ \E a \in Asks : Ask(t, a) \/ FlushItem(t, a)
           \/ Flush(t) \/ GiveUp(t) \/ NotPaired(t)
           \/ Enqueue(t) \/ MarkQueued(t) \/ RemoveRow(t)
           \/ \E r \in Replies : Replied(t, r)
    PROVE  TypeOK'
<1> USE PeerAskAssumption DEF TypeOK, asker, other, Used, Undelivered
<1>1. ASSUME NEW a \in Asks, Ask(t, a) PROVE TypeOK'
  BY <1>1 DEF Ask, Sends, Sending, Outstanding
<1>2. ASSUME NEW a \in Asks, FlushItem(t, a) PROVE TypeOK'
  BY <1>2 DEF FlushItem, Sends, Sending
<1>3. CASE Flush(t)
  BY <1>3 DEF Flush
<1>4. CASE GiveUp(t)
  BY <1>4 DEF GiveUp, Goes, At, Sending, Fault
<1>5. CASE NotPaired(t)
  BY <1>5 DEF NotPaired, Goes, At, Sending
<1>6. CASE Enqueue(t)
  BY <1>6 DEF Enqueue, Goes, At, Sending
<1>7. CASE MarkQueued(t)
  BY <1>7 DEF MarkQueued, Rests, At, Sending, Outstanding
<1>8. CASE RemoveRow(t)
  BY <1>8 DEF RemoveRow, Rests, At, Sending
<1>9. ASSUME NEW r \in Replies, Replied(t, r) PROVE TypeOK'
  BY <1>9 DEF Replied, Replies, Rests, Goes, At, Sending, Outstanding, Says
<1> QED
  BY <1>1, <1>2, <1>3, <1>4, <1>5, <1>6, <1>7, <1>8, <1>9

\* What handle_ask may do to the rows.
LEMMA AskHandled ==
    ASSUME TypeOK, NEW a \in Asks, NEW r \in Replies, HandleAsk(a, r)
    PROVE  /\ row' \in [Ids -> Row \cup {Idle}]
           /\ agreed' \in [Asks -> SUBSET Says]
           /\ paired' = paired
           /\ \A i \in Used : row'[i] = row[i]
           /\ \A i \in Used' \ Used : row'[i].ask = a /\ row'[i].status = "pending"
           /\ r = "pending" => \E i \in Used' : row'[i].ask = a
           /\ r \in Says => r \in agreed'[a]
           /\ \A b \in Asks : agreed[b] \subseteq agreed'[b]
<1> USE PeerAskAssumption DEF TypeOK, Used
<1>1. CASE r \in Inline /\ agreed' = [agreed EXCEPT ![a] = @ \cup {r}] /\ row' = row
  BY <1>1 DEF HandleAsk, Says
<1>2. CASE r = "refused" /\ UNCHANGED <<row, agreed>>
  BY <1>2 DEF HandleAsk, Says
<1>3. CASE /\ r = "pending" /\ UNCHANGED agreed
           /\ \E i \in Ids \ Used :
                row' = [row EXCEPT ![i] = [ask |-> a, status |-> "pending", says |-> Idle]]
  <2> DEFINE new == [ask |-> a, status |-> "pending", says |-> Idle]
  <2>1. PICK i \in Ids \ Used : row' = [row EXCEPT ![i] = new]
    BY <1>3
  <2>2. new \in Row /\ new # Idle
    BY DEF Row, Open
  <2> QED
    BY <1>3, <2>1, <2>2 DEF HandleAsk, Says
<1> QED
  BY <1>1, <1>2, <1>3 DEF HandleAsk

LEMMA HandledTypes ==
    ASSUME TypeOK, NEW a \in Asks, NEW r \in Replies,
           \/ HandleStray(a, r)
           \/ \E t \in Senders : Handled(t, r)
    PROVE  TypeOK'
<1> USE PeerAskAssumption
<1>1. ASSUME NEW b \in Asks, HandleAsk(b, r)
      PROVE  /\ row' \in [Ids -> Row \cup {Idle}] /\ agreed' \in [Asks -> SUBSET Says]
             /\ paired' \in BOOLEAN
             /\ \A i \in Undelivered' : row'[i].says \in Says
             /\ Used \subseteq Used'
  BY <1>1, AskHandled DEF TypeOK, Undelivered, Used
<1>2. CASE HandleStray(a, r)
  <2>1. HandleAsk(a, r)
    BY <1>2 DEF HandleStray
  <2>2. stray' \in [Asks -> Nat]
    BY <1>2 DEF HandleStray, TypeOK
  <2> QED
    BY <1>1, <1>2, <2>1, <2>2 DEF HandleStray, asker, TypeOK
<1>3. ASSUME NEW t \in Senders, Handled(t, r) PROVE TypeOK'
  <2>1. sender[t] \in Sending /\ HandleAsk(sender[t].ask, r)
    BY <1>3 DEF Handled, At, TypeOK
  <2>2. sender' \in [Senders -> Sending \cup {Idle}]
    BY <1>3, <2>1 DEF Handled, Goes, Sending, TypeOK
  <2>3. sender[t].ask \in Asks
    BY <2>1 DEF Sending
  <2> QED
    BY <1>1, <1>3, <2>1, <2>2, <2>3 DEF Handled, asker, TypeOK
<1> QED
  BY <1>2, <1>3

LEMMA HandTypes ==
    ASSUME TypeOK, NEW h \in Hands,
           \/ \E i \in Ids, v \in Says : DecideAsk(h, i, v)
           \/ RetryDeliveryPending(h) \/ \E m \in list[h] : RetryItem(h, m)
           \/ FinishAsk(h) \/ Stash(h)
    PROVE  TypeOK'
<1> USE PeerAskAssumption DEF TypeOK, asker, other
<1>1. ASSUME NEW i \in Ids, NEW v \in Says, DecideAsk(h, i, v) PROVE TypeOK'
  <2>1. hand' \in [Hands -> Saying \cup {Idle}]
    BY <1>1 DEF DecideAsk, Posts, Saying, Steps, Landing
  <2>2. \A k \in Hands : hand'[k] # Idle => hand'[k].row \in Used
    BY <1>1 DEF DecideAsk, Posts
  <2>3. row[i].ask \in Asks
    BY <1>1 DEF DecideAsk, Used, Row
  <2> QED
    BY <1>1, <2>1, <2>2, <2>3 DEF DecideAsk, Used, Undelivered
<1>2. CASE RetryDeliveryPending(h)
  <2>1. list' \in [Hands -> SUBSET [row: Ids, says: Says]]
    BY <1>2 DEF RetryDeliveryPending, Used, Undelivered
  <2>2. \A k \in Hands : \A m \in list'[k] : m.row \in Used
    BY <1>2 DEF RetryDeliveryPending, Undelivered
  <2> QED
    BY <1>2, <2>1, <2>2 DEF RetryDeliveryPending, Used, Undelivered
<1>3. ASSUME NEW m \in list[h], RetryItem(h, m) PROVE TypeOK'
  <2>1. m \in [row: Ids, says: Says] /\ m.row \in Used
    OBVIOUS
  <2>2. hand' \in [Hands -> Saying \cup {Idle}]
    BY <1>3, <2>1 DEF RetryItem, Posts, Saying, Steps, Landing
  <2>3. \A k \in Hands : hand'[k] # Idle => hand'[k].row \in Used
    BY <1>3, <2>1 DEF RetryItem, Posts
  <2> QED
    BY <1>3, <2>2, <2>3 DEF RetryItem, Used, Undelivered
<1>4. CASE FinishAsk(h)
  <2>1. hand[h] \in Saying /\ hand[h].row \in Used
    BY <1>4 DEF FinishAsk, HandAt
  <2>2. row[hand[h].row] \in Row
    BY <2>1 DEF Used
  <2>3. row' \in [Ids -> Row \cup {Idle}]
    BY <1>4, <2>1, <2>2 DEF FinishAsk, Row
  <2>4. Used' = Used /\ Undelivered' \subseteq Undelivered
    BY <1>4, <2>1, <2>2 DEF FinishAsk, Used, Undelivered, Row
  <2>5. \A i \in Undelivered' : row'[i].says \in Says
    BY <1>4, <2>1, <2>4 DEF FinishAsk, Used, Undelivered
  <2>6. hand' \in [Hands -> Saying \cup {Idle}]
    BY <1>4 DEF FinishAsk
  <2>7. \A k \in Hands : hand'[k] # Idle => hand'[k].row \in Used'
    BY <1>4, <2>4 DEF FinishAsk
  <2>8. \A k \in Hands : \A m \in list'[k] : m.row \in Used'
    BY <1>4, <2>4 DEF FinishAsk
  <2> QED
    BY <1>4, <2>3, <2>5, <2>6, <2>7, <2>8 DEF FinishAsk
<1>5. CASE Stash(h)
  <2>1. hand[h] \in Saying /\ hand[h].row \in Used
    BY <1>5 DEF Stash, HandAt
  <2>2. row[hand[h].row] \in Row
    BY <2>1 DEF Used
  <2>3. row' \in [Ids -> Row \cup {Idle}]
    BY <1>5, <2>1, <2>2 DEF Stash, Row, Open, Saying
  <2>4. Used' = Used
    BY <1>5, <2>1, <2>2, <2>3 DEF Stash, Used, Row, Open, Saying
  <2>5. \A i \in Undelivered' : row'[i].says \in Says
    BY <1>5, <2>1, <2>2 DEF Stash, Used, Undelivered, Row, Saying
  <2> QED
    BY <1>5, <2>3, <2>4, <2>5 DEF Stash
<1> QED
  BY <1>1, <1>2, <1>3, <1>4, <1>5

LEMMA LandTypes ==
    ASSUME TypeOK,
           \/ \E h \in Hands : GiveUpAnswer(h) \/ \E s \in Steps : Land(h, s)
           \/ \E m \in late, s \in Steps : LandLate(m, s)
    PROVE  TypeOK'
<1> USE PeerAskAssumption DEF TypeOK, asker, other
<1>1. ASSUME NEW a \in Asks, NEW v \in Says, NEW x, NEW y, Lands(a, v, x, y)
      PROVE  /\ sent' \in [Asks -> {"none", "refused"} \cup Outstanding \cup Says]
             /\ mailbox' \subseteq Asks
             /\ shown' \in [Asks -> SUBSET Says]
  BY <1>1 DEF Lands
<1>2. ASSUME NEW h \in Hands, HandAt(h, Landing)
      PROVE  /\ hand[h] \in Saying /\ row[hand[h].row].ask \in Asks
             /\ Message(h) \in [ask: Asks, says: Says, step: Landing]
  BY <1>2 DEF HandAt, Used, Row, Saying, Message
<1>3. ASSUME NEW h \in Hands, NEW s \in Steps, Land(h, s) PROVE TypeOK'
  <2>1. hand[h] \in Saying /\ row[hand[h].row].ask \in Asks
    BY <1>2, <1>3 DEF Land
  <2>2. /\ hand' \in [Hands -> Saying \cup {Idle}]
        /\ \A k \in Hands : hand'[k] # Idle => hand'[k].row \in Used
    BY <1>3, <2>1 DEF Land, HandAt, Saying
  <2>3. hand[h].says \in Says
    BY <2>1 DEF Saying
  <2> QED
    BY <1>1, <1>3, <2>1, <2>2, <2>3 DEF Land, Used, Undelivered
<1>4. ASSUME NEW m \in late, NEW s \in Steps, LandLate(m, s) PROVE TypeOK'
  <2>1. m \in [ask: Asks, says: Says, step: Landing]
    OBVIOUS
  <2>2. late' \subseteq [ask: Asks, says: Says, step: Landing]
    BY <1>4, <2>1 DEF LandLate
  <2> QED
    BY <1>1, <1>4, <2>1, <2>2 DEF LandLate, Used, Undelivered
<1>5. ASSUME NEW h \in Hands, GiveUpAnswer(h) PROVE TypeOK'
  <2>1. /\ late' \subseteq [ask: Asks, says: Says, step: Landing]
        /\ hand[h] \in Saying
    BY <1>2, <1>5 DEF GiveUpAnswer
  <2>2. /\ hand' \in [Hands -> Saying \cup {Idle}]
        /\ \A k \in Hands : hand'[k] # Idle => hand'[k].row \in Used
    BY <1>5, <2>1 DEF GiveUpAnswer, HandAt, Saying, Steps
  <2> QED
    BY <1>5, <2>1, <2>2 DEF GiveUpAnswer, Fault, Used, Undelivered
<1> QED
  BY <1>3, <1>4, <1>5

LEMMA ExitTypes ==
    ASSUME TypeOK, AskerExits \/ OtherExits \/ Revoke
    PROVE  TypeOK'
<1> USE PeerAskAssumption DEF TypeOK, asker, other
<1>1. CASE AskerExits
  <2>1. /\ hand' \in [Hands -> Saying \cup {Idle}]
        /\ \A k \in Hands : hand'[k] # Idle => hand'[k].row \in Used
    BY <1>1 DEF AskerExits, HandAt, Saying, Steps
  <2>2. cut' \subseteq Asks
    BY <1>1 DEF AskerExits, Sending
  <2>3. stray' \in [Asks -> Nat]
    <3>1. ASSUME NEW a \in Asks
          PROVE  Cardinality({t \in Senders : At(t, "post") /\ sender[t].ask = a}) \in Nat
      <4> DEFINE S == {t \in Senders : At(t, "post") /\ sender[t].ask = a}
      <4>1. IsFiniteSet(S)
        BY FS_Subset, S \subseteq Senders
      <4> QED
        BY <4>1, FS_CardinalityType
    <3> QED
      BY <1>1, <3>1 DEF AskerExits
  <2> QED
    BY <1>1, <2>1, <2>2, <2>3 DEF AskerExits, Fault, Used, Undelivered
<1>2. CASE OtherExits
  <2>1. late' \subseteq [ask: Asks, says: Says, step: Landing]
    <3>1. ASSUME NEW h \in Hands, HandAt(h, Landing)
          PROVE  Message(h) \in [ask: Asks, says: Says, step: Landing]
      BY <3>1 DEF HandAt, Used, Row, Saying, Message
    <3> QED
      BY <1>2, <3>1 DEF OtherExits
  <2>2. sender' \in [Senders -> Sending \cup {Idle}]
    BY <1>2 DEF OtherExits, At, Sending
  <2> QED
    BY <1>2, <2>1, <2>2 DEF OtherExits, Fault, Used, Undelivered
<1>3. CASE Revoke
  BY <1>3 DEF Revoke, Used, Undelivered
<1> QED
  BY <1>1, <1>2, <1>3

LEMMA Types == TypeOK /\ [Next]_vars => TypeOK'
<1> SUFFICES ASSUME TypeOK, [Next]_vars PROVE TypeOK'
  OBVIOUS
<1>1. CASE UNCHANGED vars
  BY <1>1 DEF vars, asker, other, TypeOK, Used, Undelivered
<1>2. ASSUME NEW t \in Senders, NEW a \in Asks, Ask(t, a) \/ FlushItem(t, a)
      PROVE  TypeOK'
  BY <1>2, SenderTypes
<1>3. ASSUME NEW t \in Senders,
             \/ Flush(t) \/ GiveUp(t) \/ NotPaired(t)
             \/ Enqueue(t) \/ MarkQueued(t) \/ RemoveRow(t)
      PROVE  TypeOK'
  BY <1>3, SenderTypes
<1>4. ASSUME NEW t \in Senders, NEW r \in Replies, Replied(t, r) PROVE TypeOK'
  BY <1>4, SenderTypes
<1>5. ASSUME NEW t \in Senders, NEW r \in Replies, Handled(t, r) PROVE TypeOK'
  <2>1. sender[t].ask \in Asks
    BY <1>5 DEF Handled, At, Sending, TypeOK
  <2> QED
    BY <1>5, <2>1, HandledTypes
<1>6. ASSUME NEW a \in Asks, NEW r \in Replies, HandleStray(a, r) PROVE TypeOK'
  BY <1>6, HandledTypes
<1>7. ASSUME NEW h \in Hands, NEW i \in Ids, NEW v \in Says, DecideAsk(h, i, v)
      PROVE  TypeOK'
  BY <1>7, HandTypes
<1>8. ASSUME NEW h \in Hands, NEW m \in list[h], RetryItem(h, m) PROVE TypeOK'
  BY <1>8, HandTypes
<1>9. ASSUME NEW h \in Hands, RetryDeliveryPending(h) \/ FinishAsk(h) \/ Stash(h)
      PROVE  TypeOK'
  BY <1>9, HandTypes
<1>10. ASSUME NEW h \in Hands, GiveUpAnswer(h) PROVE TypeOK'
  BY <1>10, LandTypes
<1>11. ASSUME NEW h \in Hands, NEW s \in Steps, Land(h, s) PROVE TypeOK'
  BY <1>11, LandTypes
<1>12. ASSUME NEW m \in late, NEW s \in Steps, LandLate(m, s) PROVE TypeOK'
  BY <1>12, LandTypes
<1>13. CASE AskerExits \/ OtherExits \/ Revoke
  BY <1>13, ExitTypes
<1> QED
  BY <1>1, <1>2, <1>3, <1>4, <1>5, <1>6, <1>7, <1>8, <1>9, <1>10, <1>11, <1>12, <1>13
     DEF Next, SenderStep, HandStep

(* The row of an ask stays, with its ask; what was agreed or shown stays.  *)
Grown ==
    /\ \A i \in Used : i \in Used' /\ row'[i].ask = row[i].ask
    /\ \A a \in Asks : agreed[a] \subseteq agreed'[a] /\ shown[a] \subseteq shown'[a]

LEMMA Grows == TypeOK /\ [Next]_vars => Grown
<1> SUFFICES ASSUME TypeOK, [Next]_vars PROVE Grown
  OBVIOUS
<1> USE PeerAskAssumption DEF TypeOK, Grown, Used
<1>1. CASE UNCHANGED <<row, agreed, shown>>
  BY <1>1
<1>2. ASSUME NEW a \in Asks, NEW r \in Replies, HandleAsk(a, r), UNCHANGED shown
      PROVE  Grown
  BY <1>2, AskHandled
<1>3. ASSUME NEW t \in Senders, NEW r \in Replies, Replied(t, r) PROVE Grown
  BY <1>3 DEF Replied, other
<1>4. ASSUME NEW a, NEW v, NEW x, NEW y, Lands(a, v, x, y), UNCHANGED other
      PROVE  Grown
  BY <1>4 DEF Lands, asker, other
<1>5. ASSUME NEW h \in Hands, NEW i \in Ids, NEW v \in Says, DecideAsk(h, i, v)
      PROVE  Grown
  BY <1>5 DEF DecideAsk, asker
<1>6. ASSUME NEW h \in Hands, FinishAsk(h) \/ Stash(h) PROVE Grown
  <2> DEFINE j == hand[h].row
  <2>1. hand[h] \in Saying /\ j \in Used /\ row[j] \in Row
    BY <1>6 DEF FinishAsk, Stash, HandAt
  <2>2. row'[j] \in Row /\ row'[j].ask = row[j].ask
    BY <1>6, <2>1 DEF FinishAsk, Stash, Row, Saying, Open
  <2>3. \A i \in Ids \ {j} : row'[i] = row[i]
    BY <1>6, <2>1 DEF FinishAsk, Stash
  <2> QED
    BY <1>6, <2>1, <2>2, <2>3 DEF FinishAsk, Stash, asker
<1>7. CASE UNCHANGED vars
  BY <1>1, <1>7 DEF vars, asker, other
<1>8. ASSUME NEW t \in Senders,
             \/ \E a \in Asks : Ask(t, a) \/ FlushItem(t, a)
             \/ Flush(t) \/ GiveUp(t) \/ NotPaired(t)
             \/ Enqueue(t) \/ MarkQueued(t) \/ RemoveRow(t)
      PROVE  Grown
  BY <1>1, <1>8 DEF Ask, FlushItem, Flush, GiveUp, NotPaired, Enqueue, MarkQueued,
                    RemoveRow, asker, other
<1>9. ASSUME NEW t \in Senders, NEW r \in Replies, Handled(t, r) PROVE Grown
  <2>1. sender[t].ask \in Asks
    BY <1>9 DEF Handled, At, Sending
  <2> QED
    BY <1>2, <1>9, <2>1 DEF Handled, asker
<1>10. ASSUME NEW a \in Asks, NEW r \in Replies, HandleStray(a, r) PROVE Grown
  BY <1>2, <1>10 DEF HandleStray, asker
<1>11. ASSUME NEW h \in Hands, RetryDeliveryPending(h) \/ GiveUpAnswer(h)
                \/ \E m \in list[h] : RetryItem(h, m)
       PROVE  Grown
  BY <1>1, <1>11 DEF RetryDeliveryPending, GiveUpAnswer, RetryItem, asker, other
<1>12. ASSUME NEW h \in Hands, NEW s \in Steps, Land(h, s) PROVE Grown
  BY <1>4, <1>12 DEF Land
<1>13. ASSUME NEW m \in late, NEW s \in Steps, LandLate(m, s) PROVE Grown
  BY <1>4, <1>13 DEF LandLate
<1>14. CASE AskerExits \/ OtherExits \/ Revoke
  BY <1>1, <1>14 DEF AskerExits, OtherExits, Revoke, asker, other
<1> QED
  BY <1>3, <1>5, <1>6, <1>7, <1>8, <1>9, <1>10, <1>11, <1>12, <1>13, <1>14
     DEF Next, SenderStep, HandStep

LEMMA KnownStays ==
    ASSUME TypeOK, [Next]_vars, NEW a \in Asks, Known(a)
    PROVE  Known(a)'
BY Grows DEF Grown, Known

-----------------------------------------------------------------------------
(* Consent.                                                                *)

(* A verdict after the step is one of before, or was agreed to.            *)
SendersKeep == \A t \in Senders : sender'[t] # Idle /\ sender'[t].step \in Says =>
    \/ /\ sender[t] # Idle /\ sender'[t].step = sender[t].step
       /\ sender'[t].ask = sender[t].ask
    \/ sender'[t].step \in agreed'[sender'[t].ask]

RowsKeep == \A i \in Undelivered' :
    \/ i \in Undelivered /\ row'[i].says = row[i].says
    \/ row'[i].says \in agreed'[row'[i].ask]

HandsKeep == \A h \in Hands : hand'[h] # Idle =>
    \/ hand[h] # Idle /\ hand'[h].says = hand[h].says /\ hand'[h].row = hand[h].row
    \/ hand'[h].says \in agreed'[row'[hand'[h].row].ask]

ListsKeep == \A h \in Hands : \A m \in list'[h] :
    m \in list[h] \/ m.says \in agreed'[row'[m.row].ask]

LateKeeps == \A m \in late' :
    \/ \E n \in late : m.ask = n.ask /\ m.says = n.says
    \/ m.says \in agreed'[m.ask]

LEMMA SameVerdicts ==
    ASSUME TypeOK, Consented, Grown,
           SendersKeep, RowsKeep, HandsKeep, ListsKeep, LateKeeps
    PROVE  Consented'
<1> USE DEF Consented, Grown, TypeOK, SendersKeep, RowsKeep, HandsKeep, ListsKeep, LateKeeps
<1>1. \A t \in Senders : sender'[t] # Idle /\ sender'[t].step \in Says
          => sender'[t].step \in agreed'[sender'[t].ask]
  <2> SUFFICES ASSUME NEW t \in Senders, sender'[t] # Idle, sender'[t].step \in Says,
                      sender[t] # Idle, sender'[t].step = sender[t].step,
                      sender'[t].ask = sender[t].ask
               PROVE  sender'[t].step \in agreed'[sender'[t].ask]
    OBVIOUS
  <2>1. sender[t] \in Sending /\ sender[t].ask \in Asks
    BY DEF Sending
  <2> QED
    BY <2>1
<1>2. \A j \in Undelivered' : row'[j].says \in agreed'[row'[j].ask]
  BY DEF Undelivered, Used, Row
<1>3. \A h \in Hands : hand'[h] # Idle => hand'[h].says \in agreed'[row'[hand'[h].row].ask]
  <2> SUFFICES ASSUME NEW h \in Hands, hand'[h] # Idle, hand[h] # Idle,
                      hand'[h].says = hand[h].says, hand'[h].row = hand[h].row
               PROVE  hand'[h].says \in agreed'[row'[hand'[h].row].ask]
    OBVIOUS
  <2>1. hand[h].row \in Used /\ row[hand[h].row].ask \in Asks
    BY DEF Used, Row
  <2> QED
    BY <2>1
<1>4. \A h \in Hands : \A m \in list'[h] : m.says \in agreed'[row'[m.row].ask]
  <2> SUFFICES ASSUME NEW h \in Hands, NEW m \in list[h]
               PROVE  m.says \in agreed'[row'[m.row].ask]
    OBVIOUS
  <2>1. m.row \in Used /\ row[m.row].ask \in Asks
    BY DEF Used, Row
  <2> QED
    BY <2>1
<1>5. \A m \in late' : m.says \in agreed'[m.ask]
  OBVIOUS
<1> QED
  BY <1>1, <1>2, <1>3, <1>4, <1>5

LEMMA ConsentKept ==
    ASSUME TypeOK, Consented, [Next]_vars
    PROVE  Consented'
<1> DEFINE Hold == UNCHANGED <<hand, list, late>>
<1>0. Grown
  BY Grows
<1>a. UNCHANGED <<row, agreed>> => RowsKeep
  BY DEF RowsKeep, Undelivered, Used
<1>b. Hold => HandsKeep /\ ListsKeep /\ LateKeeps
  BY DEF HandsKeep, ListsKeep, LateKeeps
<1>c. UNCHANGED sender => SendersKeep
  BY DEF SendersKeep
<1>1. ASSUME UNCHANGED other, Hold,
             \A t \in Senders : sender'[t] # Idle /\ sender'[t].step \in Says
                => sender'[t] = sender[t]
      PROVE  Consented'
  <2>1. SendersKeep
    BY <1>1 DEF SendersKeep
  <2> QED
    BY <1>0, <1>1, <1>a, <1>b, <2>1, SameVerdicts DEF other
<1>2. CASE UNCHANGED vars
  BY <1>1, <1>2 DEF vars
<1>3. ASSUME NEW t \in Senders,
             \/ \E a \in Asks : Ask(t, a) \/ FlushItem(t, a)
             \/ Flush(t) \/ GiveUp(t) \/ NotPaired(t)
             \/ Enqueue(t) \/ MarkQueued(t) \/ RemoveRow(t)
      PROVE  Consented'
  <2>1. UNCHANGED other /\ Hold
    BY <1>3 DEF Ask, FlushItem, Flush, GiveUp, NotPaired, Enqueue, MarkQueued, RemoveRow
  <2>2. \A u \in Senders : sender'[u] # Idle /\ sender'[u].step \in Says
           => sender'[u] = sender[u]
    BY <1>3 DEF Ask, FlushItem, Flush, GiveUp, NotPaired, Enqueue, MarkQueued,
                RemoveRow, Sends, Goes, Rests, At, Says, Sending, TypeOK
  <2> QED
    BY <1>1, <2>1, <2>2
<1>4. ASSUME NEW t \in Senders, NEW r \in Replies, Replied(t, r) PROVE Consented'
  <2>1. UNCHANGED other /\ Hold
    BY <1>4 DEF Replied
  <2>2. \A u \in Senders : sender'[u] # Idle /\ sender'[u].step \in Says
           => sender'[u] = sender[u]
    BY <1>4 DEF Replied, Goes, Rests, At, Says, Sending, TypeOK
  <2> QED
    BY <1>1, <2>1, <2>2
<1>5. ASSUME NEW a \in Asks, NEW r \in Replies, HandleAsk(a, r), Hold,
             \A t \in Senders : sender'[t] # Idle /\ sender'[t].step \in Says
                => sender'[t] = sender[t] \/ (sender'[t].step = r /\ sender'[t].ask = a)
      PROVE  Consented'
  <2>1. RowsKeep
    BY <1>5, AskHandled DEF RowsKeep, Undelivered, Used
  <2>2. r \in Says => r \in agreed'[a]
    BY <1>5, AskHandled
  <2>3. SendersKeep
    BY <1>5, <2>2 DEF SendersKeep
  <2> QED
    BY <1>0, <1>5, <1>b, <2>1, <2>3, SameVerdicts
<1>6. ASSUME NEW t \in Senders, NEW r \in Replies, Handled(t, r) PROVE Consented'
  <2>1. sender[t] \in Sending /\ HandleAsk(sender[t].ask, r) /\ Hold
    BY <1>6 DEF Handled, At, TypeOK
  <2>2. \A u \in Senders : sender'[u] # Idle /\ sender'[u].step \in Says
           => \/ sender'[u] = sender[u]
              \/ sender'[u].step = r /\ sender'[u].ask = sender[t].ask
    <3>1. sender' = [sender EXCEPT ![t] = [sender[t] EXCEPT !.step = r]]
      BY <1>6 DEF Handled, Goes
    <3>2. \A u \in Senders \ {t} : sender'[u] = sender[u]
      BY <3>1 DEF TypeOK
    <3>3. sender'[t] = [sender[t] EXCEPT !.step = r]
      BY <3>1 DEF TypeOK
    <3>4. sender'[t].step = r /\ sender'[t].ask = sender[t].ask
      BY <2>1, <3>3 DEF Sending
    <3> QED
      BY <3>2, <3>4
  <2>3. sender[t].ask \in Asks
    BY <2>1 DEF Sending
  <2> QED
    BY <1>5, <2>1, <2>2, <2>3
<1>7. ASSUME NEW a \in Asks, NEW r \in Replies, HandleStray(a, r) PROVE Consented'
  <2>1. HandleAsk(a, r) /\ Hold /\ UNCHANGED sender
    BY <1>7 DEF HandleStray
  <2>2. \A t \in Senders : sender'[t] = sender[t]
    BY <2>1
  <2> QED
    BY <1>5, <2>1, <2>2
<1>8. ASSUME NEW h \in Hands, NEW i \in Ids, NEW v \in Says, DecideAsk(h, i, v)
      PROVE  Consented'
  <2>1. /\ UNCHANGED <<row, sender, list, late>> /\ i \in Used
        /\ v \in agreed'[row[i].ask]
    BY <1>8 DEF DecideAsk, Used, Row, TypeOK
  <2>2. HandsKeep
    BY <1>8, <2>1 DEF DecideAsk, Posts, HandsKeep, TypeOK
  <2>3. RowsKeep
    BY <1>0, <2>1 DEF RowsKeep, Undelivered, Used
  <2> QED
    BY <1>0, <1>c, <2>1, <2>2, <2>3, SameVerdicts DEF ListsKeep, LateKeeps
<1>9. ASSUME NEW h \in Hands, RetryDeliveryPending(h) PROVE Consented'
  <2>1. UNCHANGED <<row, agreed, sender, hand, late>>
    BY <1>9 DEF RetryDeliveryPending, other
  <2>2. \A k \in Hands : \A m \in list'[k] : m \in list[k] \/ m.says \in agreed[row[m.row].ask]
    BY <1>9 DEF RetryDeliveryPending, Consented, TypeOK
  <2>3. ListsKeep
    BY <2>1, <2>2 DEF ListsKeep
  <2> QED
    BY <1>0, <1>a, <1>c, <2>1, <2>3, SameVerdicts DEF HandsKeep, LateKeeps
<1>10. ASSUME NEW h \in Hands, NEW m \in list[h], RetryItem(h, m) PROVE Consented'
  <2>1. UNCHANGED <<row, agreed, sender, late>> /\ m.row \in Used
    BY <1>10 DEF RetryItem, other, TypeOK
  <2>2. m.says \in agreed[row[m.row].ask]
    BY DEF Consented
  <2>3. HandsKeep
    BY <1>10, <2>1, <2>2 DEF RetryItem, Posts, HandsKeep, TypeOK
  <2>4. ListsKeep
    BY <1>10 DEF RetryItem, ListsKeep, TypeOK
  <2> QED
    BY <1>0, <1>a, <1>c, <2>1, <2>3, <2>4, SameVerdicts DEF LateKeeps
<1>11. ASSUME NEW h \in Hands, FinishAsk(h) \/ Stash(h) PROVE Consented'
  <2> DEFINE j == hand[h].row
  <2>1. hand[h] \in Saying /\ j \in Used /\ row[j] \in Row
    BY <1>11 DEF FinishAsk, Stash, HandAt, Used, TypeOK
  <2>2. UNCHANGED <<agreed, sender, list, late>>
    BY <1>11 DEF FinishAsk, Stash
  <2>3. HandsKeep
    BY <1>11 DEF FinishAsk, Stash, HandsKeep, TypeOK
  <2>4. \A i \in Ids \ {j} : row'[i] = row[i]
    BY <1>11, <2>1 DEF FinishAsk, Stash, TypeOK
  <2>5. /\ row'[j].ask = row[j].ask
        /\ \/ row'[j].status = "decided"
           \/ row'[j] = row[j]
           \/ row'[j].says = hand[h].says
    BY <1>11, <2>1 DEF FinishAsk, Stash, Row, Used, TypeOK
  <2>6. hand[h].says \in agreed[row[j].ask]
    BY <1>11 DEF Consented, FinishAsk, Stash, HandAt
  <2>7. RowsKeep
    BY <2>1, <2>2, <2>4, <2>5, <2>6 DEF RowsKeep, Undelivered, Used
  <2> QED
    BY <1>0, <1>c, <2>2, <2>3, <2>7, SameVerdicts DEF ListsKeep, LateKeeps
<1>12. ASSUME NEW h \in Hands, NEW s \in Steps, Land(h, s) PROVE Consented'
  <2>1. HandsKeep
    BY <1>12 DEF Land, HandAt, HandsKeep, Saying, TypeOK
  <2>2. UNCHANGED <<row, agreed, sender, list, late>>
    BY <1>12 DEF Land, other
  <2> QED
    BY <1>0, <1>a, <1>c, <2>1, <2>2, SameVerdicts DEF ListsKeep, LateKeeps
<1>13. ASSUME NEW m \in late, NEW s \in Steps, LandLate(m, s) PROVE Consented'
  <2>1. LateKeeps
    BY <1>13 DEF LandLate, LateKeeps, TypeOK
  <2>2. UNCHANGED <<row, agreed, sender, list, hand>>
    BY <1>13 DEF LandLate, other
  <2> QED
    BY <1>0, <1>a, <1>c, <2>1, <2>2, SameVerdicts DEF ListsKeep, HandsKeep
<1>14. ASSUME NEW h \in Hands, HandAt(h, Landing)
       PROVE  Message(h).says \in agreed[Message(h).ask]
  BY <1>14 DEF Consented, Message, HandAt
<1>15. ASSUME NEW h \in Hands, GiveUpAnswer(h) PROVE Consented'
  <2>1. HandsKeep
    BY <1>15 DEF GiveUpAnswer, HandAt, HandsKeep, Saying, TypeOK
  <2>2. UNCHANGED <<row, agreed, sender, list>>
    BY <1>15 DEF GiveUpAnswer, other
  <2>3. LateKeeps
    BY <1>14, <1>15, <2>2 DEF GiveUpAnswer, LateKeeps
  <2> QED
    BY <1>0, <1>a, <1>c, <2>1, <2>2, <2>3, SameVerdicts DEF ListsKeep
<1>16. CASE AskerExits
  <2>1. HandsKeep
    BY <1>16 DEF AskerExits, HandAt, HandsKeep, Saying, TypeOK
  <2>2. UNCHANGED <<row, agreed, list>> /\ late' = {}
    BY <1>16 DEF AskerExits, other
  <2>3. SendersKeep
    BY <1>16 DEF AskerExits, SendersKeep
  <2> QED
    BY <1>0, <1>a, <2>1, <2>2, <2>3, SameVerdicts DEF ListsKeep, LateKeeps
<1>17. CASE OtherExits
  <2>1. UNCHANGED <<row, agreed>>
    BY <1>17 DEF OtherExits, other
  <2>2. LateKeeps
    BY <1>14, <1>17, <2>1 DEF OtherExits, LateKeeps
  <2>3. SendersKeep
    BY <1>17 DEF OtherExits, At, Says, Sending, SendersKeep, TypeOK
  <2>4. HandsKeep /\ ListsKeep
    BY <1>17 DEF OtherExits, HandsKeep, ListsKeep
  <2> QED
    BY <1>0, <1>a, <2>1, <2>2, <2>3, <2>4, SameVerdicts
<1>18. CASE Revoke
  BY <1>0, <1>18, <1>a, <1>b, <1>c, SameVerdicts DEF Revoke
<1> QED
  BY <1>2, <1>3, <1>4, <1>6, <1>7, <1>8, <1>9, <1>10, <1>11, <1>12, <1>13, <1>15,
     <1>16, <1>17, <1>18 DEF Next, SenderStep, HandStep

LEMMA ShownKept ==
    ASSUME TypeOK, Consented, ShownIsAgreed, [Next]_vars
    PROVE  ShownIsAgreed'
<1> USE DEF TypeOK, ShownIsAgreed
<1>0. Grown
  BY Grows
<1>1. CASE UNCHANGED shown
  BY <1>0, <1>1 DEF Grown
<1>2. ASSUME NEW a \in Asks, NEW v \in agreed[a], NEW x, NEW y, Lands(a, v, x, y)
      PROVE  ShownIsAgreed'
  BY <1>0, <1>2 DEF Grown, Lands, asker
<1>3. ASSUME NEW t \in Senders, NEW r \in Replies, Replied(t, r) PROVE ShownIsAgreed'
  <2>1. r \in Says => r \in agreed[sender[t].ask]
    BY <1>3 DEF Consented, Replied, At
  <2> QED
    BY <1>0, <1>3, <2>1 DEF Grown, Replied
<1>4. ASSUME NEW h \in Hands, NEW s \in Steps, Land(h, s) PROVE ShownIsAgreed'
  <2>1. hand[h].says \in agreed[row[hand[h].row].ask] /\ row[hand[h].row].ask \in Asks
    BY <1>4 DEF Consented, Land, HandAt, Used, Row
  <2> QED
    BY <1>2, <1>4, <2>1 DEF Land
<1>5. ASSUME NEW m \in late, NEW s \in Steps, LandLate(m, s) PROVE ShownIsAgreed'
  <2>1. m.says \in agreed[m.ask] /\ m.ask \in Asks
    BY DEF Consented
  <2> QED
    BY <1>2, <1>5, <2>1 DEF LandLate
<1>6. CASE UNCHANGED vars
  BY <1>1, <1>6 DEF vars, asker
<1> QED
  BY <1>1, <1>3, <1>4, <1>5, <1>6 DEF Next, SenderStep, HandStep, Ask, FlushItem, Flush,
     GiveUp, NotPaired, Enqueue, MarkQueued, RemoveRow, Handled, HandleStray, DecideAsk,
     RetryDeliveryPending, RetryItem, FinishAsk, Stash, GiveUpAnswer, AskerExits,
     OtherExits, Revoke, asker

-----------------------------------------------------------------------------
(* Nothing is forgotten.  First the rows: who closes one has its result.   *)

RowsClose == \A i \in Used' : row'[i].status = "decided" =>
    i \in Used /\ (row[i].status = "decided" \/ shown[row[i].ask] # {})

HandsClose == \A h \in Hands : HandAt(h, {"landed"})' =>
    \/ HandAt(h, {"landed"}) /\ hand'[h].row = hand[h].row
    \/ hand'[h].row \in Used /\ shown'[row[hand'[h].row].ask] # {}

LEMMA ClosedFrom ==
    ASSUME TypeOK, ClosedIsShown, Grown, RowsClose, HandsClose
    PROVE  ClosedIsShown'
<1> USE DEF TypeOK, ClosedIsShown, Grown, RowsClose, HandsClose
<1>1. \A i \in Used : row[i].ask \in Asks
  BY DEF Used, Row
<1>2. \A h \in Hands : HandAt(h, {"landed"}) => hand[h].row \in Used
  BY DEF HandAt
<1>3. \A i \in Used' : row'[i].status = "decided" => shown'[row'[i].ask] # {}
  BY <1>1
<1>4. \A h \in Hands : HandAt(h, {"landed"})' => shown'[row'[hand'[h].row].ask] # {}
  BY <1>1, <1>2
<1> QED
  BY <1>3, <1>4

LEMMA ClosedKept ==
    ASSUME TypeOK, ClosedIsShown, [Next]_vars
    PROVE  ClosedIsShown'
<1> USE DEF TypeOK
<1>0. Grown
  BY Grows
<1>a. UNCHANGED row => RowsClose
  BY DEF RowsClose, Used
<1>b. UNCHANGED hand => HandsClose
  BY DEF HandsClose, HandAt
<1>1. CASE UNCHANGED <<row, hand>>
  BY <1>0, <1>1, <1>a, <1>b, ClosedFrom
<1>2. ASSUME NEW a \in Asks, NEW r \in Replies, HandleAsk(a, r), UNCHANGED hand
      PROVE  ClosedIsShown'
  <2>1. RowsClose
    BY <1>2, AskHandled DEF RowsClose, Used
  <2> QED
    BY <1>0, <1>2, <1>b, <2>1, ClosedFrom
<1>3. ASSUME NEW t \in Senders, NEW r \in Replies, Handled(t, r) PROVE ClosedIsShown'
  <2>1. sender[t].ask \in Asks
    BY <1>3 DEF Handled, At, Sending
  <2> QED
    BY <1>2, <1>3, <2>1 DEF Handled
<1>4. ASSUME NEW a \in Asks, NEW r \in Replies, HandleStray(a, r) PROVE ClosedIsShown'
  BY <1>2, <1>4 DEF HandleStray
<1>5. ASSUME UNCHANGED row,
             \A h \in Hands : HandAt(h, {"landed"})' => hand'[h] = hand[h]
      PROVE  ClosedIsShown'
  <2>1. HandsClose
    BY <1>5 DEF HandsClose, HandAt
  <2> QED
    BY <1>0, <1>5, <1>a, <2>1, ClosedFrom
<1>6. ASSUME NEW h \in Hands,
             \/ \E i \in Ids, v \in Says : DecideAsk(h, i, v)
             \/ \E m \in list[h] : RetryItem(h, m)
             \/ GiveUpAnswer(h)
      PROVE  ClosedIsShown'
  <2>1. UNCHANGED row
    BY <1>6 DEF DecideAsk, RetryItem, GiveUpAnswer, other
  <2>2. \A k \in Hands : HandAt(k, {"landed"})' => hand'[k] = hand[k]
    BY <1>6 DEF DecideAsk, RetryItem, GiveUpAnswer, Posts, HandAt, Saying
  <2> QED
    BY <1>5, <2>1, <2>2
<1>7. ASSUME NEW h \in Hands, FinishAsk(h) \/ Stash(h) PROVE ClosedIsShown'
  <2> DEFINE j == hand[h].row
  <2>1. hand[h] \in Saying /\ j \in Used /\ row[j] \in Row
    BY <1>7 DEF FinishAsk, Stash, HandAt, Used
  <2>2. HandsClose
    BY <1>7 DEF FinishAsk, Stash, HandsClose, HandAt
  <2>3. \A i \in Ids \ {j} : row'[i] = row[i]
    BY <1>7, <2>1 DEF FinishAsk, Stash
  <2>4. \/ shown[row[j].ask] # {}
        \/ row'[j] = row[j]
        \/ row'[j].status = "delivery_pending"
    BY <1>7, <2>1 DEF FinishAsk, Stash, ClosedIsShown, Row, Used
  <2>5. RowsClose
    BY <2>1, <2>3, <2>4 DEF RowsClose, Used
  <2> QED
    BY <1>0, <2>2, <2>5, ClosedFrom
<1>8. ASSUME NEW h \in Hands, NEW s \in Steps, Land(h, s) PROVE ClosedIsShown'
  <2>1. hand[h] \in Saying /\ hand[h].row \in Used /\ row[hand[h].row].ask \in Asks
    BY <1>8 DEF Land, HandAt, Used, Row
  <2>2. hand' = [hand EXCEPT ![h] = [hand[h] EXCEPT !.step = s]]
    BY <1>8 DEF Land
  <2>3. hand'[h].row = hand[h].row
    BY <2>1, <2>2 DEF Saying
  <2>4. s = "landed" => shown'[row[hand[h].row].ask] # {}
    <3>1. Lands(row[hand[h].row].ask, hand[h].says, hand[h].step, s)
      BY <1>8 DEF Land
    <3>2. s = "landed" => hand[h].says \in shown'[row[hand[h].row].ask]
      BY <2>1, <3>1 DEF Lands
    <3> QED
      BY <3>2
  <2>5. hand'[h].step = s
    BY <2>1, <2>2 DEF Saying
  <2>6. HandsClose
    BY <2>1, <2>2, <2>3, <2>4, <2>5 DEF HandsClose, HandAt
  <2> QED
    BY <1>0, <1>8, <1>a, <2>6, ClosedFrom DEF Land, other
<1>9. CASE AskerExits \/ OtherExits
  <2>1. UNCHANGED row
    BY <1>9 DEF AskerExits, OtherExits, other
  <2>2. \A k \in Hands : HandAt(k, {"landed"})' => hand'[k] = hand[k]
    BY <1>9 DEF AskerExits, OtherExits, HandAt, Saying
  <2> QED
    BY <1>5, <2>1, <2>2
<1>10. CASE UNCHANGED vars
  BY <1>1, <1>10 DEF vars, other
<1> QED
  BY <1>1, <1>3, <1>4, <1>6, <1>7, <1>8, <1>9, <1>10
     DEF Next, SenderStep, HandStep, Ask, FlushItem, Flush, GiveUp, NotPaired, Enqueue,
         MarkQueued, RemoveRow, Replied, RetryDeliveryPending, LandLate, Revoke, other

-----------------------------------------------------------------------------
(* Then the asks.  A mailbox row is taken out for an ask the other knows.  *)

LEMMA SafeStays ==
    ASSUME TypeOK, Kept, [Next]_vars, NEW a \in Asks, Safe(a)
    PROVE  Safe(a)'
<1>1. CASE Known(a)
  BY <1>1, KnownStays DEF Safe
<1>2. CASE a \in mailbox /\ a \in mailbox'
  BY <1>2 DEF Safe
<1>3. ASSUME a \in mailbox, a \notin mailbox' PROVE Known(a)
  <2>1. \A t \in Senders : At(t, "remove") => Known(sender[t].ask)
    BY DEF Kept, At, Holds, Heard, Sending, TypeOK
  <2>2. \A h \in Hands : HandAt(h, Landing) => Known(row[hand[h].row].ask)
    BY DEF HandAt, Known, TypeOK
  <2>3. \A m \in late : Known(m.ask)
    BY DEF Kept, TypeOK
  <2>4. ASSUME NEW b, NEW v, NEW x, NEW y, Lands(b, v, x, y) PROVE a = b
    BY <1>3, <2>4 DEF Lands, asker
  <2>5. ASSUME NEW t \in Senders, RemoveRow(t) PROVE Known(a)
    BY <1>3, <2>1, <2>5 DEF RemoveRow
  <2>6. ASSUME NEW h \in Hands, NEW s \in Steps, Land(h, s) PROVE Known(a)
    BY <2>2, <2>4, <2>6 DEF Land
  <2>7. ASSUME NEW m \in late, NEW s \in Steps, LandLate(m, s) PROVE Known(a)
    BY <2>3, <2>4, <2>7 DEF LandLate
  <2>8. CASE UNCHANGED vars
    BY <1>3, <2>8 DEF vars, asker
  <2> QED
    BY <1>3, <2>5, <2>6, <2>7, <2>8 DEF Next, SenderStep, HandStep, Ask, FlushItem, Flush,
       GiveUp, NotPaired, Enqueue, MarkQueued, Replied, Handled, HandleStray, DecideAsk,
       RetryDeliveryPending, RetryItem, FinishAsk, Stash, GiveUpAnswer, AskerExits,
       OtherExits, Revoke, asker
<1> QED
  BY <1>1, <1>2, <1>3 DEF Safe

SentKeeps == \A a \in Asks : sent'[a] \in Outstanding =>
    sent[a] \in Outstanding \/ Safe(a)' \/ \E t \in Senders : Holds(t, a)'

HoldersKeep == \A t \in Senders, a \in Asks : Holds(t, a) =>
    Holds(t, a)' \/ Safe(a)' \/ a \in cut' \/ sent'[a] \notin Outstanding

BoxesKeep == \A t \in Senders, a \in Asks :
    Holds(t, a)' /\ Boxed(t)' => (Holds(t, a) /\ Boxed(t)) \/ Safe(a)'

RepliesKeep == \A t \in Senders, a \in Asks :
    Holds(t, a)' /\ Heard(t)' => (Holds(t, a) /\ Heard(t)) \/ Known(a)'

TodosKeep == \A t \in Senders : \A a \in todo'[t] : a \in todo[t] \/ Safe(a)

AnswersKeep == \A m \in late' : (\E n \in late : m.ask = n.ask) \/ Known(m.ask)

LEMMA KeptFrom ==
    ASSUME TypeOK, TypeOK', Kept, [Next]_vars, cut \subseteq cut', SentKeeps, HoldersKeep,
           BoxesKeep, RepliesKeep, TodosKeep, AnswersKeep
    PROVE  Kept'
<1>0. \A a \in Asks : (Safe(a) => Safe(a)') /\ (Known(a) => Known(a)')
  BY SafeStays, KnownStays
<1>1. ASSUME NEW a \in Asks, sent'[a] \in Outstanding
      PROVE  a \in cut' \/ Safe(a)' \/ \E t \in Senders : Holds(t, a)'
  BY <1>0, <1>1 DEF Kept, SentKeeps, HoldersKeep
<1>2. ASSUME NEW t \in Senders, NEW a \in Asks, Holds(t, a)'
      PROVE  (Boxed(t)' => Safe(a)') /\ (Heard(t)' => Known(a)')
  BY <1>0, <1>2 DEF Kept, BoxesKeep, RepliesKeep
<1>3. ASSUME NEW t \in Senders, NEW a \in todo'[t] PROVE Safe(a)'
  <2>1. a \in Asks
    BY DEF TypeOK
  <2> QED
    BY <1>0, <2>1 DEF Kept, TodosKeep
<1>4. ASSUME NEW a \in Asks, NEW m \in late', m.ask = a PROVE Known(a)'
  BY <1>0, <1>4 DEF Kept, AnswersKeep
<1>5. \A m \in late' : m.ask \in Asks
  BY DEF TypeOK
<1> QED
  BY <1>1, <1>2, <1>3, <1>4, <1>5 DEF Kept

LEMMA KeptKept ==
    ASSUME TypeOK, TypeOK', Kept, [Next]_vars
    PROVE  Kept'
<1> DEFINE Other(t) == /\ UNCHANGED <<late, cut>>
                       /\ \A u \in Senders \ {t} : sender'[u] = sender[u]
<1>0. \A a \in Asks : (Safe(a) => Safe(a)') /\ (Known(a) => Known(a)') /\ (Known(a)' => Safe(a)')
  BY SafeStays, KnownStays DEF Safe
\* no request is touched
<1>1. ASSUME UNCHANGED <<sender, cut>>, TodosKeep, AnswersKeep,
             \A a \in Asks : sent'[a] \in Outstanding => sent[a] \in Outstanding
      PROVE  Kept'
  BY <1>1, KeptFrom DEF SentKeeps, HoldersKeep, BoxesKeep, RepliesKeep, Holds, Boxed, Heard
\* a request takes its next step
<1>2. ASSUME NEW t \in Senders, NEW b \in Asks, Other(t), UNCHANGED todo,
             Holds(t, b), Holds(t, b)', sender'[t].box = sender[t].box,
             \A a \in Asks : sent'[a] \in Outstanding => sent[a] \in Outstanding \/ a = b,
             sender'[t].step = "mark" => Safe(b)',
             Heard(t)' => Known(b)'
      PROVE  Kept'
  <2>1. SentKeeps
    BY <1>2 DEF SentKeeps
  <2>2. HoldersKeep
    BY <1>2 DEF HoldersKeep, Holds
  <2>3. BoxesKeep
    BY <1>2 DEF BoxesKeep, Holds, Boxed
  <2>4. RepliesKeep
    BY <1>2 DEF RepliesKeep, Holds, Heard
  <2> QED
    BY <1>2, <2>1, <2>2, <2>3, <2>4, KeptFrom DEF TodosKeep, AnswersKeep
\* a request ends
<1>3. ASSUME NEW t \in Senders, NEW b \in Asks, Other(t), UNCHANGED todo,
             Holds(t, b), sender'[t] = Idle,
             \A a \in Asks : sent'[a] \in Outstanding => sent[a] \in Outstanding \/ a = b,
             Safe(b)' \/ sent'[b] \notin Outstanding
      PROVE  Kept'
  <2>1. SentKeeps
    BY <1>3 DEF SentKeeps
  <2>2. HoldersKeep
    BY <1>3 DEF HoldersKeep, Holds
  <2>3. BoxesKeep
    BY <1>3 DEF BoxesKeep, Holds, Boxed
  <2>4. RepliesKeep
    BY <1>3 DEF RepliesKeep, Holds, Heard
  <2> QED
    BY <1>3, <2>1, <2>2, <2>3, <2>4, KeptFrom DEF TodosKeep, AnswersKeep
\* a request begins
<1>4. ASSUME NEW t \in Senders, NEW b \in Asks, Other(t), sender[t] = Idle, TodosKeep,
             Holds(t, b)', sender'[t].step = "post", sender'[t].box => Safe(b),
             \A a \in Asks : sent'[a] \in Outstanding => sent[a] \in Outstanding \/ a = b
      PROVE  Kept'
  <2>1. SentKeeps
    BY <1>4 DEF SentKeeps
  <2>2. HoldersKeep
    BY <1>4 DEF HoldersKeep, Holds
  <2>3. BoxesKeep
    BY <1>0, <1>4 DEF BoxesKeep, Holds, Boxed
  <2>4. RepliesKeep
    BY <1>4 DEF RepliesKeep, Holds, Heard
  <2> QED
    BY <1>4, <2>1, <2>2, <2>3, <2>4, KeptFrom DEF AnswersKeep
<1>5. CASE UNCHANGED vars
  BY <1>1, <1>5 DEF vars, asker, TodosKeep, AnswersKeep
<1>6. ASSUME NEW t \in Senders, Flush(t) PROVE Kept'
  <2>1. TodosKeep
    BY <1>6 DEF Flush, TodosKeep, Safe, TypeOK
  <2> QED
    BY <1>1, <1>6, <2>1 DEF Flush, asker, AnswersKeep
<1>7. ASSUME NEW t \in Senders, NEW a \in Asks, Ask(t, a) \/ FlushItem(t, a) PROVE Kept'
  <2>0. PICK x \in BOOLEAN : Sends(t, a, x)
    BY <1>7 DEF Ask, FlushItem
  <2>1. /\ sender[t] = Idle /\ Other(t) /\ sender'[t].step = "post"
        /\ sender'[t] = [ask |-> a, box |-> x, step |-> "post"]
    BY <1>7, <2>0 DEF Ask, FlushItem, Sends, TypeOK
  <2>a. \A b \in Asks : sent'[b] \in Outstanding => sent[b] \in Outstanding \/ b = a
    BY <1>7 DEF Ask, FlushItem, asker, TypeOK
  <2>b. Holds(t, a)'
    <3>1. sender'[t] \in Sending
      BY <2>0, <2>1 DEF Sending
    <3> QED
      BY <2>1, <3>1, PeerAskAssumption DEF Holds
  <2>2. sender'[t].box => Safe(a)
    BY <1>7 DEF Ask, FlushItem, Sends, Kept, TypeOK
  <2>3. TodosKeep
    BY <1>7 DEF Ask, FlushItem, TodosKeep, TypeOK
  <2> QED
    BY <1>4, <2>1, <2>a, <2>b, <2>2, <2>3
<1>8. ASSUME NEW t \in Senders, NEW s, s \in {"enqueue", "mark", "remove"} \cup Replies,
             sender[t] # Idle, Goes(t, s)
      PROVE  /\ sender[t].ask \in Asks
             /\ Holds(t, sender[t].ask) /\ sender'[t] # Idle /\ sender'[t].ask = sender[t].ask
             /\ sender'[t].box = sender[t].box /\ sender'[t].step = s
             /\ \A u \in Senders \ {t} : sender'[u] = sender[u]
  <2>1. sender' = [sender EXCEPT ![t] = [sender[t] EXCEPT !.step = s]]
    BY <1>8 DEF Goes
  <2>2. sender[t] \in Sending
    BY <1>8 DEF TypeOK
  <2>3. [sender[t] EXCEPT !.step = s] \in Sending
    BY <1>8, <2>2 DEF Sending
  <2> QED
    BY <1>8, <2>1, <2>2, <2>3, PeerAskAssumption DEF Holds, Sending, TypeOK
<1>9. ASSUME NEW t \in Senders, GiveUp(t) \/ NotPaired(t) \/ Enqueue(t) PROVE Kept'
  <2>0. PICK b \in Asks : b = sender[t].ask
    BY <1>9 DEF GiveUp, NotPaired, Enqueue, At, Sending, TypeOK
  <2>1. PICK s \in {"enqueue", "mark"} :
           /\ Goes(t, s) /\ (s = "mark" => b \in mailbox')
           /\ UNCHANGED <<sent, todo, late, cut>>
    BY <2>0, <1>9 DEF GiveUp, NotPaired, Enqueue, asker
  <2>2. sender[t] # Idle
    BY <2>0, <1>9 DEF GiveUp, NotPaired, Enqueue, At
  <2>3. b \in Asks /\ Holds(t, b) /\ sender'[t] # Idle /\ sender'[t].ask = b
        /\ sender'[t].box = sender[t].box /\ sender'[t].step = s /\ Other(t)
    BY <2>0, <1>8, <2>1, <2>2
  <2>4. Holds(t, b)' /\ ~Heard(t)' /\ (s = "mark" => Safe(b)')
    BY <2>0, <2>1, <2>3 DEF Holds, Heard, Safe
  <2> QED
    BY <2>0, <1>2, <2>1, <2>3, <2>4
<1>10. ASSUME NEW t \in Senders, Rests(t), sender[t] # Idle
       PROVE  /\ sender[t].ask \in Asks /\ Holds(t, sender[t].ask)
              /\ sender'[t] = Idle /\ \A u \in Senders \ {t} : sender'[u] = sender[u]
  BY <1>10 DEF Rests, Holds, Sending, TypeOK
<1>11. ASSUME NEW t \in Senders, MarkQueued(t) \/ RemoveRow(t) PROVE Kept'
  <2>0. PICK b \in Asks : b = sender[t].ask
    BY <1>11 DEF MarkQueued, RemoveRow, At, Sending, TypeOK
  <2>1. sender[t] # Idle /\ Rests(t) /\ UNCHANGED <<todo, late, cut>>
    BY <2>0, <1>11 DEF MarkQueued, RemoveRow, At
  <2>2. b \in Asks /\ Holds(t, b) /\ sender'[t] = Idle /\ Other(t)
    BY <2>0, <1>10, <2>1
  <2>3. Boxed(t) \/ Heard(t)
    BY <2>0, <1>11 DEF MarkQueued, RemoveRow, At, Boxed, Heard
  <2>4. \A a \in Asks : sent'[a] \in Outstanding => sent[a] \in Outstanding \/ a = b
    BY <2>0, <1>11 DEF MarkQueued, RemoveRow, TypeOK
  <2>5. Safe(b)'
    BY <2>0, <1>0, <2>2, <2>3 DEF Kept
  <2> QED
    BY <2>0, <1>3, <2>1, <2>2, <2>4, <2>5
<1>12. ASSUME NEW t \in Senders, NEW r \in Replies, Replied(t, r) PROVE Kept'
  <2>0. PICK b \in Asks : b = sender[t].ask
    BY <1>12 DEF Replied, At, Sending, TypeOK
  <2>1. /\ sender[t] # Idle /\ sender[t].step = r /\ UNCHANGED <<todo, late, cut>>
        /\ (r # "refused" /\ Goes(t, "remove")) \/ Rests(t)
    BY <2>0, <1>12 DEF Replied, At
  <2>2. b \in Asks /\ Holds(t, b)
    BY <2>0, <2>1 DEF Holds, Sending, TypeOK
  <2>3. /\ sent'[b] = r
        /\ \A a \in Asks : sent'[a] \in Outstanding => sent[a] \in Outstanding \/ a = b
    BY <2>0, <1>12, <2>2 DEF Replied, TypeOK
  <2>4. ASSUME r # "refused" PROVE Known(b)'
    <3>1. CASE r \in Says
      <4>1. shown'[b] = shown[b] \cup {r}
        BY <2>0, <1>12, <2>2, <3>1 DEF Replied, TypeOK
      <4> QED
        BY <4>1 DEF Known
    <3>2. CASE r = "pending"
      BY <2>0, <1>0, <2>1, <2>2, <3>2 DEF Kept, Heard
    <3> QED
      BY <2>0, <2>4, <3>1, <3>2 DEF Replies
  <2>5. CASE r # "refused" /\ Goes(t, "remove")
    <3>1. /\ Holds(t, b) /\ sender'[t] # Idle /\ sender'[t].ask = b
          /\ sender'[t].box = sender[t].box /\ sender'[t].step = "remove" /\ Other(t)
      BY <2>0, <1>8, <2>1, <2>5
    <3>2. Holds(t, b)'
      BY <2>0, <3>1 DEF Holds
    <3> QED
      BY <2>0, <1>2, <2>1, <2>2, <2>3, <2>4, <2>5, <3>1, <3>2
  <2>6. CASE Rests(t)
    <3>1. sender'[t] = Idle /\ Other(t)
      BY <2>0, <1>10, <2>1, <2>6
    <3>2. Safe(b)' \/ sent'[b] \notin Outstanding
      BY <2>0, <1>0, <2>2, <2>3, <2>4 DEF Outstanding
    <3> QED
      BY <2>0, <1>3, <2>1, <2>2, <2>3, <3>1, <3>2
  <2> QED
    BY <2>0, <2>1, <2>5, <2>6
<1>13. ASSUME NEW t \in Senders, NEW r \in Replies, Handled(t, r) PROVE Kept'
  <2>0. PICK b \in Asks : b = sender[t].ask
    BY <1>13 DEF Handled, At, Sending, TypeOK
  <2>1. /\ sender[t] # Idle /\ Goes(t, r) /\ HandleAsk(b, r)
        /\ UNCHANGED <<sent, todo, late, cut>>
    BY <2>0, <1>13 DEF Handled, At, asker
  <2>2. /\ b \in Asks /\ Holds(t, b) /\ sender'[t] # Idle /\ sender'[t].ask = b
        /\ sender'[t].box = sender[t].box /\ sender'[t].step = r /\ Other(t)
    BY <2>0, <1>8, <2>1
  <2>3. r = "pending" => Known(b)'
    BY <2>0, <2>1, <2>2, AskHandled DEF Known
  <2>4. /\ Holds(t, b)' /\ (Heard(t)' => Known(b)')
        /\ sender'[t].step # "mark"
    BY <2>0, <2>2, <2>3 DEF Holds, Heard, Replies, Says
  <2> QED
    BY <2>0, <1>2, <2>1, <2>2, <2>4
<1>14. CASE UNCHANGED <<sent, sender, todo, late, cut>>
  BY <1>1, <1>14 DEF TodosKeep, AnswersKeep
<1>15. ASSUME NEW a, NEW v \in Says, NEW x, NEW y, Lands(a, v, x, y)
       PROVE  \A b \in Asks : sent'[b] \in Outstanding => sent[b] \in Outstanding
  BY <1>15 DEF Lands, asker, Says, Outstanding, TypeOK
<1>16. ASSUME NEW h \in Hands, NEW s \in Steps, Land(h, s) PROVE Kept'
  <2>1. hand[h].says \in Says
    BY <1>16 DEF Land, HandAt, Saying, TypeOK
  <2> QED
    BY <1>1, <1>15, <1>16, <2>1 DEF Land, TodosKeep, AnswersKeep
<1>17. ASSUME NEW m \in late, NEW s \in Steps, LandLate(m, s) PROVE Kept'
  <2>1. m.says \in Says
    BY DEF TypeOK
  <2>2. AnswersKeep
    BY <1>17 DEF LandLate, AnswersKeep, TypeOK
  <2> QED
    BY <1>1, <1>15, <1>17, <2>1, <2>2 DEF LandLate, TodosKeep
<1>18. ASSUME NEW h \in Hands, HandAt(h, Landing) PROVE Known(Message(h).ask)
  BY <1>18 DEF HandAt, Message, Known, TypeOK
<1>19. ASSUME NEW h \in Hands, GiveUpAnswer(h) PROVE Kept'
  <2>1. AnswersKeep
    BY <1>18, <1>19 DEF GiveUpAnswer, AnswersKeep
  <2> QED
    BY <1>1, <1>19, <2>1 DEF GiveUpAnswer, TodosKeep, asker
<1>20. CASE AskerExits
  <2>1. /\ UNCHANGED sent /\ cut \subseteq cut' /\ late' = {}
        /\ \A t \in Senders : sender'[t] = Idle /\ todo'[t] = {}
    BY <1>20 DEF AskerExits, asker
  <2>2. ASSUME NEW t \in Senders, NEW a \in Asks, Holds(t, a) PROVE Safe(a)' \/ a \in cut'
    <3>1. CASE Boxed(t)
      BY <1>0, <2>2, <3>1 DEF Kept
    <3>2. CASE ~Boxed(t)
      BY <1>20, <2>2, <3>2 DEF AskerExits, Holds, Boxed, Sending, TypeOK
    <3> QED
      BY <3>1, <3>2
  <2>3. \A t \in Senders, a \in Asks : ~Holds(t, a)'
    BY <2>1 DEF Holds
  <2>4. SentKeeps /\ HoldersKeep /\ BoxesKeep /\ RepliesKeep
    BY <2>1, <2>2, <2>3 DEF SentKeeps, HoldersKeep, BoxesKeep, RepliesKeep
  <2> QED
    BY <2>1, <2>4, KeptFrom DEF TodosKeep, AnswersKeep
<1>21. CASE OtherExits
  <2>1. UNCHANGED <<sent, todo, cut>>
    BY <1>21 DEF OtherExits, asker
  <2>2. AnswersKeep
    BY <1>18, <1>21 DEF OtherExits, AnswersKeep
  <2>3. \A t \in Senders :
           \/ sender'[t] = sender[t]
           \/ /\ sender[t] # Idle /\ sender'[t] # Idle
              /\ sender'[t].ask = sender[t].ask /\ sender'[t].box = sender[t].box
              /\ sender'[t].step = "enqueue"
    <3> SUFFICES ASSUME NEW t \in Senders, At(t, "post")
                 PROVE  /\ sender[t] # Idle /\ sender'[t] # Idle
                        /\ sender'[t].ask = sender[t].ask /\ sender'[t].box = sender[t].box
                        /\ sender'[t].step = "enqueue"
      BY <1>21 DEF OtherExits, TypeOK
    <3>1. sender'[t] = [sender[t] EXCEPT !.step = "enqueue"] /\ sender[t] \in Sending
      BY <1>21 DEF OtherExits, TypeOK, At
    <3>2. sender'[t] \in Sending
      BY <3>1 DEF Sending
    <3> QED
      BY <3>1, <3>2, PeerAskAssumption DEF Sending, At
  <2>4. \A t \in Senders, a \in Asks :
           /\ Holds(t, a)' <=> Holds(t, a)
           /\ Holds(t, a) /\ Boxed(t)' => Boxed(t)
           /\ Holds(t, a) /\ Heard(t)' => Heard(t)
    BY <2>3 DEF Holds, Boxed, Heard
  <2>5. SentKeeps /\ HoldersKeep /\ BoxesKeep /\ RepliesKeep
    BY <2>1, <2>4 DEF SentKeeps, HoldersKeep, BoxesKeep, RepliesKeep
  <2> QED
    BY <2>1, <2>2, <2>5, KeptFrom DEF TodosKeep
<1> QED
  BY <1>5, <1>6, <1>7, <1>9, <1>11, <1>12, <1>13, <1>14, <1>16, <1>17, <1>19, <1>20, <1>21
     DEF Next, SenderStep, HandStep, HandleStray, DecideAsk, RetryDeliveryPending, RetryItem,
         FinishAsk, Stash, Revoke, asker, other

-----------------------------------------------------------------------------
(* Nothing is judged that was not asked.                                   *)

(* What was asked stays asked.                                             *)
LEMMA AskedStays ==
    ASSUME TypeOK, [Next]_vars, NEW a \in Asks, sent[a] # "none"
    PROVE  sent'[a] # "none"
<1> USE DEF TypeOK, Says
<1>1. ASSUME NEW b, NEW v \in Says, NEW x, NEW y, Lands(b, v, x, y) PROVE sent'[a] # "none"
  BY <1>1 DEF Lands, asker
<1>2. ASSUME NEW t \in Senders, NEW b \in Asks, Ask(t, b) PROVE sent'[a] # "none"
  BY <1>2 DEF Ask
<1>3. ASSUME NEW t \in Senders, NEW r \in Replies, Replied(t, r) PROVE sent'[a] # "none"
  BY <1>3 DEF Replied, Replies
<1>4. ASSUME NEW t \in Senders, MarkQueued(t) PROVE sent'[a] # "none"
  BY <1>4 DEF MarkQueued
<1>5. ASSUME NEW h \in Hands, NEW s \in Steps, Land(h, s) PROVE sent'[a] # "none"
  <2>1. hand[h].says \in Says
    BY <1>5 DEF Land, HandAt, Saying
  <2> QED
    BY <1>1, <1>5, <2>1 DEF Land
<1>6. ASSUME NEW m \in late, NEW s \in Steps, LandLate(m, s) PROVE sent'[a] # "none"
  <2>1. m.says \in Says
    BY <1>6 DEF LandLate
  <2> QED
    BY <1>1, <1>6, <2>1 DEF LandLate
<1>7. CASE UNCHANGED sent
  BY <1>7
<1> QED
  BY <1>2, <1>3, <1>4, <1>5, <1>6, <1>7
     DEF Next, SenderStep, HandStep, Flush, FlushItem, GiveUp, NotPaired, Enqueue, RemoveRow,
         Handled, HandleStray, DecideAsk, RetryDeliveryPending, RetryItem, FinishAsk, Stash,
         GiveUpAnswer, Revoke, AskerExits, OtherExits, vars, asker

(* Handling a question adds a row of that question alone.                  *)
LEMMA RowsWanted ==
    ASSUME TypeOK, NEW b \in Asks, NEW r \in Replies, HandleAsk(b, r),
           NEW i \in Used', row'[i].ask # b
    PROVE  i \in Used /\ row[i].ask = row'[i].ask
BY AskHandled

LEMMA WantedKept ==
    ASSUME TypeOK, TypeOK', Wanted, [Next]_vars
    PROVE  Wanted'
<1> SUFFICES ASSUME NEW a \in Asks, Wants(a)' PROVE Wants(a) \/ sent'[a] # "none"
  BY AskedStays DEF Wanted
<1> DEFINE Goal == Wants(a) \/ sent'[a] # "none"
<1> DEFINE SameRows == UNCHANGED row
<1> USE PeerAskAssumption DEF Wants
<1>0. TypeOK /\ TypeOK'
  OBVIOUS
<1>1. ASSUME UNCHANGED <<sender, todo, stray, row>>, mailbox' \subseteq mailbox PROVE Goal
  BY <1>1 DEF Holds, Used
<1>2. ASSUME NEW t \in Senders, NEW b \in Asks, NEW x \in BOOLEAN, Sends(t, b, x),
             UNCHANGED <<mailbox, stray, row>>,
             \A u \in Senders : todo'[u] \subseteq todo[u],
             b \in todo[t] \/ sent'[b] # "none"
      PROVE  Goal
  <2>1. \A u \in Senders : Holds(u, a)' => Holds(u, a) \/ a = b
    BY <1>2 DEF Sends, Holds, TypeOK
  <2> QED
    BY <1>2, <2>1 DEF Used
<1>3. ASSUME NEW t \in Senders, NEW b \in Asks, Ask(t, b) PROVE Goal
  <2>1. sent'[b] # "none"
    BY <1>3 DEF Ask, TypeOK
  <2> QED
    BY <1>2, <1>3, <2>1 DEF Ask, other
<1>4. ASSUME NEW t \in Senders, NEW b \in Asks, FlushItem(t, b) PROVE Goal
  <2>1. \A u \in Senders : todo'[u] \subseteq todo[u]
    BY <1>4 DEF FlushItem, TypeOK
  <2> QED
    BY <1>2, <1>4, <2>1 DEF FlushItem, asker, other
<1>5. ASSUME NEW t \in Senders, Flush(t) PROVE Goal
  <2>1. \A u \in Senders : todo'[u] \subseteq todo[u] \cup mailbox
    BY <1>5 DEF Flush, TypeOK
  <2> QED
    BY <1>5, <2>1 DEF Flush, asker, other, Holds, Used
\* a request in hand goes on, or ends
<1>6. ASSUME NEW t \in Senders, sender[t] # Idle, Rests(t) \/ \E s : Goes(t, s)
      PROVE  /\ Holds(t, sender[t].ask) /\ sender[t].ask \in Asks
             /\ \A u \in Senders : Holds(u, a)' => Holds(u, a)
  <2>1. sender[t] \in Sending
    BY <1>6 DEF TypeOK
  <2>2. ASSUME NEW s, Goes(t, s) PROVE \A u \in Senders : Holds(u, a)' => Holds(u, a)
    BY <1>6, <2>1, <2>2 DEF Goes, Holds, TypeOK, Sending
  <2>3. ASSUME Rests(t) PROVE \A u \in Senders : Holds(u, a)' => Holds(u, a)
    BY <2>3 DEF Rests, Holds, TypeOK
  <2> QED
    BY <1>6, <2>1, <2>2, <2>3 DEF Holds, Sending
<1>7. ASSUME NEW t \in Senders,
             \/ GiveUp(t) \/ NotPaired(t) \/ Enqueue(t) \/ MarkQueued(t) \/ RemoveRow(t)
             \/ \E r \in Replies : Replied(t, r)
      PROVE  Goal
  <2>1. sender[t] # Idle /\ (Rests(t) \/ \E s : Goes(t, s))
    BY <1>7 DEF GiveUp, NotPaired, Enqueue, MarkQueued, RemoveRow, Replied, At
  <2>2. /\ Holds(t, sender[t].ask) /\ sender[t].ask \in Asks
        /\ \A u \in Senders : Holds(u, a)' => Holds(u, a)
    BY <1>6, <2>1
  <2>3. /\ UNCHANGED <<todo, row>>
        /\ mailbox' \subseteq mailbox \cup {sender[t].ask}
        /\ stray' = stray \/ stray' = [stray EXCEPT ![sender[t].ask] = @ + 1]
    BY <1>7 DEF GiveUp, NotPaired, Enqueue, MarkQueued, RemoveRow, Replied, asker, other
  <2>4. stray'[a] > 0 => stray[a] > 0 \/ a = sender[t].ask
    BY <2>2, <2>3 DEF TypeOK
  <2> QED
    BY <2>2, <2>3, <2>4 DEF Used
<1>8. ASSUME NEW t \in Senders, NEW r \in Replies, Handled(t, r) PROVE Goal
  <2>1. /\ sender[t] # Idle /\ Goes(t, r) /\ HandleAsk(sender[t].ask, r)
        /\ UNCHANGED <<mailbox, todo, stray>>
    BY <1>8 DEF Handled, At, asker
  <2>2. /\ Holds(t, sender[t].ask) /\ sender[t].ask \in Asks
        /\ \A u \in Senders : Holds(u, a)' => Holds(u, a)
    BY <1>6, <2>1
  <2>3. (\E i \in Used' : row'[i].ask = a) => (\E i \in Used : row[i].ask = a) \/ a = sender[t].ask
    BY <2>1, <2>2, RowsWanted
  <2> QED
    BY <2>1, <2>2, <2>3
<1>9. ASSUME NEW b \in Asks, NEW r \in Replies, HandleStray(b, r) PROVE Goal
  <2>1. /\ stray[b] > 0 /\ HandleAsk(b, r) /\ UNCHANGED <<sender, mailbox, todo>>
        /\ stray'[a] > 0 => stray[a] > 0
    BY <1>9 DEF HandleStray, asker, TypeOK
  <2>2. (\E i \in Used' : row'[i].ask = a) => (\E i \in Used : row[i].ask = a) \/ a = b
    BY <2>1, RowsWanted
  <2> QED
    BY <2>1, <2>2 DEF Holds
<1>10. ASSUME NEW h \in Hands, FinishAsk(h) \/ Stash(h) PROVE Goal
  <2> DEFINE j == hand[h].row
  <2>1. /\ hand[h] \in Saying /\ j \in Used /\ row[j] \in Row
        /\ UNCHANGED <<sender, mailbox, todo, stray>>
    BY <1>10 DEF FinishAsk, Stash, HandAt, TypeOK, Used, asker
  <2>2. row'[j] \in Row /\ row'[j].ask = row[j].ask
    BY <1>10, <2>1 DEF FinishAsk, Stash, Row, Saying, Open, TypeOK, Used
  <2>3. \A i \in Ids \ {j} : row'[i] = row[i]
    BY <1>10, <2>1 DEF FinishAsk, Stash, TypeOK
  <2> QED
    BY <2>1, <2>2, <2>3 DEF Used, Holds
<1>11. ASSUME NEW b, NEW v, NEW x, NEW y, Lands(b, v, x, y), UNCHANGED <<sender, todo, stray, row>>
       PROVE  Goal
  BY <1>1, <1>11 DEF Lands, asker
<1>12. ASSUME NEW h \in Hands, NEW s \in Steps, Land(h, s) PROVE Goal
  BY <1>11, <1>12 DEF Land, other
<1>13. ASSUME NEW m \in late, NEW s \in Steps, LandLate(m, s) PROVE Goal
  BY <1>11, <1>13 DEF LandLate, other
<1>14. CASE UNCHANGED <<sender, todo, stray, row, mailbox>>
  BY <1>1, <1>14
<1>15. CASE AskerExits
  <2>1. /\ \A t \in Senders : sender'[t] = Idle /\ todo'[t] = {}
        /\ UNCHANGED <<mailbox, row>>
    BY <1>15 DEF AskerExits, asker, other
  <2>2. ASSUME stray'[a] > 0, ~(\E t \in Senders : Holds(t, a)) PROVE stray[a] > 0
    <3>1. {t \in Senders : At(t, "post") /\ sender[t].ask = a} = {}
      BY <2>2 DEF Holds, At
    <3>2. stray'[a] = stray[a] + 0
      BY <1>15, <3>1, FS_EmptySet DEF AskerExits
    <3> QED
      BY <2>2, <3>2 DEF TypeOK
  <2> QED
    BY <2>1, <2>2 DEF Holds, Used
<1>16. CASE OtherExits
  <2>1. UNCHANGED <<mailbox, todo, row>> /\ stray'[a] = 0
    BY <1>16 DEF OtherExits, asker, other
  <2>2. \A t \in Senders : Holds(t, a)' => Holds(t, a)
    BY <1>16 DEF OtherExits, Holds, At, TypeOK, Sending
  <2> QED
    BY <2>1, <2>2 DEF Used
<1> QED
  BY <1>3, <1>4, <1>5, <1>7, <1>8, <1>9, <1>10, <1>12, <1>13, <1>14, <1>15, <1>16
     DEF Next, SenderStep, HandStep, DecideAsk, RetryDeliveryPending, RetryItem,
         GiveUpAnswer, Revoke, vars, asker, other

LEMMA GroundedKept ==
    ASSUME TypeOK, Wanted, Grounded, [Next]_vars
    PROVE  Grounded'
<1> SUFFICES ASSUME NEW a \in Asks, agreed'[a] # {} PROVE agreed[a] # {} \/ sent[a] # "none"
  BY AskedStays DEF Grounded
<1> USE DEF TypeOK
<1>1. CASE UNCHANGED agreed
  BY <1>1
<1>2. ASSUME NEW b \in Asks, NEW r \in Replies, HandleAsk(b, r), sent[b] # "none"
      PROVE  agreed[a] # {} \/ sent[a] # "none"
  BY <1>2 DEF HandleAsk
<1>3. ASSUME NEW t \in Senders, NEW r \in Replies, Handled(t, r)
      PROVE  agreed[a] # {} \/ sent[a] # "none"
  <2>1. sender[t].ask \in Asks /\ Wants(sender[t].ask) /\ HandleAsk(sender[t].ask, r)
    BY <1>3 DEF Handled, At, Sending, Wants, Holds
  <2> QED
    BY <1>2, <2>1 DEF Wanted
<1>4. ASSUME NEW b \in Asks, NEW r \in Replies, HandleStray(b, r)
      PROVE  agreed[a] # {} \/ sent[a] # "none"
  BY <1>2, <1>4 DEF HandleStray, Wanted, Wants
<1>5. ASSUME NEW h \in Hands, NEW i \in Ids, NEW v \in Says, DecideAsk(h, i, v)
      PROVE  agreed[a] # {} \/ sent[a] # "none"
  BY <1>5 DEF DecideAsk, Wanted, Wants, Used, Row
<1> QED
  BY <1>1, <1>3, <1>4, <1>5
     DEF Next, SenderStep, HandStep, Ask, Replied, MarkQueued, Flush, FlushItem, GiveUp,
         NotPaired, Enqueue, RemoveRow, RetryDeliveryPending, RetryItem, FinishAsk, Stash, Land,
         LandLate, GiveUpAnswer, Revoke, AskerExits, OtherExits, vars, other

-----------------------------------------------------------------------------
(* The theorems.                                                           *)

LEMMA Starts == Init => IInv
<1> SUFFICES ASSUME Init PROVE IInv
  OBVIOUS
<1> USE PeerAskAssumption DEF Init, Used, Undelivered
<1>1. TypeOK
  BY DEF TypeOK
<1>2. ShownIsAgreed
  BY DEF ShownIsAgreed
<1>3. Consented
  BY DEF Consented
<1>4. ClosedIsShown
  BY DEF ClosedIsShown, HandAt
<1>5. Kept
  BY DEF Kept, Holds, Outstanding
<1>6. Wanted
  BY DEF Wanted, Wants, Holds
<1>7. Grounded
  BY DEF Grounded
<1> QED
  BY <1>1, <1>2, <1>3, <1>4, <1>5, <1>6, <1>7 DEF IInv

LEMMA Preserved == IInv /\ [Next]_vars => IInv'
BY Types, ShownKept, ConsentKept, ClosedKept, KeptKept, WantedKept,
   GroundedKept DEF IInv

(* The inductive invariant holds in every run.                             *)
THEOREM Invariance == Spec => []IInv
BY Starts, Preserved, PTL DEF Spec

(* Type correctness: what each side's files and threads may hold; a row    *)
(* whose delivery is pending carries its verdict.                          *)
THEOREM TypeCorrect == Spec => []TypeOK
<1>1. IInv => TypeOK
  BY DEF IInv
<1> QED
  BY <1>1, Invariance, PTL

(* However answers are lost, repeated or late, and with whatever two hands *)
(* say at once: the asker records only what the other side agreed to say.  *)
THEOREM ShownIsAgreedHolds == Spec => []ShownIsAgreed
<1>1. IInv => ShownIsAgreed
  BY DEF IInv
<1> QED
  BY <1>1, Invariance, PTL

(* No ask without a result is forgotten, through lost replies, full        *)
(* queues and ends of either process.                                      *)
THEOREM NoAskForgottenHolds == Spec => []NoAskForgotten
<1>1. IInv => NoAskForgotten
  <2> SUFFICES ASSUME IInv, NEW a \in Asks, sent[a] \in Outstanding,
                      a \notin cut, shown[a] = {}, a \notin mailbox,
                      ~ \E t \in Senders : sender[t] # Idle /\ sender[t].ask = a
               PROVE  \E i \in OpenRows : row[i].ask = a
    BY DEF NoAskForgotten, Held
  <2>1. Known(a)
    BY DEF IInv, Kept, Safe, Holds
  <2>2. PICK i \in Used : row[i].ask = a
    BY <2>1 DEF Known
  <2>3. row[i].status # "decided" /\ row[i] \in Row
    BY <2>2 DEF IInv, ClosedIsShown, TypeOK, Used
  <2> QED
    BY <2>2, <2>3 DEF OpenRows, Row
<1> QED
  BY <1>1, Invariance, PTL

-----------------------------------------------------------------------------
(* Refinement.                                                             *)

Questions == {a \in Asks : sent[a] # "none"}

LEMMA Judged ==
    ASSUME IInv, NEW a \in Asks, NEW r \in Replies, HandleAsk(a, r), Wants(a), UNCHANGED asker
    PROVE  [Talk!ConsultationNext]_Talk!consultationVars
<1> USE PeerAskAssumption DEF Talk!consultationVars, asker
<1>1. CASE UNCHANGED agreed
  BY <1>1
<1>2. CASE r \in Inline /\ agreed' = [agreed EXCEPT ![a] = @ \cup {r}]
  <2>1. Talk!Judge(a, r) /\ r \in Says
    BY <1>2 DEF IInv, Wanted, Talk!Judge
  <2> QED
    BY <2>1 DEF Talk!ConsultationNext
<1> QED
  BY <1>1, <1>2 DEF HandleAsk

LEMMA Recorded ==
    ASSUME IInv, NEW a \in Asks, NEW v \in Says, NEW x, NEW y, Lands(a, v, x, y),
           v \in agreed[a], UNCHANGED other
    PROVE  [Talk!ConsultationNext]_Talk!consultationVars
<1> USE DEF Talk!consultationVars, asker, other
<1>1. CASE UNCHANGED <<sent, shown>>
  BY <1>1
<1>2. CASE /\ x = "recording"
           /\ sent' = [sent EXCEPT ![a] = v] /\ shown' = [shown EXCEPT ![a] = @ \cup {v}]
  <2>1. Questions' = Questions
    <3>1. sent[a] # "none"
      BY DEF IInv, Grounded
    <3> QED
      BY <1>2, <3>1 DEF IInv, TypeOK, Questions, Says
  <2>2. Talk!Tell(a, v)
    BY <1>2, <2>1 DEF Talk!Tell, Questions
  <2> QED
    BY <2>2 DEF Talk!ConsultationNext
<1> QED
  BY <1>1, <1>2 DEF Lands

LEMMA ConsultationStep ==
    ASSUME IInv, [Next]_vars
    PROVE  [Talk!ConsultationNext]_Talk!consultationVars
<1> DEFINE Goal == [Talk!ConsultationNext]_Talk!consultationVars
<1> USE PeerAskAssumption
<1>a. TypeOK /\ Wanted /\ Consented
  BY DEF IInv
<1>1. ASSUME Questions' = Questions, UNCHANGED <<agreed, shown>> PROVE Goal
  BY <1>1 DEF Talk!consultationVars, Questions
<1>2. CASE UNCHANGED <<sent, agreed, shown>>
  BY <1>1, <1>2 DEF Questions
<1>3. ASSUME NEW t \in Senders, NEW a \in Asks, Ask(t, a) PROVE Goal
  <2>1. Questions' = Questions \cup {a}
    BY <1>a, <1>3 DEF Ask, TypeOK, Questions
  <2>2. Talk!Put(a)
    BY <1>3, <2>1 DEF Ask, other, Talk!Put, Questions
  <2> QED
    BY <2>2 DEF Talk!ConsultationNext
<1>4. ASSUME NEW t \in Senders, sender[t] # Idle
      PROVE  sender[t].ask \in Questions /\ Wants(sender[t].ask)
  BY <1>a, <1>4 DEF TypeOK, Sending, Wanted, Wants, Holds, Questions
<1>5. ASSUME NEW t \in Senders, NEW r \in Replies, Replied(t, r) PROVE Goal
  <2> DEFINE b == sender[t].ask
  <2>1. b \in Questions /\ Wants(b)
    BY <1>4, <1>5 DEF Replied, At
  <2>2. Questions' = Questions
    BY <1>a, <1>5, <2>1 DEF Replied, Questions, TypeOK, Replies, Says
  <2>3. CASE r \in Says
    <3>1. r \in agreed[b]
      BY <1>a, <1>5, <2>3 DEF Replied, At, Consented
    <3>2. shown' = [shown EXCEPT ![b] = @ \cup {r}]
      BY <1>5, <2>3 DEF Replied
    <3>3. Talk!Tell(b, r)
      BY <1>5, <2>2, <3>1, <3>2 DEF Replied, other, Talk!Tell, Questions
    <3> QED
      BY <2>1, <2>3, <3>3 DEF Talk!ConsultationNext, Questions
  <2>4. CASE r \notin Says
    <3>1. shown' = shown
      BY <1>a, <1>5, <2>4 DEF Replied, TypeOK
    <3> QED
      BY <1>1, <1>5, <2>2, <3>1 DEF Replied, other
  <2> QED
    BY <2>3, <2>4
<1>6. ASSUME NEW t \in Senders, MarkQueued(t) PROVE Goal
  <2>1. sender[t].ask \in Questions
    BY <1>4, <1>6 DEF MarkQueued, At
  <2>2. Questions' = Questions
    BY <1>a, <1>6, <2>1 DEF MarkQueued, Questions, TypeOK
  <2> QED
    BY <1>1, <1>6, <2>2 DEF MarkQueued, other
<1>7. ASSUME NEW t \in Senders, NEW r \in Replies, Handled(t, r) PROVE Goal
  <2>1. sender[t].ask \in Asks /\ Wants(sender[t].ask) /\ HandleAsk(sender[t].ask, r)
    BY <1>4, <1>7 DEF Handled, At, Questions
  <2> QED
    BY <1>7, <2>1, Judged DEF Handled
<1>8. ASSUME NEW a \in Asks, NEW r \in Replies, HandleStray(a, r) PROVE Goal
  <2>1. Wants(a) /\ HandleAsk(a, r)
    BY <1>8 DEF HandleStray, Wants
  <2> QED
    BY <1>8, <2>1, Judged DEF HandleStray
<1>9. ASSUME NEW h \in Hands, NEW i \in Ids, NEW v \in Says, DecideAsk(h, i, v) PROVE Goal
  <2> DEFINE b == row[i].ask
  <2>1. b \in Asks /\ Wants(b) /\ sent[b] # "none"
    BY <1>a, <1>9 DEF DecideAsk, TypeOK, Used, Row, Wanted, Wants
  <2>2. Talk!Judge(b, v)
    BY <1>9, <2>1 DEF DecideAsk, asker, Talk!Judge
  <2> QED
    BY <2>1, <2>2 DEF Talk!ConsultationNext
<1>10. ASSUME NEW h \in Hands, NEW s \in Steps, Land(h, s) PROVE Goal
  <2> DEFINE b == row[hand[h].row].ask
  <2>1. /\ b \in Asks /\ hand[h].says \in Says /\ hand[h].says \in agreed[b]
        /\ Lands(b, hand[h].says, hand[h].step, s) /\ UNCHANGED other
    BY <1>a, <1>10 DEF Land, HandAt, TypeOK, Consented, Saying, Used, Row
  <2> QED
    BY <2>1, Recorded
<1>11. ASSUME NEW m \in late, NEW s \in Steps, LandLate(m, s) PROVE Goal
  <2>1. /\ m.ask \in Asks /\ m.says \in Says /\ m.says \in agreed[m.ask]
        /\ Lands(m.ask, m.says, m.step, s) /\ UNCHANGED other
    BY <1>a, <1>11 DEF LandLate, TypeOK, Consented
  <2> QED
    BY <2>1, Recorded
<1> QED
  BY <1>2, <1>3, <1>5, <1>6, <1>7, <1>8, <1>9, <1>10, <1>11
     DEF Next, SenderStep, HandStep, Flush, FlushItem, GiveUp, NotPaired, Enqueue, RemoveRow,
         RetryDeliveryPending, RetryItem, FinishAsk, Stash,
         GiveUpAnswer, Revoke, AskerExits, OtherExits, vars, asker, other

(* The two sides implement Consultation: only what was asked is judged,    *)
(* only what was judged is told, whatever is lost, late or said twice.     *)
THEOREM KeepsConsultationHolds == Spec => KeepsConsultation
<1>1. Init => Talk!ConsultationInit
  BY DEF Init, Talk!ConsultationInit
<1>2. IInv /\ [Next]_vars => [Talk!ConsultationNext]_Talk!consultationVars
  BY ConsultationStep
<1> QED
  BY <1>1, <1>2, Invariance, PTL DEF Spec, KeepsConsultation, Talk!ConsultationSpec
=============================================================================
