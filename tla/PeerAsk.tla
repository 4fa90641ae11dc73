------------------------------ MODULE PeerAsk -------------------------------
(***************************************************************************)
(* A question of one Sparrow to a paired one, and the answer's way back:   *)
(* ask, its mailbox and handle_answer on the asker's side, handle_ask,     *)
(* decide_ask and retry_delivery_pending on the other's                    *)
(* (app/services/peer_channel.py, app/services/team_layer.py).             *)
(*                                                                         *)
(* Each side keeps JSON files under a lock that is taken per read-modify-  *)
(* write, never across a POST, so a thread is a list of steps.  A POST is  *)
(* handled while its caller waits, or the caller gives up (time-out, lost  *)
(* answer) and the request is handled later or never: `stray' questions,   *)
(* `late' answers.  A process that ends loses its threads and keeps its    *)
(* files; what it was answering fails at the other side.                   *)
(*                                                                         *)
(* A null result is a decline: it settles the question and teaches         *)
(* nothing.  Left out: slot requests, team questions and their roll-up,    *)
(* handoff loops, the caps of mailbox and history (a decided row is not    *)
(* read again), the asker's unpairing, questions refused for their form.   *)
(***************************************************************************)
EXTENDS Integers, FiniteSets

CONSTANTS
    Asks,           \* ask ids
    Senders,        \* the asker's threads: requests, heartbeat
    Hands,          \* the other's threads: verdicts, heartbeat
    Inline,         \* verdicts the policy gives by itself
    MaxPending,     \* max_pending_asks
    MaxRows,        \* bound: questions queued for the human
    MaxFaults,      \* bound: callers that give up and processes that end
    Idle            \* no step under way

Says == {"answered", "declined"}
Outstanding == {"sent", "pending", "queued"}        \* _OUTSTANDING_SENT
Open == {"pending", "delivery_pending"}             \* _OPEN_ASK_STATUSES

Replies == Says \cup {"pending", "refused"}
Landing == {"post", "checked", "recording"}
Steps == Landing \cup {"failed", "landed"}
Ids == 1..MaxRows

Row == [ask: Asks, status: Open \cup {"decided"}, says: Says \cup {Idle}]
Sending == [ask: Asks, box: BOOLEAN,
            step: {"post", "enqueue", "mark", "remove"} \cup Replies]
Saying == [row: Ids, says: Says, again: BOOLEAN, step: Steps]

ASSUME PeerAskAssumption ==
    /\ Inline \subseteq Says /\ IsFiniteSet(Senders)
    /\ MaxPending \in Nat /\ MaxRows \in Nat /\ MaxFaults \in Nat
    /\ Idle \notin Row \cup Sending \cup Saying

VARIABLES
    sent,           \* the asker's log: status of each ask
    mailbox,        \* the asker's offline queue
    sender,         \* each thread of the asker: its ask and step
    todo,           \* rows of the mailbox a flush still has to retry
    stray,          \* questions whose sender gave up
    row,            \* the other's ask file; an id is used once
    hand,           \* each thread of the other: its row, verdict and step
    list,           \* rows a retry of deliveries still has to post
    late,           \* answers whose hand gave up
    paired,         \* the other has not revoked the asker
    faults,
    \* history
    agreed,         \* what the other's human or policy said to each ask
    shown,          \* what the asker took for the result of each ask
    cut             \* asks whose request ended with its process

asker == <<sent, mailbox, shown>>
other == <<row, paired, agreed>>
vars  == <<asker, sender, todo, stray, other, hand, list, late, faults, cut>>

Used == {i \in Ids : row[i] # Idle}
OpenRows == {i \in Used : row[i].status \in Open}

Init ==
    /\ sent = [a \in Asks |-> "none"] /\ mailbox = {}
    /\ sender = [t \in Senders |-> Idle] /\ todo = [t \in Senders |-> {}]
    /\ stray = [a \in Asks |-> 0]
    /\ row = [i \in Ids |-> Idle]
    /\ hand = [h \in Hands |-> Idle] /\ list = [h \in Hands |-> {}]
    /\ late = {} /\ paired = TRUE /\ faults = 0
    /\ agreed = [a \in Asks |-> {}] /\ shown = [a \in Asks |-> {}]
    /\ cut = {}

Fault == faults < MaxFaults /\ faults' = faults + 1

-----------------------------------------------------------------------------
(* The asker.  A sender posts ("post"), has its reply, or queues the ask   *)
(* ("enqueue", then "mark"); a flush ends with the mailbox row ("remove"). *)
Sends(t, a, box) ==
    sender' = [sender EXCEPT ![t] = [ask |-> a, box |-> box, step |-> "post"]]

Goes(t, s) == sender' = [sender EXCEPT ![t].step = s]
Rests(t) == sender' = [sender EXCEPT ![t] = Idle]
At(t, s) == sender[t] # Idle /\ sender[t].step = s

Ask(t, a) ==
    /\ sender[t] = Idle /\ sent[a] = "none"
    /\ sent' = [sent EXCEPT ![a] = "sent"]
    /\ Sends(t, a, FALSE)
    /\ UNCHANGED <<mailbox, shown, todo, stray, other, hand, list, late, faults, cut>>

\* flush_mailbox reads the rows once ...
Flush(t) ==
    /\ sender[t] = Idle /\ todo[t] = {} /\ mailbox # {}
    /\ todo' = [todo EXCEPT ![t] = mailbox]
    /\ UNCHANGED <<asker, sender, stray, other, hand, list, late, faults, cut>>

\* ... and retries each, in the file or not
FlushItem(t, a) ==
    /\ sender[t] = Idle /\ a \in todo[t]
    /\ todo' = [todo EXCEPT ![t] = @ \ {a}]
    /\ Sends(t, a, TRUE)
    /\ UNCHANGED <<asker, stray, other, hand, list, late, faults, cut>>

GiveUp(t) ==
    /\ At(t, "post") /\ Fault
    /\ stray' = [stray EXCEPT ![sender[t].ask] = @ + 1]
    /\ Goes(t, "enqueue")
    /\ UNCHANGED <<asker, todo, other, hand, list, late, cut>>

\* _update_sent, or _record_answer for an answer: whatever the status is now
Replied(t, r) ==
    LET a == sender[t].ask IN
    /\ At(t, r)
    /\ sent' = [sent EXCEPT ![a] = r]
    /\ shown' = [shown EXCEPT ![a] = @ \cup ({r} \cap Says)]
    /\ IF sender[t].box /\ r # "refused" THEN Goes(t, "remove") ELSE Rests(t)
    /\ UNCHANGED <<mailbox, todo, stray, other, hand, list, late, faults, cut>>

\* _queue_offline: the row, then the status
Enqueue(t) ==
    /\ At(t, "enqueue")
    /\ mailbox' = mailbox \cup {sender[t].ask}
    /\ Goes(t, "mark")
    /\ UNCHANGED <<sent, shown, todo, stray, other, hand, list, late, faults, cut>>

MarkQueued(t) ==
    /\ At(t, "mark")
    /\ sent' = [sent EXCEPT ![sender[t].ask] = "queued"]
    /\ Rests(t)
    /\ UNCHANGED <<mailbox, shown, todo, stray, other, hand, list, late, faults, cut>>

\* mutant: what was sent stays in the mailbox
RemoveRowNever(t) ==
    /\ At(t, "remove")
    /\ Rests(t)
    /\ UNCHANGED <<asker, todo, stray, other, hand, list, late, faults, cut>>

RemoveRow(t) ==
    /\ At(t, "remove")
    /\ mailbox' = mailbox \ {sender[t].ask}
    /\ Rests(t)
    /\ UNCHANGED <<sent, shown, todo, stray, other, hand, list, late, faults, cut>>

-----------------------------------------------------------------------------
(* The other side.  handle_ask answers by policy, or queues for the human; *)
(* r is its reply.  It does not look for a row the ask already has.        *)
HandleAsk(a, r) ==
    /\ paired
    /\ \/ /\ r \in Inline
          /\ agreed' = [agreed EXCEPT ![a] = @ \cup {r}]
          /\ UNCHANGED row
       \/ /\ Cardinality(OpenRows) >= MaxPending
          /\ r = "refused"
          /\ UNCHANGED <<row, agreed>>
       \/ /\ Cardinality(OpenRows) < MaxPending
          /\ r = "pending"
          /\ \E i \in Ids \ Used :
                /\ \A j \in Ids \ Used : i <= j
                /\ row' = [row EXCEPT ![i] =
                             [ask |-> a, status |-> "pending", says |-> Idle]]
          /\ UNCHANGED agreed
    /\ UNCHANGED paired

Handled(t, r) ==
    /\ At(t, "post") /\ HandleAsk(sender[t].ask, r)
    /\ Goes(t, r)
    /\ UNCHANGED <<asker, todo, stray, hand, list, late, faults, cut>>

HandleStray(a, r) ==
    /\ stray[a] > 0 /\ HandleAsk(a, r)
    /\ stray' = [stray EXCEPT ![a] = @ - 1]
    /\ UNCHANGED <<asker, sender, todo, hand, list, late, faults, cut>>

\* The token of a revoked peer: an HTTP error, for the asker like any other.
NotPaired(t) ==
    /\ At(t, "post") /\ ~paired
    /\ Goes(t, "enqueue")
    /\ UNCHANGED <<asker, todo, stray, other, hand, list, late, faults, cut>>

Revoke ==
    /\ paired /\ paired' = FALSE
    /\ UNCHANGED <<asker, sender, todo, stray, row, agreed, hand, list, late, faults, cut>>

Posts(h, i, v, again) ==
    hand' = [hand EXCEPT ![h] = [row |-> i, says |-> v, again |-> again, step |-> "post"]]

HandAt(h, S) == hand[h] # Idle /\ hand[h].step \in S

\* decide_ask: the row is pending now; what follows does not look again
DecideAsk(h, i, v) ==
    /\ hand[h] = Idle /\ list[h] = {} /\ paired
    /\ i \in Used /\ row[i].status = "pending"
    /\ Posts(h, i, v, FALSE)
    /\ agreed' = [agreed EXCEPT ![row[i].ask] = @ \cup {v}]
    /\ UNCHANGED <<asker, sender, todo, stray, row, paired, list, late, faults, cut>>

Undelivered == {i \in Used : row[i].status = "delivery_pending"}

\* mutant: the verdict is taken for a yes, as success_status defaults to
RetryDeliveryPendingYes(h) ==
    /\ hand[h] = Idle /\ list[h] = {} /\ paired /\ Undelivered # {}
    /\ list' = [list EXCEPT ![h] = {[row |-> i, says |-> "answered"] : i \in Undelivered}]
    /\ UNCHANGED <<asker, sender, todo, stray, other, hand, late, faults, cut>>

RetryDeliveryPending(h) ==
    /\ hand[h] = Idle /\ list[h] = {} /\ paired /\ Undelivered # {}
    /\ list' = [list EXCEPT ![h] = {[row |-> i, says |-> row[i].says] : i \in Undelivered}]
    /\ UNCHANGED <<asker, sender, todo, stray, other, hand, late, faults, cut>>

RetryItem(h, m) ==
    /\ hand[h] = Idle /\ m \in list[h]
    /\ list' = [list EXCEPT ![h] = @ \ {m}]
    /\ Posts(h, m.row, m.says, TRUE)
    /\ UNCHANGED <<asker, sender, todo, stray, other, late, faults, cut>>

FinishAsk(h) ==
    /\ HandAt(h, {"landed"})
    /\ row' = [row EXCEPT ![hand[h].row].status = "decided"]
    /\ hand' = [hand EXCEPT ![h] = Idle]
    /\ UNCHANGED <<asker, sender, todo, stray, paired, agreed, list, late, faults, cut>>

\* mutant: the verdict is not kept with the row
StashBare(h) ==
    /\ HandAt(h, {"failed"})
    /\ row' = [row EXCEPT ![hand[h].row].status = "delivery_pending"]
    /\ hand' = [hand EXCEPT ![h] = Idle]
    /\ UNCHANGED <<asker, sender, todo, stray, paired, agreed, list, late, faults, cut>>

\* mutant: a failed delivery moves the row to the decided ones
StashDecided(h) ==
    /\ HandAt(h, {"failed"})
    /\ row' = [row EXCEPT ![hand[h].row].status = "decided"]
    /\ hand' = [hand EXCEPT ![h] = Idle]
    /\ UNCHANGED <<asker, sender, todo, stray, paired, agreed, list, late, faults, cut>>

\* a failed retry leaves its row as it is
Stash(h) ==
    /\ HandAt(h, {"failed"})
    /\ row' = IF hand[h].again THEN row
              ELSE [row EXCEPT ![hand[h].row].status = "delivery_pending",
                               ![hand[h].row].says = hand[h].says]
    /\ hand' = [hand EXCEPT ![h] = Idle]
    /\ UNCHANGED <<asker, sender, todo, stray, paired, agreed, list, late, faults, cut>>

-----------------------------------------------------------------------------
(* handle_answer at the asker, for the answer v to a: it looks whether the *)
(* ask is outstanding, clears the mailbox, and records, each by itself.    *)
Lands(a, v, step, next) ==
    \/ /\ step = "post"
       /\ next = IF sent[a] \in Outstanding THEN "checked" ELSE "failed"
       /\ UNCHANGED asker
    \/ /\ step = "checked" /\ next = "recording"
       /\ mailbox' = mailbox \ {a}
       /\ UNCHANGED <<sent, shown>>
    \/ /\ step = "recording" /\ next = "landed"
       /\ sent' = [sent EXCEPT ![a] = v]
       /\ shown' = [shown EXCEPT ![a] = @ \cup {v}]
       /\ UNCHANGED mailbox

Land(h, s) ==
    /\ HandAt(h, Landing)
    /\ Lands(row[hand[h].row].ask, hand[h].says, hand[h].step, s)
    /\ hand' = [hand EXCEPT ![h].step = s]
    /\ UNCHANGED <<sender, todo, stray, other, list, late, faults, cut>>

LandLate(m, s) ==
    /\ m \in late
    /\ Lands(m.ask, m.says, m.step, s)
    /\ late' = (late \ {m}) \cup {n \in {[m EXCEPT !.step = s]} : s \in Landing}
    /\ UNCHANGED <<sender, todo, stray, other, hand, list, faults, cut>>

Message(h) == [ask |-> row[hand[h].row].ask, says |-> hand[h].says, step |-> hand[h].step]

GiveUpAnswer(h) ==
    /\ HandAt(h, Landing) /\ Fault
    /\ late' = late \cup {Message(h)}
    /\ hand' = [hand EXCEPT ![h].step = "failed"]
    /\ UNCHANGED <<asker, sender, todo, stray, other, list, cut>>

-----------------------------------------------------------------------------
AskerExits ==
    /\ Fault
    /\ cut' = cut \cup {sender[t].ask : t \in {u \in Senders :
                          sender[u] # Idle /\ ~sender[u].box /\ sender[u].step # "mark"}}
    /\ stray' = [a \in Asks |-> stray[a] +
                   Cardinality({t \in Senders : At(t, "post") /\ sender[t].ask = a})]
    /\ sender' = [t \in Senders |-> Idle] /\ todo' = [t \in Senders |-> {}]
    /\ late' = {}
    /\ hand' = [h \in Hands |-> IF HandAt(h, Landing)
                                THEN [hand[h] EXCEPT !.step = "failed"] ELSE hand[h]]
    /\ UNCHANGED <<asker, other, list>>

OtherExits ==
    /\ Fault
    /\ late' = late \cup {Message(h) : h \in {k \in Hands : HandAt(k, Landing)}}
    /\ hand' = [h \in Hands |-> Idle] /\ list' = [h \in Hands |-> {}]
    /\ stray' = [a \in Asks |-> 0]
    /\ sender' = [t \in Senders |-> IF At(t, "post")
                                    THEN [sender[t] EXCEPT !.step = "enqueue"] ELSE sender[t]]
    /\ UNCHANGED <<asker, todo, other, cut>>

SenderStep(t) ==
    \/ \E r \in Replies : Handled(t, r) \/ Replied(t, r)
    \/ NotPaired(t) \/ Enqueue(t) \/ MarkQueued(t) \/ RemoveRow(t)
    \/ \E a \in Asks : FlushItem(t, a)

HandStep(h) ==
    \/ \E s \in Steps : Land(h, s)
    \/ \E m \in list[h] : RetryItem(h, m)
    \/ FinishAsk(h) \/ Stash(h)

Next ==
    \/ \E t \in Senders :
          \/ \E a \in Asks : Ask(t, a)
          \/ Flush(t) \/ SenderStep(t) \/ GiveUp(t)
    \/ \E a \in Asks, r \in Replies : HandleStray(a, r)
    \/ \E h \in Hands :
          \/ \E i \in Ids, v \in Says : DecideAsk(h, i, v)
          \/ RetryDeliveryPending(h) \/ HandStep(h) \/ GiveUpAnswer(h)
    \/ \E m \in late, s \in Steps : LandLate(m, s)
    \/ Revoke \/ AskerExits \/ OtherExits

Spec == Init /\ [][Next]_vars

(* Threads run, and the heartbeat comes round on both sides (_ping_loop).  *)
(* Nothing is assumed of people, nor of a request whose caller gave up.    *)
Fairness ==
    /\ \A t \in Senders : WF_vars(SenderStep(t)) /\ WF_vars(Flush(t))
    /\ \A h \in Hands : WF_vars(HandStep(h)) /\ WF_vars(RetryDeliveryPending(h))

FairSpec == Spec /\ Fairness

-----------------------------------------------------------------------------
(* Typed state; a row that waits for its delivery carries its verdict.     *)
TypeOK ==
    /\ sent \in [Asks -> {"none", "refused"} \cup Outstanding \cup Says]
    /\ mailbox \subseteq Asks
    /\ sender \in [Senders -> Sending \cup {Idle}]
    /\ todo \in [Senders -> SUBSET Asks]
    /\ stray \in [Asks -> Nat]
    /\ row \in [Ids -> Row \cup {Idle}]
    /\ \A i \in Undelivered : row[i].says \in Says
    /\ hand \in [Hands -> Saying \cup {Idle}]
    /\ \A h \in Hands : hand[h] # Idle => hand[h].row \in Used
    /\ list \in [Hands -> SUBSET [row: Ids, says: Says]]
    /\ \A h \in Hands : \A m \in list[h] : m.row \in Used
    /\ late \subseteq [ask: Asks, says: Says, step: Landing]
    /\ paired \in BOOLEAN /\ faults \in Nat
    /\ agreed \in [Asks -> SUBSET Says] /\ shown \in [Asks -> SUBSET Says]
    /\ cut \subseteq Asks

(* What the asker takes for the result is a verdict of the other's human   *)
(* or policy on that ask, through stashes, retries, late answers and two   *)
(* verdicts on one row: a refusal is never delivered as an answer.         *)
ShownIsAgreed == \A a \in Asks : shown[a] \subseteq agreed[a]

(* The two sides keep Consultation: besides, a verdict is given on what    *)
(* was asked, and no result is taken back.                                 *)
Talk == INSTANCE Consultation
    WITH Questions <- Asks, Verdicts <- Says, put <- {a \in Asks : sent[a] # "none"},
         given <- agreed, told <- shown
KeepsConsultation == Talk!ConsultationSpec

(* An ask without a result is never forgotten: it is in a sender's hands,  *)
(* in the mailbox, or in an open row of the other ("never silently drop",  *)
(* mailbox_enqueue; "keep the row (and payload)", _OPEN_ASK_STATUSES).     *)
Held(a) ==
    \/ a \in mailbox
    \/ \E t \in Senders : sender[t] # Idle /\ sender[t].ask = a
    \/ \E i \in OpenRows : row[i].ask = a

NoAskForgotten ==
    \A a \in Asks : sent[a] \in Outstanding => a \in cut \/ shown[a] # {} \/ Held(a)

(* While the two are paired, a mailbox row leaves, unless the other's      *)
(* queue is full (flush_mailbox), and a verdict whose delivery failed is   *)
(* shown to the asker in the end, unless it was told that its question was *)
(* refused (retry_delivery_pending).                                       *)
MailboxDrains ==
    \A a \in Asks : a \in mailbox ~>
        a \notin mailbox \/ Cardinality(OpenRows) >= MaxPending \/ ~paired

VerdictLands ==
    \A i \in Ids, a \in Asks :
        i \in Undelivered /\ row[i].ask = a
            ~> shown[a] # {} \/ sent[a] = "refused" \/ ~paired

NothingWaitsForEver == MailboxDrains /\ VerdictLands

(* "delivery_pending still occupies a slot until the outbound lands"       *)
(* (peer_channel.py:1906): a row whose answer the asker has is closed.     *)
LandedFreesSlot ==
    \A i \in Ids : i \in Undelivered /\ shown[row[i].ask] # {}
            ~> i \notin Undelivered \/ ~paired

(* "every direction dies" (peer_channel.py:442): after a revoke nothing is *)
(* said to the asker any more.  A verdict under way is.                    *)
SilentOnceRevoked == [][~paired => shown' = shown]_vars

(* An answered ask stays answered.  The reply "pending" may come after it. *)
AnsweredStays ==
    [][\A a \in Asks : sent[a] \in Says => sent'[a] \in Says]_vars
=============================================================================
