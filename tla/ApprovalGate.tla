---------------------------- MODULE ApprovalGate ----------------------------
(***************************************************************************)
(* The gate between an agent and what cannot be undone: the browser lane   *)
(* that blocks on a human (app/services/agent_bridge.py, AgentWorker), the *)
(* request threads that answer it, and the browser agent's loop from       *)
(* request_approval to the commit click (browser_agent/orchestrator.py).   *)
(*                                                                         *)
(* The lane is one thread: it mints a packet, asks, and waits for an       *)
(* event.  Requests check under the worker's lock and answer after it; the *)
(* answer is one slot and one event, not a message to a packet.            *)
(*                                                                         *)
(* A packet stands for its row, id and payload hash: fields are executed   *)
(* as bound (_about_to_execute_fields is set by tests only), so expiry is  *)
(* what the bind check can find.  The packet an edit mints is never asked  *)
(* about.  Left out: the fast lane (the same code, a slot and an event of  *)
(* its own), autonomous and dry runs, policy, duplicate sends, the desktop *)
(* driver's own binding, offers, the new goal after a refusal.             *)
(***************************************************************************)
EXTENDS Integers, FiniteSets

CONSTANTS
    Requests,       \* request threads of the web layer
    MaxPackets,     \* bound: packets minted
    MaxResets,      \* bound: new chats
    None            \* no packet, no request

Packets == 1..MaxPackets
Says == {"approve", "refuse"}    \* refuse: cancel, or edit
Answers == [says: Says, quotes: Packets \cup {None}]
\* what the slot says when it is no approval
NoAnswer == [says |-> "refuse", quotes |-> None]     \* _answer = "cancel"

Blocked == {"asked", "waiting", "woken"}      \* in _on_ask
Places == Blocked \cup {"run", "minted", "verdict", "gate", "again", "click"}
Reasons == {"question", "request", "commit", "rebind"}

Steps == {"resolve", "check", "row", "write", "set"}

ASSUME ApprovalAssumption ==
    /\ MaxPackets \in Nat /\ MaxResets \in Nat
    /\ None \notin Packets
    /\ None \notin [step: Steps, answer: Answers]

VARIABLES
    at, why,        \* the lane: its place, and what it asks for
    pending,        \* _pending_approval_packet
    awaiting, epoch, answer, ready,     \* awaiting, epoch, _answer, _answer_ev
    heard,          \* the answer _on_ask returned
    gate,           \* _gate_epoch
    minted, decided,        \* action_packets: the last id, the rows with a decision
    approved, bound,        \* approved_commit, and whether there is a _bound_packet
    request,        \* each request thread: its step and answer
    \* history
    dropped,        \* packets asked about when a new chat began
    credit,         \* approvals of this run less its commit clicks
    refused,        \* the last verdict of this run was a refusal
    crossed         \* a request met another, an answer not yet taken, or a new chat

lane  == <<at, why, pending>>
ask   == <<awaiting, epoch, heard>>
slot  == <<answer, ready>>
table == <<minted, decided>>
loop  == <<approved, bound>>
said  == <<credit, refused>>
vars == <<lane, ask, slot, gate, table, loop, request, said, dropped, crossed>>

Init ==
    /\ at = "run" /\ why = "question" /\ pending = None
    /\ awaiting = FALSE /\ epoch = 0 /\ gate = 0
    /\ answer = NoAnswer /\ ready = FALSE /\ heard = NoAnswer
    /\ minted = 0 /\ decided = {}
    /\ approved = FALSE /\ bound = FALSE
    /\ request = [r \in Requests |-> None]
    /\ dropped = {} /\ credit = 0 /\ refused = FALSE /\ crossed = FALSE

-----------------------------------------------------------------------------
(* The lane asks.                                                          *)
\* _approval_decision: record_packet, _set_pending_approval_packet
Mint(reason) ==
    /\ minted < MaxPackets
    /\ minted' = minted + 1
    /\ pending' = minted + 1
    /\ at' = "minted" /\ why' = reason
    /\ UNCHANGED decided

RequestApproval ==
    /\ at = "run"
    /\ Mint("request")
    /\ UNCHANGED <<ask, slot, gate, loop, request, said, dropped, crossed>>

AskHuman ==
    /\ at = "run"
    /\ at' = "minted" /\ why' = "question"
    /\ UNCHANGED <<pending, ask, slot, gate, table, loop, request, said, dropped, crossed>>

\* _on_ask: the question is public before the event is cleared
BeginAsk ==
    /\ at = "minted" /\ at' = "asked"
    /\ epoch' = gate /\ awaiting' = TRUE
    /\ UNCHANGED <<why, pending, heard, slot, gate, table, loop, request, said, dropped, crossed>>

\* mutant: the event of the ask before is left set
ClearsNothing ==
    /\ at = "asked" /\ at' = "waiting"
    /\ UNCHANGED <<why, pending, ask, slot, gate, table, loop, request, said, dropped, crossed>>

ClearEvent ==
    /\ at = "asked" /\ at' = "waiting"
    /\ ready' = FALSE
    /\ UNCHANGED <<why, pending, ask, answer, gate, table, loop, request, said, dropped, crossed>>

Answered ==
    /\ at = "waiting" /\ ready
    /\ at' = "woken"
    /\ UNCHANGED <<why, pending, ask, slot, gate, table, loop, request, said, dropped, crossed>>

\* mutant: the loop writes the cancel and does not break
PollsOn ==
    /\ at = "waiting" /\ epoch # gate
    /\ answer' = NoAnswer
    /\ UNCHANGED <<lane, ask, ready, gate, table, loop, request, said, dropped, crossed>>

\* the wait's time-out finds a new epoch
Polls ==
    /\ at = "waiting" /\ epoch # gate
    /\ at' = "woken" /\ answer' = NoAnswer
    /\ UNCHANGED <<why, pending, ask, ready, gate, table, loop, request, said, dropped, crossed>>

\* mutant: the epoch is not looked at again after the wait
TakeAnswerAsIs ==
    /\ at = "woken" /\ at' = "verdict"
    /\ heard' = answer /\ awaiting' = FALSE
    /\ UNCHANGED <<why, pending, epoch, slot, gate, table, loop, request, said, dropped, crossed>>

TakeAnswer ==
    /\ at = "woken" /\ at' = "verdict"
    /\ answer' = IF epoch # gate THEN NoAnswer ELSE answer
    /\ heard' = answer' /\ awaiting' = FALSE
    /\ UNCHANGED <<why, pending, epoch, ready, gate, table, loop, request, said, dropped, crossed>>

-----------------------------------------------------------------------------
(* What the agent makes of it.                                             *)
\* the locals of the ask are gone
Forgets == why' = "question" /\ epoch' = 0 /\ heard' = NoAnswer

HearReply ==
    /\ at = "verdict" /\ why = "question"
    /\ at' = "run" /\ Forgets
    /\ UNCHANGED <<pending, awaiting, slot, gate, table, loop, request, said, dropped, crossed>>

\* mutant: the packet stays pending after the verdict
DecidedPends ==
    /\ at = "verdict" /\ why # "question"
    /\ decided' = decided \cup {pending}
    /\ Forgets
    /\ UNCHANGED <<pending, awaiting, slot, gate, minted, request, dropped, crossed>>

\* _approval_decision after the ask: record_decision, bind or clear
Decided ==
    /\ at = "verdict" /\ why # "question"
    /\ decided' = decided \cup {pending}
    /\ pending' = None
    /\ Forgets
    /\ UNCHANGED <<awaiting, slot, gate, minted, request, dropped, crossed>>

Approve ==
    /\ heard.says = "approve"
    /\ Decided
    /\ bound' = TRUE
    /\ credit' = credit + 1 /\ refused' = FALSE
    /\ \/ why = "request" /\ approved' = TRUE /\ at' = "run"
       \/ why = "commit" /\ at' = "gate" /\ UNCHANGED approved
       \/ why = "rebind" /\ at' = "again" /\ UNCHANGED approved

\* cancel or edit: approved_commit stays what it was
Refuse ==
    /\ heard.says = "refuse"
    /\ Decided
    /\ at' = "run"
    /\ bound' = FALSE /\ refused' = TRUE
    /\ UNCHANGED <<approved, credit>>

-----------------------------------------------------------------------------
(* The browser agent's loop around an irreversible click.                  *)
\* mutant: the approval that covers the next click covers all that follow
ToCommitKeeps ==
    /\ at = "run"
    /\ \/ /\ approved
          /\ at' = "gate"
          /\ UNCHANGED <<why, pending, table>>
       \/ /\ ~approved
          /\ Mint("commit")
    /\ UNCHANGED <<ask, slot, gate, loop, request, said, dropped, crossed>>

ToCommit ==
    /\ at = "run"
    /\ \/ /\ approved
          /\ approved' = FALSE
          /\ at' = "gate"
          /\ UNCHANGED <<why, pending, table>>
       \/ /\ ~approved
          /\ Mint("commit")
          /\ UNCHANGED approved
    /\ UNCHANGED <<ask, slot, gate, bound, request, said, dropped, crossed>>

\* _run_approval_bind_gate: an expired packet is asked about again, once
BindGate ==
    /\ at = "gate"
    /\ \/ /\ at' = "click"
          /\ UNCHANGED <<why, pending, bound, table>>
       \/ /\ bound
          /\ bound' = FALSE
          /\ Mint("rebind")
    /\ UNCHANGED <<ask, slot, gate, approved, request, said, dropped, crossed>>

BindAgain ==
    /\ at = "again"
    /\ \/ at' = "click" /\ UNCHANGED bound
       \/ at' = "run" /\ bound' = FALSE
    /\ UNCHANGED <<why, pending, ask, slot, gate, table, approved, request, said, dropped, crossed>>

\* the click changed nothing and the loop goes on, or it ended the run
CommitClick ==
    /\ at = "click" /\ at' = "run"
    /\ \/ credit' = credit - 1 /\ UNCHANGED <<approved, refused>>
       \/ approved' = FALSE /\ credit' = 0 /\ refused' = FALSE
    /\ UNCHANGED <<why, pending, ask, slot, gate, table, bound, request, dropped, crossed>>

RunEnds ==
    /\ at = "run"
    /\ approved' = FALSE /\ credit' = 0 /\ refused' = FALSE
    /\ UNCHANGED <<lane, ask, slot, gate, table, bound, request, dropped, crossed>>

-----------------------------------------------------------------------------
(* Request threads.                                                        *)
Is(r, step) == request[r] # None /\ request[r].step = step

Moves(r, to) == request' = [request EXCEPT ![r] = to]

Asks(step, says, quotes) == [step |-> step, answer |-> [says |-> says, quotes |-> quotes]]

OnlyRequest == UNCHANGED <<lane, ask, slot, gate, table, loop, said, dropped>>

Busy == \E r \in Requests : request[r] # None
Untaken == at \in {"waiting", "woken"} /\ ready

Arrives(r) == request[r] = None /\ crossed' = (crossed \/ Busy \/ Untaken)

\* decide_approval by button, with the packet that was shown
Decide(r, p, s) ==
    /\ Arrives(r) /\ p \in 1..minted
    /\ Moves(r, Asks("check", s, p))
    /\ OnlyRequest

\* handle_reply: a chat reply to the question that is open
Reply(r, s) ==
    /\ Arrives(r) /\ awaiting
    /\ Moves(r, Asks(IF why # "question" /\ s = "approve" THEN "resolve" ELSE "write", s, None))
    /\ OnlyRequest

\* the typed approval takes the packet that is pending now
Resolve(r) ==
    /\ Is(r, "resolve")
    /\ Moves(r, IF pending = None THEN None ELSE Asks("check", "approve", pending))
    /\ OnlyRequest /\ UNCHANGED crossed

\* under the lock: is somebody waiting, and for this packet?
Check(r) ==
    /\ Is(r, "check")
    /\ Moves(r, IF awaiting /\ pending = request[r].answer.quotes
                THEN [request[r] EXCEPT !.step = "row"] ELSE None)
    /\ OnlyRequest /\ UNCHANGED crossed

\* the row: decided by now, or its time is over, or good
CheckRow(r) ==
    /\ Is(r, "row")
    /\ \/ Moves(r, None)
       \/ /\ request[r].answer.quotes \notin decided
          /\ Moves(r, [request[r] EXCEPT !.step = "write"])
    /\ OnlyRequest /\ UNCHANGED crossed

\* submit_answer: the slot under the lock, then the event
Write(r) ==
    /\ Is(r, "write")
    /\ answer' = IF request[r].answer.says = "approve" THEN request[r].answer ELSE NoAnswer
    /\ Moves(r, [request[r] EXCEPT !.step = "set"])
    /\ UNCHANGED <<lane, ask, ready, gate, table, loop, said, dropped, crossed>>

SetEvent(r) ==
    /\ Is(r, "set")
    /\ ready' = TRUE
    /\ Moves(r, None)
    /\ UNCHANGED <<lane, ask, answer, gate, table, loop, said, dropped, crossed>>

\* new(): _release_gates, in one critical section
NewChat ==
    /\ gate < MaxResets
    /\ gate' = gate + 1
    /\ awaiting' = FALSE /\ answer' = NoAnswer /\ ready' = TRUE
    /\ dropped' = IF at \in Blocked THEN dropped \cup {pending} ELSE dropped
    /\ crossed' = (crossed \/ Busy)
    /\ UNCHANGED <<lane, epoch, heard, table, loop, request, said>>

-----------------------------------------------------------------------------
AskStep ==
    \/ BeginAsk \/ ClearEvent \/ Answered \/ Polls \/ TakeAnswer
    \/ HearReply \/ Approve \/ Refuse

GoesOn(r) == Resolve(r) \/ Check(r) \/ CheckRow(r) \/ Write(r) \/ SetEvent(r)

Next ==
    \/ RequestApproval \/ AskHuman \/ AskStep
    \/ ToCommit \/ BindGate \/ BindAgain \/ CommitClick \/ RunEnds
    \/ \E r \in Requests :
          \/ \E p \in Packets, s \in Says : Decide(r, p, s)
          \/ \E s \in Says : Reply(r, s)
          \/ GoesOn(r)
    \/ NewChat

Spec == Init /\ [][Next]_vars

\* The lane's thread runs, its wait times out every 200 ms, and a request goes
\* on; nobody has to answer.
Fairness == WF_vars(AskStep) /\ \A r \in Requests : WF_vars(GoesOn(r))

FairSpec == Spec /\ Fairness

-----------------------------------------------------------------------------
(* Typed state; there is a pending packet exactly while approval is asked. *)
TypeOK ==
    /\ at \in Places /\ why \in Reasons
    /\ pending \in Packets \cup {None}
    /\ pending # None <=> at \in Blocked \cup {"minted", "verdict"} /\ why # "question"
    /\ awaiting \in BOOLEAN /\ ready \in BOOLEAN
    /\ gate \in 0..MaxResets /\ epoch \in 0..gate
    /\ answer \in Answers /\ heard \in Answers
    /\ minted \in 0..MaxPackets
    /\ decided \subseteq 1..minted
    /\ approved \in BOOLEAN /\ bound \in BOOLEAN
    /\ request \in [Requests -> [step: Steps, answer: Answers] \cup {None}]
    /\ dropped \subseteq Packets \cup {None}
    /\ credit \in Int /\ refused \in BOOLEAN /\ crossed \in BOOLEAN

(* One approval, one irreversible click of the run: whatever is approved   *)
(* ahead, asked again at the click, re-asked when it has expired or        *)
(* cancelled by a new chat (approved_commit: "a fresh request_approval     *)
(* covers the next commit click").                                         *)
OneClickEach ==
    credit >= (IF at \in {"gate", "again", "click"} THEN 1 ELSE 0)
                + (IF approved THEN 1 ELSE 0)

(* An approval counts for the packet it quoted and for no other            *)
(* (decide_approval: "Stale/drifted/expired hashes refuse"), as long as    *)
(* requests come one at a time, after the answer before was taken: the     *)
(* check and the answer are two steps, and the slot belongs to the lane,   *)
(* not to the packet.                                                      *)
ApprovalIsBound == [][Approve => heard.quotes = pending \/ crossed]_vars

(* The gate keeps Consent: a question is settled once, an approval buys one *)
(* click, and a question that was open when a new chat began is cancelled,  *)
(* however late an approval of it still arrives (_on_ask: "the epoch check  *)
(* is what makes that reset stick").                                        *)
Asked == INSTANCE Consent
    WITH Questions <- Packets, Nothing <- None, open <- pending, settled <- decided,
         withdrawn <- dropped \ {None}, allowance <- credit
KeepsConsent == Asked!ConsentSpec

(* And the lane that asked it comes free, although the reset's event may   *)
(* have been cleared before the lane waited for it.                        *)
ResetFreesLane == (at \in Blocked /\ epoch # gate) ~> at \notin Blocked

(* "Not approved -- the user wants changes first" (orchestrator.py:2406):  *)
(* no irreversible click follows a refusal or an edit but by a new         *)
(* approval.                                                               *)
ClickFollowsApproval == at = "click" => ~refused

(* Not kept, and in no run: an approval the worker accepted for the lane's *)
(* question ends the wait (its event may be cleared before the lane waits  *)
(* for it).                                                                *)
AcceptedIsHeard ==
    (at = "waiting" /\ pending # None /\ answer.quotes = pending
       /\ answer.says = "approve") ~> at # "waiting"
=============================================================================
