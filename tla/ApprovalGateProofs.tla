------------------------- MODULE ApprovalGateProofs -------------------------
(***************************************************************************)
(* No approval counts twice, for another packet, or after a new chat, for  *)
(* every number of requests, packets and chats.                            *)
(*                                                                         *)
(* The slot is safe because of who may write it when.  A request that      *)
(* passed its check keeps the lane in its ask, as long as it is alone; the *)
(* slot it leaves is read by that ask or cleared before the next one.      *)
(***************************************************************************)
EXTENDS ApprovalGate, TLAPS

\* A packet is numbered before it is asked about or dropped.
Numbered ==
    /\ pending # None => pending \in 1..minted
    /\ dropped \subseteq 1..minted \cup {None}

\* A dropped question is seen to be of an older chat, or was cancelled.
DroppedIsOld ==
    pending # None /\ pending \in dropped =>
        \/ at \in Blocked /\ epoch # gate
        \/ at = "verdict" /\ heard.says # "approve"

\* A packet is asked about before its decision.
Undecided == pending # None => pending \notin decided

\* a says what the lane may act on
Good(a) == a.says = "approve" /\ why # "question" => a.quotes = pending

Acting == {"row", "write", "set"}

\* Requests that never met: one is open, the lane it answers still waits for
\* it, and no answer is left in the slot that nobody has taken.
Alone ==
    /\ \A r, s \in Requests : request[r] # None /\ request[s] # None => r = s
    /\ \A r \in Requests : request[r] # None => ~(at \in {"waiting", "woken"} /\ ready)
    /\ \A r \in Requests : request[r] # None /\ request[r].step \in Acting =>
          /\ at \in {"asked", "waiting"} /\ epoch = gate
          /\ Good(request[r].answer)
    /\ \A r \in Requests : Is(r, "set") => Good(answer)

\* What the lane will hear is good.
HearsGood ==
    /\ at = "waiting" /\ ready => Good(answer)
    /\ at = "woken" /\ epoch = gate => ready /\ Good(answer)
    /\ at = "verdict" => Good(heard)

\* The question is public while the lane is in its ask, unless a new chat
\* withdrew it.
Public == awaiting => at \in Blocked /\ epoch = gate

IInv ==
    /\ TypeOK /\ OneClickEach /\ Numbered /\ Undecided /\ DroppedIsOld /\ Public
    /\ ~crossed => Alone /\ HearsGood

-----------------------------------------------------------------------------
(* Types, and the packets' numbers.                                         *)

LEMMA NoAnswerType == NoAnswer \in Answers
BY DEF NoAnswer, Answers, Says

\* TypeOK and Numbered in three parts, each within reach of one prover.
Numbers ==
    /\ gate \in 0..MaxResets /\ epoch \in 0..gate
    /\ minted \in 0..MaxPackets /\ decided \subseteq 1..minted
    /\ pending \in Packets \cup {None} /\ dropped \subseteq Packets \cup {None}
    /\ credit \in Int
    /\ Numbered

Flags ==
    /\ awaiting \in BOOLEAN /\ ready \in BOOLEAN
    /\ approved \in BOOLEAN /\ bound \in BOOLEAN
    /\ refused \in BOOLEAN /\ crossed \in BOOLEAN

Rest ==
    /\ at \in Places /\ why \in Reasons
    /\ pending # None <=> at \in Blocked \cup {"minted", "verdict"} /\ why # "question"
    /\ answer \in Answers /\ heard \in Answers
    /\ request \in [Requests -> [step: Steps, answer: Answers] \cup {None}]

LEMMA Typed ==
    ASSUME TypeOK, Numbered, [Next]_vars
    PROVE  TypeOK' /\ Numbered'
<1> USE ApprovalAssumption, NoAnswerType
    DEF TypeOK, Numbered, Numbers, Flags, Rest, Packets, Places, Blocked, Reasons,
        lane, ask, slot, table, loop, said
<1>1. CASE RequestApproval
  BY <1>1 DEF RequestApproval, Mint
<1>2. CASE AskHuman
  BY <1>2 DEF AskHuman
<1>3. CASE BeginAsk
  BY <1>3 DEF BeginAsk
<1>4. CASE ClearEvent
  BY <1>4 DEF ClearEvent
<1>5. CASE Answered
  BY <1>5 DEF Answered
<1>6. CASE Polls
  BY <1>6 DEF Polls
<1>7. CASE TakeAnswer
  BY <1>7 DEF TakeAnswer
<1>8. CASE HearReply
  BY <1>8 DEF HearReply, Forgets
<1>9. CASE Approve
  <2>1. Numbers'
    BY <1>9 DEF Approve, Decided, Forgets, Busy
  <2>2. Flags'
    BY <1>9, Zenon DEF Approve, Decided, Forgets, Busy
  <2>3. Rest'
    BY <1>9 DEF Approve, Decided, Forgets, Busy
  <2> QED
    BY <2>1, <2>2, <2>3
<1>10. CASE Refuse
  <2>1. Numbers'
    BY <1>10 DEF Refuse, Decided, Forgets, Busy
  <2>2. Flags'
    BY <1>10, Zenon DEF Refuse, Decided, Forgets, Busy
  <2>3. Rest'
    BY <1>10 DEF Refuse, Decided, Forgets, Busy
  <2> QED
    BY <2>1, <2>2, <2>3
<1>11. CASE ToCommit
  <2>1. Numbers'
    <3>1. CASE Mint("commit")
      BY <1>11, <3>1 DEF ToCommit, Mint
    <3>2. CASE UNCHANGED <<pending, table>>
      BY <1>11, <3>2 DEF ToCommit
    <3> QED
      BY <1>11, <3>1, <3>2 DEF ToCommit
  <2>2. Flags'
    BY <1>11, Zenon DEF ToCommit, Mint, Busy
  <2>3. Rest'
    BY <1>11 DEF ToCommit, Mint, Busy
  <2> QED
    BY <2>1, <2>2, <2>3
<1>12. CASE BindGate
  <2>1. Numbers'
    <3>1. CASE Mint("rebind")
      BY <1>12, <3>1 DEF BindGate, Mint
    <3>2. CASE UNCHANGED <<pending, table>>
      BY <1>12, <3>2 DEF BindGate
    <3> QED
      BY <1>12, <3>1, <3>2 DEF BindGate
  <2>2. Flags'
    BY <1>12, Zenon DEF BindGate, Mint, Busy
  <2>3. Rest'
    BY <1>12 DEF BindGate, Mint, Busy
  <2> QED
    BY <2>1, <2>2, <2>3
<1>13. CASE BindAgain
  BY <1>13 DEF BindAgain
<1>14. CASE CommitClick
  <2>1. Numbers'
    BY <1>14 DEF CommitClick, Busy
  <2>2. Flags'
    BY <1>14, Zenon DEF CommitClick, Busy
  <2>3. Rest'
    BY <1>14 DEF CommitClick, Busy
  <2> QED
    BY <2>1, <2>2, <2>3
<1>15. CASE RunEnds
  <2>1. Numbers'
    BY <1>15 DEF RunEnds, Busy
  <2>2. Flags'
    BY <1>15, Zenon DEF RunEnds, Busy
  <2>3. Rest'
    BY <1>15 DEF RunEnds, Busy
  <2> QED
    BY <2>1, <2>2, <2>3
<1>16. CASE NewChat
  <2>1. Numbers'
    BY <1>16 DEF NewChat, Busy
  <2>2. Flags'
    BY <1>16, Zenon DEF NewChat, Busy
  <2>3. Rest'
    BY <1>16 DEF NewChat, Busy
  <2> QED
    BY <2>1, <2>2, <2>3
<1>17. ASSUME NEW r \in Requests, NEW p \in Packets, NEW s \in Says, Decide(r, p, s)
      PROVE  TypeOK' /\ Numbered'
  BY <1>17 DEF Decide, Arrives, Asks, Busy, Untaken, Answers, Says, Steps, Is, Moves, OnlyRequest
<1>18. ASSUME NEW r \in Requests, NEW s \in Says, Reply(r, s)
      PROVE  TypeOK' /\ Numbered'
  BY <1>18 DEF Reply, Arrives, Asks, Busy, Untaken, Answers, Says, Steps, Is, Moves, OnlyRequest
<1>19. ASSUME NEW r \in Requests, Resolve(r) PROVE TypeOK' /\ Numbered'
  BY <1>19 DEF Resolve, Asks, Answers, Says, Steps, Is, Moves, OnlyRequest
<1>20. ASSUME NEW r \in Requests, Check(r) PROVE TypeOK' /\ Numbered'
  BY <1>20 DEF Check, Asks, Answers, Says, Steps, Is, Moves, OnlyRequest
<1>21. ASSUME NEW r \in Requests, CheckRow(r) PROVE TypeOK' /\ Numbered'
  BY <1>21 DEF CheckRow, Asks, Answers, Says, Steps, Is, Moves, OnlyRequest
<1>22. ASSUME NEW r \in Requests, Write(r) PROVE TypeOK' /\ Numbered'
  BY <1>22 DEF Write, Asks, Answers, Says, Steps, Is, Moves, OnlyRequest
<1>23. ASSUME NEW r \in Requests, SetEvent(r) PROVE TypeOK' /\ Numbered'
  BY <1>23 DEF SetEvent, Asks, Answers, Says, Steps, Is, Moves, OnlyRequest
<1>24. CASE UNCHANGED vars
  BY <1>24 DEF vars, lane, ask, slot, table, loop, said, Is
<1> QED
  BY <1>1, <1>2, <1>3, <1>4, <1>5, <1>6, <1>7, <1>8, <1>9, <1>10, <1>11, <1>12,
     <1>13, <1>14, <1>15, <1>16, <1>17, <1>18, <1>19, <1>20, <1>21, <1>22, <1>23, <1>24
     DEF Next, AskStep, GoesOn

-----------------------------------------------------------------------------
(* One approval, one click.                                                 *)

LEMMA Credit ==
    ASSUME TypeOK, OneClickEach, [Next]_vars
    PROVE  OneClickEach'
<1> USE DEF TypeOK, OneClickEach, lane, ask, slot, table, loop, said
<1>1. CASE RequestApproval
  BY <1>1 DEF RequestApproval, Mint
<1>2. CASE AskHuman
  BY <1>2 DEF AskHuman
<1>3. CASE BeginAsk
  BY <1>3 DEF BeginAsk
<1>4. CASE ClearEvent
  BY <1>4 DEF ClearEvent
<1>5. CASE Answered
  BY <1>5 DEF Answered
<1>6. CASE Polls
  BY <1>6 DEF Polls
<1>7. CASE TakeAnswer
  BY <1>7 DEF TakeAnswer
<1>8. CASE HearReply
  BY <1>8 DEF HearReply, Forgets
<1>9. CASE Approve
  BY <1>9 DEF Approve, Decided, Forgets
<1>10. CASE Refuse
  BY <1>10 DEF Refuse, Decided, Forgets
<1>11. CASE ToCommit
  BY <1>11 DEF ToCommit, Mint
<1>12. CASE BindGate
  BY <1>12 DEF BindGate, Mint
<1>13. CASE BindAgain
  BY <1>13 DEF BindAgain
<1>14. CASE CommitClick
  BY <1>14 DEF CommitClick
<1>15. CASE RunEnds
  BY <1>15 DEF RunEnds
<1>16. CASE NewChat
  BY <1>16 DEF NewChat
<1>17. ASSUME NEW r \in Requests, NEW p \in Packets, NEW s \in Says, Decide(r, p, s)
      PROVE  OneClickEach'
  BY <1>17 DEF Decide, Arrives, Asks, Busy, Untaken, Is, Moves, OnlyRequest
<1>18. ASSUME NEW r \in Requests, NEW s \in Says, Reply(r, s)
      PROVE  OneClickEach'
  BY <1>18 DEF Reply, Arrives, Asks, Busy, Untaken, Is, Moves, OnlyRequest
<1>19. ASSUME NEW r \in Requests, Resolve(r) PROVE OneClickEach'
  BY <1>19 DEF Resolve, Asks, Is, Moves, OnlyRequest
<1>20. ASSUME NEW r \in Requests, Check(r) PROVE OneClickEach'
  BY <1>20 DEF Check, Asks, Is, Moves, OnlyRequest
<1>21. ASSUME NEW r \in Requests, CheckRow(r) PROVE OneClickEach'
  BY <1>21 DEF CheckRow, Asks, Is, Moves, OnlyRequest
<1>22. ASSUME NEW r \in Requests, Write(r) PROVE OneClickEach'
  BY <1>22 DEF Write, Asks, Is, Moves, OnlyRequest
<1>23. ASSUME NEW r \in Requests, SetEvent(r) PROVE OneClickEach'
  BY <1>23 DEF SetEvent, Asks, Is, Moves, OnlyRequest
<1>24. CASE UNCHANGED vars
  BY <1>24 DEF vars, lane, ask, slot, table, loop, said, Is
<1> QED
  BY <1>1, <1>2, <1>3, <1>4, <1>5, <1>6, <1>7, <1>8, <1>9, <1>10, <1>11, <1>12,
     <1>13, <1>14, <1>15, <1>16, <1>17, <1>18, <1>19, <1>20, <1>21, <1>22, <1>23, <1>24
     DEF Next, AskStep, GoesOn

-----------------------------------------------------------------------------
(* The gate keeps Consent.                                                  *)

\* A request changes no packet, no credit and nothing a chat dropped.
LEMMA RequestsOnlyAnswer ==
    ASSUME NEW r \in Requests,
           \/ \E p \in Packets, s \in Says : Decide(r, p, s)
           \/ \E s \in Says : Reply(r, s)
           \/ GoesOn(r)
    PROVE  UNCHANGED <<lane, table, said, dropped>>
<1>1. ASSUME NEW p \in Packets, NEW s \in Says, Decide(r, p, s)
      PROVE  UNCHANGED <<lane, table, said, dropped>>
  BY <1>1 DEF Decide, OnlyRequest
<1>2. ASSUME NEW s \in Says, Reply(r, s)
      PROVE  UNCHANGED <<lane, table, said, dropped>>
  BY <1>2 DEF Reply, OnlyRequest
<1>3. CASE GoesOn(r)
  BY <1>3 DEF GoesOn, Resolve, Check, CheckRow, Write, SetEvent, OnlyRequest
<1> QED
  BY <1>1, <1>2, <1>3

\* So do the steps of an ask but its verdict.
LEMMA AskingOnlyWaits ==
    ASSUME BeginAsk \/ ClearEvent \/ Answered \/ Polls \/ TakeAnswer \/ HearReply
    PROVE  UNCHANGED <<pending, table, said, dropped>>
BY DEF BeginAsk, ClearEvent, Answered, Polls, TakeAnswer, HearReply, Forgets

LEMMA UndecidedKept ==
    ASSUME TypeOK, Numbered, Undecided, [Next]_vars
    PROVE  Undecided'
<1> USE ApprovalAssumption DEF TypeOK, Numbered, Undecided, Packets, table
<1>1. ASSUME UNCHANGED <<pending, table>> PROVE Undecided'
  BY <1>1
<1>2. ASSUME NEW reason, Mint(reason) PROVE Undecided'
  BY <1>2 DEF Mint
<1>3. ASSUME Decided PROVE Undecided'
  BY <1>3 DEF Decided
<1>4. ASSUME UNCHANGED lane, UNCHANGED table PROVE Undecided'
  BY <1>4 DEF lane
<1>5. AskStep => Undecided'
  BY <1>1, <1>3, AskingOnlyWaits DEF AskStep, Approve, Refuse
<1>6. RequestApproval \/ ToCommit \/ BindGate => Undecided'
  BY <1>1, <1>2 DEF RequestApproval, ToCommit, BindGate
<1>7. AskHuman \/ BindAgain \/ CommitClick \/ RunEnds \/ NewChat \/ UNCHANGED vars => Undecided'
  BY <1>1, <1>4 DEF AskHuman, BindAgain, CommitClick, RunEnds, NewChat, vars, lane
<1>8. ASSUME NEW r \in Requests,
             \/ \E p \in Packets, s \in Says : Decide(r, p, s)
             \/ \E s \in Says : Reply(r, s)
             \/ GoesOn(r)
      PROVE  Undecided'
  BY <1>4, <1>8, RequestsOnlyAnswer
<1> QED
  BY <1>5, <1>6, <1>7, <1>8 DEF Next

-----------------------------------------------------------------------------
(* A new chat sticks.                                                       *)

LEMMA Old ==
    ASSUME TypeOK, Numbered, DroppedIsOld, [Next]_vars
    PROVE  DroppedIsOld'
<1> USE ApprovalAssumption DEF TypeOK, Numbered, DroppedIsOld, Blocked, NoAnswer, Packets,
        lane, ask, slot, table, loop, said
<1>1. CASE RequestApproval
  BY <1>1 DEF RequestApproval, Mint
<1>2. CASE AskHuman
  BY <1>2 DEF AskHuman
<1>3. CASE BeginAsk
  BY <1>3 DEF BeginAsk
<1>4. CASE ClearEvent
  BY <1>4 DEF ClearEvent
<1>5. CASE Answered
  BY <1>5 DEF Answered
<1>6. CASE Polls
  BY <1>6 DEF Polls
<1>7. CASE TakeAnswer
  BY <1>7 DEF TakeAnswer
<1>8. CASE HearReply
  BY <1>8 DEF HearReply, Forgets
<1>9. CASE Approve
  BY <1>9 DEF Approve, Decided, Forgets
<1>10. CASE Refuse
  BY <1>10 DEF Refuse, Decided, Forgets
<1>11. CASE ToCommit
  BY <1>11 DEF ToCommit, Mint
<1>12. CASE BindGate
  BY <1>12 DEF BindGate, Mint
<1>13. CASE BindAgain
  BY <1>13 DEF BindAgain
<1>14. CASE CommitClick
  BY <1>14 DEF CommitClick
<1>15. CASE RunEnds
  BY <1>15 DEF RunEnds
<1>16. CASE NewChat
  BY <1>16 DEF NewChat
<1>17. ASSUME NEW r \in Requests, NEW p \in Packets, NEW s \in Says, Decide(r, p, s)
      PROVE  DroppedIsOld'
  BY <1>17 DEF Decide, Arrives, Asks, Busy, Untaken, Is, Moves, OnlyRequest
<1>18. ASSUME NEW r \in Requests, NEW s \in Says, Reply(r, s)
      PROVE  DroppedIsOld'
  BY <1>18 DEF Reply, Arrives, Asks, Busy, Untaken, Is, Moves, OnlyRequest
<1>19. ASSUME NEW r \in Requests, Resolve(r) PROVE DroppedIsOld'
  BY <1>19 DEF Resolve, Asks, Is, Moves, OnlyRequest
<1>20. ASSUME NEW r \in Requests, Check(r) PROVE DroppedIsOld'
  BY <1>20 DEF Check, Asks, Is, Moves, OnlyRequest
<1>21. ASSUME NEW r \in Requests, CheckRow(r) PROVE DroppedIsOld'
  BY <1>21 DEF CheckRow, Asks, Is, Moves, OnlyRequest
<1>22. ASSUME NEW r \in Requests, Write(r) PROVE DroppedIsOld'
  BY <1>22 DEF Write, Asks, Is, Moves, OnlyRequest
<1>23. ASSUME NEW r \in Requests, SetEvent(r) PROVE DroppedIsOld'
  BY <1>23 DEF SetEvent, Asks, Is, Moves, OnlyRequest
<1>24. CASE UNCHANGED vars
  BY <1>24 DEF vars, lane, ask, slot, table, loop, said, Is
<1> QED
  BY <1>1, <1>2, <1>3, <1>4, <1>5, <1>6, <1>7, <1>8, <1>9, <1>10, <1>11, <1>12,
     <1>13, <1>14, <1>15, <1>16, <1>17, <1>18, <1>19, <1>20, <1>21, <1>22, <1>23, <1>24
     DEF Next, AskStep, GoesOn

LEMMA Withdrawn ==
    ASSUME TypeOK, Public, [Next]_vars
    PROVE  Public'
<1> USE DEF TypeOK, Public, Blocked, lane, ask, slot, table, loop, said
<1>1. CASE RequestApproval
  BY <1>1 DEF RequestApproval, Mint
<1>2. CASE AskHuman
  BY <1>2 DEF AskHuman
<1>3. CASE BeginAsk
  BY <1>3 DEF BeginAsk
<1>4. CASE ClearEvent
  BY <1>4 DEF ClearEvent
<1>5. CASE Answered
  BY <1>5 DEF Answered
<1>6. CASE Polls
  BY <1>6 DEF Polls
<1>7. CASE TakeAnswer
  BY <1>7 DEF TakeAnswer
<1>8. CASE HearReply
  BY <1>8 DEF HearReply, Forgets
<1>9. CASE Approve
  BY <1>9 DEF Approve, Decided, Forgets
<1>10. CASE Refuse
  BY <1>10 DEF Refuse, Decided, Forgets
<1>11. CASE ToCommit
  BY <1>11 DEF ToCommit, Mint
<1>12. CASE BindGate
  BY <1>12 DEF BindGate, Mint
<1>13. CASE BindAgain
  BY <1>13 DEF BindAgain
<1>14. CASE CommitClick
  BY <1>14 DEF CommitClick
<1>15. CASE RunEnds
  BY <1>15 DEF RunEnds
<1>16. CASE NewChat
  BY <1>16 DEF NewChat
<1>17. ASSUME NEW r \in Requests, NEW p \in Packets, NEW s \in Says, Decide(r, p, s)
      PROVE  Public'
  BY <1>17 DEF Decide, Arrives, Asks, Busy, Untaken, Is, Moves, OnlyRequest
<1>18. ASSUME NEW r \in Requests, NEW s \in Says, Reply(r, s)
      PROVE  Public'
  BY <1>18 DEF Reply, Arrives, Asks, Busy, Untaken, Is, Moves, OnlyRequest
<1>19. ASSUME NEW r \in Requests, Resolve(r) PROVE Public'
  BY <1>19 DEF Resolve, Asks, Is, Moves, OnlyRequest
<1>20. ASSUME NEW r \in Requests, Check(r) PROVE Public'
  BY <1>20 DEF Check, Asks, Is, Moves, OnlyRequest
<1>21. ASSUME NEW r \in Requests, CheckRow(r) PROVE Public'
  BY <1>21 DEF CheckRow, Asks, Is, Moves, OnlyRequest
<1>22. ASSUME NEW r \in Requests, Write(r) PROVE Public'
  BY <1>22 DEF Write, Asks, Is, Moves, OnlyRequest
<1>23. ASSUME NEW r \in Requests, SetEvent(r) PROVE Public'
  BY <1>23 DEF SetEvent, Asks, Is, Moves, OnlyRequest
<1>24. CASE UNCHANGED vars
  BY <1>24 DEF vars, lane, ask, slot, table, loop, said, Is
<1> QED
  BY <1>1, <1>2, <1>3, <1>4, <1>5, <1>6, <1>7, <1>8, <1>9, <1>10, <1>11, <1>12,
     <1>13, <1>14, <1>15, <1>16, <1>17, <1>18, <1>19, <1>20, <1>21, <1>22, <1>23, <1>24
     DEF Next, AskStep, GoesOn

-----------------------------------------------------------------------------
(* Requests that never met answer the packet they quote.                   *)
LEMMA Answering ==
    ASSUME TypeOK, Public, ~crossed => Alone /\ HearsGood, ~crossed', [Next]_vars
    PROVE  Alone' /\ HearsGood'
<1> DEFINE Goal == Alone' /\ HearsGood'
<1> USE ApprovalAssumption
    DEF TypeOK, Public, Alone, HearsGood, Good, Acting, Is, Blocked, NoAnswer,
        lane, ask, slot, table, loop, said
<1>1. CASE RequestApproval
  BY <1>1 DEF RequestApproval, Mint
<1>2. CASE AskHuman
  BY <1>2 DEF AskHuman
<1>3. CASE BeginAsk
  BY <1>3 DEF BeginAsk
<1>4. CASE ClearEvent
  BY <1>4 DEF ClearEvent
<1>5. CASE Answered
  BY <1>5 DEF Answered
<1>6. CASE Polls
  BY <1>6 DEF Polls
<1>7. CASE TakeAnswer
  BY <1>7 DEF TakeAnswer
<1>8. CASE HearReply
  BY <1>8 DEF HearReply, Forgets
<1>9. CASE Approve
  BY <1>9 DEF Approve, Decided, Forgets
<1>10. CASE Refuse
  BY <1>10 DEF Refuse, Decided, Forgets
<1>11. CASE ToCommit
  BY <1>11 DEF ToCommit, Mint
<1>12. CASE BindGate
  BY <1>12 DEF BindGate, Mint
<1>13. CASE BindAgain
  BY <1>13 DEF BindAgain
<1>14. CASE CommitClick
  BY <1>14 DEF CommitClick
<1>15. CASE RunEnds
  BY <1>15 DEF RunEnds
<1>16. CASE NewChat
  BY <1>16 DEF NewChat, Busy
<1>17. ASSUME NEW r \in Requests, NEW p \in Packets, NEW s \in Says, Decide(r, p, s)
      PROVE  Goal
  BY <1>17 DEF Decide, Arrives, Asks, Busy, Untaken, Moves, OnlyRequest
<1>18. ASSUME NEW r \in Requests, NEW s \in Says, Reply(r, s)
      PROVE  Goal
  BY <1>18 DEF Reply, Arrives, Asks, Busy, Untaken, Moves, OnlyRequest
<1>19. ASSUME NEW r \in Requests, Resolve(r) PROVE Goal
  BY <1>19 DEF Resolve, Asks, Moves, OnlyRequest
<1>20. ASSUME NEW r \in Requests, Check(r) PROVE Goal
  BY <1>20 DEF Check, Asks, Moves, OnlyRequest
<1>21. ASSUME NEW r \in Requests, CheckRow(r) PROVE Goal
  BY <1>21 DEF CheckRow, Asks, Moves, OnlyRequest
<1>22. ASSUME NEW r \in Requests, Write(r) PROVE Goal
  BY <1>22 DEF Write, Asks, Moves, OnlyRequest
<1>23. ASSUME NEW r \in Requests, SetEvent(r) PROVE Goal
  BY <1>23 DEF SetEvent, Asks, Moves, OnlyRequest
<1>24. CASE UNCHANGED vars
  BY <1>24 DEF vars
<1> QED
  BY <1>1, <1>2, <1>3, <1>4, <1>5, <1>6, <1>7, <1>8, <1>9, <1>10, <1>11, <1>12,
     <1>13, <1>14, <1>15, <1>16, <1>17, <1>18, <1>19, <1>20, <1>21, <1>22, <1>23, <1>24
     DEF Next, AskStep, GoesOn
-----------------------------------------------------------------------------
THEOREM Invariance == Spec => []IInv
<1>1. Init => IInv
  <2> SUFFICES ASSUME Init PROVE IInv
    OBVIOUS
  <2>1. Numbers /\ OneClickEach
    BY ApprovalAssumption DEF Init, Numbers, Numbered, Packets, OneClickEach
  <2>2. Flags
    BY Zenon DEF Init, Flags
  <2>3. Rest
    BY NoAnswerType DEF Init, Rest, Places, Blocked, Reasons
  <2>4. Undecided /\ DroppedIsOld /\ Public /\ Alone /\ HearsGood
    BY DEF Init, Undecided, DroppedIsOld, Public, Alone, HearsGood, Is
  <2> QED
    BY <2>1, <2>2, <2>3, <2>4 DEF IInv, TypeOK, Numbers, Flags, Rest
<1>2. IInv /\ [Next]_vars => IInv'
  BY Typed, Credit, UndecidedKept, Old, Withdrawn, Answering DEF IInv
<1> QED
  BY <1>1, <1>2, PTL DEF Spec

\* The gate's state is well typed.
THEOREM TypeCorrect == Spec => []TypeOK
BY Invariance, PTL DEF IInv

\* One approval, one irreversible click.
THEOREM OneClickEachHolds == Spec => []OneClickEach
BY Invariance, PTL DEF IInv

\* An approval counts for the packet it quoted, unless requests met.
THEOREM ApprovalIsBoundHolds == Spec => ApprovalIsBound
<1>1. IInv /\ [Next]_vars => [Approve => heard.quotes = pending \/ crossed]_vars
  BY DEF IInv, HearsGood, Good, Approve, Decided
<1> QED
  BY <1>1, Invariance, PTL DEF Spec, ApprovalIsBound

-----------------------------------------------------------------------------
(* Refinement.                                                              *)

LEMMA AsksOnce ==
    ASSUME IInv, NEW reason, Mint(reason), pending = None, UNCHANGED <<dropped, credit>>
    PROVE  \E q \in Packets : Asked!Pose(q)
<1> DEFINE q == minted + 1
<1>1. q \in Packets
  BY ApprovalAssumption DEF IInv, TypeOK, Mint, Packets
<1>2. q \notin decided /\ q \notin dropped \ {None}
  BY ApprovalAssumption DEF IInv, TypeOK, Numbered, Mint
<1>3. Asked!Pose(q)
  BY <1>1, <1>2 DEF Mint, Asked!Pose
<1> QED
  BY <1>1, <1>3

LEMMA ConsentStep ==
    ASSUME IInv, [Next]_vars
    PROVE  [Asked!ConsentNext]_Asked!consentVars
<1> DEFINE Goal == [Asked!ConsentNext]_Asked!consentVars
<1> DEFINE Quiet == UNCHANGED <<pending, decided, dropped, credit>>
<1>1. Quiet => Goal
  BY DEF Asked!consentVars
<1>2. ASSUME NEW reason, Mint(reason), pending = None, UNCHANGED <<dropped, credit>>
      PROVE  Goal
  BY <1>2, AsksOnce DEF Asked!ConsentNext
<1>3. pending = None <=> at \notin Blocked \cup {"minted", "verdict"} \/ why = "question"
  BY DEF IInv, TypeOK
<1>4. CASE RequestApproval
  BY <1>2, <1>3, <1>4 DEF RequestApproval, Blocked, said
<1>5. CASE BeginAsk \/ ClearEvent \/ Answered \/ Polls \/ TakeAnswer \/ HearReply
  BY <1>1, <1>5, AskingOnlyWaits DEF table, said
<1>6. CASE Approve
  <2>1. pending # None /\ pending \notin decided
    BY <1>6, <1>3 DEF IInv, Undecided, Approve, Decided
  <2>2. pending \notin dropped
    BY <1>6, <2>1 DEF IInv, DroppedIsOld, Approve, Decided, Blocked
  <2> QED
    BY <1>6, <2>1, <2>2 DEF Approve, Decided, Asked!ConsentNext, Asked!Allow, Asked!Settle
<1>7. CASE Refuse
  <2>1. pending # None /\ pending \notin decided
    BY <1>7, <1>3 DEF IInv, Undecided, Refuse, Decided
  <2> QED
    BY <1>7, <2>1 DEF Refuse, Decided, Asked!ConsentNext, Asked!Deny, Asked!Settle
<1>8. CASE ToCommit
  <2>1. CASE Mint("commit")
    BY <1>2, <1>3, <1>8, <2>1 DEF ToCommit, Blocked, said
  <2>2. CASE UNCHANGED <<pending, table>>
    BY <1>1, <1>8, <2>2 DEF ToCommit, said, table
  <2> QED
    BY <1>8, <2>1, <2>2 DEF ToCommit
<1>9. CASE BindGate
  <2>1. CASE Mint("rebind")
    BY <1>2, <1>3, <1>9, <2>1 DEF BindGate, Blocked, said
  <2>2. CASE UNCHANGED <<pending, table>>
    BY <1>1, <1>9, <2>2 DEF BindGate, said, table
  <2> QED
    BY <1>9, <2>1, <2>2 DEF BindGate
<1>10. CASE AskHuman \/ BindAgain \/ UNCHANGED vars
  BY <1>1, <1>10 DEF AskHuman, BindAgain, vars, lane, table, said
<1>11. CASE CommitClick
  \* an approval pays for the click
  <2>1. credit > 0 /\ credit' \in {0, credit - 1}
    BY <1>11 DEF IInv, TypeOK, OneClickEach, CommitClick
  <2> QED
    BY <1>11, <2>1 DEF CommitClick, table, Asked!ConsentNext, Asked!Click
<1>12. CASE RunEnds
  BY <1>12 DEF RunEnds, lane, table, Asked!ConsentNext, Asked!EndRun
<1>13. CASE NewChat
  <2>1. CASE at \in Blocked /\ pending # None
    BY <1>13, <2>1 DEF NewChat, lane, table, said, Asked!ConsentNext, Asked!Withdraw
  <2>2. CASE ~(at \in Blocked /\ pending # None)
    <3>1. dropped' \ {None} = dropped \ {None}
      BY <1>13, <2>2 DEF NewChat
    <3> QED
      BY <1>13, <3>1 DEF NewChat, lane, table, said, Asked!consentVars
  <2> QED
    BY <2>1, <2>2
<1>14. ASSUME NEW r \in Requests,
              \/ \E p \in Packets, s \in Says : Decide(r, p, s)
              \/ \E s \in Says : Reply(r, s)
              \/ GoesOn(r)
       PROVE  Goal
  BY <1>1, <1>14, RequestsOnlyAnswer DEF lane, table, said
<1> QED
  BY <1>4, <1>5, <1>6, <1>7, <1>8, <1>9, <1>10, <1>11, <1>12, <1>13, <1>14
     DEF Next, AskStep

\* The gate keeps Consent: each question is settled once, an approval buys
\* one click, and what a new chat took back is never approved.
THEOREM KeepsConsentHolds == Spec => KeepsConsent
<1>1. Init => Asked!ConsentInit
  BY DEF Init, Asked!ConsentInit
<1>2. IInv /\ [Next]_vars => [Asked!ConsentNext]_Asked!consentVars
  BY ConsentStep
<1> QED
  BY <1>1, <1>2, Invariance, PTL DEF Spec, KeepsConsent, Asked!ConsentSpec
=============================================================================
