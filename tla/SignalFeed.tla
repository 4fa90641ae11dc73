----------------------------- MODULE SignalFeed -----------------------------
(***************************************************************************)
(* What the fleet promises its owners, without outboxes, relays or crashes: *)
(* a signal appears in a colleague's feed only after its own Sparrow       *)
(* released it, and at most once in each feed.                             *)
(***************************************************************************)
EXTENDS Naturals

CONSTANTS Signals, Recipients

VARIABLES
    sent,       \* signals their Sparrow let go
    shown       \* times each recipient's feed shows each signal

feedVars == <<sent, shown>>

FeedInit ==
    /\ sent = {}
    /\ shown = [d \in Signals \X Recipients |-> 0]

LetGo(s) ==
    /\ sent' = sent \cup {s}
    /\ UNCHANGED shown

Show(d) ==
    /\ d[1] \in sent /\ shown[d] = 0
    /\ shown' = [shown EXCEPT ![d] = 1]
    /\ UNCHANGED sent

FeedNext ==
    \/ \E s \in Signals : LetGo(s)
    \/ \E d \in Signals \X Recipients : Show(d)

FeedSpec == FeedInit /\ [][FeedNext]_feedVars
=============================================================================
