# A TLA+ verification of Sparrow

Sparrow (this repository; environment variables and the database keep the
older names `QUILL_` and `mnemos`) is a local-first personal memory: it
captures, remembers, understands, decides and, after a human approved, acts.
This directory holds TLA+ models of the parts of it whose correctness depends
on the order in which threads, processes, crashes and lost answers meet, the
TLC configurations that check them on small instances, and proofs that TLAPS
checks for every instance.

Everything is translated from the source. A line reference is
`path:line` from the root of `src/`.

## 1. The system

One laptop runs one *node*: a FastAPI process (`app/main.py`) with its HTTP
threads, a background job worker, capture threads and timers, around one SQLite
database (`app/storage.py`, one connection behind one re-entrant lock). Nodes
of one organization meet at an *org coordinator* (`org_coordinator/`): a relay
for signals, a record service, and a worker that writes approved records back
to external systems.

| component | state it keeps | operations | interacts with | what is hard | what makes it correct |
|---|---|---|---|---|---|
| background job queue (`services/worker.py`, `storage.py` jobs table) | rows with status, attempts, available_at; the worker's thread, stop and wake events | enqueue, claim, dispatch, finish, fail, requeue at start, start, stop | every producer of slow work; the handlers of the understanding pipeline | crash between claim and settle, locked database, wake against wait, coalescing against a running row | no job is stranded, lost or falsely done; retries end; a nudge is not lost |
| node records layer (`services/records/`) | claims, promotion packets, outbox rows | build, propose, decide, deliver, forward, discard, retry, re-mint, reconcile, drain, expire | HTTP threads, the worker (`records_tick`), the org record service | check and write under two locks, inline delivery beside the drain, lost answers, TTL, crash | what is written was approved, once; what is shown as recorded is written |
| org record service (`org_coordinator/records/service.py`, `repo/`) | records and versions over valid and recorded time, forwarded packets, members and grants, audit chain | submit, retract, query, forward, permissions, heartbeat | nodes, sync worker | a repeated or late submission, commits that overtake their stamps, a retraction beside a submission | one version per packet; the past is read as it was; what is read now is the latest belief per day |
| write-back sync worker (`org_coordinator/records/sync.py`, `connectors/`) | sync jobs, a due queue, drift notices, the record's mark, alerts | preview, run_one, drain, drift sweep | connectors, the record service | a fault between read, PATCH and read-back, an edit in between, attempts and backoff, overlapping sweeps | attempts bounded, only the value the approver saw is overwritten, drift is noticed and the mark agrees with the notices |
| fleet, node side (`services/fleet/`) | outbox file, seen and own origin ids, feed, blocked list | send, drain, receive, emit, ingest | relay | drain saves before it sends, two processes on one file, cap | at most once to the feed, no silent loss |
| fleet offers (`services/fleet/router.py`) | offers and their status | route, approve, execute, settle | feed, agent planner | approved and then a crash, double approval | an offer runs once |
| org relay (`org_coordinator/relay.py`, `relay_log.py`, `topics.py`) | seen ids, queue, hash-chained log, topics and groups | publish, dispatch, drain, block | nodes | seen before logged, thread per recipient, cap, restart | every accepted signal is delivered, or its failure logged |
| tasks and slots (`commitment_state.py`, `task_completion.py`, `slots.py`) | commitment states, slot values, history | open, complete, reopen, merge | extractor, UI, agents | evidence in any order | a task completed by the user stays completed |
| agent planner and gates (`agent_planner.py`, `trust.py`, `egress.py`, `agent_bridge.py`, `browser_agent/orchestrator.py`) | plans, approvals bound to hashes, the question a lane waits for, egress log | plan, ask, approve, refuse, new chat, execute, verify | browser and desktop agents, HTTP threads | an answer that is late, doubled, for an older packet or from before a new chat | one approval, one irreversible click, of the packet approved; a cancelled question is never approved |
| peer channel, team layer (`peer_channel.py`, `team_layer.py`) | pairings, policies, asks sent, mailbox, rows for the human | pair, ask, decide, deliver, retry, revoke | other nodes | lost replies, late answers, a full queue, restarts of both sides, revoke against an answer in flight | only what was agreed to is shown; no ask is forgotten |
| meeting sessions (`meeting_session.py`, `meeting_capture.py`) | active session, chunks, notes | start, pause, end, recover | audio capture, worker | restart in the middle of a session | one active session |
| store (`storage.py`, `vectorstore.py`) | every table | row access | all | migrations | of its callers |
| understanding pipeline (`consolidation.py`, `extractor.py`, `graph.py`, `people_pipeline.py`, `reflector.py`) | facts, graph, people | job handlers | worker, models | repeated runs | idempotent handlers |
| perception and capture (`app/perception`, `audio.py`, `vision.py`, `desktop_capture.py`) | devices, buffers | capture loops | worker | device failures | - |
| ranking, triggers, reasoners, learning loop | scores, exemplars, weights | score, train, promote | UI | - | - |
| browser and desktop agents, gateway, MCP server, UI, scripts | - | - | - | - | - |
| wipe, erasure, retention (`wipe.py`, `records/retention.py`) | - | erase, expire evidence | all tables, record service | erasure beside a running job | nothing survives a wipe |

## 2. Plan

The order is by how much a mistake costs and how badly a test reaches it.

1. `JobQueue`, `JobContract`: every background effect passes the queue. *Done,
   proved.*
2. `RecordsPromotion`, `ApprovedRecords`: what leaves the node for the
   organization. *Done, its safety proved.*
3. `FleetRelay`, `SignalFeed`: a signal from its sender's outbox over the
   relay's log and queue to the feeds of its colleagues. *Done, proved.*
4. `RecordVersions`, `Timeline`: what the record service answers, then and now.
   *Done, proved.*
5. `WriteBack`, `SignedWrites`: the sync job and the drift sweep beside it.
   *Done, its safety proved.*
6. `PeerAsk`, `Consultation`: one question between two paired nodes. *Done, its
   safety proved.*
7. `ApprovalGate`, `Consent`: from `request_approval` to the irreversible
   click. *Done, its safety proved.*
8. `FleetOffers`: approve, act, settle, with a crash between them; then the
   fast lane beside the browser lane of module 7.
9. `Commitments`: the task and slot state machines, with evidence in any order.
10. `AgentPlan` (the planner's loop over module 7), `MeetingSession`,
    `Retention`.

Theorems planned: `RejectedStaysOut` for two sessions that decide different
packets; `ApprovalIsBound` with the excuse cut down to the one overlap that
breaks it.

## 3. Modules

| module | what it is |
|---|---|
| `JobQueue` | jobs table, producers, worker thread, crashes |
| `JobContract` | abstract: an accepted job is owed until done (after a run) or given up |
| `RecordsPromotion` | claim, packets, outbox, the node's threads, the record service |
| `ApprovedRecords` | abstract: a version is written only for an approved packet, once |
| `FleetRelay` | sender, relay, recipients, lost answers, exits, policies |
| `SignalFeed` | abstract: a signal is shown after its release, once per feed |
| `RecordVersions` | submissions and retractions of one record in the service's tables |
| `Timeline` | abstract: each day holds one belief; a version speaks for its day and later ones |
| `WriteBack` | preview, sync job, drift sweep, other people's edits |
| `SignedWrites` | abstract: a packet writes over the value it signed for; outcomes are final, notices follow looks |
| `PeerAsk` | asker and other, their files, threads, lost replies, exits |
| `Consultation` | abstract: a verdict is given on what was asked, and told only when given |
| `ApprovalGate` | the lane that asks, the requests that answer, new chats |
| `Consent` | abstract: one question at a time, one answer each; an approval buys one click; a withdrawn question can only be refused |
| `JobQueueProofs`, `RecordsProofs`, `RecordVersionsProofs`, `WriteBackProofs`, `PeerAskProofs`, `ApprovalGateProofs` | theorems about the module of that name |
| `FleetRelayProofs`, `FleetHandsProofs` | theorems about `FleetRelay`: types, log, feeds, refinement; rows and deliveries |
| `MC...` | instances for TLC |

### JobQueue

A row's columns are `status`, `kind`, `attempts` and `available` (the
`available_at` column is null, in the future, or past). A store call holds the
store's lock from its first statement to its commit, so it is one action:
`EnqueueJob`, `ClaimJob`, `FinishJob`, `FailJob`, `RequeueStaleJobs`. Between
two store calls anything interleaves. `pc` is the worker's place in `_run` and
`_dispatch`:

| `pc` | code |
|---|---|
| `claim` | `_run`, about to call `claim_job` (worker.py:90-92) |
| `wait`, `clear` | in `_wake.wait`, then before `_wake.clear` (101-103) |
| `deferred` | in the wait after a locked claim (93-99) |
| `run` | in the handler (124) |
| `finish`, `fail` | about to call `finish_job`, `fail_job` (125, 128) |
| `died` | an exception left `_run` |
| `off` | no thread |

`Enqueue` and `SetWake` are the two halves of `JobWorker.enqueue`;
`EnqueueDirect` is the insert of `people_escrow`, which sets no wake.
`ProcessExits` ends the process where it stands (the thread is a daemon);
`Start` is the next start, whose requeue may itself be skipped by a locked
database (worker.py:70-76). A handler returns, raises, or is cut by the end of
the process; a missing handler and a corrupt payload take the path of a
handler that raises. Variables kept for the properties alone: `runs` (handlers
that returned), `unseen` (rows an enqueue answered with since their last
claim), `skipped`, and the counters of the bounds.

### RecordsPromotion

One claim of one node, its packets, and the org's ledger. Each public function
of `promotion.py` and of `claim_builder.py` is a list of the store and service
calls it makes, `Calls[op]`, in program order; each call is an action, because
each takes the store's lock on its own. `transition` is two of them: `read`
checks the edge on the status it reads, `claim` writes whatever the status has
become (node_store.py:163, 174). `Humans` are HTTP threads, `Worker` is the
thread that runs `records_tick` (builder, expiry, reconcile, drain). `held` is
the set of rows the drain fetched that are still undone: marking a row done by
its id must not touch a row that was queued later.

The service is what the node sees of it: `Accept` writes a version once per
packet (service.py, `_submit_once`), an answer may be lost after it (`Send`),
it may refuse, and it may refuse with `preview_stale`. `Offer`,
`ApproverApproves` and `ApproverSubmits` are the forwarding to another
person's node. `WriteBackConflicts` is the sync worker's conflict outcome, the
only part of `sync.py` this module needs.

Time is two flags that only rise: `claimDue` and `packetDue`.

### FleetRelay

Three parties and the calls between them.

| state | code |
|---|---|
| `thread`, `outbox`, `load`, `keep`, `looping` | relay_client.py: a thread in `send`, the outbox file, `box` and `keep` of a running `drain_outbox`, `_retry_started` |
| `seen`, `handling`, `logged`, `addressed` | relay.py: `relay_seen.json`, `publish` between 180 and 184, the "forward" rows and their recipients |
| `courier`, `toQueue`, `queue`, `rload`, `rkeep`, `rlate` | relay.py: threads in `_deliver_or_queue`, the queue file, `q`, `keep` and `now` of a running `drain` |
| `marked`, `arriving`, `feed` | `seen` ledger of dedup.py, inbound.py between 51 and 54, what was emitted |

A *pass* is one run of `drain_outbox` or `drain`; on each side the loop's pass
and one on request (POST /fleet/outbox/drain, /relay/admin/queue/drain) may
overlap. `TakeOutbox` and `TakeQueue` read the file and save it empty in one
critical section; `PutBack` and `Requeue` are the second one, with the cut to
`MaxOutbox` or `MaxQueue`; between them each row is a step.

A POST is one action of the caller with the answer it sees, `Publish(s, answer)`
and `Receive(d, answer)`. "retry" is a 5xx or no answer: the request may have
been lost, or its handler runs on by itself from the mark (`Handle`, `Emit`).
That covers a handler slower than the caller's timeout. While the caller waits,
nobody else posts that signal (`OneSend`, `OneRow`), so a handler whose answer
arrives needs no steps of its own. `NodeExits`, `RelayExits` and
`RecipientExits` drop threads, passes and handlers, and keep the files.

The files are sets: their rows differ only in age, and age matters only to the
cut, which here may take any of the older rows. A row whose backoff has not
passed takes the same step as one posted in vain. A signal refused for its
signature, schema, kind, blocked subject or barrier is a "refused" answer,
possible at any publish.

### RecordVersions

The versions of one record in the Postgres of the org service. A submission is
`Begin` (its time stamp, and the look for an earlier version of the same
packet), `Find` (the lock of the record row and the believed rows,
service.py:601 to 618) and `Write` (from `supersede`, 619, to the commit), or
`Abandon`. The stamp is taken before the lock, so commits overtake stamps:
`Write` stamps the rows found, derives rows for the days before its own
(`_write_version`), and the properties have to hold with stamps out of order.
The lock keeps other submissions out between `Find` and the commit, and no one
else: `retract_record` does not take it. It takes its time stamp
(`RetractBegin`), reads the believed rows (`RetractRead`) and stamps them
(`RetractStamp`), or ends before (`RetractFails`). Each of these may come
between the actions of a submission, and each kind of request may stamp rows
that another has stamped since it read them. `Apart` lets no retraction run
while a submission does; `versions_retract` shows what happens without it.
`floor` is history: the lowest of a request's stamp and those of the
retractions written between its read and its own stamps.

Two clocks: days of valid time, and stamps of recorded time (`clock`). `Read(k,
d)` is what `query_records` answers for day `d` as known at `k`: the believed
row of the highest version. `answered` and `gone` are history: the versions
each submission was told, and those a retraction found and stamped.

### WriteBack

One property of an external object and the packets that write it.

| state | code |
|---|---|
| `field` | the value at HubSpot |
| `before`, `after` | the diff the approver signed |
| `state`, `attempts`, `queued` | sync_jobs, sync_queue |
| `doing`, `job`, `seen`, `clear` | each worker: its place in `run_one` or in `drift_sweep`, its job, the value it read, no open notice found |
| `notice`, `mark` | drift_notices, `records.drift_status` |
| `newer` | the order of `verified_at`, which the sweep sorts by |

A job is GET, PATCH and GET (`ReadField`, `Patch`, `ReadBack`) in one
transaction that holds its queue row: what it wrote outside stays when it ends
without a commit (`CallFails`, `Crash`), and what it wrote to the tables does
not. `SweepLook`, `SweepOpens` or `SweepLeaves`, and `SweepFinish` are the
calls of the sweep. History: `moved` (packets whose field another hand changed
since their preview or their verification), `raced` (workers whose value read
was changed before their PATCH), `overlapped` (two sweeps have met).

### PeerAsk

| state | code |
|---|---|
| `sent`, `mailbox` | the asker's log and its rows for a peer that is away |
| `sender`, `todo` | the asker's threads: `ask`, and `flush_mailbox` over its list |
| `row` | the other's rows: what its human was asked, and the verdict that waits for delivery |
| `hand`, `list` | the other's threads: `decide_ask`, and `retry_delivery_pending` over its list |
| `stray`, `late` | requests whose caller gave up, handled later or never |
| `paired` | the other still grants the asker |

Each file is locked for a read-modify-write only, so a thread is a list of
steps and a POST lies between two of them. `Replied` and `Land` are a POST
whose caller hears; `GiveUp` and `GiveUpAnswer` one whose caller does not, after
which `HandleStray` and `LandLate` may still happen. `Inline` are the verdicts
the policy gives by itself; the rest goes to the human (`DecideAsk`).
`AskerExits` and `OtherExits` keep the files. History: `agreed` and `shown` (the
verdicts given, and those recorded by the asker), `cut` (asks whose process
ended while they were in a request's hands alone).

### ApprovalGate

The lane's places follow the code from `request_approval` to the click:

| `at` | code |
|---|---|
| `run` | the agent's loop |
| `minted` | the packet is in `action_packets`, not asked about |
| `asked`, `waiting`, `woken` | `_on_ask`: the question is public; its event is cleared and waited for; it woke |
| `verdict` | the answer was returned |
| `gate`, `again`, `click` | orchestrator.py 2519-2560: approved ahead or not, bind check, re-ask, click |

A request is a list of steps, `resolve`, `check` (under the worker's lock),
`row`, `write` (the slot), `set` (the event); the last two come after the lock.
`epoch` and `gate` are the chat a question belongs to and the current one:
`NewChat` raises the second, cancels what is asked, and lets go. History:
`credit` (approvals less clicks), `dropped` (packets asked about when a new
chat began), `refused`, and `crossed` (a request met another, an answer not yet
taken, or a new chat).

## 4. Runs

| run | question | result |
|---|---|---|
| `jobs` | does a job get lost, run beyond its attempts, or wait for a wake that is gone? does the queue keep `JobContract`, and settle every job? | hold, the last under fairness |
| `records_session` | do rejected packets stay out, and are recorded ones written, across a crash? | hold |
| `records_builder` | is anything written without approval, or twice, with the builder, forwarding and a crash? | no |
| `records_live` | does every queued submission leave the outbox, again and again? | yes, under fairness |
| `fleet_relay` | eight properties of a signal's way, the refinement of `SignalFeed` among them | hold |
| `fleet_live` | does every send and every delivery come to an end? | yes, under fairness, without exits |
| `record_versions` | is each packet one version, does the past stay, is what is read now the `Timeline`? | hold |
| `versions_retract` | service.py:765, a retracted version is not returned any more | violated |
| `write_back` | does the job keep `SignedWrites`: is a value overwritten that nobody signed for? do notices, mark and drift agree? does every job settle? | hold, the last under fairness |
| `peer_ask` | does the ask keep `Consultation`? is one forgotten, or a row stuck? | it does; no, the last under fairness |
| `approval_gate` | does an approval count twice, for another packet, or after a new chat (`Consent`)? is a lane stuck after one? | no, the last under fairness |
| `approval_click` | orchestrator.py:2406, no click follows a refusal | violated |

### Bounds

*Jobs.* `MaxJobs` 2 rows: coalescing, oldest-first and a second pending row
beside a running one need two. `MaxAttempts` 2: one failure with backoff and
one that exhausts (the code's default of 5 only repeats the first).
`MaxCrashes`, `MaxClaimLocks`, `MaxSettleLocks` and `MaxSkips` bound the faults
to one of each. Kinds: one unique, one inserted directly, one without handler.
Two producers, so that a burst of one kind meets itself.

*Records.* `MaxPackets` 2 packets where a property speaks of two; 1 where the
builder and forwarding multiply the interleavings. One crash, anywhere. One
human thread beside the worker.

*Fleet.* Signals do not meet except in the files and their cut: one signal to
two nodes for what happens to a signal, with changing policies and passes on
request; two signals to one node in `fleet_live` for what happens between rows,
without them. The files hold one row (`MaxOutbox` and `MaxQueue` stand for 1000
and 5000), so that the second row meets the cut. One exit of each process: the
second finds the same files and nothing in memory. `Policies` and `Requests`
switch the admins' changes and the passes on request. Signals and recipients
are interchangeable (`MCSymmetry`, in a run without liveness).

*Record versions.* Three packets: a row derived of a derived row needs three.
Two threads: a commit that overtakes another. `LastDay` 2: a day before,
between and after two versions. `MaxClock` 4 stamps: three submissions and a
retraction, or two of each. Two threads that retract: one that stamps the rows of
another again. `Apart`, because `KeepsTimeline` needs it. In this run, then, a
`floor` is lowered by retractions that meet one another and never in a
submission. `HistoryStable` is proved without `Apart`, and TLC finds no error in
it with `Apart = FALSE` when `KeepsTimeline` is left out (1.5 million states);
there the `floor` of submissions is needed: with a submission's own stamp in its
place TLC finds the retraction that commits between 618 and 619.

*Write-back.* Two packets and two values: a value that comes back. Two workers:
a job in another's window, and overlapping sweeps. One edit by another hand,
one fault (a call that fails, or a process that ends), two attempts.

*Peer ask.* One ask; repeated posts let it meet itself in a queue of one
(`MaxPending`) and in two rows (`MaxRows`). Two threads of the asker: a flush
beside the request, and two flushes of one mailbox row. One thread of the
other, and one fault. The policy may answer by itself, never decline.

*Approval gate.* Two packets: an answer to one that meets the other. Two
requests: one to be late. One new chat. `approval_click` needs one request and
no new chat.

`CHECK_DEADLOCK FALSE`, where the system may stop: in `jobs`, with the thread
dead and the faults used up; in the records and fleet runs, with every claim
decided, every signal answered and expired; in the others, with the packets
recorded or the ask settled and the bounds used up. The approval gate never
stops, and the check is on.

### Fairness

`JobQueue!Fairness`: weak fairness of the worker's steps (a runnable thread
runs; a handler that never ends is outside the property), of a producer
between insert and wake, of a backoff (time passes), of `Start` (an app that
is closed is opened again), and of the exit after `Stop`.

`RecordsPromotion!Fairness`: weak fairness of every call of an operation that
has begun and of the row loop of the drain; strong fairness of `DrainStart`,
because the tick comes round every interval and finds the worker idle again
and again, though other operations come between; weak fairness of the passing
of a packet's TTL. Nothing is assumed of people or of the service: `OutboxDrains`
rests on the TTL, and says that the outbox is empty again and again.

`FleetRelay!Fairness`: weak fairness of every thread, courier, handler and row
of a pass, of the two loops' next pass, of putting rows back, and of expiry
(`expires_at` is mandatory, and at most `MAX_TTL_S` away). None of passes on
request, of admins, of the network: `EverySendSettles` and
`EveryDeliverySettles` rest on expiry.

`WriteBack!Fairness`: weak fairness of a worker's next step and of the start of
a sweep; strong fairness of `Claim`, because the worker drains before it
sweeps. Nothing of HubSpot, whose refusals count as attempts.

`PeerAsk!Fairness`: weak fairness of begun threads and of the two heartbeats
(`Flush`, `RetryDeliveryPending`). None of people, and none of a request whose
caller gave up.

`ApprovalGate!Fairness`: weak fairness of the lane's steps, whose wait times
out every 200 ms, and of a begun request. Nobody has to answer.

## 5. Proofs

The eight `...Proofs` modules prove, for every value of the constants that
satisfies the module's assumption (`JobQueueAssumption`, `PromotionAssumption`,
`FleetAssumption`, `RecordVersionsAssumption`, `WriteBackAssumption`,
`PeerAskAssumption`, `ApprovalAssumption`):

| module | theorem | statement |
|---|---|---|
| `JobQueueProofs` | `Invariance` | `Spec => []IInv` |
| | `TypeCorrect`, `CoalescingIsSafe`, `AttemptsHold`, `NoLostWakeHolds` | the invariants of `jobs` |
| | `NoOrphanHolds`, `BurstHolds`, `AtLeastOnce`, `SettledIsFinalHolds` | more of the same, in no run: `KeepsContract` or the lemmas of `IInv` carry them |
| | `KeepsContractHolds` | `JobQueue` implements `JobContract` |
| `RecordsProofs` | `RecordsInvariance` | `Spec => []IInv` |
| | `TypeCorrect`, `RecordedIsWrittenHolds`, `KeepsPromiseHolds` | types; recorded is written; `RecordsPromotion` implements `ApprovedRecords` |
| | `RejectedStaysOutHolds` | what the owner of the one session rejected is not written |
| `FleetRelayProofs` | `Inductive`, `TypeCorrect` | `Spec => []IInv`, `Spec => []TypeOK` |
| | `DeliveredLogged`, `AcceptedForwarded`, `ConfirmedShown` | three invariants of `fleet_relay` |
| | `Implements` | `FleetRelay` implements `SignalFeed` |
| `FleetHandsProofs` | `OneSendHolds`, `NoSendForgottenHolds` | the hands of the sender are disjoint, and hold every released signal |
| | `OneRowHolds`, `NoDeliveryForgottenHolds` | the same for the deliveries of the relay |
| `RecordVersionsProofs` | `Invariance`, `TypeCorrect`, `OneVersionEachHolds` | the invariants of `record_versions`, with any number of retractions anywhere |
| | `PastInvariance`, `HistoryStableHolds` | likewise: the past stays, before the floors of the requests under way |
| | `AloneInvariance`, `Implements` | with `Apart`: `RecordVersions` implements `Timeline` |
| `WriteBackProofs` | `Invariance`, `TypeCorrect`, `NoticeIsExplainedHolds`, `MarkMatchesNoticesHolds` | the invariants of `write_back` |
| | `KeepsSignedWritesHolds` | `WriteBack` implements `SignedWrites` |
| | `OverwriteIsSignedHolds` | a PATCH replaces a signed value or a late one; in no run, `SignedWrites` carries it |
| `PeerAskProofs` | `Invariance`, `TypeCorrect`, `NoAskForgottenHolds` | the invariants of `peer_ask` |
| | `KeepsConsultationHolds`, `ShownIsAgreedHolds` | `PeerAsk` implements `Consultation`, and what it says of states |
| `ApprovalGateProofs` | `Invariance`, `TypeCorrect`, `OneClickEachHolds`, `ApprovalIsBoundHolds` | the invariants of `approval_gate` |
| | `KeepsConsentHolds` | `ApprovalGate` implements `Consent` |

*Jobs.* The properties are not inductive alone: that `FinishJob` marks the
right row needs to know that the job in hand is the running one (`HandOK`);
that a new row is new, that ids above `nextId` are absent (`RowsOK`); that a
dead job was exhausted, how attempts grow with claims and crashes
(`AttemptsOK`); that done follows a run, how `runs` is tied to faults
(`RunsOK`). `IInv` is their conjunction; one lemma per action keeps it.

*Records.* The argument is about what a thread still has to do. `IInv` says
that a thread in an operation that leads to a submission (approve, retry,
deliver, record, unavailable) holds a packet someone approved (`Consented`),
that what it still has to do follows the operation (`Threading`, `Careful`),
that packets approved or submitted, and rows in the outbox, are of approved
packets (`ApprovedPackets`, `Queued`), and that recorded is written. No step of
the claim's status is in it, which is why it survives the races that break the
claim's own state machine.

That a rejection is final needs the state machine after all, but of a packet,
not of the claim, and it needs `OneSession`. `StaysOut` says that a packet in
the hands of a delivery (a row, a thread past the write of its approval, a
version) is past its decision and nobody is rejecting it; only the one session
decides, so no approval of a packet is under way while its rejection is.

*Fleet.* The type invariant is ordered like the path: rows are of released
signals, marks of the relay are of rows, what the log addresses is marked, what
couriers, queue and ledgers hold is addressed. To it `IInv` adds that a feed
shows only what its ledger marked and no handler still holds (`Shown`), which
makes `Emit` and a fresh delivery the only ways into a feed, once; that a mark
of a recipient is shown or in a handler's hands until a recipient exits
(`Acked`); and the same of the relay's marks and its log (`Booked`). That
passes overlap, rows repeat or vanish plays no part: nothing in the argument
speaks of who posts a delivery.

That no row is doubled or dropped is a second argument (`FleetHandsProofs`). The
hands of a side are a sequence of sets, `SendPlaces` and `DeliveryPlaces`, and
an action moves a part of one to another (`MovedApart`), or adds to one what is
new to all (`AddedApart`: `Release`; at the relay the log row, which is new
because a signal is logged only by the handler that marked it, `Fresh` in
`FleetHandsProofs`). Two actions move twice: the new row into the full file, the
old one off it. An exit only empties hands, which keeps them apart and is why
the `...Forgotten` invariants speak of a process that has not ended.

*Record versions.* Rows are told apart by their version and their stamps
(`Numbered`, `NoTwins`), every stamp is of one request (`Fresh`), and one
submission at a time is between `Find` and its commit (`OneLock`). That alone
gives one version per packet. For what is read now, `AloneInvariance` adds that
a believed row outdoes every older one on the days it covers (`Outdone`,
`Topped`): a commit that comes with an older stamp still has the higher
version, and the read takes the highest; and the rows a submission found are
the believed ones until it writes (`AsFound`). Retractions may overlap one another,
since each finds every row that is live (`Alone`); a submission between the two
statements of one leaves a row it did not find, hence `Apart`.

What was read for an earlier `known_at` is another matter: a row that is stamped
a second time, with a later stamp, is believed for longer than it was. A
retraction may stamp a row again that a submission superseded after the
retraction read it. `Outlived` says why no answer changes: wherever the second
stamp would revive the row, the submission left a row that covers the day with
at least its version, so the highest stays the highest (`SameTop`). A retraction
leaves no such row. So a request, submission or retraction, that stamps the rows
of a retraction again does change the answers between the two stamps, and
`Settled` asks for a `known_at` before both. For a submission that is all there
is: the lock keeps other submissions off the rows it has read, so that whatever
stamp these carry when it writes is a retraction's, from the floor on
(`Untouched`).

*Write-back.* A job under way is pending and of one worker (`Working`), because
the claim holds its queue row. So its diff was signed and it has a try left
(`Trying`), and between GET and PATCH the field is the signed value or was
changed under its hands (`Patching`). A sweep looks at verified jobs only
(`Looked`), so a value that differs moved (`Explained`). `Alone`, that the
verdict a sweep ends with fits the notices there are, holds until two sweeps
overlap. `SignedWrites` has no workers: a worker between GET and PATCH is its
packet's licence to write (`Armed`), one that swept is what the sweep found
(`Strayed`, `Restored`). Since a job is of one worker, a licence is used once
(`CommitsAlone`), and a worker that ends takes only its own findings with it
(`Leaving`); every commit is then a settled outcome and every other end forgets.

*Peer ask.* The rows of the other side are the memory: a row is never taken
back, so an ask that once had one has a result or an open row (`Kept`,
`ClosedIsShown`). A verdict that travels, in a hand, a row, a late answer or a
reply, was given (`Consented`). For `Consultation` a verdict must also be on an
ask that was put: whatever holds an ask, a thread, the mailbox, a stray request
or a row, holds one that the asker's log knows (`Wanted`, `Grounded`), and the
log never forgets one.

*Approval gate.* The slot is safe because of who may write it when: a request
past its check keeps the lane in its ask (`Alone`), and what the lane hears is
about its pending packet (`HearsGood`). Both hold until requests cross, which
is the excuse in `ApprovalIsBound`. `OneClickEach` and `Consent` need no
excuse: the first counts, and that a withdrawn question can only be refused
rests on the epoch (`DroppedIsOld`). That a packet is answered once is
`Undecided`: the pending one has no verdict yet.

Only model-checked: `EveryJobSettles` (twice), `OutboxDrains`,
`EverySendSettles`, `EveryDeliverySettles`, `DriftIsNoticed`,
`NothingWaitsForEver` and `ResetFreesLane`: liveness under fairness is out of
TLAPS's reach. Every safety property a passing run checks is proved, `KeepsTimeline` under the
condition that the cfg of `record_versions` has.

## 6. Where the code and its comments disagree

With a run that shows it:

- **A retracted version comes back** (`versions_retract`). service.py:765 reads
  the believed rows and 772 stamps them, with no lock on the record; a
  submission between the two derives rows of the retracted ones, which the
  stamp does not reach.
- **A click after a refusal** (`approval_click`). orchestrator.py:2403 sets
  `approved_commit`; a later refusal or edit does not clear it, and the next
  irreversible click goes ahead on it (2519). The bound packet was cleared, so
  the bind check calls the click unbound and lets it pass (1071).

Stated at the end of their modules, and in no run; to see one, put it in the
cfg of its module and allow what it needs:

| module | definition | what it needs | why the code breaks it |
|---|---|---|---|
| `JobQueue` | `LocksNeverKillThread` | - | the guard of worker.py:93 covers `claim_job`; `fail_job` at 128 is covered by nothing |
| | `RetriesBounded` | two crashes | storage.py:9580 requeues whatever the attempts |
| `RecordsPromotion` | `ApprovalIsQueued` | - | `retry` finds the undone row of the attempt before it, and the drain then marks that row done (org_client.py:311) |
| | `ExpiredIsNotWritten` | - | `deliver` looks at the TTL before it asks the service again (promotion.py:329) |
| | `RecordedReopensAsProposed`; `TerminalIsFinal` | -; two packets | the status is checked and written under two locks (node_store.py:163, 174) |
| | `OneLivePacket` | two packets with two humans or with `Building = TRUE`; three without | `propose` closes what it listed (promotion.py:170) |
| `FleetRelay` | `UndeliveredIsLogged` | `MaxRelayExits = 1` | a pass that ends with its process takes the rows of relay.py:267 with it |
| | `QueuedIsRetried` | `MaxNodeExits = 1`, `FairSpec` | only a failed send starts the loop; a restart does not |
| | `AcceptedIsLogged` | - | relay.py:180 marks before 184 logs; the retry is a duplicate of nothing |
| | `SeenWasAccepted` | `MaxRecipientExits = 1` | inbound.py:51 marks before 54 emits |
| | `BlockedStaysHome`, `ReceivesOnlyAdmitted` | `Policies = TRUE` | the blocked list and the topic's members are not asked again when a queued row leaves |
| `WriteBack` | `MovedIsNotOverwritten` | - | the connector reads and then writes (hubspot.py:130), and an edit between the two is lost |
| `PeerAsk` | `LandedFreesSlot` | `FairSpec` | an answer that landed, but whose caller gave up or ended, is posted again, and the asker refuses it as settled every time (peer_channel.py:1906) |
| | `SilentOnceRevoked` | - | a verdict under way passes the revoke (442) |
| | `AnsweredStays` | - | the reply "pending" is written after the answer arrived |
| `ApprovalGate` | `AcceptedIsHeard` | `FairSpec` | the question is public before its event is cleared (agent_bridge.py:897) |

Two retractions that overlap read the same rows, and the second stamps them again
with its later stamp (service.py:772, 773): as known between the two stamps, the
record comes back. So it does when a retraction commits between the read and the
stamps of a submission (618, 619) that has the later stamp. This is the `floor`
in `HistoryStable`, which claims nothing of a `known_at` between two such
stamps; no doc promises otherwise.

Two requests that overlap can carry an approval of one packet to the next
(agent_bridge.py:1032 checks under the lock and answers after it): this is the
`crossed` in `ApprovalIsBound`.

## 7. Not modelled, and why

Within the modelled components: job payloads and results; `job_stats`; the
service's permission model (a refusal is possible at any submission); record
supersession; audit and learning entries, which no operation reads back;
evidence-expiry notices in the outbox; drift claims; handlers that hang. A
payload edited on disk is not modelled: the hash comparisons of `decide` are
the identity of the packet. In the fleet: registration and enrollment (every
node is enrolled throughout), ingress by local agents, the feed's ring and
streams, exemplars, the pruning of the `seen` ledgers (they outlive the signal's
expiry, after which a replay is refused for its age; the ledger's cap of 50,000
is not reached), a relay that refuses everything for want of a blocked list
beyond its "retry" answer, and signals of several senders or topics, which
share nothing but the queue, and a file error while the relay goes on (an
`append` or a `drain` of relay_log.py that raises; an exit at the same place is
modelled). In the record service: grants and scopes,
evidence erasure, search ranking, the audit chain. In the write-back: notes and
tasks, the other connectors, alerts, an acknowledgement by another record. In
the peer channel: pairing, the composition of answers, slots, team questions
and handoff loops, clips, presence. At the approval gate: the fast lane and an
answer that goes to the wrong lane, offers, autonomous and dry runs, the
duplicate-send check, the path of a packet kept in memory only, without an id
(agent_bridge.py:2579-2587), the desktop driver's binding.

Of the system: see `PROJECT.json`, where each component that has no module
carries its reason: scoring and language-model calls are numeric or external,
perception is device I/O, the agents drive external programs, the API and UI
are rendering. The rest is in the plan above.

## 8. Running

    tlc -workers 2 -config MCJobQueue.cfg MCJobQueue
    tlc -workers 2 -config MCApprovalGateClick.cfg MCApprovalGate
    tlapm JobQueueProofs.tla
