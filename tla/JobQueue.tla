------------------------------ MODULE JobQueue ------------------------------
(***************************************************************************)
(* The durable background job runner: the `jobs` table of app/storage.py   *)
(* and the single worker thread of app/services/worker.py that drains it.  *)
(*                                                                         *)
(* Many threads produce (HTTP handlers, capture callbacks, timers, the job *)
(* handlers themselves); one thread consumes.  Rows survive the process,   *)
(* the thread and its two events (`_wake`, `_stop`) do not.  Every store   *)
(* call runs under Store._lock and commits once, so it is one action; the  *)
(* steps between two store calls interleave.                               *)
(*                                                                         *)
(* A handler that hangs is outside the model (the fairness of HandlerEnds  *)
(* says that handlers return or raise).  Payloads are left out: a corrupt  *)
(* one takes the path of a handler that raises.                            *)
(***************************************************************************)
EXTENDS Integers, FiniteSets

CONSTANTS
    Kinds,            \* job kinds
    Unique,           \* kinds whose producers pass unique=True
    Direct,           \* kinds inserted by Store.enqueue_job, without a wake
    Handled,          \* kinds with a registered handler
    Producers,        \* threads that call enqueue
    MaxJobs,          \* bound: rows ever inserted
    MaxAttempts,      \* WorkerConfig.max_attempts
    MaxCrashes,       \* bound: process exits
    MaxClaimLocks,    \* bound: claim_job calls that find the database locked
    MaxSettleLocks,   \* bound: finish_job / fail_job calls that do
    MaxSkips          \* bound: start-up recoveries that raise

ASSUME JobQueueAssumption ==
    /\ Kinds # {}
    /\ Unique \subseteq Kinds /\ Direct \subseteq Kinds
    /\ Unique \cap Direct = {}
    /\ Handled \subseteq Kinds
    /\ MaxJobs \in Nat \ {0} /\ MaxAttempts \in Nat \ {0}
    /\ MaxCrashes \in Nat /\ MaxClaimLocks \in Nat
    /\ MaxSettleLocks \in Nat /\ MaxSkips \in Nat

JobIds == 1..MaxJobs
None == 0

Statuses == {"absent", "pending", "running", "done", "dead"}
\* available_at: NULL, later than now, or reached
Availabilities == {"null", "future", "past"}

VARIABLES
    \* the jobs table (durable); ids are AUTOINCREMENT
    status, kind, attempts, available, nextId,
    \* the worker thread, the job dict it holds, its two events (volatile)
    pc, job, wake, stop,
    proc,             \* is the process up?
    adding,           \* producers between the insert and _wake.set()
    \* history
    unseen,           \* jobs an enqueue was answered with since their last claim
    runs,             \* completed handler runs of each job
    skipped,          \* the last start-up skipped recovery
    crashes, claimLocks, settleLocks, skips

table == <<status, kind, attempts, available, nextId>>
thread == <<pc, job, stop, wake>>
bounds == <<crashes, claimLocks, settleLocks, skips>>
vars == <<status, kind, attempts, available, nextId, pc, job, wake, stop,
          proc, adding, unseen, runs, skipped,
          crashes, claimLocks, settleLocks, skips>>

Pcs == {"off", "claim", "wait", "deferred", "clear", "run", "finish", "fail",
        "died"}
Holding == {"run", "finish", "fail", "died"}   \* a job dict is in hand

TypeOK ==
    /\ status \in [JobIds -> Statuses]
    /\ kind \in [JobIds -> Kinds]
    /\ attempts \in [JobIds -> Nat]
    /\ available \in [JobIds -> Availabilities]
    /\ nextId \in 1..(MaxJobs + 1)
    /\ pc \in Pcs /\ job \in JobIds \cup {None}
    /\ wake \in BOOLEAN /\ stop \in BOOLEAN
    /\ proc \in {"up", "down"}
    /\ adding \subseteq Producers
    /\ unseen \subseteq JobIds
    /\ runs \in [JobIds -> Nat]
    /\ skipped \in BOOLEAN
    /\ crashes \in Nat /\ claimLocks \in Nat
    /\ settleLocks \in Nat /\ skips \in Nat

\* The app has never run: an empty table, no process.
Init ==
    /\ status = [j \in JobIds |-> "absent"]
    /\ kind = [j \in JobIds |-> CHOOSE k \in Kinds : TRUE]
    /\ attempts = [j \in JobIds |-> 0]
    /\ available = [j \in JobIds |-> "null"]
    /\ nextId = 1
    /\ pc = "off" /\ job = None /\ wake = FALSE /\ stop = FALSE
    /\ proc = "down"
    /\ adding = {}
    /\ unseen = {}
    /\ runs = [j \in JobIds |-> 0]
    /\ skipped = FALSE
    /\ crashes = 0 /\ claimLocks = 0 /\ settleLocks = 0 /\ skips = 0

-----------------------------------------------------------------------------
(* Producers                                                               *)

\* mutant: a request also coalesces into the row that is running
CoalesceWithLive(k) ==
    {j \in JobIds : kind[j] = k /\ status[j] \in {"pending", "running"}}

\* rows a unique enqueue of kind k coalesces into
CoalesceWith(k) == {j \in JobIds : kind[j] = k /\ status[j] = "pending"}

\* INSERT INTO jobs: a new pending row at the next id
Insert(k) ==
    /\ nextId <= MaxJobs
    /\ status' = [status EXCEPT ![nextId] = "pending"]
    /\ kind' = [kind EXCEPT ![nextId] = k]
    /\ nextId' = nextId + 1
    /\ unseen' = unseen \cup {nextId}
    /\ UNCHANGED <<attempts, available>>

\* Store.enqueue_job: with unique_pending, the oldest pending row of the kind
\* answers the call and nothing is written
EnqueueJob(k) ==
    \/ /\ k \in Unique
       /\ CoalesceWith(k) # {}
       /\ \E j \in CoalesceWith(k) :
            /\ \A i \in CoalesceWith(k) : j <= i
            /\ unseen' = unseen \cup {j}
       /\ UNCHANGED table
    \/ /\ k \in Unique => CoalesceWith(k) = {}
       /\ Insert(k)

\* JobWorker.enqueue: the row first, then _wake.set() (SetWake)
Enqueue(p, k) ==
    /\ proc = "up" /\ p \notin adding
    /\ k \notin Direct
    /\ EnqueueJob(k)
    /\ adding' = adding \cup {p}
    /\ UNCHANGED <<thread, proc, runs, skipped, bounds>>

SetWake(p) ==
    /\ p \in adding
    /\ adding' = adding \ {p}
    /\ wake' = TRUE
    /\ UNCHANGED <<table, pc, job, stop, proc, unseen, runs, skipped, bounds>>

\* people_escrow._enqueue_rebind writes the row itself: nobody sets _wake
EnqueueDirect(k) ==
    /\ proc = "up"
    /\ k \in Direct
    /\ EnqueueJob(k)
    /\ UNCHANGED <<thread, proc, adding, runs, skipped, bounds>>

-----------------------------------------------------------------------------
(* The worker loop                                                         *)

Claimable(j) == status[j] = "pending" /\ available[j] # "future"

\* the `while not self._stop.is_set()` test, evaluated before each claim
LoopExits ==
    /\ pc = "claim" /\ stop
    /\ pc' = "off"
    /\ UNCHANGED <<table, job, wake, stop, proc, adding, unseen, runs, skipped,
                   bounds>>

\* claim_job takes the oldest claimable row; _dispatch looks its handler up
ClaimJob ==
    /\ pc = "claim" /\ ~stop
    /\ \E j \in JobIds :
         /\ Claimable(j)
         /\ \A i \in JobIds : Claimable(i) => j <= i
         /\ status' = [status EXCEPT ![j] = "running"]
         /\ attempts' = [attempts EXCEPT ![j] = @ + 1]
         /\ available' = [available EXCEPT ![j] = "null"]
         /\ unseen' = unseen \ {j}
         /\ job' = j
         /\ pc' = IF kind[j] \in Handled THEN "run" ELSE "fail"
    /\ UNCHANGED <<kind, nextId, wake, stop, proc, adding, runs, skipped,
                   bounds>>

ClaimNone ==
    /\ pc = "claim" /\ ~stop
    /\ \A j \in JobIds : ~Claimable(j)
    /\ pc' = "wait"
    /\ UNCHANGED <<table, job, wake, stop, proc, adding, unseen, runs, skipped,
                   bounds>>

\* sqlite3.OperationalError out of claim_job is caught; the loop waits a poll
ClaimLocked ==
    /\ pc = "claim" /\ ~stop
    /\ claimLocks < MaxClaimLocks
    /\ claimLocks' = claimLocks + 1
    /\ pc' = "deferred"
    /\ UNCHANGED <<table, job, wake, stop, proc, adding, unseen, runs, skipped,
                   crashes, settleLocks, skips>>

\* _wake.wait(timeout) returns: the event is set, or the timeout ran out
WaitReturns ==
    /\ pc \in {"wait", "deferred"}
    /\ pc' = "clear"
    /\ UNCHANGED <<table, job, wake, stop, proc, adding, unseen, runs, skipped,
                   bounds>>

\* mutant: the event is cleared on the way into the wait, not on the way out
ClearWakeThenWaits ==
    /\ pc = "clear"
    /\ wake' = FALSE
    /\ pc' = "wait"
    /\ UNCHANGED <<table, job, stop, proc, adding, unseen, runs, skipped,
                   bounds>>

ClearWake ==
    /\ pc = "clear"
    /\ wake' = FALSE
    /\ pc' = "claim"
    /\ UNCHANGED <<table, job, stop, proc, adding, unseen, runs, skipped,
                   bounds>>

\* mutant: a None result is taken for a failure
HandlerReturnsFails ==
    /\ pc = "run"
    /\ runs' = [runs EXCEPT ![job] = @ + 1]
    /\ pc' = "fail"
    /\ UNCHANGED <<table, job, wake, stop, proc, adding, unseen, skipped,
                   bounds>>

HandlerReturns ==
    /\ pc = "run"
    /\ runs' = [runs EXCEPT ![job] = @ + 1]
    /\ pc' = "finish"
    /\ UNCHANGED <<table, job, wake, stop, proc, adding, unseen, skipped,
                   bounds>>

\* mutant: the exception is swallowed and the job finished
HandlerRaisesSwallowed ==
    /\ pc = "run"
    /\ pc' = "finish"
    /\ UNCHANGED <<table, job, wake, stop, proc, adding, unseen, runs, skipped,
                   bounds>>

\* the handler, or json.loads of the payload, raises
HandlerRaises ==
    /\ pc = "run"
    /\ pc' = "fail"
    /\ UNCHANGED <<table, job, wake, stop, proc, adding, unseen, runs, skipped,
                   bounds>>

FinishJob ==
    /\ pc = "finish"
    /\ status' = [status EXCEPT ![job] = "done"]
    /\ available' = [available EXCEPT ![job] = "null"]
    /\ pc' = "claim" /\ job' = None
    /\ UNCHANGED <<kind, attempts, nextId, wake, stop, proc, adding, unseen,
                   runs, skipped, bounds>>

\* finish_job is inside the handler's try: when it raises, the run that
\* already happened is treated as a failed one
FinishLocked ==
    /\ pc = "finish"
    /\ settleLocks < MaxSettleLocks
    /\ settleLocks' = settleLocks + 1
    /\ pc' = "fail"
    /\ UNCHANGED <<table, job, wake, stop, proc, adding, unseen, runs, skipped,
                   crashes, claimLocks, skips>>

\* mutants: one attempt early, one attempt late, a dead letter left as 'error'
ExhaustedEarly == attempts[job] + 1 >= MaxAttempts
ExhaustedLate == attempts[job] > MaxAttempts
SettleFailedError(st, av) ==
    /\ status' = [status EXCEPT ![job] = IF st = "dead" THEN "error" ELSE st]
    /\ available' = [available EXCEPT ![job] = av]

Exhausted == attempts[job] >= MaxAttempts

SettleFailed(st, av) ==
    /\ status' = [status EXCEPT ![job] = st]
    /\ available' = [available EXCEPT ![job] = av]

\* back to pending behind a backoff, or dead once the attempts are used up
FailJob ==
    /\ pc = "fail"
    /\ IF Exhausted
       THEN SettleFailed("dead", "null")
       ELSE SettleFailed("pending", "future")
    /\ pc' = "claim" /\ job' = None
    /\ UNCHANGED <<kind, attempts, nextId, wake, stop, proc, adding, unseen,
                   runs, skipped, bounds>>

\* nothing around fail_job catches: the exception leaves _dispatch and _run
FailLocked ==
    /\ pc = "fail"
    /\ settleLocks < MaxSettleLocks
    /\ settleLocks' = settleLocks + 1
    /\ pc' = "died"
    /\ UNCHANGED <<table, job, wake, stop, proc, adding, unseen, runs, skipped,
                   crashes, claimLocks, skips>>

-----------------------------------------------------------------------------
(* Time and the life of the process                                        *)

BackoffElapses(j) ==
    /\ available[j] = "future"
    /\ available' = [available EXCEPT ![j] = "past"]
    /\ UNCHANGED <<status, kind, attempts, nextId, thread, proc, adding,
                   unseen, runs, skipped, bounds>>

\* mutant: no recovery
RequeueStaleJobsNever == UNCHANGED <<status, available>>

\* requeue_stale_jobs: every running row back to pending, claimable at once
RequeueStaleJobs ==
    /\ status' = [j \in JobIds |->
                    IF status[j] = "running" THEN "pending" ELSE status[j]]
    /\ available' = [j \in JobIds |->
                       IF status[j] = "running" THEN "null" ELSE available[j]]

\* JobWorker.start in a new process; a recovery that raises is skipped
Start ==
    /\ proc = "down"
    /\ proc' = "up"
    /\ pc' = "claim" /\ stop' = FALSE
    /\ \/ /\ RequeueStaleJobs
          /\ skipped' = FALSE
          /\ UNCHANGED skips
       \/ /\ skips < MaxSkips
          /\ skips' = skips + 1
          /\ skipped' = TRUE
          /\ UNCHANGED <<status, available>>
    /\ UNCHANGED <<kind, attempts, nextId, job, wake, adding, unseen, runs,
                   crashes, claimLocks, settleLocks>>

\* JobWorker.stop, from the shutdown hook of main.py
Stop ==
    /\ proc = "up" /\ ~stop
    /\ crashes < MaxCrashes          \* the process is about to exit
    /\ stop' = TRUE /\ wake' = TRUE
    /\ UNCHANGED <<table, pc, job, proc, adding, unseen, runs, skipped, bounds>>

\* the process ends, by a crash or after Stop: the thread is a daemon, so it
\* is cut wherever it stands
ProcessExits ==
    /\ proc = "up"
    /\ crashes < MaxCrashes
    /\ crashes' = crashes + 1
    /\ proc' = "down"
    /\ pc' = "off" /\ job' = None /\ wake' = FALSE /\ stop' = FALSE
    /\ adding' = {}
    /\ UNCHANGED <<table, unseen, runs, skipped, claimLocks, settleLocks, skips>>

-----------------------------------------------------------------------------
HandlerEnds == HandlerReturns \/ HandlerRaises

WorkerStep ==
    \/ LoopExits \/ ClaimJob \/ ClaimNone \/ ClaimLocked
    \/ WaitReturns \/ ClearWake
    \/ HandlerEnds
    \/ FinishJob \/ FinishLocked \/ FailJob \/ FailLocked

Next ==
    \/ \E p \in Producers, k \in Kinds : Enqueue(p, k)
    \/ \E p \in Producers : SetWake(p)
    \/ \E k \in Kinds : EnqueueDirect(k)
    \/ WorkerStep
    \/ \E j \in JobIds : BackoffElapses(j)
    \/ Start \/ Stop \/ ProcessExits

Spec == Init /\ [][Next]_vars

\* The OS schedules the worker thread, its handlers end, a poll times out and
\* time passes; whoever closed the app opens it again, and an app that was told
\* to stop exits.
Fairness ==
    /\ WF_vars(WorkerStep)
    /\ \A p \in Producers : WF_vars(SetWake(p))
    /\ \A j \in JobIds : WF_vars(BackoffElapses(j))
    /\ WF_vars(Start)
    /\ WF_vars(stop /\ ProcessExits)

FairSpec == Spec /\ Fairness

-----------------------------------------------------------------------------
(* Safety                                                                  *)

\* While the worker's thread is alive, the only running row is the one it
\* holds, unless the last start-up skipped its recovery: no job is stranded in
\* `running`, where claim_job never looks (storage.py requeue_stale_jobs,
\* worker.py start).
NoOrphan ==
    (proc = "up" /\ ~skipped)
        => {j \in JobIds : status[j] = "running"} \subseteq {job}

\* An enqueue answered with a job's id is followed by a whole run of that job:
\* a row that a request was coalesced into since its last claim is still
\* pending, never one whose run had already begun (enqueue_job coalesces into
\* pending rows only).
CoalescedIsPending ==
    \A j \in unseen : status[j] = "pending"

\* A burst of unique enqueues leaves one fresh row: two pending rows of one
\* unique kind only when the older went back to pending after a claim
\* (storage.py enqueue_job).
BurstCoalesces ==
    \A i, j \in JobIds :
        (/\ i < j
         /\ kind[i] = kind[j] /\ kind[i] \in Unique
         /\ status[i] = "pending" /\ status[j] = "pending")
            => attempts[i] > 0

\* A job is done only after its handler returned (worker.py _dispatch settles
\* with finish_job after fn, and nothing else writes `done`).
DoneAfterRun == \A j \in JobIds : status[j] = "done" => runs[j] > 0

\* A handler returns a second time for one job only if the process ended or a
\* settling write failed in between (worker.py _dispatch, requeue_stale_jobs).
RepeatNeedsFault ==
    \A j \in JobIds : runs[j] <= 1 + crashes + settleLocks

\* fail_job parks a job as dead only once its attempts are used up.
DeadIsExhausted ==
    \A j \in JobIds : status[j] = "dead" => attempts[j] >= MaxAttempts

\* Each attempt past the limit is paid for by a process exit, because
\* requeue_stale_jobs does not look at the attempts and fail_job does.
AttemptsBounded ==
    \A j \in JobIds : attempts[j] <= MaxAttempts + crashes

\* The worker never sleeps on work it was told of: in the idle wait with the
\* wake event clear and no producer about to set it, every claimable row came
\* from a direct insert or a backoff that ran out (worker.py _run, enqueue).
NoLostWake ==
    (pc = "wait" /\ ~wake /\ adding = {})
        => \A j \in JobIds :
             (Claimable(j) /\ available[j] = "null") => kind[j] \in Direct

\* Settled rows stay settled: no later call, retry or recovery reopens them.
SettledIsFinal ==
    [][\A j \in JobIds :
         status[j] \in {"done", "dead"} => status'[j] = status[j]]_vars

\* The table keeps the contract: whatever the interleaving, lock or exit, a
\* handler runs only for an owed job and a job is done only after a run.
Contract == INSTANCE JobContract WITH
    Jobs <- JobIds,
    state <- [j \in JobIds |-> IF status[j] \in {"pending", "running"}
                              THEN "owed" ELSE status[j]],
    effects <- runs

KeepsContract == Contract!ContractSpec

-----------------------------------------------------------------------------
(* Liveness                                                                *)

\* Every accepted job is in the end done or dead, unless the thread died or a
\* locked database made the start skip its recovery: then at the next start.
EveryJobSettles ==
    \A j \in JobIds :
        status[j] = "pending" ~>
            status[j] \in {"done", "dead"} \/ pc = "died" \/ skipped

-----------------------------------------------------------------------------
(* What the comments promise and the code does not do                      *)

\* worker.py:94: "database is locked" must not kill the thread.
LocksNeverKillThread == pc # "died"

\* worker.py:7: bounded retries, dead-letter on exhaustion.
RetriesBounded == \A j \in JobIds : attempts[j] <= MaxAttempts
=============================================================================
