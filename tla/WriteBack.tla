----------------------------- MODULE WriteBack ------------------------------
(***************************************************************************)
(* Write-back of one record to one property of an external system: the     *)
(* preview an approver signs, the sync job of each recorded version, the   *)
(* worker and the nightly drift sweep (org_coordinator/records/sync.py)    *)
(* over the HubSpot connector's set_property (connectors/hubspot.py).      *)
(*                                                                         *)
(* A worker process drains due jobs and, now and then, sweeps.  A job runs *)
(* in one transaction that holds its queue row, so what it does to the     *)
(* tables is seen at its end or never, while what it does outside stays    *)
(* done; GET, PATCH and the GET of the read-back are separate calls, and   *)
(* anyone may edit the field between them.                                 *)
(*                                                                         *)
(* Time is left out: a queued job is due at some moment, a sweep may start *)
(* at any, and `newer` keeps the order of verified_at (the stamp run_one   *)
(* takes as it starts).  The unreached branch of run_one for a queue row   *)
(* whose job is settled, the ops without a readable value (notes, tasks,   *)
(* entries, posts) and acknowledgements by another record are left out.    *)
(***************************************************************************)
EXTENDS Integers, FiniteSets

CONSTANTS
    Packets,        \* promotion packets of the record: one version, one job each
    Values,         \* values of the field
    Workers,        \* worker processes
    MaxAttempts,    \* MAX_ATTEMPTS
    MaxEdits,       \* bound: edits by other people
    MaxFaults,      \* bound: calls that fail and processes that end
    None            \* no packet, nothing read

ASSUME WriteBackAssumption ==
    /\ None \notin Packets \cup Values
    /\ MaxAttempts \in Nat \ {0}
    /\ MaxEdits \in Nat /\ MaxFaults \in Nat

VARIABLES
    field,          \* the value the external system holds
    before, after,  \* the signed diff of each packet; None until previewed
    state,          \* sync_jobs.state
    attempts,       \* sync_jobs.attempts
    queued,         \* rows of sync_queue
    newer,          \* <<p, q>>: the last claim of p came after that of q
    notice,         \* drift_notices, one per job: unique on (job, field)
    mark,           \* records.drift_status = externally_modified
    doing, job, seen,   \* each worker: its next step, its job, the value it read
    clear,          \* a sweep found no open notice of the record
    edits, faults,
    \* history
    moved,          \* packets whose field another hand changed since the preview,
                    \* or since the read-back that verified their job
    raced,          \* workers that read a value another hand has changed since
    overlapped      \* two sweeps have run at the same time

ext     == <<field, moved, raced>>
signed  == <<before, after>>
jobs    == <<state, attempts, queued>>
drift   == <<notice, mark>>
hands   == <<doing, job, seen, clear>>
bounds  == <<edits, faults>>
vars == <<ext, signed, jobs, newer, drift, hands, bounds, overlapped>>

Idle == "idle"
JobSteps == {"read", "patch", "back"}
SweepSteps == {"look", "judge", "finish"}
JobStates == {"none", "pending", "verified", "conflict", "failed"}

Sweeping == {w \in Workers : doing[w] \in SweepSteps}
Held == {job[w] : w \in {x \in Workers : doing[x] \in JobSteps}}

\* mutant: the sweep looks at failed writes too
LatestOrFailed(p) ==
    /\ state[p] \in {"verified", "failed"}
    /\ \A q \in Packets \ {p} : state[q] \in {"verified", "failed"} => <<p, q>> \in newer

\* p is the latest verified write of the field (drift_sweep).
Latest(p) ==
    /\ state[p] = "verified"
    /\ \A q \in Packets \ {p} : state[q] = "verified" => <<p, q>> \in newer

Init ==
    /\ field \in Values
    /\ before = [p \in Packets |-> None] /\ after = [p \in Packets |-> None]
    /\ state = [p \in Packets |-> "none"]
    /\ attempts = [p \in Packets |-> 0]
    /\ queued = {} /\ newer = {}
    /\ notice = [p \in Packets |-> "none"] /\ mark = FALSE
    /\ doing = [w \in Workers |-> Idle] /\ job = [w \in Workers |-> None]
    /\ seen = [w \in Workers |-> None] /\ clear = [w \in Workers |-> FALSE]
    /\ edits = 0 /\ faults = 0
    /\ moved = {} /\ raced = {} /\ overlapped = FALSE

-----------------------------------------------------------------------------
\* The field takes a value by the hand of `who` (a packet, or None: a person).
SetField(v, who) ==
    /\ field' = v
    /\ moved' = moved \cup ({p \in Packets : before[p] # None} \ {who})
    /\ raced' = {w \in Workers : job[w] # who /\ (w \in raced \/ doing[w] = "patch")}

Edit(v) ==
    /\ edits < MaxEdits /\ v # field
    /\ SetField(v, None)
    /\ edits' = edits + 1
    /\ UNCHANGED <<signed, jobs, newer, drift, hands, faults, overlapped>>

Fault == faults < MaxFaults /\ faults' = faults + 1
NoFault == UNCHANGED faults
Rest == UNCHANGED <<signed, edits, overlapped>>

(* POST /packets/preview: the plan and the value the field has now, which  *)
(* the packet's hash then covers.                                          *)
Preview(p, v) ==
    /\ before[p] = None
    /\ before' = [before EXCEPT ![p] = field]
    /\ after' = [after EXCEPT ![p] = v]
    /\ UNCHANGED <<ext, jobs, newer, drift, hands, bounds, overlapped>>

\* mutant: the notices are answered and the record keeps its mark
SubmitKeepsMark(p) ==
    /\ before[p] # None /\ state[p] = "none"
    /\ state' = [state EXCEPT ![p] = "pending"]
    /\ queued' = queued \cup {p}
    /\ notice' = [q \in Packets |-> IF notice[q] = "open" THEN "resolved" ELSE notice[q]]
    /\ UNCHANGED <<ext, signed, attempts, newer, mark, hands, bounds, overlapped>>

(* submit_packet: check_preview (the plan, not the value the field has),   *)
(* the version, its job, and the answer to the record's open notices.      *)
Submit(p) ==
    /\ before[p] # None /\ state[p] = "none"
    /\ state' = [state EXCEPT ![p] = "pending"]
    /\ queued' = queued \cup {p}
    /\ notice' = [q \in Packets |-> IF notice[q] = "open" THEN "resolved" ELSE notice[q]]
    /\ mark' = FALSE
    /\ UNCHANGED <<ext, signed, attempts, newer, hands, bounds, overlapped>>

-----------------------------------------------------------------------------
\* mutant: the queue row is left behind
CommitKeepsRow(w, s) ==
    LET p == job[w] IN
    /\ state' = [state EXCEPT ![p] = s]
    /\ attempts' = [attempts EXCEPT ![p] = @ + 1]
    /\ doing' = [doing EXCEPT ![w] = Idle]
    /\ job' = [job EXCEPT ![w] = None]
    /\ seen' = [seen EXCEPT ![w] = None]
    /\ UNCHANGED <<queued, clear, newer, drift>>

\* The transaction of a job commits, with the job in the state s.
Commit(w, s) ==
    LET p == job[w] IN
    /\ state' = [state EXCEPT ![p] = s]
    /\ attempts' = [attempts EXCEPT ![p] = @ + 1]
    /\ queued' = IF s = "pending" THEN queued \cup {p} ELSE queued \ {p}
    /\ doing' = [doing EXCEPT ![w] = Idle]
    /\ job' = [job EXCEPT ![w] = None]
    /\ seen' = [seen EXCEPT ![w] = None]
    /\ UNCHANGED <<clear, newer, drift>>

Retry(w) == Commit(w, IF attempts[job[w]] + 1 >= MaxAttempts THEN "failed" ELSE "pending")

\* The worker goes on to its next step.
Step(w, s) ==
    /\ doing' = [doing EXCEPT ![w] = s]
    /\ UNCHANGED <<job, clear, jobs, newer, drift>>

\* The claims' order once p is claimed again.
Newest(p) == {x \in newer : p \notin {x[1], x[2]}} \cup {<<p, q>> : q \in Packets \ {p}}

\* mutant: a job that was tried is not due again
ClaimOnce(w, p) ==
    /\ doing[w] = Idle /\ p \in queued \ Held /\ attempts[p] = 0
    /\ newer' = Newest(p)
    /\ doing' = [doing EXCEPT ![w] = "read"]
    /\ job' = [job EXCEPT ![w] = p]
    /\ UNCHANGED <<ext, jobs, drift, seen, clear>> /\ Rest /\ NoFault

Claim(w, p) ==
    /\ doing[w] = Idle /\ p \in queued \ Held
    /\ newer' = Newest(p)
    /\ doing' = [doing EXCEPT ![w] = "read"]
    /\ job' = [job EXCEPT ![w] = p]
    /\ UNCHANGED <<ext, jobs, drift, seen, clear>> /\ Rest /\ NoFault

(* PermanentError: the connector is off, or the system refuses for good.   *)
Refused(w) ==
    /\ doing[w] \in JobSteps
    /\ Fault
    /\ Commit(w, "failed")
    /\ UNCHANGED ext /\ Rest

\* mutant: without the comparison with the previewed value
ReadFieldHopes(w) ==
    /\ doing[w] = "read"
    /\ raced' = raced \ {w}
    /\ Step(w, IF field = after[job[w]] THEN "back" ELSE "patch")
    /\ UNCHANGED <<field, moved, seen>> /\ Rest /\ NoFault

(* The GET of write: skip what is there already, refuse what has moved.    *)
ReadField(w) ==
    /\ doing[w] = "read"
    /\ raced' = raced \ {w}
    /\ LET p == job[w] IN
       \/ /\ field = after[p]
          /\ Step(w, "back") /\ UNCHANGED seen
       \/ /\ field # after[p] /\ field # before[p]
          /\ Commit(w, "conflict")
       \/ /\ field # after[p] /\ field = before[p]
          /\ Step(w, "patch") /\ UNCHANGED seen
    /\ UNCHANGED <<field, moved>> /\ Rest /\ NoFault

Patch(w) ==
    /\ doing[w] = "patch"
    /\ SetField(after[job[w]], job[w])
    /\ \/ Step(w, "back") /\ UNCHANGED seen /\ NoFault
       \/ Retry(w) /\ Fault                 \* done, and the answer is lost
    /\ Rest

ReadBack(w) ==
    /\ doing[w] = "back"
    /\ \/ /\ field = after[job[w]]
          /\ moved' = moved \ {job[w]}
          /\ Commit(w, "verified")
       \/ /\ field # after[job[w]]
          /\ Retry(w)
          /\ UNCHANGED moved
    /\ UNCHANGED <<field, raced>> /\ Rest /\ NoFault

CallFails(w) ==
    /\ doing[w] \in JobSteps
    /\ Fault /\ Retry(w)
    /\ UNCHANGED ext /\ Rest

(* The process ends, or its transaction is rolled back.                    *)
Crash(w) ==
    /\ doing[w] # Idle
    /\ Fault
    /\ doing' = [doing EXCEPT ![w] = Idle]
    /\ job' = [job EXCEPT ![w] = None] /\ seen' = [seen EXCEPT ![w] = None]
    /\ clear' = [clear EXCEPT ![w] = FALSE]
    /\ UNCHANGED <<ext, jobs, newer, drift>> /\ Rest

-----------------------------------------------------------------------------
(* drift_sweep, one transaction too: the latest verified job, the value    *)
(* the field has, the verdict and the mark.                                *)
SweepBegin(w) ==
    /\ doing[w] = Idle
    /\ doing' = [doing EXCEPT ![w] = "look"]
    /\ \E p \in Packets :
          /\ Latest(p)
          /\ job' = [job EXCEPT ![w] = p]
    /\ overlapped' = (overlapped \/ Sweeping # {})
    /\ UNCHANGED <<ext, signed, jobs, newer, drift, seen, clear, bounds>>

\* No notice of the record is open but those in S.
NoneOpenBut(S) == \A p \in Packets \ S : notice[p] # "open"

SweepLook(w) ==
    /\ doing[w] = "look"
    /\ \/ /\ NoFault
          /\ seen' = [seen EXCEPT ![w] = field]
          /\ Step(w, "judge")
       \/ /\ Fault           \* ConnectorError, or the connector is off: passed over
          /\ clear' = [clear EXCEPT ![w] = NoneOpenBut({})]
          /\ doing' = [doing EXCEPT ![w] = "finish"]
          /\ UNCHANGED <<job, seen, jobs, newer, drift>>
    /\ UNCHANGED ext /\ Rest

\* The sweep's transaction ends.
Swept(w) ==
    /\ doing' = [doing EXCEPT ![w] = Idle]
    /\ job' = [job EXCEPT ![w] = None] /\ seen' = [seen EXCEPT ![w] = None]
    /\ clear' = [clear EXCEPT ![w] = FALSE]

\* mutant: a record already marked gets no notice
OpensUnmarked(w) == ~mark /\ seen[w] # after[job[w]] /\ notice[job[w]] = "none"

\* The value is not the one that was written, and the job has no notice yet.
Opens(w) == seen[w] # after[job[w]] /\ notice[job[w]] = "none"

(* A new notice takes the lock of the record row with it, so nothing comes *)
(* between it and the commit.                                              *)
SweepOpens(w) ==
    /\ doing[w] = "judge" /\ Opens(w)
    /\ notice' = [notice EXCEPT ![job[w]] = "open"]
    /\ mark' = TRUE
    /\ Swept(w)
    /\ UNCHANGED <<ext, jobs, newer>> /\ Rest /\ NoFault

SweepLeaves(w) ==
    /\ doing[w] = "judge" /\ ~Opens(w)
    /\ LET answers == {p \in {job[w]} : seen[w] = after[p]} IN
       clear' = [clear EXCEPT ![w] = NoneOpenBut(answers)]
    /\ doing' = [doing EXCEPT ![w] = "finish"]
    /\ UNCHANGED <<ext, job, seen, jobs, newer, drift>> /\ Rest /\ NoFault

SweepFinish(w) ==
    /\ doing[w] = "finish"
    /\ notice' = [notice EXCEPT ![job[w]] =
                    IF @ = "open" /\ seen[w] = after[job[w]] THEN "resolved" ELSE @]
    /\ mark' = (mark /\ ~clear[w])
    /\ Swept(w)
    /\ UNCHANGED <<ext, jobs, newer>> /\ Rest /\ NoFault

-----------------------------------------------------------------------------
JobStep(w) == ReadField(w) \/ Patch(w) \/ ReadBack(w)
SweepStep(w) == SweepLook(w) \/ SweepOpens(w) \/ SweepLeaves(w) \/ SweepFinish(w)

Next ==
    \/ \E v \in Values : Edit(v)
    \/ \E p \in Packets : Submit(p) \/ \E v \in Values : Preview(p, v)
    \/ \E w \in Workers :
          \/ \E p \in Packets : Claim(w, p)
          \/ JobStep(w) \/ Refused(w) \/ CallFails(w) \/ Crash(w)
          \/ SweepBegin(w) \/ SweepStep(w)

Spec == Init /\ [][Next]_vars

(* A process takes its next step; it starts a sweep only when no job is    *)
(* due (drain comes first), so a due job is claimed however often it       *)
(* sweeps: the fairness of Claim is strong.                                *)
Fairness ==
    \A w \in Workers :
        /\ WF_vars(JobStep(w) \/ SweepStep(w))
        /\ WF_vars(SweepBegin(w))
        /\ SF_vars(\E p \in Packets : Claim(w, p))

FairSpec == Spec /\ Fairness

-----------------------------------------------------------------------------
(* Typed state; a job is pending exactly while it has a queue row, so none *)
(* is left behind and none runs again (run_one, across its ends).          *)
TypeOK ==
    /\ field \in Values
    /\ before \in [Packets -> Values \cup {None}]
    /\ after \in [Packets -> Values \cup {None}]
    /\ state \in [Packets -> JobStates]
    /\ attempts \in [Packets -> 0..MaxAttempts]
    /\ queued = {p \in Packets : state[p] = "pending"}
    /\ newer \subseteq Packets \X Packets
    /\ notice \in [Packets -> {"none", "open", "resolved"}]
    /\ mark \in BOOLEAN /\ overlapped \in BOOLEAN
    /\ doing \in [Workers -> {Idle} \cup JobSteps \cup SweepSteps]
    /\ job \in [Workers -> Packets \cup {None}]
    /\ seen \in [Workers -> Values \cup {None}]
    /\ clear \in [Workers -> BOOLEAN]
    /\ moved \subseteq Packets /\ raced \subseteq Workers

(* A value is overwritten only if it is the one the approver saw, unless   *)
(* it came in the window between the worker's read and its PATCH           *)
(* (write: `cur.get(f) != expected.get(f)`), whatever edits, retries, lost *)
(* answers and other packets come between the preview and the write.       *)
OverwriteIsSigned ==
    [][\A w \in Workers :
          Patch(w) => \/ field = before[job[w]] \/ field = after[job[w]]
                      \/ w \in raced]_vars

(* The write-back keeps SignedWrites: each PATCH follows a look of its own *)
(* that found the signed value, outcomes are final and true when they are  *)
(* given ("a field that moved since the preview -> `conflict`", sync.py:14, *)
(* as far as the GET can see), and notices follow what a sweep found.      *)
Armed == {p \in Packets : \E w \in Workers : job[w] = p /\ doing[w] = "patch"}
Strayed == {p \in Packets : \E w \in Workers :
                job[w] = p /\ doing[w] = "judge" /\ seen[w] # after[p]}
Restored == {p \in Packets : \E w \in Workers :
                job[w] = p /\ doing[w] \in {"judge", "finish"} /\ seen[w] = after[p]}

Ledger == INSTANCE SignedWrites
    WITH Unsigned <- None, value <- field, from <- before, to <- after, outcome <- state,
         armed <- Armed, strayed <- Strayed, restored <- Restored
KeepsSignedWrites == Ledger!SignedSpec

(* A notice says that the field changed after Sparrow had seen its own     *)
(* value in it (drift_sweep compares with a verified job only).            *)
NoticeIsExplained ==
    \A p \in Packets : notice[p] = "open" => p \in moved

(* The record is marked externally_modified exactly while a notice of it   *)
(* is open, through submissions that answer notices and sweeps that end    *)
(* half-way, as long as no two sweeps overlap.                             *)
MarkMatchesNotices ==
    ~overlapped => (mark <=> \E p \in Packets : notice[p] = "open")

(* Every recorded version is written, refused, found in conflict or given  *)
(* up: the queue runs empty (run_one with its backoff).                    *)
EveryJobSettles == queued # {} ~> queued = {}

(* A value that stays different from the last one Sparrow verified gets a  *)
(* notice (drift_sweep).                                                   *)
Drifted == \E p \in Packets : Latest(p) /\ field # after[p] /\ notice[p] = "none"

DriftIsNoticed == Drifted ~> ~Drifted

(* Not kept, and in no run.  "A field that moved since the preview ->      *)
(* `conflict`, never an overwrite" (sync.py:14): no PATCH of a packet      *)
(* replaces a value that another hand put there after its preview.         *)
MovedIsNotOverwritten ==
    [][\A w \in Workers : Patch(w) => job[w] \notin moved]_vars
=============================================================================
