--------------------------- MODULE RecordVersions ---------------------------
(***************************************************************************)
(* The versions of one org record: _submit_once, _write_version and        *)
(* retract_record of org_coordinator/records/service.py over the           *)
(* record_versions table (org_coordinator/repo/repo.py).                   *)
(*                                                                         *)
(* Requests are threads of the service, each in a READ COMMITTED           *)
(* transaction of its own.  A submission takes its time stamp first, later *)
(* the lock of the record row (record_for_update) under which it reads the *)
(* believed rows, and then writes: three actions, of which the last is the *)
(* statements from supersede to the commit.  No other submission reads or  *)
(* writes this record from the lock to the commit, so that two submissions *)
(* commit in an order that need not be the order of their stamps.          *)
(* retract_record takes its time stamp, reads the believed rows and stamps *)
(* them, three actions too.  It takes no lock: it may stamp the rows that  *)
(* a submission has read and not yet written, and the other way round.     *)
(*                                                                         *)
(* A payload's valid_to is absent: no node sends one (promotion.py:103).   *)
(* Refusals of a request (TTL, grant, preview) are Abandon and             *)
(* RetractFails, which also stand for a process that ends before the       *)
(* commit.  Two rows that agree in every column but their id are one       *)
(* element of `rows`: they are believed and stamped together.              *)
(***************************************************************************)
EXTENDS Integers, FiniteSets

CONSTANTS
    Packets,        \* approved packets of this record, by payload hash
    Submitters,     \* request threads that submit
    Retracters,     \* request threads that retract
    LastDay,        \* valid time: days 0..LastDay
    MaxClock,       \* bound: time stamps taken
    Apart,          \* no retraction runs while a submission does
    NoHash,         \* payload_hash NULL, of a derived row
    Idle            \* no request under way

ASSUME RecordVersionsAssumption ==
    /\ LastDay \in Nat /\ MaxClock \in Nat
    /\ Apart \in BOOLEAN
    /\ NoHash \notin Packets

Days == 0..LastDay
Forever == LastDay + 1       \* valid_to NULL
Null == 0                    \* superseded_at NULL

VARIABLES
    validFrom,      \* the valid_from each packet carries, under its hash
    rows,           \* record_versions
    current,        \* records.current_version
    clock,          \* the last time stamp taken
    open,           \* of each submitting thread: packet, stamp, the rows it read
    retract,        \* of each retracting thread: its stamp and the rows it read
                    \* (`floor` is history in both: the lowest of the thread's
                    \* stamp and those of retractions written since its read)
    answered,       \* history: the versions a submission of the packet returned
    gone            \* history: the versions retractions found and stamped

vars == <<validFrom, rows, current, clock, open, retract, answered, gone>>

Row == [version: Nat, hash: Packets \cup {NoHash}, from: Days, to: 1..Forever,
        rec: Nat, sup: Nat]

\* believed_versions(record, k)
Believed(k) == {b \in rows : b.rec <= k /\ (b.sup = Null \/ b.sup > k)}

Covers(b, d) == b.from <= d /\ d < b.to

Versions(k, d) == {b.version : b \in {r \in Believed(k) : Covers(r, d)}}

IsTop(v, S) == v \in S \cup {0} /\ \A w \in S : w <= v

\* query_records(as_of d, known_at k): of the rows that match, the highest version
Read(k, d) == CHOOSE v \in Versions(k, d) \cup {0} : IsTop(v, Versions(k, d))

\* supersede goes by row id.  A row of R that was stamped since it was read is
\* stamped again: it is the same row, whatever its superseded_at says now.
Hit(R) == {b \in rows : \E r \in R : b = [r EXCEPT !.sup = b.sup]}

Stamped(R, t) == {[b EXCEPT !.sup = t] : b \in R}

\* the row that keeps believing b for the days before f
Derived(b, f, t) == [b EXCEPT !.hash = NoHash, !.rec = t, !.sup = Null,
                              !.to = IF b.to < f THEN b.to ELSE f]

Recorded(p) == {b \in rows : b.hash = p}
Locked(s) == open[s] # Idle /\ open[s].at = "read"
Running == {s \in Submitters : open[s] # Idle}
Retracting == {x \in Retracters : retract[x] # Idle}

Init ==
    /\ validFrom \in [Packets -> Days]
    /\ rows = {} /\ current = 0 /\ clock = 0
    /\ open = [s \in Submitters |-> Idle]
    /\ retract = [x \in Retracters |-> Idle]
    /\ answered = [p \in Packets |-> {}]
    /\ gone = {}

-----------------------------------------------------------------------------
\* The return of a version the packet already has.
Prior(p) ==
    answered' = [answered EXCEPT ![p] = @ \cup {b.version : b \in Recorded(p)}]

(* A submission begins: its time stamp, then the look-up by payload hash.  *)
Begin(s, p) ==
    /\ open[s] = Idle
    /\ Apart => Retracting = {}
    /\ \/ /\ Recorded(p) # {}
          /\ Prior(p)
          /\ UNCHANGED <<open, clock>>
       \/ /\ Recorded(p) = {}
          /\ clock < MaxClock
          /\ clock' = clock + 1
          /\ open' = [open EXCEPT ![s] =
                        [at |-> "begun", packet |-> p, now |-> clock + 1,
                         floor |-> clock + 1, read |-> {}]]
          /\ UNCHANGED answered
    /\ UNCHANGED <<validFrom, rows, current, retract, gone>>

(* _write_version to believed_versions: the lock of the record row, the    *)
(* rows that are believed.                                                 *)
Find(s) ==
    /\ open[s] # Idle /\ open[s].at = "begun"
    /\ \A u \in Submitters : ~Locked(u)
    /\ open' = [open EXCEPT ![s].at = "read", ![s].read = Believed(open[s].now)]
    /\ UNCHANGED <<validFrom, rows, current, clock, retract, answered, gone>>

\* _write_version's insert of the submitted payload
New(p, now) == [version |-> current + 1, hash |-> p, from |-> validFrom[p],
                to |-> Forever, rec |-> now, sup |-> Null]

\* mutant: a row is derived of every row read, starting later or not
WriteVersionDerivesAll(p, now, R) ==
    /\ rows' = (rows \ Hit(R)) \cup Stamped(Hit(R), now)
                 \cup {Derived(b, validFrom[p], now) : b \in R} \cup {New(p, now)}
    /\ current' = current + 1
    /\ answered' = [answered EXCEPT ![p] = @ \cup {current + 1}]

\* mutant: the superseded rows are deleted
WriteVersionDeletes(p, now, R) ==
    /\ rows' = (rows \ Hit(R)) \cup {New(p, now)}
                 \cup {Derived(b, validFrom[p], now) :
                         b \in {r \in R : r.from < validFrom[p]}}
    /\ current' = current + 1
    /\ answered' = [answered EXCEPT ![p] = @ \cup {current + 1}]

\* mutant: the days before valid_from are forgotten
WriteVersionDerivesNone(p, now, R) ==
    /\ rows' = (rows \ Hit(R)) \cup Stamped(Hit(R), now) \cup {New(p, now)}
    /\ current' = current + 1
    /\ answered' = [answered EXCEPT ![p] = @ \cup {current + 1}]

(* _write_version from supersede on: stamp the rows read, derive, insert.  *)
WriteVersion(p, now, R) ==
    LET kept == {Derived(b, validFrom[p], now) :
                   b \in {r \in R : r.from < validFrom[p]}}
    IN  /\ rows' = (rows \ Hit(R)) \cup Stamped(Hit(R), now) \cup kept \cup {New(p, now)}
        /\ current' = current + 1
        /\ answered' = [answered EXCEPT ![p] = @ \cup {current + 1}]

\* mutant: without ux_rv_payload_hash
WriteTwice(s) ==
    /\ Locked(s)
    /\ open' = [open EXCEPT ![s] = Idle]
    /\ WriteVersion(open[s].packet, open[s].now, open[s].read)
    /\ UNCHANGED <<validFrom, clock, retract, gone>>

(* The statements from supersede to the commit.                            *)
Write(s) ==
    /\ Locked(s)
    /\ open' = [open EXCEPT ![s] = Idle]
    /\ \/ /\ Recorded(open[s].packet) = {}
          /\ WriteVersion(open[s].packet, open[s].now, open[s].read)
       \* ux_rv_payload_hash: Conflict, roll back, answer the prior version
       \/ /\ Recorded(open[s].packet) # {}
          /\ Prior(open[s].packet)
          /\ UNCHANGED <<rows, current>>
    /\ UNCHANGED <<validFrom, clock, retract, gone>>

Abandon(s) ==
    /\ open[s] # Idle
    /\ open' = [open EXCEPT ![s] = Idle]
    /\ UNCHANGED <<validFrom, rows, current, clock, retract, answered, gone>>

(* A retraction begins: its time stamp, then the record and its scope.     *)
RetractBegin(x) ==
    /\ retract[x] = Idle
    /\ Apart => Running = {}
    /\ clock < MaxClock
    /\ clock' = clock + 1
    /\ retract' = [retract EXCEPT ![x] =
                   [at |-> "begun", now |-> clock + 1, floor |-> clock + 1, read |-> {}]]
    /\ UNCHANGED <<validFrom, rows, current, open, answered, gone>>

RetractRead(x) ==
    /\ retract[x] # Idle /\ retract[x].at = "begun"
    /\ retract' = [retract EXCEPT ![x].at = "read", ![x].read = Believed(retract[x].now)]
    /\ UNCHANGED <<validFrom, rows, current, clock, open, answered, gone>>

\* The request r, when a retraction writes the stamp t.
Meets(r, t) ==
    IF r # Idle /\ r.at = "read" /\ t < r.floor THEN [r EXCEPT !.floor = t] ELSE r

RetractStamp(x) ==
    LET t == retract[x].now IN
    /\ retract[x] # Idle /\ retract[x].at = "read"
    /\ rows' = (rows \ Hit(retract[x].read)) \cup Stamped(Hit(retract[x].read), t)
    /\ gone' = gone \cup {b.version : b \in retract[x].read}
    /\ retract' = [y \in Retracters |-> IF y = x THEN Idle ELSE Meets(retract[y], t)]
    /\ open' = [s \in Submitters |-> Meets(open[s], t)]
    /\ UNCHANGED <<validFrom, current, clock, answered>>

RetractFails(x) ==
    /\ retract[x] # Idle
    /\ retract' = [retract EXCEPT ![x] = Idle]
    /\ UNCHANGED <<validFrom, rows, current, clock, open, answered, gone>>

Next ==
    \/ \E s \in Submitters :
          \/ \E p \in Packets : Begin(s, p)
          \/ Find(s)
          \/ Write(s)
          \/ Abandon(s)
    \/ \E x \in Retracters :
          \/ RetractBegin(x) \/ RetractRead(x)
          \/ RetractStamp(x) \/ RetractFails(x)

Spec == Init /\ [][Next]_vars

-----------------------------------------------------------------------------
TypeOK ==
    /\ validFrom \in [Packets -> Days]
    /\ rows \subseteq Row
    /\ current \in Nat /\ clock \in Nat
    /\ open \in [Submitters -> [at: {"begun", "read"}, packet: Packets, now: 1..clock,
                                floor: 1..clock, read: SUBSET Row] \cup {Idle}]
    /\ \A s \in Running :
          open[s].floor <= open[s].now /\ (open[s].at = "begun" => open[s].read = {})
    /\ retract \in [Retracters -> [at: {"begun", "read"}, now: 1..clock,
                                   floor: 1..clock, read: SUBSET Row] \cup {Idle}]
    /\ \A x \in Retracting :
          retract[x].floor <= retract[x].now /\ (retract[x].at = "begun" => retract[x].read = {})
    /\ answered \in [Packets -> SUBSET Nat]
    /\ gone \subseteq Nat

(* However often and from however many threads a packet is submitted, it   *)
(* is one version, every answer names that version, and the versions of    *)
(* the record are numbered 1..current without a gap or a repetition        *)
(* (submit_packet: "including when two submissions of the same packet      *)
(* race").                                                                 *)
OneVersionEach ==
    /\ \A p \in Packets : answered[p] = {b.version : b \in Recorded(p)}
    /\ \A v \in 1..current : \E p \in Packets :
          /\ answered[p] = {v}
          /\ \A q \in Packets \ {p} : v \notin answered[q]
    /\ \A p \in Packets : answered[p] \subseteq 1..current

(* A read of the past does not change: what the service answers for        *)
(* known_at k, before the stamps of all requests under way, it answers     *)
(* ever after.  Derived rows and second stamps fall on the far side of k,  *)
(* or are outdone there.  But a request that has read rows which a         *)
(* retraction stamps before it does stamps them again: what the retraction *)
(* withdrew is known again between the two stamps, if the second is the    *)
(* later.  So k has to be before the stamps of the retractions that a      *)
(* request under way, a submission or a retraction, has met, too.          *)
Settled(k) ==
    /\ k <= clock
    /\ \A s \in Running : k < open[s].floor
    /\ \A x \in Retracting : k < retract[x].floor

HistoryStable ==
    [][\A k \in 0..clock, d \in Days :
          Settled(k) => Read(k, d)' = Read(k, d)]_vars

(* After a retraction current reads return none of the versions it found   *)
(* (retract_record: "current reads and searches no longer return it"),     *)
(* nor do the rows that later versions derive bring one back.              *)
RetractedIsGone == \A d \in Days : Read(clock, d) \notin gone

(* The rows, read now, are the timeline: a late stamp, an overlap of       *)
(* believed rows or a row derived from one already superseded never shows  *)
(* in what query_records returns.                                          *)
Abstract == INSTANCE Timeline
    WITH belief <- [d \in Days |-> Read(clock, d)], last <- current

KeepsTimeline == Abstract!Spec
=============================================================================
