------------------------- MODULE RecordVersionsProofs ------------------------
(***************************************************************************)
(* What the service answers for a record, for every number of packets,     *)
(* threads, days and stamps.                                               *)
(*                                                                         *)
(* That a packet is one version needs no order between requests.  That the *)
(* rows are the timeline needs retractions that meet no submission: a row  *)
(* believed only in the past of a request under way is outdone by one      *)
(* believed now, and a retraction finds all that is.                       *)
(* That a read of the past is stable needs no order either, for a          *)
(* known_at before the floors of the requests under way.  A row that a     *)
(* retraction stamps again was outdone there by the submission that        *)
(* stamped it first, or was stamped by a retraction from the floor on; one *)
(* that a submission stamps again, only the latter, for the lock keeps     *)
(* other submissions off the rows it has read.                             *)
(***************************************************************************)
EXTENDS RecordVersions, TLAPS

\* Numbers and stamps are ones that were given out.
Numbered ==
    /\ \A b \in rows : b.version \in 1..current /\ b.rec \in 1..clock /\ b.sup \in 0..clock
    /\ \A s \in Running : \A b \in open[s].read : b.version \in 1..current

\* The lock of the record row.
OneLock == \A s, u \in Submitters : Locked(s) /\ Locked(u) => s = u

\* A stamp is of one request, and no row carries the stamp of one under way.
Fresh ==
    /\ \A s \in Running : \A b \in rows : b.rec # open[s].now
    /\ \A s, u \in Running : s # u => open[s].now # open[u].now

Twins(b, c) == /\ b.version = c.version /\ b.hash = c.hash /\ b.rec = c.rec
               /\ b.from = c.from /\ b.to = c.to

\* Rows that differ in superseded_at differ in something else.
NoTwins == \A b, c \in rows : Twins(b, c) => b.sup = c.sup

IInv == TypeOK /\ OneVersionEach /\ Numbered /\ OneLock /\ Fresh /\ NoTwins

-----------------------------------------------------------------------------
(* The rows a write and a retraction leave.                                *)

LEMMA Stamping ==
    ASSUME NEW b \in Row, NEW t \in Nat
    PROVE  /\ [b EXCEPT !.sup = t] \in Row
           /\ [b EXCEPT !.sup = t].sup = t
           /\ Twins([b EXCEPT !.sup = t], b)
           /\ [b EXCEPT !.sup = b.sup] = b
BY DEF Row, Twins

LEMMA Deriving ==
    ASSUME NEW b \in Row, NEW f \in Days, NEW t \in Nat, b.from < f
    PROVE  /\ Derived(b, f, t) \in Row
           /\ Derived(b, f, t).version = b.version /\ Derived(b, f, t).hash = NoHash
           /\ Derived(b, f, t).rec = t /\ Derived(b, f, t).sup = Null
           /\ Derived(b, f, t).from = b.from
           /\ Derived(b, f, t).to = IF b.to < f THEN b.to ELSE f
<1>1. (IF b.to < f THEN b.to ELSE f) \in 1..Forever
  BY RecordVersionsAssumption DEF Row, Days, Forever
<1> QED
  BY <1>1 DEF Row, Derived, Null

LEMMA Newest ==
    ASSUME TypeOK, NEW p \in Packets, NEW t \in Nat
    PROVE  /\ New(p, t) \in Row
           /\ New(p, t).version = current + 1 /\ New(p, t).hash = p
           /\ New(p, t).rec = t /\ New(p, t).sup = Null
           /\ New(p, t).from = validFrom[p] /\ New(p, t).to = Forever
BY RecordVersionsAssumption DEF TypeOK, New, Row, Null, Forever, Days

\* The writing of p: what each row after it is, and where each row goes.
Written(p, t, R) ==
    /\ \A c \in rows' :
          \/ c \in rows \ Hit(R)
          \/ \E b \in Hit(R) : c = [b EXCEPT !.sup = t]
          \/ \E b \in R : b.from < validFrom[p] /\ c = Derived(b, validFrom[p], t)
          \/ c = New(p, t)
    /\ rows \ Hit(R) \subseteq rows' /\ New(p, t) \in rows'
    /\ \A b \in Hit(R) : [b EXCEPT !.sup = t] \in rows'
    /\ \A b \in R : b.from < validFrom[p] => Derived(b, validFrom[p], t) \in rows'

LEMMA Writes ==
    ASSUME NEW p, NEW t, NEW R, WriteVersion(p, t, R)
    PROVE  Written(p, t, R)
BY DEF WriteVersion, Written, Stamped

LEMMA Under ==
    ASSUME TypeOK, NEW s \in Submitters, open[s] # Idle
    PROVE  /\ open[s].packet \in Packets /\ open[s].now \in 1..clock /\ s \in Running
           /\ open[s].floor \in Nat /\ open[s].floor <= open[s].now
           /\ open[s].read \in SUBSET Row
BY DEF TypeOK, Running

LEMMA Withdrawing ==
    ASSUME TypeOK, NEW x \in Retracters, retract[x] # Idle
    PROVE  /\ retract[x].now \in 1..clock /\ retract[x].now \in Nat \ {0}
           /\ retract[x].floor \in Nat /\ retract[x].floor <= retract[x].now
           /\ retract[x].read \subseteq Row /\ x \in Retracting
BY DEF TypeOK, Retracting

\* The steps of a retraction that leave the rows.
Quiet(x) == RetractBegin(x) \/ RetractRead(x) \/ RetractFails(x)

LEMMA QuietSteps ==
    ASSUME NEW x \in Retracters, Quiet(x)
    PROVE  UNCHANGED <<validFrom, rows, current, open, answered, gone>>
BY DEF Quiet, RetractBegin, RetractRead, RetractFails

LEMMA QuietClock ==
    ASSUME TypeOK, NEW x \in Retracters, Quiet(x)
    PROVE  clock' \in {clock, clock + 1} /\ clock' \in Nat
BY DEF Quiet, RetractBegin, RetractRead, RetractFails, TypeOK

\* What the type invariant says of a request under way.
Sound(r) == r.floor <= r.now /\ (r.at = "begun" => r.read = {})

\* A submission that reads changes nothing else.
LEMMA FindSteps ==
    ASSUME TypeOK, NEW s \in Submitters, Find(s)
    PROVE  /\ UNCHANGED <<validFrom, rows, current, clock, retract, answered, gone>>
           /\ s \in Running /\ Running' \subseteq Running /\ UNCHANGED Retracting
           /\ \A u \in Running : /\ open'[u].now = open[u].now
                                 /\ open'[u].floor = open[u].floor
                                 /\ u # s => open'[u] = open[u]
           /\ open'[s].read = Believed(open[s].now)
<1> DEFINE e == [[open[s] EXCEPT !.at = "read"] EXCEPT !.read = Believed(open[s].now)]
<1>1. open' = [open EXCEPT ![s] = e] /\ open[s] # Idle
  BY DEF Find, TypeOK
<1>2. /\ open[s] \in [at: {"begun", "read"}, packet: Packets, now: 1..clock,
                       floor: 1..clock, read: SUBSET Row]
      /\ e \in [at: {"begun", "read"}, packet: Packets, now: 1..clock,
                floor: 1..clock, read: SUBSET Row]
  BY <1>1 DEF TypeOK, Believed
<1>3. /\ e.now = open[s].now /\ e.floor = open[s].floor
      /\ e.read = Believed(open[s].now)
  BY <1>2
<1> HIDE DEF e
<1>4. open'[s] = e /\ \A u \in Submitters : u # s => open'[u] = open[u]
  BY <1>1 DEF TypeOK
<1>5. s \in Running /\ Running' \subseteq Running
  BY <1>1, <1>4 DEF Running
<1> QED
  BY <1>3, <1>4, <1>5 DEF Find, Running, Retracting

\* What a written stamp leaves of the other retractions.
LEMMA Others ==
    ASSUME TypeOK, NEW x \in Retracters, RetractStamp(x), NEW y \in Retracting'
    PROVE  /\ y # x /\ y \in Retracting /\ retract'[y].at = retract[y].at
           /\ retract'[y].now = retract[y].now /\ retract'[y].read = retract[y].read
           /\ retract'[y].floor \in 1..clock /\ retract'[y].floor <= retract[y].floor
           /\ retract[y].at = "read" => retract'[y].floor <= retract[x].now
           /\ retract'[y] \in [at: {"begun", "read"}, now: 1..clock,
                                floor: 1..clock, read: SUBSET Row]
<1>1. y # x /\ retract'[y] = Meets(retract[y], retract[x].now) /\ y \in Retracters
  BY DEF RetractStamp, Retracting
<1>2. retract[y] # Idle
  BY <1>1 DEF Retracting, Meets
<1>3. /\ retract[y] \in [at: {"begun", "read"}, now: 1..clock, floor: 1..clock, read: SUBSET Row]
      /\ retract[x].now \in 1..clock
  BY <1>1, <1>2, Withdrawing DEF TypeOK, RetractStamp
<1> QED
  BY <1>1, <1>2, <1>3 DEF Meets, Retracting, TypeOK

\* What it leaves of the submissions.
LEMMA Met ==
    ASSUME TypeOK, NEW x \in Retracters, RetractStamp(x), NEW s \in Running'
    PROVE  /\ s \in Running /\ open'[s].at = open[s].at
           /\ open'[s].now = open[s].now /\ open'[s].read = open[s].read
           /\ open'[s].floor \in 1..clock /\ open'[s].floor <= open[s].floor
           /\ open[s].at = "read" => open'[s].floor <= retract[x].now
           /\ open'[s] \in [at: {"begun", "read"}, packet: Packets, now: 1..clock,
                             floor: 1..clock, read: SUBSET Row]
<1>1. open'[s] = Meets(open[s], retract[x].now) /\ s \in Submitters
  BY DEF RetractStamp, Running
<1>2. open[s] # Idle
  BY <1>1 DEF Running, Meets
<1>3. /\ open[s] \in [at: {"begun", "read"}, packet: Packets, now: 1..clock,
                      floor: 1..clock, read: SUBSET Row]
      /\ retract[x].now \in 1..clock
  BY <1>1, <1>2, Withdrawing DEF TypeOK, RetractStamp
<1> QED
  BY <1>1, <1>2, <1>3 DEF Meets, Running, TypeOK

LEMMA Opened ==
    ASSUME TypeOK, NEW s \in Submitters, NEW p \in Packets, Begin(s, p)
    PROVE  /\ UNCHANGED <<validFrom, rows, current, retract, gone>>
           /\ \/ UNCHANGED <<open, clock>> /\ Prior(p)
              \/ /\ clock' = clock + 1 /\ UNCHANGED answered
                 /\ open' = [open EXCEPT ![s] =
                               [at |-> "begun", packet |-> p, now |-> clock + 1,
                                floor |-> clock + 1, read |-> {}]]
                 /\ open'[s].now = clock + 1 /\ open'[s].read = {} /\ ~Locked(s)'
                 /\ \A u \in Running' : u # s => u \in Running /\ open'[u] = open[u]
<1> DEFINE e == [at |-> "begun", packet |-> p, now |-> clock + 1,
                 floor |-> clock + 1, read |-> {}]
<1>1. CASE open' = [open EXCEPT ![s] = e]
  <2>1. open'[s] = e /\ \A u \in Submitters : u # s => open'[u] = open[u]
    BY <1>1 DEF TypeOK
  <2>2. \A u \in Running' : u # s => u \in Running /\ open'[u] = open[u]
    BY <2>1 DEF Running
  <2>3. e.now = clock + 1 /\ e.read = {} /\ e.at # "read"
    OBVIOUS
  <2> QED
    BY <1>1, <2>1, <2>2, <2>3 DEF Begin, Locked
<1> QED
  BY <1>1 DEF Begin

-----------------------------------------------------------------------------
(* Types, and one version for each packet.                                 *)

LEMMA WriteTypes ==
    ASSUME TypeOK, NEW p \in Packets, NEW t \in 1..clock, NEW R \in SUBSET Row,
           WriteVersion(p, t, R)
    PROVE  rows' \subseteq Row /\ current' \in Nat /\ answered' \in [Packets -> SUBSET Nat]
<1> DEFINE f == validFrom[p]
           hit == Hit(R)
<1>1. f \in Days /\ t \in Nat /\ hit \subseteq Row /\ rows \subseteq Row
  BY DEF TypeOK, Hit
<1>2. \A b \in hit : [b EXCEPT !.sup = t] \in Row
  BY <1>1, Stamping
<1>3. \A b \in R : b.from < f => Derived(b, f, t) \in Row
  BY <1>1, Deriving
<1>4. New(p, t) \in Row
  BY <1>1, Newest
<1>5. rows' \subseteq Row
  <2> SUFFICES ASSUME NEW c \in rows' PROVE c \in Row
    OBVIOUS
  <2>1. \/ c \in rows \ hit
        \/ \E b \in hit : c = [b EXCEPT !.sup = t]
        \/ \E b \in R : b.from < f /\ c = Derived(b, f, t)
        \/ c = New(p, t)
    BY Writes DEF Written
  <2> HIDE DEF f, hit
  <2> QED
    BY <1>1, <1>2, <1>3, <1>4, <2>1
<1> QED
  BY <1>5 DEF WriteVersion, TypeOK

LEMMA Types == TypeOK /\ [Next]_vars => TypeOK'
<1> SUFFICES ASSUME TypeOK, [Next]_vars PROVE TypeOK'
  OBVIOUS
<1> USE RecordVersionsAssumption
<1> DEFINE Of(t) == [at: {"begun", "read"}, packet: Packets, now: 1..t,
                     floor: 1..t, read: SUBSET Row]
<1>1. ASSUME NEW s \in Submitters, NEW p \in Packets, Begin(s, p) PROVE TypeOK'
  <2>1. clock \in Nat /\ clock' \in Nat /\ clock <= clock' /\ UNCHANGED retract
    BY <1>1 DEF Begin, TypeOK
  <2>2. /\ retract' \in [Retracters -> [at: {"begun", "read"}, now: 1..clock',
                                        floor: 1..clock', read: SUBSET Row] \cup {Idle}]
        /\ \A x \in Retracting' : Sound(retract'[x])
    BY <2>1 DEF TypeOK, Retracting, Sound
  <2>3. answered' \in [Packets -> SUBSET Nat]
    BY <1>1, Opened DEF Prior, Recorded, TypeOK, Row
  <2>4. /\ open' \in [Submitters -> Of(clock') \cup {Idle}]
        /\ \A u \in Running' : Sound(open'[u])
    <3>1. CASE UNCHANGED <<open, clock>>
      BY <3>1 DEF TypeOK, Running, Sound
    <3>2. CASE ~ UNCHANGED <<open, clock>>
      <4> DEFINE e == [at |-> "begun", packet |-> p, now |-> clock + 1,
                       floor |-> clock + 1, read |-> {}]
      <4>1. clock' = clock + 1 /\ open' = [open EXCEPT ![s] = e]
        BY <1>1, <3>2, Opened
      <4>2. e \in Of(clock') /\ Sound(e)
        BY <2>1, <4>1 DEF Sound
      <4>3. \A u \in Submitters : open[u] \in Of(clock') \cup {Idle}
        BY <2>1 DEF TypeOK
      <4>4. \A u \in Submitters : open[u] # Idle => Sound(open[u])
        BY DEF TypeOK, Running, Sound
      <4>5. open \in [Submitters -> Of(clock) \cup {Idle}]
        BY DEF TypeOK
      <4> HIDE DEF Of, e
      <4> QED
        BY <4>1, <4>2, <4>3, <4>4, <4>5 DEF Running
    <3> QED
      BY <3>1, <3>2
  <2> QED
    BY <1>1, <2>1, <2>2, <2>3, <2>4, Opened DEF TypeOK, Sound
<1>f. ASSUME NEW s \in Submitters, Find(s) PROVE TypeOK'
  <2> DEFINE e == [[open[s] EXCEPT !.at = "read"] EXCEPT !.read = Believed(open[s].now)]
  <2>1. open[s] \in Of(clock) /\ Sound(open[s]) /\ Believed(open[s].now) \in SUBSET Row
    BY <1>f DEF Find, TypeOK, Running, Believed, Sound
  <2>2. e \in Of(clock) /\ Sound(e)
    BY <2>1 DEF Sound
  <2>3. open' = [open EXCEPT ![s] = e] /\ open \in [Submitters -> Of(clock) \cup {Idle}]
    BY <1>f DEF Find, TypeOK
  <2>4. \A u \in Submitters : open[u] # Idle => Sound(open[u])
    BY DEF TypeOK, Running, Sound
  <2>5. /\ open' \in [Submitters -> Of(clock) \cup {Idle}]
        /\ \A u \in Running' : Sound(open'[u])
    <3> HIDE DEF Of, e
    <3> QED
      BY <2>2, <2>3, <2>4 DEF Running
  <2> QED
    BY <1>f, <2>5, FindSteps DEF TypeOK, Sound
<1>2. ASSUME NEW s \in Submitters, Write(s) PROVE TypeOK'
  <2>1. open[s].packet \in Packets /\ open[s].now \in 1..clock /\ open[s].read \in SUBSET Row
    BY <1>2, Under DEF Write, Locked
  <2>2. rows' \subseteq Row /\ current' \in Nat /\ answered' \in [Packets -> SUBSET Nat]
    <3>1. CASE WriteVersion(open[s].packet, open[s].now, open[s].read)
      BY <2>1, <3>1, WriteTypes
    <3>2. CASE Prior(open[s].packet) /\ UNCHANGED <<rows, current>>
      BY <2>1, <3>2 DEF Prior, Recorded, TypeOK, Row
    <3> QED
      BY <1>2, <3>1, <3>2 DEF Write
  <2> QED
    BY <1>2, <2>2 DEF Write, TypeOK, Retracting, Running
<1>3. ASSUME NEW s \in Submitters, Abandon(s) PROVE TypeOK'
  BY <1>3 DEF Abandon, TypeOK, Retracting, Running
<1>4. ASSUME NEW x \in Retracters, Quiet(x) PROVE TypeOK'
  <2>1. UNCHANGED <<validFrom, rows, current, open, answered, gone>>
    BY <1>4, QuietSteps
  <2>a. clock \in Nat
    BY DEF TypeOK
  <2>2. clock' \in Nat /\ 1..clock \subseteq 1..clock'
    BY <1>4, <2>a, QuietClock
  <2>3. /\ open' \in [Submitters -> Of(clock') \cup {Idle}]
        /\ \A u \in Running' : Sound(open'[u])
    BY <2>1, <2>2 DEF TypeOK, Running, Sound
  <2>b. \A y \in Retracting : Sound(retract[y])
    BY DEF TypeOK, Sound
  <2> DEFINE Out(t) == [at: {"begun", "read"}, now: 1..t, floor: 1..t, read: SUBSET Row]
  <2>4. /\ retract' \in [Retracters -> Out(clock') \cup {Idle}]
        /\ \A y \in Retracting' : Sound(retract'[y])
    <3>1. CASE RetractBegin(x)
      <4>1. [at |-> "begun", now |-> clock + 1, floor |-> clock + 1, read |-> {}] \in Out(clock')
        BY <2>a, <3>1 DEF RetractBegin
      <4>2. \A y \in Retracters : retract[y] \in Out(clock') \cup {Idle}
        BY <2>2 DEF TypeOK
      <4> HIDE DEF Out
      <4> QED
        BY <2>a, <2>b, <3>1, <4>1, <4>2 DEF RetractBegin, Retracting, Sound, TypeOK
    <3>2. CASE RetractRead(x)
      <4>1. retract[x] \in Out(clock) /\ Sound(retract[x]) /\ clock' = clock
        BY <2>b, <3>2 DEF RetractRead, Retracting, TypeOK
      <4>2. Believed(retract[x].now) \in SUBSET Row
        BY DEF Believed, TypeOK
      <4> DEFINE e == [[retract[x] EXCEPT !.at = "read"] EXCEPT !.read = Believed(retract[x].now)]
      <4>3. e \in Out(clock) /\ Sound(e)
        BY <4>1, <4>2 DEF Sound
      <4>4. retract' = [retract EXCEPT ![x] = e]
        BY <3>2 DEF RetractRead, TypeOK
      <4> HIDE DEF Out, e
      <4>5. retract \in [Retracters -> Out(clock) \cup {Idle}]
        BY DEF TypeOK, Out
      <4> QED
        BY <2>b, <4>1, <4>3, <4>4, <4>5 DEF Retracting
    <3>3. CASE RetractFails(x)
      BY <2>b, <3>3 DEF RetractFails, Retracting, TypeOK
    <3> QED
      BY <1>4, <3>1, <3>2, <3>3 DEF Quiet
  <2> QED
    BY <2>1, <2>2, <2>3, <2>4 DEF TypeOK, Sound
<1>5. ASSUME NEW x \in Retracters, RetractStamp(x) PROVE TypeOK'
  <2>1. retract[x].now \in Nat /\ retract[x].read \subseteq Row
    BY <1>5, Withdrawing DEF RetractStamp
  <2>2. \A b \in rows : [b EXCEPT !.sup = retract[x].now] \in Row
    BY <2>1, Stamping DEF TypeOK
  <2>3. rows' \subseteq Row
    BY <1>5, <2>2 DEF RetractStamp, Stamped, Hit, TypeOK
  <2>4. gone' \subseteq Nat
    <3>1. \A b \in retract[x].read : b.version \in Nat
      BY <2>1 DEF Row
    <3>2. gone \subseteq Nat
      BY DEF TypeOK
    <3>3. gone' = gone \cup {b.version : b \in retract[x].read}
      BY <1>5 DEF RetractStamp
    <3> QED
      BY <3>1, <3>2, <3>3
  <2>5. \A y \in Retracting' :
           /\ Sound(retract'[y])
           /\ retract'[y] \in [at: {"begun", "read"}, now: 1..clock,
                               floor: 1..clock, read: SUBSET Row]
    <3> SUFFICES ASSUME NEW y \in Retracting'
                 PROVE  /\ Sound(retract'[y])
                        /\ retract'[y] \in [at: {"begun", "read"}, now: 1..clock,
                                            floor: 1..clock, read: SUBSET Row]
      OBVIOUS
    <3>1. Sound(retract[y]) /\ retract[y].floor \in Nat /\ retract[y].now \in Nat
      BY <1>5, Others, Withdrawing DEF Retracting, TypeOK, Sound
    <3> QED
      BY <1>5, <3>1, Others DEF Sound
  <2>6. retract' \in [Retracters -> [at: {"begun", "read"}, now: 1..clock,
                                     floor: 1..clock, read: SUBSET Row] \cup {Idle}]
    BY <1>5, <2>5 DEF RetractStamp, Retracting
  <2>7. \A s \in Running' : Sound(open'[s]) /\ open'[s] \in Of(clock)
    <3> SUFFICES ASSUME NEW s \in Running' PROVE Sound(open'[s]) /\ open'[s] \in Of(clock)
      OBVIOUS
    <3>1. Sound(open[s]) /\ open[s].floor \in Nat /\ open[s].now \in Nat
      BY <1>5, Met, Under DEF Running, TypeOK, Sound
    <3> QED
      BY <1>5, <3>1, Met DEF Sound
  <2>8. open' \in [Submitters -> Of(clock) \cup {Idle}]
    <3> HIDE DEF Of
    <3> QED
      BY <1>5, <2>7 DEF RetractStamp, Running
  <2> QED
    BY <1>5, <2>3, <2>4, <2>5, <2>6, <2>7, <2>8 DEF RetractStamp, TypeOK, Sound
<1>6. CASE UNCHANGED vars
  BY <1>6 DEF vars, TypeOK, Retracting, Running
<1> QED
  BY <1>1, <1>2, <1>3, <1>4, <1>5, <1>6, <1>f DEF Next, Quiet

\* The versions a packet has, before and after.
Has(p) == {b.version : b \in Recorded(p)}

LEMMA HasAfterWrite ==
    ASSUME TypeOK, NEW p \in Packets, NEW t \in 1..clock, NEW R \in SUBSET Row,
           WriteVersion(p, t, R), Recorded(p) = {}, NEW q \in Packets
    PROVE  Has(q)' = IF q = p THEN {current + 1} ELSE Has(q)
<1> DEFINE f == validFrom[p]
           hit == Hit(R)
<1>0. f \in Days /\ t \in Nat /\ hit \subseteq rows /\ rows \subseteq Row
  BY DEF TypeOK, Hit
<1>1. \A b \in hit : /\ [b EXCEPT !.sup = t].hash = b.hash
                     /\ [b EXCEPT !.sup = t].version = b.version
  BY <1>0, Stamping DEF Twins
<1>2. \A b \in R : b.from < f => Derived(b, f, t).hash \notin Packets
  BY <1>0, Deriving, RecordVersionsAssumption
<1>3. New(p, t).hash = p /\ New(p, t).version = current + 1
  BY <1>0, Newest
<1>4. Written(p, t, R)
  BY Writes
<1>5. \A c \in rows' : c.hash = q =>
         (c.version = current + 1 /\ q = p) \/ \E b \in rows : b.hash = q /\ b.version = c.version
  <2> SUFFICES ASSUME NEW c \in rows', c.hash = q
               PROVE  \/ c.version = current + 1 /\ q = p
                      \/ \E b \in rows : b.hash = q /\ b.version = c.version
    OBVIOUS
  <2>1. \/ c \in rows \ hit
        \/ \E b \in hit : c = [b EXCEPT !.sup = t]
        \/ \E b \in R : b.from < f /\ c = Derived(b, f, t)
        \/ c = New(p, t)
    BY <1>4 DEF Written
  <2> HIDE DEF hit, f
  <2> QED
    BY <1>0, <1>1, <1>2, <1>3, <2>1
<1>6. \A b \in rows : \E c \in rows' : c.hash = b.hash /\ c.version = b.version
  <2> SUFFICES ASSUME NEW b \in rows PROVE \E c \in rows' : c.hash = b.hash /\ c.version = b.version
    OBVIOUS
  <2>1. CASE b \in hit
    BY <1>1, <1>4, <2>1 DEF Written
  <2>2. CASE b \notin hit
    BY <1>4, <2>2 DEF Written
  <2> QED
    BY <2>1, <2>2
<1>7. New(p, t) \in rows'
  BY <1>4 DEF Written
<1>8. \A v : v \in Has(q)' <=> \E c \in rows' : c.hash = q /\ c.version = v
  BY DEF Has, Recorded
<1>9. \A v : v \in Has(q) <=> \E b \in rows : b.hash = q /\ b.version = v
  BY DEF Has, Recorded
<1>10. \A b \in rows : b.hash # p
  BY DEF Recorded
<1> HIDE DEF f, hit
<1>11. CASE q = p
  <2>1. \A v : v \in Has(q)' <=> v = current + 1
    BY <1>3, <1>5, <1>7, <1>8, <1>10, <1>11
  <2> QED
    BY <1>11, <2>1
<1>12. CASE q # p
  <2>1. \A v : v \in Has(q)' <=> v \in Has(q)
    BY <1>5, <1>6, <1>8, <1>9, <1>12
  <2> QED
    BY <1>12, <2>1
<1> QED
  BY <1>11, <1>12

LEMMA HasAfterStamp ==
    ASSUME TypeOK, NEW x \in Retracters, RetractStamp(x), NEW q \in Packets
    PROVE  Has(q)' = Has(q)
<1>1. retract[x].now \in Nat
  BY Withdrawing DEF RetractStamp
<1>2. \A b \in rows : /\ [b EXCEPT !.sup = retract[x].now].hash = b.hash
                      /\ [b EXCEPT !.sup = retract[x].now].version = b.version
  BY <1>1, Stamping DEF TypeOK, Twins
<1>3. /\ \A c \in rows' : c \in rows \/ \E b \in rows : c = [b EXCEPT !.sup = retract[x].now]
      /\ \A b \in rows : b \in rows' \/ [b EXCEPT !.sup = retract[x].now] \in rows'
  BY DEF RetractStamp, Stamped, Hit
<1>4. \A v : v \in Has(q)' <=> \E c \in rows' : c.hash = q /\ c.version = v
  BY DEF Has, Recorded
<1>5. \A v : v \in Has(q) <=> \E b \in rows : b.hash = q /\ b.version = v
  BY DEF Has, Recorded
<1>6. ASSUME NEW c \in rows', c.hash = q PROVE \E b \in rows : b.hash = q /\ b.version = c.version
  BY <1>2, <1>3, <1>6
<1>7. ASSUME NEW b \in rows, b.hash = q PROVE \E c \in rows' : c.hash = q /\ c.version = b.version
  BY <1>2, <1>3, <1>7
<1>8. \A v : v \in Has(q)' <=> v \in Has(q)
  BY <1>4, <1>5, <1>6, <1>7
<1> QED
  BY <1>8

LEMMA OneVersionKept ==
    ASSUME TypeOK, OneVersionEach, [Next]_vars
    PROVE  OneVersionEach'
<1> USE DEF OneVersionEach
<1>0. \A p \in Packets : answered[p] = Has(p)
  BY DEF Has
<1>1. ASSUME UNCHANGED current, \A p \in Packets : Has(p)' = Has(p),
             \A p \in Packets : answered'[p] = answered[p]
      PROVE  OneVersionEach'
  BY <1>0, <1>1 DEF Has
<1>2. ASSUME NEW p \in Packets, Prior(p) PROVE \A q \in Packets : answered'[q] = answered[q]
  BY <1>0, <1>2 DEF Prior, Has, TypeOK
<1>3. UNCHANGED rows => \A p \in Packets : Has(p)' = Has(p)
  BY DEF Has, Recorded
<1>4. ASSUME NEW s \in Submitters, NEW p \in Packets, Begin(s, p) PROVE OneVersionEach'
  BY <1>1, <1>2, <1>3, <1>4 DEF Begin
<1>5. ASSUME NEW s \in Submitters, Write(s) PROVE OneVersionEach'
  <2> DEFINE t == open[s].now
             R == open[s].read
  <2>0. PICK p \in Packets : p = open[s].packet
    BY <1>5, Under DEF Write, Locked
  <2>1. t \in 1..clock /\ R \in SUBSET Row
    BY <1>5, Under DEF Write, Locked
  <2>2. CASE Recorded(p) = {} /\ WriteVersion(p, t, R)
    <3>1. \A q \in Packets : Has(q)' = IF q = p THEN {current + 1} ELSE Has(q)
      BY <2>1, <2>2, HasAfterWrite
    <3>2. Has(p) = {}
      BY <2>2 DEF Has
    <3>3. \A q \in Packets : answered'[q] = IF q = p THEN {current + 1} ELSE answered[q]
      <4>1. answered' = [answered EXCEPT ![p] = answered[p] \cup {current + 1}]
        BY <2>2 DEF WriteVersion
      <4>2. answered[p] = {}
        BY <1>0, <3>2
      <4> QED
        BY <4>1, <4>2 DEF TypeOK
    <3>4. current' = current + 1 /\ current \in Nat
      BY <2>2 DEF WriteVersion, TypeOK
    <3>5. \A q \in Packets : answered'[q] = Has(q)'
      BY <1>0, <3>1, <3>3
    <3>6. \A q \in Packets : answered'[q] \subseteq 1..current'
      BY <3>3, <3>4
    <3>7. ASSUME NEW v \in 1..current'
          PROVE  \E q \in Packets : /\ answered'[q] = {v}
                                    /\ \A r \in Packets \ {q} : v \notin answered'[r]
      <4>1. CASE v = current + 1
        <5>1. \A r \in Packets \ {p} : v \notin answered'[r]
          BY <3>3, <3>4, <4>1
        <5> QED
          BY <3>3, <4>1, <5>1
      <4>2. CASE v \in 1..current
        <5>1. PICK q \in Packets : /\ answered[q] = {v}
                                   /\ \A r \in Packets \ {q} : v \notin answered[r]
          BY <4>2
        <5>2. q # p
          BY <1>0, <3>2, <5>1
        <5>3. v # current + 1
          BY <3>4, <4>2
        <5> QED
          BY <3>3, <5>1, <5>2, <5>3
      <4> QED
        BY <3>4, <4>1, <4>2
    <3> QED
      BY <3>5, <3>6, <3>7 DEF Has
  <2>3. CASE Prior(p) /\ UNCHANGED <<rows, current>>
    BY <1>1, <1>2, <1>3, <2>3
  <2> QED
    BY <1>5, <2>0, <2>2, <2>3 DEF Write
<1>f. ASSUME NEW s \in Submitters, Find(s) PROVE OneVersionEach'
  BY <1>1, <1>3, <1>f, FindSteps
<1>6. ASSUME NEW s \in Submitters, Abandon(s) PROVE OneVersionEach'
  BY <1>1, <1>3, <1>6 DEF Abandon
<1>7. ASSUME NEW x \in Retracters, Quiet(x) PROVE OneVersionEach'
  BY <1>1, <1>3, <1>7, QuietSteps
<1>8. ASSUME NEW x \in Retracters, RetractStamp(x) PROVE OneVersionEach'
  BY <1>1, <1>8, HasAfterStamp DEF RetractStamp
<1>9. CASE UNCHANGED vars
  BY <1>1, <1>3, <1>9 DEF vars
<1> QED
  BY <1>4, <1>5, <1>6, <1>7, <1>8, <1>9, <1>f DEF Next, Quiet

-----------------------------------------------------------------------------
(* Stamps.                                                                 *)

LEMMA NumberedKept ==
    ASSUME TypeOK, Numbered, [Next]_vars
    PROVE  Numbered'
<1> USE DEF Numbered
<1>0. clock \in Nat /\ current \in Nat /\ rows \subseteq Row
  BY DEF TypeOK
<1> DEFINE Rows == \A b \in rows : /\ b.version \in 1..current
                                   /\ b.rec \in 1..clock /\ b.sup \in 0..clock
           Known == \A s \in Running : \A b \in open[s].read : b.version \in 1..current
<1>1. ASSUME UNCHANGED <<rows, current>>, clock' \in Nat, clock <= clock' PROVE Rows'
  BY <1>0, <1>1
<1>r. ASSUME current' \in Nat, current <= current',
             \A u \in Running' : u \in Running /\ open'[u].read = open[u].read
      PROVE  Known'
  BY <1>0, <1>r
<1>2. ASSUME NEW s \in Submitters, NEW p \in Packets, Begin(s, p) PROVE Numbered'
  <2>1. Rows'
    BY <1>0, <1>1, <1>2 DEF Begin
  <2>2. Known'
    <3>1. CASE UNCHANGED open
      BY <1>2, <3>1, Opened DEF Running
    <3>2. CASE ~ UNCHANGED open
      BY <1>2, <3>2, Opened
    <3> QED
      BY <3>1, <3>2
  <2> QED
    BY <2>1, <2>2
<1>f. ASSUME NEW s \in Submitters, Find(s) PROVE Numbered'
  <2>1. Rows'
    BY <1>0, <1>1, <1>f, FindSteps
  <2>2. Known'
    <3>1. Believed(open[s].now) \subseteq rows
      BY DEF Believed
    <3> QED
      BY <1>f, <3>1, FindSteps
  <2> QED
    BY <2>1, <2>2
<1>3. ASSUME NEW s \in Submitters, Write(s) PROVE Numbered'
  <2> DEFINE R == open[s].read
  <2>0. PICK p \in Packets, t \in 1..clock : p = open[s].packet /\ t = open[s].now
    BY <1>3, Under DEF Write, Locked
  <2>r. /\ R \in SUBSET Row /\ \A b \in R : b.version \in 1..current
        /\ \A u \in Running' : u \in Running /\ open'[u].read = open[u].read
    BY <1>3, Under DEF Write, Locked, Running, TypeOK
  <2>1. CASE WriteVersion(p, t, R)
    <3> DEFINE f == validFrom[p]
               hit == Hit(R)
    <3>1. f \in Days /\ t \in Nat /\ hit \subseteq rows /\ UNCHANGED clock
          /\ current' = current + 1
      BY <1>3, <2>1 DEF Hit, TypeOK, Write, WriteVersion
    <3>2. \A b \in hit : LET c == [b EXCEPT !.sup = t]
                         IN  c.version = b.version /\ c.rec = b.rec /\ c.sup = t
      BY <1>0, <3>1, Stamping DEF Twins
    <3>3. \A b \in R : b.from < f => LET c == Derived(b, f, t)
                         IN  c.version = b.version /\ c.rec = t /\ c.sup = 0
      BY <1>0, <2>r, <3>1, Deriving DEF Null
    <3>4. New(p, t).version = current + 1 /\ New(p, t).rec = t /\ New(p, t).sup = 0
      BY <3>1, Newest DEF Null
    <3>5. Written(p, t, R)
      BY <2>1, Writes
    <3>r. Known'
      BY <1>0, <1>r, <2>r, <3>1
    <3> SUFFICES ASSUME NEW c \in rows'
                 PROVE  c.version \in 1..(current + 1) /\ c.rec \in 1..clock /\ c.sup \in 0..clock
      BY <3>1, <3>r
    <3>6. \/ c \in rows \ hit
          \/ \E b \in hit : c = [b EXCEPT !.sup = t]
          \/ \E b \in R : b.from < f /\ c = Derived(b, f, t)
          \/ c = New(p, t)
      BY <3>5 DEF Written
    <3>a. CASE c \in rows \ hit
      BY <1>0, <3>a
    <3>b. ASSUME NEW b \in hit, c = [b EXCEPT !.sup = t]
          PROVE  c.version \in 1..(current + 1) /\ c.rec \in 1..clock /\ c.sup \in 0..clock
      <4>1. c.version = b.version /\ c.rec = b.rec /\ c.sup = t
        BY <3>2, <3>b
      <4>2. b.version \in 1..current /\ b.rec \in 1..clock
        BY <3>1
      <4> QED
        BY <1>0, <4>1, <4>2
    <3>c. ASSUME NEW b \in R, b.from < f, c = Derived(b, f, t)
          PROVE  c.version \in 1..(current + 1) /\ c.rec \in 1..clock /\ c.sup \in 0..clock
      <4>1. c.version = b.version /\ c.rec = t /\ c.sup = 0
        BY <3>3, <3>c
      <4>2. b.version \in 1..current
        BY <2>r
      <4> QED
        BY <1>0, <4>1, <4>2
    <3>d. CASE c = New(p, t)
      BY <1>0, <3>4, <3>d
    <3> QED
      BY <3>6, <3>a, <3>b, <3>c, <3>d
  <2>2. CASE UNCHANGED <<rows, current>>
    BY <1>0, <1>1, <1>3, <1>r, <2>2, <2>r DEF Write
  <2> QED
    BY <1>3, <2>0, <2>1, <2>2 DEF Write
<1>4. ASSUME NEW s \in Submitters, Abandon(s) PROVE Numbered'
  <2>1. \A u \in Running' : u \in Running /\ open'[u].read = open[u].read
    BY <1>4 DEF Abandon, Running, TypeOK
  <2> QED
    BY <1>0, <1>1, <1>4, <1>r, <2>1 DEF Abandon
<1>5. ASSUME NEW x \in Retracters, Quiet(x) PROVE Numbered'
  <2>1. UNCHANGED <<rows, current, open>>
    BY <1>5, QuietSteps
  <2> QED
    BY <1>0, <1>1, <1>5, <1>r, <2>1, QuietClock DEF Running
<1>6. ASSUME NEW x \in Retracters, RetractStamp(x) PROVE Numbered'
  <2>1. retract[x].now \in 1..clock
    BY <1>6, Withdrawing DEF RetractStamp
  <2>2. \A b \in rows : LET c == [b EXCEPT !.sup = retract[x].now]
                        IN  c.version = b.version /\ c.rec = b.rec /\ c.sup = retract[x].now
    BY <1>0, <2>1, Stamping DEF Twins
  <2>3. UNCHANGED <<clock, current>>
        /\ \A c \in rows' : c \in rows \/ \E b \in rows : c = [b EXCEPT !.sup = retract[x].now]
    BY <1>6 DEF RetractStamp, Stamped, Hit
  <2>4. ASSUME NEW b \in rows, NEW c, c = [b EXCEPT !.sup = retract[x].now]
        PROVE  c.version \in 1..current /\ c.rec \in 1..clock /\ c.sup \in 0..clock
    <3>1. c.version = b.version /\ c.rec = b.rec /\ c.sup = retract[x].now
      BY <2>2, <2>4
    <3> QED
      BY <1>0, <2>1, <3>1
  <2>5. \A u \in Running' : u \in Running /\ open'[u].read = open[u].read
    BY <1>6, Met
  <2> QED
    BY <1>0, <1>r, <2>3, <2>4, <2>5
<1>7. CASE UNCHANGED vars
  BY <1>0, <1>1, <1>7, <1>r DEF vars, Running
<1> QED
  BY <1>2, <1>3, <1>4, <1>5, <1>6, <1>7, <1>f DEF Next, Quiet

\* A row after the step is of a stamp of before, or of the thread that wrote.
LEMMA Stamps ==
    ASSUME TypeOK, NEW s \in Submitters, Write(s), NEW c \in rows'
    PROVE  (\E b \in rows : c.rec = b.rec) \/ c.rec = open[s].now
<1> DEFINE R == open[s].read
<1>0. PICK p \in Packets, t \in 1..clock : p = open[s].packet /\ t = open[s].now
  BY Under DEF Write, Locked
<1>1. CASE WriteVersion(p, t, R)
  <2> DEFINE f == validFrom[p]
             hit == Hit(R)
  <2>1. f \in Days /\ t \in Nat /\ hit \subseteq rows /\ rows \subseteq Row
          /\ R \in SUBSET Row
    BY Under DEF Hit, TypeOK, Write, Locked
  <2>2. \A b \in hit : [b EXCEPT !.sup = t].rec = b.rec
    BY <2>1, Stamping DEF Twins
  <2>3. \A b \in R : b.from < f => Derived(b, f, t).rec = t
    BY <2>1, Deriving
  <2>4. New(p, t).rec = t
    BY <2>1, Newest
  <2>5. \/ c \in rows \ hit
        \/ \E b \in hit : c = [b EXCEPT !.sup = t]
        \/ \E b \in R : b.from < f /\ c = Derived(b, f, t)
        \/ c = New(p, t)
    BY <1>1, Writes DEF Written
  <2> HIDE DEF f, hit
  <2> QED
    BY <1>0, <2>1, <2>2, <2>3, <2>4, <2>5
<1>2. CASE UNCHANGED rows
  BY <1>2
<1> QED
  BY <1>0, <1>1, <1>2 DEF Write

LEMMA OneLockKept ==
    ASSUME TypeOK, OneLock, [Next]_vars
    PROVE  OneLock'
<1> USE DEF OneLock
<1>1. ASSUME \A s \in Submitters : Locked(s)' => Locked(s) PROVE OneLock'
  BY <1>1
<1>2. UNCHANGED open => OneLock'
  BY DEF Locked
<1>3. ASSUME NEW s \in Submitters, NEW p \in Packets, Begin(s, p) PROVE OneLock'
  <2>1. CASE ~ UNCHANGED open
    <3>1. \A u \in Submitters : Locked(u)' => Locked(u)
      BY <1>3, <2>1, Opened DEF Locked, Running
    <3> QED
      BY <1>1, <3>1
  <2> QED
    BY <1>2, <2>1
<1>4. ASSUME NEW s \in Submitters, Find(s) PROVE OneLock'
  <2>1. \A u \in Submitters : u # s => ~Locked(u)'
    BY <1>4 DEF Find, Locked, TypeOK
  <2> QED
    BY <2>1
<1>5. ASSUME NEW s \in Submitters, Write(s) \/ Abandon(s) PROVE OneLock'
  BY <1>1, <1>5 DEF Write, Abandon, Locked, TypeOK
<1>6. ASSUME NEW x \in Retracters, RetractStamp(x) PROVE OneLock'
  BY <1>1, <1>6, Met DEF Locked, Running
<1>7. ASSUME NEW x \in Retracters, Quiet(x) PROVE OneLock'
  BY <1>2, <1>7, QuietSteps
<1> QED
  BY <1>2, <1>3, <1>4, <1>5, <1>6, <1>7 DEF Next, Quiet, vars

LEMMA FreshKept ==
    ASSUME TypeOK, Numbered, Fresh, [Next]_vars
    PROVE  Fresh'
<1> USE DEF Fresh
<1>0. \A s \in Running : open[s].now \in 1..clock
  BY Under DEF Running
<1>1. ASSUME \A c \in rows' : \E b \in rows : c.rec = b.rec,
             \A s \in Running' : s \in Running /\ open'[s].now = open[s].now
      PROVE  Fresh'
  BY <1>1
<1>2. UNCHANGED rows => \A c \in rows' : \E b \in rows : c.rec = b.rec
  OBVIOUS
<1>3. ASSUME UNCHANGED open
      PROVE  \A s \in Running' : s \in Running /\ open'[s].now = open[s].now
  BY <1>3 DEF Running
<1>4. ASSUME NEW s \in Submitters, NEW p \in Packets, Begin(s, p) PROVE Fresh'
  <2>1. CASE UNCHANGED open
    BY <1>1, <1>2, <1>3, <1>4, <2>1 DEF Begin
  <2>2. CASE ~ UNCHANGED open
    <3>1. /\ open'[s].now = clock + 1
          /\ \A u \in Running' : u # s => u \in Running /\ open'[u].now = open[u].now
      BY <1>4, <2>2, Opened
    <3>2. \A u \in Running : open[u].now # clock + 1
      BY <1>0 DEF TypeOK
    <3>3. \A b \in rows : b.rec # clock + 1
      BY DEF Numbered, TypeOK
    <3> QED
      BY <1>4, <3>1, <3>2, <3>3 DEF Begin
  <2> QED
    BY <2>1, <2>2
<1>f. ASSUME NEW s \in Submitters, Find(s) PROVE Fresh'
  BY <1>1, <1>2, <1>f, FindSteps
<1>5. ASSUME NEW s \in Submitters, Write(s) PROVE Fresh'
  <2>1. \A u \in Running' : u # s /\ u \in Running /\ open'[u].now = open[u].now
    BY <1>5 DEF Write, Running, TypeOK
  <2>2. s \in Running
    BY <1>5 DEF Write, Locked, Running
  <2>3. \A c \in rows' : (\E b \in rows : c.rec = b.rec) \/ c.rec = open[s].now
    BY <1>5, Stamps
  <2> QED
    BY <2>1, <2>2, <2>3
<1>6. ASSUME NEW s \in Submitters, Abandon(s) PROVE Fresh'
  <2>1. \A u \in Running' : u \in Running /\ open'[u].now = open[u].now
    BY <1>6 DEF Abandon, Running, TypeOK
  <2> QED
    BY <1>1, <1>2, <1>6, <2>1 DEF Abandon
<1>7. ASSUME NEW x \in Retracters, Quiet(x) PROVE Fresh'
  BY <1>1, <1>2, <1>3, <1>7, QuietSteps
<1>8. ASSUME NEW x \in Retracters, RetractStamp(x) PROVE Fresh'
  <2>1. retract[x].now \in Nat /\ rows \subseteq Row
    BY <1>8, Withdrawing DEF RetractStamp, TypeOK
  <2>2. \A b \in rows : [b EXCEPT !.sup = retract[x].now].rec = b.rec
    BY <2>1, Stamping DEF Twins
  <2>3. \A c \in rows' : \E b \in rows : c.rec = b.rec
    BY <1>8, <2>2 DEF RetractStamp, Stamped, Hit
  <2> QED
    BY <1>1, <1>8, <2>3, Met
<1>9. CASE UNCHANGED vars
  BY <1>1, <1>2, <1>3, <1>9 DEF vars
<1> QED
  BY <1>4, <1>5, <1>6, <1>7, <1>8, <1>9, <1>f DEF Next, Quiet

-----------------------------------------------------------------------------
(* What becomes of a row, column by column.                                *)

LEMMA Extensional ==
    ASSUME NEW b \in Row, NEW c \in Row, Twins(b, c), b.sup = c.sup
    PROVE  b = c
BY DEF Row, Twins

\* c is what the stamping of R with t makes of the row r.
Stays(c, r, R, t) == Twins(c, r) /\ c.sup = IF r \in R THEN t ELSE r.sup

\* c is the row derived of b for the days before f.
Derives(c, b, f, t) ==
    /\ b.from < f /\ c.version = b.version /\ c.from = b.from
    /\ c.to = IF b.to < f THEN b.to ELSE f
    /\ c.rec = t /\ c.sup = Null

IsNew(c, p, t) ==
    /\ c.version = current + 1 /\ c.from = validFrom[p] /\ c.to = Forever
    /\ c.rec = t /\ c.sup = Null

LEMMA Fates ==
    ASSUME TypeOK, NEW p \in Packets, NEW t \in 1..clock, NEW R \in SUBSET Row,
           WriteVersion(p, t, R)
    PROVE  /\ \A c \in rows' :
                 \/ \E r \in rows : Stays(c, r, Hit(R), t)
                 \/ \E b \in R : Derives(c, b, validFrom[p], t)
                 \/ IsNew(c, p, t)
           /\ \A r \in rows : \E c \in rows' : Stays(c, r, Hit(R), t)
           /\ \A b \in R : b.from < validFrom[p] =>
                 \E c \in rows' : Derives(c, b, validFrom[p], t)
           /\ \E c \in rows' : IsNew(c, p, t)
<1> DEFINE f == validFrom[p]
           hit == Hit(R)
<1>1. f \in Days /\ t \in Nat /\ hit \subseteq rows /\ rows \subseteq Row
  BY DEF Hit, TypeOK
<1>2. \A b \in hit : Stays([b EXCEPT !.sup = t], b, hit, t)
  BY <1>1, Stamping DEF Stays
<1>3. \A b \in rows \ hit : Stays(b, b, hit, t)
  BY <1>1 DEF Stays, Twins
<1>4. \A b \in R : b.from < f => Derives(Derived(b, f, t), b, f, t)
  BY <1>1, Deriving DEF Derives
<1>5. IsNew(New(p, t), p, t)
  BY <1>1, Newest DEF IsNew
<1>6. Written(p, t, R)
  BY Writes
<1>7. ASSUME NEW c \in rows'
      PROVE  \/ \E r \in rows : Stays(c, r, hit, t)
             \/ \E b \in R : Derives(c, b, f, t)
             \/ IsNew(c, p, t)
  <2>1. \/ c \in rows \ hit
        \/ \E b \in hit : c = [b EXCEPT !.sup = t]
        \/ \E b \in R : b.from < f /\ c = Derived(b, f, t)
        \/ c = New(p, t)
    BY <1>6 DEF Written
  <2> HIDE DEF f, hit
  <2> QED
    BY <1>1, <1>2, <1>3, <1>4, <1>5, <2>1
<1>8. \A r \in rows : \E c \in rows' : Stays(c, r, hit, t)
  BY <1>1, <1>2, <1>3, <1>6 DEF Written
<1>9. \A b \in R : b.from < f => \E c \in rows' : Derives(c, b, f, t)
  BY <1>4, <1>6 DEF Written
<1>10. \E c \in rows' : IsNew(c, p, t)
  BY <1>5, <1>6 DEF Written
<1> QED
  BY <1>7, <1>8, <1>9, <1>10

\* The rows a retraction stamps.
LEMMA Retractions ==
    ASSUME TypeOK, NEW x \in Retracters, RetractStamp(x)
    PROVE  /\ \A c \in rows' : \E r \in rows : Stays(c, r, Hit(retract[x].read), retract[x].now)
           /\ \A r \in rows : \E c \in rows' : Stays(c, r, Hit(retract[x].read), retract[x].now)
<1>1. retract[x].now \in Nat /\ rows \subseteq Row /\ Hit(retract[x].read) \subseteq rows
  BY Withdrawing DEF RetractStamp, TypeOK, Hit
<1>2. rows' = (rows \ Hit(retract[x].read)) \cup {[b EXCEPT !.sup = retract[x].now] : b \in Hit(retract[x].read)}
  BY DEF RetractStamp, Stamped
<1>3. \A b \in Hit(retract[x].read) : Stays([b EXCEPT !.sup = retract[x].now], b, Hit(retract[x].read), retract[x].now)
  BY <1>1, Stamping DEF Stays
<1>4. \A b \in rows \ Hit(retract[x].read) : Stays(b, b, Hit(retract[x].read), retract[x].now)
  BY <1>1 DEF Stays, Twins
<1> QED
  BY <1>1, <1>2, <1>3, <1>4

LEMMA NoTwinsKept ==
    ASSUME TypeOK, Numbered, Fresh, NoTwins, [Next]_vars
    PROVE  NoTwins'
<1>0. rows \subseteq Row
  BY DEF TypeOK
<1>1. UNCHANGED rows => NoTwins'
  BY DEF NoTwins
<1>2. ASSUME NEW R, NEW t, NEW b, NEW c, NEW r \in rows, NEW q \in rows,
             Stays(b, r, R, t), Stays(c, q, R, t), Twins(b, c)
      PROVE  b.sup = c.sup
  <2>1. Twins(r, q)
    BY <1>2 DEF Stays, Twins
  <2>2. r = q
    BY <1>0, <2>1, Extensional DEF NoTwins
  <2> QED
    BY <1>2, <2>2 DEF Stays
<1>3. ASSUME NEW s \in Submitters, Write(s) PROVE NoTwins'
  <2>0. PICK p \in Packets, t \in 1..clock, R \in SUBSET Row :
              p = open[s].packet /\ t = open[s].now /\ R = open[s].read
    BY <1>3, Under DEF Write, Locked
  <2>1. CASE WriteVersion(p, t, R)
    <3>1. \A c \in rows' : \/ \E r \in rows : Stays(c, r, Hit(R), t)
                           \/ c.rec = t /\ c.sup = Null
      BY <2>1, Fates DEF Derives, IsNew
    <3>2. \A r \in rows : r.rec # t
      BY <1>3, <2>0 DEF Fresh, Running, Write, Locked
    <3>3. \A c \in rows', r \in rows : Stays(c, r, Hit(R), t) => c.rec # t
      BY <3>2 DEF Stays, Twins
    <3>4. ASSUME NEW b \in rows', NEW c \in rows', Twins(b, c) PROVE b.sup = c.sup
      <4>1. CASE b.rec = t
        BY <3>1, <3>3, <3>4, <4>1 DEF Twins
      <4>2. CASE b.rec # t
        <5>1. /\ \E r \in rows : Stays(b, r, Hit(R), t)
              /\ \E q \in rows : Stays(c, q, Hit(R), t)
          BY <3>1, <3>4, <4>2 DEF Twins
        <5> QED
          BY <1>2, <3>4, <5>1
      <4> QED
        BY <4>1, <4>2
    <3> QED
      BY <3>4 DEF NoTwins
  <2> QED
    BY <1>1, <1>3, <2>0, <2>1 DEF Write
<1>4. ASSUME NEW x \in Retracters, RetractStamp(x) PROVE NoTwins'
  <2>1. \A c \in rows' : \E r \in rows : Stays(c, r, Hit(retract[x].read), retract[x].now)
    BY <1>4, Retractions
  <2>2. ASSUME NEW b \in rows', NEW c \in rows', Twins(b, c) PROVE b.sup = c.sup
    BY <1>2, <2>1, <2>2
  <2> QED
    BY <2>2 DEF NoTwins
<1>f. ASSUME NEW s \in Submitters, Find(s) PROVE NoTwins'
  BY <1>1, <1>f, FindSteps
<1>5. ASSUME NEW x \in Retracters, Quiet(x) PROVE NoTwins'
  BY <1>1, <1>5, QuietSteps
<1> QED
  BY <1>1, <1>3, <1>4, <1>5, <1>f DEF Next, Begin, Abandon, Quiet, vars

-----------------------------------------------------------------------------
(* The first theorems.                                                     *)

LEMMA Starts == Init => IInv
<1> SUFFICES ASSUME Init PROVE IInv
  OBVIOUS
<1> USE DEF Init
<1>1. TypeOK
  BY RecordVersionsAssumption DEF TypeOK, Retracting, Running
<1>2. OneVersionEach
  BY DEF OneVersionEach, Recorded
<1>3. Numbered /\ OneLock /\ Fresh /\ NoTwins
  BY DEF Numbered, OneLock, Locked, Fresh, NoTwins, Running
<1> QED
  BY <1>1, <1>2, <1>3 DEF IInv

LEMMA Preserved == IInv /\ [Next]_vars => IInv'
BY Types, OneVersionKept, NumberedKept, OneLockKept, FreshKept, NoTwinsKept DEF IInv

(* The inductive invariant holds in every run, retractions at any moment.  *)
THEOREM Invariance == Spec => []IInv
BY Starts, Preserved, PTL DEF Spec

(* Type correctness: versions, days and stamps in their ranges.            *)
THEOREM TypeCorrect == Spec => []TypeOK
<1>1. IInv => TypeOK
  BY DEF IInv
<1> QED
  BY <1>1, Invariance, PTL

(* A packet is one version however often and by whomever it is submitted,  *)
(* every answer names it, and versions have no gap (submit_packet).        *)
THEOREM OneVersionEachHolds == Spec => []OneVersionEach
<1>1. IInv => OneVersionEach
  BY DEF IInv
<1> QED
  BY <1>1, Invariance, PTL

-----------------------------------------------------------------------------
(* Retractions that meet no submission.                                    *)

Live == {b \in rows : b.sup = Null}

\* While a retraction is under way nothing is written, so that it finds all
\* that is live, but for what another one stamps.
Alone == \A x \in Retracting :
    /\ Running = {}
    /\ \A b \in rows : b.rec <= retract[x].now
    /\ retract[x].at = "read" => Live \subseteq retract[x].read

\* Nothing is written between what a submission reads and what it writes.
AsFound == \A s \in Submitters : Locked(s) => open[s].read = Believed(open[s].now)

\* What a request under way still believes for a day, a live row outdoes.
Outdone ==
    \A s \in Running, b \in rows, d \in Days :
        b \in Believed(open[s].now) /\ Covers(b, d) =>
            \E c \in Live : Covers(c, d) /\ b.version <= c.version

LiveVersions(d) == {b.version : b \in {r \in Live : Covers(r, d)}}

\* Every day has a highest live version.
Topped == \A d \in Days : \E v \in Nat : IsTop(v, LiveVersions(d))

JInv == IInv /\ Alone /\ AsFound /\ Outdone /\ Topped

LEMMA LiveIsBelieved ==
    ASSUME TypeOK, Numbered, NEW k \in Nat, clock <= k
    PROVE  Believed(k) = Live
<1>1. \A b \in rows : b.rec \in Nat /\ b.sup \in Nat /\ b.rec <= clock /\ b.sup <= clock
  BY DEF Numbered, TypeOK
<1>2. \A b \in rows : b.rec <= k /\ ~(b.sup > k)
  BY <1>1 DEF TypeOK
<1> QED
  BY <1>2 DEF Believed, Live, Null

\* supersede finds the believed rows as they were read.
LEMMA BelievedIsHit ==
    ASSUME TypeOK, NoTwins, NEW k
    PROVE  Hit(Believed(k)) = Believed(k)
<1>1. Believed(k) \subseteq rows /\ rows \subseteq Row
  BY DEF Believed, TypeOK
<1>2. ASSUME NEW b \in Hit(Believed(k)) PROVE b \in Believed(k)
  <2>1. PICK r \in Believed(k) : b = [r EXCEPT !.sup = b.sup]
    BY <1>2 DEF Hit
  <2>2. b \in Row /\ r \in Row /\ b \in rows /\ r \in rows /\ b.sup \in Nat
    BY <1>1, <1>2 DEF Hit, Row
  <2>3. b = r
    BY <2>1, <2>2, Stamping, Extensional DEF NoTwins
  <2> QED
    BY <2>3
<1>3. \A b \in Believed(k) : b = [b EXCEPT !.sup = b.sup]
  BY <1>1 DEF Row
<1> QED
  BY <1>1, <1>2, <1>3 DEF Hit

LEMMA AsFoundKept ==
    ASSUME TypeOK, OneLock, Alone, AsFound, [Next]_vars
    PROVE  AsFound'
<1>1. ASSUME UNCHANGED rows, \A s \in Submitters : Locked(s)' => Locked(s) /\ open'[s] = open[s]
      PROVE  AsFound'
  BY <1>1 DEF AsFound, Believed
<1>2. ASSUME NEW s \in Submitters, NEW p \in Packets, Begin(s, p) PROVE AsFound'
  <2>1. \A u \in Submitters : Locked(u)' => Locked(u) /\ open'[u] = open[u]
    <3>1. CASE UNCHANGED open
      BY <3>1 DEF Locked
    <3>2. CASE ~ UNCHANGED open
      BY <1>2, <3>2, Opened DEF Locked, Running
    <3> QED
      BY <3>1, <3>2
  <2> QED
    BY <1>1, <1>2, <2>1, Opened
<1>3. ASSUME NEW s \in Submitters, Find(s) PROVE AsFound'
  <2>1. \A u \in Submitters : u # s => ~Locked(u)'
    BY <1>3 DEF Find, Locked, TypeOK
  <2>2. open'[s].read = Believed(open[s].now) /\ open'[s].now = open[s].now /\ UNCHANGED rows
    BY <1>3, FindSteps
  <2> QED
    BY <2>1, <2>2 DEF AsFound, Believed
<1>4. ASSUME NEW s \in Submitters, Write(s) PROVE AsFound'
  <2>1. \A u \in Submitters : ~Locked(u)'
    BY <1>4 DEF OneLock, Write, Locked, TypeOK
  <2> QED
    BY <2>1 DEF AsFound
<1>5. ASSUME NEW s \in Submitters, Abandon(s) PROVE AsFound'
  BY <1>1, <1>5 DEF Abandon, Locked, TypeOK
<1>6. ASSUME NEW x \in Retracters, RetractStamp(x) PROVE AsFound'
  <2>1. Running = {}
    BY <1>6 DEF RetractStamp, Alone, Retracting
  <2>2. \A u \in Submitters : ~Locked(u)'
    BY <1>6, <2>1, Met DEF Locked, Running
  <2> QED
    BY <2>2 DEF AsFound
<1>7. ASSUME NEW x \in Retracters, Quiet(x) PROVE AsFound'
  BY <1>1, <1>7, QuietSteps DEF Locked
<1> QED
  BY <1>1, <1>2, <1>3, <1>4, <1>5, <1>6, <1>7 DEF Next, Quiet, vars, Locked

LEMMA LiveIsHit ==
    ASSUME TypeOK, Alone, NEW x \in Retracters, RetractStamp(x)
    PROVE  Live \subseteq Hit(retract[x].read)
<1>1. Live \subseteq retract[x].read /\ Live \subseteq rows /\ rows \subseteq Row
  BY DEF Alone, Retracting, RetractStamp, Live, TypeOK
<1>2. \A b \in Live : b = [b EXCEPT !.sup = b.sup]
  BY <1>1 DEF Row
<1> QED
  BY <1>1, <1>2 DEF Hit

LEMMA AloneKept ==
    ASSUME Apart, TypeOK, Numbered, Alone, [Next]_vars
    PROVE  Alone'
<1> USE DEF Alone
<1>1. ASSUME NEW s \in Submitters, NEW p \in Packets, Begin(s, p) PROVE Alone'
  BY <1>1 DEF Begin, Retracting
<1>2. ASSUME NEW s \in Submitters, Write(s) \/ Abandon(s) PROVE Alone'
  <2>1. s \in Running /\ UNCHANGED retract
    BY <1>2 DEF Write, Locked, Abandon, Running
  <2> QED
    BY <2>1 DEF Retracting
<1>f. ASSUME NEW s \in Submitters, Find(s) PROVE Alone'
  BY <1>f, FindSteps DEF Retracting
<1>3. ASSUME NEW x \in Retracters, RetractBegin(x) PROVE Alone'
  <2>1. Running' = {} /\ UNCHANGED rows
    BY <1>3 DEF RetractBegin, Running
  <2>2. /\ retract'[x].at = "begun" /\ retract'[x].now = clock + 1
        /\ \A y \in Retracters \ {x} : retract'[y] = retract[y]
    BY <1>3 DEF RetractBegin, TypeOK
  <2>3. \A b \in rows : b.rec <= clock + 1
    BY DEF Numbered, TypeOK
  <2> QED
    BY <2>1, <2>2, <2>3 DEF Retracting, Live
<1>4. ASSUME NEW x \in Retracters, RetractRead(x) PROVE Alone'
  <2>1. x \in Retracting
    BY <1>4 DEF RetractRead, Retracting
  <2>2. /\ retract'[x].now = retract[x].now
        /\ retract'[x].read = Believed(retract[x].now)
        /\ \A y \in Retracters \ {x} : retract'[y] = retract[y]
    BY <1>4, <2>1 DEF RetractRead, TypeOK
  <2>3. Live \subseteq Believed(retract[x].now)
    BY <2>1 DEF Live, Believed
  <2>4. UNCHANGED <<rows, Running>> /\ Retracting' \subseteq Retracting
    BY <1>4, <2>1, <2>2 DEF RetractRead, Running, Retracting
  <2>5. ASSUME NEW y \in Retracting'
        PROVE  /\ y \in Retracting /\ retract'[y].now = retract[y].now
               /\ retract'[y].at = "read" => Live \subseteq retract'[y].read
    BY <2>1, <2>2, <2>3, <2>4 DEF Retracting
  <2> QED
    BY <2>4, <2>5 DEF Live
<1>5. ASSUME NEW x \in Retracters, RetractStamp(x) PROVE Alone'
  <2>0. retract[x].now \in Nat \ {0} /\ x \in Retracting
    BY <1>5, Withdrawing DEF RetractStamp
  <2>1. Running' = {}
    BY <1>5, <2>0, Met
  <2>2. \A c \in rows' : \E r \in rows : Stays(c, r, Hit(retract[x].read), retract[x].now)
    BY <1>5, Retractions
  <2>3. Live' = {}
    BY <1>5, <2>0, <2>2, LiveIsHit DEF Stays, Live, Null
  <2>4. \A y \in Retracting', c \in rows' : c.rec <= retract'[y].now
    BY <1>5, <2>2, Others DEF Stays, Twins
  <2> QED
    BY <2>1, <2>3, <2>4
<1>6. ASSUME NEW x \in Retracters, RetractFails(x) PROVE Alone'
  <2>1. Retracting' \subseteq Retracting /\ \A y \in Retracting' : retract'[y] = retract[y]
    BY <1>6 DEF RetractFails, Retracting, TypeOK
  <2> QED
    BY <1>6, <2>1 DEF RetractFails, Running, Live
<1>7. CASE UNCHANGED vars
  BY <1>7 DEF vars, Running, Retracting, Live
<1> QED
  BY <1>1, <1>2, <1>3, <1>4, <1>5, <1>6, <1>7, <1>f DEF Next

LEMMA FatesNow ==
    ASSUME TypeOK, NoTwins, NEW p \in Packets, NEW t \in 1..clock,
           WriteVersion(p, t, Believed(t))
    PROVE  /\ \A c \in rows' :
                 \/ \E r \in rows : Stays(c, r, Believed(t), t)
                 \/ \E b \in Believed(t) : Derives(c, b, validFrom[p], t)
                 \/ IsNew(c, p, t)
           /\ \A r \in rows : \E c \in rows' : Stays(c, r, Believed(t), t)
           /\ \A b \in Believed(t) : b.from < validFrom[p] =>
                 \E c \in rows' : Derives(c, b, validFrom[p], t)
           /\ \E c \in rows' : IsNew(c, p, t)
<1>1. Believed(t) \in SUBSET Row
  BY DEF Believed, TypeOK
<1> QED
  BY <1>1, Fates, BelievedIsHit

\* What a writing leaves live for a day: before valid_from the same numbers
\* and outdone ones, from it on the new number above all others.
LEMMA LiveAfterWrite ==
    ASSUME TypeOK, NoTwins, NEW p \in Packets, NEW t \in 1..clock,
           WriteVersion(p, t, Believed(t)),
           NEW d \in Days
    PROVE  /\ d < validFrom[p] => \A b \in Live : Covers(b, d) =>
                 \E c \in Live' : Covers(c, d) /\ c.version = b.version
           /\ d < validFrom[p] => \A c \in Live' : Covers(c, d) =>
                 \E b \in Live \cup Believed(t) : Covers(b, d) /\ b.version = c.version
           /\ validFrom[p] <= d => \E c \in Live' : Covers(c, d) /\ c.version = current + 1
<1> DEFINE f == validFrom[p]
           bel == Believed(t)
<1>0. f \in Days /\ bel \subseteq rows /\ rows \subseteq Row /\ t # Null /\ d \in Nat /\ f \in Nat
      /\ d < Forever
  BY RecordVersionsAssumption DEF TypeOK, Believed, Null, Days, Forever
<1>1. \A b \in rows : b.from \in Nat /\ b.to \in Nat
  BY <1>0, RecordVersionsAssumption DEF Row, Days, Forever
<1>2. ASSUME NEW b \in Live, Covers(b, d), d < f
      PROVE  \E c \in Live' : Covers(c, d) /\ c.version = b.version
  <2>1. CASE b \in bel
    <3>1. b.from < f
      BY <1>0, <1>1, <1>2 DEF Covers, Live
    <3>2. PICK c \in rows' : Derives(c, b, f, t)
      BY <2>1, <3>1, FatesNow
    <3> QED
      BY <1>0, <1>1, <1>2, <3>2 DEF Derives, Covers, Live
  <2>2. CASE b \notin bel
    <3>1. PICK c \in rows' : Stays(c, b, bel, t)
      BY <1>2, FatesNow DEF Live
    <3> QED
      BY <1>2, <2>2, <3>1 DEF Stays, Twins, Covers, Live
  <2> QED
    BY <2>1, <2>2
<1>3. ASSUME NEW c \in Live', Covers(c, d), d < f
      PROVE  \E b \in Live \cup bel : Covers(b, d) /\ b.version = c.version
  <2>0. c \in rows' /\ c.sup = Null
    BY <1>3 DEF Live
  <2>1. CASE \E r \in rows : Stays(c, r, bel, t)
    BY <1>0, <1>3, <2>0, <2>1 DEF Stays, Twins, Covers, Live
  <2>2. CASE \E b \in bel : Derives(c, b, f, t)
    <3>1. PICK b \in bel : Derives(c, b, f, t)
      BY <2>2
    <3> QED
      BY <1>0, <1>1, <1>3, <3>1 DEF Derives, Covers
  <2>3. CASE IsNew(c, p, t)
    BY <1>0, <1>3, <2>3 DEF IsNew, Covers
  <2> QED
    BY <2>0, <2>1, <2>2, <2>3, FatesNow
<1>4. ASSUME f <= d PROVE \E c \in Live' : Covers(c, d) /\ c.version = current + 1
  <2>1. PICK c \in rows' : IsNew(c, p, t)
    BY FatesNow
  <2> QED
    BY <1>0, <1>4, <2>1 DEF IsNew, Covers, Live
<1> QED
  BY <1>2, <1>3, <1>4

\* A row still believed at another stamp u was believed at u or is live.
LEMMA BelievedAfterWrite ==
    ASSUME TypeOK, NoTwins, NEW p \in Packets, NEW t \in 1..clock,
           WriteVersion(p, t, Believed(t)),
           NEW u \in 1..clock, NEW c \in rows', c.rec <= u, c.sup = Null \/ c.sup > u
    PROVE  \/ c \in Live'
           \/ \E r \in Believed(u) : c.version = r.version /\ c.from = r.from /\ c.to = r.to
<1>0. rows \subseteq Row /\ t \in Nat /\ u \in Nat /\ Believed(t) \subseteq rows
  BY DEF TypeOK, Believed
<1>1. CASE \E r \in rows : Stays(c, r, Believed(t), t)
  <2>1. PICK r \in rows : Stays(c, r, Believed(t), t)
    BY <1>1
  <2>2. r.sup \in Nat /\ r.rec \in Nat
    BY <1>0 DEF Row
  <2>3. c.version = r.version /\ c.from = r.from /\ c.to = r.to /\ c.rec = r.rec
    BY <2>1 DEF Stays, Twins
  <2>4. r.sup = Null \/ r.sup > u
    BY <1>0, <2>1, <2>2 DEF Stays, Believed, Null
  <2> QED
    BY <2>3, <2>4 DEF Believed
<1>2. CASE c.sup = Null
  BY <1>2 DEF Live
<1> QED
  BY <1>1, <1>2, FatesNow DEF Derives, IsNew

LEMMA OutdoneKept ==
    ASSUME Apart, TypeOK, Numbered, NoTwins, Alone, AsFound, Outdone, [Next]_vars
    PROVE  Outdone'
<1>0. /\ \A b \in rows : b.version \in Nat /\ b.rec \in Nat /\ b.sup \in Nat
      /\ rows \subseteq Row
  BY DEF TypeOK, Row
<1>1. ASSUME UNCHANGED rows, Running' \subseteq Running,
             \A s \in Running' : open'[s].now = open[s].now
      PROVE  Outdone'
  BY <1>1 DEF Outdone, Believed, Live, Covers
<1>2. ASSUME NEW s \in Submitters, NEW p \in Packets, Begin(s, p) PROVE Outdone'
  <2>1. CASE UNCHANGED open
    BY <1>1, <1>2, <2>1 DEF Begin, Running
  <2>2. CASE ~ UNCHANGED open
    <3>1. open'[s].now = clock + 1
          /\ \A u \in Running' : u # s => u \in Running /\ open'[u].now = open[u].now
      BY <1>2, <2>2, Opened
    <3>2. Believed(clock + 1) = Live
      BY LiveIsBelieved DEF TypeOK
    <3>3. UNCHANGED rows
      BY <1>2 DEF Begin
    <3>4. ASSUME NEW u \in Running', NEW b \in rows, NEW d \in Days,
                 b \in Believed(open'[u].now), Covers(b, d)
          PROVE  \E c \in Live : Covers(c, d) /\ b.version <= c.version
      <4>1. CASE u = s
        BY <1>0, <3>1, <3>2, <3>4, <4>1
      <4>2. CASE u # s
        <5>1. u \in Running /\ b \in Believed(open[u].now)
          BY <3>1, <3>4, <4>2
        <5> QED
          BY <3>4, <5>1 DEF Outdone
      <4> QED
        BY <4>1, <4>2
    <3> QED
      BY <3>3, <3>4 DEF Outdone, Believed, Live, Covers
  <2> QED
    BY <2>1, <2>2
<1>f. ASSUME NEW s \in Submitters, Find(s) PROVE Outdone'
  BY <1>1, <1>f, FindSteps
<1>3. ASSUME NEW s \in Submitters, Write(s) PROVE Outdone'
  <2>0. PICK p \in Packets, t \in 1..clock : p = open[s].packet /\ t = open[s].now
    BY <1>3, Under DEF Write, Locked
  <2>c. open[s].read = Believed(t)
    BY <1>3, <2>0 DEF Write, AsFound
  <2>1. s \in Running /\ Running' \subseteq Running /\ UNCHANGED clock
        /\ \A u \in Running' : open'[u].now = open[u].now
    BY <1>3 DEF Write, Locked, Running, TypeOK
  <2>2. CASE UNCHANGED rows
    BY <1>1, <2>1, <2>2
  <2>3. CASE WriteVersion(p, t, Believed(t))
    <3>0. current' = current + 1 /\ current \in Nat
      BY <2>3 DEF WriteVersion, TypeOK
    <3>1. \A b \in rows : b.version <= current
      BY DEF Numbered, TypeOK
    <3>2. ASSUME NEW b \in rows, NEW d \in Days, b \in Live \/ (\E u \in Running : b \in Believed(open[u].now)),
                 Covers(b, d)
          PROVE  \E c \in Live' : Covers(c, d) /\ b.version <= c.version
      <4>1. PICK c \in Live : Covers(c, d) /\ b.version <= c.version
        BY <1>0, <3>2 DEF Outdone
      <4>2. c \in rows /\ validFrom[p] \in Nat /\ d \in Nat
        BY <4>1 DEF Live, TypeOK, Days
      <4>3. CASE d < validFrom[p]
        BY <2>3, <4>1, <4>3, LiveAfterWrite
      <4>4. CASE validFrom[p] <= d
        <5>1. PICK e \in Live' : Covers(e, d) /\ e.version = current + 1
          BY <2>3, <4>4, LiveAfterWrite
        <5>2. b.version <= current + 1
          BY <1>0, <3>0, <3>1
        <5> QED
          BY <5>1, <5>2
      <4> QED
        BY <4>2, <4>3, <4>4
    <3>3. ASSUME NEW u \in Running', NEW c \in rows', NEW d \in Days,
                 c.rec <= open[u].now, c.sup = Null \/ c.sup > open[u].now, Covers(c, d)
          PROVE  \E e \in Live' : Covers(e, d) /\ c.version <= e.version
      <4>1. open[u].now \in 1..clock /\ u \in Running
        BY <2>1, <3>3, Under DEF Running
      <4>2. CASE c \in Live'
        <5>1. c.version \in Nat
          BY <2>0, <2>3, <2>c, <1>3, WriteTypes, Under DEF Row, Write, Locked
        <5> QED
          BY <3>3, <4>2, <5>1
      <4>3. CASE \E r \in Believed(open[u].now) :
                    c.version = r.version /\ c.from = r.from /\ c.to = r.to
        <5>1. PICK r \in Believed(open[u].now) :
                    c.version = r.version /\ c.from = r.from /\ c.to = r.to
          BY <4>3
        <5>2. r \in rows /\ Covers(r, d)
          BY <3>3, <5>1 DEF Believed, Covers
        <5>3. \E e \in Live' : Covers(e, d) /\ r.version <= e.version
          BY <3>2, <4>1, <5>1, <5>2
        <5> QED
          BY <5>1, <5>3
      <4> QED
        BY <2>3, <3>3, <4>1, <4>2, <4>3, BelievedAfterWrite
    <3>4. \A u \in Running', c \in rows' :
             c \in Believed(open[u].now)' => c.rec <= open[u].now /\ (c.sup = Null \/ c.sup > open[u].now)
      BY <2>1 DEF Believed
    <3> QED
      BY <2>1, <3>3, <3>4 DEF Outdone, Covers, Believed
  <2> QED
    BY <1>3, <2>0, <2>2, <2>3, <2>c DEF Write
<1>4. ASSUME NEW s \in Submitters, Abandon(s) PROVE Outdone'
  <2>1. Running' \subseteq Running /\ UNCHANGED rows /\ \A u \in Running' : open'[u].now = open[u].now
    BY <1>4 DEF Abandon, Running, TypeOK
  <2> QED
    BY <1>1, <2>1
<1>5. ASSUME NEW x \in Retracters, Quiet(x) PROVE Outdone'
  BY <1>1, <1>5, QuietSteps DEF Running
<1>6. ASSUME NEW x \in Retracters, RetractStamp(x) PROVE Outdone'
  <2>1. Running' = {}
    BY <1>6, Met DEF RetractStamp, Alone, Retracting
  <2> QED
    BY <2>1 DEF Outdone
<1>7. CASE UNCHANGED vars
  BY <1>1, <1>7 DEF vars, Running
<1> QED
  BY <1>2, <1>3, <1>4, <1>5, <1>6, <1>7, <1>f DEF Next, Quiet

LEMMA TopIsOne ==
    ASSUME NEW S \in SUBSET Nat, NEW v \in Nat, NEW w \in Nat, IsTop(v, S), IsTop(w, S)
    PROVE  v = w
BY DEF IsTop

\* A writing leaves the highest live version of the days before valid_from,
\* and makes the new one the highest of the days from it on.
LEMMA TopAfterWrite ==
    ASSUME TypeOK, Numbered, NoTwins, AsFound, Outdone, NEW s \in Submitters, Write(s),
           NEW p \in Packets, p = open[s].packet,
           WriteVersion(p, open[s].now, open[s].read),
           NEW d \in Days, NEW v \in Nat, IsTop(v, LiveVersions(d))
    PROVE  IsTop(IF d < validFrom[p] THEN v ELSE current + 1, LiveVersions(d)')
<1> DEFINE t == open[s].now
<1>0. t \in 1..clock /\ s \in Running /\ d \in Nat /\ validFrom[p] \in Nat /\ current \in Nat
      /\ WriteVersion(p, t, Believed(t))
  BY Under DEF Write, Locked, TypeOK, Days, AsFound
<1>1. /\ \A b \in rows : b.version \in 1..current
      /\ \A w : w \in LiveVersions(d) <=> \E b \in Live : Covers(b, d) /\ b.version = w
      /\ \A w : w \in LiveVersions(d)' <=> \E c \in Live' : Covers(c, d) /\ c.version = w
  BY DEF Numbered, LiveVersions, Covers
<1>2. Numbered' /\ current' = current + 1
  BY NumberedKept DEF Next, WriteVersion
<1>3. \A w \in LiveVersions(d)' : w \in 1..(current + 1)
  BY <1>1, <1>2 DEF Numbered, Live
<1>4. CASE d < validFrom[p]
  <2>1. \A w \in LiveVersions(d) : w \in LiveVersions(d)'
    BY <1>0, <1>1, <1>4, LiveAfterWrite
  <2>2. ASSUME NEW w \in LiveVersions(d)' PROVE w <= v
    <3>1. PICK b \in Live \cup Believed(t) : Covers(b, d) /\ b.version = w
      BY <1>0, <1>1, <1>4, <2>2, LiveAfterWrite
    <3>2. b \in rows
      BY DEF Live, Believed
    <3>3. PICK c \in Live : Covers(c, d) /\ b.version <= c.version
      BY <1>0, <1>1, <3>1, <3>2 DEF Outdone
    <3>4. c.version \in LiveVersions(d) /\ c \in rows
      BY <1>1, <3>3 DEF Live
    <3>5. c.version <= v
      BY <3>4 DEF IsTop
    <3> QED
      BY <1>0, <1>1, <3>1, <3>2, <3>3, <3>4, <3>5
  <2> QED
    BY <1>0, <1>4, <2>1, <2>2 DEF IsTop
<1>5. CASE validFrom[p] <= d
  <2>1. current + 1 \in LiveVersions(d)'
    BY <1>0, <1>1, <1>5, LiveAfterWrite
  <2> QED
    BY <1>0, <1>3, <1>5, <2>1 DEF IsTop
<1> QED
  BY <1>0, <1>4, <1>5

LEMMA NoneAfterRetract ==
    ASSUME TypeOK, NoTwins, Alone, NEW x \in Retracters, RetractStamp(x), NEW d \in Days
    PROVE  LiveVersions(d)' = {}
<1>1. retract[x].now \in Nat \ {0} /\ Live \subseteq Hit(retract[x].read)
  BY LiveIsHit, Withdrawing DEF RetractStamp
<1>2. ASSUME NEW c \in rows' PROVE c.sup # Null
  <2>1. PICK r \in rows : Stays(c, r, Hit(retract[x].read), retract[x].now)
    BY <1>2, Retractions
  <2> QED
    BY <1>1, <2>1 DEF Stays, Live, Null
<1> QED
  BY <1>2 DEF LiveVersions, Live

LEMMA ToppedKept ==
    ASSUME TypeOK, Numbered, NoTwins, Alone, AsFound, Outdone, Topped, [Next]_vars
    PROVE  Topped'
<1>1. ASSUME UNCHANGED rows PROVE Topped'
  <2>1. \A d \in Days : LiveVersions(d)' = LiveVersions(d)
    BY <1>1 DEF LiveVersions, Live, Covers
  <2> QED
    BY <2>1 DEF Topped, IsTop
<1>2. ASSUME NEW s \in Submitters, Write(s) PROVE Topped'
  <2>0. PICK p \in Packets : p = open[s].packet
    BY <1>2, Under DEF Write, Locked
  <2>1. CASE WriteVersion(p, open[s].now, open[s].read)
    <3>1. ASSUME NEW d \in Days PROVE \E v \in Nat : IsTop(v, LiveVersions(d)')
      <4>1. PICK v \in Nat : IsTop(v, LiveVersions(d))
        BY DEF Topped
      <4>2. IsTop(IF d < validFrom[p] THEN v ELSE current + 1, LiveVersions(d)')
        BY <1>2, <2>0, <2>1, <4>1, TopAfterWrite
      <4>3. (IF d < validFrom[p] THEN v ELSE current + 1) \in Nat
        BY DEF TypeOK
      <4> QED
        BY <4>2, <4>3
    <3> QED
      BY <3>1 DEF Topped, IsTop
  <2> QED
    BY <1>1, <1>2, <2>0, <2>1 DEF Write
<1>3. ASSUME NEW x \in Retracters, RetractStamp(x) PROVE Topped'
  <2>1. \A d \in Days : IsTop(0, LiveVersions(d)')
    BY <1>3, NoneAfterRetract DEF IsTop
  <2> QED
    BY <2>1 DEF Topped, IsTop
<1>4. ASSUME NEW x \in Retracters, Quiet(x) PROVE Topped'
  BY <1>1, <1>4, QuietSteps
<1>5. ASSUME NEW s \in Submitters, Find(s) PROVE Topped'
  BY <1>1, <1>5, FindSteps
<1> QED
  BY <1>1, <1>2, <1>3, <1>4, <1>5 DEF Next, Begin, Abandon, Quiet, vars

LEMMA AlonePreserved == Apart => (JInv /\ [Next]_vars => JInv')
BY Preserved, AloneKept, AsFoundKept, OutdoneKept, ToppedKept DEF JInv, IInv

LEMMA AloneStarts == Init => JInv
<1> SUFFICES ASSUME Init PROVE JInv
  OBVIOUS
<1>1. Alone /\ AsFound /\ Outdone
  BY DEF Init, Alone, AsFound, Locked, Outdone, Running, Retracting
<1>2. \A d \in Days : LiveVersions(d) = {}
  BY DEF Init, LiveVersions, Live
<1>3. Topped
  BY <1>2 DEF Topped, IsTop
<1> QED
  BY <1>1, <1>3, Starts DEF JInv

(* When retractions meet no submission, what a submission under way still  *)
(* believes is outdone by a live row, a retraction under way has found all *)
(* live rows, and every day has a highest live version.                    *)
THEOREM AloneInvariance == Apart => (Spec => []JInv)
<1> SUFFICES ASSUME Apart PROVE Spec => []JInv
  OBVIOUS
<1>1. JInv /\ [Next]_vars => JInv'
  BY AlonePreserved
<1> QED
  BY <1>1, AloneStarts, PTL DEF Spec

-----------------------------------------------------------------------------
(* The past.                                                               *)

\* Of the rows a retraction under way has read, one that was superseded since
\* is outdone up to its floor: stamping it again brings no answer back there.
Outlived ==
    \A x \in Retracting : \A b \in Hit(retract[x].read), d \in Days, k \in Nat :
        k < retract[x].floor /\ b.sup # Null /\ b.sup <= k /\ Covers(b, d) =>
            \E c \in Believed(k) : Covers(c, d) /\ b.version <= c.version

\* Of the rows a submission under way has read, only retractions supersede any,
\* with stamps from its floor on.
Untouched ==
    \A s \in Submitters : Locked(s) =>
        \A b \in Hit(open[s].read) : b.sup = Null \/ open[s].floor <= b.sup

HInv == IInv /\ Outlived /\ Untouched

\* What a submission supersedes with the stamp t it outdoes from t on.
LEMMA Overtaken ==
    ASSUME TypeOK, Numbered, NEW p \in Packets, NEW t \in 1..clock, NEW R \in SUBSET Row,
           WriteVersion(p, t, R),
           NEW b \in Hit(R), NEW d \in Days, Covers(b, d), NEW k \in Nat, t <= k
    PROVE  \E c \in Believed(k)' : Covers(c, d) /\ b.version <= c.version
<1>0. /\ b \in rows /\ b \in Row /\ b.version \in 1..current
      /\ validFrom[p] \in Nat /\ d \in 0..LastDay /\ current \in Nat
  BY DEF Hit, Numbered, TypeOK, Days
<1>1. CASE d < validFrom[p]
  <2>0. PICK r \in R : b = [r EXCEPT !.sup = b.sup]
    BY DEF Hit
  <2>a. Twins(b, r) /\ r \in Row
    BY <1>0, <2>0 DEF Twins, Row
  <2>1. r.from < validFrom[p]
    BY <1>0, <1>1, <2>a DEF Covers, Row, Days, Twins
  <2>2. PICK c \in rows' : Derives(c, r, validFrom[p], t)
    BY <2>1, Fates
  <2> QED
    BY <1>0, <1>1, <2>2, <2>a DEF Derives, Covers, Believed, Row, Twins
<1>2. CASE validFrom[p] <= d
  <2>1. PICK c \in rows' : IsNew(c, p, t)
    BY Fates
  <2> QED
    BY <1>0, <1>2, <2>1, RecordVersionsAssumption DEF IsNew, Covers, Believed, Forever
<1> QED
  BY <1>0, <1>1, <1>2

\* What was believed at k is outdone at k after a submission.
LEMMA StillOutdone ==
    ASSUME TypeOK, Numbered, NEW p \in Packets, NEW t \in 1..clock, NEW R \in SUBSET Row,
           WriteVersion(p, t, R),
           NEW d \in Days, NEW k \in Nat, NEW b \in Believed(k), Covers(b, d)
    PROVE  \E c \in Believed(k)' : Covers(c, d) /\ b.version <= c.version
<1>0. b \in rows /\ b.version \in Nat /\ b.rec \in Nat /\ b.sup \in Nat
  BY DEF Believed, TypeOK, Row
<1>1. CASE b \in Hit(R) /\ t <= k
  BY <1>1, Overtaken
<1>2. CASE ~(b \in Hit(R) /\ t <= k)
  <2>1. PICK c \in rows' : Stays(c, b, Hit(R), t)
    BY <1>0, Fates
  <2>2. c.rec <= k /\ (c.sup = Null \/ c.sup > k)
    BY <1>0, <1>2, <2>1 DEF Stays, Twins, Believed
  <2> QED
    BY <1>0, <2>1, <2>2 DEF Stays, Twins, Believed, Covers
<1> QED
  BY <1>1, <1>2

\* The rows of R, after a stamping, are those of before.
LEMMA HitBefore ==
    ASSUME NEW R \in SUBSET Row, NEW b, b.sup \in Nat,
           \E q \in R : b = [q EXCEPT !.sup = b.sup],
           NEW r \in rows, r \in Row, NEW S, NEW t, Stays(b, r, S, t)
    PROVE  r \in Hit(R)
<1>1. PICK q \in R : b = [q EXCEPT !.sup = b.sup]
  OBVIOUS
<1>2. Twins(b, q)
  <2>1. q \in Row
    BY <1>1
  <2> QED
    BY <1>1, <2>1 DEF Twins, Row
<1>3. q \in Row /\ Twins(r, q)
  BY <1>1, <1>2 DEF Stays, Twins
<1>4. r = [q EXCEPT !.sup = r.sup]
  BY <1>3 DEF Twins, Row
<1> QED
  BY <1>4 DEF Hit

LEMMA OutlivedKept ==
    ASSUME TypeOK, Numbered, NoTwins, Outlived, [Next]_vars
    PROVE  Outlived'
<1>0. rows \subseteq Row /\ \A b \in rows : b.version \in Nat /\ b.rec \in Nat /\ b.sup \in Nat
  BY DEF TypeOK, Row
<1>1. ASSUME UNCHANGED <<rows, retract>> PROVE Outlived'
  BY <1>1 DEF Outlived, Retracting, Hit, Believed, Covers
<1>2. ASSUME NEW s \in Submitters, Write(s) PROVE Outlived'
  <2>0. PICK p \in Packets, t \in 1..clock : p = open[s].packet /\ t = open[s].now
    BY <1>2, Under DEF Write, Locked
  <2> DEFINE R == open[s].read
  <2>r. R \in SUBSET Row
    BY <1>2, Under DEF Write, Locked
  <2>1. CASE WriteVersion(p, t, R)
    <3>1. /\ retract' = retract /\ Retracting' = Retracting
          /\ \A x \in Retracting : retract[x].read \subseteq Row
      BY <1>2 DEF Write, Retracting, TypeOK
    <3>2. ASSUME NEW x \in Retracting, NEW b \in Hit(retract[x].read)', NEW d \in Days, NEW k \in Nat,
                 k < retract[x].floor, b.sup # Null, b.sup <= k, Covers(b, d)
          PROVE  \E c \in Believed(k)' : Covers(c, d) /\ b.version <= c.version
      <4>1. b \in rows' /\ \E q \in retract[x].read : b = [q EXCEPT !.sup = b.sup]
        BY <3>1, <3>2 DEF Hit
      <4>2. PICK r \in rows : Stays(b, r, Hit(R), t)
        BY <2>1, <2>r, <3>2, <4>1, Fates DEF Derives, IsNew
      <4>3. r \in Hit(retract[x].read)
        <5>1. b.sup \in Nat
          BY <1>2, <4>1, Types DEF TypeOK, Row, Next
        <5> QED
          BY <1>0, <3>1, <4>1, <4>2, <5>1, HitBefore
      <4>4. Covers(r, d) /\ r.version = b.version
        BY <3>2, <4>2 DEF Stays, Twins, Covers
      <4>5. CASE r \in Hit(R)
        <5>1. t <= k
          BY <3>2, <4>2, <4>5 DEF Stays
        <5> QED
          BY <2>1, <2>r, <3>2, <4>4, <4>5, <5>1, Overtaken
      <4>6. CASE r \notin Hit(R)
        <5>1. r.sup # Null /\ r.sup <= k
          BY <3>2, <4>2, <4>6 DEF Stays
        <5>2. PICK c \in Believed(k) : Covers(c, d) /\ r.version <= c.version
          BY <3>2, <4>3, <4>4, <5>1 DEF Outlived
        <5>3. PICK e \in Believed(k)' : Covers(e, d) /\ c.version <= e.version
          BY <2>1, <2>r, <3>2, <5>2, StillOutdone
        <5>4. r.version \in Nat /\ c.version \in Nat /\ e.version \in Nat
          BY <1>0, <2>0, <2>1, <2>r, <5>2, <5>3, WriteTypes DEF Believed, Row
        <5> QED
          BY <4>4, <5>2, <5>3, <5>4
      <4> QED
        BY <4>5, <4>6
    <3> QED
      BY <3>1, <3>2 DEF Outlived, Covers
  <2> QED
    BY <1>1, <1>2, <2>0, <2>1 DEF Write
<1>3. ASSUME NEW x \in Retracters, Quiet(x) PROVE Outlived'
  <2>0. UNCHANGED rows
    BY <1>3, QuietSteps
  <2>1. ASSUME NEW y \in Retracters, y # x PROVE retract'[y] = retract[y]
    BY <1>3, <2>1 DEF Quiet, RetractBegin, RetractRead, RetractFails, TypeOK
  <2>2. ASSUME NEW y \in Retracting', y # x
        PROVE  y \in Retracting /\ Hit(retract[y].read)' = Hit(retract[y].read) /\ retract'[y].floor = retract[y].floor
    BY <2>0, <2>1, <2>2 DEF Retracting, Hit
  <2>3. ASSUME x \in Retracting', NEW b \in Hit(retract[x].read)', NEW k \in Nat,
               k < retract'[x].floor, b.sup # Null, b.sup <= k
        PROVE  FALSE
    <3>1. CASE RetractBegin(x)
      BY <2>3, <3>1 DEF RetractBegin, Hit, TypeOK
    <3>2. CASE RetractRead(x)
      <4>0. x \in Retracting /\ retract'[x].floor = retract[x].floor
            /\ retract'[x].read = Believed(retract[x].now)
        BY <3>2 DEF RetractRead, Retracting, TypeOK
      <4>1. PICK r \in Believed(retract[x].now) : b = [r EXCEPT !.sup = b.sup]
        BY <2>3, <4>0 DEF Hit
      <4>2. r \in rows /\ b \in rows
        BY <2>0, <2>3, <4>1 DEF Hit, Believed
      <4>3. b = r
        BY <1>0, <4>1, <4>2, Stamping, Extensional DEF NoTwins
      <4>4. b.sup = Null \/ b.sup > retract[x].now
        BY <4>1, <4>3 DEF Believed
      <4>5. retract[x].now \in Nat /\ retract[x].floor \in Nat
            /\ retract[x].floor <= retract[x].now /\ b.sup \in Nat
        BY <1>0, <4>0, <4>2, Withdrawing DEF Retracting
      <4> QED
        BY <2>3, <4>0, <4>4, <4>5
    <3>3. CASE RetractFails(x)
      BY <2>3, <3>3 DEF RetractFails, Retracting, TypeOK
    <3> QED
      BY <1>3, <3>1, <3>2, <3>3 DEF Quiet
  <2>4. \A k \in Nat : Believed(k)' = Believed(k)
    BY <2>0 DEF Believed
  <2>5. ASSUME NEW y \in Retracting', NEW b \in Hit(retract[y].read)', NEW d \in Days, NEW k \in Nat,
               k < retract'[y].floor, b.sup # Null, b.sup <= k, Covers(b, d)
        PROVE  \E c \in Believed(k) : Covers(c, d) /\ b.version <= c.version
    <3>1. CASE y = x
      BY <2>3, <2>5, <3>1
    <3>2. CASE y # x
      BY <2>2, <2>5, <3>2 DEF Outlived
    <3> QED
      BY <3>1, <3>2
  <2> QED
    BY <2>4, <2>5 DEF Outlived, Covers
<1>4. ASSUME NEW x \in Retracters, RetractStamp(x) PROVE Outlived'
  <2> DEFINE t == retract[x].now
  <2>0. t \in Nat \ {0}
    BY <1>4, Withdrawing DEF RetractStamp
  <2>1. ASSUME NEW y \in Retracting', NEW b \in Hit(retract[y].read)', NEW d \in Days, NEW k \in Nat,
               k < retract'[y].floor, b.sup # Null, b.sup <= k, Covers(b, d)
        PROVE  \E c \in Believed(k)' : Covers(c, d) /\ b.version <= c.version
    <3>1. /\ y \in Retracting /\ retract'[y].read = retract[y].read
          /\ retract'[y].floor \in Nat /\ retract'[y].floor <= retract[y].floor
          /\ retract[y].floor \in Nat
          /\ retract[y].at = "read" => retract'[y].floor <= t
          /\ retract[y].read \subseteq Row
      BY <1>4, Others, Withdrawing DEF Retracting
    <3>2. b \in rows' /\ \E q \in retract[y].read : b = [q EXCEPT !.sup = b.sup]
      BY <2>1, <3>1 DEF Hit
    <3>3. retract'[y].floor <= t
      BY <3>1, <3>2 DEF TypeOK, Retracting
    <3>4. PICK r \in rows : Stays(b, r, Hit(retract[x].read), t)
      BY <1>4, <3>2, Retractions
    <3>5. b.sup = r.sup
      BY <2>0, <2>1, <3>1, <3>3, <3>4 DEF Stays
    <3>6. b = r
      BY <1>0, <1>4, <3>2, <3>4, <3>5, Types, Extensional DEF Stays, TypeOK, Next
    <3>7. b \in Hit(retract[y].read)
      BY <3>2, <3>4, <3>6 DEF Hit
    <3>8. PICK c \in Believed(k) : Covers(c, d) /\ b.version <= c.version
      BY <2>1, <3>1, <3>7 DEF Outlived
    <3>9. PICK e \in rows' : Stays(e, c, Hit(retract[x].read), t)
      BY <1>4, <3>8, Retractions DEF Believed
    <3>10. e \in Believed(k)' /\ Covers(e, d) /\ e.version = c.version
      BY <1>0, <2>0, <2>1, <3>1, <3>3, <3>8, <3>9 DEF Stays, Twins, Believed, Covers
    <3> QED
      BY <3>8, <3>10
  <2> QED
    BY <2>1 DEF Outlived, Covers
<1>5. ASSUME NEW s \in Submitters, Find(s) PROVE Outlived'
  BY <1>1, <1>5, FindSteps
<1> QED
  BY <1>1, <1>2, <1>3, <1>4, <1>5 DEF Next, Begin, Abandon, Quiet, vars

LEMMA UntouchedKept ==
    ASSUME TypeOK, NoTwins, OneLock, Untouched, [Next]_vars
    PROVE  Untouched'
<1>1. ASSUME UNCHANGED rows, \A s \in Submitters : Locked(s)' => Locked(s) /\ open'[s] = open[s]
      PROVE  Untouched'
  BY <1>1 DEF Untouched, Hit
<1>2. ASSUME NEW s \in Submitters, NEW p \in Packets, Begin(s, p) PROVE Untouched'
  <2>1. \A u \in Submitters : Locked(u)' => Locked(u) /\ open'[u] = open[u]
    <3>1. CASE UNCHANGED open
      BY <3>1 DEF Locked
    <3>2. CASE ~ UNCHANGED open
      BY <1>2, <3>2, Opened DEF Locked, Running
    <3> QED
      BY <3>1, <3>2
  <2> QED
    BY <1>1, <1>2, <2>1, Opened
<1>3. ASSUME NEW s \in Submitters, Find(s) PROVE Untouched'
  <2>1. \A u \in Submitters : u # s => ~Locked(u)'
    BY <1>3 DEF Find, Locked, TypeOK
  <2>2. /\ open'[s].read = Believed(open[s].now) /\ open'[s].floor = open[s].floor
        /\ UNCHANGED rows /\ open[s].floor \in Nat /\ open[s].now \in Nat
        /\ open[s].floor <= open[s].now
    <3>1. s \in Running /\ open[s] # Idle
      BY <1>3 DEF Find, Running
    <3> QED
      BY <1>3, <3>1, FindSteps, Under, SMTT(30) DEF TypeOK
  <2>3. \A b \in Believed(open[s].now) : b.sup \in Nat /\ (b.sup = Null \/ b.sup > open[s].now)
    BY DEF Believed, TypeOK, Row
  <2>4. \A b \in Hit(Believed(open[s].now)) : b.sup = Null \/ open[s].floor <= b.sup
    BY <2>2, <2>3, BelievedIsHit
  <2>5. Hit(open[s].read)' = Hit(Believed(open[s].now))
    BY <2>2 DEF Hit
  <2> QED
    BY <2>1, <2>2, <2>4, <2>5 DEF Untouched
<1>4. ASSUME NEW s \in Submitters, Write(s) PROVE Untouched'
  <2>1. \A u \in Submitters : ~Locked(u)'
    BY <1>4 DEF OneLock, Write, Locked, TypeOK
  <2> QED
    BY <2>1 DEF Untouched
<1>5. ASSUME NEW s \in Submitters, Abandon(s) PROVE Untouched'
  BY <1>1, <1>5 DEF Abandon, Locked, TypeOK
<1>6. ASSUME NEW x \in Retracters, RetractStamp(x) PROVE Untouched'
  <2> DEFINE t == retract[x].now
  <2>1. ASSUME NEW s \in Submitters, Locked(s)', NEW b \in Hit(open[s].read)'
        PROVE  b.sup = Null \/ open'[s].floor <= b.sup
    <3>1. /\ Locked(s) /\ open'[s].read = open[s].read
          /\ open'[s].floor \in Nat /\ open[s].floor \in Nat
          /\ open'[s].floor <= open[s].floor /\ open'[s].floor <= t
          /\ open[s].read \in SUBSET Row
      BY <1>6, <2>1, Met, Under DEF Locked, Running
    <3> DEFINE R == open[s].read
    <3>2. b \in rows' /\ \E q \in R : b = [q EXCEPT !.sup = b.sup]
      BY <2>1, <3>1 DEF Hit
    <3>3. PICK r \in rows : Stays(b, r, Hit(retract[x].read), t)
      BY <1>6, <3>2, Retractions
    <3>4. r \in Row /\ r.sup \in Nat /\ b.sup \in Nat
      BY <1>6, <3>2, Types DEF TypeOK, Row, Next
    <3>5. r \in Hit(open[s].read)
      BY <3>1, <3>2, <3>3, <3>4, HitBefore
    <3>6. r.sup = Null \/ open[s].floor <= r.sup
      BY <3>1, <3>5 DEF Untouched
    <3>7. b.sup = t \/ b.sup = r.sup
      BY <3>3 DEF Stays
    <3> QED
      BY <3>1, <3>4, <3>6, <3>7
  <2> QED
    BY <2>1 DEF Untouched
<1>7. ASSUME NEW x \in Retracters, Quiet(x) PROVE Untouched'
  BY <1>1, <1>7, QuietSteps DEF Locked
<1> QED
  BY <1>1, <1>2, <1>3, <1>4, <1>5, <1>6, <1>7 DEF Next, Quiet, vars, Locked

LEMMA SameRead ==
    ASSUME NEW k, NEW d, Versions(k, d)' = Versions(k, d)
    PROVE  Read(k, d)' = Read(k, d)
BY DEF Read, IsTop

\* The highest of a set stays the highest when smaller numbers join it.
LEMMA SameTop ==
    ASSUME NEW S \in SUBSET Nat, NEW U \in SUBSET Nat, S \subseteq U,
           \A w \in U : \E v \in S : w <= v
    PROVE  (CHOOSE v \in U \cup {0} : IsTop(v, U)) = (CHOOSE v \in S \cup {0} : IsTop(v, S))
<1>1. ASSUME NEW v \in U \cup {0}, IsTop(v, U) PROVE v \in S \cup {0} /\ IsTop(v, S)
  BY <1>1 DEF IsTop
<1>2. ASSUME NEW v \in S \cup {0}, IsTop(v, S) PROVE v \in U \cup {0} /\ IsTop(v, U)
  BY <1>2 DEF IsTop
<1>3. \A v : v \in U \cup {0} /\ IsTop(v, U) <=> v \in S \cup {0} /\ IsTop(v, S)
  BY <1>1, <1>2
<1> QED
  BY <1>3, Zenon

LEMMA PastKept ==
    ASSUME TypeOK, Outlived, Untouched, [Next]_vars,
           NEW k \in 0..clock, NEW d \in Days, Settled(k)
    PROVE  Read(k, d)' = Read(k, d)
<1> USE DEF Null
<1>0. k \in Nat /\ rows \subseteq Row /\ \A b \in rows : b.rec \in Nat /\ b.sup \in Nat
  BY DEF TypeOK, Row
<1>1. UNCHANGED rows => Versions(k, d)' = Versions(k, d)
  BY DEF Versions, Believed, Covers
<1>2. /\ \A w : w \in Versions(k, d) <=> \E b \in Believed(k) : Covers(b, d) /\ b.version = w
      /\ \A w : w \in Versions(k, d)' <=> \E c \in Believed(k)' : Covers(c, d) /\ c.version = w
  BY DEF Versions, Covers
<1>3. ASSUME NEW R \in SUBSET rows, NEW t \in Nat, k < t,
             \A r \in R : r.sup = Null \/ r.sup > k,
             NEW c \in rows', NEW r \in rows, Stays(c, r, R, t)
      PROVE  /\ c \in Believed(k)' <=> r \in Believed(k)
             /\ c.version = r.version
             /\ Covers(c, d) <=> Covers(r, d)
  <2>1. c.rec = r.rec /\ c.sup = (IF r \in R THEN t ELSE r.sup)
        /\ c.version = r.version /\ c.from = r.from /\ c.to = r.to
    BY <1>3 DEF Stays, Twins
  <2>2. (c.sup = Null \/ c.sup > k) <=> (r.sup = Null \/ r.sup > k)
    BY <1>0, <1>3, <2>1
  <2> QED
    BY <2>1, <2>2 DEF Believed, Covers
<1>4. ASSUME NEW R \in SUBSET rows, NEW t \in Nat, k < t,
             \A r \in R : r.sup = Null \/ r.sup > k,
             \A c \in rows' : c.rec = t \/ \E r \in rows : Stays(c, r, R, t),
             \A r \in rows : \E c \in rows' : Stays(c, r, R, t)
      PROVE  Versions(k, d)' = Versions(k, d)
  <2>1. ASSUME NEW c \in Believed(k)', Covers(c, d) PROVE c.version \in Versions(k, d)
    <3>1. c \in rows' /\ c.rec # t
      BY <1>0, <1>4, <2>1 DEF Believed
    <3>2. PICK r \in rows : Stays(c, r, R, t)
      BY <1>4, <3>1
    <3>3. r \in Believed(k) /\ c.version = r.version /\ Covers(r, d)
      BY <1>3, <1>4, <2>1, <3>1, <3>2
    <3> QED
      BY <1>2, <3>3
  <2>2. ASSUME NEW r \in Believed(k), Covers(r, d) PROVE r.version \in Versions(k, d)'
    <3>1. r \in rows
      BY DEF Believed
    <3>2. PICK c \in rows' : Stays(c, r, R, t)
      BY <1>4, <3>1
    <3>3. c \in Believed(k)' /\ c.version = r.version /\ Covers(c, d)
      BY <1>3, <1>4, <2>2, <3>1, <3>2
    <3> QED
      BY <1>2, <3>3
  <2>3. \A w : w \in Versions(k, d)' <=> w \in Versions(k, d)
    BY <1>2, <2>1, <2>2
  <2> QED
    BY <2>3
<1>5. ASSUME NEW s \in Submitters, Write(s) PROVE Read(k, d)' = Read(k, d)
  <2>0. PICK p \in Packets, t \in 1..clock, R \in SUBSET Row :
              p = open[s].packet /\ t = open[s].now /\ R = open[s].read
    BY <1>5, Under DEF Write, Locked
  <2>1. CASE WriteVersion(p, t, R)
    <3>1. k < open[s].floor /\ open[s].floor \in Nat /\ k < t /\ t \in Nat
      BY <1>5, <2>0, Under DEF Settled, Write, Locked, Running
    <3>2. Hit(R) \subseteq rows /\ \A r \in Hit(R) : r.sup = Null \/ r.sup > k
      BY <1>0, <1>5, <2>0, <3>1 DEF Hit, Untouched, Write
    <3>3. \A c \in rows' : c.rec = t \/ \E r \in rows : Stays(c, r, Hit(R), t)
      BY <2>1, Fates DEF Derives, IsNew
    <3>4. \A r \in rows : \E c \in rows' : Stays(c, r, Hit(R), t)
      BY <2>1, Fates
    <3> QED
      BY <1>4, <3>1, <3>2, <3>3, <3>4, SameRead
  <2> QED
    BY <1>1, <1>5, <2>0, <2>1, SameRead DEF Write
<1>6. ASSUME NEW x \in Retracters, RetractStamp(x) PROVE Read(k, d)' = Read(k, d)
  <2> DEFINE S == Versions(k, d)
             U == Versions(k, d)'
  <2>1. retract[x].now \in Nat /\ k < retract[x].now /\ k < retract[x].floor /\ Hit(retract[x].read) \subseteq rows /\ x \in Retracting
    BY <1>6, Withdrawing DEF RetractStamp, Settled, Hit
  <2>2. ASSUME NEW r \in Believed(k), Covers(r, d) PROVE r.version \in U
    <3>1. PICK c \in rows' : Stays(c, r, Hit(retract[x].read), retract[x].now)
      BY <1>6, Retractions DEF Believed
    <3>2. c.rec <= k /\ (c.sup = Null \/ c.sup > k) /\ c.version = r.version
          /\ c.from = r.from /\ c.to = r.to
      BY <1>0, <2>1, <3>1 DEF Stays, Twins, Believed
    <3> QED
      BY <1>2, <2>2, <3>1, <3>2 DEF Believed, Covers
  <2>3. ASSUME NEW c \in Believed(k)', Covers(c, d)
        PROVE  \E b \in Believed(k) : Covers(b, d) /\ c.version <= b.version
    <3>1. PICK r \in rows : Stays(c, r, Hit(retract[x].read), retract[x].now)
      BY <1>6, <2>3, Retractions DEF Believed
    <3>2. Covers(r, d) /\ r.version = c.version /\ r.rec <= k /\ r.version \in Nat
      BY <1>0, <2>3, <3>1 DEF Stays, Twins, Covers, Believed, TypeOK, Row
    <3>3. CASE r \in Believed(k)
      BY <3>2, <3>3
    <3>4. CASE r \notin Believed(k)
      <4>1. r.sup # Null /\ r.sup <= k
        BY <1>0, <3>2, <3>4 DEF Believed
      <4>2. r \in Hit(retract[x].read)
        BY <1>0, <2>3, <3>1, <4>1 DEF Stays, Believed
      <4> QED
        BY <1>0, <2>1, <3>2, <4>1, <4>2 DEF Outlived
    <3> QED
      BY <3>3, <3>4
  <2>4. S \subseteq Nat
    BY DEF Versions, Believed, TypeOK, Row
  <2>5. \A w \in U : \E v \in S : w <= v
    BY <1>2, <2>3
  <2>6. S \subseteq U
    BY <1>2, <2>2
  <2>7. U \subseteq Nat
    <3>1. rows' \subseteq Row
      BY Types DEF TypeOK
    <3> QED
      BY <3>1 DEF Versions, Believed, Row
  <2> HIDE DEF S, U
  <2>8. (CHOOSE v \in U \cup {0} : IsTop(v, U)) = (CHOOSE v \in S \cup {0} : IsTop(v, S))
    BY <2>4, <2>5, <2>6, <2>7, SameTop
  <2> QED
    BY <2>8 DEF S, U, Read, IsTop
<1>7. ASSUME NEW x \in Retracters, Quiet(x) PROVE Read(k, d)' = Read(k, d)
  BY <1>1, <1>7, QuietSteps, SameRead
<1>8. ASSUME NEW s \in Submitters, Find(s) PROVE Read(k, d)' = Read(k, d)
  BY <1>1, <1>8, FindSteps, SameRead
<1> QED
  BY <1>1, <1>5, <1>6, <1>7, <1>8, SameRead DEF Next, Begin, Abandon, Quiet, vars

LEMMA PastStarts == Init => HInv
BY Starts DEF HInv, Outlived, Untouched, Locked, Init, Retracting

LEMMA PastPreserved == HInv /\ [Next]_vars => HInv'
BY Preserved, OutlivedKept, UntouchedKept DEF HInv, IInv

(* A row that a request under way has read and will stamp again is, up to  *)
(* the floor of that request, outdone wherever it no longer counts (read   *)
(* by a retraction) or still believed (read by a submission).              *)
THEOREM PastInvariance == Spec => []HInv
BY PastStarts, PastPreserved, PTL DEF Spec

(* An answer for a known_at before the stamps of all requests under way,   *)
(* and before the stamps of the retractions that one of them has met, is   *)
(* never changed by a submission or a retraction (query_records with       *)
(* known_at), whichever statements of the two come between those of        *)
(* others.                                                                 *)
THEOREM HistoryStableHolds == Spec => HistoryStable
<1>1. ASSUME HInv, [Next]_vars, NEW k \in 0..clock, NEW d \in Days, Settled(k)
      PROVE  Read(k, d)' = Read(k, d)
  BY <1>1, PastKept DEF HInv, IInv
<1>2. HInv /\ [Next]_vars =>
        [\A k \in 0..clock, d \in Days : Settled(k) => Read(k, d)' = Read(k, d)]_vars
  BY <1>1
<1> QED
  BY <1>2, PastInvariance, PTL DEF Spec, HistoryStable

-----------------------------------------------------------------------------
(* The timeline.                                                           *)

Belief == [d \in Days |-> Read(clock, d)]

LEMMA ReadIsTop ==
    ASSUME TypeOK, Numbered, NEW d \in Days, NEW v \in Nat, IsTop(v, LiveVersions(d))
    PROVE  Read(clock, d) = v
<1>1. Versions(clock, d) = LiveVersions(d)
  BY LiveIsBelieved DEF Versions, LiveVersions, TypeOK
<1>2. LiveVersions(d) \subseteq Nat
  BY DEF LiveVersions, Live, TypeOK, Row
<1>3. v \in LiveVersions(d) \cup {0}
  BY DEF IsTop
<1>4. \A w \in LiveVersions(d) \cup {0} : IsTop(w, LiveVersions(d)) => w = v
  BY <1>2, TopIsOne
<1> QED
  BY <1>1, <1>3, <1>4 DEF Read

LEMMA Reads ==
    JInv => \A d \in Days, v \in Nat : IsTop(v, LiveVersions(d)) => Belief[d] = v
BY ReadIsTop DEF JInv, IInv, Belief

LEMMA ReadsNext ==
    (JInv => \A d \in Days, v \in Nat : IsTop(v, LiveVersions(d)) => Belief[d] = v)'
BY Reads, PTL

LEMMA BeliefIs ==
    ASSUME JInv, NEW d \in Days
    PROVE  \E v \in Nat : IsTop(v, LiveVersions(d)) /\ Belief[d] = v
BY Reads DEF JInv, Topped

LEMMA BeliefBecomes ==
    ASSUME JInv', NEW d \in Days, NEW v \in Nat, IsTop(v, LiveVersions(d)')
    PROVE  Belief'[d] = v
BY ReadsNext DEF IsTop

LEMMA BeliefStays ==
    ASSUME JInv, JInv', UNCHANGED rows
    PROVE  UNCHANGED Belief
<1>1. ASSUME NEW d \in Days PROVE Belief'[d] = Belief[d]
  <2>1. PICK v \in Nat : IsTop(v, LiveVersions(d)) /\ Belief[d] = v
    BY <1>1, BeliefIs
  <2>2. LiveVersions(d)' = LiveVersions(d)
    BY DEF LiveVersions, Live, Covers
  <2> QED
    BY <2>1, <2>2, BeliefBecomes
<1> QED
  BY <1>1 DEF Belief

LEMMA WriteAsserts ==
    ASSUME JInv, JInv', NEW s \in Submitters, Write(s),
           NEW p \in Packets, p = open[s].packet,
           WriteVersion(p, open[s].now, open[s].read)
    PROVE  Belief' = [d \in Days |-> IF d < validFrom[p] THEN Belief[d] ELSE current + 1]
<1>1. ASSUME NEW d \in Days
      PROVE  Belief'[d] = IF d < validFrom[p] THEN Belief[d] ELSE current + 1
  <2>1. PICK v \in Nat : IsTop(v, LiveVersions(d)) /\ Belief[d] = v
    BY <1>1, BeliefIs
  <2> DEFINE w == IF d < validFrom[p] THEN v ELSE current + 1
  <2>2. IsTop(w, LiveVersions(d)') /\ w \in Nat
    BY <2>1, TopAfterWrite DEF JInv, IInv, TypeOK
  <2> HIDE DEF w
  <2>3. Belief'[d] = w
    BY <2>2, BeliefBecomes
  <2> QED
    BY <2>1, <2>3 DEF w
<1> QED
  BY <1>1 DEF Belief

LEMMA RetractEmpties ==
    ASSUME JInv, JInv', NEW x \in Retracters, RetractStamp(x)
    PROVE  Belief' = [d \in Days |-> 0]
<1>1. ASSUME NEW d \in Days PROVE Belief'[d] = 0
  BY <1>1, NoneAfterRetract, BeliefBecomes DEF JInv, IInv, IsTop
<1> QED
  BY <1>1 DEF Belief

LEMMA StepOfTimeline ==
    ASSUME JInv, JInv', [Next]_vars
    PROVE  [Abstract!Next]_<<Belief, current>>
<1>1. ASSUME UNCHANGED <<rows, current>> PROVE UNCHANGED <<Belief, current>>
  BY <1>1, BeliefStays
<1>2. ASSUME NEW s \in Submitters, Write(s) PROVE [Abstract!Next]_<<Belief, current>>
  <2>0. PICK p \in Packets : p = open[s].packet
    BY <1>2, Under DEF Write, Locked, JInv, IInv
  <2>1. CASE WriteVersion(p, open[s].now, open[s].read)
    <3>1. validFrom[p] \in Abstract!Days
      BY DEF JInv, IInv, TypeOK, Abstract!Days, Days
    <3>2. Abstract!Assert(validFrom[p])
      BY <1>2, <2>0, <2>1, WriteAsserts DEF Abstract!Assert, Abstract!Days, Days, Belief, WriteVersion
    <3> QED
      BY <3>1, <3>2 DEF Abstract!Next
  <2> QED
    BY <1>1, <1>2, <2>0, <2>1 DEF Write
<1>3. ASSUME NEW x \in Retracters, RetractStamp(x) PROVE [Abstract!Next]_<<Belief, current>>
  <2>1. Abstract!Retract
    BY <1>3, RetractEmpties DEF Abstract!Retract, Abstract!Days, Days, Belief, RetractStamp
  <2> QED
    BY <2>1 DEF Abstract!Next
<1>4. ASSUME NEW x \in Retracters, Quiet(x) PROVE UNCHANGED <<Belief, current>>
  BY <1>1, <1>4, QuietSteps
<1>5. ASSUME NEW s \in Submitters, Find(s) PROVE UNCHANGED <<Belief, current>>
  BY <1>1, <1>5, FindSteps DEF JInv, IInv
<1> QED
  BY <1>1, <1>2, <1>3, <1>4, <1>5 DEF Next, Begin, Abandon, Quiet, vars

LEMMA StartOfTimeline ==
    ASSUME Init
    PROVE  Abstract!Init
<1>1. JInv
  BY AloneStarts
<1>2. \A d \in Days : IsTop(0, LiveVersions(d))
  BY DEF Init, LiveVersions, Live, IsTop
<1>3. \A d \in Days : Read(clock, d) = 0
  BY <1>1, <1>2, ReadIsTop DEF JInv, IInv
<1> QED
  BY <1>3 DEF Abstract!Init, Abstract!Days, Days, Init

(* When no retraction meets a submission, what the service answers now is  *)
(* a timeline: a version speaks for its day and all later ones, a          *)
(* retraction empties them, and no order of commits among submissions, or  *)
(* among retractions, shows (_write_version, query_records).               *)
THEOREM Implements == Apart => (Spec => KeepsTimeline)
<1> SUFFICES ASSUME Apart PROVE Spec => KeepsTimeline
  OBVIOUS
<1>1. JInv /\ JInv' /\ [Next]_vars
        => [Abstract!Next]_<<[d \in Days |-> Read(clock, d)], current>>
  BY StepOfTimeline DEF Belief
<1>2. Init => Abstract!Init
  BY StartOfTimeline
<1>3. Spec => []JInv
  BY AloneInvariance
<1> QED
  BY <1>1, <1>2, <1>3, PTL DEF Spec, KeepsTimeline, Abstract!Spec
=============================================================================
