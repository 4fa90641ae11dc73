--------------------------- MODULE WriteBackProofs ---------------------------
(***************************************************************************)
(* The write-back worker and its sweep, for every number of packets,       *)
(* values and workers and every bound on edits, faults and attempts.       *)
(*                                                                         *)
(* A job under way is a pending one and of one worker only; the job a      *)
(* sweep looks at is verified and stays so.  On this rest the three        *)
(* properties: what a worker is about to replace is what the approver saw  *)
(* or was changed under its hands, a notice is about a field that changed, *)
(* and the verdict a sweep carries to its end still fits the notices.      *)
(***************************************************************************)
EXTENDS WriteBack, TLAPS

\* A job under way is pending, and no other worker has it.
Working ==
    /\ \A w \in Workers : doing[w] \in JobSteps => job[w] \in queued
    /\ \A w, x \in Workers :
          doing[w] \in JobSteps /\ doing[x] \in JobSteps /\ w # x => job[w] # job[x]

\* Only a verified job is swept or has a notice, and what a worker has seen
\* is of the sweep it is in.
Looked ==
    /\ \A w \in Workers : doing[w] \notin {"judge", "finish"} => seen[w] = None
    /\ \A w \in Workers : doing[w] \in SweepSteps =>
          job[w] \in Packets /\ state[job[w]] = "verified"
    /\ \A p \in Packets : notice[p] # "none" => state[p] = "verified"

\* A job that may still be tried has a try left, and its diff was signed.
Trying ==
    \A p \in Packets :
        /\ state[p] = "none" => attempts[p] = 0
        /\ state[p] = "pending" => attempts[p] < MaxAttempts
        /\ state[p] # "none" => before[p] # None
        /\ before[p] # None => after[p] \in Values

\* What a worker is about to replace was signed, or came after its read.
Patching ==
    \A w \in Workers : doing[w] = "patch" =>
        field = before[job[w]] \/ field = after[job[w]] \/ w \in raced

\* A field that differs from what was verified, or from what a sweep saw, moved.
Explained ==
    /\ \A p \in Packets : state[p] = "verified" /\ field # after[p] => p \in moved
    /\ \A w \in Workers : doing[w] = "judge" /\ seen[w] # after[job[w]] => job[w] \in moved

\* The notice a sweep that is finishing will answer.
Answers(w) == {p \in {job[w]} : seen[w] = after[p]}

\* Sweeps that do not overlap: at most one, and its verdict fits the notices.
Alone ==
    ~overlapped =>
        /\ \A w, x \in Sweeping : w = x
        /\ \A w \in Workers : doing[w] = "finish" =>
              \/ clear[w] /\ NoneOpenBut(Answers(w))
              \/ ~clear[w] /\ ~NoneOpenBut(Answers(w))
              \/ ~clear[w] /\ ~mark

IInv == /\ TypeOK /\ Working /\ Looked /\ Trying /\ Patching
        /\ Explained /\ NoticeIsExplained /\ Alone /\ MarkMatchesNotices

-----------------------------------------------------------------------------
(* What the steps of a worker have in common.                              *)

\* A step of a job that ends its transaction, and one that goes on.
Ended(w) ==
    /\ doing[w] \in JobSteps
    /\ \E s \in JobStates \ {"none"} :
          /\ Commit(w, s)
          /\ s = "pending" => attempts[job[w]] + 1 < MaxAttempts
    /\ UNCHANGED <<signed, overlapped>>

GoesOn(w) ==
    /\ doing[w] \in JobSteps
    /\ \E s \in JobSteps : Step(w, s)
    /\ UNCHANGED <<signed, seen, overlapped>>

LEMMA Retries ==
    ASSUME TypeOK, NEW w \in Workers, job[w] \in Packets, Retry(w)
    PROVE  \E s \in JobStates \ {"none"} :
              Commit(w, s) /\ (s = "pending" => attempts[job[w]] + 1 < MaxAttempts)
BY WriteBackAssumption DEF TypeOK, Retry, JobStates

LEMMA Trial ==
    ASSUME TypeOK, Working, NEW w \in Workers,
           Refused(w) \/ ReadField(w) \/ Patch(w) \/ ReadBack(w) \/ CallFails(w)
    PROVE  Ended(w) \/ GoesOn(w)
<1> USE DEF JobSteps, Rest, Ended, GoesOn
<1>0. \A s \in {"failed", "conflict", "verified"} : s \in JobStates \ {"none"} /\ s # "pending"
  BY DEF JobStates
<1>1. doing[w] \in JobSteps => job[w] \in Packets
  BY DEF Working, TypeOK
<1>2. CASE Refused(w)
  BY <1>0, <1>2 DEF Refused
<1>3. CASE ReadField(w)
  BY <1>0, <1>3 DEF ReadField
<1>4. CASE Patch(w)
  BY <1>1, <1>4, Retries DEF Patch
<1>5. CASE ReadBack(w)
  BY <1>0, <1>1, <1>5, Retries DEF ReadBack
<1>6. CASE CallFails(w)
  BY <1>1, <1>6, Retries DEF CallFails
<1> QED
  BY <1>2, <1>3, <1>4, <1>5, <1>6

\* The outside and its history keep their types.
LEMMA Outside ==
    ASSUME TypeOK, Working, Trying, [Next]_vars
    PROVE  field' \in Values /\ moved' \subseteq Packets /\ raced' \subseteq Workers
<1> USE DEF TypeOK
<1>1. ASSUME NEW v \in Values, NEW who, SetField(v, who)
      PROVE  field' \in Values /\ moved' \subseteq Packets /\ raced' \subseteq Workers
  BY <1>1 DEF SetField
<1>2. ASSUME NEW w \in Workers, Patch(w)
      PROVE  field' \in Values /\ moved' \subseteq Packets /\ raced' \subseteq Workers
  <2>1. job[w] \in Packets /\ state[job[w]] # "none"
    BY <1>2 DEF Patch, Working, JobSteps
  <2>2. after[job[w]] \in Values
    BY <2>1 DEF Trying
  <2> QED
    BY <1>1, <1>2, <2>2 DEF Patch
<1>3. ASSUME NEW w \in Workers, ReadField(w) \/ ReadBack(w)
      PROVE  field' \in Values /\ moved' \subseteq Packets /\ raced' \subseteq Workers
  BY <1>3 DEF ReadField, ReadBack
<1> QED
  BY <1>1, <1>2, <1>3 DEF Next, JobStep, SweepStep, Edit, Preview, Submit, Claim, Refused, CallFails,
     Crash, SweepBegin, SweepLook, SweepOpens, SweepLeaves, SweepFinish, ext, vars

LEMMA Types ==
    ASSUME TypeOK, Working, Looked, Trying, [Next]_vars
    PROVE  TypeOK'
<1> USE DEF TypeOK, ext, signed, jobs, drift, hands
<1>0. field' \in Values /\ moved' \subseteq Packets /\ raced' \subseteq Workers
  BY Outside
<1>1. ASSUME NEW v \in Values, Edit(v) PROVE TypeOK'
  BY <1>0, <1>1 DEF Edit
<1>2. ASSUME NEW p \in Packets, NEW v \in Values, Preview(p, v) PROVE TypeOK'
  BY <1>2 DEF Preview
<1>3. ASSUME NEW p \in Packets, Submit(p) PROVE TypeOK'
  BY <1>3 DEF Submit, JobStates
<1>4. ASSUME NEW w \in Workers, NEW p \in Packets, Claim(w, p) PROVE TypeOK'
  BY <1>4 DEF Claim, Newest, Rest, NoFault, JobSteps
<1>5. ASSUME NEW w \in Workers, Ended(w) PROVE TypeOK'
  <2>1. PICK s \in JobStates \ {"none"} :
           Commit(w, s) /\ (s = "pending" => attempts[job[w]] + 1 < MaxAttempts)
    BY <1>5 DEF Ended
  <2>2. job[w] \in queued
    BY <1>5 DEF Ended, Working
  <2>3. attempts[job[w]] < MaxAttempts /\ MaxAttempts \in Nat
    BY <2>2, WriteBackAssumption DEF Trying
  <2>4. attempts' \in [Packets -> 0..MaxAttempts]
    BY <2>1, <2>2, <2>3 DEF Commit
  <2>5. state' \in [Packets -> JobStates]
    BY <2>1, <2>2 DEF Commit
  <2>6. queued' = {p \in Packets : state'[p] = "pending"}
    BY <2>1, <2>2 DEF Commit
  <2> QED
    BY <1>0, <1>5, <2>1, <2>4, <2>5, <2>6 DEF Ended, Commit
<1>6. ASSUME NEW w \in Workers, GoesOn(w) PROVE TypeOK'
  BY <1>0, <1>6 DEF GoesOn, Step
<1>7. ASSUME NEW w \in Workers, Crash(w) PROVE TypeOK'
  BY <1>7 DEF Crash, Rest
<1>8. ASSUME NEW w \in Workers, SweepBegin(w) PROVE TypeOK'
  BY <1>8 DEF SweepBegin, SweepSteps
<1>9. ASSUME NEW w \in Workers, SweepLook(w) PROVE TypeOK'
  <2>1. NoneOpenBut({}) \in BOOLEAN
    BY DEF NoneOpenBut
  <2>2. clear' \in [Workers -> BOOLEAN] /\ seen' \in [Workers -> Values \cup {None}]
    BY <1>9, <2>1 DEF SweepLook, Step
  <2>3. doing' \in [Workers -> {Idle} \cup JobSteps \cup SweepSteps]
    BY <1>9 DEF SweepLook, Step, SweepSteps
  <2> QED
    BY <1>0, <1>9, <2>2, <2>3 DEF SweepLook, Rest, Step
<1>10. ASSUME NEW w \in Workers, SweepOpens(w) PROVE TypeOK'
  BY <1>10 DEF SweepOpens, Rest, Swept
<1>11. ASSUME NEW w \in Workers, SweepLeaves(w) PROVE TypeOK'
  BY <1>11 DEF SweepLeaves, SweepSteps, Rest, NoneOpenBut
<1>12. ASSUME NEW w \in Workers, SweepFinish(w) PROVE TypeOK'
  BY <1>12 DEF SweepFinish, Rest, Swept
<1>13. CASE UNCHANGED vars
  BY <1>13 DEF vars
<1> QED
  BY <1>1, <1>2, <1>3, <1>4, <1>5, <1>6, <1>7, <1>8, <1>9, <1>10, <1>11, <1>12, <1>13, Trial
  DEF Next, JobStep, SweepStep

-----------------------------------------------------------------------------
(* The worker's hold of its job.                                           *)

LEMMA WorkingKept ==
    ASSUME TypeOK, Working, Looked, Trying, [Next]_vars
    PROVE  Working'
<1> USE DEF TypeOK, Working, ext, signed, jobs, drift, hands
<1>a. JobSteps \cap SweepSteps = {} /\ Idle \notin JobSteps \cup SweepSteps
  BY DEF JobSteps, SweepSteps, Idle
<1>b. ASSUME NEW w \in Workers, \A x \in Workers \ {w} : doing'[x] = doing[x] /\ job'[x] = job[x],
             doing'[w] \notin JobSteps, queued \subseteq queued'
      PROVE  Working'
  BY <1>b
<1>1. ASSUME NEW v \in Values, Edit(v) PROVE Working'
  BY <1>1 DEF Edit
<1>2. ASSUME NEW p \in Packets, NEW v \in Values, Preview(p, v) PROVE Working'
  BY <1>2 DEF Preview
<1>3. ASSUME NEW p \in Packets, Submit(p) PROVE Working'
  BY <1>3 DEF Submit
<1>4. ASSUME NEW w \in Workers, NEW p \in Packets, Claim(w, p) PROVE Working'
  BY <1>4 DEF Claim, Held
<1>5. ASSUME NEW w \in Workers, Ended(w) PROVE Working'
  <2>1. PICK s \in JobStates \ {"none"} : Commit(w, s)
    BY <1>5 DEF Ended
  <2>2. /\ doing'[w] = Idle
        /\ \A x \in Workers \ {w} : doing'[x] = doing[x] /\ job'[x] = job[x]
        /\ \A p \in Packets \ {job[w]} : p \in queued => p \in queued'
    BY <2>1 DEF Commit
  <2> QED
    BY <1>5, <1>a, <2>2 DEF Ended
<1>6. ASSUME NEW w \in Workers, GoesOn(w) PROVE Working'
  BY <1>6 DEF GoesOn, Step
<1>7. ASSUME NEW w \in Workers, Crash(w) PROVE Working'
  BY <1>7, <1>a, <1>b DEF Crash, Rest
<1>8. ASSUME NEW w \in Workers, SweepBegin(w) PROVE Working'
  BY <1>8, <1>a, <1>b DEF SweepBegin, SweepSteps
<1>9. ASSUME NEW w \in Workers, SweepLook(w) PROVE Working'
  BY <1>9, <1>a, <1>b DEF SweepLook, SweepSteps, Rest, Step
<1>10. ASSUME NEW w \in Workers, SweepOpens(w) PROVE Working'
  BY <1>10, <1>a, <1>b DEF SweepOpens, Rest, Swept
<1>11. ASSUME NEW w \in Workers, SweepLeaves(w) PROVE Working'
  BY <1>11, <1>a, <1>b DEF SweepLeaves, SweepSteps, Rest
<1>12. ASSUME NEW w \in Workers, SweepFinish(w) PROVE Working'
  BY <1>12, <1>a, <1>b DEF SweepFinish, Rest, Swept
<1>13. CASE UNCHANGED vars
  BY <1>13 DEF vars
<1> QED
  BY <1>1, <1>2, <1>3, <1>4, <1>5, <1>6, <1>7, <1>8, <1>9, <1>10, <1>11, <1>12, <1>13, Trial
  DEF Next, JobStep, SweepStep

LEMMA LookedKept ==
    ASSUME TypeOK, Working, Looked, Trying, [Next]_vars
    PROVE  Looked'
<1> USE DEF TypeOK, Looked, ext, signed, jobs, drift, hands
<1>a. JobSteps \cap SweepSteps = {} /\ Idle \notin JobSteps \cup SweepSteps
  BY DEF JobSteps, SweepSteps, Idle
<1>1. ASSUME NEW v \in Values, Edit(v) PROVE Looked'
  BY <1>1 DEF Edit
<1>2. ASSUME NEW p \in Packets, NEW v \in Values, Preview(p, v) PROVE Looked'
  BY <1>2 DEF Preview
<1>3. ASSUME NEW p \in Packets, Submit(p) PROVE Looked'
  BY <1>3 DEF Submit
<1>4. ASSUME NEW w \in Workers, NEW p \in Packets, Claim(w, p) PROVE Looked'
  <2>1. doing[w] = Idle /\ seen[w] = None /\ doing'[w] \notin SweepSteps /\ doing'[w] # "judge"
        /\ UNCHANGED <<seen, state, notice>>
    BY <1>4, <1>a DEF Claim, JobSteps, SweepSteps, Idle
  <2>2. \A x \in Workers \ {w} : doing'[x] = doing[x] /\ job'[x] = job[x]
    BY <1>4 DEF Claim
  <2> QED
    BY <2>1, <2>2
<1>5. ASSUME NEW w \in Workers, Ended(w) PROVE Looked'
  <2>1. PICK s \in JobStates \ {"none"} : Commit(w, s)
    BY <1>5 DEF Ended
  <2>2. state[job[w]] = "pending"
    BY <1>5 DEF Ended, Working
  <2>3. \A p \in Packets : state[p] = "verified" => state'[p] = "verified"
    BY <2>1, <2>2 DEF Commit
  <2>4. \A x \in Workers : doing'[x] \in SweepSteps => doing[x] \in SweepSteps /\ job'[x] = job[x]
    BY <1>a, <2>1 DEF Commit
  <2> QED
    BY <2>1, <2>3, <2>4 DEF Commit
<1>6. ASSUME NEW w \in Workers, GoesOn(w) PROVE Looked'
  <2>1. doing[w] \in JobSteps /\ doing'[w] \notin SweepSteps /\ seen[w] = None
    BY <1>6, <1>a DEF GoesOn, Step, JobSteps
  <2>2. UNCHANGED <<seen, state, notice, job>> /\ \A x \in Workers \ {w} : doing'[x] = doing[x]
    BY <1>6 DEF GoesOn, Step
  <2> QED
    BY <2>1, <2>2
<1>7. ASSUME NEW w \in Workers, Crash(w) PROVE Looked'
  BY <1>7, <1>a DEF Crash, Rest
<1>8. ASSUME NEW w \in Workers, SweepBegin(w) PROVE Looked'
  <2>1. PICK p \in Packets : Latest(p) /\ job' = [job EXCEPT ![w] = p]
    BY <1>8 DEF SweepBegin
  <2>2. state[p] = "verified" /\ job'[w] = p /\ seen[w] = None
    BY <1>8, <2>1 DEF Latest, SweepBegin, Idle
  <2>3. UNCHANGED <<seen, state, notice>>
        /\ \A x \in Workers \ {w} : doing'[x] = doing[x] /\ job'[x] = job[x]
    BY <1>8, <2>1 DEF SweepBegin
  <2> QED
    BY <2>2, <2>3
<1>9. ASSUME NEW w \in Workers, SweepLook(w) PROVE Looked'
  BY <1>9 DEF SweepLook, SweepSteps, Rest, Step
<1>10. ASSUME NEW w \in Workers, SweepOpens(w) PROVE Looked'
  BY <1>10, <1>a DEF SweepOpens, SweepSteps, Rest, Swept
<1>11. ASSUME NEW w \in Workers, SweepLeaves(w) PROVE Looked'
  BY <1>11 DEF SweepLeaves, SweepSteps, Rest
<1>12. ASSUME NEW w \in Workers, SweepFinish(w) PROVE Looked'
  BY <1>12, <1>a DEF SweepFinish, SweepSteps, Rest, Swept
<1>13. CASE UNCHANGED vars
  BY <1>13 DEF vars
<1> QED
  BY <1>1, <1>2, <1>3, <1>4, <1>5, <1>6, <1>7, <1>8, <1>9, <1>10, <1>11, <1>12, <1>13, Trial
  DEF Next, JobStep, SweepStep

LEMMA TryingKept ==
    ASSUME TypeOK, Working, Looked, Trying, [Next]_vars
    PROVE  Trying'
<1> USE DEF TypeOK, Trying, ext, signed, jobs, drift, hands
<1>1. ASSUME NEW p \in Packets, NEW v \in Values, Preview(p, v) PROVE Trying'
  BY <1>1 DEF Preview
<1>2. ASSUME NEW p \in Packets, Submit(p) PROVE Trying'
  BY <1>2, WriteBackAssumption DEF Submit
<1>3. ASSUME NEW w \in Workers, Ended(w) PROVE Trying'
  <2>1. PICK s \in JobStates \ {"none"} :
           Commit(w, s) /\ (s = "pending" => attempts[job[w]] + 1 < MaxAttempts)
    BY <1>3 DEF Ended
  <2>2. job[w] \in Packets /\ state[job[w]] = "pending"
    BY <1>3 DEF Ended, Working
  <2>3. /\ state'[job[w]] = s /\ attempts'[job[w]] = attempts[job[w]] + 1
        /\ \A p \in Packets \ {job[w]} : state'[p] = state[p] /\ attempts'[p] = attempts[p]
    BY <2>1, <2>2 DEF Commit
  <2>4. UNCHANGED <<before, after>>
    BY <1>3 DEF Ended
  <2> QED
    BY <2>1, <2>2, <2>3, <2>4
<1>4. ASSUME UNCHANGED <<state, attempts, before, after>> PROVE Trying'
  BY <1>4
<1> QED
  BY <1>1, <1>2, <1>3, <1>4, Trial
  DEF Next, JobStep, SweepStep, Edit, Claim, GoesOn, Step, Crash, Rest,
      SweepBegin, SweepLook, SweepOpens, SweepLeaves, SweepFinish, vars

-----------------------------------------------------------------------------
(* The field.                                                              *)

\* A worker's step leaves what the others do and have.
LEMMA PatchingKept ==
    ASSUME TypeOK, Working, Looked, Trying, Patching, [Next]_vars
    PROVE  Patching'
<1> USE DEF TypeOK, Patching, ext, signed, jobs, drift, hands
<1>a. "patch" \in JobSteps /\ "patch" \notin SweepSteps /\ Idle # "patch"
  BY DEF JobSteps, SweepSteps, Idle
<1>b. \A x \in Workers : doing[x] = "patch" => job[x] \in Packets /\ state[job[x]] = "pending"
                                               /\ before[job[x]] # None
  BY <1>a DEF Working, Trying
<1>1. ASSUME UNCHANGED <<field, raced, before, after>>,
             \A x \in Workers : doing'[x] = "patch" => doing[x] = "patch" /\ job'[x] = job[x]
      PROVE  Patching'
  BY <1>1
<1>2. ASSUME NEW v \in Values, Edit(v) PROVE Patching'
  <2>1. \A x \in Workers : doing[x] = "patch" => x \in raced'
    BY <1>2, <1>b, WriteBackAssumption DEF Edit, SetField
  <2> QED
    BY <1>2, <2>1 DEF Edit
<1>3. ASSUME NEW p \in Packets, NEW v \in Values, Preview(p, v) PROVE Patching'
  <2>1. \A q \in Packets : before[q] # None => before'[q] = before[q] /\ after'[q] = after[q]
    BY <1>3 DEF Preview
  <2> QED
    BY <1>3, <1>b, <2>1 DEF Preview
<1>4. ASSUME NEW w \in Workers, ReadField(w) PROVE Patching'
  <2>1. /\ \A x \in Workers \ {w} : doing'[x] = doing[x] /\ job'[x] = job[x]
                                    /\ (x \in raced => x \in raced')
        /\ doing'[w] = "patch" => job'[w] = job[w] /\ field = before[job[w]]
        /\ UNCHANGED <<field, before, after>>
    BY <1>4, <1>a DEF ReadField, Step, Commit, Rest
  <2> QED
    BY <2>1
<1>5. ASSUME NEW w \in Workers, Patch(w) PROVE Patching'
  <2>1. \A x \in Workers \ {w} : doing'[x] = doing[x] /\ job'[x] = job[x]
    BY <1>5 DEF Patch, Step, Retry, Commit
  <2>2. doing'[w] # "patch"
    BY <1>5, <1>a DEF Patch, Step, Retry, Commit
  <2>3. \A x \in Workers \ {w} : doing[x] = "patch" => x \in raced'
    BY <1>5, <1>a DEF Patch, SetField, Working
  <2> QED
    BY <2>1, <2>2, <2>3
<1>6. ASSUME NEW w \in Workers, ReadBack(w) \/ CallFails(w) \/ Refused(w) PROVE Patching'
  <2>1. UNCHANGED <<field, raced, before, after>>
    BY <1>6 DEF ReadBack, CallFails, Refused, Rest
  <2>2. \A x \in Workers : doing'[x] = "patch" => doing[x] = "patch" /\ job'[x] = job[x]
    BY <1>6, <1>a DEF ReadBack, CallFails, Refused, Retry, Commit
  <2> QED
    BY <1>1, <2>1, <2>2
<1>7. ASSUME NEW p \in Packets, Submit(p) PROVE Patching'
  BY <1>1, <1>7 DEF Submit
<1>8. ASSUME NEW w \in Workers, NEW p \in Packets, Claim(w, p) PROVE Patching'
  <2>1. \A x \in Workers : doing'[x] = "patch" => doing[x] = "patch" /\ job'[x] = job[x]
    BY <1>8 DEF Claim
  <2> QED
    BY <1>1, <1>8, <2>1 DEF Claim, Rest
<1>9. ASSUME NEW w \in Workers, Crash(w) \/ SweepBegin(w) \/ SweepStep(w) PROVE Patching'
  <2>1. \A x \in Workers : doing'[x] = "patch" => doing[x] = "patch" /\ job'[x] = job[x]
    BY <1>9, <1>a DEF Crash, SweepBegin, SweepStep, SweepLook, SweepOpens, SweepLeaves, SweepFinish,
                      Swept, Step
  <2>2. UNCHANGED <<field, raced, before, after>>
    BY <1>9 DEF Crash, SweepBegin, SweepStep, SweepLook, SweepOpens, SweepLeaves, SweepFinish, Rest
  <2> QED
    BY <1>1, <2>1, <2>2
<1>10. CASE UNCHANGED vars
  BY <1>1, <1>10 DEF vars
<1> QED
  BY <1>2, <1>3, <1>4, <1>5, <1>6, <1>7, <1>8, <1>9, <1>10 DEF Next, JobStep

\* What the field's change of hands does to a verified packet.
LEMMA ExplainedKept ==
    ASSUME TypeOK, Working, Looked, Trying, Explained, NoticeIsExplained, [Next]_vars
    PROVE  Explained' /\ NoticeIsExplained'
<1> USE DEF TypeOK, Explained, NoticeIsExplained, ext, signed, jobs, drift, hands
<1>a. /\ JobSteps \cap SweepSteps = {} /\ Idle \notin SweepSteps /\ "judge" \in SweepSteps
      /\ \A s \in {"look", "finish", "read", "patch", "back", Idle} : s # "judge"
  BY DEF JobSteps, SweepSteps, Idle
<1>b. \A x \in Workers : doing[x] = "judge" => job[x] \in Packets /\ state[job[x]] = "verified"
  BY <1>a DEF Looked
<1>1. ASSUME UNCHANGED <<field, after>>, moved \subseteq moved',
             \A p \in Packets : state'[p] = "verified" => state[p] = "verified",
             \A x \in Workers : doing'[x] = "judge" =>
                 doing[x] = "judge" /\ job'[x] = job[x] /\ seen'[x] = seen[x],
             \A p \in Packets : notice'[p] = "open" => notice[p] = "open"
      PROVE  Explained' /\ NoticeIsExplained'
  BY <1>1
<1>2. ASSUME NEW v \in Values, Edit(v) PROVE Explained' /\ NoticeIsExplained'
  <2>1. moved \subseteq moved' /\ \A p \in Packets : before[p] # None => p \in moved'
    BY <1>2, WriteBackAssumption DEF Edit, SetField
  <2> QED
    BY <1>2, <2>1 DEF Edit, Trying
<1>3. ASSUME NEW p \in Packets, NEW v \in Values, Preview(p, v) PROVE Explained' /\ NoticeIsExplained'
  <2>1. \A q \in Packets : state[q] # "none" => after'[q] = after[q]
    BY <1>3 DEF Preview, Trying
  <2> QED
    BY <1>3, <1>b, <2>1 DEF Preview
<1>4. ASSUME NEW p \in Packets, Submit(p) PROVE Explained' /\ NoticeIsExplained'
  BY <1>1, <1>4 DEF Submit
<1>5. ASSUME NEW w \in Workers, NEW p \in Packets, Claim(w, p) PROVE Explained' /\ NoticeIsExplained'
  <2>1. \A x \in Workers : doing'[x] = "judge" =>
            doing[x] = "judge" /\ job'[x] = job[x] /\ seen'[x] = seen[x]
    BY <1>5 DEF Claim
  <2> QED
    BY <1>1, <1>5, <2>1 DEF Claim, Rest
<1>6. ASSUME NEW w \in Workers, Refused(w) \/ ReadField(w) \/ CallFails(w)
      PROVE  Explained' /\ NoticeIsExplained'
  <2>1. UNCHANGED <<field, after, moved, notice>>
    BY <1>6 DEF Refused, ReadField, CallFails, Retry, Commit, Step, Rest
  <2>2. \A p \in Packets : state'[p] = "verified" => state[p] = "verified"
    BY <1>6 DEF Refused, ReadField, CallFails, Retry, Commit, Step
  <2>3. \A x \in Workers : doing'[x] = "judge" =>
            doing[x] = "judge" /\ job'[x] = job[x] /\ seen'[x] = seen[x]
    BY <1>6, <1>a DEF Refused, ReadField, CallFails, Retry, Commit, Step
  <2> QED
    BY <1>1, <2>1, <2>2, <2>3
<1>7. ASSUME NEW w \in Workers, Patch(w) PROVE Explained' /\ NoticeIsExplained'
  <2>0. job[w] \in Packets /\ state[job[w]] = "pending"
    BY <1>7 DEF Patch, Working, JobSteps
  <2>1. moved \subseteq moved' /\ \A p \in Packets \ {job[w]} : before[p] # None => p \in moved'
    BY <1>7 DEF Patch, SetField
  <2>2. \A p \in Packets : state'[p] = "verified" => state[p] = "verified" /\ p # job[w]
    BY <1>7, <2>0 DEF Patch, Retry, Commit, Step
  <2>3. \A x \in Workers : doing'[x] = "judge" =>
            doing[x] = "judge" /\ job'[x] = job[x] /\ seen'[x] = seen[x]
    BY <1>7, <1>a DEF Patch, Retry, Commit, Step
  <2>4. UNCHANGED <<after, notice>>
    BY <1>7 DEF Patch, Retry, Commit, Step, Rest
  <2> QED
    BY <2>1, <2>2, <2>3, <2>4 DEF Trying
<1>8. ASSUME NEW w \in Workers, ReadBack(w) PROVE Explained' /\ NoticeIsExplained'
  <2>0. job[w] \in Packets /\ state[job[w]] = "pending"
    BY <1>8 DEF ReadBack, Working, JobSteps
  <2>1. \A x \in Workers : doing'[x] = "judge" =>
            doing[x] = "judge" /\ job'[x] = job[x] /\ seen'[x] = seen[x]
    BY <1>8, <1>a DEF ReadBack, Retry, Commit
  <2>2. UNCHANGED <<field, after, notice>>
    BY <1>8 DEF ReadBack, Retry, Commit, Rest
  <2>3. \A p \in Packets \ {job[w]} : state'[p] = state[p] /\ (p \in moved => p \in moved')
    BY <1>8, <2>0 DEF ReadBack, Retry, Commit
  <2>4. state'[job[w]] = "verified" => field = after[job[w]]
    BY <1>8, <2>0 DEF ReadBack, Retry, Commit
  <2>5. \A p \in Packets : notice[p] = "open" => p # job[w]
    BY <2>0 DEF Looked
  <2>6. \A x \in Workers : doing[x] = "judge" => job[x] # job[w]
    BY <1>b, <2>0
  <2> QED
    BY <1>b, <2>1, <2>2, <2>3, <2>4, <2>5, <2>6
<1>9. ASSUME NEW w \in Workers, Crash(w) \/ SweepBegin(w) \/ SweepLeaves(w) \/ SweepFinish(w)
      PROVE  Explained' /\ NoticeIsExplained'
  <2>1. UNCHANGED <<field, after, moved, state>>
    BY <1>9 DEF Crash, SweepBegin, SweepLeaves, SweepFinish, Rest
  <2>2. \A x \in Workers : doing'[x] = "judge" =>
            doing[x] = "judge" /\ job'[x] = job[x] /\ seen'[x] = seen[x]
    BY <1>9, <1>a DEF Crash, SweepBegin, SweepLeaves, SweepFinish, Swept
  <2>3. \A p \in Packets : notice'[p] = "open" => notice[p] = "open"
    BY <1>9 DEF Crash, SweepBegin, SweepLeaves, SweepFinish
  <2> QED
    BY <1>1, <2>1, <2>2, <2>3
<1>10. ASSUME NEW w \in Workers, SweepLook(w) PROVE Explained' /\ NoticeIsExplained'
  <2>1. UNCHANGED <<field, after, moved, state, notice, job>>
    BY <1>10 DEF SweepLook, Step, Rest
  <2>2. job[w] \in Packets /\ state[job[w]] = "verified"
    BY <1>10 DEF SweepLook, Looked, SweepSteps
  <2>3. /\ \A x \in Workers \ {w} : doing'[x] = doing[x] /\ seen'[x] = seen[x]
        /\ doing'[w] = "judge" => seen'[w] = field
    BY <1>10, <1>a DEF SweepLook, Step
  <2> QED
    BY <2>1, <2>2, <2>3
<1>11. ASSUME NEW w \in Workers, SweepOpens(w) PROVE Explained' /\ NoticeIsExplained'
  <2>1. UNCHANGED <<field, after, moved, state>>
    BY <1>11 DEF SweepOpens, Rest
  <2>2. job[w] \in moved
    BY <1>11 DEF SweepOpens, Opens
  <2>3. \A x \in Workers : doing'[x] = "judge" =>
            doing[x] = "judge" /\ job'[x] = job[x] /\ seen'[x] = seen[x]
    BY <1>11, <1>a DEF SweepOpens, Swept
  <2>4. \A p \in Packets : notice'[p] = "open" => notice[p] = "open" \/ p = job[w]
    BY <1>11 DEF SweepOpens
  <2> QED
    BY <2>1, <2>2, <2>3, <2>4
<1>12. CASE UNCHANGED vars
  BY <1>12 DEF vars
<1> QED
  BY <1>2, <1>3, <1>4, <1>5, <1>6, <1>7, <1>8, <1>9, <1>10, <1>11, <1>12 DEF Next, JobStep, SweepStep

-----------------------------------------------------------------------------
(* The notices and the record's mark.                                      *)

\* While sweeps do not overlap, the one that is on is the only one to touch
\* the notices, but for a submission that answers them all.
LEMMA MarkKept ==
    ASSUME TypeOK, Working, Looked, Trying, Alone, MarkMatchesNotices, [Next]_vars
    PROVE  Alone' /\ MarkMatchesNotices'
<1> USE DEF TypeOK, Alone, MarkMatchesNotices, ext, signed, jobs, drift, hands
<1>a. /\ JobSteps \cap SweepSteps = {} /\ Idle \notin SweepSteps
      /\ SweepSteps = {"look", "judge", "finish"} /\ Idle # "finish" /\ "finish" \notin JobSteps
  BY DEF JobSteps, SweepSteps, Idle
<1>b. \A w \in Workers : Answers(w) = {p \in {job[w]} : seen[w] = after[p]}
  BY DEF Answers
<1>1. ASSUME UNCHANGED <<overlapped, notice, mark, after>>,
             \A x \in Workers : doing'[x] \in SweepSteps => doing[x] \in SweepSteps,
             \A x \in Workers : doing'[x] = "finish" =>
                 /\ doing[x] = "finish"
                 /\ clear'[x] = clear[x] /\ job'[x] = job[x] /\ seen'[x] = seen[x]
      PROVE  Alone' /\ MarkMatchesNotices'
  BY <1>1 DEF Sweeping, Answers, NoneOpenBut
<1>2. ASSUME NEW v \in Values, Edit(v) PROVE Alone' /\ MarkMatchesNotices'
  BY <1>1, <1>2 DEF Edit
<1>3. ASSUME NEW p \in Packets, NEW v \in Values, Preview(p, v) PROVE Alone' /\ MarkMatchesNotices'
  <2>1. \A q \in Packets : state[q] # "none" => after'[q] = after[q]
    BY <1>3 DEF Preview, Trying
  <2>2. UNCHANGED <<notice, mark, overlapped, doing, job, seen, clear>>
    BY <1>3 DEF Preview
  <2>3. \A x \in Workers : doing[x] = "finish" => Answers(x)' = Answers(x)
    BY <1>a, <2>1, <2>2 DEF Answers, Looked
  <2>4. \A x \in Workers : doing[x] = "finish" =>
            (NoneOpenBut(Answers(x))' <=> NoneOpenBut(Answers(x)))
    BY <2>2, <2>3 DEF NoneOpenBut
  <2> QED
    BY <2>2, <2>4 DEF Sweeping
<1>4. ASSUME NEW p \in Packets, Submit(p) PROVE Alone' /\ MarkMatchesNotices'
  <2>1. mark' = FALSE /\ \A q \in Packets : notice'[q] # "open"
    BY <1>4 DEF Submit
  <2>2. \A S : NoneOpenBut(S)'
    BY <2>1 DEF NoneOpenBut
  <2>3. UNCHANGED <<overlapped, doing, clear>>
    BY <1>4 DEF Submit
  <2> QED
    BY <2>1, <2>2, <2>3 DEF Sweeping
<1>5. ASSUME NEW w \in Workers, NEW p \in Packets, Claim(w, p) PROVE Alone' /\ MarkMatchesNotices'
  <2>1. /\ UNCHANGED <<overlapped, notice, mark, after, clear, seen>>
        /\ \A x \in Workers \ {w} : doing'[x] = doing[x] /\ job'[x] = job[x]
        /\ doing'[w] \notin SweepSteps
    BY <1>5, <1>a DEF Claim, Rest, JobSteps
  <2> QED
    BY <1>1, <1>a, <2>1
<1>6. ASSUME NEW w \in Workers, Ended(w) \/ GoesOn(w) PROVE Alone' /\ MarkMatchesNotices'
  <2>1. /\ UNCHANGED <<overlapped, notice, mark, after, clear>>
        /\ \A x \in Workers \ {w} : doing'[x] = doing[x] /\ job'[x] = job[x] /\ seen'[x] = seen[x]
        /\ doing'[w] \notin SweepSteps
    BY <1>6, <1>a DEF Ended, GoesOn, Commit, Step
  <2> QED
    BY <1>1, <1>a, <2>1
<1>7. ASSUME NEW w \in Workers, Crash(w) PROVE Alone' /\ MarkMatchesNotices'
  <2>1. /\ UNCHANGED <<overlapped, notice, mark, after>>
        /\ \A x \in Workers \ {w} : /\ doing'[x] = doing[x] /\ job'[x] = job[x] /\ seen'[x] = seen[x]
                                    /\ clear'[x] = clear[x]
        /\ doing'[w] \notin SweepSteps
    BY <1>7, <1>a DEF Crash, Rest
  <2> QED
    BY <1>1, <1>a, <2>1
<1>8. ASSUME NEW w \in Workers, SweepBegin(w) PROVE Alone' /\ MarkMatchesNotices'
  <2>1. /\ UNCHANGED <<notice, mark, after, seen, clear>>
        /\ \A x \in Workers \ {w} : doing'[x] = doing[x] /\ job'[x] = job[x]
        /\ doing'[w] = "look"
    BY <1>8 DEF SweepBegin
  <2>2. ~overlapped' => ~overlapped /\ Sweeping = {}
    BY <1>8 DEF SweepBegin
  <2>3. ~overlapped' => \A x \in Sweeping' : x = w
    BY <2>1, <2>2 DEF Sweeping
  <2>4. ~overlapped' => \A x \in Workers : doing'[x] # "finish"
    BY <1>a, <2>1, <2>2 DEF Sweeping
  <2> QED
    BY <2>1, <2>2, <2>3, <2>4
<1> DEFINE Fits(w) == \/ clear[w] /\ NoneOpenBut(Answers(w))
                      \/ ~clear[w] /\ ~NoneOpenBut(Answers(w))
                      \/ ~clear[w] /\ ~mark
<1>9. ASSUME NEW w \in Workers, doing[w] \in SweepSteps, UNCHANGED <<overlapped, notice, mark>>,
             \A x \in Workers \ {w} : doing'[x] = doing[x],
             doing'[w] = "finish" => Fits(w)'
      PROVE  Alone' /\ MarkMatchesNotices'
  <2>1. Sweeping' \subseteq Sweeping /\ w \in Sweeping
    BY <1>9 DEF Sweeping
  <2>2. ~overlapped => \A x \in Workers \ {w} : doing'[x] # "finish"
    BY <1>9, <1>a, <2>1 DEF Sweeping
  <2> QED
    BY <1>9, <2>1, <2>2
<1>10. ASSUME NEW w \in Workers, SweepLook(w) PROVE Alone' /\ MarkMatchesNotices'
  <2>1. CASE doing' = [doing EXCEPT ![w] = "judge"]
    BY <1>10, <1>9, <1>a, <2>1 DEF SweepLook, Step, Rest
  <2>2. CASE doing' = [doing EXCEPT ![w] = "finish"]
    <3>1. UNCHANGED <<overlapped, notice, mark, job, after>> /\ doing[w] = "look"
      BY <1>10 DEF SweepLook, Rest, Step
    <3>2. seen'[w] = None /\ clear'[w] = NoneOpenBut({})
      BY <1>10, <2>2 DEF SweepLook, Step, Looked
    <3>3. after[job[w]] # None
      BY <1>a, <3>1, WriteBackAssumption DEF Looked, Trying
    <3>4. Answers(w)' = {}
      BY <3>1, <3>2, <3>3 DEF Answers
    <3>5. NoneOpenBut(Answers(w))' <=> NoneOpenBut({})
      BY <3>1, <3>4 DEF NoneOpenBut
    <3> QED
      BY <1>9, <1>a, <2>2, <3>1, <3>2, <3>5
  <2> QED
    BY <1>10, <2>1, <2>2 DEF SweepLook, Step
<1>11. ASSUME NEW w \in Workers, SweepOpens(w) PROVE Alone' /\ MarkMatchesNotices'
  <2>0. job[w] \in Packets /\ doing[w] \in SweepSteps
    BY <1>11, <1>a DEF SweepOpens, Looked
  <2>1. mark' /\ notice'[job[w]] = "open" /\ UNCHANGED overlapped
    BY <1>11, <2>0 DEF SweepOpens, Rest
  <2>2. w \in Sweeping /\ Sweeping' \subseteq Sweeping \ {w}
    BY <1>11, <1>a, <2>0 DEF SweepOpens, Swept, Sweeping
  <2>3. ~overlapped => Sweeping' = {}
    BY <2>2
  <2> QED
    BY <1>a, <2>0, <2>1, <2>3 DEF Sweeping
<1>12. ASSUME NEW w \in Workers, SweepLeaves(w) PROVE Alone' /\ MarkMatchesNotices'
  <2>1. clear'[w] = NoneOpenBut(Answers(w))
    BY <1>12 DEF SweepLeaves, Answers
  <2>2. Answers(w)' = Answers(w) /\ UNCHANGED <<overlapped, notice, mark>>
    BY <1>12 DEF SweepLeaves, Rest, Answers
  <2>3. NoneOpenBut(Answers(w))' <=> NoneOpenBut(Answers(w))
    BY <2>2 DEF NoneOpenBut
  <2> QED
    BY <1>9, <1>12, <1>a, <2>1, <2>2, <2>3 DEF SweepLeaves
<1>13. ASSUME NEW w \in Workers, SweepFinish(w) PROVE Alone' /\ MarkMatchesNotices'
  <2>0. job[w] \in Packets /\ doing[w] = "finish" /\ UNCHANGED overlapped
    BY <1>13, <1>a DEF SweepFinish, Looked, Rest
  <2>1. w \in Sweeping /\ Sweeping' \subseteq Sweeping \ {w}
    BY <1>13, <1>a, <2>0 DEF SweepFinish, Swept, Sweeping
  <2>2. ~overlapped => Sweeping' = {}
    BY <2>1
  <2>3. \A p \in Packets : notice'[p] = "open" <=> notice[p] = "open" /\ p \notin Answers(w)
    BY <1>13, <2>0 DEF SweepFinish, Answers
  <2>4. (\E p \in Packets : notice'[p] = "open") <=> ~NoneOpenBut(Answers(w))
    BY <2>3 DEF NoneOpenBut
  <2>5. mark' = (mark /\ ~clear[w])
    BY <1>13 DEF SweepFinish
  <2>6. ~NoneOpenBut(Answers(w)) => \E p \in Packets : notice[p] = "open"
    BY DEF NoneOpenBut
  <2> QED
    BY <1>a, <2>0, <2>2, <2>4, <2>5, <2>6 DEF Sweeping
<1>14. CASE UNCHANGED vars
  BY <1>1, <1>14 DEF vars
<1> QED
  BY <1>2, <1>3, <1>4, <1>5, <1>6, <1>7, <1>8, <1>10, <1>11, <1>12, <1>13, <1>14, Trial
  DEF Next, JobStep, SweepStep

-----------------------------------------------------------------------------
(* The theorems.                                                           *)

LEMMA Starts == Init => IInv
<1> SUFFICES ASSUME Init PROVE IInv
  OBVIOUS
<1> USE DEF Init
<1>1. TypeOK
  <2>1. before \in [Packets -> Values \cup {None}] /\ after \in [Packets -> Values \cup {None}]
    OBVIOUS
  <2>2. attempts \in [Packets -> 0..MaxAttempts] /\ state \in [Packets -> JobStates]
    BY WriteBackAssumption DEF JobStates
  <2>3. queued = {p \in Packets : state[p] = "pending"}
    OBVIOUS
  <2>4. /\ doing \in [Workers -> {Idle} \cup JobSteps \cup SweepSteps]
        /\ job \in [Workers -> Packets \cup {None}]
        /\ seen \in [Workers -> Values \cup {None}]
        /\ clear \in [Workers -> BOOLEAN]
    OBVIOUS
  <2> QED
    BY <2>1, <2>2, <2>3, <2>4 DEF TypeOK
<1>2. Idle \notin JobSteps \cup SweepSteps /\ Idle # "patch" /\ Idle # "judge" /\ Idle # "finish"
  BY DEF JobSteps, SweepSteps, Idle
<1>3. Working /\ Looked /\ Trying /\ Patching
  BY <1>2 DEF Working, Looked, Trying, Patching
<1>4. Explained /\ NoticeIsExplained
  BY <1>2 DEF Explained, NoticeIsExplained
<1>5. Alone /\ MarkMatchesNotices
  BY <1>2 DEF Alone, MarkMatchesNotices, Sweeping
<1> QED
  BY <1>1, <1>3, <1>4, <1>5 DEF IInv

LEMMA Preserved == IInv /\ [Next]_vars => IInv'
BY Types, WorkingKept, LookedKept, TryingKept, PatchingKept, ExplainedKept, MarkKept DEF IInv

(* The inductive invariant, whatever fails and whoever edits the field.    *)
THEOREM Invariance == Spec => []IInv
BY Starts, Preserved, PTL DEF Spec

(* Type correctness, attempts within MAX_ATTEMPTS, and a queue row for     *)
(* exactly the pending jobs (run_one across its ends).                     *)
THEOREM TypeCorrect == Spec => []TypeOK
<1>1. IInv => TypeOK
  BY DEF IInv
<1> QED
  BY <1>1, Invariance, PTL

(* An open notice is of a field that another hand changed after its value  *)
(* was verified (drift_sweep).                                             *)
THEOREM NoticeIsExplainedHolds == Spec => []NoticeIsExplained
<1>1. IInv => NoticeIsExplained
  BY DEF IInv
<1> QED
  BY <1>1, Invariance, PTL

(* The record's mark says whether a notice is open, as long as no two      *)
(* sweeps overlap (drift_sweep, submit_packet).                            *)
THEOREM MarkMatchesNoticesHolds == Spec => []MarkMatchesNotices
<1>1. IInv => MarkMatchesNotices
  BY DEF IInv
<1> QED
  BY <1>1, Invariance, PTL

(* What a PATCH replaces is the previewed value, or came between the read  *)
(* and the PATCH of the worker (connectors/hubspot.py write).              *)
THEOREM OverwriteIsSignedHolds == Spec => OverwriteIsSigned
<1>1. IInv /\ [Next]_vars =>
        [\A w \in Workers :
            Patch(w) => \/ field = before[job[w]] \/ field = after[job[w]]
                        \/ w \in raced]_vars
  BY DEF IInv, Patching, Patch
<1> QED
  BY <1>1, Invariance, PTL DEF Spec, OverwriteIsSigned

-----------------------------------------------------------------------------
(* Refinement.                                                             *)

\* Only w acts.
Only(w) ==
    /\ \A x \in Workers \ {w} : doing'[x] = doing[x] /\ job'[x] = job[x] /\ seen'[x] = seen[x]
    /\ UNCHANGED after

Clearing == {"patch", "judge", "finish"}

\* A worker that takes no part in a write or a verdict, before or after its step.
LEMMA Aside ==
    ASSUME NEW w \in Workers, Only(w), doing[w] \notin Clearing, doing'[w] \notin Clearing
    PROVE  Armed' = Armed /\ Strayed' = Strayed /\ Restored' = Restored
BY DEF Only, Clearing, Armed, Strayed, Restored

\* A step that leaves it: its job may write no more, its finding is forgotten.
LEMMA Leaving ==
    ASSUME NEW w \in Workers, Only(w), doing'[w] \notin Clearing
    PROVE  Armed' \subseteq Armed /\ Strayed' \subseteq Strayed /\ Restored' \subseteq Restored
BY DEF Only, Clearing, Armed, Strayed, Restored

\* A job that leaves its step takes its own leave to write along, and no other's.
LEMMA Disarmed ==
    ASSUME IInv, NEW w \in Workers, Only(w), doing[w] \in JobSteps, doing'[w] \notin Clearing
    PROVE  /\ job[w] \in Packets
           /\ Armed' = Armed \ {job[w]} /\ Strayed' = Strayed /\ Restored' = Restored
<1>1. job[w] \in Packets
  BY DEF IInv, TypeOK, Working
<1>2. \A x \in Workers \ {w} : doing[x] = "patch" => job[x] # job[w]
  BY DEF IInv, Working, JobSteps
<1>3. Armed' = Armed \ {job[w]}
  BY <1>2 DEF Only, Clearing, Armed
<1>4. doing[w] \notin {"judge", "finish"}
  BY DEF JobSteps
<1> QED
  BY <1>1, <1>3, <1>4 DEF Only, Clearing, Strayed, Restored

LEMMA CommitsAlone ==
    ASSUME TypeOK, NEW w \in Workers, NEW s, Commit(w, s), UNCHANGED after
    PROVE  Only(w) /\ doing'[w] \notin Clearing
BY DEF TypeOK, Commit, Only, Clearing, Idle

\* A job that ends has an outcome, or is tried again.
LEMMA EndStep ==
    ASSUME IInv, NEW w \in Workers, doing[w] \in JobSteps, NEW s, Commit(w, s), Rest,
           UNCHANGED field,
           \/ s \in {"failed", "pending"}
           \/ s = "verified" /\ field = after[job[w]]
           \/ s = "conflict" /\ field \notin {before[job[w]], after[job[w]]}
    PROVE  [Ledger!SignedNext]_Ledger!signedVars
<1> DEFINE p == job[w]
<1>1. Only(w) /\ doing'[w] \notin Clearing
  BY CommitsAlone DEF IInv, Rest, signed
<1>2. p \in Packets /\ Armed' = Armed \ {p} /\ Strayed' = Strayed /\ Restored' = Restored
  BY <1>1, Disarmed
<1>3. /\ state[p] = "pending" /\ state' = [state EXCEPT ![p] = s]
      /\ UNCHANGED <<field, before, after, notice>>
  BY DEF IInv, TypeOK, Working, Commit, Rest, signed, drift
<1>4. CASE s = "pending"
  <2>1. state' = state
    BY <1>2, <1>3, <1>4 DEF IInv, TypeOK
  <2>2. Ledger!Forget
    BY <1>2, <1>3, <2>1 DEF Ledger!Forget, Ledger!diffs
  <2> QED
    BY <2>2 DEF Ledger!SignedNext
<1>5. CASE s # "pending"
  <2>1. Ledger!Settle(p, s)
    BY <1>2, <1>3, <1>5 DEF Ledger!Settle, Ledger!diffs, Ledger!looks
  <2> QED
    BY <1>2, <1>5, <2>1 DEF Ledger!SignedNext
<1> QED
  BY <1>4, <1>5

\* A PATCH, after which the job goes on, is tried again or has failed.
LEMMA PatchStep ==
    ASSUME IInv, NEW w \in Workers, Patch(w)
    PROVE  [Ledger!SignedNext]_Ledger!signedVars
<1> DEFINE p == job[w]
<1>1. Only(w) /\ doing'[w] \notin Clearing
  <2>1. ASSUME NEW s, Commit(w, s) PROVE Only(w) /\ doing'[w] \notin Clearing
    BY <2>1, CommitsAlone DEF IInv, Patch, Rest, signed
  <2>2. CASE Step(w, "back") /\ UNCHANGED seen
    BY <2>2 DEF IInv, TypeOK, Patch, Step, Only, Clearing, Rest, signed
  <2> QED
    BY <2>1, <2>2 DEF Patch, Retry
<1>2. p \in Packets /\ Armed' = Armed \ {p} /\ Strayed' = Strayed /\ Restored' = Restored
  BY <1>1, Disarmed DEF Patch, JobSteps
<1>3. p \in Armed /\ state[p] = "pending"
  BY <1>2 DEF IInv, TypeOK, Working, Patch, JobSteps, Armed
<1>4. field' = after[p] /\ UNCHANGED <<before, after, notice>>
  BY DEF Patch, SetField, Rest, signed, drift, Step, Retry, Commit
<1>5. state' \in {state, [state EXCEPT ![p] = "failed"]}
  <2>1. CASE Step(w, "back")
    BY <2>1 DEF Step, jobs
  <2>2. CASE Retry(w)
    BY <1>2, <1>3, <2>2 DEF Retry, Commit, IInv, TypeOK
  <2> QED
    BY <2>1, <2>2 DEF Patch
<1>6. Ledger!Write(p)
  BY <1>2, <1>3, <1>4, <1>5 DEF Ledger!Write, Ledger!diffs, Ledger!looks
<1> QED
  BY <1>2, <1>6 DEF Ledger!SignedNext

LEMMA SignedStep ==
    ASSUME IInv, [Next]_vars
    PROVE  [Ledger!SignedNext]_Ledger!signedVars
<1> DEFINE Goal == [Ledger!SignedNext]_Ledger!signedVars
<1> DEFINE SameHands == UNCHANGED <<doing, job, seen, after>>
<1>a. TypeOK /\ Working /\ Looked /\ Trying
  BY DEF IInv
<1>b. SameHands => Armed' = Armed /\ Strayed' = Strayed /\ Restored' = Restored
  BY DEF Armed, Strayed, Restored
<1>c. ASSUME Armed' \subseteq Armed, Strayed' \subseteq Strayed, Restored' \subseteq Restored,
             UNCHANGED <<field, before, after, state, notice>>
      PROVE  Goal
  BY <1>c DEF Ledger!Forget, Ledger!diffs, Ledger!SignedNext
<1>1. ASSUME NEW v \in Values, Edit(v) PROVE Goal
  BY <1>b, <1>1 DEF Edit, SetField, signed, jobs, drift, hands,
     Ledger!OthersWrite, Ledger!diffs, Ledger!looks, Ledger!SignedNext
<1>2. ASSUME NEW p \in Packets, NEW v \in Values, Preview(p, v) PROVE Goal
  <2>1. /\ UNCHANGED <<doing, job, seen>> /\ before[p] = None
        /\ \A q \in Packets \ {p} : after'[q] = after[q]
    BY <1>a, <1>2 DEF Preview, hands, TypeOK
  <2>2. \A w \in Workers : job[w] = p => doing[w] \notin SweepSteps
    BY <1>a, <2>1 DEF Looked, Trying
  <2>3. Armed' = Armed /\ Strayed' = Strayed /\ Restored' = Restored
    BY <2>1, <2>2 DEF Armed, Strayed, Restored, SweepSteps
  <2>4. Ledger!Sign(p, v)
    BY <1>2, <2>3 DEF Preview, ext, jobs, drift, Ledger!Sign, Ledger!looks
  <2> QED
    BY <2>4 DEF Ledger!SignedNext
<1>3. ASSUME NEW p \in Packets, Submit(p) PROVE Goal
  <2>1. Ledger!Record(p)
    BY <1>b, <1>3 DEF Submit, ext, signed, hands, Ledger!Record, Ledger!diffs, Ledger!looks
  <2> QED
    BY <2>1 DEF Ledger!SignedNext
<1>4. ASSUME NEW w \in Workers, NEW p \in Packets, Claim(w, p) PROVE Goal
  <2>1. Only(w) /\ doing[w] \notin Clearing /\ doing'[w] \notin Clearing
    BY <1>a, <1>4 DEF Claim, Rest, signed, Only, Clearing, Idle, TypeOK
  <2> QED
    BY <1>c, <1>4, <2>1, Aside DEF Claim, Rest, ext, signed, jobs, drift
<1>5. ASSUME NEW w \in Workers, Refused(w) PROVE Goal
  BY <1>5, EndStep DEF Refused, ext
<1>6. ASSUME NEW w \in Workers, CallFails(w) PROVE Goal
  <2>1. PICK s \in {"failed", "pending"} : Commit(w, s)
    BY <1>6 DEF CallFails, Retry
  <2> QED
    BY <1>6, <2>1, EndStep DEF CallFails, ext
<1>7. ASSUME NEW w \in Workers, ReadField(w) PROVE Goal
  <2> DEFINE p == job[w]
  <2>1. doing[w] = "read" /\ doing[w] \in JobSteps /\ p \in Packets /\ state[p] = "pending"
    BY <1>a, <1>7 DEF ReadField, JobSteps, Working, TypeOK
  <2>2. CASE Step(w, "back") /\ UNCHANGED seen
    <3>1. Only(w) /\ doing[w] \notin Clearing /\ doing'[w] \notin Clearing
      BY <1>a, <1>7, <2>1, <2>2 DEF ReadField, Step, Rest, signed, Only, Clearing, TypeOK
    <3> QED
      BY <1>c, <1>7, <2>2, <3>1, Aside DEF ReadField, Step, Rest, signed, jobs, drift
  <2>3. CASE field \notin {before[p], after[p]} /\ Commit(w, "conflict")
    BY <1>7, <2>1, <2>3, EndStep DEF ReadField
  <2>4. CASE field = before[p] /\ Step(w, "patch") /\ UNCHANGED seen
    <3>1. Armed' = Armed \cup {p}
      BY <1>a, <1>7, <2>1, <2>4 DEF ReadField, Step, Armed, TypeOK
    <3>2. Strayed' = Strayed /\ Restored' = Restored
      BY <1>a, <1>7, <2>1, <2>4 DEF ReadField, Step, Rest, signed, Strayed, Restored, TypeOK
    <3>3. Ledger!Arm(p)
      BY <1>7, <2>1, <2>4, <3>1, <3>2
         DEF ReadField, Step, Rest, signed, jobs, drift, Ledger!Arm, Ledger!diffs, Ledger!looks
    <3> QED
      BY <2>1, <3>3 DEF Ledger!SignedNext
  <2> QED
    BY <1>7, <2>2, <2>3, <2>4 DEF ReadField
<1>8. ASSUME NEW w \in Workers, Patch(w) PROVE Goal
  BY <1>8, PatchStep
<1>9. ASSUME NEW w \in Workers, ReadBack(w) PROVE Goal
  <2>1. doing[w] \in JobSteps /\ UNCHANGED field /\ Rest
    BY <1>9 DEF ReadBack, JobSteps
  <2>2. CASE field = after[job[w]] /\ Commit(w, "verified")
    BY <2>1, <2>2, EndStep
  <2>3. CASE Retry(w)
    <3>1. PICK s \in {"failed", "pending"} : Commit(w, s)
      BY <2>3 DEF Retry
    <3> QED
      BY <2>1, <3>1, EndStep
  <2> QED
    BY <1>9, <2>2, <2>3 DEF ReadBack
<1>10. ASSUME NEW w \in Workers, Crash(w) PROVE Goal
  <2>1. Only(w) /\ doing'[w] \notin Clearing
    BY <1>a, <1>10 DEF Crash, Rest, signed, Only, Clearing, Idle, TypeOK
  <2> QED
    BY <1>c, <1>10, <2>1, Leaving DEF Crash, Rest, ext, signed, jobs, drift
<1>11. ASSUME NEW w \in Workers, SweepBegin(w) PROVE Goal
  <2>1. Only(w) /\ doing[w] \notin Clearing /\ doing'[w] \notin Clearing
    BY <1>a, <1>11 DEF SweepBegin, signed, Only, Clearing, Idle, TypeOK
  <2> QED
    BY <1>c, <1>11, <2>1, Aside DEF SweepBegin, ext, signed, jobs, drift
<1>12. ASSUME NEW w \in Workers, doing[w] \in SweepSteps
       PROVE  job[w] \in Packets /\ state[job[w]] = "verified" /\ after[job[w]] # None
  BY <1>a, <1>12, WriteBackAssumption DEF Looked, Trying, TypeOK
<1>13. ASSUME NEW w \in Workers, SweepLook(w) PROVE Goal
  <2> DEFINE p == job[w]
  <2>1. doing[w] = "look" /\ p \in Packets /\ state[p] = "verified" /\ after[p] # None
    BY <1>12, <1>13 DEF SweepLook, SweepSteps
  <2>2. CASE seen' = [seen EXCEPT ![w] = field] /\ Step(w, "judge")
    <3>1. /\ doing' = [doing EXCEPT ![w] = "judge"] /\ UNCHANGED <<job, after>>
          /\ UNCHANGED <<field, before, state, notice>>
      BY <1>13, <2>2 DEF SweepLook, Step, Rest, ext, signed, jobs, drift
    <3>2. Armed' = Armed
      BY <1>a, <2>1, <3>1 DEF Armed, TypeOK
    <3>3. CASE field # after[p]
      <4>1. Strayed' = Strayed \cup {p} /\ Restored' = Restored
        BY <1>a, <2>1, <2>2, <3>1, <3>3 DEF Strayed, Restored, TypeOK
      <4>2. Ledger!Look(p)
        BY <2>1, <3>1, <3>2, <3>3, <4>1 DEF Ledger!Look, Ledger!diffs
      <4> QED
        BY <2>1, <4>2 DEF Ledger!SignedNext
    <3>4. CASE field = after[p]
      <4>1. Restored' = Restored \cup {p} /\ Strayed' = Strayed
        BY <1>a, <2>1, <2>2, <3>1, <3>4 DEF Strayed, Restored, TypeOK
      <4>2. Ledger!Look(p)
        BY <2>1, <3>1, <3>2, <3>4, <4>1 DEF Ledger!Look, Ledger!diffs
      <4> QED
        BY <2>1, <4>2 DEF Ledger!SignedNext
    <3> QED
      BY <3>3, <3>4
  <2>3. CASE doing' = [doing EXCEPT ![w] = "finish"] /\ UNCHANGED <<job, seen, jobs, newer, drift>>
    <3>1. seen[w] = None
      BY <1>a, <2>1 DEF Looked
    <3>2. Armed' = Armed /\ Strayed' = Strayed /\ Restored' = Restored
      BY <1>a, <1>13, <2>1, <2>3, <3>1 DEF SweepLook, Rest, signed, Armed, Strayed, Restored, TypeOK
    <3> QED
      BY <1>c, <1>13, <2>3, <3>2 DEF SweepLook, Rest, ext, signed, jobs, drift
  <2> QED
    BY <1>13, <2>2, <2>3 DEF SweepLook
<1>14. ASSUME NEW w \in Workers, SweepOpens(w) PROVE Goal
  <2> DEFINE p == job[w]
  <2>1. p \in Packets
    BY <1>12, <1>14 DEF SweepOpens, SweepSteps
  <2>2. Only(w) /\ doing'[w] \notin Clearing /\ doing[w] = "judge" /\ seen[w] # after[p]
    BY <1>a, <1>14 DEF SweepOpens, Opens, Swept, Rest, signed, Only, Clearing, Idle, TypeOK
  <2>3. p \in Strayed /\ Strayed' \subseteq Strayed
    BY <2>1, <2>2, Leaving DEF Strayed
  <2>4. Armed' = Armed /\ Restored' = Restored
    BY <2>2 DEF Only, Clearing, Armed, Restored
  <2>5. Ledger!Notice(p)
    BY <1>14, <2>3, <2>4 DEF SweepOpens, Opens, Rest, ext, signed, jobs, Ledger!Notice, Ledger!diffs
  <2> QED
    BY <2>1, <2>5 DEF Ledger!SignedNext
<1>15. ASSUME NEW w \in Workers, SweepLeaves(w) PROVE Goal
  <2>1. /\ doing[w] = "judge" /\ doing'[w] = "finish" /\ UNCHANGED <<job, seen, after>>
        /\ \A x \in Workers \ {w} : doing'[x] = doing[x]
    BY <1>a, <1>15 DEF SweepLeaves, Rest, signed, TypeOK
  <2>2. Armed' = Armed /\ Strayed' \subseteq Strayed /\ Restored' = Restored
    BY <2>1 DEF Armed, Strayed, Restored
  <2> QED
    BY <1>c, <1>15, <2>2 DEF SweepLeaves, Rest, ext, signed, jobs, drift
<1>16. ASSUME NEW w \in Workers, SweepFinish(w) PROVE Goal
  <2> DEFINE p == job[w]
  <2>1. p \in Packets /\ doing[w] = "finish"
    BY <1>12, <1>16 DEF SweepFinish, SweepSteps
  <2>2. Only(w) /\ doing'[w] \notin Clearing
    BY <1>a, <1>16 DEF SweepFinish, Swept, Rest, signed, Only, Clearing, Idle, TypeOK
  <2>3. Armed' = Armed /\ Strayed' = Strayed /\ Restored' \subseteq Restored
    BY <2>1, <2>2 DEF Only, Clearing, Armed, Strayed, Restored
  <2>4. UNCHANGED <<field, before, after, state>>
    BY <1>16 DEF SweepFinish, Rest, ext, signed, jobs
  <2>5. CASE notice[p] = "open" /\ seen[w] = after[p]
    <3>1. p \in Restored
      BY <2>1, <2>5 DEF Restored
    <3>2. Ledger!Resolve(p)
      BY <1>16, <2>3, <2>4, <2>5, <3>1 DEF SweepFinish, Ledger!Resolve, Ledger!diffs
    <3> QED
      BY <2>1, <3>2 DEF Ledger!SignedNext
  <2>6. CASE ~(notice[p] = "open" /\ seen[w] = after[p])
    <3>1. notice' = notice
      BY <1>a, <1>16, <2>1, <2>6 DEF SweepFinish, TypeOK
    <3> QED
      BY <1>c, <2>3, <2>4, <3>1
  <2> QED
    BY <2>5, <2>6
<1>17. CASE UNCHANGED vars
  BY <1>b, <1>c, <1>17 DEF vars, ext, signed, jobs, drift, hands
<1> QED
  BY <1>1, <1>2, <1>3, <1>4, <1>5, <1>6, <1>7, <1>8, <1>9, <1>10, <1>11, <1>13, <1>14,
     <1>15, <1>16, <1>17 DEF Next, JobStep, SweepStep

(* The write-back implements SignedWrites: every PATCH is armed by a look  *)
(* that found the signed value, outcomes are final, and notices say what a *)
(* sweep found, whatever fails, repeats or overlaps.                       *)
THEOREM KeepsSignedWritesHolds == Spec => KeepsSignedWrites
<1>1. Init => Ledger!SignedInit
  BY DEF Init, Ledger!SignedInit, Armed, Strayed, Restored, Idle
<1>2. IInv /\ [Next]_vars => [Ledger!SignedNext]_Ledger!signedVars
  BY SignedStep
<1> QED
  BY <1>1, <1>2, Invariance, PTL DEF Spec, KeepsSignedWrites, Ledger!SignedSpec
=============================================================================
