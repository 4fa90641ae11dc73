--------------------------- MODULE JobQueueProofs ---------------------------
(***************************************************************************)
(* The inductive invariant of the job runner and what follows from it, for *)
(* every number of rows, producers, attempts, crashes and locks.           *)
(***************************************************************************)
EXTENDS JobQueue, TLAPS

-----------------------------------------------------------------------------
(* The invariant, part by part                                             *)

\* The thread holds a job exactly between its claim and its settling, and the
\* row of that job is running all the while.
HandOK ==
    /\ pc \in Holding => job # None /\ status[job] = "running"
    /\ pc \notin Holding => job = None

\* Nothing volatile is left of a process that has ended.
DownOK == proc = "down" => pc = "off" /\ adding = {}

\* Rows are inserted in id order.
RowsOK == \A j \in JobIds : status[j] = "absent" <=> j >= nextId

\* Only a claim makes a row running.
ClaimedOK == \A j \in JobIds : status[j] = "running" => attempts[j] > 0

\* BurstCoalesces needs more than pending pairs: the younger row may be
\* running when the older is still pending, and go back to pending later.
BurstOK ==
    \A i, j \in JobIds :
        (/\ i < j
         /\ kind[i] = kind[j] /\ kind[i] \in Unique
         /\ status[i] = "pending" /\ status[j] # "absent")
            => attempts[i] > 0

\* Before its handler returns in this claim, a job has been run at most once
\* for each fault so far.
RunsOK ==
    \A j \in JobIds :
        /\ runs[j] <= 1 + crashes + settleLocks
        /\ (status[j] # "done" /\ ~(j = job /\ pc = "finish"))
              => runs[j] <= crashes + settleLocks
        /\ (status[j] = "done" \/ (j = job /\ pc = "finish")) => runs[j] > 0

\* A row nobody holds has an attempt left, or one for each process exit.
AttemptsOK ==
    \A j \in JobIds :
        /\ attempts[j] <= MaxAttempts + crashes
        /\ (status[j] \in {"absent", "pending", "running"} /\ j # job)
              => attempts[j] < MaxAttempts + crashes
        /\ status[j] = "dead" => attempts[j] >= MaxAttempts

IInv ==
    /\ TypeOK /\ HandOK /\ DownOK /\ RowsOK /\ ClaimedOK /\ NoOrphan
    /\ CoalescedIsPending /\ BurstOK /\ RunsOK /\ AttemptsOK /\ NoLostWake
-----------------------------------------------------------------------------
(* Each action keeps the invariant: one lemma per action, one step per group *)
(* of parts it can disturb.                                                *)

\* enqueue_job either answers with the oldest pending row of the kind or inserts.
LEMMA EnqueueJobEffect ==
  ASSUME IInv, NEW k \in Kinds, EnqueueJob(k)
  PROVE  \/ /\ UNCHANGED table
            /\ \E j \in JobIds : /\ status[j] = "pending"
                                 /\ unseen' = unseen \cup {j}
         \/ /\ Insert(k)
            /\ k \in Unique => \A j \in JobIds :
                                  ~(kind[j] = k /\ status[j] = "pending")
  BY DEF EnqueueJob, CoalesceWith

\* What Enqueue and EnqueueDirect share.
LEMMA EnqueueJobKeeps ==
  ASSUME IInv, NEW k \in Kinds, EnqueueJob(k), proc = "up",
         adding \subseteq adding', adding' \subseteq Producers,
         k \in Direct \/ adding' # {},
         UNCHANGED <<thread, proc, runs, skipped, bounds>>
  PROVE  IInv'
<1> USE JobQueueAssumption DEF IInv, TypeOK, JobIds, None, table, thread, bounds
<1>1. CASE /\ UNCHANGED table
           /\ \E j \in JobIds : /\ status[j] = "pending"
                                /\ unseen' = unseen \cup {j}
  <2>1. TypeOK'
    BY <1>1 DEF TypeOK, Statuses, Availabilities, Pcs
  <2>2. HandOK' /\ DownOK' /\ NoOrphan'
    BY <1>1 DEF HandOK, DownOK, NoOrphan, Holding
  <2>3. RowsOK' /\ ClaimedOK'
    BY <1>1 DEF RowsOK, ClaimedOK
  <2>4. CoalescedIsPending' /\ BurstOK'
    BY <1>1 DEF CoalescedIsPending, BurstOK, RowsOK, ClaimedOK
  <2>5. RunsOK'
    BY <1>1 DEF RunsOK
  <2>6. AttemptsOK'
    BY <1>1 DEF AttemptsOK
  <2>7. NoLostWake'
    BY <1>1 DEF NoLostWake, Claimable
  <2> QED BY <2>1, <2>2, <2>3, <2>4, <2>5, <2>6, <2>7
<1>2. CASE /\ Insert(k)
           /\ k \in Unique => \A j \in JobIds :
                                 ~(kind[j] = k /\ status[j] = "pending")
  <2>0. /\ nextId \in JobIds
        /\ status[nextId] = "absent"
        /\ status' = [status EXCEPT ![nextId] = "pending"]
        /\ kind' = [kind EXCEPT ![nextId] = k]
        /\ nextId' = nextId + 1
        /\ unseen' = unseen \cup {nextId}
        /\ UNCHANGED <<attempts, available>>
    BY <1>2 DEF Insert, RowsOK
  <2>1. TypeOK'
    BY <1>2, <2>0 DEF TypeOK, Statuses, Availabilities, Pcs
  <2>2. HandOK' /\ DownOK' /\ NoOrphan'
    BY <1>2, <2>0 DEF HandOK, DownOK, NoOrphan, Holding
  <2>3. RowsOK' /\ ClaimedOK'
    BY <1>2, <2>0 DEF RowsOK, ClaimedOK
  <2>4. CoalescedIsPending' /\ BurstOK'
    BY <1>2, <2>0 DEF CoalescedIsPending, BurstOK, RowsOK, ClaimedOK
  <2>5. RunsOK'
    BY <1>2, <2>0 DEF RunsOK, HandOK
  <2>6. AttemptsOK'
    BY <1>2, <2>0 DEF AttemptsOK, HandOK
  <2>7. NoLostWake'
    BY <1>2, <2>0 DEF NoLostWake, Claimable
  <2> QED BY <2>1, <2>2, <2>3, <2>4, <2>5, <2>6, <2>7
<1> QED BY <1>1, <1>2, EnqueueJobEffect

LEMMA EnqueueKeeps ==
  ASSUME IInv, NEW p \in Producers, NEW k \in Kinds, Enqueue(p, k)
  PROVE  IInv'
<1>1. /\ EnqueueJob(k) /\ proc = "up"
      /\ adding \subseteq adding'
      /\ adding' \subseteq Producers /\ adding' # {}
      /\ UNCHANGED <<thread, proc, runs, skipped, bounds>>
  BY DEF Enqueue, IInv, TypeOK
<1> QED BY <1>1, EnqueueJobKeeps

LEMMA EnqueueDirectKeeps ==
  ASSUME IInv, NEW k \in Kinds, EnqueueDirect(k)
  PROVE  IInv'
<1>1. /\ EnqueueJob(k) /\ proc = "up" /\ k \in Direct
      /\ adding \subseteq adding' /\ adding' \subseteq Producers
      /\ UNCHANGED <<thread, proc, runs, skipped, bounds>>
  BY DEF EnqueueDirect, IInv, TypeOK
<1> QED BY <1>1, EnqueueJobKeeps

LEMMA SetWakeKeeps == ASSUME IInv, NEW p \in Producers, SetWake(p) PROVE IInv'
<1> USE JobQueueAssumption
       DEF IInv, TypeOK, HandOK, Holding, JobIds, None, table, thread, bounds,
           SetWake
<1>1. TypeOK'
  BY DEF TypeOK, Statuses, Availabilities, Pcs
<1>2. HandOK' /\ DownOK' /\ NoOrphan'
  BY DEF HandOK, DownOK, NoOrphan, Holding
<1>3. RowsOK' /\ ClaimedOK'
  BY DEF RowsOK, ClaimedOK
<1>4. CoalescedIsPending' /\ BurstOK'
  BY DEF CoalescedIsPending, BurstOK, RowsOK, ClaimedOK
<1>5. RunsOK'
  BY DEF RunsOK
<1>6. AttemptsOK'
  BY DEF AttemptsOK
<1>7. NoLostWake'
  BY DEF NoLostWake, Claimable
<1> QED BY <1>1, <1>2, <1>3, <1>4, <1>5, <1>6, <1>7

LEMMA LoopExitsKeeps == ASSUME IInv, LoopExits PROVE IInv'
<1> USE JobQueueAssumption
       DEF IInv, TypeOK, HandOK, Holding, JobIds, None, table, thread, bounds,
           LoopExits
<1>1. TypeOK'
  BY DEF TypeOK, Statuses, Availabilities, Pcs
<1>2. HandOK' /\ DownOK' /\ NoOrphan'
  BY DEF HandOK, DownOK, NoOrphan, Holding
<1>3. RowsOK' /\ ClaimedOK'
  BY DEF RowsOK, ClaimedOK
<1>4. CoalescedIsPending' /\ BurstOK'
  BY DEF CoalescedIsPending, BurstOK, RowsOK, ClaimedOK
<1>5. RunsOK'
  BY DEF RunsOK
<1>6. AttemptsOK'
  BY DEF AttemptsOK
<1>7. NoLostWake'
  BY DEF NoLostWake, Claimable
<1> QED BY <1>1, <1>2, <1>3, <1>4, <1>5, <1>6, <1>7

LEMMA ClaimJobKeeps == ASSUME IInv, ClaimJob PROVE IInv'
<1> USE JobQueueAssumption
       DEF IInv, TypeOK, HandOK, Holding, JobIds, None, table, thread, bounds,
           ClaimJob, Claimable
<1>1. TypeOK'
  BY DEF TypeOK, Statuses, Availabilities, Pcs
<1>2. HandOK' /\ DownOK' /\ NoOrphan'
  BY DEF HandOK, DownOK, NoOrphan, Holding
<1>3. RowsOK' /\ ClaimedOK'
  BY DEF RowsOK, ClaimedOK
<1>4. CoalescedIsPending' /\ BurstOK'
  BY DEF CoalescedIsPending, BurstOK, RowsOK, ClaimedOK
<1>5. RunsOK'
  BY DEF RunsOK
<1>6. AttemptsOK'
  BY DEF AttemptsOK
<1>7. NoLostWake'
  BY DEF NoLostWake, Claimable
<1> QED BY <1>1, <1>2, <1>3, <1>4, <1>5, <1>6, <1>7

LEMMA ClaimNoneKeeps == ASSUME IInv, ClaimNone PROVE IInv'
<1> USE JobQueueAssumption
       DEF IInv, TypeOK, HandOK, Holding, JobIds, None, table, thread, bounds,
           ClaimNone, Claimable
<1>1. TypeOK'
  BY DEF TypeOK, Statuses, Availabilities, Pcs
<1>2. HandOK' /\ DownOK' /\ NoOrphan'
  BY DEF HandOK, DownOK, NoOrphan, Holding
<1>3. RowsOK' /\ ClaimedOK'
  BY DEF RowsOK, ClaimedOK
<1>4. CoalescedIsPending' /\ BurstOK'
  BY DEF CoalescedIsPending, BurstOK, RowsOK, ClaimedOK
<1>5. RunsOK'
  BY DEF RunsOK
<1>6. AttemptsOK'
  BY DEF AttemptsOK
<1>7. NoLostWake'
  BY DEF NoLostWake, Claimable
<1> QED BY <1>1, <1>2, <1>3, <1>4, <1>5, <1>6, <1>7

LEMMA ClaimLockedKeeps == ASSUME IInv, ClaimLocked PROVE IInv'
<1> USE JobQueueAssumption
       DEF IInv, TypeOK, HandOK, Holding, JobIds, None, table, thread, bounds,
           ClaimLocked
<1>1. TypeOK'
  BY DEF TypeOK, Statuses, Availabilities, Pcs
<1>2. HandOK' /\ DownOK' /\ NoOrphan'
  BY DEF HandOK, DownOK, NoOrphan, Holding
<1>3. RowsOK' /\ ClaimedOK'
  BY DEF RowsOK, ClaimedOK
<1>4. CoalescedIsPending' /\ BurstOK'
  BY DEF CoalescedIsPending, BurstOK, RowsOK, ClaimedOK
<1>5. RunsOK'
  BY DEF RunsOK
<1>6. AttemptsOK'
  BY DEF AttemptsOK
<1>7. NoLostWake'
  BY DEF NoLostWake, Claimable
<1> QED BY <1>1, <1>2, <1>3, <1>4, <1>5, <1>6, <1>7

LEMMA WaitReturnsKeeps == ASSUME IInv, WaitReturns PROVE IInv'
<1> USE JobQueueAssumption
       DEF IInv, TypeOK, HandOK, Holding, JobIds, None, table, thread, bounds,
           WaitReturns
<1>1. TypeOK'
  BY DEF TypeOK, Statuses, Availabilities, Pcs
<1>2. HandOK' /\ DownOK' /\ NoOrphan'
  BY DEF HandOK, DownOK, NoOrphan, Holding
<1>3. RowsOK' /\ ClaimedOK'
  BY DEF RowsOK, ClaimedOK
<1>4. CoalescedIsPending' /\ BurstOK'
  BY DEF CoalescedIsPending, BurstOK, RowsOK, ClaimedOK
<1>5. RunsOK'
  BY DEF RunsOK
<1>6. AttemptsOK'
  BY DEF AttemptsOK
<1>7. NoLostWake'
  BY DEF NoLostWake, Claimable
<1> QED BY <1>1, <1>2, <1>3, <1>4, <1>5, <1>6, <1>7

LEMMA ClearWakeKeeps == ASSUME IInv, ClearWake PROVE IInv'
<1> USE JobQueueAssumption
       DEF IInv, TypeOK, HandOK, Holding, JobIds, None, table, thread, bounds,
           ClearWake
<1>1. TypeOK'
  BY DEF TypeOK, Statuses, Availabilities, Pcs
<1>2. HandOK' /\ DownOK' /\ NoOrphan'
  BY DEF HandOK, DownOK, NoOrphan, Holding
<1>3. RowsOK' /\ ClaimedOK'
  BY DEF RowsOK, ClaimedOK
<1>4. CoalescedIsPending' /\ BurstOK'
  BY DEF CoalescedIsPending, BurstOK, RowsOK, ClaimedOK
<1>5. RunsOK'
  BY DEF RunsOK
<1>6. AttemptsOK'
  BY DEF AttemptsOK
<1>7. NoLostWake'
  BY DEF NoLostWake, Claimable
<1> QED BY <1>1, <1>2, <1>3, <1>4, <1>5, <1>6, <1>7

LEMMA HandlerReturnsKeeps == ASSUME IInv, HandlerReturns PROVE IInv'
<1> USE JobQueueAssumption
       DEF IInv, TypeOK, HandOK, Holding, JobIds, None, table, thread, bounds,
           HandlerReturns
<1>1. TypeOK'
  BY DEF TypeOK, Statuses, Availabilities, Pcs
<1>2. HandOK' /\ DownOK' /\ NoOrphan'
  BY DEF HandOK, DownOK, NoOrphan, Holding
<1>3. RowsOK' /\ ClaimedOK'
  BY DEF RowsOK, ClaimedOK
<1>4. CoalescedIsPending' /\ BurstOK'
  BY DEF CoalescedIsPending, BurstOK, RowsOK, ClaimedOK
<1>5. RunsOK'
  BY DEF RunsOK
<1>6. AttemptsOK'
  BY DEF AttemptsOK
<1>7. NoLostWake'
  BY DEF NoLostWake, Claimable
<1> QED BY <1>1, <1>2, <1>3, <1>4, <1>5, <1>6, <1>7

LEMMA HandlerRaisesKeeps == ASSUME IInv, HandlerRaises PROVE IInv'
<1> USE JobQueueAssumption
       DEF IInv, TypeOK, HandOK, Holding, JobIds, None, table, thread, bounds,
           HandlerRaises
<1>1. TypeOK'
  BY DEF TypeOK, Statuses, Availabilities, Pcs
<1>2. HandOK' /\ DownOK' /\ NoOrphan'
  BY DEF HandOK, DownOK, NoOrphan, Holding
<1>3. RowsOK' /\ ClaimedOK'
  BY DEF RowsOK, ClaimedOK
<1>4. CoalescedIsPending' /\ BurstOK'
  BY DEF CoalescedIsPending, BurstOK, RowsOK, ClaimedOK
<1>5. RunsOK'
  BY DEF RunsOK
<1>6. AttemptsOK'
  BY DEF AttemptsOK
<1>7. NoLostWake'
  BY DEF NoLostWake, Claimable
<1> QED BY <1>1, <1>2, <1>3, <1>4, <1>5, <1>6, <1>7

LEMMA FinishJobKeeps == ASSUME IInv, FinishJob PROVE IInv'
<1> USE JobQueueAssumption
       DEF IInv, TypeOK, HandOK, Holding, JobIds, None, table, thread, bounds,
           FinishJob
<1>1. TypeOK'
  BY DEF TypeOK, Statuses, Availabilities, Pcs
<1>2. HandOK' /\ DownOK' /\ NoOrphan'
  BY DEF HandOK, DownOK, NoOrphan, Holding
<1>3. RowsOK' /\ ClaimedOK'
  BY DEF RowsOK, ClaimedOK
<1>4. CoalescedIsPending' /\ BurstOK'
  BY DEF CoalescedIsPending, BurstOK, RowsOK, ClaimedOK
<1>5. RunsOK'
  BY DEF RunsOK
<1>6. AttemptsOK'
  BY DEF AttemptsOK
<1>7. NoLostWake'
  BY DEF NoLostWake, Claimable
<1> QED BY <1>1, <1>2, <1>3, <1>4, <1>5, <1>6, <1>7

LEMMA FinishLockedKeeps == ASSUME IInv, FinishLocked PROVE IInv'
<1> USE JobQueueAssumption
       DEF IInv, TypeOK, HandOK, Holding, JobIds, None, table, thread, bounds,
           FinishLocked
<1>1. TypeOK'
  BY DEF TypeOK, Statuses, Availabilities, Pcs
<1>2. HandOK' /\ DownOK' /\ NoOrphan'
  BY DEF HandOK, DownOK, NoOrphan, Holding
<1>3. RowsOK' /\ ClaimedOK'
  BY DEF RowsOK, ClaimedOK
<1>4. CoalescedIsPending' /\ BurstOK'
  BY DEF CoalescedIsPending, BurstOK, RowsOK, ClaimedOK
<1>5. RunsOK'
  BY DEF RunsOK
<1>6. AttemptsOK'
  BY DEF AttemptsOK
<1>7. NoLostWake'
  BY DEF NoLostWake, Claimable
<1> QED BY <1>1, <1>2, <1>3, <1>4, <1>5, <1>6, <1>7

LEMMA FailJobKeeps == ASSUME IInv, FailJob PROVE IInv'
<1> USE JobQueueAssumption
       DEF IInv, TypeOK, HandOK, Holding, JobIds, None, table, thread, bounds,
           FailJob, Exhausted, SettleFailed
<1>1. TypeOK'
  BY DEF TypeOK, Statuses, Availabilities, Pcs
<1>2. HandOK' /\ DownOK' /\ NoOrphan'
  BY SMTT(30) DEF HandOK, DownOK, NoOrphan, Holding
<1>3. RowsOK' /\ ClaimedOK'
  BY DEF RowsOK, ClaimedOK
<1>4. CoalescedIsPending' /\ BurstOK'
  BY DEF CoalescedIsPending, BurstOK, RowsOK, ClaimedOK
<1>5. RunsOK'
  BY DEF RunsOK
<1>6. AttemptsOK'
  BY SMTT(30) DEF AttemptsOK
<1>7. NoLostWake'
  BY DEF NoLostWake, Claimable
<1> QED BY <1>1, <1>2, <1>3, <1>4, <1>5, <1>6, <1>7

LEMMA FailLockedKeeps == ASSUME IInv, FailLocked PROVE IInv'
<1> USE JobQueueAssumption
       DEF IInv, TypeOK, HandOK, Holding, JobIds, None, table, thread, bounds,
           FailLocked
<1>1. TypeOK'
  BY DEF TypeOK, Statuses, Availabilities, Pcs
<1>2. HandOK' /\ DownOK' /\ NoOrphan'
  BY DEF HandOK, DownOK, NoOrphan, Holding
<1>3. RowsOK' /\ ClaimedOK'
  BY DEF RowsOK, ClaimedOK
<1>4. CoalescedIsPending' /\ BurstOK'
  BY DEF CoalescedIsPending, BurstOK, RowsOK, ClaimedOK
<1>5. RunsOK'
  BY DEF RunsOK
<1>6. AttemptsOK'
  BY DEF AttemptsOK
<1>7. NoLostWake'
  BY DEF NoLostWake, Claimable
<1> QED BY <1>1, <1>2, <1>3, <1>4, <1>5, <1>6, <1>7

LEMMA BackoffElapsesKeeps ==
  ASSUME IInv, NEW b \in JobIds, BackoffElapses(b) PROVE IInv'
<1> USE JobQueueAssumption
       DEF IInv, TypeOK, HandOK, Holding, JobIds, None, table, thread, bounds,
           BackoffElapses, Claimable
<1>1. TypeOK'
  BY DEF TypeOK, Statuses, Availabilities, Pcs
<1>2. HandOK' /\ DownOK' /\ NoOrphan'
  BY DEF HandOK, DownOK, NoOrphan, Holding
<1>3. RowsOK' /\ ClaimedOK'
  BY DEF RowsOK, ClaimedOK
<1>4. CoalescedIsPending' /\ BurstOK'
  BY DEF CoalescedIsPending, BurstOK, RowsOK, ClaimedOK
<1>5. RunsOK'
  BY DEF RunsOK
<1>6. AttemptsOK'
  BY DEF AttemptsOK
<1>7. NoLostWake'
  BY DEF NoLostWake, Claimable
<1> QED BY <1>1, <1>2, <1>3, <1>4, <1>5, <1>6, <1>7

LEMMA StartKeeps == ASSUME IInv, Start PROVE IInv'
<1> USE JobQueueAssumption
       DEF IInv, TypeOK, HandOK, Holding, JobIds, None, table, thread, bounds,
           Start, RequeueStaleJobs
<1>1. TypeOK'
  <2>1. /\ status' \in [JobIds -> Statuses]
        /\ available' \in [JobIds -> Availabilities]
    BY DEF Statuses, Availabilities
  <2>2. skipped' \in BOOLEAN /\ skips' \in Nat
    <3>1. skips' \in Nat
      OBVIOUS
    <3>2. skipped' \in BOOLEAN
      BY Zenon
    <3> QED BY <3>1, <3>2
  <2>3. /\ kind' \in [JobIds -> Kinds]
        /\ attempts' \in [JobIds -> Nat] /\ runs' \in [JobIds -> Nat]
        /\ nextId' \in 1..(MaxJobs + 1) /\ unseen' \subseteq JobIds
        /\ pc' \in Pcs /\ job' \in JobIds \cup {None}
        /\ wake' \in BOOLEAN /\ stop' \in BOOLEAN
        /\ proc' \in {"up", "down"} /\ adding' \subseteq Producers
        /\ crashes' \in Nat /\ claimLocks' \in Nat /\ settleLocks' \in Nat
    BY DEF Pcs
  <2> QED BY <2>1, <2>2, <2>3 DEF TypeOK
<1>2. HandOK' /\ DownOK' /\ NoOrphan'
  BY DEF HandOK, DownOK, NoOrphan, Holding
<1>3. RowsOK' /\ ClaimedOK'
  BY DEF RowsOK, ClaimedOK
<1>4. CoalescedIsPending' /\ BurstOK'
  BY DEF CoalescedIsPending, BurstOK, RowsOK, ClaimedOK
<1>5. RunsOK'
  <2>1. /\ UNCHANGED <<runs, job, crashes, settleLocks>>
        /\ pc # "finish" /\ pc' # "finish"
        /\ \A j \in JobIds : status'[j] = "done" <=> status[j] = "done"
    BY DEF DownOK
  <2> QED BY <2>1 DEF RunsOK
<1>6. AttemptsOK'
  BY DEF AttemptsOK
<1>7. NoLostWake'
  BY DEF NoLostWake, Claimable
<1> QED BY <1>1, <1>2, <1>3, <1>4, <1>5, <1>6, <1>7

LEMMA StopKeeps == ASSUME IInv, Stop PROVE IInv'
<1> USE JobQueueAssumption
       DEF IInv, TypeOK, HandOK, Holding, JobIds, None, table, thread, bounds,
           Stop
<1>1. TypeOK'
  BY DEF TypeOK, Statuses, Availabilities, Pcs
<1>2. HandOK' /\ DownOK' /\ NoOrphan'
  BY DEF HandOK, DownOK, NoOrphan, Holding
<1>3. RowsOK' /\ ClaimedOK'
  BY DEF RowsOK, ClaimedOK
<1>4. CoalescedIsPending' /\ BurstOK'
  BY DEF CoalescedIsPending, BurstOK, RowsOK, ClaimedOK
<1>5. RunsOK'
  BY DEF RunsOK
<1>6. AttemptsOK'
  BY DEF AttemptsOK
<1>7. NoLostWake'
  BY DEF NoLostWake, Claimable
<1> QED BY <1>1, <1>2, <1>3, <1>4, <1>5, <1>6, <1>7

LEMMA ProcessExitsKeeps == ASSUME IInv, ProcessExits PROVE IInv'
<1> USE JobQueueAssumption
       DEF IInv, TypeOK, HandOK, Holding, JobIds, None, table, thread, bounds,
           ProcessExits
<1>1. TypeOK'
  <2>1. crashes' \in Nat
    OBVIOUS
  <2>2. /\ status' \in [JobIds -> Statuses] /\ kind' \in [JobIds -> Kinds]
        /\ available' \in [JobIds -> Availabilities]
        /\ attempts' \in [JobIds -> Nat] /\ runs' \in [JobIds -> Nat]
        /\ nextId' \in 1..(MaxJobs + 1) /\ unseen' \subseteq JobIds
    OBVIOUS
  <2>3. /\ pc' \in Pcs /\ job' \in JobIds \cup {None}
        /\ wake' \in BOOLEAN /\ stop' \in BOOLEAN /\ skipped' \in BOOLEAN
        /\ proc' \in {"up", "down"} /\ adding' \subseteq Producers
        /\ claimLocks' \in Nat /\ settleLocks' \in Nat /\ skips' \in Nat
    BY DEF Pcs
  <2> QED BY <2>1, <2>2, <2>3 DEF TypeOK
<1>2. HandOK' /\ DownOK' /\ NoOrphan'
  BY DEF HandOK, DownOK, NoOrphan, Holding
<1>3. RowsOK' /\ ClaimedOK'
  BY DEF RowsOK, ClaimedOK
<1>4. CoalescedIsPending' /\ BurstOK'
  BY DEF CoalescedIsPending, BurstOK, RowsOK, ClaimedOK
<1>5. RunsOK'
  BY DEF RunsOK
<1>6. AttemptsOK'
  BY DEF AttemptsOK
<1>7. NoLostWake'
  BY DEF NoLostWake, Claimable
<1> QED BY <1>1, <1>2, <1>3, <1>4, <1>5, <1>6, <1>7

LEMMA StutterKeeps == ASSUME IInv, UNCHANGED vars PROVE IInv'
<1> USE JobQueueAssumption
       DEF IInv, TypeOK, HandOK, Holding, JobIds, None, table, thread, bounds,
           vars
<1>1. TypeOK'
  BY DEF TypeOK, Statuses, Availabilities, Pcs
<1>2. HandOK' /\ DownOK' /\ NoOrphan'
  BY DEF HandOK, DownOK, NoOrphan, Holding
<1>3. RowsOK' /\ ClaimedOK'
  BY DEF RowsOK, ClaimedOK
<1>4. CoalescedIsPending' /\ BurstOK'
  BY DEF CoalescedIsPending, BurstOK, RowsOK, ClaimedOK
<1>5. RunsOK'
  BY DEF RunsOK
<1>6. AttemptsOK'
  BY DEF AttemptsOK
<1>7. NoLostWake'
  BY DEF NoLostWake, Claimable
<1> QED BY <1>1, <1>2, <1>3, <1>4, <1>5, <1>6, <1>7

-----------------------------------------------------------------------------
LEMMA InitEstablishes == Init => IInv
<1> SUFFICES ASSUME Init PROVE IInv
  OBVIOUS
<1> USE JobQueueAssumption DEF Init, JobIds, None
<1>1. TypeOK
  <2>1. /\ nextId \in 1..(MaxJobs + 1) /\ job \in JobIds \cup {None}
        /\ crashes \in Nat /\ claimLocks \in Nat /\ settleLocks \in Nat
        /\ skips \in Nat /\ attempts \in [JobIds -> Nat]
        /\ runs \in [JobIds -> Nat]
    OBVIOUS
  <2>2. /\ status \in [JobIds -> Statuses] /\ kind \in [JobIds -> Kinds]
        /\ available \in [JobIds -> Availabilities]
    BY DEF Statuses, Availabilities
  <2>3. /\ pc \in Pcs /\ proc \in {"up", "down"}
        /\ adding \subseteq Producers /\ unseen \subseteq JobIds
    BY DEF Pcs
  <2>4. wake \in BOOLEAN /\ stop \in BOOLEAN /\ skipped \in BOOLEAN
    OBVIOUS
  <2> QED BY <2>1, <2>2, <2>3, <2>4 DEF TypeOK
<1>2. HandOK /\ DownOK /\ NoOrphan /\ NoLostWake
  BY DEF HandOK, DownOK, NoOrphan, NoLostWake, Holding
<1>3. RowsOK /\ ClaimedOK /\ CoalescedIsPending /\ BurstOK
  BY DEF RowsOK, ClaimedOK, CoalescedIsPending, BurstOK
<1>4. RunsOK /\ AttemptsOK
  BY DEF RunsOK, AttemptsOK
<1> QED BY <1>1, <1>2, <1>3, <1>4 DEF IInv

LEMMA NextKeeps == IInv /\ [Next]_vars => IInv'
<1> SUFFICES ASSUME IInv, [Next]_vars PROVE IInv'
  OBVIOUS
<1>1. CASE \E p \in Producers, k \in Kinds : Enqueue(p, k)
  BY <1>1, EnqueueKeeps
<1>2. CASE \E p \in Producers : SetWake(p)
  BY <1>2, SetWakeKeeps
<1>3. CASE \E k \in Kinds : EnqueueDirect(k)
  BY <1>3, EnqueueDirectKeeps
<1>4. CASE WorkerStep
  BY <1>4, LoopExitsKeeps, ClaimJobKeeps, ClaimNoneKeeps, ClaimLockedKeeps,
     WaitReturnsKeeps, ClearWakeKeeps, HandlerReturnsKeeps, HandlerRaisesKeeps,
     FinishJobKeeps, FinishLockedKeeps, FailJobKeeps, FailLockedKeeps
     DEF WorkerStep, HandlerEnds
<1>5. CASE \E j \in JobIds : BackoffElapses(j)
  BY <1>5, BackoffElapsesKeeps
<1>6. CASE Start \/ Stop \/ ProcessExits
  BY <1>6, StartKeeps, StopKeeps, ProcessExitsKeeps
<1>7. CASE UNCHANGED vars
  BY <1>7, StutterKeeps
<1> QED BY <1>1, <1>2, <1>3, <1>4, <1>5, <1>6, <1>7 DEF Next

\* The inductive invariant holds in every reachable state.
THEOREM Invariance == Spec => []IInv
<1>1. Init => IInv
  BY InitEstablishes
<1>2. IInv /\ [Next]_vars => IInv'
  BY NextKeeps
<1> QED BY <1>1, <1>2, PTL DEF Spec

\* Every variable of the runner keeps its type.
THEOREM TypeCorrect == Spec => []TypeOK
<1>1. IInv => TypeOK
  BY DEF IInv
<1> QED BY <1>1, Invariance, PTL

\* No job is stranded in `running` while the worker thread's process is up and
\* its start-up recovery was not skipped (storage.py requeue_stale_jobs).
THEOREM NoOrphanHolds == Spec => []NoOrphan
<1>1. IInv => NoOrphan
  BY DEF IInv
<1> QED BY <1>1, Invariance, PTL

\* A request coalesced into a row is always followed by a whole run of it
\* (storage.py enqueue_job, unique_pending).
THEOREM CoalescingIsSafe == Spec => []CoalescedIsPending
<1>1. IInv => CoalescedIsPending
  BY DEF IInv
<1> QED BY <1>1, Invariance, PTL

\* A burst of unique enqueues leaves at most one row that was never attempted.
THEOREM BurstHolds == Spec => []BurstCoalesces
<1>1. IInv => BurstCoalesces
  BY DEF IInv, BurstOK, BurstCoalesces
<1> QED BY <1>1, Invariance, PTL

\* At least once, and never twice without a process exit or a failed write.
THEOREM AtLeastOnce == Spec => [](DoneAfterRun /\ RepeatNeedsFault)
<1>1. IInv => DoneAfterRun /\ RepeatNeedsFault
  BY DEF IInv, RunsOK, DoneAfterRun, RepeatNeedsFault
<1> QED BY <1>1, Invariance, PTL

\* Dead letters have used up their attempts; attempts over the limit are paid
\* for by process exits (worker.py:7, storage.py fail_job).
THEOREM AttemptsHold == Spec => [](DeadIsExhausted /\ AttemptsBounded)
<1>1. IInv => DeadIsExhausted /\ AttemptsBounded
  BY DEF IInv, AttemptsOK, DeadIsExhausted, AttemptsBounded
<1> QED BY <1>1, Invariance, PTL

\* The worker never sleeps on work a producer told it of (worker.py _run).
THEOREM NoLostWakeHolds == Spec => []NoLostWake
<1>1. IInv => NoLostWake
  BY DEF IInv
<1> QED BY <1>1, Invariance, PTL

-----------------------------------------------------------------------------
(* The refinement                                                          *)

\* Every step of the runner is a step of the contract or leaves it alone.
LEMMA StepKeepsContract ==
  ASSUME IInv, [Next]_vars
  PROVE  [Contract!ContractNext]_(Contract!contractVars)
<1> USE DEF IInv, TypeOK, table, thread, bounds
<1>a. ASSUME UNCHANGED <<status, runs>>
      PROVE  UNCHANGED Contract!contractVars
  BY <1>a DEF Contract!contractVars
<1>b. ASSUME NEW k \in Kinds, EnqueueJob(k), UNCHANGED runs
      PROVE  [Contract!ContractNext]_(Contract!contractVars)
  <2>1. CASE UNCHANGED status
    BY <1>a, <1>b, <2>1
  <2>2. CASE Insert(k)
    <3>1. nextId \in JobIds /\ status[nextId] = "absent"
      BY <2>2, JobQueueAssumption DEF Insert, RowsOK, JobIds
    <3>a. PICK i \in JobIds : i = nextId
      BY <3>1
    <3>b. status' = [status EXCEPT ![i] = "pending"]
      BY <2>2, <3>a DEF Insert
    <3>2. Contract!Accept(i)
      BY <1>b, <3>1, <3>a, <3>b DEF Contract!Accept
    <3> QED BY <3>2 DEF Contract!ContractNext
  <2> QED BY <1>b, <2>1, <2>2, EnqueueJobEffect
<1>c. ASSUME HandlerReturns, NEW i \in JobIds, i = job
      PROVE  Contract!Perform(i)
  BY <1>c DEF HandlerReturns, Contract!Perform, HandOK, Holding
<1>d. ASSUME FinishJob, NEW i \in JobIds, i = job
      PROVE  Contract!Complete(i)
  BY <1>d DEF FinishJob, Contract!Complete, HandOK, Holding, RunsOK
<1>e. ASSUME FailJob, NEW i \in JobIds, i = job
      PROVE  Contract!GiveUp(i) \/ UNCHANGED Contract!contractVars
  BY <1>e DEF FailJob, SettleFailed, HandOK, Holding, Contract!GiveUp,
     Contract!contractVars
<1>f. ASSUME ClaimJob PROVE UNCHANGED Contract!contractVars
  BY <1>f DEF ClaimJob, Claimable, Contract!contractVars
<1>g. ASSUME Start PROVE UNCHANGED Contract!contractVars
  BY <1>g DEF Start, RequeueStaleJobs, Contract!contractVars
<1>1. CASE \E p \in Producers, k \in Kinds : Enqueue(p, k)
  BY <1>1, <1>b DEF Enqueue
<1>2. CASE \E k \in Kinds : EnqueueDirect(k)
  BY <1>2, <1>b DEF EnqueueDirect
<1>3. CASE HandlerReturns \/ FinishJob \/ FailJob
  <2>1. PICK i \in JobIds : i = job
    BY <1>3 DEF HandlerReturns, FinishJob, FailJob, HandOK, Holding
  <2> QED BY <1>3, <1>c, <1>d, <1>e, <2>1 DEF Contract!ContractNext
<1>4. CASE ClaimJob \/ Start
  BY <1>4, <1>f, <1>g
<1>5. CASE \/ \E p \in Producers : SetWake(p)
           \/ \E j \in JobIds : BackoffElapses(j)
           \/ LoopExits \/ ClaimNone \/ ClaimLocked \/ WaitReturns \/ ClearWake
           \/ HandlerRaises \/ FinishLocked \/ FailLocked
           \/ Stop \/ ProcessExits \/ UNCHANGED vars
  <2>1. UNCHANGED <<status, runs>>
    BY <1>5 DEF SetWake, BackoffElapses, LoopExits, ClaimNone, ClaimLocked,
       WaitReturns, ClearWake, HandlerRaises, FinishLocked, FailLocked, Stop,
       ProcessExits, vars
  <2> QED BY <2>1, <1>a
<1> QED BY <1>1, <1>2, <1>3, <1>4, <1>5 DEF Next, WorkerStep, HandlerEnds

\* The runner implements its contract.
THEOREM KeepsContractHolds == Spec => KeepsContract
<1>1. Init => Contract!ContractInit
  BY DEF Init, Contract!ContractInit
<1>2. IInv /\ [Next]_vars => [Contract!ContractNext]_(Contract!contractVars)
  BY StepKeepsContract
<1> QED BY <1>1, <1>2, Invariance, PTL
        DEF Spec, KeepsContract, Contract!ContractSpec

\* Once done or dead, a job is never reopened.
LEMMA StepKeepsSettled ==
  ASSUME IInv, [Next]_vars, NEW j \in JobIds, status[j] \in {"done", "dead"}
  PROVE  status'[j] = status[j]
<1> USE DEF IInv, TypeOK, table, thread, bounds
<1>1. CASE \E p \in Producers, k \in Kinds : Enqueue(p, k)
  BY <1>1, JobQueueAssumption DEF Enqueue, EnqueueJob, Insert, RowsOK, JobIds
<1>2. CASE \E k \in Kinds : EnqueueDirect(k)
  BY <1>2, JobQueueAssumption, SMTT(30)
     DEF EnqueueDirect, EnqueueJob, Insert, RowsOK, JobIds
<1>3. CASE ClaimJob
  BY <1>3 DEF ClaimJob, Claimable
<1>4. CASE FinishJob
  BY <1>4 DEF FinishJob, HandOK, Holding
<1>5. CASE FailJob
  BY <1>5 DEF FailJob, SettleFailed, HandOK, Holding
<1>6. CASE Start
  BY <1>6 DEF Start, RequeueStaleJobs
<1>7. CASE UNCHANGED status
  BY <1>7
<1> QED BY <1>1, <1>2, <1>3, <1>4, <1>5, <1>6, <1>7
        DEF Next, WorkerStep, HandlerEnds, SetWake, BackoffElapses, LoopExits,
            ClaimNone, ClaimLocked, WaitReturns, ClearWake, HandlerReturns,
            HandlerRaises, FinishLocked, FailLocked, Stop, ProcessExits, vars

\* No step, whichever thread takes it, reopens a done or dead row
\* (storage.py finish_job, fail_job, requeue_stale_jobs).
THEOREM SettledIsFinalHolds == Spec => SettledIsFinal
<1>1. IInv /\ [Next]_vars
        => [\A j \in JobIds : status[j] \in {"done", "dead"}
              => status'[j] = status[j]]_vars
  BY StepKeepsSettled
<1> QED BY <1>1, Invariance, PTL DEF Spec, SettledIsFinal
=============================================================================
