--------------------------- MODULE RecordsProofs ----------------------------
(***************************************************************************)
(* Proofs about RecordsPromotion, for every number of threads, packets and *)
(* crashes, with forwarding and the claim builder or without.              *)
(*                                                                         *)
(* The argument: whoever runs deliver, retry or the handling of an answer  *)
(* holds a packet a human approved (Consented), because a packet becomes   *)
(* approved, submitted or failed only at such hands (ApprovedPackets) and  *)
(* only such packets are queued (Queued).                                  *)
(* That a rejection is final is a second argument, for one session at a    *)
(* time: what is in the hands of a delivery was decided before (StaysOut). *)
(***************************************************************************)
EXTENDS RecordsPromotion, TLAPS

\* operations that hold a packet a human approved
Consenting == {"approve", "retry", "deliver", "record", "fail", "stale",
               "unavailable"}

\* calls only those operations make
ConsentCalls == {"outbox", "deliver", "check", "send"}

AllCalls == {"list", "close", "read", "claim", "mint", "settle", "packet",
             "outbox", "deliver", "offer", "check", "send", "done", "mark",
             "refused", "postponed"}

AllOps == {"idle", "propose", "pick", "approve", "edit", "reject", "expire",
           "discard", "retry", "forward", "conflict", "lose", "remint",
           "deliver", "record", "fail", "stale", "unavailable"}

Threading ==
    /\ op \in [Threads -> AllOps]
    /\ todo \in [Threads -> Seq(AllCalls)]
    /\ pkt \in [Threads -> PacketIds \cup {NoPacket}]

\* a thread in a consenting operation holds an approved packet, and one that
\* handles a "recorded" answer holds a written one
Consented ==
    \A t \in Threads :
        /\ op[t] \in Consenting => pkt[t] \in approved
        /\ op[t] = "record" => pkt[t] \in PacketIds /\ versions[pkt[t]] = 1

\* only consenting operations reach the calls of delivery
Careful ==
    \A t \in Threads : \A i \in 1..Len(todo[t]) :
        todo[t][i] \in ConsentCalls => op[t] \in Consenting

Control == Threading /\ Consented /\ Careful

Tables ==
    /\ packet \in [PacketIds -> PacketStates]
    /\ versions \in [PacketIds -> {0, 1}]
    /\ recordRef \in PacketIds \cup {NoPacket}
    /\ outbox \subseteq PacketIds /\ batch \subseteq PacketIds
    /\ approved \subseteq PacketIds

ApprovedPackets ==
    \A p \in PacketIds :
        packet[p] \in {"approved", "submitted", "recorded", "failed"}
            => p \in approved

Queued == outbox \subseteq approved /\ batch \subseteq approved
          /\ sending \subseteq approved

Data == Tables /\ ApprovedPackets /\ Queued /\ RecordedIsWritten

IInv == Control /\ Data

-----------------------------------------------------------------------------
(* The operations                                                          *)

LEMMA OpsAre == Ops = AllOps
  BY SMTT(30) DEF Ops, AllOps, Calls

LEMMA CallsAre ==
    ASSUME NEW o \in AllOps
    PROVE  /\ Calls[o] \in Seq(AllCalls)
           /\ \A i \in 1..Len(Calls[o]) :
                Calls[o][i] \in ConsentCalls => o \in Consenting
<1> USE DEF AllCalls, ConsentCalls, Consenting
<1>1. CASE o = "idle"
  <2>1. Calls[o] = <<>>
    BY <1>1 DEF Calls
  <2> QED BY <2>1, <1>1
<1>2. CASE o = "propose"
  <2>1. Calls[o] = <<"list", "close", "read", "claim", "mint">>
    BY <1>2 DEF Calls
  <2> QED BY <2>1, <1>2
<1>3. CASE o = "pick"
  <2>1. Calls[o] = <<"list", "close", "read", "claim", "mint", "settle">>
    BY <1>3 DEF Calls
  <2> QED BY <2>1, <1>3
<1>4. CASE o = "approve"
  <2>1. Calls[o] = <<"packet", "read", "claim", "outbox", "deliver">>
    BY <1>4 DEF Calls
  <2> QED BY <2>1, <1>4
<1>5. CASE o = "edit"
  <2>1. Calls[o] = <<"packet", "read", "claim", "mint">>
    BY <1>5 DEF Calls
  <2> QED BY <2>1, <1>5
<1>6. CASE o = "reject"
  <2>1. Calls[o] = <<"packet", "read", "claim">>
    BY <1>6 DEF Calls
  <2> QED BY <2>1, <1>6
<1>7. CASE o = "expire"
  <2>1. Calls[o] = <<"read", "claim", "list", "close">>
    BY <1>7 DEF Calls
  <2> QED BY <2>1, <1>7
<1>8. CASE o = "discard"
  <2>1. Calls[o] = <<"read", "claim", "list", "close">>
    BY <1>8 DEF Calls
  <2> QED BY <2>1, <1>8
<1>9. CASE o = "retry"
  <2>1. Calls[o] = <<"packet", "read", "claim", "outbox">>
    BY <1>9 DEF Calls
  <2> QED BY <2>1, <1>9
<1>10. CASE o = "forward"
  <2>1. Calls[o] = <<"offer", "packet">>
    BY <1>10 DEF Calls
  <2> QED BY <2>1, <1>10
<1>11. CASE o = "conflict"
  <2>1. Calls[o] = <<"read", "claim">>
    BY <1>11 DEF Calls
  <2> QED BY <2>1, <1>11
<1>12. CASE o = "lose"
  <2>1. Calls[o] = <<"read", "claim">>
    BY <1>12 DEF Calls
  <2> QED BY <2>1, <1>12
<1>13. CASE o = "remint"
  <2>1. Calls[o] = <<"list", "close", "read", "claim", "mint">>
    BY <1>13 DEF Calls
  <2> QED BY <2>1, <1>13
<1>14. CASE o = "deliver"
  <2>1. Calls[o] = <<"check", "packet", "send">>
    BY <1>14 DEF Calls
  <2> QED BY <2>1, <1>14
<1>15. CASE o = "record"
  <2>1. Calls[o] = <<"packet", "read", "claim", "done">>
    BY <1>15 DEF Calls
  <2> QED BY <2>1, <1>15
<1>16. CASE o = "fail"
  <2>1. Calls[o] = <<"packet", "read", "claim", "refused">>
    BY <1>16 DEF Calls
  <2> QED BY <2>1, <1>16
<1>17. CASE o = "stale"
  <2>1.
        Calls[o] = <<"packet", "list", "close", "read", "claim", "mint", "refused">>
    BY <1>17 DEF Calls
  <2> QED BY <2>1, <1>17
<1>18. CASE o = "unavailable"
  <2>1. Calls[o] = <<"packet", "postponed">>
    BY <1>18 DEF Calls
  <2> QED BY <2>1, <1>18
<1> QED BY <1>1, <1>2, <1>3, <1>4, <1>5, <1>6, <1>7, <1>8, <1>9, <1>10, <1>11, <1>12, <1>13, <1>14, <1>15, <1>16, <1>17, <1>18 DEF AllOps

LEMMA PacketToIs ==
    ASSUME NEW o \in AllOps
    PROVE  /\ PacketTo[o] \in PacketStates
           /\ PacketTo[o] \in {"approved", "submitted", "recorded", "failed"}
                => o \in Consenting
           /\ PacketTo[o] = "recorded" => o = "record"
  BY OpsAre, SMTT(30) DEF AllOps, PacketTo, PacketStates, Consenting

LEMMA ClaimToIs ==
    ASSUME NEW o \in AllOps
    PROVE  ClaimTo[o] = "recorded" => o = "record"
  BY OpsAre, SMTT(30) DEF AllOps, ClaimTo

-----------------------------------------------------------------------------
(* What the steps of a thread keep                                         *)

\* no approval is withdrawn, no version unwritten
Grows ==
    /\ approved \subseteq approved' /\ approved' \subseteq PacketIds
    /\ \A p \in PacketIds : versions[p] = 1 => versions'[p] = 1

LEMMA ControlRests ==
    ASSUME Control, Grows, UNCHANGED control
    PROVE  Control'
  BY DEF Control, Threading, Consented, Careful, Grows, control

LEMMA RunKeeps ==
    ASSUME Control, Grows, NEW t \in Threads, NEW o \in AllOps,
           NEW p \in PacketIds \cup {NoPacket}, Run(t, o, p),
           o \in Consenting => p \in approved',
           o = "record" => p \in PacketIds /\ versions'[p] = 1
    PROVE  Control'
<1>1. Threading'
  BY CallsAre DEF Control, Threading, Run
<1>2. Consented'
  BY DEF Control, Threading, Consented, Run, Grows
<1>3. Careful'
  BY CallsAre DEF Control, Threading, Careful, Run
<1> QED BY <1>1, <1>2, <1>3 DEF Control

LEMMA RestKeeps ==
    ASSUME Control, Grows, NEW t \in Threads, Rest(t)
    PROVE  Control'
<1>1. "idle" \in AllOps /\ "idle" \notin Consenting /\ "idle" # "record"
  BY DEF AllOps, Consenting
<1> QED BY <1>1, RunKeeps DEF Rest

LEMMA SkipKeeps ==
    ASSUME Control, Grows, NEW t \in Threads,
           NEW c \in AllCalls \ ConsentCalls, Skip(t, c)
    PROVE  Control'
<1>1. Threading'
  BY DEF Control, Threading, Skip
<1>2. Consented'
  BY DEF Control, Consented, Skip, Grows
<1>3. Careful'
  BY DEF Control, Threading, Careful, Skip
<1> QED BY <1>1, <1>2, <1>3 DEF Control

LEMMA AdvanceKeeps ==
    ASSUME Control, Grows, NEW t \in Threads, Advance(t), todo[t] # <<>>
    PROVE  Control'
<1>1. CASE Rest(t)
  BY <1>1, RestKeeps
<1>2. CASE /\ todo' = [todo EXCEPT ![t] = Tail(@)]
           /\ UNCHANGED <<op, pkt>>
  <2>0. todo[t] \in Seq(AllCalls)
    BY DEF Control, Threading
  <2>1. /\ Tail(todo[t]) \in Seq(AllCalls)
        /\ \A i \in 1..Len(Tail(todo[t])) :
             /\ i + 1 \in 1..Len(todo[t])
             /\ Tail(todo[t])[i] = todo[t][i + 1]
    BY <2>0
  <2>2. Threading'
    BY <1>2, <2>1 DEF Control, Threading
  <2>3. Consented'
    BY <1>2 DEF Control, Consented, Grows
  <2>4. Careful'
    BY <1>2, <2>1 DEF Control, Threading, Careful
  <2> QED BY <2>2, <2>3, <2>4 DEF Control
<1> QED BY <1>1, <1>2 DEF Advance

\* who makes a call of delivery holds an approved packet
LEMMA AtConsents ==
    ASSUME Control, NEW t \in Threads, NEW c \in ConsentCalls, At(t, c)
    PROVE  pkt[t] \in approved
<1>1. todo[t] \in Seq(AllCalls) /\ todo[t] # <<>> /\ todo[t][1] = c
  BY DEF At, Control, Threading
<1>2. 1 \in 1..Len(todo[t])
  BY <1>1
<1> QED BY <1>1, <1>2 DEF Control, Careful, Consented

-----------------------------------------------------------------------------
(* What they keep of the tables                                            *)

LEMMA DataRests ==
    ASSUME Data, Grows, UNCHANGED <<packet, claim, recordRef, versions>>,
           outbox' \subseteq outbox, batch' \subseteq batch \cup outbox,
           sending' \subseteq sending \cup approved'
    PROVE  Data'
<1>1. Tables' /\ ApprovedPackets' /\ Queued'
  BY DEF Data, Tables, ApprovedPackets, Queued, Grows
<1>2. RecordedIsWritten'
  BY DEF Data, RecordedIsWritten
<1> QED BY <1>1, <1>2 DEF Data

LEMMA PacketMoves ==
    ASSUME Data, NEW p, NEW s \in PacketStates,
           packet' = [packet EXCEPT ![p] = s],
           s \in {"approved", "submitted", "recorded", "failed"}
              => p \in approved,
           s = "recorded" => versions[p] = 1,
           UNCHANGED <<claim, recordRef, outbox, batch, sending, versions,
                       approved>>
    PROVE  Data'
<1>1. Tables'
  BY DEF Data, Tables
<1>2. ApprovedPackets' /\ Queued'
  BY DEF Data, Tables, ApprovedPackets, Queued
<1>3. RecordedIsWritten'
  BY DEF Data, Tables, RecordedIsWritten
<1> QED BY <1>1, <1>2, <1>3 DEF Data

\* the service writes at most one version, of a packet that was approved
LEMMA AcceptKeeps ==
    ASSUME Data, NEW p \in approved, Accept(p) \/ UNCHANGED ledgers,
           sending' \subseteq sending,
           UNCHANGED <<claim, recordRef, packet, outbox, batch, approved>>
    PROVE  Data' /\ Grows
<1>1. p \in PacketIds
  BY DEF Data, Tables
<1>2. \/ UNCHANGED versions
      \/ versions' = [versions EXCEPT ![p] = 1]
  BY DEF Accept, ledgers
<1>3. Tables' /\ Grows
  BY <1>1, <1>2 DEF Data, Tables, Grows
<1>4. ApprovedPackets' /\ Queued'
  BY DEF Data, ApprovedPackets, Queued
<1>5. RecordedIsWritten'
  BY <1>1, <1>2, SMTT(30) DEF Data, Tables, RecordedIsWritten, NoPacket
<1> QED BY <1>3, <1>4, <1>5 DEF Data

-----------------------------------------------------------------------------
(* The steps that begin an operation                                       *)

LEMMA BeginKeeps ==
    ASSUME IInv, NEW t \in Threads, NEW o \in AllOps \ {"record"},
           NEW p \in PacketIds \cup {NoPacket}, Begin(t, o, p),
           UNCHANGED <<claim, recordRef, packet, outbox>>,
           approved \subseteq approved', approved' \subseteq PacketIds,
           o \in Consenting => p \in approved'
    PROVE  IInv'
<1>1. UNCHANGED <<batch, versions, sending>> /\ Run(t, o, p)
  BY DEF Begin, drain, service
<1>2. Grows
  BY <1>1 DEF Grows
<1>3. Control'
  BY <1>1, <1>2, RunKeeps DEF IInv
<1>4. Data'
  BY <1>1, <1>2, DataRests DEF IInv
<1> QED BY <1>3, <1>4 DEF IInv

LEMMA ProposeKeeps ==
    ASSUME IInv, NEW t \in Threads, Propose(t)
    PROVE  IInv'
<1>1. \E o \in {"propose", "pick"} : Begin(t, o, NoPacket)
  BY DEF Propose
<1>2. PICK o \in {"propose", "pick"} : Begin(t, o, NoPacket)
  BY <1>1
<1>3. o \in AllOps \ {"record"} /\ o \notin Consenting
  BY DEF AllOps, Consenting
<1> QED BY <1>2, <1>3, BeginKeeps
        DEF Propose, claims, packets, IInv, Data, Tables

LEMMA DecideKeeps ==
    ASSUME IInv, NEW t \in Threads, NEW p \in PacketIds,
           NEW verdict \in {"approve", "edit", "reject"}, Decide(t, p, verdict)
    PROVE  IInv'
<1>1. /\ verdict \in AllOps \ {"record"}
      /\ verdict \in Consenting => verdict = "approve"
  BY DEF AllOps, Consenting
<1>2. approved \subseteq PacketIds
  BY DEF IInv, Data, Tables
<1> QED BY <1>1, <1>2, BeginKeeps DEF Decide, claims, packets

LEMMA RetryKeeps ==
    ASSUME IInv, NEW t \in Threads, NEW p \in PacketIds, Retry(t, p)
    PROVE  IInv'
<1>1. p \in approved
  BY DEF Retry, Retryable, IInv, Data, ApprovedPackets
<1>2. "retry" \in AllOps \ {"record"}
  BY DEF AllOps
<1> QED BY <1>1, <1>2, BeginKeeps
        DEF Retry, claims, packets, IInv, Data, Tables

\* the operations that hold no approved packet
LEMMA OtherBeginsKeep ==
    ASSUME IInv, NEW t \in Threads, NEW p \in PacketIds,
           \/ Forward(t, p) \/ Discard(t) \/ Lose(t)
           \/ MarkConflict \/ ExpireStale \/ Reconcile
    PROVE  IInv'
<1>0. Worker \in Threads
  BY DEF Threads
<1>1. /\ UNCHANGED <<claim, recordRef, packet, outbox, approved>>
      /\ \E u \in Threads, o \in {"forward", "discard", "lose", "conflict",
                                  "expire", "remint"},
            q \in PacketIds \cup {NoPacket} : Begin(u, o, q)
  BY <1>0 DEF Forward, Discard, Lose, MarkConflict, ExpireStale, Reconcile,
              claims, packets
<1>2. PICK u \in Threads, o \in {"forward", "discard", "lose", "conflict",
                                 "expire", "remint"},
           q \in PacketIds \cup {NoPacket} : Begin(u, o, q)
  BY <1>1
<1>3. o \in AllOps \ {"record"} /\ o \notin Consenting
  BY DEF AllOps, Consenting
<1> QED BY <1>1, <1>2, <1>3, BeginKeeps DEF IInv, Data, Tables

LEMMA DrainKeeps ==
    ASSUME IInv, DrainStart \/ DrainRow
    PROVE  IInv'
<1>0. Worker \in Threads /\ Grows
  BY DEF Threads, Grows, DrainStart, DrainRow, service, history, IInv, Data,
         Tables
<1>1. Data'
  <2>1. UNCHANGED <<packet, claim, recordRef, versions, outbox, sending>>
    BY DEF DrainStart, DrainRow, claims, packets, service
  <2>2. batch' \subseteq batch \cup outbox
    BY DEF DrainStart, DrainRow
  <2> QED BY <1>0, <2>1, <2>2, DataRests DEF IInv
<1>2. CASE DrainStart
  BY <1>0, <1>1, <1>2, ControlRests DEF DrainStart, IInv
<1>3. CASE DrainRow
  <2>1. PICK p \in batch : Run(Worker, "deliver", p)
    BY <1>3 DEF DrainRow
  <2>2. p \in approved' /\ p \in PacketIds /\ "deliver" \in AllOps
    BY <1>0 DEF IInv, Data, Queued, Tables, Grows, AllOps
  <2>3. Control'
    BY <1>0, <2>1, <2>2, RunKeeps DEF IInv
  <2> QED BY <1>1, <2>3 DEF IInv
<1> QED BY <1>2, <1>3

-----------------------------------------------------------------------------
(* The calls of a thread                                                   *)

\* calls that touch no table of the proof
LEMMA LocalCallsKeep ==
    ASSUME IInv, NEW t \in Threads,
           \/ ListPackets(t) \/ AllClosed(t) \/ SettleRival(t)
           \/ MarkDone(t) \/ Offer(t)
    PROVE  IInv'
<1>1. /\ Grows /\ todo[t] # <<>>
      /\ UNCHANGED <<packet, claim, recordRef, versions, batch, sending>>
      /\ outbox' \subseteq outbox
  BY DEF ListPackets, AllClosed, SettleRival, MarkDone, Offer, Grows, At,
         claims, packets, drain, service, history, IInv, Data, Tables
<1>2. Advance(t) \/ Rest(t)
  BY DEF ListPackets, AllClosed, SettleRival, MarkDone, Offer
<1>3. Control'
  BY <1>1, <1>2, AdvanceKeeps, RestKeeps DEF IInv
<1>4. Data'
  BY <1>1, DataRests DEF IInv
<1> QED BY <1>3, <1>4 DEF IInv

LEMMA ReadClaimKeeps ==
    ASSUME IInv, NEW t \in Threads, ReadClaim(t)
    PROVE  IInv'
<1>1. /\ Grows /\ todo[t] # <<>>
      /\ UNCHANGED <<packet, claim, recordRef, versions, outbox, sending>>
  BY DEF ReadClaim, Grows, At, claims, packets, service, history, IInv, Data,
         Tables
<1>2. batch' \subseteq batch
  BY DEF ReadClaim, Refuse, drain
<1>3. Advance(t) \/ Rest(t) \/ Skip(t, "refused")
  BY DEF ReadClaim, Refuse
<1>4. "refused" \in AllCalls \ ConsentCalls
  BY DEF AllCalls, ConsentCalls
<1>5. Control'
  BY <1>1, <1>3, <1>4, AdvanceKeeps, RestKeeps, SkipKeeps DEF IInv
<1>6. Data'
  BY <1>1, <1>2, DataRests DEF IInv
<1> QED BY <1>5, <1>6 DEF IInv

LEMMA WriteClaimKeeps ==
    ASSUME IInv, NEW t \in Threads, WriteClaim(t)
    PROVE  IInv'
<1>1. /\ Grows /\ todo[t] # <<>> /\ Advance(t)
      /\ UNCHANGED <<packet, versions, outbox, batch, sending, approved>>
  BY DEF WriteClaim, Grows, At, packets, drain, service, history, IInv, Data,
         Tables
<1>2. Control'
  BY <1>1, AdvanceKeeps DEF IInv
<1>3. Tables' /\ ApprovedPackets' /\ Queued'
  <2>1. op[t] = "record" => pkt[t] \in PacketIds
    BY DEF IInv, Control, Consented
  <2> QED BY <1>1, <2>1
          DEF WriteClaim, IInv, Data, Tables, ApprovedPackets, Queued
<1>4. RecordedIsWritten'
  <2>1. op[t] \in AllOps
    BY DEF IInv, Control, Threading
  <2>2. claim' = "recorded" => op[t] = "record"
    BY <2>1, ClaimToIs DEF WriteClaim
  <2>3. op[t] = "record" =>
          /\ recordRef' = pkt[t] /\ pkt[t] \in PacketIds
          /\ versions[pkt[t]] = 1
    BY DEF WriteClaim, IInv, Control, Consented
  <2> QED BY <1>1, <2>2, <2>3
          DEF RecordedIsWritten, PacketIds, NoPacket, IInv, Data
<1> QED BY <1>2, <1>3, <1>4 DEF IInv, Data

\* the only call that gives a packet a state of delivery
LEMMA WritePacketKeeps ==
    ASSUME IInv, NEW t \in Threads, WritePacket(t)
    PROVE  IInv'
<1>1. /\ Grows /\ todo[t] # <<>> /\ Advance(t)
      /\ UNCHANGED <<claim, recordRef, outbox, batch, sending, versions,
                     approved>>
      /\ packet' = [packet EXCEPT ![pkt[t]] = PacketTo[op[t]]]
  BY DEF WritePacket, Grows, At, claims, drain, service, history, IInv, Data,
         Tables
<1>2. op[t] \in AllOps
  BY DEF IInv, Control, Threading
<1>3. /\ PacketTo[op[t]] \in PacketStates
      /\ PacketTo[op[t]] \in {"approved", "submitted", "recorded", "failed"}
           => pkt[t] \in approved
      /\ PacketTo[op[t]] = "recorded" => versions[pkt[t]] = 1
  BY <1>2, PacketToIs DEF IInv, Control, Consented
<1>4. Data'
  BY <1>1, <1>3, PacketMoves DEF IInv
<1>5. Control'
  BY <1>1, AdvanceKeeps DEF IInv
<1> QED BY <1>4, <1>5 DEF IInv

\* packets closed or minted
LEMMA CloseOneKeeps ==
    ASSUME IInv, NEW t \in Threads, CloseOne(t)
    PROVE  IInv'
<1>1. PICK p \in listed[t], s \in {"expired", "superseded"} :
         packet' = [packet EXCEPT ![p] = s]
  BY DEF CloseOne
<1>2. s \in PacketStates
  BY DEF PacketStates
<1>3. /\ UNCHANGED <<claim, recordRef, outbox, batch, sending, versions,
                     approved>>
      /\ UNCHANGED control /\ Grows
  BY DEF CloseOne, claims, drain, service, history, Grows, IInv, Data, Tables
<1> QED BY <1>1, <1>2, <1>3, PacketMoves, ControlRests DEF IInv

LEMMA DecideTooLateKeeps ==
    ASSUME IInv, NEW t \in Threads, NEW p \in PacketIds, DecideTooLate(t, p)
    PROVE  IInv'
<1>1. /\ UNCHANGED <<claim, recordRef, outbox, batch, sending, versions,
                     approved>>
      /\ UNCHANGED control /\ Grows
      /\ packet' = [packet EXCEPT ![p] = "expired"]
  BY DEF DecideTooLate, claims, drain, service, history, Grows, IInv, Data,
         Tables
<1>2. "expired" \in PacketStates
  BY DEF PacketStates
<1> QED BY <1>1, <1>2, PacketMoves, ControlRests DEF IInv

LEMMA MintKeeps ==
    ASSUME IInv, NEW t \in Threads, Mint(t)
    PROVE  IInv'
<1>1. /\ Grows /\ todo[t] # <<>>
      /\ Advance(t) \/ Rest(t)
      /\ UNCHANGED <<claim, recordRef, outbox, batch, sending, versions,
                     approved>>
  BY DEF Mint, Grows, At, claims, drain, service, history, IInv, Data, Tables
<1>2. Control'
  BY <1>1, AdvanceKeeps, RestKeeps DEF IInv
<1>3. CASE UNCHANGED packet
  BY <1>1, <1>2, <1>3, DataRests DEF IInv
<1>4. CASE \E p \in PacketIds : packet' = [packet EXCEPT ![p] = "open"]
  <2>1. "open" \in PacketStates
    BY DEF PacketStates
  <2> QED BY <1>1, <1>2, <1>4, <2>1, PacketMoves DEF IInv
<1> QED BY <1>3, <1>4 DEF Mint

LEMMA EnqueueSubmitKeeps ==
    ASSUME IInv, NEW t \in Threads, EnqueueSubmit(t)
    PROVE  IInv'
<1>1. /\ Grows /\ todo[t] # <<>> /\ Advance(t)
      /\ UNCHANGED <<packet, claim, recordRef, batch, sending, versions,
                     approved>>
      /\ outbox' = outbox \cup {pkt[t]}
  BY DEF EnqueueSubmit, Grows, At, claims, packets, drain, service, history,
         IInv, Data, Tables
<1>2. pkt[t] \in approved
  BY AtConsents DEF EnqueueSubmit, ConsentCalls, IInv
<1>3. Control'
  BY <1>1, AdvanceKeeps DEF IInv
<1>4. Tables' /\ ApprovedPackets' /\ Queued' /\ RecordedIsWritten'
  BY <1>1, <1>2
     DEF IInv, Data, Tables, ApprovedPackets, Queued, RecordedIsWritten
<1> QED BY <1>3, <1>4 DEF IInv, Data

LEMMA DeliverInlineKeeps ==
    ASSUME IInv, NEW t \in Threads, DeliverInline(t)
    PROVE  IInv'
<1>1. /\ Grows /\ Run(t, "deliver", pkt[t])
      /\ UNCHANGED <<packet, claim, recordRef, versions, outbox, batch,
                     sending, approved>>
  BY DEF DeliverInline, Grows, claims, packets, drain, service, history,
         IInv, Data, Tables
<1>2. pkt[t] \in approved' /\ pkt[t] \in PacketIds
  BY <1>1, AtConsents DEF DeliverInline, ConsentCalls, IInv, Data, Tables
<1>3. "deliver" \in AllOps
  BY DEF AllOps
<1>4. Control'
  BY <1>1, <1>2, <1>3, RunKeeps DEF IInv
<1>5. Data'
  BY <1>1, DataRests DEF IInv
<1> QED BY <1>4, <1>5 DEF IInv

LEMMA CheckDeliveryKeeps ==
    ASSUME IInv, NEW t \in Threads, CheckDelivery(t)
    PROVE  IInv'
<1>1. /\ Grows /\ todo[t] # <<>>
      /\ UNCHANGED <<packet, claim, recordRef, versions, outbox, batch,
                     sending, approved>>
  BY DEF CheckDelivery, Grows, At, claims, packets, drain, service, history,
         IInv, Data, Tables
<1>2. pkt[t] \in approved' /\ pkt[t] \in PacketIds
  BY <1>1, AtConsents DEF CheckDelivery, ConsentCalls, IInv, Data, Tables
<1>3. Advance(t) \/ Skip(t, "done") \/ Run(t, "fail", pkt[t])
  BY DEF CheckDelivery
<1>4. "fail" \in AllOps /\ "done" \in AllCalls \ ConsentCalls
  BY DEF AllOps, AllCalls, ConsentCalls
<1>5. Control'
  BY <1>1, <1>2, <1>3, <1>4, AdvanceKeeps, SkipKeeps, RunKeeps DEF IInv
<1>6. Data'
  BY <1>1, DataRests DEF IInv
<1> QED BY <1>5, <1>6 DEF IInv

LEMMA SendKeeps ==
    ASSUME IInv, NEW t \in Threads, Send(t)
    PROVE  IInv'
<1>1. pkt[t] \in approved /\ pkt[t] \in PacketIds
  BY AtConsents DEF Send, ConsentCalls, IInv, Data, Tables
<1>2. /\ Accept(pkt[t]) \/ UNCHANGED ledgers
      /\ UNCHANGED <<claim, recordRef, packet, outbox, batch, sending,
                     approved>>
  BY DEF Send, claims, packets, drain, history
<1>3. Data' /\ Grows
  BY <1>1, <1>2, AcceptKeeps DEF IInv
<1>4. CASE Accept(pkt[t]) /\ Run(t, "record", pkt[t])
  <2>1. versions'[pkt[t]] = 1
    BY <1>1, <1>4 DEF Accept, ledgers, IInv, Data, Tables
  <2>2. "record" \in AllOps
    BY DEF AllOps
  <2>3. Control'
    BY <1>1, <1>2, <1>3, <1>4, <2>1, <2>2, RunKeeps DEF IInv
  <2> QED BY <1>3, <2>3 DEF IInv
<1>5. CASE \E o \in {"unavailable", "fail", "stale"} : Run(t, o, pkt[t])
  <2>1. PICK o \in {"unavailable", "fail", "stale"} : Run(t, o, pkt[t])
    BY <1>5
  <2>2. o \in AllOps /\ o # "record"
    BY DEF AllOps
  <2>3. Control'
    BY <1>1, <1>2, <1>3, <2>1, <2>2, RunKeeps DEF IInv
  <2> QED BY <1>3, <2>3 DEF IInv
<1> QED BY <1>4, <1>5 DEF Send

LEMMA ReturnsKeep ==
    ASSUME IInv, NEW t \in Threads,
           Delivered(t) \/ Refused(t) \/ Postponed(t)
    PROVE  IInv'
<1>1. /\ Grows
      /\ UNCHANGED <<packet, claim, recordRef, versions, batch, sending>>
  BY DEF Delivered, Refused, Postponed, Grows, claims, packets, service,
         history, IInv, Data, Tables
<1>2. outbox' \subseteq outbox
  BY DEF Delivered, Refused, Postponed, RowDone
<1>3. Rest(t) \/ Skip(t, "mark")
  BY DEF Delivered, Refused, Postponed
<1>4. "mark" \in AllCalls \ ConsentCalls
  BY DEF AllCalls, ConsentCalls
<1>5. Control'
  BY <1>1, <1>3, <1>4, RestKeeps, SkipKeeps DEF IInv
<1>6. Data'
  BY <1>1, <1>2, DataRests DEF IInv
<1> QED BY <1>5, <1>6 DEF IInv

-----------------------------------------------------------------------------
(* The service, the clock, a crash                                         *)

LEMMA ApproverKeeps ==
    ASSUME IInv, NEW p \in PacketIds,
           ApproverApproves(p) \/ ApproverSubmits(p)
    PROVE  IInv'
<1>1. CASE ApproverApproves(p)
  <2>1. /\ UNCHANGED <<packet, claim, recordRef, versions, outbox, batch>>
        /\ UNCHANGED control
        /\ approved' = approved \cup {p} /\ sending' = sending \cup {p}
    BY <1>1 DEF ApproverApproves, claims, packets, drain, ledgers
  <2>2. Grows
    BY <2>1 DEF Grows, IInv, Data, Tables
  <2> QED BY <2>1, <2>2, ControlRests, DataRests DEF IInv
<1>2. CASE ApproverSubmits(p)
  <2>1. p \in approved
    BY <1>2 DEF ApproverSubmits, IInv, Data, Queued
  <2>2. /\ Accept(p) \/ UNCHANGED ledgers
        /\ sending' \subseteq sending /\ UNCHANGED control
        /\ UNCHANGED <<claim, recordRef, packet, outbox, batch, approved>>
    BY <1>2 DEF ApproverSubmits, claims, packets, drain, history
  <2> QED BY <2>1, <2>2, AcceptKeeps, ControlRests DEF IInv
<1> QED BY <1>1, <1>2

LEMMA ElsewhereKeeps ==
    ASSUME IInv, NEW p \in PacketIds,
           \/ WriteBackConflicts(p) \/ PacketTtlPasses(p) \/ ClaimTtlPasses
           \/ UNCHANGED vars
    PROVE  IInv'
<1>1. /\ UNCHANGED <<packet, claim, recordRef, versions, outbox, batch,
                     sending, approved>>
      /\ UNCHANGED control
  BY DEF WriteBackConflicts, PacketTtlPasses, ClaimTtlPasses, vars, claims,
         packets, drain, ledgers, service, history, control
<1>2. Grows
  BY <1>1 DEF Grows, IInv, Data, Tables
<1> QED BY <1>1, <1>2, ControlRests, DataRests DEF IInv

LEMMA CrashKeeps ==
    ASSUME IInv, Crash
    PROVE  IInv'
<1>1. /\ UNCHANGED <<packet, claim, recordRef, versions, outbox, sending,
                     approved>>
      /\ batch' = {}
  BY DEF Crash, claims, packets, service
<1>2. Grows
  BY <1>1 DEF Grows, IInv, Data, Tables
<1>3. Data'
  BY <1>1, <1>2, DataRests DEF IInv
<1>4. Threading' /\ Consented' /\ Careful'
  BY DEF Crash, Threading, Consented, Careful, AllOps, Consenting
<1> QED BY <1>3, <1>4 DEF IInv, Control

-----------------------------------------------------------------------------
(* The theorems                                                            *)

LEMMA CallKeeps ==
    ASSUME IInv, NEW t \in Threads, Call(t)
    PROVE  IInv'
  BY LocalCallsKeep, CloseOneKeeps, ReadClaimKeeps, WriteClaimKeeps,
     WritePacketKeeps, MintKeeps, EnqueueSubmitKeeps, DeliverInlineKeeps,
     CheckDeliveryKeeps, SendKeeps, ReturnsKeep DEF Call

LEMMA HumanRequestKeeps ==
    ASSUME IInv, NEW t \in Humans, HumanRequest(t)
    PROVE  IInv'
<1>1. t \in Threads /\ 1 \in PacketIds
  BY PromotionAssumption DEF Threads, PacketIds
<1> QED BY <1>1, ProposeKeeps, DecideKeeps, DecideTooLateKeeps, RetryKeeps,
           OtherBeginsKeep DEF HumanRequest

LEMMA WorkerTickKeeps ==
    ASSUME IInv, WorkerTick
    PROVE  IInv'
<1>1. Worker \in Threads /\ 1 \in PacketIds
  BY PromotionAssumption DEF Threads, PacketIds
<1>2. CASE AutoPropose
  BY <1>1, <1>2, ProposeKeeps DEF AutoPropose
<1>3. CASE MarkConflict \/ ExpireStale \/ Reconcile
  BY <1>1, <1>3, OtherBeginsKeep
<1>4. CASE DrainStart \/ DrainRow
  BY <1>4, DrainKeeps
<1> QED BY <1>2, <1>3, <1>4 DEF WorkerTick

\* The inductive invariant: who holds a packet in delivery holds an approved
\* one (promotion.py decide, deliver, retry; org_client.drain_outbox).
THEOREM RecordsInvariance == Spec => []IInv
<1>1. Init => IInv
  <2> SUFFICES ASSUME Init PROVE IInv
    OBVIOUS
  <2>1. Control
    BY DEF Init, Control, Threading, Consented, Careful, AllOps, Consenting
  <2>2. Data
    BY PromotionAssumption
       DEF Init, Data, Tables, ApprovedPackets, Queued, RecordedIsWritten,
           PacketStates
  <2> QED BY <2>1, <2>2 DEF IInv
<1>2. IInv /\ [Next]_vars => IInv'
  <2> SUFFICES ASSUME IInv, [Next]_vars PROVE IInv'
    OBVIOUS
  <2>0. 1 \in PacketIds
    BY PromotionAssumption DEF PacketIds
  <2>1. CASE \E t \in Threads : Call(t)
    BY <2>1, CallKeeps
  <2>2. CASE \E t \in Humans : HumanRequest(t)
    BY <2>2, HumanRequestKeeps
  <2>3. CASE WorkerTick
    BY <2>3, WorkerTickKeeps
  <2>4. CASE ServiceStep
    BY <2>4, ApproverKeeps, ElsewhereKeeps DEF ServiceStep
  <2>5. CASE (\E p \in PacketIds : PacketTtlPasses(p)) \/ ClaimTtlPasses
    BY <2>0, <2>5, ElsewhereKeeps
  <2>6. CASE Crash
    BY <2>6, CrashKeeps
  <2>7. CASE UNCHANGED vars
    BY <2>0, <2>7, ElsewhereKeeps
  <2> QED BY <2>1, <2>2, <2>3, <2>4, <2>5, <2>6, <2>7 DEF Next
<1> QED BY <1>1, <1>2, PTL DEF Spec

\* Whatever is shown as recorded is written at the service, for every number
\* of threads and crashes.
THEOREM RecordedIsWrittenHolds == Spec => []RecordedIsWritten
<1>1. IInv => RecordedIsWritten
  BY DEF IInv, Data
<1> QED BY <1>1, RecordsInvariance, PTL

\* Every step is an approval, a first writing or nothing to the organization.
LEMMA StepKeepsPromise ==
    ASSUME IInv, [Next]_vars
    PROVE  [Promise!RecordsNext]_(Promise!recordVars)
<1>a. ASSUME UNCHANGED <<approved, versions>>
      PROVE  UNCHANGED Promise!recordVars
  BY <1>a DEF Promise!recordVars
<1>b. ASSUME NEW p \in PacketIds, approved' = approved \cup {p},
             UNCHANGED versions
      PROVE  Promise!Approve(p)
  BY <1>b DEF Promise!Approve
<1>c. ASSUME NEW p \in PacketIds, p \in approved, UNCHANGED approved,
             Accept(p) \/ UNCHANGED ledgers
      PROVE  Promise!Write(p) \/ UNCHANGED Promise!recordVars
  BY <1>c DEF Accept, ledgers, Promise!Write, Promise!recordVars
<1>1. CASE \E t \in Threads : Send(t)
  <2>1. PICK t \in Threads : Send(t)
    BY <1>1
  <2>2. pkt[t] \in approved /\ pkt[t] \in PacketIds
    BY <2>1, AtConsents DEF Send, ConsentCalls, IInv, Data, Tables
  <2>3. PICK p \in PacketIds : p = pkt[t]
    BY <2>2
  <2>4. UNCHANGED approved /\ (Accept(p) \/ UNCHANGED ledgers)
    BY <2>1, <2>3 DEF Send, history
  <2> QED BY <1>c, <2>2, <2>3, <2>4 DEF Promise!RecordsNext
<1>2. CASE \E t \in Humans, p \in PacketIds,
              verdict \in {"approve", "edit", "reject"} : Decide(t, p, verdict)
  <2>1. PICK t \in Humans, p \in PacketIds,
             verdict \in {"approve", "edit", "reject"} : Decide(t, p, verdict)
    BY <1>2
  <2>2. UNCHANGED versions
    BY <2>1 DEF Decide, Begin, service
  <2>3. approved' = approved \cup {p} \/ UNCHANGED approved
    BY <2>1 DEF Decide
  <2> QED BY <1>a, <1>b, <2>2, <2>3 DEF Promise!RecordsNext
<1>3. CASE \E p \in PacketIds : ApproverApproves(p)
  BY <1>b, <1>3 DEF ApproverApproves, ledgers, Promise!RecordsNext
<1>4. CASE \E p \in PacketIds : ApproverSubmits(p)
  <2>1. PICK p \in PacketIds : ApproverSubmits(p)
    BY <1>4
  <2>2. p \in approved /\ UNCHANGED approved
    BY <2>1 DEF ApproverSubmits, history, IInv, Data, Queued
  <2>3. Accept(p) \/ UNCHANGED ledgers
    BY <2>1 DEF ApproverSubmits
  <2> QED BY <1>c, <2>1, <2>2, <2>3 DEF Promise!RecordsNext
<1>5. CASE UNCHANGED <<approved, versions>>
  BY <1>a, <1>5
<1>6. ASSUME NEW t \in Threads, Call(t), ~Send(t)
      PROVE  UNCHANGED <<approved, versions>>
  BY <1>6 DEF Call, ListPackets, CloseOne, AllClosed, ReadClaim, WriteClaim,
     SettleRival, WritePacket, Mint, EnqueueSubmit, DeliverInline, MarkDone,
     CheckDelivery, Delivered, Refused, Postponed, Offer, service, history
<1>7. ASSUME NEW t \in Threads,
             \/ Propose(t) \/ Discard(t) \/ Lose(t)
             \/ \E p \in PacketIds :
                  DecideTooLate(t, p) \/ Forward(t, p) \/ Retry(t, p)
      PROVE  UNCHANGED <<approved, versions>>
  BY <1>7 DEF Propose, Discard, Lose, DecideTooLate, Forward, Retry, Begin,
     service, history
<1>8. CASE WorkerTick
  <2>1. UNCHANGED <<approved, versions>>
    BY <1>8 DEF WorkerTick, AutoPropose, Propose, MarkConflict, ExpireStale,
       Reconcile, DrainStart, DrainRow, Begin, service, history
  <2> QED BY <1>a, <2>1
<1>9. CASE \/ Crash \/ ClaimTtlPasses \/ UNCHANGED vars
           \/ \E p \in PacketIds : WriteBackConflicts(p) \/ PacketTtlPasses(p)
  <2>1. UNCHANGED <<approved, versions>>
    BY <1>9 DEF Crash, ClaimTtlPasses, WriteBackConflicts, PacketTtlPasses,
       vars, ledgers, service, history
  <2> QED BY <1>a, <2>1
<1>10. CASE \E t \in Threads : Call(t)
  BY <1>1, <1>5, <1>6, <1>10
<1>11. CASE \E t \in Humans : HumanRequest(t)
  BY <1>2, <1>5, <1>7, <1>11 DEF HumanRequest, Threads
<1>12. CASE ServiceStep
  BY <1>3, <1>4, <1>9, <1>12 DEF ServiceStep
<1> QED BY <1>8, <1>9, <1>10, <1>11, <1>12 DEF Next

\* Whatever threads and crashes interleave, a record version is written only
\* for a packet a human approved, and once (docs/records-layer.md).
THEOREM KeepsPromiseHolds == Spec => KeepsPromise
<1>1. Init => Promise!RecordsInit
  BY DEF Init, Promise!RecordsInit
<1>2. IInv /\ [Next]_vars => [Promise!RecordsNext]_(Promise!recordVars)
  BY StepKeepsPromise
<1> QED BY <1>1, <1>2, RecordsInvariance, PTL
        DEF Spec, KeepsPromise, Promise!RecordsSpec
-----------------------------------------------------------------------------
(* Types: what IInv has no need of.                                        *)

Columns ==
    /\ claim \in ClaimStates /\ claimDue \in BOOLEAN /\ rival \in BOOLEAN
    /\ decision \in [PacketIds -> {"none", "approve", "edit", "reject"}]
    /\ packetDue \subseteq PacketIds /\ conflicted \subseteq PacketIds
    /\ forwarded \in [PacketIds -> {"none", "open", "recorded"}]
    /\ crashes \in 0..MaxCrashes

Locals ==
    /\ listed \in [Threads -> SUBSET PacketIds]
    /\ caller \in [Threads -> {"decide", "drain"}]
    /\ held \subseteq outbox

LEMMA ClaimToIsState ==
    ASSUME NEW o \in AllOps
    PROVE  ClaimTo[o] \in ClaimStates
  BY OpsAre, SMTT(30) DEF AllOps, ClaimTo, ClaimStates

LEMMA AcceptColumns ==
    ASSUME Columns, NEW p \in PacketIds, Accept(p) \/ UNCHANGED ledgers
    PROVE  forwarded' \in [PacketIds -> {"none", "open", "recorded"}]
  BY DEF Columns, Accept, ledgers

\* the calls that write a column
LEMMA CallColumns ==
    ASSUME IInv, Columns, NEW t \in Threads, Call(t)
    PROVE  Columns'
<1>1. CASE WriteClaim(t)
  <2>1. ClaimTo[op[t]] \in ClaimStates
    BY ClaimToIsState DEF IInv, Control, Threading
  <2> QED BY <1>1, <2>1
          DEF WriteClaim, Columns, packets, clock, service, history
<1>2. CASE SettleRival(t)
  BY <1>2 DEF SettleRival, Columns, packets, clock, service, history
<1>3. CASE WritePacket(t)
  BY <1>3 DEF WritePacket, Columns, claims, clock, service, history
<1>4. CASE Send(t)
  <2>1. pkt[t] \in PacketIds
    BY <1>4, AtConsents DEF Send, ConsentCalls, IInv, Data, Tables
  <2>2. Accept(pkt[t]) \/ UNCHANGED ledgers
    BY <1>4 DEF Send
  <2> QED BY <1>4, <2>1, <2>2, AcceptColumns
          DEF Send, Columns, claims, packets, clock, history
<1>5. CASE Offer(t)
  BY <1>5 DEF Offer, Columns, claims, packets, clock, history
<1>6. CASE CloseOne(t) \/ Mint(t)
  BY <1>6 DEF CloseOne, Mint, Columns, claims, clock, service, history
<1>7. CASE \/ ListPackets(t) \/ AllClosed(t) \/ ReadClaim(t)
           \/ EnqueueSubmit(t) \/ DeliverInline(t) \/ MarkDone(t)
           \/ CheckDelivery(t) \/ Delivered(t) \/ Refused(t) \/ Postponed(t)
  <2>1. UNCHANGED <<claims, decision, clock, service, history>>
    BY <1>7 DEF ListPackets, AllClosed, ReadClaim, EnqueueSubmit,
       DeliverInline, MarkDone, CheckDelivery, Delivered, Refused, Postponed,
       packets
  <2> QED BY <2>1 DEF Columns, claims, clock, service, history
<1> QED BY <1>1, <1>2, <1>3, <1>4, <1>5, <1>6, <1>7 DEF Call

LEMMA StepColumns ==
    ASSUME IInv, Columns, [Next]_vars
    PROVE  Columns'
<1>1. CASE \E t \in Threads : Call(t)
  BY <1>1, CallColumns
<1>2. ASSUME NEW t, HumanRequest(t) \/ AutoPropose
      PROVE  UNCHANGED <<claim, decision, clock, service, crashes>>
             /\ rival' \in {rival, FALSE}
  BY <1>2 DEF HumanRequest, AutoPropose, Propose, Discard, Lose, Decide, DecideTooLate,
     Forward, Retry, Begin, claims, packets, service, history
<1>3. CASE (\E t \in Humans : HumanRequest(t)) \/ AutoPropose
  BY <1>2, <1>3 DEF Columns, clock, service
<1>4. CASE MarkConflict \/ ExpireStale \/ Reconcile \/ DrainStart \/ DrainRow
  <2>1. UNCHANGED <<claim, decision, clock, service, crashes>>
        /\ rival' \in {rival, TRUE}
    BY <1>4 DEF MarkConflict, ExpireStale, Reconcile, DrainStart, DrainRow,
       Begin, claims, packets, history
  <2> QED BY <2>1 DEF Columns, clock, service
<1>5. CASE ServiceStep
  <2>1. PICK p \in PacketIds :
          ApproverApproves(p) \/ ApproverSubmits(p) \/ WriteBackConflicts(p)
    BY <1>5 DEF ServiceStep
  <2>2. UNCHANGED <<claims, packets, clock, crashes>>
    BY <2>1 DEF ApproverApproves, ApproverSubmits, WriteBackConflicts, history
  <2>3. conflicted' \in {conflicted, conflicted \cup {p}}
    BY <2>1 DEF ApproverApproves, ApproverSubmits, WriteBackConflicts
  <2>4. Accept(p) \/ UNCHANGED ledgers
    BY <2>1 DEF ApproverApproves, ApproverSubmits, WriteBackConflicts
  <2> QED BY <2>2, <2>3, <2>4, AcceptColumns DEF Columns, claims, packets, clock
<1>6. CASE (\E p \in PacketIds : PacketTtlPasses(p)) \/ ClaimTtlPasses
  BY <1>6 DEF PacketTtlPasses, ClaimTtlPasses, Columns, claims, packets,
     service, history
<1>7. CASE Crash
  BY <1>7, PromotionAssumption DEF Crash, Columns, claims, packets, clock, service
<1>8. CASE UNCHANGED vars
  BY <1>8 DEF Columns, vars
<1> QED BY <1>1, <1>3, <1>4, <1>5, <1>6, <1>7, <1>8 DEF Next, WorkerTick

LEMMA StepLocals ==
    ASSUME IInv, Locals, [Next]_vars
    PROVE  Locals'
<1>0. Worker \in Threads /\ Humans \subseteq Threads
  BY DEF Threads
<1>1. ASSUME NEW t \in Threads, Call(t)
      PROVE  Locals'
  <2>1. CASE ListPackets(t) \/ CloseOne(t)
    BY <2>1 DEF ListPackets, CloseOne, OpenPackets, Locals, drain
  <2>2. CASE EnqueueSubmit(t) \/ DeliverInline(t)
    BY <2>2 DEF EnqueueSubmit, DeliverInline, Locals, locals, drain
  <2>3. CASE MarkDone(t) \/ Delivered(t) \/ Refused(t) \/ Postponed(t)
    BY <2>3 DEF MarkDone, Delivered, Refused, Postponed, RowDone, Locals, locals
  <2>4. CASE ReadClaim(t)
    BY <2>4 DEF ReadClaim, Refuse, Locals, locals, drain
  <2>5. CASE \/ AllClosed(t) \/ WriteClaim(t) \/ SettleRival(t)
             \/ WritePacket(t) \/ Mint(t) \/ CheckDelivery(t) \/ Send(t)
             \/ Offer(t)
    BY <2>5 DEF AllClosed, WriteClaim, SettleRival, WritePacket, Mint,
       CheckDelivery, Send, Offer, Locals, locals, drain
  <2> QED BY <1>1, <2>1, <2>2, <2>3, <2>4, <2>5 DEF Call
<1>2. ASSUME NEW t, HumanRequest(t) \/ AutoPropose
      PROVE  UNCHANGED <<locals, drain, outbox>>
  BY <1>2 DEF HumanRequest, AutoPropose, Propose, Discard, Lose, Decide,
     DecideTooLate, Forward, Retry, Begin
<1>3. CASE \/ \E t \in Humans : HumanRequest(t)
           \/ AutoPropose \/ MarkConflict \/ ExpireStale \/ Reconcile
           \/ ServiceStep \/ ClaimTtlPasses \/ UNCHANGED vars
           \/ \E p \in PacketIds : PacketTtlPasses(p)
  <2>1. UNCHANGED <<locals, drain, outbox>>
    BY <1>2, <1>3 DEF MarkConflict, ExpireStale, Reconcile, ServiceStep,
       ApproverApproves, ApproverSubmits, WriteBackConflicts, ClaimTtlPasses,
       PacketTtlPasses, vars, Begin, locals, drain
  <2> QED BY <2>1 DEF Locals, locals, drain
<1>4. CASE DrainStart \/ DrainRow
  BY <1>0, <1>4 DEF DrainStart, DrainRow, Locals, locals, drain
<1>5. CASE Crash
  BY <1>5 DEF Crash, Locals
<1> QED BY <1>1, <1>3, <1>4, <1>5 DEF Next, WorkerTick

LEMMA CallNamesAre == AllCalls \subseteq CallNames
<1> DEFINE W(o) == {Calls[o][i] : i \in 1..Len(Calls[o])}
<1>1. Calls["pick"] = <<"list", "close", "read", "claim", "mint", "settle">>
  BY DEF Calls
<1>2. Calls["approve"] = <<"packet", "read", "claim", "outbox", "deliver">>
  BY DEF Calls
<1>3. Calls["forward"] = <<"offer", "packet">>
  BY DEF Calls
<1>4. Calls["deliver"] = <<"check", "packet", "send">>
  BY DEF Calls
<1>5. Calls["record"] = <<"packet", "read", "claim", "done">>
  BY DEF Calls
<1>6. Calls["fail"] = <<"packet", "read", "claim", "refused">>
  BY DEF Calls
<1>7. Calls["unavailable"] = <<"packet", "postponed">>
  BY DEF Calls
<1>8. {"list", "close", "read", "claim", "mint", "settle"} \subseteq W("pick")
  BY <1>1
<1>9. {"packet", "outbox", "deliver"} \subseteq W("approve")
  BY <1>2
<1>10. "offer" \in W("forward") /\ {"check", "send"} \subseteq W("deliver")
  BY <1>3, <1>4
<1>11. "done" \in W("record") /\ "refused" \in W("fail")
       /\ "postponed" \in W("unavailable")
  BY <1>5, <1>6, <1>7
<1>12. {"pick", "approve", "forward", "deliver", "record", "fail",
        "unavailable"} \subseteq Ops
  BY OpsAre DEF AllOps
<1>13. \A o \in Ops : W(o) \subseteq CallNames
  BY DEF CallNames
<1>14. "mark" \in CallNames
  BY DEF CallNames
<1> HIDE DEF W
<1> QED BY <1>8, <1>9, <1>10, <1>11, <1>12, <1>13, <1>14 DEF AllCalls

\* Every variable stays in its type: no verdict, crash or answer leaves a row
\* in a state the tables do not have, and the rows a drain holds are undone.
THEOREM TypeCorrect == Spec => []TypeOK
<1>1. Init => Columns /\ Locals
  <2> SUFFICES ASSUME Init PROVE Columns /\ Locals
    OBVIOUS
  <2>1. 0 \in 0..MaxCrashes
    BY PromotionAssumption
  <2>2. Columns
    BY <2>1 DEF Init, Columns, ClaimStates
  <2>3. Locals
    BY DEF Init, Locals
  <2> QED BY <2>2, <2>3
<1>2. IInv /\ Columns /\ Locals /\ [Next]_vars => Columns' /\ Locals'
  BY StepColumns, StepLocals
<1>3. IInv /\ Columns /\ Locals => TypeOK
  <2> SUFFICES ASSUME IInv, Columns, Locals PROVE TypeOK
    OBVIOUS
  <2>1. op \in [Threads -> Ops]
    BY OpsAre DEF IInv, Control, Threading
  <2>2. todo \in [Threads -> Seq(CallNames)]
    BY CallNamesAre DEF IInv, Control, Threading
  <2>3. sending \subseteq PacketIds
    BY DEF IInv, Data, Queued, Tables
  <2> QED BY <2>1, <2>2, <2>3
          DEF TypeOK, Columns, Locals, IInv, Control, Threading, Data, Tables
<1> QED BY <1>1, <1>2, <1>3, RecordsInvariance, PTL DEF Spec

-----------------------------------------------------------------------------
(* A rejection is final.  A packet in the hands of a delivery was decided   *)
(* before it got there, and one that is still open, or whose rejection is   *)
(* under way, is in no such hands: an approval and a rejection are both of  *)
(* the one session, one after the other.                                    *)

OneSession == \A g, h \in Humans : g = h

Undecided == {"unminted", "open", "rejected"}

Home(p) == forwarded[p] = "none"

\* an approval counts from the write of its packet
Delivers(t) == op[t] \in Consenting /\ ~(op[t] = "approve" /\ At(t, "packet"))

Touched(p) ==
    \/ p \in outbox \cup batch \/ versions[p] > 0
    \/ \E t \in Threads : Delivers(t) /\ pkt[t] = p

Rejected(p) == \E t \in Threads : op[t] = "reject" /\ pkt[t] = p

StaysOut ==
    \A p \in PacketIds :
        Touched(p) /\ Home(p) => packet[p] \notin Undecided /\ ~Rejected(p)

Offered == \A p \in sending : ~Home(p)

\* the worker decides nothing
Ours == op[Worker] \notin {"approve", "retry", "reject"}

\* no thread begins to deliver or to reject
Keeps ==
    \A t \in Threads :
        /\ Delivers(t)' => Delivers(t) /\ pkt'[t] = pkt[t]
        /\ op'[t] = "reject" => op[t] = "reject" /\ pkt'[t] = pkt[t]

LEMMA RunIsQuiet ==
    ASSUME Threading, NEW t \in Threads, NEW o \in AllOps, NEW p, Run(t, o, p),
           o # "reject",
           o \in Consenting => (Delivers(t) /\ p = pkt[t]) \/ o = "approve"
    PROVE  Keeps
<1>1. /\ op' = [op EXCEPT ![t] = o] /\ todo' = [todo EXCEPT ![t] = Calls[o]]
      /\ pkt' = [pkt EXCEPT ![t] = p]
  BY DEF Run
<1>2. Calls["approve"] # <<>> /\ Head(Calls["approve"]) = "packet"
  <2>1. Calls["approve"] = <<"packet", "read", "claim", "outbox", "deliver">>
    BY DEF Calls
  <2> QED BY <2>1
<1>3. ASSUME NEW u \in Threads, u # t
      PROVE  /\ op'[u] = op[u] /\ todo'[u] = todo[u] /\ pkt'[u] = pkt[u]
             /\ Delivers(u)' <=> Delivers(u)
  BY <1>1, <1>3 DEF Threading, Delivers, At
<1>4. op'[t] = o /\ todo'[t] = Calls[o] /\ pkt'[t] = p
  BY <1>1 DEF Threading
<1>5. Delivers(t)' => Delivers(t) /\ pkt'[t] = pkt[t]
  BY <1>2, <1>4 DEF Delivers, At
<1> QED BY <1>3, <1>4, <1>5 DEF Keeps

LEMMA RestIsQuiet ==
    ASSUME Threading, NEW t \in Threads, Rest(t)
    PROVE  Keeps
<1>1. "idle" \in AllOps /\ "idle" # "reject" /\ "idle" \notin Consenting
  BY DEF AllOps, Consenting
<1> QED BY <1>1, RunIsQuiet DEF Rest

LEMMA StayIsQuiet ==
    ASSUME Threading, NEW t \in Threads, UNCHANGED <<op, pkt>>, NEW s,
           todo' = [todo EXCEPT ![t] = s], ~(op[t] = "approve" /\ At(t, "packet"))
    PROVE  Keeps
<1>1. ASSUME NEW u \in Threads, u # t
      PROVE  Delivers(u)' <=> Delivers(u)
  BY <1>1 DEF Threading, Delivers, At
<1>2. Delivers(t)' => Delivers(t)
  BY DEF Delivers
<1> QED BY <1>1, <1>2 DEF Keeps

LEMMA AdvanceIsQuiet ==
    ASSUME Threading, NEW t \in Threads, NEW c, At(t, c), c # "packet",
           \/ Advance(t) \/ Rest(t) \/ \E d \in AllCalls : Skip(t, d)
    PROVE  Keeps
<1>1. ~At(t, "packet")
  BY DEF At
<1> QED BY <1>1, RestIsQuiet, StayIsQuiet DEF Advance, Skip

LEMMA StillIsQuiet ==
    ASSUME UNCHANGED control
    PROVE  Keeps
  BY DEF Keeps, control, Delivers, At

\* A step that lets nothing in keeps StaysOut.
LEMMA QuietKeeps ==
    ASSUME StaysOut, Keeps,
           \A p \in PacketIds : Home(p)' => Home(p),
           \A p \in PacketIds :
              p \in (outbox \cup batch)' \/ versions'[p] > 0 => Touched(p) \/ ~Home(p)',
           \A p \in PacketIds :
              Touched(p) /\ Home(p) /\ packet'[p] \in Undecided => packet[p] \in Undecided
    PROVE  StaysOut'
<1> SUFFICES ASSUME NEW p \in PacketIds, Touched(p)', Home(p)'
             PROVE  packet'[p] \notin Undecided /\ ~Rejected(p)'
  BY DEF StaysOut
<1>1. Touched(p)
  BY DEF Touched, Keeps
<1>2. Rejected(p)' => Rejected(p)
  BY DEF Rejected, Keeps
<1> QED BY <1>1, <1>2 DEF StaysOut

LEMMA SameTablesKeep ==
    ASSUME StaysOut, Keeps, outbox' \subseteq outbox \cup batch,
           batch' \subseteq outbox \cup batch,
           UNCHANGED <<packet, versions, forwarded>>
    PROVE  StaysOut'
<1>1. \A p \in PacketIds : Home(p)' <=> Home(p)
  BY DEF Home
<1>2. \A p \in PacketIds : p \in (outbox \cup batch)' \/ versions'[p] > 0 => Touched(p)
  BY DEF Touched
<1> QED BY <1>1, <1>2, QuietKeeps

-----------------------------------------------------------------------------
(* The steps of a rejection's way.                                         *)

XInv == IInv /\ Columns /\ StaysOut /\ Offered /\ Ours

LEMMA PacketToUndecided ==
    ASSUME NEW o \in AllOps, PacketTo[o] \in Undecided
    PROVE  o = "reject"
  BY OpsAre, SMTT(30) DEF AllOps, PacketTo, Undecided

\* a call that writes no packet and asks nothing of the service
LEMMA PlainCallsStay ==
    ASSUME XInv, NEW t \in Threads,
           \/ ListPackets(t) \/ AllClosed(t) \/ ReadClaim(t) \/ WriteClaim(t)
           \/ SettleRival(t) \/ MarkDone(t)
           \/ Delivered(t) \/ Refused(t) \/ Postponed(t)
    PROVE  StaysOut'
<1>0. "refused" \in AllCalls /\ "mark" \in AllCalls
  BY DEF AllCalls
<1>1. \E c \in AllCalls \ {"packet"} : At(t, c)
  BY DEF ListPackets, AllClosed, ReadClaim, WriteClaim, SettleRival, MarkDone,
     Delivered, Refused, Postponed, AllCalls
<1>2. Advance(t) \/ Rest(t) \/ \E d \in AllCalls : Skip(t, d)
  BY <1>0 DEF ListPackets, AllClosed, ReadClaim, WriteClaim, SettleRival,
     MarkDone, Delivered, Refused, Postponed, Refuse
<1>3. Keeps
  BY <1>1, <1>2, AdvanceIsQuiet DEF XInv, IInv, Control
<1>4. /\ UNCHANGED <<packet, versions, forwarded>>
      /\ outbox' \subseteq outbox /\ batch' \subseteq batch
  BY DEF ListPackets, AllClosed, ReadClaim, WriteClaim, SettleRival, MarkDone,
     Delivered, Refused, Postponed, RowDone, Refuse, packets, drain, service
<1> QED BY <1>3, <1>4, SameTablesKeep DEF XInv

\* a thread at a call of delivery delivers its packet
LEMMA AtDelivers ==
    ASSUME Control, NEW t \in Threads, NEW c \in ConsentCalls, At(t, c)
    PROVE  Delivers(t) /\ op[t] \in Consenting
<1>1. todo[t] \in Seq(AllCalls) /\ todo[t] # <<>> /\ todo[t][1] = c
  BY DEF At, Control, Threading
<1>2. 1 \in 1..Len(todo[t])
  BY <1>1
<1>3. op[t] \in Consenting
  BY <1>1, <1>2 DEF Control, Careful
<1>4. c # "packet"
  BY DEF ConsentCalls
<1> QED BY <1>3, <1>4 DEF Delivers, At

LEMMA DeliveryCallsStay ==
    ASSUME XInv, NEW t \in Threads,
           EnqueueSubmit(t) \/ DeliverInline(t) \/ CheckDelivery(t)
    PROVE  StaysOut'
<1>0. /\ Threading
      /\ "done" \in AllCalls /\ {"deliver", "fail"} \subseteq AllOps
      /\ "deliver" # "reject" /\ "fail" # "reject"
  BY DEF AllCalls, AllOps, XInv, IInv, Control
<1>1. PICK c \in ConsentCalls : At(t, c) /\ c # "packet"
  BY DEF EnqueueSubmit, DeliverInline, CheckDelivery, ConsentCalls
<1>2. Delivers(t)
  BY <1>1, AtDelivers DEF XInv, IInv
<1>3. \/ Advance(t) \/ \E d \in AllCalls : Skip(t, d)
      \/ \E o \in {"deliver", "fail"} : Run(t, o, pkt[t])
  BY <1>0 DEF EnqueueSubmit, DeliverInline, CheckDelivery
<1>4. Keeps
  BY <1>0, <1>1, <1>2, <1>3, AdvanceIsQuiet, RunIsQuiet
<1>5. /\ UNCHANGED <<packet, versions, forwarded, batch>>
      /\ outbox' \subseteq outbox \cup {pkt[t]}
  BY DEF EnqueueSubmit, DeliverInline, CheckDelivery, packets, drain, service
<1>6. \A p \in PacketIds : p \in (outbox \cup batch)' \/ versions'[p] > 0 => Touched(p)
  BY <1>2, <1>5 DEF Touched
<1>7. \A p \in PacketIds : Home(p)' <=> Home(p)
  BY <1>5 DEF Home
<1> QED BY <1>4, <1>5, <1>6, <1>7, QuietKeeps DEF XInv

LEMMA AcceptLeavesHome ==
    ASSUME Columns, NEW q \in PacketIds, Accept(q) \/ UNCHANGED ledgers
    PROVE  \A p \in PacketIds : Home(p)' => Home(p)
  BY DEF Accept, ledgers, Home, Columns

LEMMA AcceptWritesOne ==
    ASSUME Data, NEW q \in PacketIds, Accept(q) \/ UNCHANGED ledgers
    PROVE  \A p \in PacketIds : versions'[p] > 0 => versions[p] > 0 \/ p = q
  BY DEF Accept, ledgers, Data, Tables

LEMMA SendStays ==
    ASSUME XInv, NEW t \in Threads, Send(t)
    PROVE  StaysOut'
<1>1. At(t, "send") /\ "send" \in ConsentCalls
  BY DEF Send, ConsentCalls
<1>2. Delivers(t) /\ pkt[t] \in PacketIds
  BY <1>1, AtDelivers, AtConsents DEF XInv, IInv, Data, Tables
<1>3. \E o \in {"record", "unavailable", "fail", "stale"} : Run(t, o, pkt[t])
  BY DEF Send
<1>4. \A o \in {"record", "unavailable", "fail", "stale"} : o \in AllOps /\ o # "reject"
  BY DEF AllOps
<1>5. Keeps
  BY <1>2, <1>3, <1>4, RunIsQuiet DEF XInv, IInv, Control
<1>6. /\ Accept(pkt[t]) \/ UNCHANGED ledgers
      /\ UNCHANGED <<packet, outbox, batch>>
  BY DEF Send, packets, drain
<1>7. \A p \in PacketIds : Home(p)' => Home(p)
  BY <1>2, <1>6, AcceptLeavesHome DEF XInv
<1>8. \A p \in PacketIds : p \in (outbox \cup batch)' \/ versions'[p] > 0 => Touched(p)
  BY <1>2, <1>6, AcceptWritesOne DEF Touched, XInv, IInv
<1> QED BY <1>5, <1>6, <1>7, <1>8, QuietKeeps DEF XInv

LEMMA OfferStays ==
    ASSUME XInv, NEW t \in Threads, Offer(t)
    PROVE  StaysOut'
<1>1. At(t, "offer") /\ (Advance(t) \/ Rest(t)) /\ "offer" # "packet"
  BY DEF Offer
<1>2. Keeps
  BY <1>1, AdvanceIsQuiet DEF XInv, IInv, Control
<1>3. UNCHANGED <<packet, versions, outbox, batch>>
  BY DEF Offer, packets, drain
<1>4. \A p \in PacketIds : Home(p)' => Home(p)
  BY DEF Offer, Home, XInv, Columns
<1>5. \A p \in PacketIds : p \in (outbox \cup batch)' \/ versions'[p] > 0 => Touched(p)
  BY <1>3 DEF Touched
<1> QED BY <1>2, <1>3, <1>4, <1>5, QuietKeeps DEF XInv

\* packets closed or minted
LEMMA ClosingStays ==
    ASSUME XInv, NEW t \in Threads,
           \/ CloseOne(t) \/ Mint(t)
           \/ \E p \in PacketIds : DecideTooLate(t, p)
    PROVE  StaysOut'
<1>1. Keeps
  <2>1. CASE CloseOne(t) \/ \E p \in PacketIds : DecideTooLate(t, p)
    BY <2>1, StillIsQuiet DEF CloseOne, DecideTooLate
  <2>2. CASE Mint(t)
    <3>1. At(t, "mint") /\ (Advance(t) \/ Rest(t)) /\ "mint" # "packet"
      BY <2>2 DEF Mint
    <3> QED BY <3>1, AdvanceIsQuiet DEF XInv, IInv, Control
  <2> QED BY <2>1, <2>2
<1>2. UNCHANGED <<versions, forwarded, outbox, batch>>
  BY DEF CloseOne, Mint, DecideTooLate, drain, service
<1>3. \/ UNCHANGED packet
      \/ \E q, s : /\ packet' = [packet EXCEPT ![q] = s]
                   /\ \/ s \in {"expired", "superseded"}
                      \/ s = "open" /\ packet[q] = "unminted"
  BY DEF CloseOne, Mint, DecideTooLate, Minted
<1>4. \A p \in PacketIds : packet'[p] \in Undecided => packet[p] \in Undecided
  BY <1>3 DEF Undecided, XInv, IInv, Data, Tables
<1>5. \A p \in PacketIds : Home(p)' <=> Home(p)
  BY <1>2 DEF Home
<1>6. \A p \in PacketIds : p \in (outbox \cup batch)' \/ versions'[p] > 0 => Touched(p)
  BY <1>2 DEF Touched
<1> QED BY <1>1, <1>2, <1>4, <1>5, <1>6, QuietKeeps DEF XInv

\* an approval lets its packet in; a rejection finds it out
LEMMA WritePacketStays ==
    ASSUME XInv, OneSession, NEW t \in Threads, WritePacket(t)
    PROVE  StaysOut'
<1>1. /\ At(t, "packet") /\ Advance(t) /\ op[t] \in AllOps
      /\ packet' = [packet EXCEPT ![pkt[t]] = PacketTo[op[t]]]
      /\ UNCHANGED <<versions, forwarded, outbox, batch>>
  BY DEF WritePacket, drain, service, XInv, IInv, Control, Threading
<1>2. \A p \in PacketIds : Home(p)' <=> Home(p)
  BY <1>1 DEF Home
<1>3. \A p \in PacketIds : p \in (outbox \cup batch)' \/ versions'[p] > 0 => Touched(p)
  BY <1>1 DEF Touched
<1>4. \A p \in PacketIds :
         Touched(p) /\ Home(p) /\ packet'[p] \in Undecided => packet[p] \in Undecided
  <2> SUFFICES ASSUME NEW p \in PacketIds, Touched(p), Home(p),
                      packet'[p] \in Undecided, packet[p] \notin Undecided
               PROVE  FALSE
    OBVIOUS
  <2>1. p = pkt[t] /\ PacketTo[op[t]] \in Undecided
    BY <1>1 DEF XInv, IInv, Data, Tables
  <2>2. op[t] = "reject"
    BY <1>1, <2>1, PacketToUndecided
  <2> QED BY <2>1, <2>2 DEF Rejected, StaysOut, XInv
<1>5. CASE op[t] # "approve"
  <2>1. Keeps
    BY <1>1, <1>5, RestIsQuiet, StayIsQuiet DEF Advance, XInv, IInv, Control
  <2> QED BY <1>1, <1>2, <1>3, <1>4, <2>1, QuietKeeps DEF XInv
<1>6. CASE op[t] = "approve"
  <2>0. Threading /\ t \in Humans
    BY <1>6 DEF XInv, IInv, Control, Ours, Threads
  <2>1. \A u \in Threads \ {t} :
           op'[u] = op[u] /\ pkt'[u] = pkt[u] /\ (Delivers(u)' <=> Delivers(u))
    BY <1>1, <2>0 DEF Advance, Rest, Run, Threading, Delivers, At
  <2>2. op'[t] # "reject"
    BY <1>1, <1>6, <2>0 DEF Advance, Rest, Run, Threading
  <2>3. Delivers(t)' => pkt'[t] = pkt[t]
    BY <1>1, <2>0 DEF Advance, Rest, Run, Threading, Delivers, Consenting
  <2>4. \A u \in Threads : op[u] # "reject"
    BY <1>6, <2>0 DEF OneSession, Threads, XInv, Ours
  <2>5. \A p \in PacketIds : ~Rejected(p)'
    BY <2>1, <2>2, <2>4 DEF Rejected
  <2>6. \A p \in PacketIds : Touched(p)' => Touched(p) \/ p = pkt[t]
    <3> SUFFICES ASSUME NEW p \in PacketIds, Touched(p)', p # pkt[t]
                 PROVE  Touched(p)
      OBVIOUS
    <3>1. CASE p \in (outbox \cup batch)' \/ versions'[p] > 0
      BY <1>3, <3>1
    <3>2. CASE \E u \in Threads : Delivers(u)' /\ pkt'[u] = p
      BY <2>1, <2>3, <3>2 DEF Touched
    <3> QED BY <3>1, <3>2 DEF Touched
  <2>7. PacketTo[op[t]] \notin Undecided
    BY <1>1, <1>6, PacketToUndecided
  <2>8. \A p \in PacketIds : packet'[p] \in Undecided => p # pkt[t] /\ packet[p] \in Undecided
    BY <1>1, <2>7 DEF XInv, IInv, Data, Tables
  <2> QED BY <1>2, <2>5, <2>6, <2>8 DEF StaysOut, XInv
<1> QED BY <1>5, <1>6

\* operations that neither deliver nor reject
LEMMA PlainBeginStays ==
    ASSUME XInv, NEW t \in Threads, NEW o \in AllOps \ (Consenting \cup {"reject"}),
           NEW p, Begin(t, o, p), UNCHANGED <<packet, outbox>>
    PROVE  StaysOut'
<1>1. Run(t, o, p) /\ UNCHANGED <<batch, versions, forwarded>>
  BY DEF Begin, drain, service
<1>2. Keeps
  BY <1>1, RunIsQuiet DEF XInv, IInv, Control
<1> QED BY <1>1, <1>2, SameTablesKeep DEF XInv

LEMMA PlainBeginsStay ==
    ASSUME XInv, NEW t \in Threads, NEW p \in PacketIds,
           \/ Propose(t) \/ Forward(t, p) \/ Discard(t) \/ Lose(t)
           \/ Decide(t, p, "edit") \/ MarkConflict \/ ExpireStale \/ Reconcile
    PROVE  StaysOut'
<1>0. Worker \in Threads
  BY DEF Threads
<1>1. /\ UNCHANGED <<packet, outbox>>
      /\ \E u \in Threads, o \in {"propose", "pick", "forward", "discard",
                                  "lose", "edit", "conflict", "expire", "remint"},
            q \in PacketIds \cup {NoPacket} : Begin(u, o, q)
  BY <1>0 DEF Propose, Forward, Discard, Lose, Decide, MarkConflict,
              ExpireStale, Reconcile, packets
<1>2. PICK u \in Threads, o \in {"propose", "pick", "forward", "discard",
                                 "lose", "edit", "conflict", "expire", "remint"},
            q \in PacketIds \cup {NoPacket} : Begin(u, o, q)
  BY <1>1
<1>3. o \in AllOps \ (Consenting \cup {"reject"})
  BY DEF AllOps, Consenting
<1> QED BY <1>1, <1>2, <1>3, PlainBeginStays

LEMMA ApproveStays ==
    ASSUME XInv, NEW t \in Threads, NEW p \in PacketIds, Decide(t, p, "approve")
    PROVE  StaysOut'
<1>1. /\ Run(t, "approve", p)
      /\ UNCHANGED <<packet, outbox, batch, versions, forwarded>>
  BY DEF Decide, Begin, packets, drain, service
<1>2. "approve" \in AllOps /\ "approve" # "reject"
  BY DEF AllOps
<1>3. Keeps
  BY <1>1, <1>2, RunIsQuiet DEF XInv, IInv, Control
<1> QED BY <1>1, <1>3, SameTablesKeep DEF XInv

\* a packet that is still open is in nobody's hands when its rejection begins
LEMMA RejectStays ==
    ASSUME XInv, NEW t \in Threads, NEW p \in PacketIds, Decide(t, p, "reject")
    PROVE  StaysOut'
<1>1. /\ Run(t, "reject", p) /\ packet[p] = "open" /\ op[t] = "idle"
      /\ UNCHANGED <<packet, outbox, batch, versions, forwarded>>
  BY DEF Decide, Begin, Idle, packets, drain, service
<1>2. "reject" \notin Consenting /\ Threading
  BY DEF Consenting, XInv, IInv, Control
<1>3. \A u \in Threads \ {t} :
         op'[u] = op[u] /\ pkt'[u] = pkt[u] /\ (Delivers(u)' <=> Delivers(u))
  BY <1>1, <1>2 DEF Run, Threading, Delivers, At
<1>4. op'[t] = "reject" /\ pkt'[t] = p /\ ~Delivers(t)'
  BY <1>1, <1>2 DEF Run, Threading, Delivers
<1>5. \A q \in PacketIds : Touched(q)' => Touched(q)
  BY <1>1, <1>3, <1>4 DEF Touched
<1>6. \A q \in PacketIds : Rejected(q)' => Rejected(q) \/ q = p
  BY <1>3, <1>4 DEF Rejected
<1>7. ~(Touched(p) /\ Home(p))
  BY <1>1 DEF StaysOut, XInv, Undecided
<1>8. \A q \in PacketIds : Home(q)' <=> Home(q)
  BY <1>1 DEF Home
<1> QED BY <1>1, <1>5, <1>6, <1>7, <1>8 DEF StaysOut, XInv

\* a packet that is retried has failed, and its owner is not rejecting one
LEMMA RetryStays ==
    ASSUME XInv, OneSession, NEW t \in Humans, NEW p \in PacketIds, Retry(t, p)
    PROVE  StaysOut'
<1>1. /\ Run(t, "retry", p) /\ packet[p] = "failed" /\ op[t] = "idle"
      /\ UNCHANGED <<packet, outbox, batch, versions, forwarded>>
  BY DEF Retry, Retryable, Begin, Idle, packets, drain, service
<1>2. Threading /\ t \in Threads
  BY DEF XInv, IInv, Control, Threads
<1>3. \A u \in Threads \ {t} :
         op'[u] = op[u] /\ pkt'[u] = pkt[u] /\ (Delivers(u)' <=> Delivers(u))
  BY <1>1, <1>2 DEF Run, Threading, Delivers, At
<1>4. op'[t] = "retry" /\ pkt'[t] = p
  BY <1>1, <1>2 DEF Run, Threading
<1>5. \A u \in Threads : op[u] # "reject"
  BY <1>1 DEF OneSession, Threads, XInv, Ours
<1>6. \A q \in PacketIds : ~Rejected(q)'
  BY <1>3, <1>4, <1>5 DEF Rejected
<1>7. \A q \in PacketIds : Touched(q)' => Touched(q) \/ q = p
  BY <1>1, <1>3, <1>4 DEF Touched
<1>8. packet'[p] \notin Undecided
  BY <1>1 DEF Undecided
<1>9. \A q \in PacketIds : Home(q)' <=> Home(q)
  BY <1>1 DEF Home
<1> QED BY <1>1, <1>6, <1>7, <1>8, <1>9 DEF StaysOut, XInv

LEMMA DrainStays ==
    ASSUME XInv, DrainStart \/ DrainRow
    PROVE  StaysOut'
<1>0. Worker \in Threads /\ Threading
  BY DEF Threads, XInv, IInv, Control
<1>1. UNCHANGED <<packet, versions, forwarded, outbox>>
      /\ batch' \subseteq outbox \cup batch
  BY DEF DrainStart, DrainRow, packets, service
<1>2. CASE DrainStart
  <2>1. Keeps
    BY <1>2, StillIsQuiet DEF DrainStart
  <2> QED BY <1>1, <2>1, SameTablesKeep DEF XInv
<1>3. CASE DrainRow
  <2>1. PICK p \in batch : Run(Worker, "deliver", p)
    BY <1>3 DEF DrainRow
  <2>2. \A u \in Threads \ {Worker} :
           op'[u] = op[u] /\ pkt'[u] = pkt[u] /\ (Delivers(u)' <=> Delivers(u))
    BY <1>0, <2>1 DEF Run, Threading, Delivers, At
  <2>3. op'[Worker] = "deliver" /\ pkt'[Worker] = p
    BY <1>0, <2>1 DEF Run, Threading
  <2>4. \A q \in PacketIds : Rejected(q)' => Rejected(q)
    BY <2>2, <2>3 DEF Rejected
  <2>5. Touched(p)
    BY <2>1 DEF Touched
  <2>6. \A q \in PacketIds : Touched(q)' => Touched(q)
    <3> SUFFICES ASSUME NEW q \in PacketIds, Touched(q)' PROVE Touched(q)
      OBVIOUS
    <3>1. CASE q \in (outbox \cup batch)' \/ versions'[q] > 0
      BY <1>1, <3>1 DEF Touched
    <3>2. CASE \E u \in Threads : Delivers(u)' /\ pkt'[u] = q
      BY <2>2, <2>3, <2>5, <3>2 DEF Touched
    <3> QED BY <3>1, <3>2 DEF Touched
  <2>7. \A q \in PacketIds : Home(q)' <=> Home(q)
    BY <1>1 DEF Home
  <2> QED BY <1>1, <2>4, <2>6, <2>7 DEF StaysOut, XInv
<1> QED BY <1>2, <1>3

\* an approver's node writes only what was offered
LEMMA ServiceStays ==
    ASSUME XInv, NEW q \in PacketIds,
           ApproverApproves(q) \/ ApproverSubmits(q) \/ WriteBackConflicts(q)
    PROVE  StaysOut'
<1>1. UNCHANGED <<packet, outbox, batch>> /\ UNCHANGED control
  BY DEF ApproverApproves, ApproverSubmits, WriteBackConflicts, packets, drain
<1>2. (Accept(q) /\ q \in sending) \/ UNCHANGED ledgers
  BY DEF ApproverApproves, ApproverSubmits, WriteBackConflicts
<1>3. \A p \in PacketIds : Home(p)' => Home(p)
  BY <1>2, AcceptLeavesHome DEF XInv
<1>4. \A p \in PacketIds :
         p \in (outbox \cup batch)' \/ versions'[p] > 0 => Touched(p) \/ ~Home(p)'
  <2>1. \A p \in PacketIds : versions'[p] > 0 => versions[p] > 0 \/ p \in sending
    BY <1>2, AcceptWritesOne DEF XInv, IInv, ledgers
  <2> QED BY <1>1, <1>3, <2>1 DEF Touched, XInv, Offered
<1>5. Keeps
  BY <1>1, StillIsQuiet
<1> QED BY <1>1, <1>3, <1>4, <1>5, QuietKeeps DEF XInv

LEMMA CrashStays ==
    ASSUME XInv, Crash
    PROVE  StaysOut'
<1>1. UNCHANGED <<packet, versions, forwarded, outbox>> /\ batch' = {}
  BY DEF Crash, packets, service
<1>2. Keeps
  BY DEF Crash, Keeps, Delivers, Consenting
<1> QED BY <1>1, <1>2, SameTablesKeep DEF XInv

LEMMA StepStaysOut ==
    ASSUME XInv, OneSession, [Next]_vars
    PROVE  StaysOut'
<1>0. Worker \in Threads /\ Humans \subseteq Threads /\ 1 \in PacketIds
  BY PromotionAssumption DEF Threads, PacketIds
<1>1. CASE \E t \in Threads : Call(t)
  BY <1>1, PlainCallsStay, DeliveryCallsStay, SendStays, OfferStays,
     ClosingStays, WritePacketStays DEF Call
<1>2. CASE \E t \in Humans : HumanRequest(t)
  BY <1>0, <1>2, PlainBeginsStay, ApproveStays, RejectStays, RetryStays,
     ClosingStays DEF HumanRequest
<1>3. CASE WorkerTick
  BY <1>0, <1>3, PlainBeginsStay, DrainStays DEF WorkerTick, AutoPropose
<1>4. CASE ServiceStep
  BY <1>4, ServiceStays DEF ServiceStep
<1>5. CASE \/ \E p \in PacketIds : PacketTtlPasses(p)
           \/ ClaimTtlPasses \/ UNCHANGED vars
  <2>1. UNCHANGED <<packet, versions, forwarded, outbox, batch>> /\ UNCHANGED control
    BY <1>5 DEF PacketTtlPasses, ClaimTtlPasses, vars, packets, drain, service,
       control
  <2> QED BY <2>1, StillIsQuiet, SameTablesKeep DEF XInv
<1>6. CASE Crash
  BY <1>6, CrashStays
<1> QED BY <1>1, <1>2, <1>3, <1>4, <1>5, <1>6 DEF Next

\* what an approver is sending was offered, and stays so
LEMMA StepOffered ==
    ASSUME XInv, [Next]_vars
    PROVE  Offered'
<1>1. \A p \in PacketIds : Home(p)' => Home(p)
  <2>1. CASE \E t \in Threads : Send(t) \/ Offer(t)
    <3>1. ASSUME NEW t \in Threads, Send(t)
          PROVE  pkt[t] \in PacketIds /\ (Accept(pkt[t]) \/ UNCHANGED ledgers)
      BY <3>1, AtConsents DEF Send, ConsentCalls, XInv, IInv, Data, Tables
    <3>2. ASSUME NEW t \in Threads, Offer(t)
          PROVE  \A p \in PacketIds : Home(p)' => Home(p)
      BY <3>2 DEF Offer, Home, XInv, Columns
    <3> QED BY <2>1, <3>1, <3>2, AcceptLeavesHome DEF XInv
  <2>2. CASE ServiceStep
    BY <2>2, AcceptLeavesHome DEF ServiceStep, ApproverApproves,
       ApproverSubmits, WriteBackConflicts, XInv
  <2>3. ASSUME NEW t \in Threads, Call(t), ~(Send(t) \/ Offer(t))
        PROVE  UNCHANGED forwarded
    BY <2>3 DEF Call, ListPackets, CloseOne, AllClosed, ReadClaim, WriteClaim,
       SettleRival, WritePacket, Mint, EnqueueSubmit, DeliverInline, MarkDone,
       CheckDelivery, Delivered, Refused, Postponed, service
  <2>4. CASE ~(\E t \in Threads : Call(t)) /\ ~ServiceStep
    <3>1. ASSUME NEW t, HumanRequest(t) \/ AutoPropose
          PROVE  UNCHANGED forwarded
      BY <3>1 DEF HumanRequest, AutoPropose, Propose, Discard, Lose, Decide,
         DecideTooLate, Forward, Retry, Begin, service
    <3>2. UNCHANGED forwarded
      BY <2>4, <3>1 DEF Next, WorkerTick, MarkConflict, ExpireStale, Reconcile,
         DrainStart, DrainRow, Begin, PacketTtlPasses, ClaimTtlPasses, Crash,
         vars, service
    <3> QED BY <3>2 DEF Home
  <2> QED BY <2>1, <2>2, <2>3, <2>4 DEF Home
<1>2. sending' \subseteq sending \/ \E p \in PacketIds : ApproverApproves(p)
  <2>1. ASSUME NEW t \in Threads, Call(t)
        PROVE  UNCHANGED sending
    BY <2>1 DEF Call, ListPackets, CloseOne, AllClosed, ReadClaim, WriteClaim,
       SettleRival, WritePacket, Mint, EnqueueSubmit, DeliverInline, MarkDone,
       CheckDelivery, Send, Offer, Delivered, Refused, Postponed, service
  <2>2. ASSUME NEW t, HumanRequest(t) \/ AutoPropose
        PROVE  UNCHANGED sending
    BY <2>2 DEF HumanRequest, AutoPropose, Propose, Discard, Lose, Decide,
       DecideTooLate, Forward, Retry, Begin, service
  <2> QED BY <2>1, <2>2 DEF Next, WorkerTick, MarkConflict, ExpireStale,
     Reconcile, DrainStart, DrainRow, Begin, ServiceStep, ApproverSubmits,
     WriteBackConflicts, PacketTtlPasses, ClaimTtlPasses, Crash, vars, service
<1>3. CASE sending' \subseteq sending
  <2>1. sending \subseteq PacketIds
    BY DEF XInv, IInv, Data, Queued, Tables
  <2> QED BY <1>1, <1>3, <2>1 DEF Offered, XInv
<1>4. CASE \E p \in PacketIds : ApproverApproves(p)
  BY <1>4 DEF ApproverApproves, Offered, Home, XInv, ledgers
<1> QED BY <1>2, <1>3, <1>4

\* the worker begins no verdict, and goes on with none
LEMMA StepOurs ==
    ASSUME XInv, [Next]_vars
    PROVE  Ours'
<1>0. Worker \notin Humans /\ Threading
  BY PromotionAssumption DEF XInv, IInv, Control
<1>1. ASSUME NEW t \in Threads, Call(t)
      PROVE  op'[t] = op[t] \/ op'[t] \notin {"approve", "retry", "reject"}
  BY <1>0, <1>1 DEF Call, ListPackets, CloseOne, AllClosed, ReadClaim, Refuse,
     WriteClaim, SettleRival, WritePacket, Mint, EnqueueSubmit, DeliverInline,
     MarkDone, CheckDelivery, Send, Offer, Delivered, Refused, Postponed,
     Advance, Skip, Rest, Run, Threading, control
<1>2. ASSUME NEW t \in Threads, Call(t)
      PROVE  \A u \in Threads \ {t} : op'[u] = op[u]
  BY <1>0, <1>2 DEF Call, ListPackets, CloseOne, AllClosed, ReadClaim, Refuse,
     WriteClaim, SettleRival, WritePacket, Mint, EnqueueSubmit, DeliverInline,
     MarkDone, CheckDelivery, Send, Offer, Delivered, Refused, Postponed,
     Advance, Skip, Rest, Run, Threading, control
<1>3. ASSUME NEW t \in Humans, HumanRequest(t)
      PROVE  op'[Worker] = op[Worker]
  BY <1>0, <1>3 DEF HumanRequest, Propose, Discard, Lose, Decide,
     DecideTooLate, Forward, Retry, Begin, Run, Threading, Threads, control
<1>4. CASE WorkerTick
  BY <1>0, <1>4 DEF WorkerTick, AutoPropose, Propose, MarkConflict, ExpireStale,
     Reconcile, DrainStart, DrainRow, Begin, Run, Threading, Threads, control,
     Ours, XInv
<1>5. CASE \/ ServiceStep \/ ClaimTtlPasses \/ UNCHANGED vars
           \/ \E p \in PacketIds : PacketTtlPasses(p)
  BY <1>5 DEF ServiceStep, ApproverApproves, ApproverSubmits,
     WriteBackConflicts, ClaimTtlPasses, PacketTtlPasses, vars, control, Ours, XInv
<1>6. CASE Crash
  BY <1>6 DEF Crash, Ours, Threads
<1>7. CASE \E t \in Threads : Call(t)
  BY <1>1, <1>2, <1>7 DEF Ours, XInv, Threads
<1> QED BY <1>3, <1>4, <1>5, <1>6, <1>7 DEF Next, Ours, XInv

\* With one session the owner's rejection is final: no drain, retry, late answer
\* or restart writes a version of a packet that was rejected and not forwarded
\* (promotion.py, decide and deliver).
THEOREM RejectedStaysOutHolds == OneSession => (Spec => []RejectedStaysOut)
<1> SUFFICES ASSUME OneSession PROVE Spec => []RejectedStaysOut
  OBVIOUS
<1>1. Init => Columns /\ StaysOut /\ Offered /\ Ours
  <2> SUFFICES ASSUME Init PROVE Columns /\ StaysOut /\ Offered /\ Ours
    OBVIOUS
  <2>1. 0 \in 0..MaxCrashes
    BY PromotionAssumption
  <2>2. Columns
    BY <2>1 DEF Init, Columns, ClaimStates
  <2>3. StaysOut /\ Offered /\ Ours
    BY DEF Init, StaysOut, Offered, Ours, Touched, Delivers, Consenting, Threads
  <2> QED BY <2>2, <2>3
<1>2. IInv /\ (Columns /\ StaysOut /\ Offered /\ Ours) /\ [Next]_vars
        => (Columns /\ StaysOut /\ Offered /\ Ours)'
  BY StepColumns, StepStaysOut, StepOffered, StepOurs DEF XInv
<1>3. IInv /\ StaysOut => RejectedStaysOut
  <2> SUFFICES ASSUME IInv, StaysOut, NEW p \in PacketIds,
                      packet[p] = "rejected", Home(p), versions[p] # 0
               PROVE  FALSE
    BY DEF RejectedStaysOut, Home
  <2>1. Touched(p)
    BY DEF Touched, IInv, Data, Tables
  <2> QED BY <2>1 DEF StaysOut, Undecided
<1> QED BY <1>1, <1>2, <1>3, RecordsInvariance, PTL DEF Spec
=============================================================================
