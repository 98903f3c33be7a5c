--------------------------- MODULE PipelineProofs ---------------------------
(***************************************************************************)
(* Proofs for every number of deliveries, passes and handlers.  First the  *)
(* notifier alone (Delivery): the types, the dead queue's bound,           *)
(* NoSilentLoss, the exclusive lease and SentIsFinal.  Then the pipeline,  *)
(* which every such invariant carries over to: AlertIsKept, ExactlyOnce    *)
(* and that it runs each of its two sides by that side's own rules.        *)
(***************************************************************************)
EXTENDS Pipeline, TLAPS

(* What a handler and a copy in use know about each other: a running       *)
(* handler has a delivery, an unacked copy belongs to a running handler of *)
(* the same delivery, and only an attempt below the last one is retried.   *)
WellFormed ==
  /\ \A h \in Handlers : hs[h].pc # "idle" => hs[h].of \in Deliveries
  /\ \A h \in Handlers : hs[h].pc = "republish" => hs[h].attempts < Stages
  /\ \A c \in Copies : copy[c].at # "free" => copy[c].of \in Deliveries
  /\ \A c \in Copies : copy[c].at = "held" =>
       /\ copy[c].by \in Handlers
       /\ hs[copy[c].by].pc # "idle"
       /\ hs[copy[c].by].of = copy[c].of

TypeInv == TypeOK /\ WellFormed /\ DeadQueueBounded

----------------------------------------------------------------------------
(* The record constructors and updates the actions are made of *)

(* The fields of a handler record have their types. *)
LEMMA HandlerFields ==
  ASSUME NEW r \in HandlerRecord
  PROVE  /\ r.pc \in Pcs /\ r.of \in Deliveries \cup {None} /\ r.attempts \in 0..Stages
         /\ r.age \in 0..AttemptBound /\ r.err \in Errors
  BY DEF HandlerRecord

(* The fields of a message copy have their types. *)
LEMMA CopyFields ==
  ASSUME NEW r \in CopyRecord
  PROVE  /\ r.at \in Places /\ r.of \in Deliveries \cup {None} /\ r.attempts \in 0..Stages
         /\ r.wait \in Nat /\ r.by \in Handlers \cup {None}
  BY DEF CopyRecord

(* The broker's records are well typed wherever a message is put. *)
LEMMA CopyRecords ==
  ASSUME NEW d \in Deliveries \cup {None}, NEW n \in 0..Stages
  PROVE  /\ FreeCopy \in CopyRecord /\ FreeCopy.at = "free"
         /\ InMain(d, n) \in CopyRecord /\ InMain(d, n).at = "main" /\ InMain(d, n).of = d
         /\ InDead(d, n) \in CopyRecord /\ InDead(d, n).at = "dead" /\ InDead(d, n).of = d
         /\ n # 0 => /\ InRetry(d, n) \in CopyRecord
                     /\ InRetry(d, n).at = "retry" /\ InRetry(d, n).of = d
  BY DeliveryAssumption DEF FreeCopy, InMain, InDead, InRetry, CopyRecord, Places

(* An idle handler is a handler record. *)
LEMMA IdleRecord == Idle \in HandlerRecord /\ Idle.pc = "idle"
  BY DeliveryAssumption DEF Idle, HandlerRecord, Pcs, Errors

(* Goto moves one handler's program counter and keeps its message. *)
LEMMA GotoFacts ==
  ASSUME hs \in [Handlers -> HandlerRecord], NEW h \in Handlers, NEW p \in Pcs, Goto(h, p)
  PROVE  /\ hs' \in [Handlers -> HandlerRecord]
         /\ \A g \in Handlers \ {h} : hs'[g] = hs[g]
         /\ hs'[h].pc = p /\ hs'[h].of = hs[h].of /\ hs'[h].attempts = hs[h].attempts
<1>1. hs[h] \in HandlerRecord
  OBVIOUS
<1>2. 0 \in 0..AttemptBound /\ "none" \in Errors
  BY DeliveryAssumption DEF Errors
<1> DEFINE a == [hs[h] EXCEPT !.pc = p]
           b == [hs[h] EXCEPT !.pc = p, !.age = 0, !.err = "none"]
<1>3. a \in HandlerRecord /\ a.pc = p /\ a.of = hs[h].of /\ a.attempts = hs[h].attempts
  BY <1>1 DEF HandlerRecord
<1>4. b \in HandlerRecord /\ b.pc = p /\ b.of = hs[h].of /\ b.attempts = hs[h].attempts
  BY <1>1, <1>2 DEF HandlerRecord
<1>5. hs' = [hs EXCEPT ![h] = a] \/ hs' = [hs EXCEPT ![h] = b]
  BY DEF Goto
<1> HIDE DEF a, b
<1> QED
  BY <1>3, <1>4, <1>5

(* A failed attempt is settled FAILED or, below the last attempt, retried. *)
LEMMA AfterFailureFacts ==
  ASSUME hs \in [Handlers -> HandlerRecord], NEW h \in Handlers, NEW e
  PROVE  /\ AfterFailure(h, e) \in {"settleFailed", "republish"}
         /\ AfterFailure(h, e) \in Pcs \ {"idle", "ack", "stuck"}
         /\ AfterFailure(h, e) = "republish" => hs[h].attempts < Stages
<1>1. hs[h].attempts \in 0..Stages
  BY HandlerFields
<1> QED
  BY <1>1, DeliveryAssumption DEF AfterFailure, MaxAttempts, Pcs

(* The dead queue's invariant depends only on the queue and on which       *)
(* copies are parked.                                                      *)
LEMMA DeadQueueKept ==
  ASSUME DeadQueueBounded, dead' = dead,
         \A c \in Copies : copy'[c].at = "dead" <=> copy[c].at = "dead"
  PROVE  DeadQueueBounded'
  BY DEF DeadQueueBounded

(* A handler that moves on without touching the broker keeps the shape. *)
LEMMA GotoKeepsShape ==
  ASSUME TypeInv, NEW h \in Handlers, NEW p \in Pcs \ {"idle"}, Goto(h, p),
         hs[h].pc # "idle", p = "republish" => hs[h].attempts < Stages,
         UNCHANGED broker
  PROVE  hs' \in [Handlers -> HandlerRecord] /\ WellFormed' /\ DeadQueueBounded'
<1>1. /\ hs' \in [Handlers -> HandlerRecord]
      /\ \A g \in Handlers \ {h} : hs'[g] = hs[g]
      /\ hs'[h].pc = p /\ hs'[h].of = hs[h].of /\ hs'[h].attempts = hs[h].attempts
  BY GotoFacts DEF TypeInv, TypeOK
<1>2. WellFormed'
  BY <1>1 DEF TypeInv, WellFormed, broker
<1>3. DeadQueueBounded'
  BY DeadQueueKept DEF TypeInv, broker
<1> QED
  BY <1>1, <1>2, <1>3

(* The end of a run that leaves its message unacked keeps the shape. *)
LEMMA LeaveUnackedKeepsShape ==
  ASSUME TypeInv, NEW h \in Handlers, hs[h].pc # "idle", LeaveUnacked(h), dead' = dead
  PROVE  hs' \in [Handlers -> HandlerRecord] /\ WellFormed' /\ DeadQueueBounded'
<1>1. copy \in [Copies -> CopyRecord] /\ hs \in [Handlers -> HandlerRecord] /\ hs[h] \in HandlerRecord
  BY DEF TypeInv, TypeOK
<1> DEFINE r == [hs[h] EXCEPT !.pc = "stuck"]
<1>2. r \in HandlerRecord /\ r.pc = "stuck" /\ r.of = hs[h].of
  BY <1>1 DEF HandlerRecord, Pcs
<1>3. \/ HeldBy(h) = {} /\ hs' = [hs EXCEPT ![h] = Idle]
      \/ hs' = [hs EXCEPT ![h] = r]
  BY DEF LeaveUnacked
<1> HIDE DEF r
<1>4. hs' \in [Handlers -> HandlerRecord]
  BY <1>1, <1>2, <1>3, IdleRecord
<1>5. WellFormed'
  <2>1. copy' = copy
    BY DEF LeaveUnacked
  <2>2. CASE HeldBy(h) = {} /\ hs' = [hs EXCEPT ![h] = Idle]
    BY <1>1, <2>1, <2>2, IdleRecord DEF TypeInv, WellFormed, HeldBy, Holds
  <2>3. CASE hs' = [hs EXCEPT ![h] = r]
    BY <1>1, <1>2, <2>1, <2>3 DEF TypeInv, WellFormed
  <2> QED
    BY <1>3, <2>2, <2>3
<1>6. DeadQueueBounded'
  BY DeadQueueKept DEF TypeInv, LeaveUnacked
<1> QED
  BY <1>4, <1>5, <1>6

(* Requeueing returns what the handler held to the main queue, unchanged. *)
LEMMA RequeueFacts ==
  ASSUME TypeInv, NEW h \in Handlers, Requeue(h)
  PROVE  /\ copy' \in [Copies -> CopyRecord]
         /\ \A c \in Copies : ~Holds(h, c) => copy'[c] = copy[c]
         /\ \A c \in Copies : Holds(h, c) => copy'[c].at = "main" /\ copy'[c].of = copy[c].of
<1>1. \A c \in Copies : /\ copy[c] \in CopyRecord /\ copy[c].of \in Deliveries \cup {None}
                        /\ copy[c].attempts \in 0..Stages
  BY CopyFields DEF TypeInv, TypeOK
<1>2. ASSUME NEW c \in Copies
      PROVE  LET m == InMain(copy[c].of, copy[c].attempts) IN
             m \in CopyRecord /\ m.at = "main" /\ m.of = copy[c].of
  BY <1>1, CopyRecords
<1> QED
  BY <1>1, <1>2 DEF Requeue

(* The rows written by a claim, a release and a settle are well typed. *)
LEMMA RowRecords ==
  ASSUME NEW r \in RowRecord, NEW a \in 0..AttemptBound, NEW st \in Statuses
  PROVE  /\ ClaimRow(a) \in RowRecord /\ NoRow \in RowRecord
         /\ Released(r) \in RowRecord /\ Settled(r, st) \in RowRecord
  BY DeliveryAssumption
  DEF ClaimRow, NoRow, Released, Settled, RowRecord, Statuses, Unclaimed, AgeCap

----------------------------------------------------------------------------
(* Types *)

(* The initial state is well typed. *)
LEMMA InitTypeInv == Init => TypeInv
<1> SUFFICES ASSUME Init PROVE TypeInv
  OBVIOUS
<1>1. NoRow \in RowRecord
  BY DeliveryAssumption DEF NoRow, RowRecord, Statuses, Unclaimed, AgeCap
<1>2. FreeCopy \in CopyRecord /\ FreeCopy.at = "free"
  BY DeliveryAssumption DEF FreeCopy, CopyRecord, Places
<1>3. TypeOK
  BY <1>1, <1>2, IdleRecord, DeliveryAssumption DEF Init, TypeOK
<1>4. WellFormed
  BY <1>2, IdleRecord DEF Init, WellFormed
<1>5. DeadQueueBounded
  BY <1>2, DeliveryAssumption DEF Init, DeadQueueBounded
<1> QED
  BY <1>3, <1>4, <1>5 DEF TypeInv

(* Every step keeps the types. *)
LEMMA StepTypeInv == TypeInv /\ [Next]_vars => TypeInv'
<1> SUFFICES ASSUME TypeInv, [Next]_vars PROVE TypeInv'
  OBVIOUS
<1>a. /\ copy \in [Copies -> CopyRecord] /\ dead \in Seq(Copies)
      /\ hs \in [Handlers -> HandlerRecord] /\ row \in [Deliveries -> RowRecord]
      /\ published \in [Deliveries -> 0..MaxPublishes]
      /\ replays \in 0..MaxReplays /\ faults \in 0..MaxFaults
  BY DEF TypeInv, TypeOK
<1>f. ASSUME NEW kind, Fault(kind) PROVE faults' \in 0..MaxFaults
  BY <1>a, <1>f, DeliveryAssumption DEF Fault
<1>g. ASSUME NEW h \in Handlers, hs[h].pc # "idle" PROVE hs[h].of \in Deliveries
  BY <1>g DEF TypeInv, WellFormed
<1>h. \A h \in Handlers : hs[h] \in HandlerRecord /\ hs[h].age \in 0..AttemptBound
  BY <1>a, HandlerFields
<1>1. CASE UNCHANGED vars
  BY <1>1 DEF vars, history, TypeInv, TypeOK, WellFormed, DeadQueueBounded
<1>2. ASSUME NEW h \in Handlers, Receive(h) PROVE TypeInv'
  <2>1. PICK c \in Copies :
          /\ copy[c].at = "main"
          /\ copy' = [copy EXCEPT ![c] = [copy[c] EXCEPT !.at = "held", !.by = h]]
          /\ hs' = [hs EXCEPT ![h] =
                      [pc |-> IF copy[c].of \in Malformed THEN "park" ELSE "create",
                       of |-> copy[c].of, attempts |-> copy[c].attempts,
                       age |-> 0, err |-> "none"]]
    BY <1>2, <1>a DEF Receive
  <2> DEFINE m == [copy[c] EXCEPT !.at = "held", !.by = h]
             r == [pc |-> IF copy[c].of \in Malformed THEN "park" ELSE "create",
                   of |-> copy[c].of, attempts |-> copy[c].attempts,
                   age |-> 0, err |-> "none"]
  <2>2. /\ copy[c] \in CopyRecord /\ copy[c].attempts \in 0..Stages
        /\ copy[c].of \in Deliveries
    BY <1>a, <2>1, CopyFields DEF TypeInv, WellFormed
  <2>3. m \in CopyRecord /\ m.at = "held" /\ m.by = h /\ m.of = copy[c].of
    BY <2>2 DEF CopyRecord, Places
  <2>4. /\ r \in HandlerRecord /\ r.pc \notin {"idle", "republish"} /\ r.of = copy[c].of
    BY <2>2, DeliveryAssumption DEF HandlerRecord, Pcs, ClaimPcs, Errors
  <2>5. copy' = [copy EXCEPT ![c] = m] /\ hs' = [hs EXCEPT ![h] = r]
    BY <2>1
  <2> HIDE DEF m, r
  <2>6. copy' \in [Copies -> CopyRecord] /\ hs' \in [Handlers -> HandlerRecord]
    BY <1>a, <2>3, <2>4, <2>5
  <2>7. WellFormed'
    BY <1>2, <1>a, <2>2, <2>3, <2>4, <2>5 DEF Receive, TypeInv, WellFormed
  <2>8. DeadQueueBounded'
    BY <1>2, <1>a, <2>1, <2>3, <2>5, DeadQueueKept DEF Receive, TypeInv
  <2> QED
    BY <1>2, <2>6, <2>7, <2>8 DEF Receive, history, TypeInv, TypeOK
<1>3. ASSUME NEW h \in Handlers, Create(h) PROVE TypeInv'
  <2>1. PICK p \in {"send", "takeover"} : Goto(h, p)
    BY <1>3 DEF Create
  <2>2. hs' \in [Handlers -> HandlerRecord] /\ WellFormed' /\ DeadQueueBounded'
    BY <1>3, <2>1, GotoKeepsShape DEF Create, Pcs, OwnerPcs, ClaimPcs
  <2>3. row' \in [Deliveries -> RowRecord]
    BY <1>3, <1>a, <1>h, RowRecords DEF Create, Statuses
  <2> QED
    BY <1>3, <2>2, <2>3 DEF Create, broker, history, TypeInv, TypeOK
<1>4. ASSUME NEW h \in Handlers, Takeover(h) PROVE TypeInv'
  <2>1. PICK p \in {"send", "read"} : Goto(h, p)
    BY <1>4 DEF Takeover
  <2>2. hs' \in [Handlers -> HandlerRecord] /\ WellFormed' /\ DeadQueueBounded'
    BY <1>4, <2>1, GotoKeepsShape DEF Takeover, Pcs, OwnerPcs, ClaimPcs
  <2>3. row' \in [Deliveries -> RowRecord]
    BY <1>4, <1>a, <1>h, RowRecords DEF Takeover, Statuses
  <2> QED
    BY <1>4, <2>2, <2>3 DEF Takeover, broker, history, TypeInv, TypeOK
<1>5. ASSUME NEW h \in Handlers, ReadClaim(h) PROVE TypeInv'
  <2>1. PICK p \in {"send", "ack", AfterFailure(h, "retryable")} : Goto(h, p)
    BY <1>5 DEF ReadClaim
  <2>2. hs' \in [Handlers -> HandlerRecord] /\ WellFormed' /\ DeadQueueBounded'
    BY <1>5, <1>a, <2>1, GotoKeepsShape, AfterFailureFacts DEF ReadClaim, Pcs, OwnerPcs
  <2> QED
    BY <1>5, <2>2 DEF ReadClaim, broker, history, TypeInv, TypeOK
<1>6. ASSUME NEW h \in Handlers, ClaimError(h) PROVE TypeInv'
  <2>1. hs' \in [Handlers -> HandlerRecord] /\ WellFormed' /\ DeadQueueBounded'
    BY <1>6, <1>a, GotoKeepsShape, AfterFailureFacts DEF ClaimError, ClaimPcs
  <2> QED
    BY <1>6, <1>f, <2>1 DEF ClaimError, broker, history, TypeInv, TypeOK
<1>7. ASSUME NEW h \in Handlers, SendSucceeds(h) PROVE TypeInv'
  <2>1. hs' \in [Handlers -> HandlerRecord] /\ WellFormed' /\ DeadQueueBounded'
    BY <1>7, GotoKeepsShape DEF SendSucceeds, Pcs, OwnerPcs
  <2> QED
    BY <1>7, <2>1 DEF SendSucceeds, broker, history, TypeInv, TypeOK
<1>8. ASSUME NEW h \in Handlers, SendFails(h) PROVE TypeInv'
  <2>1. PICK e \in {"retryable", "permanent"} :
          hs' = [hs EXCEPT ![h] = [hs[h] EXCEPT !.pc = "release", !.err = e]]
    BY <1>8, <1>a DEF SendFails
  <2> DEFINE r == [hs[h] EXCEPT !.pc = "release", !.err = e]
  <2>2. r \in HandlerRecord /\ r.pc = "release" /\ r.of = hs[h].of
    BY <1>h DEF HandlerRecord, Pcs, OwnerPcs, Errors
  <2>3. hs' = [hs EXCEPT ![h] = r]
    BY <2>1
  <2> HIDE DEF r
  <2>4. WellFormed'
    BY <1>8, <1>a, <2>2, <2>3 DEF SendFails, broker, TypeInv, WellFormed
  <2>5. DeadQueueBounded'
    BY <1>8, DeadQueueKept DEF SendFails, broker, TypeInv
  <2> QED
    BY <1>8, <1>a, <2>2, <2>3, <2>4, <2>5 DEF SendFails, broker, history, TypeInv, TypeOK
<1>9. ASSUME NEW h \in Handlers, Release(h) PROVE TypeInv'
  <2>1. hs' \in [Handlers -> HandlerRecord] /\ WellFormed' /\ DeadQueueBounded'
    BY <1>9, <1>a, GotoKeepsShape, AfterFailureFacts DEF Release
  <2>2. row' \in [Deliveries -> RowRecord]
    BY <1>9, <1>a, <1>g, <1>h, RowRecords DEF Release, Statuses
  <2> QED
    BY <1>9, <2>1, <2>2 DEF Release, broker, history, TypeInv, TypeOK
<1>10. ASSUME NEW h \in Handlers, ReleaseError(h) PROVE TypeInv'
  <2>1. hs' \in [Handlers -> HandlerRecord] /\ WellFormed' /\ DeadQueueBounded'
    BY <1>10, <1>a, GotoKeepsShape, AfterFailureFacts DEF ReleaseError
  <2> QED
    BY <1>10, <1>f, <2>1 DEF ReleaseError, broker, history, TypeInv, TypeOK
<1>11. ASSUME NEW h \in Handlers, SettleSent(h) PROVE TypeInv'
  <2>1. hs' \in [Handlers -> HandlerRecord] /\ WellFormed' /\ DeadQueueBounded'
    BY <1>11, GotoKeepsShape DEF SettleSent, Pcs
  <2>2. row' \in [Deliveries -> RowRecord] /\ hs[h].of \in Deliveries
    BY <1>11, <1>a, <1>g, <1>h, RowRecords DEF SettleSent, Statuses
  <2> QED
    BY <1>11, <2>1, <2>2 DEF SettleSent, broker, TypeInv, TypeOK
<1>12. ASSUME NEW h \in Handlers, SettleSentError(h) PROVE TypeInv'
  <2>1. hs' \in [Handlers -> HandlerRecord] /\ WellFormed' /\ DeadQueueBounded'
    BY <1>12, <1>a, GotoKeepsShape, AfterFailureFacts DEF SettleSentError
  <2> QED
    BY <1>12, <1>f, <2>1 DEF SettleSentError, broker, history, TypeInv, TypeOK
<1>13. ASSUME NEW h \in Handlers, SettleFailed(h) PROVE TypeInv'
  <2>1. hs' \in [Handlers -> HandlerRecord] /\ WellFormed' /\ DeadQueueBounded'
    BY <1>13, GotoKeepsShape DEF SettleFailed, Pcs
  <2>2. row' \in [Deliveries -> RowRecord] /\ hs[h].of \in Deliveries
    BY <1>13, <1>a, <1>g, <1>h, RowRecords DEF SettleFailed, Statuses
  <2> QED
    BY <1>13, <2>1, <2>2 DEF SettleFailed, broker, TypeInv, TypeOK
<1>14. ASSUME NEW h \in Handlers, SettleFailedError(h) PROVE TypeInv'
  BY <1>14, <1>f, LeaveUnackedKeepsShape
  DEF SettleFailedError, LeaveUnacked, history, TypeInv, TypeOK
<1>15. ASSUME NEW h \in Handlers, PublishError(h) PROVE TypeInv'
  BY <1>15, <1>f, LeaveUnackedKeepsShape
  DEF PublishError, LeaveUnacked, history, TypeInv, TypeOK
<1>16. ASSUME NEW h \in Handlers, Republish(h) PROVE TypeInv'
  <2>1. PICK c \in Copies : /\ copy[c].at = "free"
                            /\ copy' = [copy EXCEPT ![c] = InRetry(hs[h].of, hs[h].attempts + 1)]
    <3>1. hs[h].attempts + 1 \in 1..Stages
      BY <1>16, <1>a, HandlerFields, DeliveryAssumption DEF Republish, TypeInv, WellFormed
    <3> QED
      BY <1>16, <3>1 DEF Republish, FreeCopies
  <2> DEFINE m == InRetry(hs[h].of, hs[h].attempts + 1)
  <2>2. m \in CopyRecord /\ m.at = "retry" /\ m.of = hs[h].of /\ hs[h].of \in Deliveries
    <3>1. hs[h].attempts + 1 \in 0..Stages /\ hs[h].attempts + 1 # 0
      BY <1>16, <1>a, HandlerFields, DeliveryAssumption DEF Republish, TypeInv, WellFormed
    <3> QED
      BY <1>16, <1>g, <3>1, CopyRecords DEF Republish
  <2>3. copy' = [copy EXCEPT ![c] = m]
    BY <2>1
  <2> HIDE DEF m
  <2>4. /\ hs' \in [Handlers -> HandlerRecord]
        /\ \A g \in Handlers \ {h} : hs'[g] = hs[g]
        /\ hs'[h].pc = "ack" /\ hs'[h].of = hs[h].of
    BY <1>16, <1>a, GotoFacts DEF Republish, Pcs
  <2>5. WellFormed'
    <3>1. copy'[c] = m /\ \A x \in Copies \ {c} : copy'[x] = copy[x]
      BY <1>a, <2>3
    <3>2. hs[h].pc = "republish"
      BY <1>16 DEF Republish
    <3> QED
      BY <2>2, <2>4, <3>1, <3>2 DEF TypeInv, WellFormed
  <2>6. DeadQueueBounded'
    BY <1>16, <1>a, <2>1, <2>2, <2>3, DeadQueueKept DEF Republish, TypeInv
  <2> QED
    BY <1>16, <1>a, <2>2, <2>3, <2>4, <2>5, <2>6 DEF Republish, history, TypeInv, TypeOK
<1>17. ASSUME NEW h \in Handlers, Park(h) PROVE TypeInv'
  <2> DEFINE m == InDead(hs[h].of, hs[h].attempts)
  <2>1. m \in CopyRecord /\ m.at = "dead" /\ m.of = hs[h].of /\ hs[h].of \in Deliveries
    <3>1. hs[h].of \in Deliveries /\ hs[h].attempts \in 0..Stages
      BY <1>17, <1>a, <1>g, HandlerFields DEF Park
    <3> QED
      BY <3>1, CopyRecords
  <2>2. /\ hs' \in [Handlers -> HandlerRecord]
        /\ \A g \in Handlers \ {h} : hs'[g] = hs[g]
        /\ hs'[h].pc = "ack" /\ hs'[h].of = hs[h].of /\ hs[h].pc = "park"
    BY <1>17, <1>a, GotoFacts DEF Park, Pcs
  <2>3. PICK c \in Copies :
          /\ copy[c].at = "free"
          /\ \/ /\ Len(dead) < DeadMax
                /\ copy' = [copy EXCEPT ![c] = m]
                /\ dead' = Append(dead, c)
                /\ UNCHANGED dropped
             \/ /\ ~(Len(dead) < DeadMax)
                /\ copy' = [copy EXCEPT ![c] = m, ![Head(dead)] = FreeCopy]
                /\ dead' = Append(Tail(dead), c)
                /\ dropped' = dropped \cup {copy[Head(dead)].of}
    BY <1>17 DEF Park, FreeCopies
  <2>4. FreeCopy \in CopyRecord /\ FreeCopy.at = "free"
    BY DeliveryAssumption DEF FreeCopy, CopyRecord, Places
  <2>5. \A i \in 1..Len(dead) : dead[i] \in Copies /\ copy[dead[i]].at = "dead" /\ dead[i] # c
    BY <1>a, <2>3 DEF TypeInv, DeadQueueBounded
  <2> HIDE DEF m
  <2>6. CASE Len(dead) < DeadMax
    <3>1. copy' = [copy EXCEPT ![c] = m] /\ dead' = Append(dead, c) /\ UNCHANGED dropped
      BY <2>3, <2>6
    <3>2. copy'[c] = m /\ \A x \in Copies \ {c} : copy'[x] = copy[x]
      BY <1>a, <3>1
    <3>3. /\ dead' \in Seq(Copies) /\ Len(dead') = Len(dead) + 1 /\ dead'[Len(dead) + 1] = c
          /\ \A i \in 1..Len(dead) : dead'[i] = dead[i]
      BY <1>a, <3>1
    <3>4. DeadQueueBounded'
      <4>1. Len(dead') <= DeadMax
        BY <1>a, <2>6, <3>3, DeliveryAssumption
      <4>2. ASSUME NEW x \in Copies
            PROVE  copy'[x].at = "dead" <=> \E i \in 1..Len(dead') : dead'[i] = x
        <5>1. Len(dead) \in Nat
          BY <1>a
        <5>2. CASE x = c
          BY <5>1, <5>2, <2>1, <3>2, <3>3
        <5>3. CASE x # c
          BY <5>1, <5>3, <3>2, <3>3 DEF TypeInv, DeadQueueBounded
        <5> QED
          BY <5>2, <5>3
      <4>3. ASSUME NEW i \in 1..Len(dead'), NEW j \in 1..Len(dead'), dead'[i] = dead'[j]
            PROVE  i = j
        <5>1. ASSUME NEW k \in 1..Len(dead'), k # Len(dead) + 1
              PROVE  k \in 1..Len(dead) /\ dead'[k] = dead[k] /\ dead'[k] # c
          <6>1. k \in 1..Len(dead)
            BY <1>a, <5>1, <3>3
          <6> QED
            BY <6>1, <2>5, <3>3
        <5>2. CASE i = Len(dead) + 1 \/ j = Len(dead) + 1
          BY <4>3, <5>1, <5>2, <3>3
        <5>3. CASE i # Len(dead) + 1 /\ j # Len(dead) + 1
          BY <4>3, <5>1, <5>3 DEF TypeInv, DeadQueueBounded
        <5> QED
          BY <5>2, <5>3
      <4> QED
        BY <4>1, <4>2, <4>3 DEF DeadQueueBounded
    <3>5. WellFormed'
      <4>1. copy[c].at = "free" /\ m.of \in Deliveries
        BY <2>1, <2>3
      <4> QED
        BY <4>1, <2>1, <2>2, <3>2 DEF TypeInv, WellFormed
    <3> QED
      BY <1>17, <1>a, <2>1, <2>2, <3>1, <3>3, <3>4, <3>5 DEF Park, TypeInv, TypeOK
  <2>7. CASE ~(Len(dead) < DeadMax)
    <3> DEFINE x0 == Head(dead)
    <3>1. /\ Len(dead) \in Nat \ {0} /\ Len(dead) = DeadMax /\ dead # <<>>
          /\ x0 = dead[1] /\ x0 \in Copies /\ x0 # c /\ copy[x0].of \in Deliveries
      <4>1. Len(dead) \in Nat \ {0} /\ Len(dead) = DeadMax
        BY <1>a, <2>7, DeliveryAssumption DEF TypeInv, DeadQueueBounded
      <4>2. dead # <<>> /\ x0 = dead[1]
        BY <1>a, <4>1
      <4> QED
        BY <4>1, <4>2, <2>5 DEF TypeInv, WellFormed
    <3>2. /\ copy' = [copy EXCEPT ![c] = m, ![x0] = FreeCopy]
          /\ dead' = Append(Tail(dead), c)
          /\ dropped' = dropped \cup {copy[x0].of}
      BY <2>3, <2>7
    <3> HIDE DEF x0
    <3>3. /\ copy'[c] = m /\ copy'[x0] = FreeCopy
          /\ \A x \in Copies \ {c, x0} : copy'[x] = copy[x]
      BY <1>a, <3>1, <3>2
    <3>4. /\ dead' \in Seq(Copies) /\ Len(dead') = Len(dead) /\ dead'[Len(dead)] = c
          /\ \A i \in 1..(Len(dead) - 1) : dead'[i] = dead[i + 1]
      BY <1>a, <3>1, <3>2
    <3>5. DeadQueueBounded'
      <4>1. ASSUME NEW x \in Copies
            PROVE  copy'[x].at = "dead" <=> \E i \in 1..Len(dead') : dead'[i] = x
        <5>1. CASE x = c
          BY <5>1, <2>1, <3>1, <3>3, <3>4
        <5>2. CASE x = x0
          <6>1. copy'[x].at # "dead"
            BY <5>2, <2>4, <3>3
          <6>2. ASSUME NEW i \in 1..Len(dead'), dead'[i] = x PROVE FALSE
            <7>1. CASE i = Len(dead)
              BY <5>2, <6>2, <7>1, <3>1, <3>4
            <7>2. CASE i # Len(dead)
              <8>1. i \in 1..(Len(dead) - 1) /\ i + 1 \in 1..Len(dead) /\ 1 \in 1..Len(dead) /\ i + 1 # 1
                BY <6>2, <7>2, <3>1, <3>4
              <8>2. dead[i + 1] = dead[1]
                BY <5>2, <6>2, <8>1, <3>1, <3>4
              <8> QED
                BY <8>1, <8>2 DEF TypeInv, DeadQueueBounded
            <7> QED
              BY <7>1, <7>2
          <6> QED
            BY <6>1, <6>2
        <5>3. CASE x \notin {c, x0}
          <6>1. copy'[x] = copy[x]
            BY <5>3, <3>3
          <6>2. ASSUME copy[x].at = "dead" PROVE \E i \in 1..Len(dead') : dead'[i] = x
            <7>1. PICK k \in 1..Len(dead) : dead[k] = x
              BY <6>2 DEF TypeInv, DeadQueueBounded
            <7>2. k - 1 \in 1..(Len(dead) - 1) /\ k - 1 \in 1..Len(dead') /\ (k - 1) + 1 = k
              BY <5>3, <7>1, <3>1, <3>4
            <7> QED
              BY <7>1, <7>2, <3>4
          <6>3. ASSUME NEW i \in 1..Len(dead'), dead'[i] = x PROVE copy[x].at = "dead"
            <7>1. i \in 1..(Len(dead) - 1) /\ i + 1 \in 1..Len(dead)
              BY <5>3, <6>3, <3>1, <3>4
            <7> QED
              BY <6>3, <7>1, <2>5, <3>4
          <6> QED
            BY <6>1, <6>2, <6>3
        <5> QED
          BY <5>1, <5>2, <5>3
      <4>2. ASSUME NEW i \in 1..Len(dead'), NEW j \in 1..Len(dead'), dead'[i] = dead'[j]
            PROVE  i = j
        <5>1. ASSUME NEW k \in 1..Len(dead'), k # Len(dead)
              PROVE  k + 1 \in 1..Len(dead) /\ dead'[k] = dead[k + 1] /\ dead'[k] # c
          <6>1. k \in 1..(Len(dead) - 1) /\ k + 1 \in 1..Len(dead)
            BY <5>1, <3>1, <3>4
          <6> QED
            BY <6>1, <2>5, <3>4
        <5>2. CASE i = Len(dead) \/ j = Len(dead)
          BY <4>2, <5>1, <5>2, <3>4
        <5>3. CASE i # Len(dead) /\ j # Len(dead)
          <6>1. i + 1 = j + 1
            BY <4>2, <5>1, <5>3 DEF TypeInv, DeadQueueBounded
          <6> QED
            BY <6>1, <3>1, <3>4
        <5> QED
          BY <5>2, <5>3
      <4> QED
        BY <4>1, <4>2, <3>1, <3>4, DeliveryAssumption DEF DeadQueueBounded
    <3>6. WellFormed'
      BY <2>1, <2>2, <2>3, <2>4, <3>1, <3>3 DEF TypeInv, WellFormed
    <3>7. copy' \in [Copies -> CopyRecord]
      BY <1>a, <2>1, <2>4, <3>2
    <3> QED
      BY <1>17, <2>2, <3>1, <3>2, <3>4, <3>5, <3>6, <3>7 DEF Park, TypeInv, TypeOK
  <2> QED
    BY <2>6, <2>7
<1>18. ASSUME NEW h \in Handlers, Ack(h) PROVE TypeInv'
  <2>1. FreeCopy \in CopyRecord /\ FreeCopy.at = "free"
    BY DeliveryAssumption DEF FreeCopy, CopyRecord, Places
  <2>2. /\ copy' \in [Copies -> CopyRecord]
        /\ \A c \in Copies : copy'[c] = IF Holds(h, c) THEN FreeCopy ELSE copy[c]
    BY <1>18, <1>a, <2>1 DEF Ack
  <2>3. hs' \in [Handlers -> HandlerRecord] /\ hs' = [hs EXCEPT ![h] = Idle]
    BY <1>18, <1>a, IdleRecord DEF Ack
  <2>4. WellFormed'
    BY <1>a, <2>1, <2>2, <2>3, IdleRecord DEF TypeInv, WellFormed, Holds
  <2>5. DeadQueueBounded'
    BY <1>18, <2>1, <2>2, DeadQueueKept DEF Ack, TypeInv, Holds
  <2> QED
    BY <1>18, <2>2, <2>3, <2>4, <2>5 DEF Ack, history, TypeInv, TypeOK
<1>19. ASSUME NEW h \in Handlers, Crash(h) PROVE TypeInv'
  <2>1. /\ copy' \in [Copies -> CopyRecord]
        /\ \A c \in Copies : ~Holds(h, c) => copy'[c] = copy[c]
        /\ \A c \in Copies : Holds(h, c) => copy'[c].at = "main" /\ copy'[c].of = copy[c].of
    BY <1>19, RequeueFacts DEF Crash
  <2>2. hs' \in [Handlers -> HandlerRecord] /\ hs' = [hs EXCEPT ![h] = Idle]
    BY <1>19, <1>a, IdleRecord DEF Crash
  <2>3. WellFormed'
    BY <1>a, <2>1, <2>2, IdleRecord DEF TypeInv, WellFormed, Holds
  <2>4. DeadQueueBounded'
    BY <1>19, <2>1, DeadQueueKept DEF Crash, TypeInv, Holds
  <2> QED
    BY <1>19, <1>f, <2>1, <2>2, <2>3, <2>4 DEF Crash, history, TypeInv, TypeOK
<1>20. ASSUME NEW h \in Handlers, ChannelDrop(h) PROVE TypeInv'
  <2>1. /\ copy' \in [Copies -> CopyRecord]
        /\ \A c \in Copies : ~Holds(h, c) => copy'[c] = copy[c]
        /\ \A c \in Copies : Holds(h, c) => copy'[c].at = "main" /\ copy'[c].of = copy[c].of
    BY <1>20, RequeueFacts DEF ChannelDrop
  <2>2. /\ hs' \in [Handlers -> HandlerRecord]
        /\ hs' = [hs EXCEPT ![h] = Idle] \/ hs' = hs
    BY <1>20, <1>a, IdleRecord DEF ChannelDrop
  <2>3. WellFormed'
    <3>1. CASE hs' = hs
      BY <2>1, <3>1 DEF TypeInv, WellFormed, Holds
    <3>2. CASE hs' = [hs EXCEPT ![h] = Idle]
      BY <1>a, <2>1, <3>2, IdleRecord DEF TypeInv, WellFormed, Holds
    <3> QED
      BY <2>2, <3>1, <3>2
  <2>4. DeadQueueBounded'
    BY <1>20, <2>1, DeadQueueKept DEF ChannelDrop, TypeInv, Holds
  <2> QED
    BY <1>20, <1>f, <2>1, <2>2, <2>3, <2>4 DEF ChannelDrop, history, TypeInv, TypeOK
<1>21. ASSUME NEW d \in Deliveries, Publish(d) PROVE TypeInv'
  <2>1. PICK c \in Copies : copy[c].at = "free" /\ copy' = [copy EXCEPT ![c] = InMain(d, 0)]
    BY <1>21 DEF Publish, FreeCopies
  <2>2. InMain(d, 0) \in CopyRecord /\ InMain(d, 0).at = "main" /\ InMain(d, 0).of = d
    BY CopyRecords, DeliveryAssumption
  <2>3. WellFormed'
    BY <1>21, <1>a, <2>1, <2>2 DEF Publish, TypeInv, WellFormed
  <2>4. DeadQueueBounded'
    BY <1>21, <1>a, <2>1, <2>2, DeadQueueKept DEF Publish, TypeInv
  <2>5. published' \in [Deliveries -> 0..MaxPublishes]
    BY <1>21, <1>a, DeliveryAssumption DEF Publish
  <2> QED
    BY <1>21, <1>a, <2>1, <2>2, <2>3, <2>4, <2>5 DEF Publish, history, TypeInv, TypeOK
<1>22. ASSUME NEW d \in Deliveries, Wipe(d) PROVE TypeInv'
  <2>1. NoRow \in RowRecord
    BY DeliveryAssumption DEF NoRow, RowRecord, Statuses, Unclaimed, AgeCap
  <2>2. WellFormed' /\ DeadQueueBounded'
    BY <1>22, DeadQueueKept DEF Wipe, broker, TypeInv, WellFormed
  <2> QED
    BY <1>22, <1>a, <1>f, <2>1, <2>2 DEF Wipe, broker, TypeInv, TypeOK
<1>23. ASSUME NEW c \in Copies, Expire(c) PROVE TypeInv'
  <2> DEFINE m == InMain(copy[c].of, copy[c].attempts)
  <2>1. m \in CopyRecord /\ m.at = "main" /\ m.of = copy[c].of
    <3>1. copy[c].of \in Deliveries \cup {None} /\ copy[c].attempts \in 0..Stages
      BY <1>a, CopyFields
    <3> QED
      BY <3>1, CopyRecords
  <2>2. copy' = [copy EXCEPT ![c] = m] /\ copy[c].at = "retry"
    BY <1>23 DEF Expire
  <2> HIDE DEF m
  <2>3. WellFormed'
    BY <1>23, <1>a, <2>1, <2>2 DEF Expire, TypeInv, WellFormed
  <2>4. DeadQueueBounded'
    BY <1>23, <1>a, <2>1, <2>2, DeadQueueKept DEF Expire, TypeInv
  <2> QED
    BY <1>23, <1>a, <2>1, <2>2, <2>3, <2>4 DEF Expire, history, TypeInv, TypeOK
<1>24. CASE Replay
  <2> DEFINE x0 == Head(dead)
             m == InMain(copy[x0].of, 0)
  <2>1. Len(dead) \in Nat \ {0} /\ x0 = dead[1] /\ x0 \in Copies /\ copy[x0].at = "dead"
    <3>1. Len(dead) \in Nat \ {0} /\ x0 = dead[1]
      BY <1>24, <1>a DEF Replay
    <3> QED
      BY <1>a, <3>1 DEF TypeInv, DeadQueueBounded
  <2>2. m \in CopyRecord /\ m.at = "main" /\ m.of = copy[x0].of /\ m.of \in Deliveries
    <3>1. copy[x0].of \in Deliveries /\ 0 \in 0..Stages
      BY <2>1, DeliveryAssumption DEF TypeInv, WellFormed
    <3> QED
      BY <3>1, CopyRecords
  <2>3. copy' = [copy EXCEPT ![x0] = m] /\ dead' = Tail(dead) /\ hs' = hs
    BY <1>24 DEF Replay
  <2> HIDE DEF m, x0
  <2>4. copy'[x0] = m /\ \A x \in Copies \ {x0} : copy'[x] = copy[x]
    BY <1>a, <2>1, <2>3
  <2>5. /\ dead' \in Seq(Copies) /\ Len(dead') = Len(dead) - 1
        /\ \A i \in 1..(Len(dead) - 1) : dead'[i] = dead[i + 1]
    BY <1>24, <1>a, <2>1, <2>3 DEF Replay
  <2>6. WellFormed'
    BY <2>2, <2>3, <2>4 DEF TypeInv, WellFormed
  <2>7. DeadQueueBounded'
    <3>1. ASSUME NEW k \in 1..Len(dead')
          PROVE  k + 1 \in 1..Len(dead) /\ dead'[k] = dead[k + 1] /\ dead'[k] # x0
      <4>1. k \in 1..(Len(dead) - 1) /\ k + 1 \in 1..Len(dead) /\ 1 \in 1..Len(dead) /\ k + 1 # 1
        BY <2>1, <2>5
      <4> QED
        BY <4>1, <2>1, <2>5 DEF TypeInv, DeadQueueBounded
    <3>2. ASSUME NEW x \in Copies
          PROVE  copy'[x].at = "dead" <=> \E i \in 1..Len(dead') : dead'[i] = x
      <4>1. CASE x = x0
        BY <4>1, <2>2, <2>4, <3>1
      <4>2. CASE x # x0
        <5>1. ASSUME copy[x].at = "dead" PROVE \E i \in 1..Len(dead') : dead'[i] = x
          <6>1. PICK k \in 1..Len(dead) : dead[k] = x
            BY <5>1 DEF TypeInv, DeadQueueBounded
          <6>2. k - 1 \in 1..(Len(dead) - 1) /\ k - 1 \in 1..Len(dead') /\ (k - 1) + 1 = k
            BY <4>2, <6>1, <2>1, <2>5
          <6> QED
            BY <6>1, <6>2, <2>5
        <5>2. ASSUME NEW i \in 1..Len(dead'), dead'[i] = x PROVE copy[x].at = "dead"
          BY <5>2, <3>1 DEF TypeInv, DeadQueueBounded
        <5> QED
          BY <4>2, <2>4, <5>1, <5>2
      <4> QED
        BY <4>1, <4>2
    <3>3. ASSUME NEW i \in 1..Len(dead'), NEW j \in 1..Len(dead'), dead'[i] = dead'[j]
          PROVE  i = j
      <4>1. i + 1 = j + 1
        BY <3>1, <3>3 DEF TypeInv, DeadQueueBounded
      <4> QED
        BY <4>1, <2>1, <2>5
    <3>4. Len(dead') <= DeadMax
      BY <2>1, <2>5, DeliveryAssumption DEF TypeInv, DeadQueueBounded
    <3> QED
      BY <3>2, <3>3, <3>4 DEF DeadQueueBounded
  <2>8. replays' \in 0..MaxReplays
    BY <1>24, <1>a, DeliveryAssumption DEF Replay
  <2> QED
    BY <1>24, <1>a, <2>2, <2>3, <2>5, <2>6, <2>7, <2>8 DEF Replay, history, TypeInv, TypeOK
<1>25. CASE Tick
  <2>1. ASSUME NEW h \in Handlers
        PROVE  /\ hs'[h] \in HandlerRecord /\ hs'[h].pc = hs[h].pc /\ hs'[h].of = hs[h].of
               /\ hs'[h].attempts = hs[h].attempts
    <3> DEFINE r == [hs[h] EXCEPT !.age = @ + 1]
    <3>1. hs[h].age < AttemptBound =>
            /\ r \in HandlerRecord /\ r.pc = hs[h].pc /\ r.of = hs[h].of
            /\ r.attempts = hs[h].attempts
      <4>1. hs[h].age < AttemptBound => hs[h].age + 1 \in 0..AttemptBound
        BY <1>h, DeliveryAssumption
      <4> QED
        BY <1>h, <4>1 DEF HandlerRecord
    <3>2. hs'[h] = IF InAttempt(h) THEN r ELSE hs[h]
      BY <1>25 DEF Tick
    <3> HIDE DEF r
    <3> QED
      BY <1>25, <1>h, <3>1, <3>2 DEF Tick
  <2>2. ASSUME NEW d \in Deliveries PROVE row'[d] \in RowRecord
    <3>1. row[d] \in RowRecord
      BY <1>a
    <3> QED
      <4> DEFINE r == [row[d] EXCEPT !.age = @ + 1]
      <4>1. row[d].age \in 0..(AgeCap - 1) => row[d].age + 1 \in Unclaimed..AgeCap
        BY DeliveryAssumption DEF Unclaimed, AgeCap
      <4>2. row[d].age \in 0..(AgeCap - 1) => r \in RowRecord
        BY <3>1, <4>1 DEF RowRecord
      <4>3. row'[d] = IF row[d].age \in 0..(AgeCap - 1) THEN r ELSE row[d]
        BY <1>25 DEF Tick
      <4> HIDE DEF r
      <4> QED
        BY <3>1, <4>2, <4>3
  <2>3. ASSUME NEW c \in Copies
        PROVE  /\ copy'[c] \in CopyRecord /\ copy'[c].at = copy[c].at /\ copy'[c].of = copy[c].of
               /\ copy'[c].by = copy[c].by
    <3>1. copy[c] \in CopyRecord
      BY <1>a
    <3> QED
      BY <1>25, <3>1 DEF Tick, CopyRecord
  <2>4. WellFormed'
    BY <2>1, <2>3 DEF TypeInv, WellFormed
  <2>5. DeadQueueBounded'
    BY <1>25, <2>3, DeadQueueKept DEF Tick, TypeInv
  <2>6. /\ hs' \in [Handlers -> HandlerRecord] /\ row' \in [Deliveries -> RowRecord]
        /\ copy' \in [Copies -> CopyRecord]
    BY <1>25, <2>1, <2>2, <2>3 DEF Tick
  <2> QED
    BY <1>25, <2>4, <2>5, <2>6 DEF Tick, history, TypeInv, TypeOK
<1> QED
  BY <1>1, <1>2, <1>3, <1>4, <1>5, <1>6, <1>7, <1>8, <1>9, <1>10, <1>11, <1>12, <1>13,
     <1>14, <1>15, <1>16, <1>17, <1>18, <1>19, <1>20, <1>21, <1>22, <1>23, <1>24, <1>25
  DEF Next, HandlerStep, HandlerFault

(* Every variable of the notifier keeps its type, whatever faults occur. *)
THEOREM TypeCorrect == Spec => []TypeOK
<1>1. Spec => []TypeInv
  BY InitTypeInv, StepTypeInv, PTL DEF Spec
<1>2. TypeInv => TypeOK
  BY DEF TypeInv
<1> QED
  BY <1>1, <1>2, PTL

(* The dead queue lists exactly the parked copies and never exceeds        *)
(* NOTIFIER_DEAD_QUEUE_MAX, whatever is parked, dropped or replayed.       *)
THEOREM DeadQueueCorrect == Spec => []DeadQueueBounded
<1>1. Spec => []TypeInv
  BY InitTypeInv, StepTypeInv, PTL DEF Spec
<1>2. TypeInv => DeadQueueBounded
  BY DEF TypeInv
<1> QED
  BY <1>1, <1>2, PTL

----------------------------------------------------------------------------
(* No silent loss *)

(* A copy the delivery can rely on: not one its handler is about to ack. *)
Safe(c, d) ==
  /\ copy[c].at # "free"
  /\ copy[c].of = d
  /\ copy[c].at = "held" => hs[copy[c].by].pc # "ack"

Accounted(d) == d \in settledSent \cup dropped \/ \E c \in Copies : Safe(c, d)

(* The inductive form of NoSilentLoss: NoSilentLoss alone is not inductive, *)
(* since an ack frees a copy; it is kept because an ack is only reached     *)
(* once the outcome is recorded or another copy has taken over.             *)
LossInv ==
  /\ \A d \in Deliveries : row[d].status = "SENT" => d \in settledSent
  /\ \A d \in Deliveries : published[d] > 0 => Accounted(d)

(* A step keeps LossInv's second half if each copy that was relied on is   *)
(* still safe, or replaced by another one, or its delivery accounted for.  *)
LEMMA AccountedKept ==
  ASSUME LossInv, settledSent \subseteq settledSent', dropped \subseteq dropped',
         published' = published,
         \A d \in Deliveries, c \in Copies : Safe(c, d) => Accounted(d)'
  PROVE  \A d \in Deliveries : published'[d] > 0 => Accounted(d)'
<1> SUFFICES ASSUME NEW d \in Deliveries, published[d] > 0 PROVE Accounted(d)'
  OBVIOUS
<1>1. Accounted(d)
  BY DEF LossInv
<1>2. CASE d \in settledSent \cup dropped
  BY <1>2 DEF Accounted
<1>3. CASE \E c \in Copies : Safe(c, d)
  BY <1>3
<1> QED
  BY <1>1, <1>2, <1>3 DEF Accounted

(* A handler that moves on short of the ack leaves every copy as safe. *)
LEMMA GotoKeepsSafe ==
  ASSUME TypeInv, NEW h \in Handlers, NEW p \in Pcs \ {"ack"}, Goto(h, p),
         UNCHANGED broker
  PROVE  \A d \in Deliveries, c \in Copies : Safe(c, d) => Accounted(d)'
<1>1. /\ \A g \in Handlers \ {h} : hs'[g] = hs[g]
      /\ hs'[h].pc = p
  BY GotoFacts DEF TypeInv, TypeOK
<1> SUFFICES ASSUME NEW d \in Deliveries, NEW c \in Copies, Safe(c, d) PROVE Safe(c, d)'
  BY DEF Accounted
<1>2. copy' = copy
  BY DEF broker
<1>3. copy[c].at = "held" => copy[c].by \in Handlers
  BY DEF TypeInv, WellFormed
<1> QED
  BY <1>1, <1>2, <1>3 DEF Safe

(* A handler may go to its ack once its delivery is settled SENT. *)
LEMMA GotoAckKeepsSafe ==
  ASSUME TypeInv, NEW h \in Handlers, hs[h].of \in settledSent', Goto(h, "ack"),
         UNCHANGED broker
  PROVE  \A d \in Deliveries, c \in Copies : Safe(c, d) => Accounted(d)'
<1>1. \A g \in Handlers \ {h} : hs'[g] = hs[g]
  BY GotoFacts DEF TypeInv, TypeOK, Pcs
<1> SUFFICES ASSUME NEW d \in Deliveries, NEW c \in Copies, Safe(c, d) PROVE Accounted(d)'
  OBVIOUS
<1>2. copy' = copy
  BY DEF broker
<1>3. copy[c].at = "held" => copy[c].by \in Handlers /\ hs[copy[c].by].of = copy[c].of
  BY DEF TypeInv, WellFormed
<1>4. CASE copy[c].at = "held" /\ copy[c].by = h
  BY <1>3, <1>4 DEF Safe, Accounted
<1>5. CASE ~(copy[c].at = "held" /\ copy[c].by = h)
  BY <1>1, <1>2, <1>3, <1>5 DEF Safe, Accounted
<1> QED
  BY <1>4, <1>5

(* A run that ends unacked leaves every copy as safe. *)
LEMMA LeaveUnackedKeepsSafe ==
  ASSUME TypeInv, NEW h \in Handlers, LeaveUnacked(h)
  PROVE  \A d \in Deliveries, c \in Copies : Safe(c, d) => Accounted(d)'
<1>1. hs \in [Handlers -> HandlerRecord] /\ hs[h] \in HandlerRecord
  BY DEF TypeInv, TypeOK
<1> DEFINE r == [hs[h] EXCEPT !.pc = "stuck"]
<1>2. r.pc = "stuck"
  BY <1>1 DEF HandlerRecord
<1>3. hs' = [hs EXCEPT ![h] = Idle] \/ hs' = [hs EXCEPT ![h] = r]
  BY DEF LeaveUnacked
<1> HIDE DEF r
<1>4. hs'[h].pc # "ack" /\ \A g \in Handlers \ {h} : hs'[g] = hs[g]
  BY <1>1, <1>2, <1>3, IdleRecord
<1> SUFFICES ASSUME NEW d \in Deliveries, NEW c \in Copies, Safe(c, d) PROVE Safe(c, d)'
  BY DEF Accounted
<1>5. copy' = copy
  BY DEF LeaveUnacked
<1>6. copy[c].at = "held" => copy[c].by \in Handlers
  BY DEF TypeInv, WellFormed
<1> QED
  BY <1>4, <1>5, <1>6 DEF Safe

(* Requeueing leaves every copy at least as safe. *)
LEMMA RequeueKeepsSafe ==
  ASSUME TypeInv, NEW h \in Handlers, Requeue(h),
         \A g \in Handlers \ {h} : hs'[g] = hs[g]
  PROVE  \A d \in Deliveries, c \in Copies : Safe(c, d) => Accounted(d)'
<1>1. /\ \A c \in Copies : ~Holds(h, c) => copy'[c] = copy[c]
      /\ \A c \in Copies : Holds(h, c) => copy'[c].at = "main" /\ copy'[c].of = copy[c].of
  BY RequeueFacts
<1> SUFFICES ASSUME NEW d \in Deliveries, NEW c \in Copies, Safe(c, d) PROVE Safe(c, d)'
  BY DEF Accounted
<1>2. copy[c].at = "held" => copy[c].by \in Handlers
  BY DEF TypeInv, WellFormed
<1>3. CASE Holds(h, c)
  BY <1>1, <1>3 DEF Safe
<1>4. CASE ~Holds(h, c)
  BY <1>1, <1>2, <1>4 DEF Safe, Holds
<1> QED
  BY <1>3, <1>4

(* A row write at one delivery keeps "SENT only if settled SENT". *)
LEMMA RowKept ==
  ASSUME TypeInv, LossInv, NEW d \in Deliveries, NEW r, row' = [row EXCEPT ![d] = r],
         settledSent \subseteq settledSent',
         r.status = "SENT" => d \in settledSent'
  PROVE  \A e \in Deliveries : row'[e].status = "SENT" => e \in settledSent'
  BY DEF TypeInv, TypeOK, LossInv

(* Nothing is published before the start. *)
LEMMA InitLossInv == Init => LossInv
  BY DEF Init, LossInv, NoRow

(* Every step keeps LossInv. *)
LEMMA StepLossInv == TypeInv /\ LossInv /\ [Next]_vars => LossInv'
<1> SUFFICES ASSUME TypeInv, LossInv, [Next]_vars PROVE LossInv'
  OBVIOUS
<1> DEFINE RowGoal == \A d \in Deliveries : row'[d].status = "SENT" => d \in settledSent'
           SafeGoal == \A d \in Deliveries, c \in Copies : Safe(c, d) => Accounted(d)'
<1>a. ASSUME RowGoal, SafeGoal, published' = published,
             settledSent \subseteq settledSent', dropped \subseteq dropped'
      PROVE  LossInv'
  BY <1>a, AccountedKept DEF LossInv
<1>b. ASSUME row' = row, settledSent \subseteq settledSent' PROVE RowGoal
  BY <1>b DEF LossInv
<1>c. ASSUME NEW h \in Handlers, hs[h].pc # "idle" PROVE hs[h].of \in Deliveries
  BY <1>c DEF TypeInv, WellFormed
<1>d. /\ hs \in [Handlers -> HandlerRecord] /\ copy \in [Copies -> CopyRecord]
      /\ row \in [Deliveries -> RowRecord]
  BY DEF TypeInv, TypeOK
<1>1. CASE UNCHANGED vars
  BY <1>1 DEF vars, history, LossInv, Accounted, Safe
<1>2. ASSUME NEW h \in Handlers, Receive(h) PROVE LossInv'
  <2>1. PICK c \in Copies : /\ copy[c].at = "main"
                            /\ copy' = [copy EXCEPT ![c] = [copy[c] EXCEPT !.at = "held", !.by = h]]
    BY <1>2, <1>d DEF Receive
  <2> DEFINE m == [copy[c] EXCEPT !.at = "held", !.by = h]
  <2>2. m.at = "held" /\ m.by = h /\ m.of = copy[c].of
    BY <1>d DEF CopyRecord
  <2>3. copy'[c] = m /\ \A x \in Copies \ {c} : copy'[x] = copy[x]
    BY <1>d, <2>1
  <2> HIDE DEF m
  <2>4. hs'[h].pc # "ack" /\ \A g \in Handlers \ {h} : hs'[g] = hs[g]
    BY <1>2, <1>d DEF Receive
  <2>5. SafeGoal
    <3> SUFFICES ASSUME NEW d \in Deliveries, NEW x \in Copies, Safe(x, d) PROVE Safe(x, d)'
      BY DEF Accounted
    <3>1. copy[x].at = "held" => copy[x].by \in Handlers
      BY DEF TypeInv, WellFormed
    <3>2. CASE x = c
      BY <2>2, <2>3, <2>4, <3>2 DEF Safe
    <3>3. CASE x # c
      BY <2>3, <2>4, <3>1, <3>3 DEF Safe
    <3> QED
      BY <3>2, <3>3
  <2> HIDE DEF SafeGoal, RowGoal
  <2> QED
    BY <1>2, <1>a, <1>b, <2>5 DEF Receive, history
<1>3. ASSUME NEW h \in Handlers, Create(h) PROVE LossInv'
  <2>1. PICK p \in {"send", "takeover"} : Goto(h, p)
    BY <1>3 DEF Create
  <2>2. SafeGoal
    BY <1>3, <2>1, GotoKeepsSafe DEF Create, Pcs, ClaimPcs, OwnerPcs
  <2>3. RowGoal
    <3>1. ClaimRow(hs[h].age).status # "SENT"
      BY DEF ClaimRow
    <3>2. CASE row' = row
      BY <1>3, <1>b, <3>2 DEF Create, history
    <3>3. CASE row' = [row EXCEPT ![hs[h].of] = ClaimRow(hs[h].age)]
      BY <1>3, <1>c, <3>1, <3>3, RowKept DEF Create, history
    <3> QED
      BY <1>3, <3>2, <3>3 DEF Create
  <2> HIDE DEF SafeGoal, RowGoal
  <2> QED
    BY <1>3, <1>a, <2>2, <2>3 DEF Create, history
<1>4. ASSUME NEW h \in Handlers, Takeover(h) PROVE LossInv'
  <2>1. PICK p \in {"send", "read"} : Goto(h, p)
    BY <1>4 DEF Takeover
  <2>2. SafeGoal
    BY <1>4, <2>1, GotoKeepsSafe DEF Takeover, Pcs, ClaimPcs, OwnerPcs
  <2>3. RowGoal
    <3>1. ClaimRow(hs[h].age).status # "SENT"
      BY DEF ClaimRow
    <3>2. CASE row' = row
      BY <1>4, <1>b, <3>2 DEF Takeover, history
    <3>3. CASE row' = [row EXCEPT ![hs[h].of] = ClaimRow(hs[h].age)]
      BY <1>4, <1>c, <3>1, <3>3, RowKept DEF Takeover, history
    <3> QED
      BY <1>4, <3>2, <3>3 DEF Takeover
  <2> HIDE DEF SafeGoal, RowGoal
  <2> QED
    BY <1>4, <1>a, <2>2, <2>3 DEF Takeover, history
<1>5. ASSUME NEW h \in Handlers, ReadClaim(h) PROVE LossInv'
  <2>1. SafeGoal
    <3>1. CASE row[hs[h].of].status = "SENT"
      <4>1. hs[h].of \in settledSent' /\ Goto(h, "ack")
        BY <1>5, <1>c, <3>1 DEF ReadClaim, history, LossInv
      <4> QED
        BY <1>5, <4>1, GotoAckKeepsSafe DEF ReadClaim
    <3>2. CASE row[hs[h].of].status # "SENT"
      <4>1. PICK p \in {"send", AfterFailure(h, "retryable")} : Goto(h, p)
        BY <1>5, <3>2 DEF ReadClaim
      <4> QED
        BY <1>5, <1>d, <4>1, GotoKeepsSafe, AfterFailureFacts DEF ReadClaim, Pcs, OwnerPcs
    <3> QED
      BY <3>1, <3>2
  <2> HIDE DEF SafeGoal, RowGoal
  <2> QED
    BY <1>5, <1>a, <1>b, <2>1 DEF ReadClaim, history
<1>6. ASSUME NEW h \in Handlers, ClaimError(h) PROVE LossInv'
  <2>1. SafeGoal
    BY <1>6, <1>d, GotoKeepsSafe, AfterFailureFacts DEF ClaimError
  <2> HIDE DEF SafeGoal, RowGoal
  <2> QED
    BY <1>6, <1>a, <1>b, <2>1 DEF ClaimError, history
<1>7. ASSUME NEW h \in Handlers, SendSucceeds(h) PROVE LossInv'
  <2>1. SafeGoal
    BY <1>7, GotoKeepsSafe DEF SendSucceeds, Pcs, OwnerPcs
  <2> HIDE DEF SafeGoal, RowGoal
  <2> QED
    BY <1>7, <1>a, <1>b, <2>1 DEF SendSucceeds, history
<1>8. ASSUME NEW h \in Handlers, SendFails(h) PROVE LossInv'
  <2>1. /\ hs'[h].pc = "release" /\ \A g \in Handlers \ {h} : hs'[g] = hs[g]
        /\ copy' = copy
    BY <1>8, <1>d DEF SendFails, broker, HandlerRecord
  <2>2. SafeGoal
    <3> SUFFICES ASSUME NEW d \in Deliveries, NEW x \in Copies, Safe(x, d) PROVE Safe(x, d)'
      BY DEF Accounted
    <3>1. copy[x].at = "held" => copy[x].by \in Handlers
      BY DEF TypeInv, WellFormed
    <3> QED
      BY <2>1, <3>1 DEF Safe
  <2> HIDE DEF SafeGoal, RowGoal
  <2> QED
    BY <1>8, <1>a, <1>b, <2>2 DEF SendFails, history
<1>9. ASSUME NEW h \in Handlers, Release(h) PROVE LossInv'
  <2>1. SafeGoal
    BY <1>9, <1>d, GotoKeepsSafe, AfterFailureFacts DEF Release
  <2>2. RowGoal
    <3> DEFINE d == hs[h].of
    <3>1. d \in Deliveries /\ row[d] \in RowRecord
      BY <1>9, <1>c, <1>d DEF Release
    <3>2. Released(row[d]).status = row[d].status
      BY <3>1 DEF Released, RowRecord
    <3>3. row' = [row EXCEPT ![d] = Released(row[d])] /\ settledSent' = settledSent
      BY <1>9, <1>d, <3>1 DEF Release, history
    <3> HIDE DEF d
    <3> QED
      BY <3>1, <3>2, <3>3, RowKept DEF LossInv
  <2> HIDE DEF SafeGoal, RowGoal
  <2> QED
    BY <1>9, <1>a, <2>1, <2>2 DEF Release, history
<1>10. ASSUME NEW h \in Handlers, ReleaseError(h) PROVE LossInv'
  <2>1. SafeGoal
    BY <1>10, <1>d, GotoKeepsSafe, AfterFailureFacts DEF ReleaseError
  <2> HIDE DEF SafeGoal, RowGoal
  <2> QED
    BY <1>10, <1>a, <1>b, <2>1 DEF ReleaseError, history
<1>11. ASSUME NEW h \in Handlers, SettleSent(h) PROVE LossInv'
  <2>1. hs[h].of \in settledSent' /\ hs[h].of \in Deliveries
    BY <1>11, <1>c DEF SettleSent
  <2>2. SafeGoal
    BY <1>11, <2>1, GotoAckKeepsSafe DEF SettleSent
  <2>3. RowGoal
    BY <1>11, <1>d, <2>1, RowKept DEF SettleSent
  <2> HIDE DEF SafeGoal, RowGoal
  <2> QED
    BY <1>11, <1>a, <2>2, <2>3 DEF SettleSent
<1>12. ASSUME NEW h \in Handlers, SettleSentError(h) PROVE LossInv'
  <2>1. SafeGoal
    BY <1>12, <1>d, GotoKeepsSafe, AfterFailureFacts DEF SettleSentError
  <2> HIDE DEF SafeGoal, RowGoal
  <2> QED
    BY <1>12, <1>a, <1>b, <2>1 DEF SettleSentError, history
<1>13. ASSUME NEW h \in Handlers, SettleFailed(h) PROVE LossInv'
  <2>1. SafeGoal
    BY <1>13, GotoKeepsSafe DEF SettleFailed, Pcs
  <2>2. RowGoal
    <3> DEFINE d == hs[h].of
    <3>1. d \in Deliveries /\ row[d] \in RowRecord
      BY <1>13, <1>c, <1>d DEF SettleFailed
    <3>2. Settled(row[d], "FAILED").status = "FAILED"
      BY <3>1 DEF Settled, RowRecord
    <3>3. row' = [row EXCEPT ![d] = Settled(row[d], "FAILED")] /\ settledSent' = settledSent
      BY <1>13, <1>d, <3>1 DEF SettleFailed
    <3> HIDE DEF d
    <3> QED
      BY <3>1, <3>2, <3>3, RowKept
  <2> HIDE DEF SafeGoal, RowGoal
  <2> QED
    BY <1>13, <1>a, <2>1, <2>2 DEF SettleFailed
<1>14. ASSUME NEW h \in Handlers, SettleFailedError(h) PROVE LossInv'
  <2>1. SafeGoal
    BY <1>14, LeaveUnackedKeepsSafe DEF SettleFailedError
  <2> HIDE DEF SafeGoal, RowGoal
  <2> QED
    BY <1>14, <1>a, <1>b, <2>1 DEF SettleFailedError, history
<1>15. ASSUME NEW h \in Handlers, PublishError(h) PROVE LossInv'
  <2>1. SafeGoal
    BY <1>15, LeaveUnackedKeepsSafe DEF PublishError
  <2> HIDE DEF SafeGoal, RowGoal
  <2> QED
    BY <1>15, <1>a, <1>b, <2>1 DEF PublishError, history
<1>16. ASSUME NEW h \in Handlers, Republish(h) PROVE LossInv'
  <2>1. hs[h].of \in Deliveries /\ hs[h].attempts + 1 \in 1..Stages
    BY <1>16, <1>c, <1>d, HandlerFields, DeliveryAssumption DEF Republish, TypeInv, WellFormed
  <2> DEFINE m == InRetry(hs[h].of, hs[h].attempts + 1)
  <2>2. m.at = "retry" /\ m.of = hs[h].of
    BY DEF InRetry
  <2>3. PICK c \in Copies : copy[c].at = "free" /\ copy' = [copy EXCEPT ![c] = m]
    BY <1>16, <2>1 DEF Republish, FreeCopies
  <2> HIDE DEF m
  <2>4. copy'[c] = m /\ \A x \in Copies \ {c} : copy'[x] = copy[x]
    BY <1>d, <2>3
  <2>5. \A g \in Handlers \ {h} : hs'[g] = hs[g]
    BY <1>16, <1>d, GotoFacts DEF Republish, Pcs
  <2>6. SafeGoal
    <3> SUFFICES ASSUME NEW d \in Deliveries, NEW x \in Copies, Safe(x, d) PROVE Accounted(d)'
      OBVIOUS
    <3>1. /\ x # c
          /\ copy[x].at = "held" => copy[x].by \in Handlers /\ hs[copy[x].by].of = copy[x].of
      BY <2>3 DEF Safe, TypeInv, WellFormed
    <3>2. CASE Holds(h, x)
      BY <2>2, <2>4, <3>1, <3>2 DEF Safe, Holds, Accounted
    <3>3. CASE ~Holds(h, x)
      BY <2>4, <2>5, <3>1, <3>3 DEF Safe, Holds, Accounted
    <3> QED
      BY <3>2, <3>3
  <2> HIDE DEF SafeGoal, RowGoal
  <2> QED
    BY <1>16, <1>a, <1>b, <2>6 DEF Republish, history
<1>17. ASSUME NEW h \in Handlers, Park(h) PROVE LossInv'
  <2> DEFINE m == InDead(hs[h].of, hs[h].attempts)
  <2>1. m.at = "dead" /\ m.of = hs[h].of
    BY DEF InDead
  <2>2. PICK c \in Copies :
          /\ copy[c].at = "free"
          /\ \/ copy' = [copy EXCEPT ![c] = m] /\ dropped' = dropped
             \/ /\ Len(dead) >= DeadMax
                /\ copy' = [copy EXCEPT ![c] = m, ![Head(dead)] = FreeCopy]
                /\ dropped' = dropped \cup {copy[Head(dead)].of}
    <3>1. Len(dead) \in Nat
      BY DEF TypeInv, TypeOK
    <3> QED
      BY <1>17, <3>1, DeliveryAssumption DEF Park, FreeCopies
  <2>3. \A g \in Handlers \ {h} : hs'[g] = hs[g]
    BY <1>17, <1>d, GotoFacts DEF Park, Pcs
  <2>4. Len(dead) >= DeadMax => Head(dead) \in Copies /\ copy[Head(dead)].at = "dead"
    <3> SUFFICES ASSUME Len(dead) >= DeadMax
                 PROVE  Head(dead) \in Copies /\ copy[Head(dead)].at = "dead"
      OBVIOUS
    <3>1. dead \in Seq(Copies) /\ 1 \in 1..Len(dead) /\ Head(dead) = dead[1]
      BY DeliveryAssumption DEF TypeInv, TypeOK
    <3> QED
      BY <3>1 DEF TypeInv, DeadQueueBounded
  <2> HIDE DEF m
  <2>5. copy'[c] = m
    BY <1>d, <2>2, <2>4
  <2>6. ASSUME NEW x \in Copies, x # c
        PROVE  copy'[x] = copy[x] \/ copy[x].of \in dropped'
    BY <1>d, <2>2, <2>4, <2>6
  <2>7. SafeGoal
    <3> SUFFICES ASSUME NEW d \in Deliveries, NEW x \in Copies, Safe(x, d) PROVE Accounted(d)'
      OBVIOUS
    <3>1. /\ x # c
          /\ copy[x].at = "held" => copy[x].by \in Handlers /\ hs[copy[x].by].of = copy[x].of
      BY <2>2 DEF Safe, TypeInv, WellFormed
    <3>2. CASE Holds(h, x)
      BY <2>1, <2>5, <3>1, <3>2 DEF Safe, Holds, Accounted
    <3>3. CASE ~Holds(h, x)
      BY <2>3, <2>6, <3>1, <3>3 DEF Safe, Holds, Accounted
    <3> QED
      BY <3>2, <3>3
  <2>8. dropped \subseteq dropped'
    BY <2>2
  <2> HIDE DEF SafeGoal, RowGoal
  <2> QED
    BY <1>17, <1>a, <1>b, <2>7, <2>8 DEF Park
<1>18. ASSUME NEW h \in Handlers, Ack(h) PROVE LossInv'
  <2>1. \A x \in Copies : ~Holds(h, x) => copy'[x] = copy[x]
    BY <1>18 DEF Ack
  <2>2. \A g \in Handlers \ {h} : hs'[g] = hs[g]
    BY <1>18, <1>d DEF Ack
  <2>3. SafeGoal
    <3> SUFFICES ASSUME NEW d \in Deliveries, NEW x \in Copies, Safe(x, d) PROVE Safe(x, d)'
      BY DEF Accounted
    <3>1. ~Holds(h, x) /\ (copy[x].at = "held" => copy[x].by \in Handlers)
      BY <1>18 DEF Ack, Safe, Holds, TypeInv, WellFormed
    <3> QED
      BY <2>1, <2>2, <3>1 DEF Safe, Holds
  <2> HIDE DEF SafeGoal, RowGoal
  <2> QED
    BY <1>18, <1>a, <1>b, <2>3 DEF Ack, history
<1>19. ASSUME NEW h \in Handlers, Crash(h) PROVE LossInv'
  <2>1. \A g \in Handlers \ {h} : hs'[g] = hs[g]
    BY <1>19, <1>d DEF Crash
  <2>2. SafeGoal
    BY <1>19, <2>1, RequeueKeepsSafe DEF Crash
  <2> HIDE DEF SafeGoal, RowGoal
  <2> QED
    BY <1>19, <1>a, <1>b, <2>2 DEF Crash, history
<1>20. ASSUME NEW h \in Handlers, ChannelDrop(h) PROVE LossInv'
  <2>1. \A g \in Handlers \ {h} : hs'[g] = hs[g]
    BY <1>20, <1>d DEF ChannelDrop
  <2>2. SafeGoal
    BY <1>20, <2>1, RequeueKeepsSafe DEF ChannelDrop
  <2> HIDE DEF SafeGoal, RowGoal
  <2> QED
    BY <1>20, <1>a, <1>b, <2>2 DEF ChannelDrop, history
<1>21. ASSUME NEW e \in Deliveries, Publish(e) PROVE LossInv'
  <2> DEFINE m == InMain(e, 0)
  <2>1. m.at = "main" /\ m.of = e
    BY DEF InMain
  <2>2. PICK c \in Copies : copy[c].at = "free" /\ copy' = [copy EXCEPT ![c] = m]
    BY <1>21 DEF Publish, FreeCopies
  <2> HIDE DEF m
  <2>3. copy'[c] = m /\ \A x \in Copies \ {c} : copy'[x] = copy[x]
    BY <1>d, <2>2
  <2>4. ASSUME NEW d \in Deliveries, NEW x \in Copies, Safe(x, d) PROVE Safe(x, d)'
    BY <1>21, <2>2, <2>3, <2>4 DEF Publish, Safe
  <2>5. ASSUME NEW d \in Deliveries, published'[d] > 0 PROVE Accounted(d)'
    <3>1. CASE d = e
      BY <2>1, <2>3, <3>1 DEF Accounted, Safe
    <3>2. CASE d # e
      <4>1. published[d] > 0
        BY <1>21, <2>5, <3>2 DEF Publish, TypeInv, TypeOK
      <4> QED
        BY <1>21, <2>4, <4>1 DEF Publish, history, LossInv, Accounted
    <3> QED
      BY <3>1, <3>2
  <2> QED
    BY <1>21, <2>5 DEF Publish, history, LossInv
<1>22. ASSUME NEW e \in Deliveries, Wipe(e) PROVE LossInv'
  <2>1. SafeGoal
    BY <1>22 DEF Wipe, broker, Accounted, Safe
  <2>2. RowGoal
    BY <1>22, RowKept DEF Wipe, NoRow
  <2> HIDE DEF SafeGoal, RowGoal
  <2> QED
    BY <1>22, <1>a, <2>1, <2>2 DEF Wipe
<1>23. ASSUME NEW c \in Copies, Expire(c) PROVE LossInv'
  <2> DEFINE m == InMain(copy[c].of, copy[c].attempts)
  <2>1. m.at = "main" /\ m.of = copy[c].of
    BY DEF InMain
  <2>2. copy'[c] = m /\ \A x \in Copies \ {c} : copy'[x] = copy[x]
    BY <1>23, <1>d DEF Expire
  <2> HIDE DEF m
  <2>3. SafeGoal
    BY <1>23, <2>1, <2>2 DEF Expire, Accounted, Safe
  <2> HIDE DEF SafeGoal, RowGoal
  <2> QED
    BY <1>23, <1>a, <1>b, <2>3 DEF Expire, history
<1>24. CASE Replay
  <2> DEFINE m == InMain(copy[Head(dead)].of, 0)
  <2>1. m.at = "main" /\ m.of = copy[Head(dead)].of
    BY DEF InMain
  <2>2. copy' = [copy EXCEPT ![Head(dead)] = m] /\ hs' = hs
    BY <1>24 DEF Replay
  <2> HIDE DEF m
  <2>3. SafeGoal
    BY <1>d, <2>1, <2>2 DEF Accounted, Safe
  <2> HIDE DEF SafeGoal, RowGoal
  <2> QED
    BY <1>24, <1>a, <1>b, <2>3 DEF Replay, history
<1>25. CASE Tick
  <2>1. ASSUME NEW g \in Handlers PROVE hs'[g].pc = hs[g].pc
    BY <1>25, <1>d DEF Tick, HandlerRecord
  <2>2. ASSUME NEW c \in Copies
        PROVE  copy'[c].at = copy[c].at /\ copy'[c].of = copy[c].of /\ copy'[c].by = copy[c].by
    BY <1>25, <1>d DEF Tick, CopyRecord
  <2>3. ASSUME NEW d \in Deliveries PROVE row'[d].status = row[d].status
    BY <1>25, <1>d DEF Tick, RowRecord
  <2>4. SafeGoal
    <3> SUFFICES ASSUME NEW d \in Deliveries, NEW x \in Copies, Safe(x, d) PROVE Safe(x, d)'
      BY DEF Accounted
    <3>1. copy[x].at = "held" => copy[x].by \in Handlers
      BY DEF TypeInv, WellFormed
    <3> QED
      BY <2>1, <2>2, <3>1 DEF Safe
  <2>5. RowGoal
    BY <1>25, <2>3 DEF Tick, history, LossInv
  <2> HIDE DEF SafeGoal, RowGoal
  <2> QED
    BY <1>25, <1>a, <2>4, <2>5 DEF Tick, history
<1> QED
  BY <1>1, <1>2, <1>3, <1>4, <1>5, <1>6, <1>7, <1>8, <1>9, <1>10, <1>11, <1>12, <1>13,
     <1>14, <1>15, <1>16, <1>17, <1>18, <1>19, <1>20, <1>21, <1>22, <1>23, <1>24, <1>25
  DEF Next, HandlerStep, HandlerFault

(* A published alert is never lost without a trace: whatever crashes,      *)
(* dropped channels, failed writes, replays and history wipes intervene,   *)
(* it still has a copy somewhere, or was settled SENT, or was pushed out   *)
(* of the full dead queue.                                                 *)
THEOREM NothingIsLost == Spec => []NoSilentLoss
<1>1. Init => TypeInv /\ LossInv
  BY InitTypeInv, InitLossInv
<1>2. TypeInv /\ LossInv /\ [Next]_vars => (TypeInv /\ LossInv)'
  BY StepTypeInv, StepLossInv
<1>3. LossInv => NoSilentLoss
  BY DEF LossInv, Accounted, Safe, NoSilentLoss
<1> QED
  BY <1>1, <1>2, <1>3, PTL DEF Spec

----------------------------------------------------------------------------
(* The lease *)

(* What the lease guarantees about one delivery whose row was not removed: *)
(* an owner's claim is the one in the row and is as old as its attempt, so *)
(* no later attempt can find it expired; there is one owner at most; a     *)
(* handler past the failed create has a row to look at; and a delivery     *)
(* settled SENT stays SENT without an owner until a late settle(FAILED).   *)
LeaseOK(d) ==
  /\ \A h \in Handlers : hs[h].pc \in OwnerPcs /\ hs[h].of = d =>
       row[d].age = hs[h].age /\ row[d].status \in {"PENDING", "FAILED"}
  /\ \A g, h \in Handlers :
       /\ hs[g].pc \in OwnerPcs /\ hs[g].of = d
       /\ hs[h].pc \in OwnerPcs /\ hs[h].of = d
       => g = h
  /\ \A h \in Handlers : hs[h].pc \in {"takeover", "read"} /\ hs[h].of = d =>
       row[d].status # "ABSENT"
  /\ d \in settledSent \ demoted =>
       /\ row[d].status = "SENT"
       /\ \A h \in Handlers : ~(hs[h].pc \in OwnerPcs /\ hs[h].of = d)

LeaseInv == \A d \in Deliveries \ wiped : LeaseOK(d)

(* Goto keeps the age of an attempt that goes on. *)
LEMMA GotoAge ==
  ASSUME hs \in [Handlers -> HandlerRecord], NEW h \in Handlers,
         NEW p \in ClaimPcs \cup OwnerPcs, Goto(h, p)
  PROVE  hs'[h].age = hs[h].age
<1>1. hs[h] \in HandlerRecord
  OBVIOUS
<1> DEFINE a == [hs[h] EXCEPT !.pc = p]
<1>2. a.age = hs[h].age
  BY <1>1 DEF HandlerRecord
<1>3. hs' = [hs EXCEPT ![h] = a]
  BY DEF Goto
<1> HIDE DEF a
<1> QED
  BY <1>2, <1>3

(* A handler that leaves the attempt, and touches no row, keeps the lease. *)
LEMMA LeavingKeepsLease ==
  ASSUME LeaseInv, NEW h \in Handlers,
         hs'[h].pc \notin OwnerPcs \cup {"takeover", "read"},
         \A g \in Handlers \ {h} : hs'[g] = hs[g],
         row' = row, wiped' = wiped, settledSent' = settledSent, demoted' = demoted
  PROVE  LeaseInv'
  BY DEF LeaseInv, LeaseOK

(* A claim of a delivery nobody owns makes the claimant its owner. *)
LEMMA ClaimKeepsLease ==
  ASSUME TypeInv, LeaseInv, NEW h \in Handlers, Goto(h, "send"), hs[h].pc # "idle",
         row' = [row EXCEPT ![hs[h].of] = ClaimRow(hs[h].age)],
         hs[h].of \notin wiped =>
           /\ row[hs[h].of].status # "SENT"
           /\ \A g \in Handlers : ~(hs[g].pc \in OwnerPcs /\ hs[g].of = hs[h].of),
         wiped' = wiped, settledSent' = settledSent, demoted' = demoted
  PROVE  LeaseInv'
<1>1. /\ \A g \in Handlers \ {h} : hs'[g] = hs[g]
      /\ hs'[h].pc = "send" /\ hs'[h].of = hs[h].of /\ hs'[h].age = hs[h].age
  BY GotoFacts, GotoAge DEF TypeInv, TypeOK, Pcs, OwnerPcs
<1>2. hs[h].of \in Deliveries
  BY DEF TypeInv, WellFormed
<1>3. /\ row'[hs[h].of].age = hs[h].age /\ row'[hs[h].of].status = "PENDING"
      /\ \A d \in Deliveries \ {hs[h].of} : row'[d] = row[d]
  BY <1>2 DEF TypeInv, TypeOK, ClaimRow
<1> SUFFICES ASSUME NEW d \in Deliveries \ wiped PROVE LeaseOK(d)'
  BY DEF LeaseInv
<1>4. LeaseOK(d)
  BY DEF LeaseInv
<1>5. CASE d = hs[h].of
  BY <1>1, <1>3, <1>4, <1>5 DEF LeaseOK
<1>6. CASE d # hs[h].of
  BY <1>1, <1>3, <1>4, <1>6 DEF LeaseOK
<1> QED
  BY <1>5, <1>6

(* At the start nobody owns anything. *)
LEMMA InitLeaseInv == Init => LeaseInv
  BY IdleRecord DEF Init, LeaseInv, LeaseOK, OwnerPcs

(* Every step keeps the lease when no attempt outlasts it. *)
LEMMA StepLeaseInv ==
  ASSUME AttemptBound <= Lease, TypeInv, LeaseInv, [Next]_vars
  PROVE  LeaseInv'
<1>a. hs \in [Handlers -> HandlerRecord] /\ row \in [Deliveries -> RowRecord]
  BY DEF TypeInv, TypeOK
<1>b. ASSUME NEW h \in Handlers, hs[h].pc # "idle" PROVE hs[h].of \in Deliveries
  BY <1>b DEF TypeInv, WellFormed
<1>c. ASSUME NEW h \in Handlers, NEW p \in Pcs \ (OwnerPcs \cup {"takeover", "read"}), Goto(h, p),
             row' = row, wiped' = wiped, settledSent' = settledSent, demoted' = demoted
      PROVE  LeaseInv'
  <2>1. hs'[h].pc = p /\ \A g \in Handlers \ {h} : hs'[g] = hs[g]
    BY <1>a, <1>c, GotoFacts
  <2> QED
    BY <1>c, <2>1, LeavingKeepsLease
<1>d. ASSUME NEW h \in Handlers, NEW e
      PROVE  AfterFailure(h, e) \in Pcs \ (OwnerPcs \cup {"takeover", "read"})
  BY <1>a, AfterFailureFacts DEF OwnerPcs
<1>e. ASSUME NEW h \in Handlers
      PROVE  hs[h] \in HandlerRecord /\ hs[h].age \in Nat /\ hs[h].age <= Lease
  BY <1>a, HandlerFields, DeliveryAssumption
<1>1. CASE UNCHANGED vars
  BY <1>1 DEF vars, history, LeaseInv, LeaseOK
<1>2. ASSUME NEW h \in Handlers, Receive(h) PROVE LeaseInv'
  <2>1. hs'[h].pc \in {"park", "create"} /\ \A g \in Handlers \ {h} : hs'[g] = hs[g]
    BY <1>2, <1>a DEF Receive
  <2> QED
    BY <1>2, <2>1, LeavingKeepsLease DEF Receive, history, OwnerPcs
<1>3. ASSUME NEW h \in Handlers, Create(h) PROVE LeaseInv'
  <2>1. CASE row[hs[h].of].status = "ABSENT"
    <3>1. hs[h].of \in Deliveries
      BY <1>3, <1>b DEF Create
    <3> QED
      BY <1>3, <2>1, <3>1, ClaimKeepsLease DEF Create, history, LeaseInv, LeaseOK
  <2>2. CASE row[hs[h].of].status # "ABSENT"
    <3>1. /\ hs'[h].pc = "takeover" /\ hs'[h].of = hs[h].of
          /\ \A g \in Handlers \ {h} : hs'[g] = hs[g]
      BY <1>3, <1>a, <2>2, GotoFacts DEF Create, Pcs, ClaimPcs
    <3> QED
      BY <1>3, <2>2, <3>1 DEF Create, history, LeaseInv, LeaseOK, OwnerPcs
  <2> QED
    BY <2>1, <2>2
<1>4. ASSUME NEW h \in Handlers, Takeover(h) PROVE LeaseInv'
  <2>1. hs[h].of \in Deliveries
    BY <1>4, <1>b DEF Takeover
  <2>2. CASE Takeable(row[hs[h].of], hs[h].age)
    <3>1. ASSUME hs[h].of \notin wiped, NEW g \in Handlers,
                 hs[g].pc \in OwnerPcs, hs[g].of = hs[h].of
          PROVE  FALSE
      <4>1. row[hs[h].of].age = hs[g].age
        BY <2>1, <3>1 DEF LeaseInv, LeaseOK
      <4> QED
        BY <1>e, <2>2, <4>1, DeliveryAssumption DEF Takeable, Unclaimed
    <3>2. row[hs[h].of].status # "SENT"
      BY <2>2 DEF Takeable
    <3> QED
      BY <1>4, <2>2, <3>1, <3>2, ClaimKeepsLease DEF Takeover, history
  <2>3. CASE ~Takeable(row[hs[h].of], hs[h].age)
    <3>1. /\ hs'[h].pc = "read" /\ hs'[h].of = hs[h].of
          /\ \A g \in Handlers \ {h} : hs'[g] = hs[g]
      BY <1>4, <1>a, <2>3, GotoFacts DEF Takeover, Pcs, ClaimPcs
    <3> QED
      BY <1>4, <2>3, <3>1 DEF Takeover, history, LeaseInv, LeaseOK, OwnerPcs
  <2> QED
    BY <2>2, <2>3
<1>5. ASSUME NEW h \in Handlers, ReadClaim(h) PROVE LeaseInv'
  <2>1. CASE row[hs[h].of].status = "ABSENT"
    <3>1. hs[h].of \in wiped
      BY <1>5, <1>b, <2>1 DEF ReadClaim, LeaseInv, LeaseOK
    <3>2. /\ hs'[h].of = hs[h].of
          /\ \A g \in Handlers \ {h} : hs'[g] = hs[g]
      BY <1>5, <1>a, <2>1, GotoFacts DEF ReadClaim, Pcs, OwnerPcs
    <3> QED
      BY <1>5, <3>1, <3>2 DEF ReadClaim, history, LeaseInv, LeaseOK
  <2>2. CASE row[hs[h].of].status # "ABSENT"
    <3>1. PICK p \in {"ack", AfterFailure(h, "retryable")} : Goto(h, p)
      BY <1>5, <2>2 DEF ReadClaim
    <3>2. p \in Pcs \ (OwnerPcs \cup {"takeover", "read"})
      BY <1>d DEF Pcs, OwnerPcs
    <3> QED
      BY <1>5, <1>c, <3>1, <3>2 DEF ReadClaim, history
  <2> QED
    BY <2>1, <2>2
<1>6. ASSUME NEW h \in Handlers, ClaimError(h) PROVE LeaseInv'
  BY <1>6, <1>c, <1>d DEF ClaimError, history
<1>7. ASSUME NEW h \in Handlers, SendSucceeds(h) \/ SendFails(h) PROVE LeaseInv'
  <2>1. /\ hs[h].pc = "send" /\ hs'[h].pc \in OwnerPcs
        /\ hs'[h].of = hs[h].of /\ hs'[h].age = hs[h].age
        /\ \A g \in Handlers \ {h} : hs'[g] = hs[g]
    <3>1. CASE SendSucceeds(h)
      BY <1>a, <3>1, GotoFacts, GotoAge DEF SendSucceeds, Pcs, OwnerPcs
    <3>2. CASE SendFails(h)
      BY <1>a, <3>2 DEF SendFails, HandlerRecord, OwnerPcs
    <3> QED
      BY <1>7, <3>1, <3>2
  <2> QED
    BY <1>7, <2>1 DEF SendSucceeds, SendFails, history, LeaseInv, LeaseOK, OwnerPcs
<1>8. ASSUME NEW h \in Handlers, Release(h) PROVE LeaseInv'
  <2> DEFINE d0 == hs[h].of
  <2>1. d0 \in Deliveries /\ row[d0] \in RowRecord
    BY <1>8, <1>a, <1>b DEF Release
  <2>2. /\ row'[d0].status = row[d0].status
        /\ \A d \in Deliveries \ {d0} : row'[d] = row[d]
    BY <1>8, <1>a, <2>1 DEF Release, Released, RowRecord
  <2>3. /\ hs'[h].pc \notin OwnerPcs \cup {"takeover", "read"}
        /\ \A g \in Handlers \ {h} : hs'[g] = hs[g]
    BY <1>8, <1>a, <1>d, GotoFacts DEF Release
  <2>4. hs[h].pc \in OwnerPcs
    BY <1>8 DEF Release, OwnerPcs
  <2>5. wiped' = wiped /\ settledSent' = settledSent /\ demoted' = demoted
    BY <1>8 DEF Release, history
  <2> SUFFICES ASSUME NEW d \in Deliveries \ wiped PROVE LeaseOK(d)'
    BY <2>5 DEF LeaseInv
  <2>6. LeaseOK(d)
    BY DEF LeaseInv
  <2>7. CASE d = d0
    BY <2>2, <2>3, <2>4, <2>5, <2>6, <2>7 DEF LeaseOK
  <2>8. CASE d # d0
    BY <2>2, <2>3, <2>5, <2>6, <2>8 DEF LeaseOK
  <2> QED
    BY <2>7, <2>8
<1>9. ASSUME NEW h \in Handlers, ReleaseError(h) PROVE LeaseInv'
  BY <1>9, <1>c, <1>d DEF ReleaseError, history
<1>10. ASSUME NEW h \in Handlers, SettleSent(h) PROVE LeaseInv'
  <2> DEFINE d0 == hs[h].of
  <2>1. d0 \in Deliveries /\ row[d0] \in RowRecord
    BY <1>10, <1>a, <1>b DEF SettleSent
  <2>2. /\ row'[d0].status = "SENT"
        /\ \A d \in Deliveries \ {d0} : row'[d] = row[d]
    BY <1>10, <1>a, <2>1 DEF SettleSent, Settled, RowRecord
  <2>3. /\ hs'[h].pc = "ack"
        /\ \A g \in Handlers \ {h} : hs'[g] = hs[g]
    BY <1>10, <1>a, GotoFacts DEF SettleSent, Pcs
  <2>4. hs[h].pc \in OwnerPcs
    BY <1>10 DEF SettleSent, OwnerPcs
  <2>5. wiped' = wiped /\ settledSent' = settledSent \cup {d0} /\ demoted' = demoted
    BY <1>10 DEF SettleSent
  <2> SUFFICES ASSUME NEW d \in Deliveries \ wiped PROVE LeaseOK(d)'
    BY <2>5 DEF LeaseInv
  <2>6. LeaseOK(d)
    BY DEF LeaseInv
  <2>7. CASE d = d0
    BY <2>2, <2>3, <2>4, <2>5, <2>6, <2>7 DEF LeaseOK, OwnerPcs
  <2>8. CASE d # d0
    BY <2>2, <2>3, <2>5, <2>6, <2>8 DEF LeaseOK, OwnerPcs
  <2> QED
    BY <2>7, <2>8
<1>11. ASSUME NEW h \in Handlers, SettleSentError(h) PROVE LeaseInv'
  BY <1>11, <1>c, <1>d DEF SettleSentError, history
<1>12. ASSUME NEW h \in Handlers, SettleFailed(h) PROVE LeaseInv'
  <2> DEFINE d0 == hs[h].of
  <2>1. d0 \in Deliveries /\ row[d0] \in RowRecord
    BY <1>12, <1>a, <1>b DEF SettleFailed
  <2>2. /\ row'[d0].status = "FAILED" /\ row'[d0].age = row[d0].age
        /\ \A d \in Deliveries \ {d0} : row'[d] = row[d]
    BY <1>12, <1>a, <2>1 DEF SettleFailed, Settled, RowRecord
  <2>3. /\ hs'[h].pc = "park"
        /\ \A g \in Handlers \ {h} : hs'[g] = hs[g]
    BY <1>12, <1>a, GotoFacts DEF SettleFailed, Pcs
  <2>4. /\ wiped' = wiped /\ settledSent' = settledSent /\ demoted \subseteq demoted'
        /\ row[d0].status = "SENT" => d0 \in demoted'
    BY <1>12 DEF SettleFailed
  <2> SUFFICES ASSUME NEW d \in Deliveries \ wiped PROVE LeaseOK(d)'
    BY <2>4 DEF LeaseInv
  <2>5. LeaseOK(d)
    BY DEF LeaseInv
  <2>6. CASE d = d0
    BY <2>2, <2>3, <2>4, <2>5, <2>6 DEF LeaseOK, OwnerPcs
  <2>7. CASE d # d0
    BY <2>2, <2>3, <2>4, <2>5, <2>7 DEF LeaseOK, OwnerPcs
  <2> QED
    BY <2>6, <2>7
<1>13. ASSUME NEW h \in Handlers, LeaveUnacked(h),
              row' = row, wiped' = wiped, settledSent' = settledSent, demoted' = demoted
       PROVE  LeaseInv'
  <2>1. hs'[h].pc \in {"idle", "stuck"} /\ \A g \in Handlers \ {h} : hs'[g] = hs[g]
    BY <1>13, <1>a, IdleRecord DEF LeaveUnacked, HandlerRecord
  <2> QED
    BY <1>13, <2>1, LeavingKeepsLease DEF OwnerPcs
<1>14. ASSUME NEW h \in Handlers, SettleFailedError(h) \/ PublishError(h) PROVE LeaseInv'
  BY <1>13, <1>14 DEF SettleFailedError, PublishError, history
<1>15. ASSUME NEW h \in Handlers, Republish(h) \/ Park(h) PROVE LeaseInv'
  <2>1. "ack" \in Pcs \ (OwnerPcs \cup {"takeover", "read"})
    BY DEF Pcs, OwnerPcs
  <2> QED
    BY <1>15, <1>c, <2>1 DEF Republish, Park, history
<1>16. ASSUME NEW h \in Handlers, Ack(h) \/ Crash(h) PROVE LeaseInv'
  <2>1. hs' = [hs EXCEPT ![h] = Idle]
    BY <1>16 DEF Ack, Crash
  <2>2. hs'[h].pc = "idle" /\ \A g \in Handlers \ {h} : hs'[g] = hs[g]
    BY <1>a, <2>1, IdleRecord
  <2> QED
    BY <1>16, <2>2, LeavingKeepsLease DEF Ack, Crash, history, OwnerPcs
<1>17. ASSUME NEW h \in Handlers, ChannelDrop(h) PROVE LeaseInv'
  <2>1. CASE hs[h].pc = "stuck"
    <3>1. hs'[h].pc = "idle" /\ \A g \in Handlers \ {h} : hs'[g] = hs[g]
      BY <1>17, <1>a, <2>1, IdleRecord DEF ChannelDrop
    <3> QED
      BY <1>17, <3>1, LeavingKeepsLease DEF ChannelDrop, history, OwnerPcs
  <2>2. CASE hs[h].pc # "stuck"
    <3>1. hs' = hs
      BY <1>17, <1>a, <2>2 DEF ChannelDrop
    <3> QED
      BY <1>17, <3>1 DEF ChannelDrop, history, LeaseInv, LeaseOK
  <2> QED
    BY <2>1, <2>2
<1>18. ASSUME NEW d \in Deliveries, Publish(d) PROVE LeaseInv'
  BY <1>18 DEF Publish, history, LeaseInv, LeaseOK
<1>19. ASSUME NEW d \in Deliveries, Wipe(d) PROVE LeaseInv'
  <2>1. \A e \in Deliveries \ {d} : row'[e] = row[e]
    BY <1>19, <1>a DEF Wipe
  <2> QED
    BY <1>19, <2>1 DEF Wipe, LeaseInv, LeaseOK
<1>20. ASSUME NEW c \in Copies, Expire(c) PROVE LeaseInv'
  BY <1>20 DEF Expire, history, LeaseInv, LeaseOK
<1>21. CASE Replay
  BY <1>21 DEF Replay, history, LeaseInv, LeaseOK
<1>22. CASE Tick
  <2>1. ASSUME NEW h \in Handlers
        PROVE  /\ hs'[h].pc = hs[h].pc /\ hs'[h].of = hs[h].of
               /\ hs[h].pc \in OwnerPcs => hs'[h].age = hs[h].age + 1
    BY <1>22, <1>e DEF Tick, InAttempt, HandlerRecord
  <2>2. ASSUME NEW d \in Deliveries
        PROVE  /\ row'[d].status = row[d].status
               /\ row[d].age \in 0..AttemptBound => row'[d].age = row[d].age + 1
    <3>1. row[d] \in RowRecord
      BY <1>a
    <3>2. row[d].age \in 0..AttemptBound => row[d].age \in 0..(AgeCap - 1)
      BY DeliveryAssumption DEF AgeCap
    <3> QED
      BY <1>22, <3>1, <3>2 DEF Tick, RowRecord
  <2>3. \A h \in Handlers : hs[h].age \in 0..AttemptBound
    BY <1>a, HandlerFields
  <2>4. wiped' = wiped /\ settledSent' = settledSent /\ demoted' = demoted
    BY <1>22 DEF Tick, history
  <2> SUFFICES ASSUME NEW d \in Deliveries \ wiped PROVE LeaseOK(d)'
    BY <2>4 DEF LeaseInv
  <2>5. LeaseOK(d)
    BY DEF LeaseInv
  <2> QED
    BY <2>1, <2>2, <2>3, <2>4, <2>5 DEF LeaseOK
<1> QED
  BY <1>1, <1>2, <1>3, <1>4, <1>5, <1>6, <1>7, <1>8, <1>9, <1>10, <1>11, <1>12,
     <1>14, <1>15, <1>16, <1>17, <1>18, <1>19, <1>20, <1>21, <1>22
  DEF Next, HandlerStep, HandlerFault

(* The lease is exclusive when no attempt outlasts it: at most one handler *)
(* is between the claim and the settle of a delivery whose row was not     *)
(* removed from the history.                                               *)
THEOREM LeaseIsExclusive ==
  ASSUME AttemptBound <= Lease
  PROVE  Spec => []OneSender
<1>1. Init => TypeInv /\ LeaseInv
  BY InitTypeInv, InitLeaseInv
<1>2. TypeInv /\ LeaseInv /\ [Next]_vars => (TypeInv /\ LeaseInv)'
  BY StepTypeInv, StepLeaseInv
<1>3. LeaseInv => OneSender
  BY DEF LeaseInv, LeaseOK, OneSender, Owners
<1> QED
  BY <1>1, <1>2, <1>3, PTL DEF Spec

(* When no attempt outlasts the lease, a delivery settled SENT stays SENT  *)
(* and is not sent again, unless its row is removed from the history or a  *)
(* late settle(FAILED) overwrites it.                                      *)
THEOREM SentStaysSent ==
  ASSUME AttemptBound <= Lease
  PROVE  Spec => []SentIsFinal
<1>1. Init => TypeInv /\ LeaseInv
  BY InitTypeInv, InitLeaseInv
<1>2. TypeInv /\ LeaseInv /\ [Next]_vars => (TypeInv /\ LeaseInv)'
  BY StepTypeInv, StepLeaseInv
<1>3. TypeInv /\ LeaseInv => SentIsFinal
  BY DEF TypeInv, TypeOK, LeaseInv, LeaseOK, SentIsFinal, Owners
<1> QED
  BY <1>1, <1>2, <1>3, PTL DEF Spec

----------------------------------------------------------------------------
(* The pipeline: the relay's rows and passes beside the notifier *)

PassRecord == [pc: R!Running \cup {"idle"}, todo: SUBSET Deliveries,
               done: SUBSET Deliveries, age: Nat]

(* The relay's half: what a pass will mark, and what is marked, the broker *)
(* has accepted.                                                           *)
RelayInv ==
  /\ pass \in [Passes -> PassRecord]
  /\ outbox \in [Deliveries -> R!RowStates]
  /\ \A p \in Passes : pass[p].done \subseteq accepted
  /\ R!NoRowLost

(* The joint: what the broker has accepted was published to the notifier.  *)
AcceptedIsPublished == \A d \in Deliveries : d \in accepted => published[d] > 0

KeptInv == TypeInv /\ LossInv /\ RelayInv /\ AcceptedIsPublished

(* Every step of the pipeline is a step of the notifier, or none. *)
LEMMA NotifierView ==
  ASSUME [PipelineNext]_pipelineVars
  PROVE  [Next]_vars
<1>1. CASE \E p \in Passes, d \in Deliveries : Relay(p, d) \/ RelayFails(p, d)
  BY <1>1 DEF Relay, RelayFails, Next
<1>2. CASE RelayStep
  BY <1>2 DEF RelayStep
<1>3. CASE \E h \in Handlers : Handle(h)
  BY <1>3 DEF Handle, Next
<1>4. CASE NotifierStep
  BY <1>4 DEF NotifierStep, Next
<1>5. CASE UNCHANGED pipelineVars
  BY <1>5 DEF pipelineVars
<1>6. QED
  BY <1>1, <1>2, <1>3, <1>4, <1>5 DEF PipelineNext


----------------------------------------------------------------------------
(* The relay's half *)

(* A pass that moves keeps the passes well formed if what it has done is   *)
(* with the broker.                                                        *)
LEMMA PassMoves ==
  ASSUME RelayInv, NEW p \in Passes, NEW new \in PassRecord, pass' = [pass EXCEPT ![p] = new],
         accepted \subseteq accepted', new.done \subseteq accepted'
  PROVE  /\ pass' \in [Passes -> PassRecord]
         /\ \A q \in Passes : pass'[q].done \subseteq accepted'
<1>1. pass'[p] = new /\ \A q \in Passes \ {p} : pass'[q] = pass[q]
  BY DEF RelayInv
<1>2. QED
  BY <1>1 DEF RelayInv

(* The record of a pass that has not begun. *)
LEMMA IdlePassRecord ==
  /\ R!IdlePass \in PassRecord /\ R!IdlePass.done = {}
  /\ [R!IdlePass EXCEPT !.pc = "find"] \in PassRecord
  /\ [R!IdlePass EXCEPT !.pc = "find"].done = {}
  BY DEF R!IdlePass, PassRecord, R!Running

(* Goto keeps what a pass has done. *)
LEMMA PassGoto ==
  ASSUME RelayInv, NEW p \in Passes, NEW pc \in R!Running, R!Goto(p, pc),
         accepted \subseteq accepted'
  PROVE  /\ pass' \in [Passes -> PassRecord]
         /\ \A q \in Passes : pass'[q].done \subseteq accepted'
<1> DEFINE new == [pass[p] EXCEPT !.pc = pc]
<1>1. pass[p] \in PassRecord /\ pass[p].done \subseteq accepted
  BY DEF RelayInv
<1>2. new \in PassRecord /\ new.done = pass[p].done
  BY <1>1 DEF PassRecord
<1>3. pass' = [pass EXCEPT ![p] = new]
  BY DEF R!Goto
<1> HIDE DEF new
<1>4. QED
  BY <1>1, <1>2, <1>3, PassMoves

(* A pass that publishes a row has it accepted. *)
LEMMA PublishKeepsRelay ==
  ASSUME RelayInv, NEW p \in Passes, NEW d \in Deliveries,
         R!Publish(p, d) \/ R!PublishFails(p, d)
  PROVE  RelayInv' /\ accepted' \in {accepted, accepted \cup {d}}
<1>1. accepted' \in {accepted, accepted \cup {d}} /\ outbox' = outbox
  BY DEF R!Publish, R!PublishFails
<1>2. /\ pass' \in [Passes -> PassRecord]
      /\ \A q \in Passes : pass'[q].done \subseteq accepted'
  <2>1. CASE R!Publish(p, d)
    <3> DEFINE new == [pass[p] EXCEPT !.todo = pass[p].todo \ {d}, !.done = pass[p].done \cup {d}]
    <3>1. pass[p] \in PassRecord /\ pass[p].done \subseteq accepted
      BY DEF RelayInv
    <3>2. new \in PassRecord /\ new.done = pass[p].done \cup {d}
      BY <3>1 DEF PassRecord
    <3>3. pass' = [pass EXCEPT ![p] = new] /\ accepted' = accepted \cup {d}
      BY <2>1 DEF R!Publish
    <3> HIDE DEF new
    <3>4. QED
      BY <3>1, <3>2, <3>3, PassMoves
  <2>2. CASE R!PublishFails(p, d)
    <3>1. R!Goto(p, "mark") /\ "mark" \in R!Running
      BY <2>2 DEF R!PublishFails, R!Running
    <3>2. QED
      BY <1>1, <3>1, PassGoto
  <2>3. QED
    BY <2>1, <2>2
<1>3. R!NoRowLost'
  BY <1>1 DEF RelayInv, R!NoRowLost
<1>4. QED
  BY <1>1, <1>2, <1>3 DEF RelayInv

(* Every other step of the relay leaves the broker alone and marks only    *)
(* what it has.                                                            *)
LEMMA RelayStepKeepsRelay ==
  ASSUME RelayInv, RelayStep
  PROVE  RelayInv' /\ accepted' = accepted
<1>1. ASSUME NEW d \in Deliveries, R!Stage(d) \/ R!Commit(d) \/ R!Abort(d) \/ R!PruneRelayed(d)
      PROVE  RelayInv' /\ accepted' = accepted
  <2>1. pass' = pass /\ accepted' = accepted
    BY <1>1 DEF R!Stage, R!Commit, R!Abort, R!PruneRelayed
  <2>2. \/ outbox' = [outbox EXCEPT ![d] = "writing"]
        \/ outbox' = [outbox EXCEPT ![d] = "pending"]
        \/ outbox' = [outbox EXCEPT ![d] = "aborted"]
        \/ outbox' = [outbox EXCEPT ![d] = "pruned"] /\ outbox[d] = "published"
    BY <1>1 DEF R!Stage, R!Commit, R!Abort, R!PruneRelayed
  <2>3. outbox' \in [Deliveries -> R!RowStates]
    BY <2>2 DEF RelayInv, R!RowStates
  <2>4. R!NoRowLost'
    BY <2>1, <2>2 DEF RelayInv, R!NoRowLost
  <2>5. QED
    BY <2>1, <2>3, <2>4 DEF RelayInv
<1>2. ASSUME NEW p \in Passes, R!Acquire(p)
      PROVE  RelayInv' /\ accepted' = accepted
  <2>1. /\ pass' = [pass EXCEPT ![p] = [R!IdlePass EXCEPT !.pc = "find"]]
        /\ outbox' = outbox /\ accepted' = accepted
    BY <1>2 DEF R!Acquire
  <2>2. /\ pass' \in [Passes -> PassRecord]
        /\ \A q \in Passes : pass'[q].done \subseteq accepted'
    BY <2>1, IdlePassRecord, PassMoves
  <2>3. QED
    BY <2>1, <2>2 DEF RelayInv, R!NoRowLost
<1>3. ASSUME NEW p \in Passes, R!Find(p)
      PROVE  RelayInv' /\ accepted' = accepted
  <2> DEFINE pc == IF R!FindPending = {} THEN "release" ELSE "publish"
             new == [pass[p] EXCEPT !.pc = pc, !.todo = R!FindPending]
  <2>1. pass' = [pass EXCEPT ![p] = new] /\ outbox' = outbox /\ accepted' = accepted
    BY <1>3 DEF R!Find
  <2>2. pass[p] \in PassRecord /\ pass[p].done \subseteq accepted
    BY DEF RelayInv
  <2>3. R!FindPending \subseteq Deliveries
    BY DEF R!FindPending, R!Pending
  <2>4. new \in PassRecord /\ new.done = pass[p].done
    BY <2>2, <2>3 DEF PassRecord, R!Running
  <2> HIDE DEF new
  <2>5. /\ pass' \in [Passes -> PassRecord]
        /\ \A q \in Passes : pass'[q].done \subseteq accepted'
    BY <2>1, <2>2, <2>4, PassMoves
  <2>6. QED
    BY <2>1, <2>5 DEF RelayInv, R!NoRowLost
<1>4. ASSUME NEW p \in Passes, R!Exhausted(p) \/ R!QueryFails(p)
      PROVE  RelayInv' /\ accepted' = accepted
  <2>1. /\ R!Goto(p, "mark") \/ R!Goto(p, "release")
        /\ outbox' = outbox /\ accepted' = accepted
    BY <1>4 DEF R!Exhausted, R!QueryFails
  <2>2. /\ pass' \in [Passes -> PassRecord]
        /\ \A q \in Passes : pass'[q].done \subseteq accepted'
    BY <2>1, PassGoto DEF R!Running
  <2>3. QED
    BY <2>1, <2>2 DEF RelayInv, R!NoRowLost
<1>5. ASSUME NEW p \in Passes, R!Mark(p)
      PROVE  RelayInv' /\ accepted' = accepted
  <2>1. R!Goto(p, "release") /\ accepted' = accepted
    BY <1>5 DEF R!Mark
  <2>2. /\ pass' \in [Passes -> PassRecord]
        /\ \A q \in Passes : pass'[q].done \subseteq accepted'
    BY <2>1, PassGoto DEF R!Running
  <2>3. outbox' \in [Deliveries -> R!RowStates]
    BY <1>5 DEF RelayInv, R!Mark, R!RowStates
  <2>4. \A d \in Deliveries : outbox'[d] = outbox[d] \/ d \in pass[p].done
    BY <1>5 DEF R!Mark, R!ToMark
  <2>5. R!NoRowLost'
    BY <2>1, <2>4 DEF RelayInv, R!NoRowLost
  <2>6. QED
    BY <2>1, <2>2, <2>3, <2>5 DEF RelayInv
<1>6. ASSUME NEW p \in Passes, R!Release(p) \/ R!ReleaseFails(p) \/ R!Crash(p)
      PROVE  RelayInv' /\ accepted' = accepted
  <2>1. pass' = [pass EXCEPT ![p] = R!IdlePass] /\ outbox' = outbox /\ accepted' = accepted
    BY <1>6 DEF R!Release, R!ReleaseFails, R!Crash
  <2>2. /\ pass' \in [Passes -> PassRecord]
        /\ \A q \in Passes : pass'[q].done \subseteq accepted'
    BY <2>1, IdlePassRecord, PassMoves
  <2>3. QED
    BY <2>1, <2>2 DEF RelayInv, R!NoRowLost
<1>7. CASE R!Tick
  <2>1. ASSUME NEW q \in Passes
        PROVE  pass'[q] \in PassRecord /\ pass'[q].done = pass[q].done
    <3> DEFINE old == [pass[q] EXCEPT !.age = pass[q].age + 1]
    <3>1. pass[q] \in PassRecord
      BY DEF RelayInv
    <3>2. old \in PassRecord /\ old.done = pass[q].done
      BY <3>1 DEF PassRecord
    <3>3. pass'[q] = IF pass[q].pc \in R!Running THEN old ELSE pass[q]
      BY <1>7 DEF R!Tick
    <3> HIDE DEF old
    <3>4. QED
      BY <3>1, <3>2, <3>3
  <2>2. pass' = [q \in Passes |-> pass'[q]] /\ outbox' = outbox /\ accepted' = accepted
    BY <1>7 DEF R!Tick
  <2>3. pass' \in [Passes -> PassRecord]
    BY <2>1, <2>2
  <2>4. QED
    BY <2>1, <2>2, <2>3 DEF RelayInv, R!NoRowLost
<1>8. QED
  BY <1>1, <1>2, <1>3, <1>4, <1>5, <1>6, <1>7 DEF RelayStep, PassStep, PassFault


(* The notifier's own steps publish nothing. *)
LEMMA NotifierPublishesNothing ==
  ASSUME NotifierStep \/ \E h \in Handlers : Handle(h)
  PROVE  published' = published /\ UNCHANGED <<outbox, pass, accepted>>
<1>1. UNCHANGED relay
  BY DEF NotifierStep, Handle
<1>2. CASE NotifierStep
  BY <1>1, <1>2
  DEF NotifierStep, relay, Receive, HandlerFault, ClaimError, ReleaseError, SettleSentError,
      SettleFailedError, PublishError, Crash, ChannelDrop, Wipe, Expire, Replay, Tick
<1>3. CASE \E h \in Handlers : Handle(h)
  BY <1>1, <1>3
  DEF Handle, relay, HandlerStep, Create, Takeover, ReadClaim, SendSucceeds, SendFails, Release,
      SettleSent, SettleFailed, Republish, Park, Ack
<1>4. QED
  BY <1>2, <1>3

(* Initially nothing is staged, accepted or published. *)
LEMMA InitKeptInv == PipelineInit => KeptInv
<1> SUFFICES ASSUME PipelineInit PROVE KeptInv
  OBVIOUS
<1>1. TypeInv /\ LossInv
  BY InitTypeInv, InitLossInv DEF PipelineInit
<1>2. RelayInv
  <2>1. pass \in [Passes -> PassRecord] /\ \A p \in Passes : pass[p].done = {}
    BY IdlePassRecord DEF PipelineInit, R!Init
  <2>2. QED
    BY <2>1 DEF PipelineInit, R!Init, RelayInv, R!NoRowLost, R!RowStates
<1>3. AcceptedIsPublished
  BY DEF PipelineInit, R!Init, AcceptedIsPublished
<1>4. QED
  BY <1>1, <1>2, <1>3 DEF KeptInv

(* A publish of either outcome reaches both sides alike. *)
LEMMA RelayKeepsJoint ==
  ASSUME KeptInv, NEW p \in Passes, NEW d \in Deliveries, Relay(p, d) \/ RelayFails(p, d)
  PROVE  RelayInv' /\ AcceptedIsPublished'
<1>1. RelayInv' /\ accepted' \in {accepted, accepted \cup {d}}
  BY PublishKeepsRelay DEF KeptInv, Relay, RelayFails
<1>2. published \in [Deliveries -> 0..MaxPublishes] /\ MaxPublishes \in Nat
  BY DeliveryAssumption DEF KeptInv, TypeInv, TypeOK
<1>3. CASE Publish(d)
  <2>1. published' = [published EXCEPT ![d] = published[d] + 1]
    BY <1>3 DEF Publish
  <2>2. published'[d] > 0 /\ \A e \in Deliveries \ {d} : published'[e] = published[e]
    BY <1>2, <2>1
  <2>3. QED
    BY <1>1, <2>2 DEF KeptInv, AcceptedIsPublished
<1>4. CASE accepted' = accepted /\ UNCHANGED vars
  BY <1>1, <1>4 DEF KeptInv, AcceptedIsPublished, vars
<1>5. QED
  BY <1>3, <1>4 DEF Relay, RelayFails

(* Every step of the pipeline keeps both halves and the joint. *)
LEMMA StepKeptInv == KeptInv /\ [PipelineNext]_pipelineVars => KeptInv'
<1> SUFFICES ASSUME KeptInv, [PipelineNext]_pipelineVars PROVE KeptInv'
  OBVIOUS
<1>1. TypeInv' /\ LossInv'
  BY NotifierView, StepTypeInv, StepLossInv DEF KeptInv
<1>2. RelayInv' /\ AcceptedIsPublished'
  <2>1. CASE \E p \in Passes, d \in Deliveries : Relay(p, d) \/ RelayFails(p, d)
    BY <2>1, RelayKeepsJoint
  <2>2. CASE RelayStep
    <3>1. RelayInv' /\ accepted' = accepted
      BY <2>2, RelayStepKeepsRelay DEF KeptInv
    <3>2. published' = published
      BY <2>2 DEF RelayStep, vars
    <3>3. QED
      BY <3>1, <3>2 DEF KeptInv, AcceptedIsPublished
  <2>3. CASE NotifierStep \/ \E h \in Handlers : Handle(h)
    BY <2>3, NotifierPublishesNothing DEF KeptInv, RelayInv, R!NoRowLost, AcceptedIsPublished
  <2>4. CASE UNCHANGED pipelineVars
    BY <2>4 DEF pipelineVars, relay, vars, KeptInv, RelayInv, R!NoRowLost, AcceptedIsPublished
  <2>5. QED
    BY <2>1, <2>2, <2>3, <2>4 DEF PipelineNext
<1>3. QED
  BY <1>1, <1>2 DEF KeptInv

(* From the commit of a firing on, its alert is with the outbox or with    *)
(* the notifier, whatever passes and handlers crash over it and however    *)
(* often it is published: the rows of commitFire, markPublished and        *)
(* pruneRelayed and the acks of handle never leave a gap between them.     *)
THEOREM AlertKept == PipelineSpec => []AlertIsKept
<1>1. KeptInv => AlertIsKept
  BY DEF KeptInv, RelayInv, R!NoRowLost, AcceptedIsPublished, LossInv, Accounted, Safe, AlertIsKept
<1>2. QED
  BY <1>1, InitKeptInv, StepKeptInv, PTL DEF PipelineSpec


----------------------------------------------------------------------------
(* Exactly once *)

(* The last success of the channel is on its way to the row, or in it. *)
Settling(d) ==
  d \in settledSent \/ \E h \in Handlers : hs[h].pc = "settleSent" /\ hs[h].of = d

(* The inductive form of ExactlyOnce: a fault pays for every success of    *)
(* the channel but the one that is being settled or has been.              *)
OnceInv ==
  /\ alerted \in [Deliveries -> Nat]
  /\ \A d \in Deliveries \ (wiped \cup demoted) :
       /\ alerted[d] <= 1 + faults
       /\ ~Settling(d) => alerted[d] <= faults

(* A step of one handler leaves the others where they are. *)
LEMMA OthersUntouched ==
  ASSUME TypeInv, NEW h \in Handlers, Receive(h) \/ HandlerStep(h) \/ HandlerFault(h)
  PROVE  \A g \in Handlers \ {h} : hs'[g] = hs[g]
<1>1. hs \in [Handlers -> HandlerRecord]
  BY DEF TypeInv, TypeOK
<1>2. CASE Receive(h)
  BY <1>1, <1>2 DEF Receive
<1>3. CASE HandlerStep(h)
  BY <1>1, <1>3
  DEF HandlerStep, Goto, Create, Takeover, ReadClaim, SendSucceeds, SendFails, Release,
      SettleSent, SettleFailed, Republish, Park, Ack
<1>4. CASE HandlerFault(h)
  BY <1>1, <1>4
  DEF HandlerFault, Goto, LeaveUnacked, ClaimError, ReleaseError, SettleSentError,
      SettleFailedError, PublishError, Crash, ChannelDrop
<1>5. QED
  BY <1>2, <1>3, <1>4

(* History and faults only grow. *)
LEMMA HistoryGrows ==
  ASSUME TypeInv, [Next]_vars
  PROVE  /\ settledSent \subseteq settledSent' /\ wiped \subseteq wiped' /\ demoted \subseteq demoted'
         /\ faults \in Nat /\ faults' \in {faults, faults + 1}
<1>1. faults \in Nat
  BY DEF TypeInv, TypeOK
<1>2. ASSUME NEW h \in Handlers, Receive(h) \/ HandlerStep(h)
      PROVE  /\ settledSent \subseteq settledSent' /\ wiped \subseteq wiped' /\ demoted \subseteq demoted'
             /\ faults' = faults
  BY <1>2
  DEF Receive, HandlerStep, Create, Takeover, ReadClaim, SendSucceeds, SendFails, Release,
      SettleSent, SettleFailed, Republish, Park, Ack, history
<1>3. ASSUME NEW h \in Handlers, HandlerFault(h)
      PROVE  /\ settledSent \subseteq settledSent' /\ wiped \subseteq wiped' /\ demoted \subseteq demoted'
             /\ faults' = faults + 1
  BY <1>3
  DEF HandlerFault, ClaimError, ReleaseError, SettleSentError, SettleFailedError, PublishError,
      Crash, ChannelDrop, Fault, history
<1>4. ASSUME \/ \E d \in Deliveries : Publish(d) \/ Wipe(d)
             \/ \E c \in Copies : Expire(c)
             \/ Replay \/ Tick \/ UNCHANGED vars
      PROVE  /\ settledSent \subseteq settledSent' /\ wiped \subseteq wiped' /\ demoted \subseteq demoted'
             /\ faults' \in {faults, faults + 1}
  BY <1>4 DEF Publish, Wipe, Expire, Replay, Tick, Fault, history, vars
<1>5. QED
  BY <1>1, <1>2, <1>3, <1>4 DEF Next

(* Only the settle ends a settling, or a fault does. *)
LEMMA SettlingKept ==
  ASSUME TypeInv, [Next]_vars, NEW d \in Deliveries, Settling(d), faults' = faults
  PROVE  Settling(d)'
<1>1. settledSent \subseteq settledSent' /\ faults \in Nat
  BY HistoryGrows
<1>2. SUFFICES ASSUME NEW g \in Handlers, hs[g].pc = "settleSent", hs[g].of = d
               PROVE  Settling(d)'
  BY <1>1 DEF Settling
<1>3. hs[g] \in HandlerRecord
  BY DEF TypeInv, TypeOK
<1>4. ASSUME NEW h \in Handlers, Receive(h) \/ HandlerStep(h) \/ HandlerFault(h)
      PROVE  Settling(d)'
  <2>1. CASE h # g
    BY <1>2, <1>4, <2>1, OthersUntouched DEF Settling
  <2>2. CASE h = g
    <3>1. ~HandlerFault(h)
      BY <1>1 DEF HandlerFault, ClaimError, ReleaseError, SettleSentError, SettleFailedError,
                  PublishError, Crash, ChannelDrop, Fault
    <3>2. SettleSent(h)
      BY <1>2, <1>4, <2>2, <3>1
      DEF Receive, HandlerStep, Create, Takeover, ReadClaim, SendSucceeds, SendFails, Release,
          SettleFailed, Republish, Park, Ack
    <3>3. QED
      BY <1>2, <2>2, <3>2 DEF SettleSent, Settling
  <2>3. QED
    BY <2>1, <2>2
<1>5. CASE Tick
  <2> DEFINE old == [hs[g] EXCEPT !.age = hs[g].age + 1]
  <2>1. old.pc = "settleSent" /\ old.of = d
    BY <1>2, <1>3 DEF HandlerRecord
  <2>2. hs'[g] \in {hs[g], old}
    BY <1>5 DEF Tick
  <2> HIDE DEF old
  <2>3. QED
    BY <1>2, <2>1, <2>2 DEF Settling
<1>6. CASE \/ \E e \in Deliveries : Publish(e) \/ Wipe(e)
           \/ \E c \in Copies : Expire(c)
           \/ Replay \/ UNCHANGED vars
  BY <1>2, <1>6 DEF Publish, Wipe, Expire, Replay, vars, Settling
<1>7. QED
  BY <1>4, <1>5, <1>6 DEF Next

(* Initially the channel has taken nothing. *)
LEMMA InitOnceInv == PipelineInit => OnceInv
  BY DEF PipelineInit, Init, OnceInv

(* A step of the pipeline in which no channel call succeeds counts nothing. *)
LEMMA AlertedCases ==
  ASSUME OnceInv, [PipelineNext]_pipelineVars
  PROVE  \/ alerted' = alerted
         \/ \E h \in Handlers :
              /\ SendSucceeds(h)
              /\ alerted' = [d \in Deliveries |->
                   IF hs[h].of = d THEN alerted[d] + 1 ELSE alerted[d]]
<1>1. ASSUME NEW h \in Handlers, Handle(h), ~SendSucceeds(h) PROVE alerted' = alerted
  BY <1>1 DEF Handle, OnceInv
<1>2. ASSUME NEW h \in Handlers, Handle(h), SendSucceeds(h)
      PROVE  alerted' = [d \in Deliveries |->
               IF hs[h].of = d THEN alerted[d] + 1 ELSE alerted[d]]
  BY <1>2 DEF Handle
<1>3. CASE \/ \E p \in Passes, d \in Deliveries : Relay(p, d) \/ RelayFails(p, d)
           \/ RelayStep \/ NotifierStep \/ UNCHANGED pipelineVars
  BY <1>3 DEF Relay, RelayFails, RelayStep, NotifierStep, pipelineVars
<1>4. QED
  BY <1>1, <1>2, <1>3 DEF PipelineNext

(* Every step keeps OnceInv: the one that sends is alone with an unsettled *)
(* delivery, so that the success it adds is the one being settled.         *)
LEMMA StepOnceInv ==
  ASSUME TypeInv, LeaseInv, OnceInv, [PipelineNext]_pipelineVars
  PROVE  OnceInv'
<1>0. [Next]_vars
  BY NotifierView
<1>1. /\ settledSent \subseteq settledSent' /\ wiped \subseteq wiped' /\ demoted \subseteq demoted'
      /\ faults \in Nat /\ faults' \in {faults, faults + 1}
  BY <1>0, HistoryGrows
<1>2. CASE alerted' = alerted
  <2>1. SUFFICES ASSUME NEW d \in Deliveries \ (wiped \cup demoted)
                 PROVE  /\ alerted[d] <= 1 + faults'
                        /\ ~Settling(d)' => alerted[d] <= faults'
    BY <1>1, <1>2 DEF OnceInv
  <2>2. /\ alerted[d] \in Nat /\ alerted[d] <= 1 + faults
        /\ ~Settling(d) => alerted[d] <= faults
    BY DEF OnceInv
  <2>3. CASE faults' = faults + 1
    BY <1>1, <2>2, <2>3
  <2>4. CASE faults' = faults
    BY <1>0, <2>2, <2>4, SettlingKept
  <2>5. QED
    BY <1>1, <2>3, <2>4
<1>3. ASSUME NEW h \in Handlers, SendSucceeds(h),
             alerted' = [d \in Deliveries |->
               IF hs[h].of = d THEN alerted[d] + 1 ELSE alerted[d]]
      PROVE  OnceInv'
  <2>1. /\ hs[h].pc = "send" /\ Goto(h, "settleSent")
        /\ UNCHANGED <<faults, settledSent, wiped, demoted>>
    BY <1>3 DEF SendSucceeds, history
  <2>2. /\ hs'[h].pc = "settleSent" /\ hs'[h].of = hs[h].of
        /\ \A g \in Handlers \ {h} : hs'[g] = hs[g]
    BY <2>1, GotoFacts DEF TypeInv, TypeOK, Pcs, OwnerPcs
  <2>3. alerted' \in [Deliveries -> Nat]
    BY <1>3 DEF OnceInv
  <2>4. ASSUME NEW d \in Deliveries \ (wiped \cup demoted)
        PROVE  /\ alerted'[d] <= 1 + faults
               /\ ~Settling(d)' => alerted'[d] <= faults
    <3>1. /\ alerted[d] \in Nat /\ alerted[d] <= 1 + faults
          /\ ~Settling(d) => alerted[d] <= faults
      BY <2>4 DEF OnceInv
    <3>2. CASE hs[h].of = d
      <4>1. LeaseOK(d)
        BY <2>4 DEF LeaseInv
      <4>2. d \notin settledSent
        BY <2>1, <2>4, <3>2, <4>1 DEF LeaseOK, OwnerPcs
      <4>3. ~\E g \in Handlers : hs[g].pc = "settleSent" /\ hs[g].of = d
        BY <2>1, <3>2, <4>1 DEF LeaseOK, OwnerPcs
      <4>4. alerted'[d] = alerted[d] + 1 /\ alerted[d] <= faults
        BY <1>3, <3>1, <3>2, <4>2, <4>3 DEF Settling
      <4>5. Settling(d)'
        BY <2>2, <3>2 DEF Settling
      <4>6. QED
        BY <1>1, <3>1, <4>4, <4>5
    <3>3. CASE hs[h].of # d
      <4>1. alerted'[d] = alerted[d]
        BY <1>3, <3>3
      <4>2. Settling(d) => Settling(d)'
        BY <1>0, <2>1, SettlingKept
      <4>3. QED
        BY <3>1, <4>1, <4>2
    <3>4. QED
      BY <3>2, <3>3
  <2>5. QED
    BY <2>1, <2>3, <2>4 DEF OnceInv
<1>4. QED
  BY <1>2, <1>3, AlertedCases

(* When no attempt outlasts its lease (CLAIM_LEASE_MS against the bounded  *)
(* channel calls), the channel takes an alert once, and once more for each *)
(* fault of the notifier, however often relay passes publish it, operators *)
(* replay it and attempts overlap, unless its row was removed or a late    *)
(* settle(FAILED) overwrote it.                                            *)
THEOREM DeliveredOnce ==
  ASSUME AttemptBound <= Lease
  PROVE  PipelineSpec => []ExactlyOnce
<1> DEFINE I == TypeInv /\ LeaseInv /\ OnceInv
<1>1. PipelineInit => I
  BY InitTypeInv, InitLeaseInv, InitOnceInv DEF PipelineInit
<1>2. I /\ [PipelineNext]_pipelineVars => I'
  BY NotifierView, StepTypeInv, StepLeaseInv, StepOnceInv
<1>3. I => ExactlyOnce
  BY DEF OnceInv, ExactlyOnce
<1>4. QED
  BY <1>1, <1>2, <1>3, PTL DEF PipelineSpec

----------------------------------------------------------------------------
(* Both sides by their own rules *)

(* Every step of the pipeline is a step of the relay, or none. *)
LEMMA RelayView ==
  ASSUME [PipelineNext]_pipelineVars
  PROVE  [R!Next]_(R!vars)
<1>1. CASE \E p \in Passes, d \in Deliveries : Relay(p, d) \/ RelayFails(p, d)
  BY <1>1 DEF Relay, RelayFails, R!Next, R!PassStep, R!PassFault
<1>2. CASE RelayStep
  <2>1. CASE \E d \in Deliveries :
               R!Stage(d) \/ R!Commit(d) \/ R!Abort(d) \/ R!PruneRelayed(d)
    BY <2>1 DEF R!Next
  <2>2. CASE \E p \in Passes : R!Acquire(p) \/ PassStep(p) \/ PassFault(p)
    BY <2>2 DEF PassStep, PassFault, R!Next, R!PassStep, R!PassFault
  <2>3. CASE R!Tick
    BY <2>3 DEF R!Next
  <2>4. QED
    BY <1>2, <2>1, <2>2, <2>3 DEF RelayStep
<1>3. CASE (\E h \in Handlers : Handle(h)) \/ NotifierStep
  BY <1>3 DEF Handle, NotifierStep, relay, R!vars
<1>4. CASE UNCHANGED pipelineVars
  BY <1>4 DEF pipelineVars, relay, R!vars
<1>5. QED
  BY <1>1, <1>2, <1>3, <1>4 DEF PipelineNext

(* Joining relay and notifier at the broker lets neither do what it could  *)
(* not do alone: seen from the notifier the pipeline is Delivery, with     *)
(* Publish at any time, and seen from the watcher it is OutboxRelay, so    *)
(* what is proved of each component holds in the composed system.          *)
THEOREM SidesKeepTheirRules == PipelineSpec => Spec /\ R!Spec
<1>1. PipelineInit => Init /\ R!Init
  BY DEF PipelineInit
<1>2. [PipelineNext]_pipelineVars => [Next]_vars /\ [R!Next]_(R!vars)
  BY NotifierView, RelayView
<1>3. QED
  BY <1>1, <1>2, PTL DEF PipelineSpec, Spec, R!Spec
=============================================================================
