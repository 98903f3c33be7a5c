-------------------------- MODULE PushFanoutProofs --------------------------
(***************************************************************************)
(* The safety properties of PushFanout, for every number of devices, users,*)
(* overlapping attempts, retries and faults.                               *)
(***************************************************************************)
EXTENDS PushFanout, FiniteSetTheorems, TLAPS

Awaits(h, d) == \E p \in run[h].pending : p[1] = d

(* The endpoint an attempt is busy with is one it has still to do, and the *)
(* push service has taken the alert for the one it is about to record; it  *)
(* reads one subscription per endpoint, and at least one; a device that    *)
(* stayed waits for its turn, is on record, or failed, which retries the   *)
(* event; and somebody it reached is on record, or about to be, or lost,   *)
(* which is a failure too.                                                 *)
AttemptOK(h) ==
  /\ run[h].pc \in {"mark", "prune"} => run[h].cur \in run[h].pending
  /\ run[h].pc = "mark" => sent[run[h].cur[1]] >= 1
  /\ \A p, q \in run[h].pending : p[1] = q[1] => p = q
  /\ run[h].pc \in {"subs", "delivered"} => ~run[h].failed
  /\ run[h].pc = "delivered" => run[h].pending # {}
  /\ run[h].pc \notin {"idle", "inflight", "subs"} =>
       \A d \in stayed : Awaits(h, d) \/ d \in marked \/ run[h].failed
  /\ run[h].delivered => run[h].pc = "mark" \/ marked # {} \/ run[h].failed

AttemptsOK == \A h \in Handlers : AttemptOK(h)

MarkedIsSent == \A d \in marked : sent[d] >= 1

(* The attempts that may send a device the alert without a further fault:  *)
(* not the one that is recording it, and once it is recorded only those    *)
(* that looked before.                                                     *)
MaySend(h, d) ==
  /\ run[h].pc # "idle"
  /\ ~(run[h].pc = "mark" /\ run[h].cur[1] = d)
  /\ d \in marked => run[h].pc \in {"loop", "mark", "prune"} /\ Awaits(h, d)

Sending(d) == {h \in Handlers : MaySend(h, d)}

(* The waiting copies, told apart; each of them becomes an attempt that    *)
(* sends to whatever is not recorded by then.                              *)
Waiting == UNION {{n} \X (1..queue[n]) : n \in 0..(MaxAttempts - 1)}

Open(d) == IF d \in marked THEN {} ELSE Waiting

(* What was sent and what may still be sent is paid for by faults.         *)
OnceInv ==
  /\ IsFiniteSet(Waiting)
  /\ \A d \in Devices :
       sent[d] + Cardinality(Open(d)) + Cardinality(Sending(d)) <= 1 + faults

PushInv ==
  /\ TypeOK /\ IsFiniteSet(gone)
  /\ AttemptsOK /\ MarkedIsSent /\ NoDeviceForgotten /\ SentIsRecorded
  /\ OnceInv

----------------------------------------------------------------------------
(* One attempt moves *)

Typed == TypeOK /\ IsFiniteSet(gone)

(* A step of one attempt leaves the others where they are. *)
LEMMA GotoMoves ==
  ASSUME TypeOK, NEW h \in Handlers, NEW r \in RunRecord, Goto(h, r)
  PROVE  /\ run' \in [Handlers -> RunRecord]
         /\ run'[h] = r
         /\ \A g \in Handlers \ {h} : run'[g] = run[g]
  BY DEF TypeOK, Goto

LEMMA IdleTyped == Idle \in RunRecord
  BY PushAssumption DEF Idle, RunRecord

(* The fields of an attempt. *)
LEMMA RunFields ==
  ASSUME TypeOK, NEW h \in Handlers
  PROVE  /\ run[h] \in RunRecord
         /\ run[h].n \in 0..(MaxAttempts - 1) /\ run[h].pending \subseteq Pairs
         /\ run[h].delivered \in BOOLEAN /\ run[h].failed \in BOOLEAN
  BY DEF TypeOK, RunRecord

(* A bounded environment counts to MaxEvents. *)
LEMMA RoomLeft ==
  ASSUME Typed, Room
  PROVE  adds + 1 \in 0..MaxEvents /\ faults + 1 \in 0..MaxEvents
<1>1. Cardinality(gone) \in Nat
  BY FS_CardinalityType DEF Typed
<1>2. QED
  BY <1>1, PushAssumption DEF Typed, TypeOK, Room

(* The records the attempts move to. *)
LEMMA NextRecords ==
  ASSUME TypeOK, NEW h \in Handlers
  PROVE  /\ \A pc \in {"subs", "delivered", "loop", "mark", "prune"}, S \in SUBSET Pairs :
              [run[h] EXCEPT !.pc = pc, !.pending = S] \in RunRecord
         /\ \A p \in Pairs :
              /\ [run[h] EXCEPT !.pc = "mark", !.cur = p, !.delivered = TRUE] \in RunRecord
              /\ [run[h] EXCEPT !.pc = "prune", !.cur = p] \in RunRecord
              /\ [run[h] EXCEPT !.pending = @ \ {p}, !.failed = TRUE] \in RunRecord
         /\ \A f \in BOOLEAN :
              [run[h] EXCEPT !.pc = "loop", !.pending = @ \ {run[h].cur}, !.cur = <<>>,
                             !.failed = @ \/ f] \in RunRecord
         /\ \A pc \in {"inflight", "subs"}, n \in 0..(MaxAttempts - 1) :
              [Idle EXCEPT !.pc = pc, !.n = n] \in RunRecord
<1>1. run[h] \in RunRecord
  BY RunFields
<1>2. \A pc \in {"subs", "delivered", "loop", "mark", "prune"}, S \in SUBSET Pairs :
        [run[h] EXCEPT !.pc = pc, !.pending = S] \in RunRecord
  BY <1>1 DEF RunRecord
<1>3. ASSUME NEW p \in Pairs
      PROVE  /\ [run[h] EXCEPT !.pc = "mark", !.cur = p, !.delivered = TRUE] \in RunRecord
             /\ [run[h] EXCEPT !.pc = "prune", !.cur = p] \in RunRecord
             /\ [run[h] EXCEPT !.pending = @ \ {p}, !.failed = TRUE] \in RunRecord
  BY <1>1 DEF RunRecord
<1>4. ASSUME NEW f \in BOOLEAN
      PROVE  [run[h] EXCEPT !.pc = "loop", !.pending = @ \ {run[h].cur}, !.cur = <<>>,
                            !.failed = @ \/ f] \in RunRecord
  <2>1. (run[h].failed \/ f) \in BOOLEAN
    BY <1>1 DEF RunRecord
  <2>2. QED
    BY <1>1, <2>1 DEF RunRecord
<1>5. \A pc \in {"inflight", "subs"}, n \in 0..(MaxAttempts - 1) :
        [Idle EXCEPT !.pc = pc, !.n = n] \in RunRecord
  BY IdleTyped DEF RunRecord
<1>6. QED
  BY <1>2, <1>3, <1>4, <1>5

(* Attempt h goes on at pc with S to do and busy with c, and nobody else   *)
(* moves.                                                                  *)
Becomes(h, pc, S, c, delivered, failed) ==
  /\ run' \in [Handlers -> RunRecord]
  /\ \A g \in Handlers \ {h} : run'[g] = run[g]
  /\ run'[h].pc = pc /\ run'[h].pending = S /\ run'[h].cur = c
  /\ run'[h].delivered = delivered /\ run'[h].failed = failed

Ends(h) == Becomes(h, "idle", {}, <<>>, FALSE, FALSE)

(* An attempt that settles or throws is over. *)
LEMMA EndViews ==
  ASSUME TypeOK, NEW h \in Handlers
  PROVE  /\ \A v : Settle(h, v) => Ends(h)
         /\ Throw(h) \/ InFlight(h) => Ends(h)
         /\ Crash(h) => Ends(h)
<1>1. ASSUME Goto(h, Idle) PROVE Ends(h)
  <2>1. /\ run' \in [Handlers -> RunRecord] /\ run'[h] = Idle
        /\ \A g \in Handlers \ {h} : run'[g] = run[g]
    BY <1>1, IdleTyped, GotoMoves
  <2>2. QED
    BY <2>1 DEF Ends, Becomes, Idle
<1>2. QED
  BY <1>1 DEF Settle, Throw, InFlight, Retry, Crash

(* What the steps of the loop make of the attempt. *)
LEMMA LoopViews ==
  ASSUME TypeOK, NEW h \in Handlers, NEW p \in run[h].pending
  PROVE  /\ SendOk(h, p) => Becomes(h, "mark", run[h].pending, p, TRUE, run[h].failed)
         /\ SendGone(h, p) => Becomes(h, "prune", run[h].pending, p, run[h].delivered, run[h].failed)
         /\ SendFails(h, p) \/ AnswerLost(h, p) =>
              Becomes(h, "loop", run[h].pending \ {p}, run[h].cur, run[h].delivered, TRUE)
<1>0. p \in Pairs /\ run[h] \in RunRecord
  BY RunFields
<1>1. ASSUME SendOk(h, p) PROVE Becomes(h, "mark", run[h].pending, p, TRUE, run[h].failed)
  <2> DEFINE r == [run[h] EXCEPT !.pc = "mark", !.cur = p, !.delivered = TRUE]
  <2>1. Goto(h, r) /\ r \in RunRecord
    BY <1>0, <1>1, NextRecords DEF SendOk
  <2>2. /\ r.pc = "mark" /\ r.pending = run[h].pending /\ r.cur = p
        /\ r.delivered = TRUE /\ r.failed = run[h].failed
    BY <1>0 DEF RunRecord
  <2> HIDE DEF r
  <2>3. QED
    BY <2>1, <2>2, GotoMoves DEF Becomes
<1>2. ASSUME SendGone(h, p) PROVE Becomes(h, "prune", run[h].pending, p, run[h].delivered, run[h].failed)
  <2> DEFINE r == [run[h] EXCEPT !.pc = "prune", !.cur = p]
  <2>1. Goto(h, r) /\ r \in RunRecord
    BY <1>0, <1>2, NextRecords DEF SendGone
  <2>2. /\ r.pc = "prune" /\ r.pending = run[h].pending /\ r.cur = p
        /\ r.delivered = run[h].delivered /\ r.failed = run[h].failed
    BY <1>0 DEF RunRecord
  <2> HIDE DEF r
  <2>3. QED
    BY <2>1, <2>2, GotoMoves DEF Becomes
<1>3. ASSUME SendFails(h, p) \/ AnswerLost(h, p)
      PROVE  Becomes(h, "loop", run[h].pending \ {p}, run[h].cur, run[h].delivered, TRUE)
  <2> DEFINE r == [run[h] EXCEPT !.pending = @ \ {p}, !.failed = TRUE]
  <2>1. Goto(h, r) /\ r \in RunRecord /\ run[h].pc = "loop"
    BY <1>0, <1>3, NextRecords DEF SendFails, AnswerLost
  <2>2. /\ r.pc = run[h].pc /\ r.pending = run[h].pending \ {p} /\ r.cur = run[h].cur
        /\ r.delivered = run[h].delivered /\ r.failed = TRUE
    BY <1>0 DEF RunRecord
  <2> HIDE DEF r
  <2>3. QED
    BY <2>1, <2>2, GotoMoves DEF Becomes
<1>4. QED
  BY <1>1, <1>2, <1>3

(* Back to the loop. *)
LEMMA NextSubView ==
  ASSUME TypeOK, NEW h \in Handlers, NEW failed \in BOOLEAN, NextSub(h, failed)
  PROVE  Becomes(h, "loop", run[h].pending \ {run[h].cur}, <<>>, run[h].delivered,
                 run[h].failed \/ failed)
<1> DEFINE r == [run[h] EXCEPT !.pc = "loop", !.pending = @ \ {run[h].cur}, !.cur = <<>>,
                               !.failed = @ \/ failed]
<1>1. Goto(h, r) /\ r \in RunRecord
  BY NextRecords DEF NextSub
<1>2. /\ r.pc = "loop" /\ r.pending = run[h].pending \ {run[h].cur} /\ r.cur = <<>>
      /\ r.delivered = run[h].delivered /\ r.failed = (run[h].failed \/ failed)
  BY RunFields DEF RunRecord
<1> HIDE DEF r
<1>3. QED
  BY <1>1, <1>2, GotoMoves DEF Becomes

ReadNow == {<<d, row[d].id>> : d \in Registered}

(* The reads before the loop, and the beginning. *)
LEMMA ReadViews ==
  ASSUME TypeOK, NEW h \in Handlers
  PROVE  /\ PushSubscriptions(h) =>
              \/ Ends(h)
              \/ Becomes(h, "delivered", ReadNow, run[h].cur, run[h].delivered, run[h].failed)
         /\ DeliveredDestinations(h) =>
              \/ Ends(h)
              \/ Becomes(h, "loop", NotYet(h), run[h].cur, run[h].delivered, run[h].failed)
         /\ \A n \in DOMAIN queue : Begin(h, n) =>
              \/ UNCHANGED run
              \/ \E pc \in {"inflight", "subs"} : Becomes(h, pc, {}, <<>>, FALSE, FALSE)
<1>0. run[h] \in RunRecord
  BY RunFields
<1>1. ASSUME PushSubscriptions(h), ~Ends(h)
      PROVE  Becomes(h, "delivered", ReadNow, run[h].cur, run[h].delivered, run[h].failed)
  <2> DEFINE r == [run[h] EXCEPT !.pc = "delivered", !.pending = ReadNow]
  <2>1. Goto(h, r)
    BY <1>1, EndViews DEF PushSubscriptions, ReadNow
  <2>2. ReadNow \in SUBSET Pairs
    BY DEF ReadNow, Registered, Pairs, TypeOK, SubRecord
  <2>3. r \in RunRecord
    BY <2>2, NextRecords
  <2>4. /\ r.pc = "delivered" /\ r.pending = ReadNow /\ r.cur = run[h].cur
        /\ r.delivered = run[h].delivered /\ r.failed = run[h].failed
    BY <1>0 DEF RunRecord
  <2> HIDE DEF r
  <2>5. QED
    BY <2>1, <2>3, <2>4, GotoMoves DEF Becomes
<1>2. ASSUME DeliveredDestinations(h), ~Ends(h)
      PROVE  Becomes(h, "loop", NotYet(h), run[h].cur, run[h].delivered, run[h].failed)
  <2> DEFINE r == [run[h] EXCEPT !.pc = "loop", !.pending = NotYet(h)]
  <2>1. Goto(h, r)
    BY <1>2, EndViews DEF DeliveredDestinations
  <2>2. NotYet(h) \in SUBSET Pairs
    BY RunFields DEF NotYet
  <2>3. r \in RunRecord
    BY <2>2, NextRecords
  <2>4. /\ r.pc = "loop" /\ r.pending = NotYet(h) /\ r.cur = run[h].cur
        /\ r.delivered = run[h].delivered /\ r.failed = run[h].failed
    BY <1>0 DEF RunRecord
  <2> HIDE DEF r
  <2>5. QED
    BY <2>1, <2>3, <2>4, GotoMoves DEF Becomes
<1>3. ASSUME NEW n \in DOMAIN queue, NEW pc \in {"inflight", "subs"},
             Goto(h, [Idle EXCEPT !.pc = pc, !.n = n])
      PROVE  Becomes(h, pc, {}, <<>>, FALSE, FALSE)
  <2> DEFINE r == [Idle EXCEPT !.pc = pc, !.n = n]
  <2>1. Goto(h, r) /\ r \in RunRecord
    BY <1>3, NextRecords DEF TypeOK
  <2>2. r.pc = pc /\ r.pending = {} /\ r.cur = <<>> /\ r.delivered = FALSE /\ r.failed = FALSE
    BY DEF Idle
  <2> HIDE DEF r
  <2>3. QED
    BY <2>1, <2>2, GotoMoves DEF Becomes
<1>4. QED
  BY <1>1, <1>2, <1>3 DEF Begin

----------------------------------------------------------------------------
(* Types *)

Verdicts == {"open", "sent", "invalid", "none", "unconfigured", "exhausted"}

(* TypeOK but for the attempts and the subscriptions. *)
EventTyped ==
  /\ queue \in [0..(MaxAttempts - 1) -> Nat]
  /\ claim \in BOOLEAN /\ verdict \in Verdicts

SubsTyped ==
  /\ row \in [Devices -> SubRecord]
  /\ adding \in [Users -> Devices \cup {None}]
  /\ adds \in 0..MaxEvents
  /\ stayed \subseteq Registered

LEMMA TypeParts ==
  TypeOK <=> /\ EventTyped /\ SubsTyped
             /\ configured \in BOOLEAN /\ faults \in 0..MaxEvents
             /\ gone \subseteq Devices /\ marked \subseteq Devices
             /\ run \in [Handlers -> RunRecord] /\ sent \in [Devices -> Nat]
  BY DEF TypeOK, EventTyped, SubsTyped, Verdicts

(* The ends of an attempt keep the event typed. *)
LEMMA EventEnds ==
  ASSUME TypeOK, NEW h \in Handlers
  PROVE  /\ \A v \in Verdicts : Settle(h, v) => EventTyped'
         /\ Throw(h) \/ InFlight(h) => EventTyped'
         /\ UNCHANGED event => EventTyped'
<1>1. EventTyped /\ run[h].n \in 0..(MaxAttempts - 1)
  BY TypeParts, RunFields
<1>2. ASSUME Release \/ UNCHANGED claim PROVE claim' \in BOOLEAN
  BY <1>1, <1>2 DEF Release, EventTyped
<1>3. \A v \in Verdicts : Settle(h, v) => EventTyped'
  BY <1>1, <1>2 DEF Settle, EventTyped
<1>4. ASSUME Throw(h) \/ InFlight(h) PROVE EventTyped'
  <2>0. Retry(h) /\ claim' \in BOOLEAN
    BY <1>2, <1>4 DEF Throw, InFlight
  <2>1. CASE run[h].n + 1 >= MaxAttempts
    BY <1>1, <2>0, <2>1 DEF Retry, EventTyped, Verdicts
  <2>2. CASE ~(run[h].n + 1 >= MaxAttempts)
    <3>1. run[h].n + 1 \in 0..(MaxAttempts - 1)
      BY <1>1, <2>2, PushAssumption
    <3>2. queue' = [queue EXCEPT ![run[h].n + 1] = @ + 1] /\ verdict' = verdict
      BY <2>0, <2>2 DEF Retry, Requeued
    <3>3. QED
      BY <1>1, <2>0, <3>1, <3>2 DEF EventTyped
  <2>3. QED
    BY <2>1, <2>2
<1>5. UNCHANGED event => EventTyped'
  BY <1>1 DEF event, EventTyped
<1>6. QED
  BY <1>3, <1>4, <1>5

(* So do a removed subscription and an unchanged table. *)
LEMMA SubsKept ==
  ASSUME TypeOK
  PROVE  /\ \A d \in Devices : Removed(d) => SubsTyped'
         /\ UNCHANGED subs /\ UNCHANGED stayed => SubsTyped'
<1>1. SubsTyped
  BY TypeParts
<1>2. ASSUME NEW d \in Devices, Removed(d) PROVE SubsTyped'
  <2>1. NoSub \in SubRecord
    BY PushAssumption DEF NoSub, SubRecord
  <2>2. row' \in [Devices -> SubRecord] /\ \A e \in Devices \ {d} : row'[e] = row[e]
    BY <1>1, <1>2, <2>1 DEF Removed, SubsTyped
  <2>3. stayed' \subseteq Registered'
    BY <1>1, <1>2, <2>2 DEF Removed, SubsTyped, Registered
  <2>4. QED
    BY <1>1, <1>2, <2>2, <2>3 DEF Removed, SubsTyped
<1>3. UNCHANGED subs /\ UNCHANGED stayed => SubsTyped'
  BY <1>1 DEF SubsTyped, subs, Registered
<1>4. QED
  BY <1>2, <1>3

LEMMA RegistrationTyped ==
  ASSUME Typed, NEW u \in Users
  PROVE  /\ AddUpsert(u) => SubsTyped'
         /\ \A d \in Devices : AddRead(u, d) => SubsTyped'
<1>1. SubsTyped /\ None \notin Users /\ Owner \in Users
  BY TypeParts, PushAssumption DEF Typed
<1>2. ASSUME AddUpsert(u) PROVE SubsTyped'
  <2>1. PICK d \in Devices : d = adding[u]
    BY <1>1, <1>2 DEF AddUpsert, SubsTyped
  <2>2. row' = [row EXCEPT ![d] = Upserted(u, d)]
    BY <1>2, <2>1 DEF AddUpsert
  <2>3. Upserted(u, d) \in SubRecord /\ (row[d].user # None => Upserted(u, d).user = row[d].user)
    BY <1>1 DEF Upserted, SubsTyped, SubRecord
  <2>4. row' \in [Devices -> SubRecord] /\ stayed' \subseteq Registered'
    BY <1>1, <1>2, <2>2, <2>3 DEF AddUpsert, SubsTyped, Registered
  <2>5. QED
    BY <1>1, <1>2, <2>1, <2>4 DEF AddUpsert, SubsTyped
<1>3. ASSUME NEW d \in Devices, AddRead(u, d) PROVE SubsTyped'
  <2>1. adds' \in 0..MaxEvents
    BY <1>3, RoomLeft DEF AddRead
  <2>2. row[d].user \in Users \cup {None}
    BY <1>1 DEF SubsTyped, SubRecord
  <2>3. QED
    BY <1>1, <1>3, <2>1, <2>2 DEF AddRead, SubsTyped, Registered
<1>4. QED
  BY <1>2, <1>3

(* The current endpoint of an attempt is a device. *)
LEMMA CurrentDevice ==
  ASSUME TypeOK, AttemptsOK, NEW h \in Handlers, run[h].pc \in {"mark", "prune"}
  PROVE  run[h].cur \in Pairs /\ run[h].cur[1] \in Devices
<1>1. run[h].cur \in Pairs
  BY RunFields DEF AttemptsOK, AttemptOK
<1>2. QED
  BY <1>1 DEF Pairs

LEMMA StepTyped ==
  ASSUME Typed, AttemptsOK, [Next]_vars
  PROVE  Typed'
<1> USE DEF Typed
<1>0. /\ EventTyped /\ SubsTyped /\ TypeOK
      /\ configured \in BOOLEAN /\ faults \in 0..MaxEvents
      /\ gone \subseteq Devices /\ marked \subseteq Devices
      /\ run \in [Handlers -> RunRecord] /\ sent \in [Devices -> Nat]
  BY TypeParts
<1> DEFINE Rest == /\ configured' \in BOOLEAN /\ faults' \in 0..MaxEvents
                   /\ gone' \subseteq Devices /\ marked' \subseteq Devices
                   /\ sent' \in [Devices -> Nat] /\ IsFiniteSet(gone')
<1>1. SUFFICES EventTyped' /\ SubsTyped' /\ Rest /\ run' \in [Handlers -> RunRecord]
  BY DEF TypeOK, EventTyped, SubsTyped, Verdicts
<1>2. ASSUME Fault PROVE faults' \in 0..MaxEvents
  BY <1>2, RoomLeft DEF Fault
<1>3. ASSUME NEW h \in Handlers, NEW n \in DOMAIN queue, Begin(h, n)
      PROVE  EventTyped' /\ SubsTyped' /\ Rest /\ run' \in [Handlers -> RunRecord]
  <2>1. run' \in [Handlers -> RunRecord]
    BY <1>0, <1>3, ReadViews DEF Becomes
  <2>2. queue[n] \in Nat /\ queue[n] > 0 /\ n \in 0..(MaxAttempts - 1)
    BY <1>0, <1>3 DEF Begin, EventTyped
  <2>3. claim' \in BOOLEAN
    BY <1>0, <1>3, Zenon DEF Begin, EventTyped
  <2>4. verdict' \in Verdicts /\ queue' \in [0..(MaxAttempts - 1) -> Nat]
    BY <1>0, <1>3, <2>2 DEF Begin, EventTyped, Verdicts
  <2>5. QED
    BY <1>0, <1>3, <2>1, <2>3, <2>4, SubsKept DEF Begin, EventTyped
<1>4. ASSUME NEW h \in Handlers, PushSubscriptions(h) \/ DeliveredDestinations(h)
      PROVE  EventTyped' /\ SubsTyped' /\ Rest /\ run' \in [Handlers -> RunRecord]
  <2>1. run' \in [Handlers -> RunRecord]
    BY <1>0, <1>4, ReadViews DEF Becomes, Ends
  <2>2. EventTyped'
    BY <1>4, EventEnds DEF PushSubscriptions, DeliveredDestinations, Verdicts
  <2>3. QED
    BY <1>0, <1>4, <2>1, <2>2, SubsKept DEF PushSubscriptions, DeliveredDestinations
<1>5. ASSUME NEW h \in Handlers, NEW p \in run[h].pending,
             SendOk(h, p) \/ SendGone(h, p) \/ SendFails(h, p) \/ AnswerLost(h, p)
      PROVE  EventTyped' /\ SubsTyped' /\ Rest /\ run' \in [Handlers -> RunRecord]
  <2>1. run' \in [Handlers -> RunRecord]
    BY <1>0, <1>5, LoopViews DEF Becomes
  <2>2. EventTyped' /\ SubsTyped'
    BY <1>0, <1>5, EventEnds, SubsKept DEF SendOk, SendGone, SendFails, AnswerLost
  <2>3. p[1] \in Devices
    BY RunFields DEF Pairs
  <2>4. sent' \in [Devices -> Nat]
    BY <1>0, <1>5, <2>3 DEF SendOk, SendGone, SendFails, AnswerLost
  <2>5. QED
    BY <1>0, <1>2, <1>5, <2>1, <2>2, <2>4 DEF SendOk, SendGone, SendFails, AnswerLost
<1>6. ASSUME NEW h \in Handlers, MarkDelivered(h) \/ MarkFails(h) \/ Prune(h)
      PROVE  EventTyped' /\ SubsTyped' /\ Rest /\ run' \in [Handlers -> RunRecord]
  <2>1. run[h].cur[1] \in Devices
    BY <1>6, CurrentDevice DEF MarkDelivered, MarkFails, Prune
  <2>2. run' \in [Handlers -> RunRecord]
    BY <1>0, <1>6, NextSubView DEF MarkDelivered, MarkFails, Prune, Becomes
  <2>3. EventTyped'
    BY <1>6, EventEnds DEF MarkDelivered, MarkFails, Prune
  <2>4. SubsTyped'
    BY <1>6, <2>1, SubsKept DEF MarkDelivered, MarkFails, Prune
  <2>5. QED
    BY <1>0, <1>2, <1>6, <2>1, <2>2, <2>3, <2>4 DEF MarkDelivered, MarkFails, Prune
<1>7. ASSUME NEW h \in Handlers, PruneFails(h) \/ QueryFails(h) \/ InFlight(h) \/ Conclude(h)
      PROVE  EventTyped' /\ SubsTyped' /\ Rest /\ run' \in [Handlers -> RunRecord]
  <2>1. run' \in [Handlers -> RunRecord]
    BY <1>7, EndViews DEF PruneFails, QueryFails, Conclude, Becomes, Ends
  <2>2. EventTyped'
    BY <1>7, EventEnds DEF PruneFails, QueryFails, Conclude, Verdicts
  <2>3. QED
    BY <1>0, <1>7, <2>1, <2>2, SubsKept DEF PruneFails, QueryFails, InFlight, Conclude
<1>8. ASSUME NEW h \in Handlers, Crash(h) \/ Redelivered(h)
      PROVE  EventTyped' /\ SubsTyped' /\ Rest /\ run' \in [Handlers -> RunRecord]
  <2>1. run' \in [Handlers -> RunRecord]
    BY <1>0, <1>8, EndViews DEF Redelivered, Becomes, Ends
  <2>2. EventTyped'
    BY <1>0, <1>8, RunFields DEF Crash, Redelivered, Requeued, EventTyped
  <2>3. SubsTyped'
    BY <1>8, SubsKept DEF Crash, Redelivered
  <2>4. QED
    BY <1>0, <1>2, <1>8, <2>1, <2>2, <2>3 DEF Crash, Redelivered
<1>9. ASSUME LeaseEnds \/ \E d \in Devices : Expire(d)
      PROVE  EventTyped' /\ SubsTyped' /\ Rest /\ run' \in [Handlers -> RunRecord]
  <2>1. IsFiniteSet(gone')
    BY <1>9, FS_AddElement DEF Expire, LeaseEnds
  <2>2. EventTyped' /\ SubsTyped'
    BY <1>0, <1>9, SubsKept DEF Expire, LeaseEnds, event, EventTyped
  <2>3. QED
    BY <1>0, <1>9, <2>1, <2>2 DEF Expire, LeaseEnds
<1>10. ASSUME NEW u \in Users,
              AddUpsert(u) \/ \E d \in Devices : AddRead(u, d) \/ RemovePushSubscription(u, d)
       PROVE  EventTyped' /\ SubsTyped' /\ Rest /\ run' \in [Handlers -> RunRecord]
  <2>1. SubsTyped'
    BY <1>10, RegistrationTyped, SubsKept DEF RemovePushSubscription
  <2>2. EventTyped'
    BY <1>0, <1>10 DEF AddUpsert, AddRead, RemovePushSubscription, event, EventTyped
  <2>3. QED
    BY <1>0, <1>10, <2>1, <2>2 DEF AddUpsert, AddRead, RemovePushSubscription
<1>11. CASE UNCHANGED vars
  BY <1>0, <1>11, SubsKept DEF vars, subs, event, EventTyped
<1>12. QED
  BY <1>3, <1>4, <1>5, <1>6, <1>7, <1>8, <1>9, <1>10, <1>11 DEF Next, Step

----------------------------------------------------------------------------
(* No device is forgotten *)

(* Alerts and records are only added and devices only leave. *)
Onward ==
  /\ sent \in [Devices -> Nat] /\ sent' \in [Devices -> Nat]
  /\ \A d \in Devices : sent'[d] >= sent[d]
  /\ stayed' \subseteq stayed /\ stayed \subseteq Devices
  /\ marked \subseteq marked'

LEMMA StepOnward ==
  ASSUME Typed, AttemptsOK, [Next]_vars
  PROVE  Onward
<1>1. /\ sent \in [Devices -> Nat] /\ sent' \in [Devices -> Nat] /\ stayed \subseteq Devices
  BY StepTyped DEF Typed, TypeOK, Registered
<1>2. ASSUME NEW h \in Handlers, NEW p \in run[h].pending, SendOk(h, p) \/ AnswerLost(h, p)
      PROVE  Onward
  <2>1. sent' = [sent EXCEPT ![p[1]] = @ + 1] /\ stayed' = stayed /\ marked' = marked
    BY <1>2 DEF SendOk, AnswerLost
  <2>2. QED
    BY <1>1, <2>1 DEF Onward
<1>3. ASSUME sent' = sent, stayed' \subseteq stayed, marked \subseteq marked' PROVE Onward
  BY <1>1, <1>3 DEF Onward
<1>4. ASSUME NEW h \in Handlers, NEW n \in DOMAIN queue, Begin(h, n) PROVE Onward
  BY <1>3, <1>4 DEF Begin
<1>5. ASSUME NEW h \in Handlers, NEW p \in run[h].pending, SendGone(h, p) \/ SendFails(h, p)
      PROVE  Onward
  BY <1>3, <1>5 DEF SendGone, SendFails
<1>6. ASSUME NEW h \in Handlers,
             \/ PushSubscriptions(h) \/ DeliveredDestinations(h) \/ MarkDelivered(h) \/ Prune(h)
             \/ PruneFails(h) \/ QueryFails(h) \/ InFlight(h) \/ Conclude(h)
             \/ Crash(h) \/ Redelivered(h) \/ MarkFails(h)
      PROVE  Onward
  BY <1>3, <1>6
  DEF PushSubscriptions, DeliveredDestinations, MarkDelivered, Prune, Removed, PruneFails,
      QueryFails, InFlight, Conclude, Crash, Redelivered, MarkFails
<1>7. ASSUME LeaseEnds \/ \E d \in Devices : Expire(d) PROVE Onward
  BY <1>3, <1>7 DEF Expire, LeaseEnds
<1>8. ASSUME NEW u \in Users,
              AddUpsert(u) \/ \E d \in Devices : AddRead(u, d) \/ RemovePushSubscription(u, d)
      PROVE  Onward
  BY <1>3, <1>8 DEF AddUpsert, AddRead, RemovePushSubscription, Removed
<1>9. CASE UNCHANGED vars
  BY <1>3, <1>9 DEF vars
<1>10. QED
  BY <1>2, <1>4, <1>5, <1>6, <1>7, <1>8, <1>9 DEF Next, Step

(* An attempt that does not move stays as good as it was. *)
LEMMA StillOK ==
  ASSUME TypeOK, NEW g \in Handlers, AttemptOK(g), Onward, run'[g] = run[g]
  PROVE  AttemptOK(g)'
<1>1. run[g].pending \subseteq Pairs /\ \A p \in run[g].pending : p[1] \in Devices
  BY RunFields DEF Pairs
<1>2. run[g].pc = "mark" => run[g].cur[1] \in Devices
  BY <1>1 DEF AttemptOK
<1>3. QED
  BY <1>1, <1>2 DEF AttemptOK, Onward, Awaits

(* An attempt that ends or begins has nothing to answer for. *)
LEMMA FreshOK ==
  ASSUME NEW h \in Handlers,
         Ends(h) \/ \E pc \in {"inflight", "subs"} : Becomes(h, pc, {}, <<>>, FALSE, FALSE)
  PROVE  AttemptOK(h)'
  BY DEF AttemptOK, Ends, Becomes

LEMMA StepAttempts ==
  ASSUME Typed, AttemptsOK, MarkedIsSent, [Next]_vars
  PROVE  AttemptsOK'
<1>0. TypeOK /\ Onward /\ \A g \in Handlers : AttemptOK(g)
  BY StepOnward DEF Typed, AttemptsOK
<1>1. ASSUME NEW h \in Handlers, \A g \in Handlers \ {h} : run'[g] = run[g], AttemptOK(h)'
      PROVE  AttemptsOK'
  BY <1>0, <1>1, StillOK DEF AttemptsOK
<1>2. ASSUME UNCHANGED run PROVE AttemptsOK'
  BY <1>0, <1>2, StillOK DEF AttemptsOK
<1>3. ASSUME NEW h \in Handlers, Ends(h) PROVE AttemptsOK'
  BY <1>1, <1>3, FreshOK DEF Ends, Becomes
<1>4. ASSUME NEW h \in Handlers, NEW n \in DOMAIN queue, Begin(h, n) PROVE AttemptsOK'
  BY <1>0, <1>1, <1>2, <1>4, ReadViews, FreshOK DEF Becomes
<1>5. ASSUME NEW h \in Handlers, PushSubscriptions(h) PROVE AttemptsOK'
  <2>1. CASE Becomes(h, "delivered", ReadNow, run[h].cur, run[h].delivered, run[h].failed)
    <3>0. AttemptOK(h) /\ run[h].pc = "subs" /\ marked' = marked
      BY <1>0, <1>5 DEF PushSubscriptions
    <3>1. \A d \in stayed' : \E p \in ReadNow : p[1] = d
      <4>1. SUFFICES ASSUME NEW d \in stayed' PROVE \E p \in ReadNow : p[1] = d
        OBVIOUS
      <4>2. d \in Registered
        BY <1>0 DEF Onward, TypeOK
      <4>3. <<d, row[d].id>> \in ReadNow
        BY <4>2 DEF ReadNow
      <4>4. QED
        BY <4>3
    <3>2. \A p, q \in ReadNow : p[1] = q[1] => p = q
      BY DEF ReadNow
    <3>3. ReadNow # {}
      <4>1. ~Ends(h)
        BY <2>1 DEF Ends, Becomes
      <4>2. Registered # {}
        BY <1>0, <1>5, <4>1, EndViews DEF PushSubscriptions
      <4>3. QED
        BY <4>2 DEF ReadNow
    <3>4. AttemptOK(h)'
      BY <2>1, <3>0, <3>1, <3>2, <3>3 DEF AttemptOK, Awaits, Becomes
    <3>5. QED
      BY <1>1, <2>1, <3>4 DEF Becomes
  <2>2. QED
    BY <1>0, <1>3, <1>5, <2>1, ReadViews
<1>6. ASSUME NEW h \in Handlers, DeliveredDestinations(h) PROVE AttemptsOK'
  <2>1. CASE Becomes(h, "loop", NotYet(h), run[h].cur, run[h].delivered, run[h].failed)
    <3>1. AttemptOK(h) /\ run[h].pc = "delivered" /\ UNCHANGED <<sent, stayed, marked>>
      BY <1>0, <1>6 DEF DeliveredDestinations
    <3>2. AttemptOK(h)'
      BY <2>1, <3>1 DEF AttemptOK, Awaits, Becomes, NotYet
    <3>3. QED
      BY <1>1, <2>1, <3>2 DEF Becomes
  <2>2. QED
    BY <1>0, <1>3, <1>6, <2>1, ReadViews
<1>7. ASSUME NEW h \in Handlers, NEW p \in run[h].pending, SendOk(h, p) PROVE AttemptsOK'
  <2>1. Becomes(h, "mark", run[h].pending, p, TRUE, run[h].failed) /\ AttemptOK(h)
    BY <1>0, <1>7, LoopViews
  <2>2. p[1] \in Devices
    BY <1>0, RunFields DEF Pairs
  <2>3. sent'[p[1]] >= 1 /\ run[h].pc = "loop"
    BY <1>0, <1>7, <2>2 DEF SendOk, Onward
  <2>4. AttemptOK(h)'
    BY <1>0, <2>1, <2>3 DEF AttemptOK, Awaits, Becomes, Onward
  <2>5. QED
    BY <1>1, <2>1, <2>4 DEF Becomes
<1>8. ASSUME NEW h \in Handlers, NEW p \in run[h].pending, SendGone(h, p) PROVE AttemptsOK'
  <2>1. /\ Becomes(h, "prune", run[h].pending, p, run[h].delivered, run[h].failed) /\ AttemptOK(h)
        /\ run[h].pc = "loop"
    BY <1>0, <1>8, LoopViews DEF SendGone
  <2>2. AttemptOK(h)'
    BY <1>0, <2>1 DEF AttemptOK, Awaits, Becomes, Onward
  <2>3. QED
    BY <1>1, <2>1, <2>2 DEF Becomes
<1>9. ASSUME NEW h \in Handlers, NEW p \in run[h].pending, SendFails(h, p) \/ AnswerLost(h, p)
      PROVE  AttemptsOK'
  <2>1. Becomes(h, "loop", run[h].pending \ {p}, run[h].cur, run[h].delivered, TRUE) /\ AttemptOK(h)
    BY <1>0, <1>9, LoopViews
  <2>2. AttemptOK(h)'
    BY <2>1 DEF AttemptOK, Becomes
  <2>3. QED
    BY <1>1, <2>1, <2>2 DEF Becomes
<1>10. ASSUME NEW h \in Handlers, MarkFails(h) PROVE AttemptsOK'
  <2>1. Becomes(h, "loop", run[h].pending \ {run[h].cur}, <<>>, run[h].delivered, TRUE) /\ AttemptOK(h)
    <3>1. Becomes(h, "loop", run[h].pending \ {run[h].cur}, <<>>, run[h].delivered, run[h].failed \/ TRUE)
      BY <1>0, <1>10, NextSubView DEF MarkFails
    <3>2. (run[h].failed \/ TRUE) = TRUE
      OBVIOUS
    <3>3. QED
      BY <1>0, <3>1, <3>2
  <2>2. AttemptOK(h)'
    BY <2>1 DEF AttemptOK, Becomes
  <2>3. QED
    BY <1>1, <2>1, <2>2 DEF Becomes
<1>11. ASSUME NEW h \in Handlers, MarkDelivered(h) \/ Prune(h) PROVE AttemptsOK'
  <2>1. /\ Becomes(h, "loop", run[h].pending \ {run[h].cur}, <<>>, run[h].delivered, run[h].failed)
        /\ AttemptOK(h)
    <3>1. Becomes(h, "loop", run[h].pending \ {run[h].cur}, <<>>, run[h].delivered, run[h].failed \/ FALSE)
      BY <1>0, <1>11, NextSubView DEF MarkDelivered, Prune
    <3>2. (run[h].failed \/ FALSE) = run[h].failed
      BY <1>0, RunFields
    <3>3. QED
      BY <1>0, <3>1, <3>2
  <2>2. /\ \A d \in stayed' : d = run[h].cur[1] => d \in marked'
        /\ run[h].pc = "mark" => marked' # {}
    BY <1>0, <1>11 DEF MarkDelivered, Prune, Removed, AttemptOK, Onward
  <2>3. run[h].pc \notin {"idle", "inflight", "subs"}
    BY <1>11 DEF MarkDelivered, Prune
  <2>4. AttemptOK(h)'
    BY <1>0, <2>1, <2>2, <2>3 DEF AttemptOK, Awaits, Becomes, Onward
  <2>5. QED
    BY <1>1, <2>1, <2>4 DEF Becomes
<1>12. ASSUME NEW h \in Handlers,
              PruneFails(h) \/ QueryFails(h) \/ InFlight(h) \/ Conclude(h) \/ Crash(h)
       PROVE  AttemptsOK'
  BY <1>0, <1>3, <1>12, EndViews DEF PruneFails, QueryFails, Conclude
<1>13. ASSUME NEW h \in Handlers, Redelivered(h) PROVE AttemptsOK'
  BY <1>2, <1>13 DEF Redelivered
<1>14. ASSUME LeaseEnds \/ \E d \in Devices : Expire(d) PROVE AttemptsOK'
  BY <1>2, <1>14 DEF Expire, LeaseEnds
<1>15. ASSUME NEW u \in Users,
              AddUpsert(u) \/ \E d \in Devices : AddRead(u, d) \/ RemovePushSubscription(u, d)
       PROVE  AttemptsOK'
  BY <1>2, <1>15 DEF AddUpsert, AddRead, RemovePushSubscription
<1>16. CASE UNCHANGED vars
  BY <1>2, <1>16 DEF vars
<1>17. QED
  BY <1>4, <1>5, <1>6, <1>7, <1>8, <1>9, <1>10, <1>11, <1>12, <1>13, <1>14, <1>15, <1>16
  DEF Next, Step

(* What is recorded as delivered was sent. *)
LEMMA StepMarked ==
  ASSUME Typed, AttemptsOK, MarkedIsSent, [Next]_vars
  PROVE  MarkedIsSent'
<1>0. Onward /\ marked \subseteq Devices
  BY StepOnward DEF Typed, TypeOK
<1>1. ASSUME UNCHANGED marked PROVE MarkedIsSent'
  BY <1>0, <1>1 DEF MarkedIsSent, Onward
<1>2. ASSUME NEW h \in Handlers, MarkDelivered(h) PROVE MarkedIsSent'
  BY <1>0, <1>2 DEF MarkDelivered, MarkedIsSent, AttemptsOK, AttemptOK, Onward
<1>3. ASSUME NEW h \in Handlers, NEW n \in DOMAIN queue, Begin(h, n) PROVE UNCHANGED marked
  BY <1>3 DEF Begin
<1>4. ASSUME NEW h \in Handlers, NEW p \in run[h].pending,
             SendOk(h, p) \/ SendGone(h, p) \/ SendFails(h, p) \/ AnswerLost(h, p)
      PROVE  UNCHANGED marked
  BY <1>4 DEF SendOk, SendGone, SendFails, AnswerLost
<1>5. ASSUME NEW h \in Handlers,
             \/ PushSubscriptions(h) \/ DeliveredDestinations(h) \/ Prune(h)
             \/ PruneFails(h) \/ QueryFails(h) \/ InFlight(h) \/ Conclude(h)
             \/ Crash(h) \/ Redelivered(h) \/ MarkFails(h)
      PROVE  UNCHANGED marked
  BY <1>5
  DEF PushSubscriptions, DeliveredDestinations, Prune, PruneFails, QueryFails, InFlight, Conclude,
      Crash, Redelivered, MarkFails
<1>6. ASSUME \/ LeaseEnds
             \/ \E d \in Devices : Expire(d)
             \/ \E u \in Users :
                  AddUpsert(u) \/ \E d \in Devices : AddRead(u, d) \/ RemovePushSubscription(u, d)
             \/ UNCHANGED vars
      PROVE  UNCHANGED marked
  BY <1>6 DEF LeaseEnds, Expire, AddUpsert, AddRead, RemovePushSubscription, vars
<1>7. QED
  BY <1>1, <1>2, <1>3, <1>4, <1>5, <1>6 DEF Next, Step

(* A verdict other than the one before is reached when everyone is served, *)
(* and SENT when everyone is on record.                                    *)
LEMMA StepVerdict ==
  ASSUME Typed, AttemptsOK, MarkedIsSent, NoDeviceForgotten, SentIsRecorded, [Next]_vars
  PROVE  NoDeviceForgotten' /\ SentIsRecorded'
<1>0. TypeOK /\ Onward /\ MarkedIsSent' /\ \A g \in Handlers : AttemptOK(g)
  BY StepOnward, StepMarked DEF Typed, AttemptsOK
<1> DEFINE Good == NoDeviceForgotten' /\ SentIsRecorded'
<1>1. ASSUME verdict' = verdict PROVE Good
  BY <1>0, <1>1 DEF NoDeviceForgotten, SentIsRecorded, Onward
<1>2. ASSUME verdict' \notin {"sent", "invalid", "none"} PROVE Good
  BY <1>2 DEF NoDeviceForgotten, SentIsRecorded
<1>3. ASSUME stayed' \subseteq marked', verdict' = "sent" => marked' # {} PROVE Good
  BY <1>0, <1>3 DEF NoDeviceForgotten, SentIsRecorded, MarkedIsSent
<1>4. ASSUME NEW h \in Handlers, NEW n \in DOMAIN queue, Begin(h, n) PROVE Good
  BY <1>1, <1>2, <1>4 DEF Begin
<1>5. ASSUME NEW h \in Handlers, Retry(h) PROVE Good
  BY <1>1, <1>2, <1>5 DEF Retry
<1>6. ASSUME NEW h \in Handlers, PushSubscriptions(h) PROVE Good
  <2>1. CASE configured /\ Registered = {}
    <3>1. stayed' = {} /\ verdict' = "none"
      BY <1>0, <1>6, <2>1 DEF Onward, TypeOK, PushSubscriptions, Settle
    <3>2. QED
      BY <1>3, <3>1
  <2>2. CASE configured /\ Registered # {}
    BY <1>1, <1>6, <2>2 DEF PushSubscriptions, event
  <2>3. CASE ~configured
    BY <1>2, <1>6, <2>3 DEF PushSubscriptions, Settle
  <2>4. QED
    BY <1>0, <2>1, <2>2, <2>3 DEF TypeOK
<1>7. ASSUME NEW h \in Handlers, DeliveredDestinations(h) PROVE Good
  <2>1. CASE NotYet(h) = {}
    <3>1. AttemptOK(h) /\ run[h].pc = "delivered" /\ UNCHANGED <<stayed, marked>>
      BY <1>0, <1>7 DEF DeliveredDestinations
    <3>2. run[h].pending # {} /\ \A p \in run[h].pending : p[1] \in marked
      BY <2>1, <3>1 DEF AttemptOK, NotYet
    <3>3. ASSUME ~run[h].failed PROVE Good
      BY <1>3, <3>1, <3>2, <3>3 DEF AttemptOK, Awaits
    <3>4. QED
      BY <3>1, <3>3 DEF AttemptOK
  <2>2. CASE NotYet(h) # {}
    BY <1>1, <1>7, <2>2 DEF DeliveredDestinations, event
  <2>3. QED
    BY <2>1, <2>2
<1>8. ASSUME NEW h \in Handlers, Conclude(h) PROVE Good
  <2>1. CASE run[h].failed
    BY <1>5, <1>8, <2>1 DEF Conclude, Throw
  <2>2. CASE ~run[h].failed
    <3>1. AttemptOK(h) /\ run[h].pc = "loop" /\ run[h].pending = {} /\ UNCHANGED <<stayed, marked>>
      BY <1>0, <1>8 DEF Conclude
    <3>2. stayed' \subseteq marked' /\ (run[h].delivered => marked' # {})
      BY <2>2, <3>1 DEF AttemptOK, Awaits
    <3>3. verdict' = "sent" => run[h].delivered
      BY <1>8, <2>2 DEF Conclude, Settle
    <3>4. QED
      BY <1>3, <3>2, <3>3
  <2>3. QED
    BY <2>1, <2>2
<1>9. ASSUME NEW h \in Handlers, NEW p \in run[h].pending,
             SendOk(h, p) \/ SendGone(h, p) \/ SendFails(h, p) \/ AnswerLost(h, p)
      PROVE  UNCHANGED verdict
  BY <1>9 DEF SendOk, SendGone, SendFails, AnswerLost, event
<1>10. ASSUME NEW h \in Handlers,
              MarkDelivered(h) \/ Prune(h) \/ Crash(h) \/ Redelivered(h) \/ MarkFails(h)
       PROVE  UNCHANGED verdict
  BY <1>10 DEF MarkDelivered, Prune, Crash, Redelivered, MarkFails, event
<1>11. ASSUME \/ LeaseEnds
              \/ \E d \in Devices : Expire(d)
              \/ \E u \in Users :
                   AddUpsert(u) \/ \E d \in Devices : AddRead(u, d) \/ RemovePushSubscription(u, d)
              \/ UNCHANGED vars
       PROVE  UNCHANGED verdict
  BY <1>11 DEF LeaseEnds, Expire, AddUpsert, AddRead, RemovePushSubscription, vars, event
<1>12. QED
  BY <1>1, <1>4, <1>5, <1>6, <1>7, <1>8, <1>9, <1>10, <1>11
  DEF Next, Step, PruneFails, QueryFails, InFlight, Throw

----------------------------------------------------------------------------
(* Alerted once *)

(* The attempts that may send change by the one that moves. *)
LEMMA SendingBound ==
  ASSUME NEW h \in Handlers, NEW d,
         \A g \in Handlers \ {h} : run'[g] = run[g],
         marked \subseteq marked'
  PROVE  /\ Cardinality(Sending(d)) \in Nat /\ Cardinality(Sending(d)') \in Nat
         /\ Cardinality(Sending(d)') <= Cardinality(Sending(d)) + 1
         /\ (MaySend(h, d)' => MaySend(h, d)) =>
              Cardinality(Sending(d)') <= Cardinality(Sending(d))
         /\ MaySend(h, d) /\ ~MaySend(h, d)' =>
              Cardinality(Sending(d)') <= Cardinality(Sending(d)) - 1
<1>1. IsFiniteSet(Handlers)
  BY PushAssumption
<1>2. IsFiniteSet(Sending(d)) /\ IsFiniteSet(Sending(d)')
  <2>1. Sending(d) \subseteq Handlers /\ Sending(d)' \subseteq Handlers
    BY DEF Sending
  <2>2. QED
    BY <1>1, <2>1, FS_Subset
<1>3. \A g \in Handlers \ {h} : MaySend(g, d)' => MaySend(g, d)
  BY DEF MaySend, Awaits
<1>4. Cardinality(Sending(d)) \in Nat /\ Cardinality(Sending(d)') \in Nat
  BY <1>2, FS_CardinalityType
<1>5. Cardinality(Sending(d)') <= Cardinality(Sending(d)) + 1
  <2>1. Sending(d)' \subseteq Sending(d) \cup {h}
    BY <1>3 DEF Sending
  <2>2. /\ IsFiniteSet(Sending(d) \cup {h})
        /\ Cardinality(Sending(d) \cup {h}) \in {Cardinality(Sending(d)), Cardinality(Sending(d)) + 1}
    BY <1>2, FS_AddElement
  <2>3. Cardinality(Sending(d)') <= Cardinality(Sending(d) \cup {h})
    BY <2>1, <2>2, FS_Subset
  <2>4. QED
    BY <1>4, <2>2, <2>3
<1>6. ASSUME MaySend(h, d)' => MaySend(h, d)
      PROVE  Cardinality(Sending(d)') <= Cardinality(Sending(d))
  <2>1. Sending(d)' \subseteq Sending(d)
    BY <1>3, <1>6 DEF Sending
  <2>2. QED
    BY <1>2, <2>1, FS_Subset
<1>7. ASSUME MaySend(h, d), ~MaySend(h, d)'
      PROVE  Cardinality(Sending(d)') <= Cardinality(Sending(d)) - 1
  <2>1. Sending(d)' \subseteq Sending(d) \ {h} /\ h \in Sending(d)
    BY <1>3, <1>7 DEF Sending
  <2>2. /\ IsFiniteSet(Sending(d) \ {h})
        /\ Cardinality(Sending(d) \ {h}) = Cardinality(Sending(d)) - 1
    BY <1>2, <2>1, FS_RemoveElement
  <2>3. QED
    BY <2>1, <2>2, FS_Subset
<1>8. QED
  BY <1>4, <1>5, <1>6, <1>7

(* One copy more is one pair more. *)
LEMMA WaitingGrows ==
  ASSUME TypeOK, IsFiniteSet(Waiting), NEW n \in 0..(MaxAttempts - 1), queue' = Requeued(n)
  PROVE  IsFiniteSet(Waiting') /\ Cardinality(Waiting') = Cardinality(Waiting) + 1
<1>1. queue \in [0..(MaxAttempts - 1) -> Nat]
  BY DEF TypeOK
<1> DEFINE new == <<n, queue[n] + 1>>
<1>2. \A m \in 0..(MaxAttempts - 1) \ {n} : queue'[m] = queue[m]
  BY <1>1 DEF Requeued
<1>3. queue'[n] = queue[n] + 1 /\ queue[n] \in Nat
  BY <1>1 DEF Requeued
<1>4. {n} \X (1..queue'[n]) = ({n} \X (1..queue[n])) \cup {new}
  BY <1>3
<1>5. Waiting' = Waiting \cup {new}
  BY <1>2, <1>4 DEF Waiting
<1>6. new \notin Waiting
  BY <1>3 DEF Waiting
<1>7. QED
  BY <1>5, <1>6, FS_AddElement

LEMMA WaitingShrinks ==
  ASSUME TypeOK, IsFiniteSet(Waiting), NEW n \in 0..(MaxAttempts - 1), queue[n] > 0,
         queue' = [queue EXCEPT ![n] = @ - 1]
  PROVE  IsFiniteSet(Waiting') /\ Cardinality(Waiting') = Cardinality(Waiting) - 1
<1>1. queue \in [0..(MaxAttempts - 1) -> Nat]
  BY DEF TypeOK
<1> DEFINE old == <<n, queue[n]>>
<1>2. \A m \in 0..(MaxAttempts - 1) \ {n} : queue'[m] = queue[m]
  BY <1>1
<1>3. queue'[n] = queue[n] - 1 /\ queue[n] \in Nat /\ queue[n] >= 1
  BY <1>1
<1>4. {n} \X (1..queue'[n]) = ({n} \X (1..queue[n])) \ {old} /\ old \in {n} \X (1..queue[n])
  BY <1>3
<1>5. Waiting' = Waiting \ {old} /\ old \in Waiting
  BY <1>2, <1>4 DEF Waiting
<1>6. QED
  BY <1>5, FS_RemoveElement

(* A recorded device waits for nobody; the others for every copy. *)
LEMMA OpenSize ==
  ASSUME IsFiniteSet(Waiting), NEW d
  PROVE  /\ Cardinality(Open(d)) \in Nat /\ Cardinality(Waiting) \in Nat
         /\ Cardinality(Open(d)) = IF d \in marked THEN 0 ELSE Cardinality(Waiting)
  BY FS_EmptySet, FS_CardinalityType DEF Open

LEMMA OpenSizeNext ==
  ASSUME IsFiniteSet(Waiting'), NEW d
  PROVE  /\ Cardinality(Open(d)') \in Nat /\ Cardinality(Waiting') \in Nat
         /\ Cardinality(Open(d)') = IF d \in marked' THEN 0 ELSE Cardinality(Waiting')
  BY FS_EmptySet, FS_CardinalityType DEF Open

(* One side of the account. *)
Paid(d) == sent[d] + Cardinality(Open(d)) + Cardinality(Sending(d)) <= 1 + faults

(* A step of attempt h that leaves the queue alone and sends nothing to d  *)
(* keeps the account of d, unless h may send to d only now; then a fault   *)
(* has to pay.                                                             *)
LEMMA PaidInLoop ==
  ASSUME TypeOK, OnceInv, NEW h \in Handlers, NEW d \in Devices,
         \A g \in Handlers \ {h} : run'[g] = run[g],
         marked \subseteq marked', UNCHANGED queue, sent'[d] = sent[d],
         \/ faults' = faults /\ (MaySend(h, d)' => MaySend(h, d))
         \/ faults' = faults + 1
  PROVE  Paid(d)'
<1>1. /\ Cardinality(Sending(d)) \in Nat /\ Cardinality(Sending(d)') \in Nat
      /\ Cardinality(Sending(d)') <= Cardinality(Sending(d)) + 1
      /\ faults' = faults => Cardinality(Sending(d)') <= Cardinality(Sending(d))
  BY SendingBound DEF TypeOK
<1>2. Waiting' = Waiting /\ IsFiniteSet(Waiting)
  BY DEF Waiting, OnceInv
<1>3. Cardinality(Open(d)') <= Cardinality(Open(d)) /\ Cardinality(Open(d)) \in Nat
      /\ Cardinality(Open(d)') \in Nat
  BY <1>2, OpenSize, OpenSizeNext
<1>4. sent[d] \in Nat /\ faults \in Nat /\ sent[d] + Cardinality(Open(d)) + Cardinality(Sending(d)) <= 1 + faults
  BY DEF TypeOK, OnceInv
<1>5. QED
  BY <1>1, <1>3, <1>4 DEF Paid

(* A step that sends to d is paid for by the attempt, which will not do so *)
(* again, or by a fault.                                                   *)
LEMMA PaidBySender ==
  ASSUME TypeOK, OnceInv, NEW h \in Handlers, NEW d \in Devices,
         \A g \in Handlers \ {h} : run'[g] = run[g],
         UNCHANGED <<queue, marked>>, sent'[d] = sent[d] + 1,
         \/ faults' = faults /\ MaySend(h, d) /\ ~MaySend(h, d)'
         \/ faults' = faults + 1 /\ (MaySend(h, d)' => MaySend(h, d))
  PROVE  Paid(d)'
<1>1. /\ Cardinality(Sending(d)) \in Nat /\ Cardinality(Sending(d)') \in Nat
      /\ Cardinality(Sending(d)') <= Cardinality(Sending(d))
      /\ faults' = faults => Cardinality(Sending(d)') <= Cardinality(Sending(d)) - 1
  BY SendingBound DEF TypeOK
<1>2. Waiting' = Waiting /\ IsFiniteSet(Waiting)
  BY DEF Waiting, OnceInv
<1>3. Cardinality(Open(d)') = Cardinality(Open(d)) /\ Cardinality(Open(d)) \in Nat
  BY <1>2, OpenSize, OpenSizeNext
<1>4. sent[d] \in Nat /\ faults \in Nat /\ sent[d] + Cardinality(Open(d)) + Cardinality(Sending(d)) <= 1 + faults
  BY DEF TypeOK, OnceInv
<1>5. QED
  BY <1>1, <1>3, <1>4 DEF Paid

(* A copy that returns to the queue takes the place of its attempt, or is  *)
(* paid for by a fault.                                                    *)
LEMMA PaidOnReturn ==
  ASSUME TypeOK, OnceInv, NEW h \in Handlers, NEW n \in 0..(MaxAttempts - 1),
         queue' = Requeued(n), NEW d \in Devices,
         \A g \in Handlers \ {h} : run'[g] = run[g],
         UNCHANGED <<marked, sent>>,
         \/ faults' = faults /\ (d \notin marked => MaySend(h, d)) /\ ~MaySend(h, d)'
         \/ faults' = faults + 1 /\ (MaySend(h, d)' => MaySend(h, d))
  PROVE  Paid(d)'
<1>1. /\ Cardinality(Sending(d)) \in Nat /\ Cardinality(Sending(d)') \in Nat
      /\ Cardinality(Sending(d)') <= Cardinality(Sending(d))
      /\ faults' = faults /\ d \notin marked => Cardinality(Sending(d)') <= Cardinality(Sending(d)) - 1
  BY SendingBound DEF TypeOK
<1>2. IsFiniteSet(Waiting) /\ IsFiniteSet(Waiting') /\ Cardinality(Waiting') = Cardinality(Waiting) + 1
  BY WaitingGrows DEF OnceInv
<1>3. /\ Cardinality(Open(d)) \in Nat /\ Cardinality(Open(d)') \in Nat
      /\ Cardinality(Open(d)') = IF d \in marked THEN Cardinality(Open(d)) ELSE Cardinality(Open(d)) + 1
  BY <1>2, OpenSize, OpenSizeNext
<1>4. sent[d] \in Nat /\ faults \in Nat /\ sent[d] + Cardinality(Open(d)) + Cardinality(Sending(d)) <= 1 + faults
  BY DEF TypeOK, OnceInv
<1>5. QED
  BY <1>1, <1>3, <1>4 DEF Paid

(* A copy that is taken from the queue becomes an attempt, or is acked. *)
LEMMA PaidOnBegin ==
  ASSUME TypeOK, OnceInv, NEW h \in Handlers, NEW n \in DOMAIN queue, Begin(h, n),
         NEW d \in Devices
  PROVE  Paid(d)'
<1>1. n \in 0..(MaxAttempts - 1) /\ queue[n] > 0 /\ queue' = [queue EXCEPT ![n] = @ - 1]
  BY DEF Begin, TypeOK
<1>2. IsFiniteSet(Waiting) /\ IsFiniteSet(Waiting') /\ Cardinality(Waiting') = Cardinality(Waiting) - 1
  BY <1>1, WaitingShrinks DEF OnceInv
<1>3. UNCHANGED <<marked, sent, faults>>
  BY DEF Begin
<1>4. /\ Cardinality(Open(d)) \in Nat /\ Cardinality(Open(d)') \in Nat
      /\ Cardinality(Open(d)') = IF d \in marked THEN Cardinality(Open(d)) ELSE Cardinality(Open(d)) - 1
  BY <1>2, <1>3, OpenSize, OpenSizeNext
<1>5. \A g \in Handlers \ {h} : run'[g] = run[g]
  BY ReadViews DEF Becomes
<1>6. d \in marked => (MaySend(h, d)' => MaySend(h, d))
  BY <1>3, ReadViews DEF MaySend, Becomes, Awaits
<1>7. /\ Cardinality(Sending(d)) \in Nat /\ Cardinality(Sending(d)') \in Nat
      /\ Cardinality(Sending(d)') <= Cardinality(Sending(d)) + 1
      /\ d \in marked => Cardinality(Sending(d)') <= Cardinality(Sending(d))
  BY <1>3, <1>5, <1>6, SendingBound
<1>8. sent[d] \in Nat /\ faults \in Nat /\ sent[d] + Cardinality(Open(d)) + Cardinality(Sending(d)) <= 1 + faults
  BY DEF TypeOK, OnceInv
<1>9. QED
  BY <1>3, <1>4, <1>7, <1>8 DEF Paid

(* The queue stays finite. *)
LEMMA StepFinite ==
  ASSUME Typed, OnceInv, [Next]_vars
  PROVE  IsFiniteSet(Waiting')
<1>0. TypeOK /\ IsFiniteSet(Waiting)
  BY DEF Typed, OnceInv
<1>1. ASSUME UNCHANGED queue PROVE IsFiniteSet(Waiting')
  BY <1>0, <1>1 DEF Waiting
<1>2. ASSUME NEW n \in 0..(MaxAttempts - 1), queue' = Requeued(n) PROVE IsFiniteSet(Waiting')
  BY <1>0, <1>2, WaitingGrows
<1>3. ASSUME NEW h \in Handlers, NEW n \in DOMAIN queue, Begin(h, n) PROVE IsFiniteSet(Waiting')
  BY <1>0, <1>3, WaitingShrinks DEF Begin, TypeOK
<1>4. ASSUME NEW h \in Handlers, Retry(h) PROVE IsFiniteSet(Waiting')
  <2>1. CASE run[h].n + 1 >= MaxAttempts
    BY <1>1, <1>4, <2>1 DEF Retry
  <2>2. CASE ~(run[h].n + 1 >= MaxAttempts)
    <3>1. run[h].n + 1 \in 0..(MaxAttempts - 1)
      BY <1>0, <2>2, RunFields, PushAssumption
    <3>2. QED
      BY <1>2, <1>4, <2>2, <3>1 DEF Retry
  <2>3. QED
    BY <2>1, <2>2
<1>5. ASSUME NEW h \in Handlers, Crash(h) \/ Redelivered(h) PROVE IsFiniteSet(Waiting')
  BY <1>0, <1>2, <1>5, RunFields DEF Crash, Redelivered
<1>6. ASSUME NEW h \in Handlers,
             \/ PushSubscriptions(h) \/ DeliveredDestinations(h) \/ MarkDelivered(h)
             \/ Prune(h) \/ MarkFails(h)
      PROVE  UNCHANGED queue
  BY <1>6
  DEF PushSubscriptions, DeliveredDestinations, Settle, MarkDelivered, Prune, MarkFails, event
<1>7. ASSUME NEW h \in Handlers, NEW p \in run[h].pending,
             SendOk(h, p) \/ SendGone(h, p) \/ SendFails(h, p) \/ AnswerLost(h, p)
      PROVE  UNCHANGED queue
  BY <1>7 DEF SendOk, SendGone, SendFails, AnswerLost, event
<1>8. ASSUME \/ LeaseEnds
             \/ \E d \in Devices : Expire(d)
             \/ \E u \in Users :
                  AddUpsert(u) \/ \E d \in Devices : AddRead(u, d) \/ RemovePushSubscription(u, d)
             \/ UNCHANGED vars
      PROVE  UNCHANGED queue
  BY <1>8 DEF LeaseEnds, Expire, AddUpsert, AddRead, RemovePushSubscription, vars, event
<1>9. ASSUME NEW h \in Handlers, PruneFails(h) \/ QueryFails(h) \/ InFlight(h) \/ Conclude(h)
      PROVE  IsFiniteSet(Waiting')
  BY <1>1, <1>4, <1>9 DEF PruneFails, QueryFails, InFlight, Conclude, Throw, Settle
<1>10. QED
  BY <1>1, <1>3, <1>5, <1>6, <1>7, <1>8, <1>9 DEF Next, Step

(* The account of a device, step by step. *)
LEMMA StepPaid ==
  ASSUME Typed, AttemptsOK, OnceInv, [Next]_vars, NEW d \in Devices
  PROVE  Paid(d)'
<1>0. TypeOK /\ \A g \in Handlers : AttemptOK(g)
  BY DEF Typed, AttemptsOK
<1>1. ASSUME UNCHANGED <<queue, run, marked, sent, faults>> PROVE Paid(d)'
  <2>1. Waiting' = Waiting /\ Sending(d)' = Sending(d)
    BY <1>1 DEF Waiting, Sending, MaySend, Awaits
  <2>2. Open(d)' = Open(d)
    BY <1>1, <2>1 DEF Open
  <2>3. QED
    BY <1>1, <2>1, <2>2 DEF Paid, OnceInv
<1>2. ASSUME NEW h \in Handlers, NEW n \in DOMAIN queue, Begin(h, n) PROVE Paid(d)'
  BY <1>0, <1>2, PaidOnBegin
<1>3. ASSUME NEW h \in Handlers, Ends(h), UNCHANGED <<queue, marked, sent, faults>> PROVE Paid(d)'
  <2>1. ~MaySend(h, d)'
    BY <1>3 DEF MaySend, Ends, Becomes
  <2>2. QED
    BY <1>0, <1>3, <2>1, PaidInLoop DEF Ends, Becomes
<1>4. ASSUME NEW h \in Handlers, run[h].pc \notin {"idle", "mark"}, Throw(h) \/ InFlight(h),
             UNCHANGED <<marked, sent, faults>>
      PROVE  Paid(d)'
  <2>0. Retry(h)
    BY <1>4 DEF Throw, InFlight
  <2>1. Ends(h) /\ ~MaySend(h, d)' /\ (d \notin marked => MaySend(h, d))
    BY <1>0, <1>4, EndViews DEF MaySend, Ends, Becomes
  <2>2. CASE run[h].n + 1 >= MaxAttempts
    BY <1>3, <1>4, <2>0, <2>1, <2>2 DEF Retry
  <2>3. CASE ~(run[h].n + 1 >= MaxAttempts)
    <3>1. run[h].n + 1 \in 0..(MaxAttempts - 1)
      BY <1>0, <2>3, RunFields, PushAssumption
    <3>2. queue' = Requeued(run[h].n + 1)
      BY <2>0, <2>3 DEF Retry
    <3>3. QED
      BY <1>0, <1>4, <2>1, <3>1, <3>2, PaidOnReturn DEF Ends, Becomes
  <2>4. QED
    BY <2>2, <2>3
<1>5. ASSUME NEW h \in Handlers, PushSubscriptions(h) PROVE Paid(d)'
  <2>1. run[h].pc = "subs" /\ UNCHANGED <<queue, marked, sent, faults>>
    BY <1>5 DEF PushSubscriptions, Settle, event
  <2>2. CASE Becomes(h, "delivered", ReadNow, run[h].cur, run[h].delivered, run[h].failed)
    <3>1. MaySend(h, d)' => MaySend(h, d)
      BY <2>1, <2>2 DEF MaySend, Becomes
    <3>2. QED
      BY <1>0, <2>1, <2>2, <3>1, PaidInLoop DEF Becomes
  <2>3. QED
    BY <1>0, <1>3, <1>5, <2>1, <2>2, ReadViews
<1>6. ASSUME NEW h \in Handlers, DeliveredDestinations(h) PROVE Paid(d)'
  <2>1. run[h].pc = "delivered" /\ UNCHANGED <<queue, marked, sent, faults>>
    BY <1>6 DEF DeliveredDestinations, Settle, event
  <2>2. CASE Becomes(h, "loop", NotYet(h), run[h].cur, run[h].delivered, run[h].failed)
    <3>1. MaySend(h, d)' => MaySend(h, d)
      BY <2>1, <2>2 DEF MaySend, Becomes, Awaits, NotYet
    <3>2. QED
      BY <1>0, <2>1, <2>2, <3>1, PaidInLoop DEF Becomes
  <2>3. QED
    BY <1>0, <1>3, <1>6, <2>1, <2>2, ReadViews
<1>7. ASSUME NEW h \in Handlers, NEW p \in run[h].pending, SendOk(h, p) PROVE Paid(d)'
  <2>1. Becomes(h, "mark", run[h].pending, p, TRUE, run[h].failed)
    BY <1>0, <1>7, LoopViews
  <2>2. run[h].pc = "loop" /\ UNCHANGED <<queue, marked, faults>> /\ p[1] \in Devices
    BY <1>0, <1>7, RunFields DEF SendOk, event, Pairs
  <2>3. CASE p[1] = d
    <3>1. MaySend(h, d) /\ ~MaySend(h, d)'
      BY <2>1, <2>2, <2>3 DEF MaySend, Becomes, Awaits
    <3>2. sent'[d] = sent[d] + 1
      BY <1>0, <1>7, <2>3 DEF SendOk, TypeOK
    <3>3. QED
      BY <1>0, <2>1, <2>2, <3>1, <3>2, PaidBySender DEF Becomes
  <2>4. CASE p[1] # d
    <3>1. MaySend(h, d)' => MaySend(h, d)
      BY <2>1, <2>2 DEF MaySend, Becomes, Awaits
    <3>2. sent'[d] = sent[d]
      BY <1>0, <1>7, <2>4 DEF SendOk, TypeOK
    <3>3. QED
      BY <1>0, <2>1, <2>2, <3>1, <3>2, PaidInLoop DEF Becomes
  <2>5. QED
    BY <2>3, <2>4
<1>8. ASSUME NEW h \in Handlers, NEW p \in run[h].pending, SendGone(h, p) PROVE Paid(d)'
  <2>1. Becomes(h, "prune", run[h].pending, p, run[h].delivered, run[h].failed)
    BY <1>0, <1>8, LoopViews
  <2>2. run[h].pc = "loop" /\ UNCHANGED <<queue, marked, sent, faults>>
    BY <1>8 DEF SendGone, event
  <2>3. MaySend(h, d)' => MaySend(h, d)
    BY <2>1, <2>2 DEF MaySend, Becomes, Awaits
  <2>4. QED
    BY <1>0, <2>1, <2>2, <2>3, PaidInLoop DEF Becomes
<1>9. ASSUME NEW h \in Handlers, NEW p \in run[h].pending, SendFails(h, p) PROVE Paid(d)'
  <2>1. Becomes(h, "loop", run[h].pending \ {p}, run[h].cur, run[h].delivered, TRUE)
    BY <1>0, <1>9, LoopViews
  <2>2. run[h].pc = "loop" /\ UNCHANGED <<queue, marked, sent, faults>>
    BY <1>9 DEF SendFails, event
  <2>3. MaySend(h, d)' => MaySend(h, d)
    BY <2>1, <2>2 DEF MaySend, Becomes, Awaits
  <2>4. QED
    BY <1>0, <2>1, <2>2, <2>3, PaidInLoop DEF Becomes
<1>10. ASSUME NEW h \in Handlers, NEW p \in run[h].pending, AnswerLost(h, p) PROVE Paid(d)'
  <2>1. Becomes(h, "loop", run[h].pending \ {p}, run[h].cur, run[h].delivered, TRUE)
    BY <1>0, <1>10, LoopViews
  <2>2. run[h].pc = "loop" /\ UNCHANGED <<queue, marked>> /\ faults' = faults + 1
    BY <1>10 DEF AnswerLost, Fault, event
  <2>3. MaySend(h, d)' => MaySend(h, d)
    BY <2>1, <2>2 DEF MaySend, Becomes, Awaits
  <2>4. sent'[d] = sent[d] + 1 \/ sent'[d] = sent[d]
    BY <1>0, <1>10 DEF AnswerLost, TypeOK
  <2>5. QED
    BY <1>0, <2>1, <2>2, <2>3, <2>4, PaidInLoop, PaidBySender DEF Becomes
<1>11. ASSUME NEW h \in Handlers, MarkDelivered(h) \/ Prune(h) PROVE Paid(d)'
  <2>1. Becomes(h, "loop", run[h].pending \ {run[h].cur}, <<>>, run[h].delivered, run[h].failed \/ FALSE)
    BY <1>0, <1>11, NextSubView DEF MarkDelivered, Prune
  <2>2. UNCHANGED <<queue, sent, faults>> /\ marked \subseteq marked'
    BY <1>11 DEF MarkDelivered, Prune, event
  <2>3. MaySend(h, d)' => MaySend(h, d)
    <3>1. CASE MarkDelivered(h)
      <4>1. run[h].pc = "mark" /\ marked' = marked \cup {run[h].cur[1]} /\ AttemptOK(h)
        BY <1>0, <3>1 DEF MarkDelivered
      <4>2. CASE d = run[h].cur[1]
        <5>1. d \in marked' /\ ~Awaits(h, d)'
          BY <2>1, <4>1, <4>2 DEF Becomes, Awaits, AttemptOK
        <5>2. QED
          BY <5>1 DEF MaySend
      <4>3. CASE d # run[h].cur[1]
        BY <2>1, <2>2, <4>1, <4>3 DEF MaySend, Becomes, Awaits
      <4>4. QED
        BY <4>2, <4>3
    <3>2. CASE Prune(h)
      <4>1. run[h].pc = "prune" /\ marked' = marked
        BY <3>2 DEF Prune
      <4>2. QED
        BY <2>1, <4>1 DEF MaySend, Becomes, Awaits
    <3>3. QED
      BY <1>11, <3>1, <3>2
  <2>4. QED
    BY <1>0, <2>1, <2>2, <2>3, PaidInLoop DEF Becomes
<1>12. ASSUME NEW h \in Handlers, MarkFails(h) PROVE Paid(d)'
  <2>1. Becomes(h, "loop", run[h].pending \ {run[h].cur}, <<>>, run[h].delivered, run[h].failed \/ TRUE)
    BY <1>0, <1>12, NextSubView DEF MarkFails
  <2>2. UNCHANGED <<queue, sent, marked>> /\ faults' = faults + 1
    BY <1>12 DEF MarkFails, Fault, event
  <2>3. QED
    BY <1>0, <2>1, <2>2, PaidInLoop DEF Becomes
<1>13. ASSUME NEW h \in Handlers, PruneFails(h) \/ QueryFails(h) \/ InFlight(h) PROVE Paid(d)'
  <2>1. /\ run[h].pc \notin {"idle", "mark"} /\ UNCHANGED <<marked, sent, faults>>
        /\ Throw(h) \/ InFlight(h)
    BY <1>13 DEF PruneFails, QueryFails, InFlight
  <2>2. QED
    BY <1>4, <2>1
<1>14. ASSUME NEW h \in Handlers, Conclude(h) PROVE Paid(d)'
  <2>1. run[h].pc = "loop" /\ UNCHANGED <<marked, sent, faults>>
    BY <1>14 DEF Conclude
  <2>2. Throw(h) \/ \E v : Settle(h, v)
    BY <1>14 DEF Conclude
  <2>3. QED
    BY <1>0, <1>3, <1>4, <2>1, <2>2, EndViews DEF Settle
<1>15. ASSUME NEW h \in Handlers, Crash(h) PROVE Paid(d)'
  <2>1. Ends(h) /\ ~MaySend(h, d)'
    BY <1>0, <1>15, EndViews DEF MaySend, Ends, Becomes
  <2>2. queue' = Requeued(run[h].n) /\ UNCHANGED <<marked, sent>> /\ faults' = faults + 1
    BY <1>15 DEF Crash, Fault
  <2>3. QED
    BY <1>0, <2>1, <2>2, RunFields, PaidOnReturn DEF Ends, Becomes
<1>16. ASSUME NEW h \in Handlers, Redelivered(h) PROVE Paid(d)'
  <2>1. queue' = Requeued(run[h].n) /\ UNCHANGED <<run, marked, sent>> /\ faults' = faults + 1
    BY <1>16 DEF Redelivered, Fault
  <2>2. MaySend(h, d)' => MaySend(h, d)
    BY <2>1 DEF MaySend, Awaits
  <2>3. QED
    BY <1>0, <2>1, <2>2, RunFields, PaidOnReturn
<1>17. ASSUME \/ LeaseEnds
              \/ \E e \in Devices : Expire(e)
              \/ \E u \in Users :
                   AddUpsert(u) \/ \E e \in Devices : AddRead(u, e) \/ RemovePushSubscription(u, e)
              \/ UNCHANGED vars
       PROVE  Paid(d)'
  BY <1>1, <1>17 DEF LeaseEnds, Expire, AddUpsert, AddRead, RemovePushSubscription, vars, event
<1>18. QED
  BY <1>2, <1>5, <1>6, <1>7, <1>8, <1>9, <1>10, <1>11, <1>12, <1>13, <1>14, <1>15, <1>16, <1>17
  DEF Next, Step

----------------------------------------------------------------------------
(* The theorems *)

LEMMA InitPushInv == Init => PushInv
<1>1. SUFFICES ASSUME Init PROVE PushInv
  OBVIOUS
<1>2. PICK S \in SUBSET Devices :
        /\ row = [d \in Devices |-> IF d \in S THEN [user |-> Owner, id |-> 0] ELSE NoSub]
        /\ stayed = S
  BY <1>1 DEF Init
<1>3. TypeOK /\ IsFiniteSet(gone)
  <2>1. row \in [Devices -> SubRecord]
    BY <1>2, PushAssumption DEF SubRecord, NoSub
  <2>2. stayed \subseteq Registered
    BY <1>2 DEF Registered
  <2>3. run \in [Handlers -> RunRecord]
    BY <1>1, IdleTyped DEF Init
  <2>4. queue \in [0..(MaxAttempts - 1) -> Nat]
    BY <1>1 DEF Init
  <2>5. configured \in BOOLEAN /\ claim \in BOOLEAN
    BY <1>1, Zenon DEF Init
  <2>6. adding \in [Users -> Devices \cup {None}] /\ sent \in [Devices -> Nat]
    BY <1>1 DEF Init
  <2>7. QED
    BY <1>1, <2>1, <2>2, <2>3, <2>4, <2>5, <2>6, PushAssumption, FS_EmptySet DEF Init, TypeOK
<1>4. AttemptsOK /\ MarkedIsSent /\ NoDeviceForgotten /\ SentIsRecorded
  BY <1>1 DEF Init, AttemptsOK, AttemptOK, Idle, MarkedIsSent, NoDeviceForgotten, SentIsRecorded
<1>5. OnceInv
  <2>1. Waiting = {<<0, 1>>}
    <3>1. \A n \in 0..(MaxAttempts - 1) : queue[n] = IF n = 0 THEN 1 ELSE 0
      BY <1>1 DEF Init
    <3>2. 0 \in 0..(MaxAttempts - 1)
      BY PushAssumption
    <3>3. QED
      BY <3>1, <3>2 DEF Waiting
  <2>2. IsFiniteSet(Waiting) /\ Cardinality(Waiting) = 1
    BY <2>1, FS_Singleton
  <2>3. \A d \in Devices : Sending(d) = {}
    BY <1>1 DEF Init, Sending, MaySend, Idle
  <2>4. \A d \in Devices : Open(d) = Waiting /\ sent[d] = 0
    BY <1>1 DEF Init, Open
  <2>5. IsFiniteSet({}) /\ Cardinality({}) = 0 /\ faults = 0
    BY <1>1, FS_EmptySet DEF Init
  <2>6. ASSUME NEW d \in Devices
        PROVE  /\ IsFiniteSet(Sending(d))
               /\ sent[d] + Cardinality(Open(d)) + Cardinality(Sending(d)) <= 1 + faults
    <3>1. Sending(d) = {} /\ Open(d) = Waiting /\ sent[d] = 0
      BY <2>3, <2>4
    <3>2. Cardinality(Sending(d)) = 0 /\ Cardinality(Open(d)) = 1 /\ IsFiniteSet(Sending(d))
      BY <3>1, <2>2, <2>5
    <3>3. QED
      BY <3>1, <3>2, <2>5
  <2>7. QED
    BY <2>2, <2>6 DEF OnceInv
<1>6. QED
  BY <1>3, <1>4, <1>5 DEF PushInv

LEMMA StepPushInv == PushInv /\ [Next]_vars => PushInv'
<1>1. SUFFICES ASSUME PushInv, [Next]_vars PROVE PushInv'
  OBVIOUS
<1>2. /\ Typed /\ TypeOK /\ AttemptsOK /\ MarkedIsSent
      /\ NoDeviceForgotten /\ SentIsRecorded /\ OnceInv
  BY <1>1 DEF PushInv, Typed
<1>3. Typed' /\ AttemptsOK' /\ MarkedIsSent' /\ NoDeviceForgotten' /\ SentIsRecorded'
  BY <1>1, <1>2, StepTyped, StepAttempts, StepMarked, StepVerdict
<1>4. OnceInv'
  BY <1>1, <1>2, StepFinite, StepPaid DEF OnceInv, Paid
<1>5. QED
  BY <1>3, <1>4 DEF PushInv, Typed

(* The state of registrations, attempts and queue keeps its type, whatever *)
(* fails in send, dispatch or addPushSubscription.                         *)
THEOREM TypeCorrect == Spec => []TypeOK
<1>1. PushInv => TypeOK
  BY DEF PushInv
<1>2. QED
  BY <1>1, InitPushInv, StepPushInv, PTL DEF Spec

(* deliveredTo does its work for any number of devices, attempts and       *)
(* overlapping attempts: WebPushChannel.send alerts a device once, and     *)
(* once more for each fault at most.                                       *)
THEOREM DevicesAlertedOnce == Spec => []AlertedOnce
<1>1. PushInv => AlertedOnce
  <2>1. SUFFICES ASSUME PushInv, NEW d \in Devices PROVE sent[d] <= 1 + faults
    BY DEF AlertedOnce
  <2>2. IsFiniteSet(Waiting) /\ sent[d] \in Nat /\ faults \in Nat
    BY <2>1 DEF PushInv, OnceInv, TypeOK
  <2>3. Cardinality(Open(d)) \in Nat
    BY <2>2, OpenSize
  <2>4. Cardinality(Sending(d)) \in Nat
    <3>1. Sending(d) \subseteq Handlers
      BY DEF Sending
    <3>2. QED
      BY <3>1, PushAssumption, FS_Subset, FS_CardinalityType
  <2>5. QED
    BY <2>1, <2>2, <2>3, <2>4 DEF PushInv, OnceInv
<1>2. QED
  BY <1>1, InitPushInv, StepPushInv, PTL DEF Spec

(* The loop of send leaves no device out: one that was registered all      *)
(* along has been sent the alert when the event is settled.                *)
THEOREM EveryDeviceServed == Spec => []NoDeviceForgotten
<1>1. PushInv => NoDeviceForgotten
  BY DEF PushInv
<1>2. QED
  BY <1>1, InitPushInv, StepPushInv, PTL DEF Spec

(* A row that says SENT has the devices on record, so that a copy of the   *)
(* event that comes later sends to none of them: for any number of         *)
(* devices, attempts and lost writes.                                      *)
THEOREM SentOnRecord == Spec => []SentIsRecorded
<1>1. PushInv => SentIsRecorded
  BY DEF PushInv
<1>2. QED
  BY <1>1, InitPushInv, StepPushInv, PTL DEF Spec

=============================================================================
