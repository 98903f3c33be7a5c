------------------------------ MODULE Delivery ------------------------------
(***************************************************************************)
(* The notifier: one (eventId, channel) delivery carried by any number of  *)
(* message copies through the main queue, the ladder of retry queues and   *)
(* the dead queue (rabbit-consumer.service.ts), claimed as a lease in the  *)
(* Notification table before the channel is called and settled after it    *)
(* (notifier.service.ts, prisma-delivery-log.repository.ts).               *)
(*                                                                         *)
(* A handler is one run of RabbitConsumerService.handle; each await in it  *)
(* is a step of its own.  Time is relative: a claim and an attempt carry   *)
(* their age, a message in a retry queue the time it still waits.          *)
(***************************************************************************)
EXTENDS Integers, Sequences, FiniteSets

CONSTANTS
  Deliveries,     \* (eventId, channel) pairs
  Malformed,      \* the deliveries whose body is not JSON
  Copies,         \* identities of the broker's message copies (bounds them)
  Handlers,       \* identities of concurrent handler runs (bounds them)
  Stages,         \* retryDelaysMs.length
  Delay,          \* the TTL of each retry queue, in ticks
  Lease,          \* CLAIM_LEASE_MS, in ticks
  AttemptBound,   \* how long one attempt can last from claim to settle
  DeadMax,        \* NOTIFIER_DEAD_QUEUE_MAX
  MaxPublishes,   \* how often the relay publishes one delivery
  MaxReplays,     \* how many parked messages an operator replays
  FaultKinds,     \* the kinds of fault this instance is exposed to
  MaxFaults,      \* how many of them happen
  None

AllFaults == {"crash", "channel", "database", "broker", "wipe"}

ASSUME DeliveryAssumption ==
  /\ Malformed \subseteq Deliveries
  /\ Stages \in Nat
  /\ Delay \in [1..Stages -> Nat]
  /\ Lease \in Nat
  /\ AttemptBound \in Nat
  /\ DeadMax \in Nat \ {0}
  /\ MaxPublishes \in Nat
  /\ MaxReplays \in Nat
  /\ FaultKinds \subseteq AllFaults
  /\ MaxFaults \in Nat
  /\ None \notin Deliveries \cup Copies \cup Handlers

VARIABLES
  copy,       \* the broker: where each message copy is
  dead,       \* the dead queue, oldest first
  hs,         \* the handlers
  row,        \* the Notification row of each delivery
  published,  \* how often each delivery was published
  replays,    \* replays so far
  faults,     \* faults so far
  settledSent, dropped, wiped, demoted   \* history, read by properties only

broker  == <<copy, dead>>
history == <<settledSent, dropped, wiped, demoted>>
vars    == <<copy, dead, hs, row, published, replays, faults, history>>

----------------------------------------------------------------------------
(* State *)

Places    == {"free", "main", "held", "retry", "dead"}
Statuses  == {"ABSENT", "PENDING", "SENT", "FAILED"}
Errors    == {"none", "retryable", "permanent"}
(* From the claim to the settle or the release: the steps a lease covers. *)
ClaimPcs  == {"create", "takeover", "read"}
OwnerPcs  == {"send", "settleSent", "release"}
Pcs       == {"idle", "settleFailed", "park", "republish", "ack", "stuck"}
               \cup ClaimPcs \cup OwnerPcs

Unclaimed == -1                         \* claimedAt = null
AgeCap    == Lease + AttemptBound + 1   \* ages beyond it are not told apart

CopyRecord == [at: Places, of: Deliveries \cup {None}, attempts: 0..Stages,
               wait: Nat, by: Handlers \cup {None}]
HandlerRecord == [pc: Pcs, of: Deliveries \cup {None}, attempts: 0..Stages,
                  age: 0..AttemptBound, err: Errors]
RowRecord == [status: Statuses, age: Unclaimed..AgeCap]

FreeCopy == [at |-> "free", of |-> None, attempts |-> 0, wait |-> 0, by |-> None]
Idle     == [pc |-> "idle", of |-> None, attempts |-> 0, age |-> 0, err |-> "none"]
NoRow    == [status |-> "ABSENT", age |-> Unclaimed]

InMain(d, n) ==
  [at |-> "main", of |-> d, attempts |-> n, wait |-> 0, by |-> None]
InRetry(d, n) ==
  [at |-> "retry", of |-> d, attempts |-> n, wait |-> Delay[n], by |-> None]
(* Parks with the number of this attempt, not of the ones before it. *)
MutInDead(d, n) ==
  [at |-> "dead", of |-> d, attempts |-> n + 1, wait |-> 0, by |-> None]

InDead(d, n) ==
  [at |-> "dead", of |-> d, attempts |-> n, wait |-> 0, by |-> None]

FreeCopies == {c \in Copies : copy[c].at = "free"}
Holds(h, c) == copy[c].at = "held" /\ copy[c].by = h
HeldBy(h)  == {c \in Copies : Holds(h, c)}

Init ==
  /\ copy = [c \in Copies |-> FreeCopy]
  /\ dead = <<>>
  /\ hs = [h \in Handlers |-> Idle]
  /\ row = [d \in Deliveries |-> NoRow]
  /\ published = [d \in Deliveries |-> 0]
  /\ replays = 0
  /\ faults = 0
  /\ settledSent = {} /\ dropped = {} /\ wiped = {} /\ demoted = {}

Fault(kind) ==
  /\ kind \in FaultKinds
  /\ faults < MaxFaults
  /\ faults' = faults + 1

(* The handler's next step; an attempt that is over forgets age and error. *)
Goto(h, pc) ==
  hs' = [hs EXCEPT ![h] = IF pc \in ClaimPcs \cup OwnerPcs
                          THEN [@ EXCEPT !.pc = pc]
                          ELSE [@ EXCEPT !.pc = pc, !.age = 0, !.err = "none"]]

----------------------------------------------------------------------------
(* RabbitConsumerService: consuming and the outcome of a failed attempt *)

(* One attempt more than there are stages to wait in. *)
MutMaxAttempts == Stages + 2

MaxAttempts == Stages + 1

(* handleFailure up to its first await: settle and park, or climb a stage. *)
AfterFailure(h, err) ==
  IF err = "permanent" \/ hs[h].attempts + 1 >= MaxAttempts
  THEN "settleFailed" ELSE "republish"

(* process: an unparseable body is parked, anything else is dispatched. *)
Receive(h) ==
  /\ hs[h].pc = "idle"
  /\ \E c \in Copies :
       /\ copy[c].at = "main"
       /\ copy' = [copy EXCEPT ![c].at = "held", ![c].by = h]
       /\ hs' = [hs EXCEPT ![h] =
                   [pc |-> IF copy[c].of \in Malformed THEN "park" ELSE "create",
                    of |-> copy[c].of, attempts |-> copy[c].attempts,
                    age |-> 0, err |-> "none"]]
  /\ UNCHANGED <<dead, row, published, replays, faults, history>>

(* The catch of handle: the run ends and its message stays unacked. *)
LeaveUnacked(h) ==
  /\ hs' = [hs EXCEPT ![h] = IF HeldBy(h) = {} THEN Idle ELSE [@ EXCEPT !.pc = "stuck"]]
  /\ UNCHANGED copy

(* An ack on a channel that has dropped since acknowledges nothing. *)
Ack(h) ==
  /\ hs[h].pc = "ack"
  /\ copy' = [c \in Copies |-> IF Holds(h, c) THEN FreeCopy ELSE copy[c]]
  /\ hs' = [hs EXCEPT ![h] = Idle]
  /\ UNCHANGED <<dead, row, published, replays, faults, history>>

(* republish onto the stage of this attempt; no queue is bound beyond the  *)
(* last stage, and the exchange drops what it cannot route.                *)
Republish(h) ==
  /\ hs[h].pc = "republish"
  /\ LET n == hs[h].attempts + 1 IN
       IF n \in 1..Stages
       THEN \E c \in FreeCopies : copy' = [copy EXCEPT ![c] = InRetry(hs[h].of, n)]
       ELSE UNCHANGED copy
  /\ Goto(h, "ack")
  /\ UNCHANGED <<dead, row, published, replays, faults, history>>

(* A dead queue declared without a ceiling. *)
MutPark(h) ==
  /\ hs[h].pc = "park"
  /\ \E c \in FreeCopies :
       /\ copy' = [copy EXCEPT ![c] = InDead(hs[h].of, hs[h].attempts)]
       /\ dead' = Append(dead, c)
  /\ Goto(h, "ack")
  /\ UNCHANGED <<row, published, replays, faults, history>>

(* park: the dead queue keeps at most DeadMax messages, oldest out first. *)
Park(h) ==
  /\ hs[h].pc = "park"
  /\ \E c \in FreeCopies :
       LET parked == InDead(hs[h].of, hs[h].attempts) IN
       IF Len(dead) < DeadMax
       THEN /\ copy' = [copy EXCEPT ![c] = parked]
            /\ dead' = Append(dead, c)
            /\ UNCHANGED dropped
       ELSE /\ copy' = [copy EXCEPT ![c] = parked, ![Head(dead)] = FreeCopy]
            /\ dead' = Append(Tail(dead), c)
            /\ dropped' = dropped \cup {copy[Head(dead)].of}
  /\ Goto(h, "ack")
  /\ UNCHANGED <<row, published, replays, faults, settledSent, wiped, demoted>>

(* The broker refuses the publish of a republish or a park. *)
PublishError(h) ==
  /\ hs[h].pc \in {"republish", "park"}
  /\ Fault("broker")
  /\ LeaveUnacked(h)
  /\ UNCHANGED <<dead, row, published, replays, history>>

----------------------------------------------------------------------------
(* PrismaDeliveryLogRepository.claim, one step per query *)

(* The age the claim has when a handler whose attempt began age ticks ago  *)
(* writes it: claimedAt is read before the first query.                    *)
ClaimRow(age) == [status |-> "PENDING", age |-> age]

(* Takes a live claim over; takes a settled delivery over. *)
MutTakeableLive(r, age) == r.status \notin {"ABSENT", "SENT"}

MutTakeableSent(r, age) ==
  r.status # "ABSENT" /\ (r.age = Unclaimed \/ r.age > age + Lease)

(* claimedAt < leaseCutoff, both dated by the claiming attempt's clock *)
Takeable(r, age) ==
  /\ r.status \notin {"ABSENT", "SENT"}
  /\ r.age = Unclaimed \/ r.age > age + Lease

Create(h) ==
  /\ hs[h].pc = "create"
  /\ \/ /\ row[hs[h].of].status = "ABSENT"
        /\ row' = [row EXCEPT ![hs[h].of] = ClaimRow(hs[h].age)]
        /\ Goto(h, "send")
     \/ /\ row[hs[h].of].status # "ABSENT"
        /\ Goto(h, "takeover")
        /\ UNCHANGED row
  /\ UNCHANGED <<broker, published, replays, faults, history>>

Takeover(h) ==
  /\ hs[h].pc = "takeover"
  /\ \/ /\ Takeable(row[hs[h].of], hs[h].age)
        /\ row' = [row EXCEPT ![hs[h].of] = ClaimRow(hs[h].age)]
        /\ Goto(h, "send")
     \/ /\ ~Takeable(row[hs[h].of], hs[h].age)
        /\ Goto(h, "read")
        /\ UNCHANGED row
  /\ UNCHANGED <<broker, published, replays, faults, history>>

(* A vanished row is claimed, a SENT one is a duplicate to ack, any other  *)
(* is in flight: a retryable error.                                        *)
ReadClaim(h) ==
  /\ hs[h].pc = "read"
  /\ Goto(h, CASE row[hs[h].of].status = "ABSENT" -> "send"
               [] row[hs[h].of].status = "SENT"   -> "ack"
               [] OTHER                           -> AfterFailure(h, "retryable"))
  /\ UNCHANGED <<broker, row, published, replays, faults, history>>

ClaimError(h) ==
  /\ hs[h].pc \in ClaimPcs
  /\ Fault("database")
  /\ Goto(h, AfterFailure(h, "retryable"))
  /\ UNCHANGED <<broker, row, published, replays, history>>

----------------------------------------------------------------------------
(* NotifierService.dispatch: the channel call and what follows it *)

SendSucceeds(h) ==
  /\ hs[h].pc = "send"
  /\ Goto(h, "settleSent")
  /\ UNCHANGED <<broker, row, published, replays, faults, history>>

SendFails(h) ==
  /\ hs[h].pc = "send"
  /\ \E err \in {"retryable", "permanent"} :
       hs' = [hs EXCEPT ![h].pc = "release", ![h].err = err]
  /\ UNCHANGED <<broker, row, published, replays, faults, history>>

(* releaseClaim is not tied to the claim it was given: it frees whatever   *)
(* PENDING row it finds.                                                   *)
Released(r) == IF r.status = "PENDING" THEN [r EXCEPT !.age = Unclaimed] ELSE r

Release(h) ==
  /\ hs[h].pc = "release"
  /\ row' = [row EXCEPT ![hs[h].of] = Released(@)]
  /\ Goto(h, AfterFailure(h, hs[h].err))
  /\ UNCHANGED <<broker, published, replays, faults, history>>

ReleaseError(h) ==
  /\ hs[h].pc = "release"
  /\ Fault("database")
  /\ Goto(h, AfterFailure(h, hs[h].err))
  /\ UNCHANGED <<broker, row, published, replays, history>>

(* settle: an upsert that leaves claimedAt alone and asks for no status. *)
Settled(r, status) == [r EXCEPT !.status = status]

SettleSent(h) ==
  /\ hs[h].pc = "settleSent"
  /\ row' = [row EXCEPT ![hs[h].of] = Settled(@, "SENT")]
  /\ settledSent' = settledSent \cup {hs[h].of}
  /\ Goto(h, "ack")
  /\ UNCHANGED <<broker, published, replays, faults, dropped, wiped, demoted>>

SettleSentError(h) ==
  /\ hs[h].pc = "settleSent"
  /\ Fault("database")
  /\ Goto(h, AfterFailure(h, "retryable"))
  /\ UNCHANGED <<broker, row, published, replays, history>>

SettleFailed(h) ==
  /\ hs[h].pc = "settleFailed"
  /\ row' = [row EXCEPT ![hs[h].of] = Settled(@, "FAILED")]
  /\ demoted' = IF row[hs[h].of].status = "SENT" THEN demoted \cup {hs[h].of} ELSE demoted
  /\ Goto(h, "park")
  /\ UNCHANGED <<broker, published, replays, faults, settledSent, dropped, wiped>>

SettleFailedError(h) ==
  /\ hs[h].pc = "settleFailed"
  /\ Fault("database")
  /\ LeaveUnacked(h)
  /\ UNCHANGED <<dead, row, published, replays, history>>

----------------------------------------------------------------------------
(* The environment: the relay, the broker, operators, crashes and time *)

Publish(d) ==
  /\ published[d] < MaxPublishes
  /\ \E c \in FreeCopies : copy' = [copy EXCEPT ![c] = InMain(d, 0)]
  /\ published' = [published EXCEPT ![d] = @ + 1]
  /\ UNCHANGED <<dead, hs, row, replays, faults, history>>

(* Forgets x-attempts on the way back. *)
MutExpireHeader(c) ==
  /\ copy[c].at = "retry"
  /\ copy[c].wait = 0
  /\ copy' = [copy EXCEPT ![c] = InMain(copy[c].of, 0)]
  /\ UNCHANGED <<dead, hs, row, published, replays, faults, history>>

(* The TTL of a retry queue dead-letters back to the main queue. *)
Expire(c) ==
  /\ copy[c].at = "retry"
  /\ copy[c].wait = 0
  /\ copy' = [copy EXCEPT ![c] = InMain(copy[c].of, copy[c].attempts)]
  /\ UNCHANGED <<dead, hs, row, published, replays, faults, history>>

(* An operator takes the oldest parked message and publishes its body on   *)
(* the main exchange without the x-attempts header.                        *)
Replay ==
  /\ dead # <<>>
  /\ replays < MaxReplays
  /\ copy' = [copy EXCEPT ![Head(dead)] = InMain(copy[Head(dead)].of, 0)]
  /\ dead' = Tail(dead)
  /\ replays' = replays + 1
  /\ UNCHANGED <<hs, row, published, faults, history>>

(* Every unacked message goes back to the main queue. *)
Requeue(h) ==
  copy' = [c \in Copies |-> IF Holds(h, c)
                            THEN InMain(copy[c].of, copy[c].attempts) ELSE copy[c]]

(* The process dies, or the drain timeout passes with the handler running. *)
Crash(h) ==
  /\ hs[h].pc # "idle"
  /\ Fault("crash")
  /\ Requeue(h)
  /\ hs' = [hs EXCEPT ![h] = Idle]
  /\ UNCHANGED <<dead, row, published, replays, history>>

(* The channel drops under a live process: the handler runs on without it. *)
ChannelDrop(h) ==
  /\ HeldBy(h) # {}
  /\ Fault("channel")
  /\ Requeue(h)
  /\ hs' = [hs EXCEPT ![h] = IF @.pc = "stuck" THEN Idle ELSE @]
  /\ UNCHANGED <<dead, row, published, replays, history>>

(* NotificationsService removes history rows whatever their status. *)
Wipe(d) ==
  /\ row[d].status # "ABSENT"
  /\ Fault("wipe")
  /\ row' = [row EXCEPT ![d] = NoRow]
  /\ wiped' = wiped \cup {d}
  /\ UNCHANGED <<broker, hs, published, replays, settledSent, dropped, demoted>>

InAttempt(h) == hs[h].pc \in ClaimPcs \cup OwnerPcs

Tick ==
  /\ \A h \in Handlers : InAttempt(h) => hs[h].age < AttemptBound
  /\ hs' = [h \in Handlers |-> IF InAttempt(h) THEN [hs[h] EXCEPT !.age = @ + 1]
                                               ELSE hs[h]]
  /\ row' = [d \in Deliveries |->
               IF row[d].age \in 0..(AgeCap - 1) THEN [row[d] EXCEPT !.age = @ + 1]
                                                 ELSE row[d]]
  /\ copy' = [c \in Copies |-> IF copy[c].wait > 0 THEN [copy[c] EXCEPT !.wait = @ - 1]
                                                   ELSE copy[c]]
  /\ UNCHANGED <<dead, published, replays, faults, history>>

----------------------------------------------------------------------------
HandlerStep(h) ==
  \/ Create(h) \/ Takeover(h) \/ ReadClaim(h)
  \/ SendSucceeds(h) \/ SendFails(h) \/ Release(h)
  \/ SettleSent(h) \/ SettleFailed(h)
  \/ Republish(h) \/ Park(h) \/ Ack(h)

HandlerFault(h) ==
  \/ ClaimError(h) \/ ReleaseError(h) \/ SettleSentError(h)
  \/ SettleFailedError(h) \/ PublishError(h) \/ Crash(h) \/ ChannelDrop(h)

Next ==
  \/ \E h \in Handlers : Receive(h) \/ HandlerStep(h) \/ HandlerFault(h)
  \/ \E d \in Deliveries : Publish(d) \/ Wipe(d)
  \/ \E c \in Copies : Expire(c)
  \/ Replay
  \/ Tick

Spec == Init /\ [][Next]_vars

----------------------------------------------------------------------------
(* Properties *)

(* Every variable keeps its type: no x-attempts header goes beyond the     *)
(* retry ladder and no attempt outlasts its bound.                         *)
TypeOK ==
  /\ copy \in [Copies -> CopyRecord]
  /\ dead \in Seq(Copies)
  /\ hs \in [Handlers -> HandlerRecord]
  /\ row \in [Deliveries -> RowRecord]
  /\ published \in [Deliveries -> 0..MaxPublishes]
  /\ replays \in 0..MaxReplays
  /\ faults \in 0..MaxFaults
  /\ settledSent \subseteq Deliveries /\ dropped \subseteq Deliveries
  /\ wiped \subseteq Deliveries /\ demoted \subseteq Deliveries

(* A published alert is never lost without a trace: whatever crashes,      *)
(* dropped channels and failing writes intervene, a copy of it is still in *)
(* some queue or with a handler, or it was settled SENT, or the full dead  *)
(* queue pushed it out.  (handle's catch: "Acking here would drop an alert *)
(* whose outcome was never recorded".)                                     *)
NoSilentLoss ==
  \A d \in Deliveries : published[d] > 0 =>
    \/ \E c \in Copies : copy[c].at # "free" /\ copy[c].of = d
    \/ d \in settledSent \cup dropped

(* The lease is exclusive: between claiming a delivery and settling or     *)
(* releasing it, a handler is alone with it, provided its row was not      *)
(* removed from the history (claim answers 'claimed' for a vanished row).  *)
Owners(d) == {h \in Handlers : hs[h].pc \in OwnerPcs /\ hs[h].of = d}

OneSender ==
  \A d \in Deliveries \ wiped : \A g, h \in Owners(d) : g = h

(* Once a delivery is settled SENT no handler is in its channel call       *)
(* again, as long as its row is neither removed from the history nor       *)
(* overwritten by a late settle(FAILED).                                   *)
SentIsFinal ==
  \A d \in settledSent \ (wiped \cup demoted) :
    row[d].status = "SENT" /\ Owners(d) = {}

(* The dead queue holds exactly the parked copies, each once, and no more  *)
(* than the ceiling that keeps it from filling the broker's disk.          *)
DeadQueueBounded ==
  /\ Len(dead) <= DeadMax
  /\ \A c \in Copies : copy[c].at = "dead" <=> \E i \in 1..Len(dead) : dead[i] = c
  /\ \A i, j \in 1..Len(dead) : dead[i] = dead[j] => i = j

(* The ADR on the claim: "Replaying a dead-lettered message is safe: one   *)
(* that in fact succeeded before is skipped rather than delivered twice."  *)
(* No handler starts a channel call for a delivery that was settled SENT.  *)
ReplayIsSafe ==
  [][\A h \in Handlers :
       hs'[h].pc = "send" /\ hs[h].pc # "send" => hs[h].of \notin settledSent]_vars

(* What an alert may come to: acked or parked copies, or ones a handler    *)
(* left unacked on purpose; when those hold every slot of the prefetch the *)
(* consumer stops until its channel drops.                                 *)
AtRest(c) ==
  \/ copy[c].at \in {"free", "dead"}
  \/ copy[c].at = "held" /\ hs[copy[c].by].pc = "stuck"

Stalled == \A h \in Handlers : hs[h].pc = "stuck"
=============================================================================
