----------------------------- MODULE PushFanout -----------------------------
(***************************************************************************)
(* One alert on the WEB_PUSH channel: WebPushChannel.send goes through the *)
(* browsers its user registered, records each one it reached in the row's  *)
(* deliveredTo, prunes the ones the push service no longer knows, and      *)
(* throws when any of the others failed, which retries the whole event.    *)
(* Meanwhile users register and remove endpoints (UsersService).           *)
(*                                                                         *)
(* The claim and the retry ladder are Delivery's; what is kept of them is  *)
(* whether a claim is live and how many copies wait with how many attempts.*)
(* A subscription's keys are data and left out.                            *)
(***************************************************************************)
EXTENDS Integers, FiniteSets

CONSTANTS
  Devices,      \* push endpoints
  Users,        \* users that register them
  Owner,        \* the user the alert is for
  Handlers,     \* attempts running at once (bounds them)
  MaxAttempts,  \* attempts before the event is parked
  MaxEvents,    \* bounds registrations, expiries and faults together
  None

ASSUME PushAssumption ==
  /\ Owner \in Users
  /\ MaxAttempts \in Nat \ {0} /\ MaxEvents \in Nat
  /\ IsFiniteSet(Handlers)
  /\ None \notin Users \cup Devices

VARIABLES
  configured,  \* the VAPID keys are set
  row,         \* the PushSubscription rows: user and row id
  adding,      \* addPushSubscription between its two statements
  adds,        \* registrations so far; a row's id is its number
  gone,        \* endpoints the push service answers 404 or 410 for
  queue,       \* waiting copies of the event, by attempts made
  run,         \* the attempts
  claim,       \* claimedAt is set and its lease is running
  verdict,     \* what the Notification row says, and why
  marked,      \* deliveredTo
  sent,        \* alerts each endpoint was sent
  faults,      \* crashes, copies handed out again and lost writes
  stayed       \* history: the owner's endpoints since before the event

subs    == <<row, adding, adds>>
event   == <<queue, claim, verdict>>
vars    == <<configured, subs, gone, event, run, marked, sent, faults, stayed>>

NoSub == [user |-> None, id |-> 0]
Idle  == [pc |-> "idle", n |-> 0, pending |-> {}, cur |-> <<>>,
          delivered |-> FALSE, failed |-> FALSE]

Init ==
  /\ configured \in BOOLEAN
  /\ \E S \in SUBSET Devices :
       /\ row = [d \in Devices |-> IF d \in S THEN [user |-> Owner, id |-> 0] ELSE NoSub]
       /\ stayed = S
  /\ adding = [u \in Users |-> None] /\ adds = 0
  /\ gone = {}
  /\ queue = [n \in 0..(MaxAttempts - 1) |-> IF n = 0 THEN 1 ELSE 0]
  /\ run = [h \in Handlers |-> Idle]
  /\ claim = FALSE /\ verdict = "open"
  /\ marked = {} /\ sent = [d \in Devices |-> 0]
  /\ faults = 0

Room  == adds + faults + Cardinality(gone) < MaxEvents
Fault == Room /\ faults' = faults + 1

----------------------------------------------------------------------------
(* UsersService *)

MayRegister(u, d) == row[d].user \in {None, u}

(* findUnique: an endpoint of another user is refused. *)
AddRead(u, d) ==
  /\ adding[u] = None /\ Room /\ adds' = adds + 1
  /\ MayRegister(u, d)
  /\ adding' = [adding EXCEPT ![u] = d]
  /\ UNCHANGED <<configured, row, gone, event, run, marked, sent, faults, stayed>>

(* upsert: a row that is there keeps its user, whoever that is by now. *)
Upserted(u, d) == IF row[d].user = None THEN [user |-> u, id |-> adds] ELSE row[d]

AddUpsert(u) ==
  /\ adding[u] # None
  /\ row' = [row EXCEPT ![adding[u]] = Upserted(u, adding[u])]
  /\ adding' = [adding EXCEPT ![u] = None]
  /\ UNCHANGED <<configured, adds, gone, event, run, marked, sent, faults, stayed>>

Removed(d) ==
  /\ row' = [row EXCEPT ![d] = NoSub]
  /\ stayed' = stayed \ {d}
  /\ UNCHANGED <<adding, adds>>

RemovePushSubscription(u, d) ==
  /\ row[d].user = u
  /\ Removed(d)
  /\ UNCHANGED <<configured, gone, event, run, marked, sent, faults>>

(* The browser unsubscribes: its endpoint never works again. *)
Expire(d) ==
  /\ d \notin gone /\ Room
  /\ gone' = gone \cup {d}
  /\ UNCHANGED <<configured, subs, event, run, marked, sent, faults, stayed>>

----------------------------------------------------------------------------
(* The attempt around the channel: NotifierService and the consumer *)

Goto(h, r) == run' = [run EXCEPT ![h] = r]

Requeued(n) == [queue EXCEPT ![n] = @ + 1]

(* A copy is taken from its queue; one of a delivered event is acked, and  *)
(* one that meets a live claim fails.                                      *)
Begin(h, n) ==
  /\ run[h].pc = "idle" /\ queue[n] > 0
  /\ queue' = [queue EXCEPT ![n] = @ - 1]
  /\ \/ verdict = "sent" /\ UNCHANGED <<claim, verdict, run>>
     \/ /\ verdict # "sent" /\ ~claim
        /\ claim' = TRUE /\ verdict' = "open"
        /\ Goto(h, [Idle EXCEPT !.pc = "subs", !.n = n])
     \/ /\ verdict # "sent" /\ claim
        /\ Goto(h, [Idle EXCEPT !.pc = "inflight", !.n = n])
        /\ UNCHANGED <<claim, verdict>>
  /\ UNCHANGED <<configured, subs, gone, marked, sent, faults, stayed>>

(* The lease runs out, whatever its holder does. *)
LeaseEnds ==
  /\ claim /\ claim' = FALSE
  /\ UNCHANGED <<configured, subs, gone, queue, verdict, run, marked, sent, faults, stayed>>

(* releaseClaim is best effort and frees a PENDING row, whoever claimed    *)
(* it; other rows keep theirs.                                             *)
Release == claim' \in {claim} \cup (IF verdict = "open" THEN {FALSE} ELSE {})

(* Sent, or failed for good; settle itself leaves the claim alone. *)
Settle(h, v) ==
  /\ verdict' = v
  /\ IF v = "sent" THEN UNCHANGED claim ELSE Release
  /\ Goto(h, Idle)
  /\ UNCHANGED queue

(* The copy is parked, but the row left as it is. *)
MutRetry(h) ==
  /\ queue' = IF run[h].n + 1 >= MaxAttempts THEN queue ELSE Requeued(run[h].n + 1)
  /\ Goto(h, Idle)
  /\ UNCHANGED verdict

(* handleFailure: the event is retried or, after the last attempt, settled *)
(* as FAILED.                                                              *)
Retry(h) ==
  /\ IF run[h].n + 1 >= MaxAttempts
     THEN verdict' = "exhausted" /\ UNCHANGED queue
     ELSE queue' = Requeued(run[h].n + 1) /\ UNCHANGED verdict
  /\ Goto(h, Idle)

(* send throws a retryable error. *)
Throw(h) == Release /\ Retry(h)

(* DeliveryInFlightError: somebody else's claim stays. *)
InFlight(h) ==
  /\ run[h].pc = "inflight"
  /\ Retry(h)
  /\ UNCHANGED <<configured, subs, gone, claim, marked, sent, faults, stayed>>

(* The process dies and the broker hands the copy out again. *)
Crash(h) ==
  /\ run[h].pc # "idle" /\ Fault
  /\ queue' = Requeued(run[h].n)
  /\ Goto(h, Idle)
  /\ UNCHANGED <<configured, subs, gone, claim, verdict, marked, sent, stayed>>

(* The connection drops under an attempt, which goes on. *)
Redelivered(h) ==
  /\ run[h].pc # "idle" /\ Fault
  /\ queue' = Requeued(run[h].n)
  /\ UNCHANGED <<configured, subs, gone, claim, verdict, run, marked, sent, stayed>>

----------------------------------------------------------------------------
(* WebPushChannel.send *)

Registered == {d \in Devices : row[d].user = Owner}

(* Fails for good without the keys, and without a subscription. *)
PushSubscriptions(h) ==
  /\ run[h].pc = "subs"
  /\ IF ~configured \/ Registered = {}
     THEN Settle(h, IF configured THEN "none" ELSE "unconfigured")
     ELSE /\ Goto(h, [run[h] EXCEPT !.pc = "delivered",
                                    !.pending = {<<d, row[d].id>> : d \in Registered}])
          /\ UNCHANGED event
  /\ UNCHANGED <<configured, subs, gone, marked, sent, faults, stayed>>

(* Everybody again. *)
MutNotYet(h) == run[h].pending

NotYet(h) == {p \in run[h].pending : p[1] \notin marked}

(* deliveredDestinations; nothing pending is a success. *)
DeliveredDestinations(h) ==
  /\ run[h].pc = "delivered"
  /\ IF NotYet(h) = {}
     THEN Settle(h, "sent")
     ELSE Goto(h, [run[h] EXCEPT !.pc = "loop", !.pending = NotYet(h)]) /\ UNCHANGED event
  /\ UNCHANGED <<configured, subs, gone, marked, sent, faults, stayed>>

(* Back to the loop, the current endpoint done with. *)
NextSub(h, failed) ==
  Goto(h, [run[h] EXCEPT !.pc = "loop", !.pending = @ \ {run[h].cur}, !.cur = <<>>,
                         !.failed = @ \/ failed])

SendOk(h, p) ==
  /\ run[h].pc = "loop" /\ p \in run[h].pending /\ p[1] \notin gone
  /\ sent' = [sent EXCEPT ![p[1]] = @ + 1]
  /\ Goto(h, [run[h] EXCEPT !.pc = "mark", !.cur = p, !.delivered = TRUE])
  /\ UNCHANGED <<configured, subs, gone, event, marked, faults, stayed>>

SendGone(h, p) ==
  /\ run[h].pc = "loop" /\ p \in run[h].pending /\ p[1] \in gone
  /\ Goto(h, [run[h] EXCEPT !.pc = "prune", !.cur = p])
  /\ UNCHANGED <<configured, subs, gone, event, marked, sent, faults, stayed>>

(* Any other error is kept and the loop goes on. *)
SendFails(h, p) ==
  /\ run[h].pc = "loop" /\ p \in run[h].pending
  /\ Goto(h, [run[h] EXCEPT !.pending = @ \ {p}, !.failed = TRUE])
  /\ UNCHANGED <<configured, subs, gone, event, marked, sent, faults, stayed>>

(* The service took the alert and its answer was lost. *)
AnswerLost(h, p) ==
  /\ run[h].pc = "loop" /\ p \in run[h].pending /\ p[1] \notin gone /\ Fault
  /\ sent' = [sent EXCEPT ![p[1]] = @ + 1]
  /\ Goto(h, [run[h] EXCEPT !.pending = @ \ {p}, !.failed = TRUE])
  /\ UNCHANGED <<configured, subs, gone, event, marked, stayed>>

MarkDelivered(h) ==
  /\ run[h].pc = "mark"
  /\ marked' = marked \cup {run[h].cur[1]}
  /\ NextSub(h, FALSE)
  /\ UNCHANGED <<configured, subs, gone, event, sent, faults, stayed>>

(* Recording is best effort. *)
MutMarkFails(h) ==
  /\ run[h].pc = "mark" /\ Fault
  /\ NextSub(h, FALSE)
  /\ UNCHANGED <<configured, subs, gone, event, marked, sent, stayed>>

(* Lands in the same catch as a failed send. *)
MarkFails(h) ==
  /\ run[h].pc = "mark" /\ Fault
  /\ NextSub(h, TRUE)
  /\ UNCHANGED <<configured, subs, gone, event, marked, sent, stayed>>

(* delete by the id that was read *)
Prune(h) ==
  /\ run[h].pc = "prune"
  /\ LET d == run[h].cur[1] IN
       /\ row[d].user # None /\ row[d].id = run[h].cur[2]
       /\ Removed(d)
  /\ NextSub(h, FALSE)
  /\ UNCHANGED <<configured, gone, event, marked, sent, faults>>

(* The row is gone already: the delete throws out of the loop. *)
PruneFails(h) ==
  /\ run[h].pc = "prune"
  /\ ~(row[run[h].cur[1]].user # None /\ row[run[h].cur[1]].id = run[h].cur[2])
  /\ Throw(h)
  /\ UNCHANGED <<configured, subs, gone, marked, sent, faults, stayed>>

(* A query rejects: pushSubscriptions, deliveredDestinations, the delete.  *)
QueryFails(h) ==
  /\ run[h].pc \in {"subs", "delivered", "prune"}
  /\ run[h].pc = "subs" => configured
  /\ Throw(h)
  /\ UNCHANGED <<configured, subs, gone, marked, sent, faults, stayed>>

(* The two checks after the loop the other way round. *)
MutConclude(h) ==
  /\ run[h].pc = "loop" /\ run[h].pending = {}
  /\ IF ~run[h].delivered THEN Settle(h, "invalid")
     ELSE IF run[h].failed THEN Throw(h) ELSE Settle(h, "sent")
  /\ UNCHANGED <<configured, subs, gone, marked, sent, faults, stayed>>

(* "All push subscriptions are invalid" when none was sent to. *)
Conclude(h) ==
  /\ run[h].pc = "loop" /\ run[h].pending = {}
  /\ IF run[h].failed THEN Throw(h)
     ELSE Settle(h, IF run[h].delivered THEN "sent" ELSE "invalid")
  /\ UNCHANGED <<configured, subs, gone, marked, sent, faults, stayed>>

----------------------------------------------------------------------------
Step(h) ==
  \/ PushSubscriptions(h) \/ DeliveredDestinations(h)
  \/ \E p \in run[h].pending : SendOk(h, p) \/ SendGone(h, p) \/ SendFails(h, p)
  \/ MarkDelivered(h) \/ Prune(h) \/ PruneFails(h) \/ Conclude(h) \/ InFlight(h)

Next ==
  \/ \E h \in Handlers :
       \/ \E n \in DOMAIN queue : Begin(h, n)
       \/ Step(h)
       \/ Crash(h) \/ Redelivered(h) \/ MarkFails(h) \/ QueryFails(h)
       \/ \E p \in run[h].pending : AnswerLost(h, p)
  \/ LeaseEnds
  \/ \E d \in Devices : Expire(d)
  \/ \E u \in Users : \/ AddUpsert(u)
                      \/ \E d \in Devices : AddRead(u, d) \/ RemovePushSubscription(u, d)

(* The consumer takes what is queued and a call to a push service ends. *)
Fairness ==
  /\ \A h \in Handlers : WF_vars(Step(h))
  /\ WF_vars(\E h \in Handlers, n \in DOMAIN queue : Begin(h, n))

Spec == Init /\ [][Next]_vars
FairSpec == Spec /\ Fairness

----------------------------------------------------------------------------
(* Properties *)

Pairs     == Devices \X (0..MaxEvents)
SubRecord == [user: Users \cup {None}, id: 0..MaxEvents]
RunRecord == [pc: {"idle", "inflight", "subs", "delivered", "loop", "mark", "prune"},
              n: 0..(MaxAttempts - 1), pending: SUBSET Pairs,
              cur: Pairs \cup {<<>>}, delivered: BOOLEAN, failed: BOOLEAN]

(* Every variable keeps its type: a waiting copy has attempts left, and a  *)
(* device that stayed is still registered.                                 *)
TypeOK ==
  /\ configured \in BOOLEAN
  /\ row \in [Devices -> SubRecord]
  /\ adding \in [Users -> Devices \cup {None}]
  /\ adds \in 0..MaxEvents /\ faults \in 0..MaxEvents
  /\ gone \subseteq Devices /\ marked \subseteq Devices
  /\ queue \in [0..(MaxAttempts - 1) -> Nat]
  /\ run \in [Handlers -> RunRecord]
  /\ claim \in BOOLEAN
  /\ verdict \in {"open", "sent", "invalid", "none", "unconfigured", "exhausted"}
  /\ sent \in [Devices -> Nat]
  /\ stayed \subseteq Registered

(* "Without this the devices that already got the alert get it again": a   *)
(* device is sent one alert, and one more for each crash, copy handed out  *)
(* again or lost record, however many attempts the other devices cause and *)
(* however often it is registered again.                                   *)
AlertedOnce == \A d \in Devices : sent[d] <= 1 + faults

(* "The remaining devices are independent": unless the attempts ran out or *)
(* the keys are missing, an event is not settled, as SENT or as invalid,   *)
(* before every device that was registered all along has been sent it.     *)
NoDeviceForgotten ==
  verdict \in {"sent", "invalid", "none"} => \A d \in stayed : sent[d] >= 1

(* A row says SENT only over a record that makes a later copy of the event *)
(* harmless: somebody was reached, and every device that was registered    *)
(* all along is in deliveredTo, whatever writes were lost and whichever    *)
(* endpoints were pruned on the way.                                       *)
SentIsRecorded == verdict = "sent" => marked # {} /\ stayed \subseteq marked

(* A fired alert ends: settled, with no copy waiting and no attempt left   *)
(* running, whatever fails on the way.                                     *)
EventSettles ==
  <>[](/\ verdict # "open"
       /\ \A h \in Handlers : run[h].pc = "idle"
       /\ \A n \in DOMAIN queue : queue[n] = 0)
=============================================================================
