------------------------------ MODULE Pipeline ------------------------------
(***************************************************************************)
(* From the firing to the alert: the notifier (Delivery) and the outbox    *)
(* relay of the watcher (R), joined at the broker.  A delivery is one      *)
(* event on one channel and has one outbox row; what a relay pass          *)
(* publishes is what the notifier's queue receives, and neither side knows *)
(* more of the other.  Their clocks are independent: the relay's lock and  *)
(* the notifier's leases share no time.                                    *)
(***************************************************************************)
EXTENDS Delivery

CONSTANTS Passes, Batch, LockTTL, PassBound    \* see OutboxRelay

VARIABLES
  created, outbox, lock, pass, relayFaults, accepted, seen,   \* the relay's
  alerted    \* history: how often the channel took each delivery

R == INSTANCE OutboxRelay WITH
       Rows <- Deliveries, row <- outbox, faults <- relayFaults

relay        == <<created, outbox, lock, pass, relayFaults, accepted, seen>>
pipelineVars == <<relay, vars, alerted>>

ASSUME PipelineAssumption == R!RelayAssumption

PipelineInit == R!Init /\ Init /\ alerted = [d \in Deliveries |-> 0]

----------------------------------------------------------------------------
(* The broker: a published row becomes a message in the main queue *)

Relay(p, d) ==
  /\ R!Publish(p, d)
  /\ Publish(d)
  /\ UNCHANGED alerted

(* The publish is refused, or its confirm is lost although the broker has  *)
(* the message.                                                            *)
RelayFails(p, d) ==
  /\ R!PublishFails(p, d)
  /\ \/ accepted' = accepted /\ UNCHANGED vars
     \/ d \in accepted' /\ Publish(d)
  /\ UNCHANGED alerted

----------------------------------------------------------------------------
(* Everything else happens on one side *)

PassStep(p)  == R!Find(p) \/ R!Exhausted(p) \/ R!Mark(p) \/ R!Release(p)
PassFault(p) == R!QueryFails(p) \/ R!ReleaseFails(p) \/ R!Crash(p)

RelayStep ==
  /\ \/ \E d \in Deliveries : R!Stage(d) \/ R!Commit(d) \/ R!Abort(d) \/ R!PruneRelayed(d)
     \/ \E p \in Passes : R!Acquire(p) \/ PassStep(p) \/ PassFault(p)
     \/ R!Tick
  /\ UNCHANGED <<vars, alerted>>

(* A step of a handler; a successful send is what the channel counts. *)
Handle(h) ==
  /\ HandlerStep(h)
  /\ alerted' = [d \in Deliveries |->
       IF SendSucceeds(h) /\ hs[h].of = d THEN alerted[d] + 1 ELSE alerted[d]]
  /\ UNCHANGED relay

NotifierStep ==
  /\ \/ \E h \in Handlers : Receive(h) \/ HandlerFault(h)
     \/ \E d \in Deliveries : Wipe(d)
     \/ \E c \in Copies : Expire(c)
     \/ Replay
     \/ Tick
  /\ UNCHANGED <<relay, alerted>>

PipelineNext ==
  /\ \/ \E p \in Passes, d \in Deliveries : Relay(p, d) \/ RelayFails(p, d)
     \/ RelayStep
     \/ \E h \in Handlers : Handle(h)
     \/ NotifierStep
  /\ relayFaults' + faults' <= MaxFaults

PipelineSpec == PipelineInit /\ [][PipelineNext]_pipelineVars

(* The fairness of both sides: the cron, commits, passes and handlers in   *)
(* progress, the broker and time.                                          *)
Relaying(action)  == action /\ UNCHANGED <<vars, alerted>>
Notifying(action) == action /\ UNCHANGED <<relay, alerted>>

FairPipeline ==
  /\ PipelineSpec
  /\ \A d \in Deliveries : WF_pipelineVars(Relaying(R!Commit(d)))
  /\ WF_pipelineVars(\E p \in Passes : Relaying(R!Acquire(p)))
  /\ \A p \in Passes :
       WF_pipelineVars((\E d \in Deliveries : Relay(p, d)) \/ Relaying(PassStep(p)))
  /\ WF_pipelineVars(Relaying(R!Tick))
  /\ \A h \in Handlers :
       WF_pipelineVars(Handle(h)) /\ WF_pipelineVars(Notifying(Receive(h)))
  /\ \A c \in Copies : WF_pipelineVars(Notifying(Expire(c)))
  /\ WF_pipelineVars(Notifying(Tick))

----------------------------------------------------------------------------
(* Properties *)

(* The outbox and the notifier agree on who answers for an alert: from the *)
(* commit of the firing on it is pending in the outbox, in a queue or with *)
(* a handler, or it was settled SENT or pushed out of the full dead queue, *)
(* although each side forgets it on its own.                               *)
AlertIsKept ==
  \A d \in Deliveries : outbox[d] \in {"pending", "published", "pruned"} =>
    \/ outbox[d] = "pending"
    \/ \E c \in Copies : copy[c].at # "free" /\ copy[c].of = d
    \/ d \in settledSent \cup dropped

(* "Exactly-once delivery in practice on top of at-least-once transport":  *)
(* whatever the relay publishes again, the channel takes an alert once,    *)
(* and once more for each fault of the notifier, as long as its row is     *)
(* neither removed from the history nor overwritten by a late FAILED.      *)
ExactlyOnce == \A d \in Deliveries \ (wiped \cup demoted) : alerted[d] <= 1 + faults

(* Every alert reaches an end: again and again it is off the outbox and    *)
(* its messages are gone, parked or left unacked on purpose, unless those  *)
(* hold every slot of the prefetch.                                        *)
EveryAlertEnds ==
  \A d \in Deliveries :
    []<>(/\ outbox[d] \notin {"writing", "pending"}
         /\ Stalled \/ \A c \in Copies : copy[c].of = d => AtRest(c))
=============================================================================
