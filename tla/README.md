# Weather Notify: a TLA+ development

Weather Notify watches the weather for its users' triggers and sends an alert
when one of them crosses its threshold. Three NestJS processes share a
PostgreSQL database, a Redis and a RabbitMQ:

    core-api  --(rows)-->  watcher  --(outbox rows)-->  relay  --(messages)-->  notifier --> Telegram, e-mail, web push

Everything between "the condition holds" and "the user got exactly one alert"
is distributed, concurrent and retried. That path is what this project models.

## Inventory

| component | state | operations | hard behaviour | what makes it correct |
|---|---|---|---|---|
| trigger decision (`libs/domain`) | none, pure | `evaluateConditions`, `isWithinQuietHours`, `decide` | windows past midnight, zones, flapping | no alert inside cooldown or quiet window, none forgotten |
| location buckets and shards (`libs/domain`, watcher) | none, pure | `locationBucket`, `bucketsForShard` | a stored bucket that no longer fits | exactly one watcher per trigger, the one of its location |
| poll cycle (`watcher.service.ts`) | Redis lock, renewal timer, shared queue of locations | `runCycle`, `poll`, `pollLocations`, `processTrigger`, `fire` | concurrent workers, stale reads, lost lock, throwing writes | one cycle at a time per shard, one alert per cooldown, everything polled |
| trigger repository (watcher) | `Trigger`, `TriggerCondition` | `findActive`, `recordObservation`, `commitFire` | edits between read and write | state and deliveries are written together or not at all |
| outbox relay | `OutboxEvent` rows, Redis lock | `flush`, `publishPending`, `markPublished`, `pruneRelayed` | passes that outlast their lock, lost confirms, partial batches | no row lost, order kept, every row relayed |
| consumer and retry ladder (notifier) | main, retry and dead queues, unacked messages | `handle`, `process`, `handleFailure`, `park`, `republish` | redelivery, crash between publish and ack, full dead queue | no silent loss, bounded parking, every alert ends |
| delivery claim (notifier) | `Notification` row: status, claimedAt | `claim`, `releaseClaim`, `settle` | racing consumers, expired leases, wiped rows | one sender, sent stays sent, replay is safe |
| channels (notifier) | `deliveredTo`, `PushSubscription` | `send`, `markDelivered`, pruning | fan-out, partial failure, registrations in between | each device once, none left out, SENT over a complete record only |
| Redis service | locks, counters, cursors, cooldowns, JSON cache | `acquireLock`, `extendLock`, `releaseLock`, `recordFailure`, `consumeCooldown`, `getJson`, ... | expiry under the holder, calls that fail open | fencing, windows that end |
| throttler storage | counter and block key | `increment` | a key without expiry | a caller that pauses is let in |
| forecast, geocode, weather provider | cache entries | read-through | concurrent misses, outages | the answer to an outage is not remembered |
| triggers, pinned cities (core-api) | rows | create, update, delete, clear, test send | limits counted before the write | bounded overshoot, the bucket follows the location |
| users and Telegram linking (core-api) | link, chat, push endpoints | `createTelegramLink`, `bindTelegram`, `unlinkTelegram`, `addPushSubscription`, `deleteAccount` | look-up, then write | dead links bind nothing |
| Telegram poller (core-api) | Redis lock and cursor, offset in memory | `run`, `pollWhileLeader`, `handle` | leadership that lapses, crashes before the offset is stored | no update skipped, none repeated on a clean handover |
| auth and sessions (core-api) | refresh tokens, deny marker, lockout | login, refresh, logout, reset, sweep | concurrent rotation, reuse, deletion around an issue | one working token per session, an end is final |
| admin (core-api) | roles | `updateUser`, `deleteUser`, `deleteTrigger` | count, then act | an administrator remains |

Components interact through shared rows (core-api and watcher; watcher and
relay; notifier and history), through Redis locks (cycles, relays, pollers,
sweeps) and through the broker (relay and notifier). Nothing calls across
processes.

## Modules

### From the firing to the alert

* **TriggerDecision** holds the pure operators of `libs/domain`.
  `Decide` is the transition function of the state machine.
* **TriggerLifecycle** runs one trigger over a day: `FindActive` reads it,
  `Poll` decides on what was read and writes to what is stored, the owner edits
  the trigger or the quiet hours at any point. If the owner replaced the
  conditions between the read and the write, the transaction fails on the
  missing condition rows and nothing is written. `decision`, `heard` and
  `postponed` (a crossing was suppressed and the condition has held since) are
  history.
* **WatcherCycle** models the runs of `runCycle` for one shard: lock, renewal
  timer, workers and the shared queue of locations. Workers outlive a run whose
  `Promise.all` has rejected; `orphaned` records that one did. It takes `Decide`
  from TriggerDecision. `LocationOf` groups the triggers; the queue and the
  triggers of a location are sets because `findActive` asks for no order.
* **OutboxRelay** models staged rows, relay passes and their lock. `created`
  gives each row its `createdAt`, which is taken before the transaction
  commits; a transaction that fails leaves no row ("aborted"). A pass publishes
  the oldest row it still has to do.
  One row stands for one (event, channel); the rows of one event are
  independent here although they commit together.
* **Handover** is what an outbox promises, whatever carries it out: an item
  stays owed until the receiver has it, may be given twice, is closed only after
  it was given, and is given eventually. OutboxRelay implements it with
  `owed` the pending rows, `given` what the broker accepted and `closed` the
  published and pruned rows.
* **Delivery** models the notifier. `copy` is the broker: where each copy of a
  message is, how often it was attempted (`x-attempts`), how long it still
  waits. `hs` is one record per running `handle`; its program counter names the
  next await, so every query of `claim`, the channel call, `releaseClaim`,
  `settle`, the republish or park and the ack are steps of their own. `row` is
  the Notification row; `age` stands for `claimedAt` (-1 is null). `dead` is
  the dead queue in order. A handler that ends in the catch of `handle` stays
  "stuck": its message is unacked and keeps its slot. Environment: the relay
  may publish a delivery again, retry queues expire, an operator replays parked
  messages, a process crashes, a channel drops under a live process, a history
  row is removed, time passes. `settledSent`, `dropped`, `wiped` and `demoted`
  are history, read by properties only.
* **Pipeline** composes the two: it extends Delivery and instantiates
  OutboxRelay, whose rows are Delivery's deliveries. A relay's publish and the
  arrival in the notifier's main queue are one step, also when the confirm is
  lost; everything else happens on one side. The two clocks are independent.
  `alerted` counts how often a channel took an alert.
* **PushFanout** models one alert on the web push channel: `send` from the
  read of the subscriptions to its verdict, one step per call to a push service
  or the database, while users register and remove endpoints and endpoints
  expire. What it keeps of the claim and the ladder, which are Delivery's, is
  whether a claim is live and how many copies wait on each attempt. A copy that
  meets a live claim fails like any other attempt (`InFlight`), a lease may run
  out at any time (`LeaseEnds`), a copy may be handed out again beside its
  attempt (`Redelivered`), and every query may fail (`QueryFails`, `MarkFails`).
  A subscription's keys are data and left out. Removing history rows is
  Delivery's.

### core-api and Redis

* **Sessions** models the sessions of one account; accounts share nothing.
  `token` holds each pair of tokens with its RefreshToken row, `request` the
  requests in flight, with a step for every statement that reads or writes
  shared state: the lookup of `refresh`, its compare-and-set, `revokeFamily`,
  signing and inserting in `issueTokens`, the two halves of `resetPassword`,
  and deletion or a role change followed by the deny marker. A request can
  abort between any two of them. `Login` stands for an accepted `login` or
  `register`; the lock of the daily sweep is left out because the delete is
  idempotent. `started` and `missed` are history.
* **Accounts** models the rows that are checked in one statement and written in
  the next: roles and deletion, triggers with their bucket, pinned cities, and
  the e-mail verification that gates a trigger. The tables meet only in the
  cascade of a deleted account, so a behaviour exercises one of them.
  Verification is one statement and therefore one step. The FNV-1a hash is a
  constant, since its 32-bit products exceed TLC's integers. `raced` (the
  last administrator to be removed was removed on an outdated check) and `half`
  (rows moved by a patch with one coordinate) are history.
* **RedisWindows** models what lives under a key that expires: the throttler,
  the login lockout, the test cooldown and the three caches. A behaviour
  exercises one route, since the keys are disjoint. `down` is an outage of
  Open-Meteo; a request remembers whether one met it, and may fail for it after
  the outage is over. A payload the schema refuses counts as an outage. A test
  send may outlast its reservation, and its handback then deletes whatever is
  there. `holder`, `owed` and `paced` follow whose reservation that was and what
  was left of it, `served` what a cached route answered last and to whom; they
  are history.
* **TelegramPoller** models the replicas that elect a poller, Telegram as it is
  used (updates stay until a later offset confirms them), and the account whose
  link a `/start` update binds. `dead` is history: the links that were used,
  replaced, unlinked or expired while no replica had looked them up.

**PipelineProofs** (Delivery and Pipeline), **OutboxRelayProofs**,
**WatcherProofs** (WatcherCycle and TriggerLifecycle), **PushFanoutProofs**,
**TelegramPollerProofs**, **RedisWindowsProofs**, **AccountsProofs** and
**SessionsProofs** hold the theorems. **MCDelivery**,
**MCPipeline**, **MCTriggerLifecycle**, **MCOutboxRelay**, **MCWatcherCycle**,
**MCSessions**, **MCTelegramPoller**, **MCAccounts**, **MCRedisWindows** and
**MCPushFanout** give TLC the small instances.

Every module states the type of its variables as `TypeOK`. It is checked as an
invariant for Delivery and proved for every module but Pipeline, which has the
types of its two sides.

Definitions whose name starts with `Mut` are deliberately wrong variants of the
definition that follows them; they document which mistake each property catches
and no specification uses them.

Metrics, logging, message texts and payloads are left out everywhere.
Metrics counters that follow a write have no effect on control.

## Runs

| run | shows |
|---|---|
| `delivery_faults` | under any two faults: no silent loss, one sender at a time, sent stays sent; with a dead queue of one, only the oldest parked message is dropped |
| `delivery_replay` | finding: a replayed message can be sent twice |
| `pipeline` | from commit to channel, under any one fault on either side: one of the two sides always answers for the alert, relay duplicates are absorbed, every alert ends |
| `outbox_relay` | the relay implements Handover: rows are closed only after acceptance and all arrive; order is kept; passes that own their lease are alone |
| `trigger_gates` | cooldown and quiet hours hold across flapping and edits; a crossing they suppressed still alerts |
| `trigger_sustained` | finding: a sustained condition alerts again without having re-armed |
| `cycle_faults` | a throwing write, an edit, a crash or an outage lets cycles overlap only where a worker threw over its siblings, and never stops the polling |
| `push` | a device is alerted once per fault at most, no device that stayed is left out, SENT is written over a complete record only, the event is settled |
| `sessions` | one working refresh token per session, reuse always noticed, ended sessions stay ended, deleted accounts are denied |
| `accounts` | an administrator remains unless a count was outdated, limits overshoot by less than the requests in flight, one watcher per trigger |
| `windows` | lockouts and blocks end on their own, test sends keep their distance unless a late handback let one in early, the answer to an outage goes to nobody it did not meet |
| `telegram` | no update skipped, none repeated on a clean handover, one fresh poller, dead links bind nothing, every message handled |

### Bounds

Every bound is a constant. `Copies` and `Handlers` bound identities, not
behaviour: a handler slot is one of the prefetch, and a copy is free again once
acked. Two handlers are what it takes to race; two retry stages give a first,
a middle and a last attempt, and the last stage waits longer than the lease, as
300 s does against 60 s. `MaxPublishes`, `MaxReplays`, `MaxFaults` and
`MaxEdits` cap what the environment does; two faults reach a crash during the
recovery from another. Ages beyond `AgeCap` or `SinceCap` are never told apart.
`pipeline` has one relay pass and one handler slot; its four copies are enough
for the alert, a duplicate of it, a retry and a parked message, so that no step
waits for a free one, and a pass that crashes before its mark is what publishes
twice. Overlapping passes are `outbox_relay`'s and overlapping handlers
`delivery_faults`'. The day of `trigger_gates` has four hours of two minutes:
long enough for windows that wrap, leave one free minute or shift with a zone;
only windows and conditions the request validation accepts are enumerated.
`cycle_faults` has the TTL at three renewals, as in the code, and two locations
for two workers, one with two triggers. Longer queues, where a cycle outlives its
TTL on renewals alone, are covered by the proof of `OneCycle`, which bounds
neither locations nor workers.
`sessions` has three pairs, enough for a sign-in, its rotation and a second
session, and lets an access token expire before its refresh token.
`telegram` has two replicas, two updates, one link and one fault or shutdown; a
pass that handles updates may take twice the TTL. `accounts` has two requests at
once, limits of one and three rows, so that a limit is reached and passed; in its
hash most moves change the bucket and one does not. `windows` has three
requests, so that two can overtake a third, three failed calls or outages, and
test sends that may take longer than the cooldown. `push` has two devices, two
overlapping attempts and two of everything that can happen to them.

`AttemptBound`, `GroupBound`, `FindBound`, `PassBound`, `PollBound` and
`PublishBound` say how long a claimed attempt, a location, a `findActive`, a
pass, an idle poll and a test send may last. They are assumptions about the
environment, not facts of the code, but for `PollBound`, which its timeouts
bound. `delivery_faults` takes `AttemptBound <= Lease`; `push` lets a lease run
out at any time. In `cycle_faults` a location takes less than the TTL less one
renewal interval. `outbox_relay`, `telegram` and the test sends of `windows` may
outlast their locks and windows.

### Fairness

Weak fairness only. A handler, worker or poller whose await has resolved runs
(Node's event loop), RabbitMQ hands out what it queues and expires retry
messages, time passes, the cron starts a cycle or a relay pass whenever the lock
is free, a standing-by replica takes a free lock, a stopped replica is replaced,
an open transaction commits, and a call to a push service ends. No fault, edit,
replay, registration or successful send is owed. `EveryAlertEnds` counts a
message left unacked on purpose as ended, and makes no promise while such
messages hold every slot: only a dropped channel returns them, and the code does
not cause one.

## Proofs

`PipelineProofs` begins with the notifier alone and proves, for every number of
deliveries, copies, handlers, stages and faults, from `DeliveryAssumption`:

* `TypeCorrect`: `Spec => []TypeOK`, and `DeadQueueCorrect`:
  `Spec => []DeadQueueBounded`. The inductive invariant `TypeInv` adds
  `WellFormed`: a copy in use names a delivery, one waiting for a retry has an
  attempt on the ladder, an unacked one has a handler, and a handler that is not idle
  names a delivery and knows its attempts. Without it `Delay[n]` and
  `row[hs[h].of]` could be taken outside their domains.
* `NothingIsLost`: `Spec => []NoSilentLoss`. The state alone does not carry the
  argument: an ack frees a copy, so it must be safe. `LossInv` says that a
  handler about to ack has either settled its delivery or has left another copy
  of it behind, and that this other copy can only be acked under the same
  condition.

Under the further assumption `AttemptBound <= Lease`:

* `LeaseIsExclusive`: `Spec => []OneSender`. `LeaseInv` relates the two clocks:
  while a handler owns a delivery whose row was not removed, the row is PENDING
  and its claim is exactly as old as the attempt, hence never older than the
  lease, hence not takeable.
* `SentStaysSent`: `Spec => []SentIsFinal`, from the same invariant.

The second half of `PipelineProofs` carries these invariants over. Every step of
the pipeline is a step of Delivery or leaves Delivery alone (`Pipeline` extends
Delivery, since the prover does not cite theorems of an instance):

* `AlertKept`: `PipelineSpec => []AlertIsKept`. `NoRowLost` holds on the relay's
  side and `NoSilentLoss` on the notifier's; the joint is
  `AcceptedIsPublished`: what the broker accepted, the notifier was given.
* `DeliveredOnce`: `PipelineSpec => []ExactlyOnce`, with
  `AttemptBound <= Lease`. `OnceInv` counts: beyond the first, a channel takes
  an alert again only after a fault that kept its SENT from being written.
* `SidesKeepTheirRules`: `PipelineSpec => Spec /\ R!Spec`. The composition is
  sound: it restricts its two components and adds nothing to them.

`SessionsProofs` proves, for every number of requests, tokens and sign-ins and
every pair of lifetimes with `AccessTTL <= RefreshTTL` (`SessionsAssumption`),
from one inductive invariant `SessionsInv`:

* `RotationIsExclusive`: `Spec => []OneTokenPerSession`. `Named` is needed
  beside it: what is live or being issued belongs to a sign-in that took place,
  so a new one cannot meet a token of its own.
* `EndIsFinal`: `Spec => EndedStaysEnded`, step by step from `Named`.
* `ReuseIsNoticed`: `Spec => []SpentTokenIsKnown`. A row starts its lifetime no
  earlier than its token, so their age and the time left never add up to less
  than `RefreshTTL` (`RowOutlivesToken`), and the sweep only meets dead tokens.
* `DeletionIsFinal`: `Spec => []DeletedIsDenied`, by the same argument for the
  marker (`MarkerOutlivesToken`): nothing is issued once the account is gone.
* `TypeCorrect`: `Spec => []TypeOK`.

`OutboxRelayProofs` proves, for every number of rows and passes, every batch
size and every TTL, from one inductive invariant `RelayInv`:

* `NothingMarkedUnsent`: `Spec => []NoRowLost`. What a pass is going to mark
  must have been accepted before (`DoneIsAccepted`).
* `PassesExclude`: `Spec => []OneFreshPass`. A pass younger than the TTL holds
  the lock for at least the time it has left (`LeaseHeld`), so an acquisition
  only succeeds when every other pass is old, and the fenced release of an old
  one leaves the lock alone.
* `OrderKept`: `Spec => OrderIsKept`. A batch has no gaps (`NoGaps`): whatever
  the pass found that is older than a row of its batch is in the batch too.
* `RelayImplementsHandover`: `Spec => H!Safe`, action by action; it needs that
  passes work on committed rows only. Handover's liveness stays with TLC
  (`RelayHandsOver`).

`WatcherProofs` proves of WatcherCycle, for every number of runs, workers, triggers and
locations and any faults, under `LockOutlasts`:
`FindBound + RenewEvery + GroupBound < LockTTL`. The code has a TTL of 120 s and
renews every 40 s, so reading the triggers and the slowest location may take
80 s together. The bound says what the code relies on without stating it: a
renewal that fails only stops workers from taking further locations.

* `CyclesExclude`: `Spec => []OneCycle`. `Holds` relates the clocks of lock,
  timer and workers: a run that has not lost the lock will beat the timer before
  the lock ends, and every location begun will be finished before it, because
  it was begun before the next beat.
* `CooldownRespected`: `Spec => OneAlertPerCooldown`. What a run read of a
  trigger it has yet to process is still so (`Agrees`); this needs that a
  trigger waits in the queue or with one worker, never both (`Divided`), and
  that no other run writes meanwhile (`Holds`).
* `TypeCorrect`: `Spec => []TypeOK`.

The same module proves of TriggerLifecycle, instantiated as `T`, for every
period, set of cooldowns, weather and number of edits (`TriggerAssumption`: the
assumptions of the instantiated modules, among them that a window's bounds are
times of the day and that there is a longest cooldown, both of which the request
validation enforces):

* `CooldownBetweenAlerts`: `T!Spec => T!OneAlertPerCooldown`. `TriggerInv` says
  that the time since `lastFiredAt` is the time since the last alert and that
  what a cycle read of it is still so when it writes, although every other field
  may have been edited.
* `QuietHoursAreSilent`: `T!Spec => T!SilentInQuietHours`, from the same
  invariant and `ArcIsQuiet`: where `isWithinQuietHours` answers no, the owner's
  clock is off the walk from the start of the window to its end.
* `QuietHoursExact`: the comparisons of `isWithinQuietHours` and that walk agree
  in both directions, so no minute outside the window is suppressed either.
* `TriggerTypeCorrect`: `T!Spec => []T!TypeOK`.

`PushFanoutProofs` proves, for every number of devices, users, attempts and
registrations and every finite number of handlers, from `PushInv`:

* `DevicesAlertedOnce`: `Spec => []AlertedOnce`. `OnceInv` counts, per device,
  the alerts sent, the copies of the event waiting while the device is not
  recorded, and the attempts that may still send to it. A retry turns an attempt
  into a copy and a send turns an attempt into an alert; only a crash, a copy
  handed out again or a lost record raises the sum, and each is a fault. A lease
  that runs out does not: the copy that takes over was counted already. An attempt that
  looked `deliveredTo` up before the record was written counts on.
* `EveryDeviceServed`: `Spec => []NoDeviceForgotten`. `AttemptOK` follows a
  device that stayed through an attempt: it waits for its turn, is on record, or
  failed and the event is retried; `MarkedIsSent` is why skipping the recorded
  ones is right.
* `SentOnRecord`: `Spec => []SentIsRecorded`, from `AttemptOK` too: whoever an
  attempt reached is on record, about to be, or lost, and a lost record fails
  the attempt.
* `TypeCorrect`: `Spec => []TypeOK`.

`TelegramPollerProofs` proves, for every number of replicas, updates and links,
for idle polls shorter than the TTL and passes of any length
(`PollerAssumption`):

* `NoUpdateSkipped`: `Spec => []NothingSkipped`. A batch is a run of updates and
  everything before it is handled (`BatchOK`), so an offset never jumps.
* `PollersExclude`: `Spec => []OneFreshPoller`, by `LeaseHeld` as for the relay.
* `LinksBindOnce`: `Spec => DeadLinkBindsNothing`. No link is issued twice, and
  neither the live link nor one being bound is dead (`LinksOK`).
* `NothingRepeated`: `Spec => []HandoverRepeatsNothing`. `Handed` says what holds
  while nothing has failed or overrun: whoever leads holds the lock, the stored
  offset never exceeds the leader's, and everything handled is below the
  leader's offset, or below the stored one when nobody leads.
* `TypeCorrect`: `Spec => []TypeOK`.

`RedisWindowsProofs` proves, for every number of requests, every TTL and every
limit, from `WindowsInv`:

* `LockoutIsFinite`: `Spec => []LockoutEnds`. The count's age and the time it
  has left add up to the window from the first failure on (`LockoutInv`).
* `OvershootIsBounded`: `Spec => []LockoutOvershootBounded`. Counted failures and
  attempts that passed the check and are not counted yet are bounded together
  (`OvershootInv`).
* `OutageForgotten`: `Spec => []OutageIsNotRemembered`. Neither what is stored
  nor what a request is about to store is ever the answer to an outage
  (`OutageInv`), although requests that met one end after it and beside others
  that store.
* `QuietIsAdmitted`: `Spec => QuietCallerIsAdmitted`. Neither key of the
  throttler outlives the last request by more than the window (`ThrottleInv`).
* `TestsPaced`: `Spec => TestsArePaced`, for sends of any length. A send under
  way, or the latest that succeeded, is covered until its window is over, by its
  reservation or by what is owed of one that another send deleted (`Covered`);
  so whoever reserves in that time begins early, and all others are a cooldown
  apart, also those that have yet to succeed (`AllApart`).
* `TypeCorrect`: `Spec => []TypeOK`.

`AccountsProofs` proves, for every number of accounts, rows and requests, every
hash, every number of buckets and positive limits (the code has 10 triggers and
12 cities), from `AccountsInv`:

* `AnAdminRemains`: `Spec => []AdminRemains`. A removal about to be written that
  no role change has overtaken since its check leaves an administrator
  (`RoleInv`).
* `OvershootBounded`: `Spec => []LimitsOvershootBounded`. Rows and requests that
  have passed the count are bounded together (`LimitInv`).
* `EveryTriggerHasOneOwner`: `Spec => []OneOwner`. The buckets of the instances
  partition all buckets for every number of instances, and a live trigger has
  the bucket of its coordinates (`BucketInv`).
* `TypeCorrect`: `Spec => []TypeOK`.

TLC checked every one of these inductive invariants on the instances of the
runs before it was proved.

Liveness under fairness, `ENABLED`, and what recursive definitions compute for
every input are out of the prover's reach and stay with TLC: `EveryAlertEnds`,
`RelayHandsOver`'s liveness, `SuppressedCrossingAlerts`,
`EveryLocationPolled`, `EveryUpdateHandled` and `EventSettles`. No module uses a RECURSIVE operator.
Every safety property of a passing run is a theorem.

## Findings

* A `settle` with FAILED asks for no status, so it can overwrite SENT; the
  parked message of that attempt can then be replayed and is sent again
  (`delivery_replay`). `SentIsFinal` and `ExactlyOnce` excuse the deliveries it
  happened to, and both those whose row was removed from the history.
* `decide` returns FIRE for a FIRED trigger whose condition still holds as soon
  as the cooldown is over, so a sustained condition alerts after every cooldown
  without having re-armed (`trigger_sustained`). `src/README.md:164-167` has both
  gates agree and a trigger fire "when the condition first becomes true", and
  the comment at `trigger-state-machine.ts:73` has the state machine decide
  "whether this is a new crossing"; the unit test at
  `trigger-state-machine.spec.ts:119` agrees with the code.

## Observations

What the models allow because the code does, and the properties leave room for:

* No channel call has a timeout of its own, which the length of the lease is
  argued from: a slower one has two senders. `sendNotification` has none either.
* A worker that throws releases the cycle lock while its siblings go on. The
  cause can be as ordinary as an owner replacing a trigger's conditions while a
  cycle is running. `OneCycle` and `OneAlertPerCooldown` excuse those siblings.
* The relay lock is not renewed, so a slow pass can run beside the next one; the
  duplicates are absorbed by the claim. The exchange drops what no queue is
  bound for, and confirms it: alerts relayed before the first notifier has ever
  declared its queues are gone. Pipeline assumes the queues exist.
* A revocation of all rows does not reach a rotation that has spent its token
  and not yet stored the successor; `EndedStaysEnded` speaks of sessions without
  one. The deny marker does not know when a token was signed: after a role
  change it refuses the user's new tokens too.
* Two role changes at once can remove the last administrator: each count sees
  the other. `AdminRemains` shows that nothing else does: it excuses only a last
  removal whose own check was outdated by another role change.
* A patch with one coordinate moves a trigger and leaves its bucket;
  `OneOwner` excuses such rows.
* Pinning takes the count as the display order, so orders collide after a
  removal (not modelled: no property depends on it).
* `bindTelegram` writes by the account's id: a bind that has looked its link up
  wins over an unlink.
* A registration whose endpoint is taken by another user between its look-up and
  its upsert replaces the keys of that user's row and is told it succeeded.
  PushFanout takes the step; no property speaks of it.
* Pruning a subscription that is gone already throws out of the loop over the
  devices; the event is retried. An alert that reached one device on an earlier
  attempt can still end as FAILED, "All push subscriptions are invalid".
* A test send that fails half-way hands its cooldown back: one channel can get
  two. `publish` has no timeout, so a handback can outlive its window and delete
  another one's; `TestsArePaced` excuses the sends that begin in what was left.
* A blocked caller goes on being counted; the block is not prolonged by it.
* A Redis error in `getJson` or `setJson` fails the request although the answer
  is at hand. The weather cache's 240 s stay below the 300 s of a cycle only as
  long as an answer is stored within a minute.

## Not modelled

Mail transport, health, metrics, logging, configuration, controllers and
OpenAPI: no state of their own that a property depends on. The retention sweep's
own lock: to a delivery a sweep is one more removed row. Delivery tags: an ack
on a channel that dropped is taken to acknowledge nothing. Telegram's and
e-mail's `send`: one call that succeeds or fails. Changing the number of shards
while watchers run: the repository documents it as unsupported.

## Left

The retention sweep as one more user of the lock, and Telegram's and e-mail's
`send` call by call.
