---------------------------- MODULE WatcherCycle ----------------------------
(***************************************************************************)
(* The poll cycles of one shard (WatcherService): each run of runCycle     *)
(* takes the Redis lock watcher:cycle:lock, reads the active triggers and  *)
(* polls their locations with a few workers, while a timer renews the      *)
(* lock.  Runs belong to any number of instances holding the same shard.   *)
(***************************************************************************)
EXTENDS Integers, FiniteSets

CONSTANTS
  Runs,          \* identities of concurrent runs of runCycle (bounds them)
  Workers,       \* the workers of one run: WATCHER_CONCURRENCY
  Triggers,
  Locations,
  LocationOf,    \* locationKey of each trigger
  Cooldown,      \* cooldownMin, in ticks
  LockTTL,       \* CYCLE_LOCK_TTL_SEC, in ticks
  RenewEvery,    \* the interval of the renewal timer: a third of the TTL
  FindBound,     \* how long findActive can take
  GroupBound,    \* how long one location can take, fetch and writes
  FaultKinds,    \* the kinds of fault this instance is exposed to
  MaxFaults,     \* how many of them happen
  None

ASSUME CycleAssumption ==
  /\ LocationOf \in [Triggers -> Locations]
  /\ Cooldown \in Nat \ {0}
  /\ LockTTL \in Nat \ {0} /\ RenewEvery \in 1..LockTTL
  /\ FindBound \in Nat /\ GroupBound \in Nat
  /\ FaultKinds \subseteq {"crash", "redis", "database", "edit"}
  /\ MaxFaults \in Nat
  /\ None \notin Runs

VARIABLES
  lock,      \* the Redis key: who holds it and for how long
  run,       \* the runs
  read,      \* the triggers as each run read them
  worker,    \* the workers of each run; they may outlive it
  trigger,   \* the stored triggers; since is the time since lastFiredAt,
             \* Cooldown when it is longer or the trigger never fired
  faults,    \* faults so far
  orphaned   \* history: a worker threw while siblings of it went on

vars == <<lock, run, read, worker, trigger, faults, orphaned>>

D == INSTANCE TriggerDecision WITH
       HoursPerDay <- 24, MinutesPerHour <- 60, ZoneOffset <- <<>>,
       SevereCodes <- {}, EqTolerance <- 0

FreeLock == [by |-> None, left |-> 0]
IdleRun  == [pc |-> "idle", held |-> FALSE, timer |-> 0, age |-> 0, queue |-> {}]
Off      == [pc |-> "off", todo |-> {}, age |-> 0]
NotRead  == [found |-> FALSE, stale |-> FALSE, since |-> Cooldown]

Working(r)  == \E w \in Workers : worker[r][w].pc # "off"
NoWorkers   == [w \in Workers |-> Off]

Init ==
  /\ lock = FreeLock
  /\ run = [r \in Runs |-> IdleRun]
  /\ read = [r \in Runs |-> [t \in Triggers |-> NotRead]]
  /\ worker = [r \in Runs |-> NoWorkers]
  /\ trigger = [t \in Triggers |-> [exists |-> TRUE, since |-> Cooldown]]
  /\ faults = 0
  /\ orphaned = FALSE

Fault(kind) ==
  /\ kind \in FaultKinds
  /\ faults < MaxFaults
  /\ faults' = faults + 1

Goto(r, pc) == run' = [run EXCEPT ![r].pc = pc, ![r].timer = 0, ![r].age = 0]

----------------------------------------------------------------------------
(* runCycle: the lock around one pass *)

Acquire(r) ==
  /\ run[r].pc = "idle" /\ ~Working(r)
  /\ lock.by = None
  /\ lock' = [by |-> r, left |-> LockTTL]
  /\ run' = [run EXCEPT ![r] = [IdleRun EXCEPT !.pc = "find"]]
  /\ UNCHANGED <<read, worker, trigger, faults, orphaned>>

(* The key is deleted whoever holds it. *)
MutReleased(r) == FreeLock

(* releaseLock: compare and delete *)
Released(r) == IF lock.by = r THEN FreeLock ELSE lock

Release(r) ==
  /\ run[r].pc = "release"
  /\ lock' = Released(r)
  /\ Goto(r, "idle")
  /\ UNCHANGED <<read, worker, trigger, faults, orphaned>>

(* Redis does not answer: the lock is left to its TTL. *)
ReleaseFails(r) ==
  /\ run[r].pc = "release"
  /\ Fault("redis")
  /\ Goto(r, "idle")
  /\ UNCHANGED <<lock, read, worker, trigger, orphaned>>

----------------------------------------------------------------------------
(* poll: findActive, then the workers under a renewed lock *)

Found(t) == [found |-> TRUE, stale |-> FALSE, since |-> trigger[t].since]

FindActive(r) ==
  /\ run[r].pc = "find"
  /\ LET found == {t \in Triggers : trigger[t].exists}
         queue == {LocationOf[t] : t \in found}   \* groupByLocation
     IN IF queue = {}
        THEN Goto(r, "release") /\ UNCHANGED <<read, worker>>
        ELSE /\ run' = [run EXCEPT ![r] =
                          [pc |-> "poll", held |-> TRUE, timer |-> RenewEvery,
                           age |-> 0, queue |-> queue]]
             /\ read' = [read EXCEPT ![r] =
                           [t \in Triggers |-> IF t \in found THEN Found(t) ELSE NotRead]]
             /\ \E ws \in SUBSET Workers :
                  /\ Cardinality(ws) = Cardinality(queue) \/ ws = Workers
                  /\ Cardinality(ws) <= Cardinality(queue)
                  /\ worker' = [worker EXCEPT ![r] =
                       [w \in Workers |-> IF w \in ws THEN [Off EXCEPT !.pc = "loop"] ELSE Off]]
  /\ UNCHANGED <<lock, trigger, faults, orphaned>>

FindFails(r) ==
  /\ run[r].pc = "find"
  /\ Fault("database")
  /\ Goto(r, "release")
  /\ UNCHANGED <<lock, read, worker, trigger, orphaned>>

(* One beat of the timer of withLockRenewal: extendLock, compare and       *)
(* expire.  A run that has lost the lock once stays without it.            *)
Renewed(r) == IF lock.by = r THEN [lock EXCEPT !.left = LockTTL] ELSE lock

Renew(r) ==
  /\ run[r].pc = "poll" /\ run[r].timer = 0
  /\ lock' = Renewed(r)
  /\ run' = [run EXCEPT ![r].held = @ /\ lock.by = r, ![r].timer = RenewEvery]
  /\ UNCHANGED <<read, worker, trigger, faults, orphaned>>

(* renewLock: a Redis outage answers "no", whether or not Redis renewed. *)
RenewFails(r) ==
  /\ run[r].pc = "poll" /\ run[r].timer = 0
  /\ Fault("redis")
  /\ lock' \in {lock, Renewed(r)}
  /\ run' = [run EXCEPT ![r].held = FALSE, ![r].timer = RenewEvery]
  /\ UNCHANGED <<read, worker, trigger, orphaned>>

(* Promise.race: the first worker to return ends the run. *)
MutFinish(r) ==
  /\ run[r].pc = "poll" /\ \E w \in Workers : worker[r][w].pc = "off"
  /\ Goto(r, "release")
  /\ UNCHANGED <<lock, read, worker, trigger, faults, orphaned>>

(* Promise.all resolves once every worker has returned. *)
Finish(r) ==
  /\ run[r].pc = "poll" /\ ~Working(r)
  /\ Goto(r, "release")
  /\ UNCHANGED <<lock, read, worker, trigger, faults, orphaned>>

----------------------------------------------------------------------------
(* pollLocations and pollLocation: one worker *)

WorkerGoto(r, w, pc) == worker' = [worker EXCEPT ![r][w] = [Off EXCEPT !.pc = pc]]

(* while (heldLock()): the next location of the shared queue, or the end. *)
Loop(r, w) ==
  /\ worker[r][w].pc = "loop"
  /\ IF run[r].held /\ run[r].queue # {}
     THEN \E l \in run[r].queue :
            /\ run' = [run EXCEPT ![r].queue = @ \ {l}]
            /\ worker' = [worker EXCEPT ![r][w] =
                 [pc |-> "fetch", age |-> 0,
                  todo |-> {t \in Triggers : LocationOf[t] = l /\ read[r][t].found}]]
     ELSE WorkerGoto(r, w, "off") /\ UNCHANGED run
  /\ UNCHANGED <<lock, read, trigger, faults, orphaned>>

(* getSnapshot; a location that cannot be fetched is left to the next run. *)
Fetch(r, w) ==
  /\ worker[r][w].pc = "fetch"
  /\ \/ worker' = [worker EXCEPT ![r][w].pc = "process"]
     \/ WorkerGoto(r, w, "loop")
  /\ UNCHANGED <<lock, run, read, trigger, faults, orphaned>>

(* The loop over the group, which findActive read in no particular order.  *)
Current(r, w, t) == worker[r][w].pc = "process" /\ t \in worker[r][w].todo

Processed(r, w, t) ==
  IF worker[r][w].todo = {t} THEN WorkerGoto(r, w, "loop")
  ELSE worker' = [worker EXCEPT ![r][w].todo = @ \ {t}]

(* What commitFire writes.  The state a REARM writes is left out: decide   *)
(* does not ask for it where it fires (see TriggerLifecycle).              *)
Written(t, d) == IF d = "FIRE" THEN [t EXCEPT !.since = 0] ELSE t

(* No cooldown while the trigger is armed. *)
MutDecisionOf(r, t, matched, quiet) == D!Decide("ARMED", D!Null, Cooldown, matched, quiet)

(* The decision is taken on what the run read. *)
DecisionOf(r, t, matched, quiet) ==
  D!Decide("ARMED", read[r][t].since, Cooldown, matched, quiet)

Decided(r, t) == {DecisionOf(r, t, matched, quiet) : matched, quiet \in BOOLEAN}

Commits(r, w, t, d) ==
  /\ Current(r, w, t) /\ ~read[r][t].stale /\ d \in Decided(r, t)
  /\ trigger' = [trigger EXCEPT ![t] = Written(@, d)]

(* processTrigger: one transaction and, after a firing, a relay pass. *)
Process(r, w, t) ==
  /\ \E d \in Decided(r, t) : Commits(r, w, t, d)
  /\ Processed(r, w, t)
  /\ UNCHANGED <<lock, run, read, faults, orphaned>>

(* A worker rejects: Promise.all rejects with it, the timer is cleared and *)
(* the run goes on to release the lock.  Its siblings notice nothing.      *)
Throw(r, w) ==
  /\ WorkerGoto(r, w, "off")
  /\ IF run[r].pc = "poll" THEN Goto(r, "release") ELSE UNCHANGED run
  /\ orphaned' = (orphaned \/ \E v \in Workers \ {w} : worker[r][v].pc # "off")

(* The owner deleted the trigger or replaced its conditions since the run  *)
(* read them: the update finds no row and the transaction fails.           *)
WriteThrows(r, w, t) ==
  /\ Current(r, w, t) /\ read[r][t].stale
  /\ Throw(r, w)
  /\ UNCHANGED <<lock, read, trigger, faults>>

(* The transaction fails, or flush does after the commit of a firing. *)
DatabaseThrows(r, w, t) ==
  /\ Current(r, w, t) /\ Fault("database")
  /\ UNCHANGED trigger \/ Commits(r, w, t, "FIRE")
  /\ Throw(r, w)
  /\ UNCHANGED <<lock, read>>

----------------------------------------------------------------------------
(* The environment *)

Crash(r) ==
  /\ run[r].pc # "idle" \/ Working(r)
  /\ Fault("crash")
  /\ Goto(r, "idle")
  /\ worker' = [worker EXCEPT ![r] = NoWorkers]
  /\ UNCHANGED <<lock, read, trigger, orphaned>>

(* The owner replaces the conditions of a trigger, or deletes it. *)
Edit(t) ==
  /\ trigger[t].exists
  /\ Fault("edit")
  /\ \E e \in BOOLEAN : trigger' = [trigger EXCEPT ![t].exists = e]
  /\ read' = [r \in Runs |-> [read[r] EXCEPT ![t].stale = @ \/ read[r][t].found]]
  /\ UNCHANGED <<lock, run, worker, orphaned>>

Age(n) == IF n = Cooldown THEN n ELSE n + 1

(* A run whose last worker has returned; what it read is garbage. *)
Gone(r) == run[r].pc = "idle" /\ ~Working(r)

(* SET without EX: the lock of a dead run stays. *)
MutExpired(l) == l

(* The TTL of the key *)
Expired(l) == IF l.left > 1 THEN [l EXCEPT !.left = @ - 1] ELSE FreeLock

(* Timers fire on time, workers look at the lock as soon as they can, and  *)
(* findActive and a location take no longer than their bounds.             *)
Tick ==
  /\ \A r \in Runs :
       /\ run[r].pc = "poll" => run[r].timer > 0 /\ Working(r)
       /\ run[r].pc \in {"find", "release"} => run[r].age < FindBound
       /\ \A w \in Workers :
            /\ worker[r][w].pc # "loop"
            /\ worker[r][w].pc # "off" => worker[r][w].age < GroupBound
  /\ lock' = Expired(lock)
  /\ run' = [r \in Runs |->
       CASE Gone(r) -> IdleRun
         [] run[r].pc = "poll" -> [run[r] EXCEPT !.timer = @ - 1]
         [] run[r].pc \in {"find", "release"} -> [run[r] EXCEPT !.age = @ + 1]
         [] OTHER -> run[r]]
  /\ read' = [r \in Runs |-> [t \in Triggers |->
       IF Gone(r) THEN NotRead ELSE [read[r][t] EXCEPT !.since = Age(@)]]]
  /\ worker' = [r \in Runs |-> [w \in Workers |->
       IF worker[r][w].pc = "off" THEN Off ELSE [worker[r][w] EXCEPT !.age = @ + 1]]]
  /\ trigger' = [t \in Triggers |-> [trigger[t] EXCEPT !.since = Age(@)]]
  /\ UNCHANGED <<faults, orphaned>>

RunStep(r) == FindActive(r) \/ Renew(r) \/ Finish(r) \/ Release(r)
RunFault(r) == FindFails(r) \/ RenewFails(r) \/ ReleaseFails(r) \/ Crash(r)
WorkerStep(r, w) ==
  \/ Loop(r, w) \/ Fetch(r, w)
  \/ \E t \in worker[r][w].todo : Process(r, w, t) \/ WriteThrows(r, w, t)

Next ==
  \/ \E r \in Runs : Acquire(r) \/ RunStep(r) \/ RunFault(r)
  \/ \E r \in Runs, w \in Workers :
       \/ WorkerStep(r, w)
       \/ \E t \in worker[r][w].todo : DatabaseThrows(r, w, t)
  \/ \E t \in Triggers : Edit(t)
  \/ Tick

Spec == Init /\ [][Next]_vars

(* The cron starts a run whenever the lock is free, what began goes on and *)
(* time passes.                                                            *)
FairSpec ==
  /\ Spec
  /\ WF_vars(\E r \in Runs : Acquire(r))
  /\ \A r \in Runs : WF_vars(RunStep(r))
  /\ \A r \in Runs, w \in Workers : WF_vars(WorkerStep(r, w))
  /\ WF_vars(Tick)

----------------------------------------------------------------------------
(* Properties *)

RunRecord    == [pc: {"idle", "find", "poll", "release"}, held: BOOLEAN,
                 timer: 0..RenewEvery, age: 0..FindBound, queue: SUBSET Locations]
WorkerRecord == [pc: {"off", "loop", "fetch", "process"}, todo: SUBSET Triggers,
                 age: 0..GroupBound]
ReadRecord   == [found: BOOLEAN, stale: BOOLEAN, since: 0..Cooldown]

(* Every variable keeps its type: a worker is busy exactly while it has    *)
(* triggers left, within the bound of a location.                          *)
TypeOK ==
  /\ lock \in [by: Runs \cup {None}, left: 0..LockTTL]
  /\ run \in [Runs -> RunRecord]
  /\ worker \in [Runs -> [Workers -> WorkerRecord]]
  /\ \A r \in Runs, w \in Workers :
       worker[r][w].pc \in {"fetch", "process"} <=> worker[r][w].todo # {}
  /\ read \in [Runs -> [Triggers -> ReadRecord]]
  /\ trigger \in [Triggers -> [exists: BOOLEAN, since: 0..Cooldown]]
  /\ faults \in 0..MaxFaults /\ orphaned \in BOOLEAN

Polling(r)  == run[r].pc = "find" \/ Working(r)
Orphaned(r) == orphaned /\ Working(r) /\ run[r].pc # "poll"

(* runCycle: "Distributed lock so a slow cycle never overlaps with the     *)
(* next tick".  However long a cycle lasts, whoever dies, whatever renewal *)
(* fails and whichever worker throws, no two runs poll the same shard at   *)
(* once, but for workers whose run ended because a sibling of theirs threw.*)
OneCycle ==
  \A r, s \in Runs : Polling(r) /\ Polling(s) => r = s \/ Orphaned(r) \/ Orphaned(s)

(* No two alerts of one trigger within its cooldown, although every run    *)
(* decides on the lastFiredAt it read before it started polling, as long   *)
(* as no run left workers behind.                                          *)
OneAlertPerCooldown ==
  [][\A r \in Runs, w \in Workers, t \in Triggers :
       Commits(r, w, t, "FIRE") /\ ~orphaned => trigger[t].since = Cooldown]_vars

(* A dead, stopped or failed cycle only delays the next: every location    *)
(* that has triggers is polled again and again.                            *)
EveryLocationPolled ==
  \A l \in Locations :
    LET here == {t \in Triggers : LocationOf[t] = l} IN
    []<>(\/ \E r \in Runs, w \in Workers : worker[r][w].todo \cap here # {}
         \/ \A t \in here : ~trigger[t].exists)
=============================================================================
