----------------------------- MODULE OutboxRelay -----------------------------
(***************************************************************************)
(* The transactional outbox: rows staged by commitFire and the relay       *)
(* passes that publish them (OutboxRelayService.flush, called after a      *)
(* firing and by the cron, PrismaOutboxRepository), each under the Redis   *)
(* lock watcher:outbox:lock (RedisService), which no pass renews.          *)
(***************************************************************************)
EXTENDS Integers, FiniteSets

CONSTANTS
  Rows,        \* outbox rows, one per (eventId, routingKey)
  Passes,      \* identities of concurrent relay passes (bounds them)
  Batch,       \* OUTBOX_BATCH_SIZE
  LockTTL,     \* RELAY_LOCK_TTL_SEC, in ticks
  PassBound,   \* how long a pass can last from acquire to release
  MaxFaults,   \* how many crashes, refused publishes and failed queries happen
  None

ASSUME RelayAssumption ==
  /\ Batch \in Nat \ {0} /\ LockTTL \in Nat \ {0}
  /\ PassBound \in Nat /\ MaxFaults \in Nat
  /\ None \notin Passes
  /\ IsFiniteSet(Rows)

VARIABLES
  created,    \* createdAt of each row: its place in the order of creation, or 0
  row,        \* where each row is: see RowStates
  lock,       \* the Redis key: who holds it and for how long
  pass,       \* the relay passes
  faults,     \* faults so far
  accepted,   \* history: the rows the broker has accepted
  seen        \* history: the rows each running pass found pending

vars == <<created, row, lock, pass, faults, accepted, seen>>

RowStates == {"none", "writing", "aborted", "pending", "published", "pruned"}
FreeLock  == [by |-> None, left |-> 0]
IdlePass  == [pc |-> "idle", todo |-> {}, done |-> {}, age |-> 0]
Running   == {"find", "publish", "mark", "release"}

Init ==
  /\ created = [r \in Rows |-> 0]
  /\ row = [r \in Rows |-> "none"]
  /\ lock = FreeLock
  /\ pass = [p \in Passes |-> IdlePass]
  /\ faults = 0
  /\ accepted = {}
  /\ seen = [p \in Passes |-> {}]

Fault == faults < MaxFaults /\ faults' = faults + 1

Goto(p, pc) == pass' = [pass EXCEPT ![p].pc = pc]

----------------------------------------------------------------------------
(* commitFire: createdAt is given before the transaction commits *)

Stage(r) ==
  /\ row[r] = "none"
  /\ created' = [created EXCEPT ![r] = Cardinality({q \in Rows : created[q] > 0}) + 1]
  /\ row' = [row EXCEPT ![r] = "writing"]
  /\ UNCHANGED <<lock, pass, faults, accepted, seen>>

Commit(r) ==
  /\ row[r] = "writing"
  /\ row' = [row EXCEPT ![r] = "pending"]
  /\ UNCHANGED <<created, lock, pass, faults, accepted, seen>>

(* The transaction fails: neither the row nor its trigger's state exists,  *)
(* and a later firing is another event.                                    *)
Abort(r) ==
  /\ row[r] = "writing"
  /\ Fault
  /\ row' = [row EXCEPT ![r] = "aborted"]
  /\ UNCHANGED <<created, lock, pass, accepted, seen>>

----------------------------------------------------------------------------
(* RedisService: SET NX EX, and the compare-and-delete of releaseLock *)

Acquire(p) ==
  /\ pass[p].pc = "idle"
  /\ lock.by = None
  /\ lock' = [by |-> p, left |-> LockTTL]
  /\ pass' = [pass EXCEPT ![p] = [IdlePass EXCEPT !.pc = "find"]]
  /\ UNCHANGED <<created, row, faults, accepted, seen>>

(* Deletes the key whoever holds it. *)
MutReleased(p) == FreeLock

Released(p) == IF lock.by = p THEN FreeLock ELSE lock

Release(p) ==
  /\ pass[p].pc = "release"
  /\ lock' = Released(p)
  /\ pass' = [pass EXCEPT ![p] = IdlePass]
  /\ seen' = [seen EXCEPT ![p] = {}]
  /\ UNCHANGED <<created, row, faults, accepted>>

----------------------------------------------------------------------------
(* publishPending *)

Pending == {r \in Rows : row[r] = "pending"}

(* where publishedAt is null, order by createdAt, take limit *)
FindPending ==
  {r \in Pending : Cardinality({q \in Pending : created[q] < created[r]}) < Batch}

Find(p) ==
  /\ pass[p].pc = "find"
  /\ pass' = [pass EXCEPT ![p].pc = IF FindPending = {} THEN "release" ELSE "publish",
                          ![p].todo = FindPending]
  /\ seen' = [seen EXCEPT ![p] = Pending]
  /\ UNCHANGED <<created, row, lock, faults, accepted>>

(* The newest row first: a missing or reversed orderBy. *)
MutIsNext(p, r) == r \in pass[p].todo /\ \A q \in pass[p].todo : created[q] <= created[r]

(* The loop takes the batch in the order of the query. *)
IsNext(p, r) == r \in pass[p].todo /\ \A q \in pass[p].todo : created[r] <= created[q]

(* The broker confirms the next row of the batch. *)
Publish(p, r) ==
  /\ pass[p].pc = "publish"
  /\ IsNext(p, r)
  /\ accepted' = accepted \cup {r}
  /\ pass' = [pass EXCEPT ![p].todo = @ \ {r}, ![p].done = @ \cup {r}]
  /\ UNCHANGED <<created, row, lock, faults, seen>>

Exhausted(p) ==
  /\ pass[p].pc = "publish"
  /\ pass[p].todo = {}
  /\ Goto(p, "mark")
  /\ UNCHANGED <<created, row, lock, faults, accepted, seen>>

(* A refused publish ends the batch; so does one whose confirm is lost     *)
(* although the broker has the message.                                    *)
PublishFails(p, r) ==
  /\ pass[p].pc = "publish"
  /\ IsNext(p, r)
  /\ Fault
  /\ accepted' \in {accepted, accepted \cup {r}}
  /\ Goto(p, "mark")
  /\ UNCHANGED <<created, row, lock, seen>>

(* Marks the whole batch, the rows a refusal cut off included. *)
MutToMark(p) == seen[p]

(* markPublished(ids) *)
ToMark(p) == pass[p].done

Mark(p) ==
  /\ pass[p].pc = "mark"
  /\ row' = [r \in Rows |-> IF r \in ToMark(p) /\ row[r] # "pruned" THEN "published" ELSE row[r]]
  /\ Goto(p, "release")
  /\ UNCHANGED <<created, lock, faults, accepted, seen>>

(* A query throws: the finally block still releases. *)
QueryFails(p) ==
  /\ pass[p].pc \in {"find", "mark"}
  /\ Fault
  /\ Goto(p, "release")
  /\ UNCHANGED <<created, row, lock, accepted, seen>>

(* Redis does not answer the release: the lock is left to its TTL. *)
ReleaseFails(p) ==
  /\ pass[p].pc = "release"
  /\ Fault
  /\ pass' = [pass EXCEPT ![p] = IdlePass]
  /\ seen' = [seen EXCEPT ![p] = {}]
  /\ UNCHANGED <<created, row, lock, accepted>>

Crash(p) ==
  /\ pass[p].pc # "idle"
  /\ Fault
  /\ pass' = [pass EXCEPT ![p] = IdlePass]
  /\ seen' = [seen EXCEPT ![p] = {}]
  /\ UNCHANGED <<created, row, lock, accepted>>

(* pruneRelayed, once the row is RETENTION_HOURS past its publishedAt *)
PruneRelayed(r) ==
  /\ row[r] = "published"
  /\ row' = [row EXCEPT ![r] = "pruned"]
  /\ UNCHANGED <<created, lock, pass, faults, accepted, seen>>

(* SET NX without EX: the lock of a dead pass stays. *)
MutExpired == lock

Expired == IF lock.left > 1 THEN [lock EXCEPT !.left = @ - 1] ELSE FreeLock

Tick ==
  /\ \A p \in Passes : pass[p].pc \in Running => pass[p].age < PassBound
  /\ pass' = [p \in Passes |-> IF pass[p].pc \in Running THEN [pass[p] EXCEPT !.age = @ + 1]
                                                         ELSE pass[p]]
  /\ lock' = Expired
  /\ UNCHANGED <<created, row, faults, accepted, seen>>

PassStep(p) ==
  Find(p) \/ (\E r \in Rows : Publish(p, r)) \/ Exhausted(p) \/ Mark(p) \/ Release(p)
PassFault(p) ==
  (\E r \in Rows : PublishFails(p, r)) \/ QueryFails(p) \/ ReleaseFails(p) \/ Crash(p)

Next ==
  \/ \E r \in Rows : Stage(r) \/ Commit(r) \/ Abort(r) \/ PruneRelayed(r)
  \/ \E p \in Passes : Acquire(p) \/ PassStep(p) \/ PassFault(p)
  \/ Tick

Spec == Init /\ [][Next]_vars

(* The cron starts a pass whenever the lock is free, a pass in progress    *)
(* goes on, an open transaction commits and time passes.                   *)
FairSpec ==
  /\ Spec
  /\ \A r \in Rows : WF_vars(Commit(r))
  /\ WF_vars(\E p \in Passes : Acquire(p))
  /\ \A p \in Passes : WF_vars(PassStep(p))
  /\ WF_vars(Tick)

----------------------------------------------------------------------------
(* Properties *)

(* Every variable keeps its type: the lock never outlives its TTL and no   *)
(* pass its bound.                                                         *)
TypeOK ==
  /\ created \in [Rows -> Nat]
  /\ row \in [Rows -> RowStates]
  /\ lock \in [by: Passes \cup {None}, left: 0..LockTTL]
  /\ pass \in [Passes -> [pc: Running \cup {"idle"}, todo: SUBSET Rows,
                          done: SUBSET Rows, age: 0..PassBound]]
  /\ faults \in 0..MaxFaults
  /\ accepted \subseteq Rows
  /\ seen \in [Passes -> SUBSET Rows]

(* A row is marked, and may be swept, only once the broker has it: a batch *)
(* cut short by a refusal, a crash or a failed query never marks the rest. *)
NoRowLost ==
  \A r \in Rows : row[r] \in {"published", "pruned"} => r \in accepted

(* The fenced lock keeps the passes that still own their lease apart, even *)
(* when an overrunning pass finishes and releases after its TTL.           *)
Fresh(p) == pass[p].pc \in Running /\ pass[p].age < LockTTL

OneFreshPass == \A p, q \in Passes : Fresh(p) /\ Fresh(q) => p = q

(* "Order is kept" (publishPending): when a row is handed to the broker    *)
(* for the first time, every row created before it that the pass found     *)
(* pending has already been handed over, whatever other passes do.         *)
OrderIsKept ==
  [][\A p \in Passes, r \in Rows :
       Publish(p, r) => \A q \in seen[p] : created[q] < created[r] => q \in accepted]_vars

(* "A staged row is never lost by failing here" (runRelay), "marking rows  *)
(* only after the broker has accepted them" (flush): the relay implements  *)
(* Handover. A committed row stays owed until the broker has it, is closed *)
(* only then, and reaches it eventually, whatever pass crashed over it,    *)
(* left its lock behind or published it beside another one.                *)
H == INSTANCE Handover WITH
  Items <- Rows, owed <- Pending, given <- accepted,
  closed <- {r \in Rows : row[r] \in {"published", "pruned"}}

RelayHandsOver == H!Spec
=============================================================================
