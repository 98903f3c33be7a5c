-------------------------- MODULE OutboxRelayProofs --------------------------
(***************************************************************************)
(* The properties of OutboxRelay, for every number of rows and passes,     *)
(* every batch size and every TTL, and its refinement of Handover.         *)
(***************************************************************************)
EXTENDS OutboxRelay, FiniteSetTheorems, TLAPS

PassRecord == [pc: Running \cup {"idle"}, todo: SUBSET Rows, done: SUBSET Rows, age: 0..PassBound]

Committed == {"pending", "published", "pruned"}

(* What a pass found, has to publish or has published is in the table. *)
WorksOnCommitted ==
  \A p \in Passes : \A r \in pass[p].todo \cup pass[p].done \cup seen[p] : row[r] \in Committed

(* A pass that has not asked yet has no batch. *)
StartsEmpty ==
  \A p \in Passes : pass[p].pc = "find" => pass[p].todo = {} /\ pass[p].done = {}

(* A pass marks what the broker has accepted. *)
DoneIsAccepted == \A p \in Passes : pass[p].done \subseteq accepted

(* A batch has no gaps: what a pass found pending and is older than a row  *)
(* of its batch is in the batch too.                                       *)
NoGap(p) ==
  \A r \in pass[p].todo \cup pass[p].done, q \in seen[p] :
    created[q] < created[r] => q \in pass[p].todo \cup pass[p].done

NoGaps == \A p \in Passes : NoGap(p)

(* A pass younger than the TTL still holds the lock, for at least the time *)
(* it has left.                                                            *)
LeaseHeld ==
  \A p \in Passes : Fresh(p) => lock.by = p /\ lock.left + pass[p].age >= LockTTL

(* The inductive invariant.  NoRowLost needs DoneIsAccepted, OneFreshPass  *)
(* needs LeaseHeld, the order needs NoGaps, and the refinement that passes *)
(* work on committed rows only.                                            *)
RelayInv ==
  /\ TypeOK
  /\ WorksOnCommitted
  /\ StartsEmpty
  /\ DoneIsAccepted
  /\ NoRowLost
  /\ NoGaps
  /\ LeaseHeld

(* The fields of a pass. *)
LEMMA PassFields ==
  ASSUME TypeOK, NEW p \in Passes
  PROVE  /\ pass[p] \in PassRecord
         /\ pass[p].pc \in Running \cup {"idle"} /\ pass[p].todo \subseteq Rows
         /\ pass[p].done \subseteq Rows /\ pass[p].age \in 0..PassBound
<1>1. pass[p] \in PassRecord
  BY DEF TypeOK, PassRecord
<1>2. QED
  BY <1>1 DEF PassRecord

(* The record of a pass that is not running. *)
LEMMA IdleFields ==
  /\ IdlePass \in PassRecord /\ IdlePass.pc = "idle"
  /\ IdlePass.todo = {} /\ IdlePass.done = {} /\ IdlePass.age = 0
  BY RelayAssumption DEF IdlePass, PassRecord

(* Goto moves the program counter of one pass. *)
LEMMA GotoFacts ==
  ASSUME TypeOK, NEW p \in Passes, NEW pc \in Running, Goto(p, pc)
  PROVE  /\ pass' \in [Passes -> PassRecord]
         /\ \A q \in Passes \ {p} : pass'[q] = pass[q]
         /\ pass'[p].pc = pc /\ pass'[p].todo = pass[p].todo
         /\ pass'[p].done = pass[p].done /\ pass'[p].age = pass[p].age
<1> DEFINE r == [pass[p] EXCEPT !.pc = pc]
<1>1. pass[p] \in PassRecord
  BY PassFields
<1>2. r \in PassRecord /\ r.pc = pc /\ r.todo = pass[p].todo /\ r.done = pass[p].done /\ r.age = pass[p].age
  BY <1>1 DEF PassRecord
<1>3. pass' = [pass EXCEPT ![p] = r]
  BY DEF Goto
<1>4. pass \in [Passes -> PassRecord]
  BY DEF TypeOK, PassRecord
<1> HIDE DEF r
<1>5. QED
  BY <1>2, <1>3, <1>4

(* A pass that ends is idle again; the others do not move. *)
LEMMA EndFacts ==
  ASSUME TypeOK, NEW p \in Passes, pass' = [pass EXCEPT ![p] = IdlePass]
  PROVE  /\ pass' \in [Passes -> PassRecord]
         /\ \A q \in Passes \ {p} : pass'[q] = pass[q]
         /\ pass'[p] = IdlePass
<1>1. pass \in [Passes -> PassRecord]
  BY DEF TypeOK, PassRecord
<1>2. QED
  BY <1>1, IdleFields


(* What no step undoes: a committed row stays in the table where it is in  *)
(* the order, and what the broker has it keeps.                            *)
Monotone ==
  /\ \A r \in Rows : row[r] \in Committed => row'[r] \in Committed /\ created'[r] = created[r]
  /\ accepted \subseteq accepted'

(* A step of one pass keeps the parts of the invariant about batches if it *)
(* keeps them for that pass.                                               *)
LEMMA BatchesKept ==
  ASSUME RelayInv, Monotone, NEW p \in Passes,
         \A q \in Passes \ {p} : pass'[q] = pass[q] /\ seen'[q] = seen[q],
         pass'[p].todo \cup pass'[p].done \cup seen'[p] \subseteq Rows,
         \A r \in pass'[p].todo \cup pass'[p].done \cup seen'[p] : row'[r] \in Committed,
         pass'[p].pc = "find" => pass'[p].todo = {} /\ pass'[p].done = {},
         pass'[p].done \subseteq accepted',
         NoGap(p)'
  PROVE  (WorksOnCommitted /\ StartsEmpty /\ DoneIsAccepted /\ NoGaps)'
<1>1. ASSUME NEW q \in Passes \ {p}
      PROVE  /\ \A r \in pass'[q].todo \cup pass'[q].done \cup seen'[q] : row'[r] \in Committed
             /\ pass'[q].pc = "find" => pass'[q].todo = {} /\ pass'[q].done = {}
             /\ pass'[q].done \subseteq accepted'
             /\ NoGap(q)'
  <2>1. pass'[q] = pass[q] /\ seen'[q] = seen[q]
    BY <1>1
  <2>2. pass[q].todo \cup pass[q].done \cup seen[q] \subseteq Rows
    BY PassFields DEF RelayInv, TypeOK
  <2>3. \A r \in pass[q].todo \cup pass[q].done \cup seen[q] :
          row'[r] \in Committed /\ created'[r] = created[r]
    BY <2>2 DEF RelayInv, WorksOnCommitted, Monotone
  <2>4. NoGap(q)'
    BY <2>1, <2>3 DEF RelayInv, NoGaps, NoGap
  <2>5. QED
    BY <2>1, <2>3, <2>4 DEF RelayInv, StartsEmpty, DoneIsAccepted, Monotone
<1>2. QED
  BY <1>1 DEF WorksOnCommitted, StartsEmpty, DoneIsAccepted, NoGaps

(* A step that moves no pass keeps them. *)
LEMMA BatchesUntouched ==
  ASSUME RelayInv, Monotone, seen' = seen,
         \A q \in Passes : /\ pass'[q].todo = pass[q].todo /\ pass'[q].done = pass[q].done
                           /\ pass'[q].pc = pass[q].pc
  PROVE  (WorksOnCommitted /\ StartsEmpty /\ DoneIsAccepted /\ NoGaps)'
<1>1. ASSUME NEW q \in Passes
      PROVE  /\ \A r \in pass'[q].todo \cup pass'[q].done \cup seen'[q] : row'[r] \in Committed
             /\ pass'[q].pc = "find" => pass'[q].todo = {} /\ pass'[q].done = {}
             /\ pass'[q].done \subseteq accepted'
             /\ NoGap(q)'
  <2>1. /\ pass'[q].todo = pass[q].todo /\ pass'[q].done = pass[q].done
        /\ pass'[q].pc = pass[q].pc /\ seen'[q] = seen[q]
    BY <1>1
  <2>2. pass[q].todo \cup pass[q].done \cup seen[q] \subseteq Rows
    BY PassFields DEF RelayInv, TypeOK
  <2>3. \A r \in pass[q].todo \cup pass[q].done \cup seen[q] :
          row'[r] \in Committed /\ created'[r] = created[r]
    BY <2>2 DEF RelayInv, WorksOnCommitted, Monotone
  <2>4. NoGap(q)'
    BY <2>1, <2>3 DEF RelayInv, NoGaps, NoGap
  <2>5. QED
    BY <2>1, <2>3, <2>4 DEF RelayInv, StartsEmpty, DoneIsAccepted, Monotone
<1>2. QED
  BY <1>1 DEF WorksOnCommitted, StartsEmpty, DoneIsAccepted, NoGaps

(* The lease: a step that leaves the lock alone and lets no pass begin     *)
(* keeps every fresh pass its lease.                                       *)
LEMMA LeaseKept ==
  ASSUME LeaseHeld, lock' = lock,
         \A q \in Passes : pass'[q].pc \in Running =>
           pass[q].pc \in Running /\ pass'[q].age = pass[q].age
  PROVE  LeaseHeld'
  BY DEF LeaseHeld, Fresh

(* The oldest pending rows have no gap: whatever is older than one of them *)
(* has fewer rows before it.                                               *)
LEMMA OldestHaveNoGap ==
  ASSUME TypeOK, NEW r \in FindPending, NEW q \in Pending, created[q] < created[r]
  PROVE  q \in FindPending
<1> DEFINE Older(x) == {y \in Pending : created[y] < created[x]}
<1>1. r \in Rows /\ q \in Rows /\ Pending \subseteq Rows
  BY DEF FindPending, Pending
<1>2. Older(q) \subseteq Older(r)
  BY <1>1 DEF TypeOK
<1>3. IsFiniteSet(Older(r))
  BY <1>1, FS_Subset, RelayAssumption
<1>4. /\ Cardinality(Older(q)) \in Nat /\ Cardinality(Older(r)) \in Nat
      /\ Cardinality(Older(q)) <= Cardinality(Older(r))
  BY <1>2, <1>3, FS_Subset, FS_CardinalityType
<1>5. Cardinality(Older(r)) < Batch
  BY DEF FindPending
<1>6. QED
  BY <1>4, <1>5, RelayAssumption DEF FindPending


(* The initial states. *)
LEMMA InitRelayInv == Init => RelayInv
<1> SUFFICES ASSUME Init PROVE RelayInv
  OBVIOUS
<1>1. \A p \in Passes : pass[p] = IdlePass /\ seen[p] = {}
  BY DEF Init
<1>2. TypeOK
  <2>1. lock \in [by: Passes \cup {None}, left: 0..LockTTL]
    BY RelayAssumption DEF Init, FreeLock
  <2>2. pass \in [Passes -> PassRecord]
    BY IdleFields DEF Init
  <2>3. QED
    BY <2>1, <2>2, RelayAssumption DEF Init, TypeOK, PassRecord, RowStates
<1>3. WorksOnCommitted /\ StartsEmpty /\ DoneIsAccepted /\ NoGaps /\ LeaseHeld
  BY <1>1, IdleFields
  DEF WorksOnCommitted, StartsEmpty, DoneIsAccepted, NoGaps, NoGap, LeaseHeld, Fresh, Running
<1>4. NoRowLost
  BY DEF Init, NoRowLost
<1>5. QED
  BY <1>2, <1>3, <1>4 DEF RelayInv

(* A firing writes a row: it is new, so no pass has seen it. *)
LEMMA RowStepKeeps ==
  ASSUME RelayInv, NEW r \in Rows, Stage(r) \/ Commit(r) \/ Abort(r) \/ PruneRelayed(r)
  PROVE  RelayInv'
<1>1. /\ row' \in [Rows -> RowStates] /\ created' \in [Rows -> Nat] /\ faults' \in 0..MaxFaults
      /\ \A q \in Rows \ {r} : row'[q] = row[q] /\ created'[q] = created[q]
      /\ row[r] = "none" \/ created'[r] = created[r]
      /\ row'[r] \in {"published", "pruned"} => row[r] \in {"published", "pruned"}
      /\ row[r] \in Committed => row'[r] \in Committed
  <2>1. CASE Stage(r)
    <3>1. Cardinality({q \in Rows : created[q] > 0}) \in Nat
      BY FS_Subset, FS_CardinalityType, RelayAssumption
    <3>2. QED
      BY <2>1, <3>1 DEF Stage, RelayInv, TypeOK, RowStates, Committed
  <2>2. CASE Commit(r)
    BY <2>2 DEF Commit, RelayInv, TypeOK, RowStates, Committed
  <2>3. CASE Abort(r)
    BY <2>3, RelayAssumption DEF Abort, Fault, RelayInv, TypeOK, RowStates, Committed
  <2>4. CASE PruneRelayed(r)
    BY <2>4 DEF PruneRelayed, RelayInv, TypeOK, RowStates, Committed
  <2>5. QED
    BY <2>1, <2>2, <2>3, <2>4
<1>2. UNCHANGED <<lock, pass, accepted, seen>>
  BY DEF Stage, Commit, Abort, PruneRelayed
<1>3. Monotone
  BY <1>1, <1>2 DEF Monotone, Committed
<1>4. TypeOK'
  BY <1>1, <1>2 DEF RelayInv, TypeOK
<1>5. (WorksOnCommitted /\ StartsEmpty /\ DoneIsAccepted /\ NoGaps)'
  BY <1>2, <1>3, BatchesUntouched
<1>6. NoRowLost'
  BY <1>1, <1>2 DEF RelayInv, NoRowLost
<1>7. LeaseHeld'
  BY <1>2 DEF RelayInv, LeaseHeld, Fresh
<1>8. QED
  BY <1>4, <1>5, <1>6, <1>7 DEF RelayInv

(* A pass takes the free lock: no other pass is fresh. *)
LEMMA AcquireKeeps ==
  ASSUME RelayInv, NEW p \in Passes, Acquire(p)
  PROVE  RelayInv'
<1> DEFINE new == [IdlePass EXCEPT !.pc = "find"]
<1>1. new \in PassRecord /\ new.pc = "find" /\ new.todo = {} /\ new.done = {} /\ new.age = 0
  BY RelayAssumption DEF IdlePass, PassRecord, Running
<1>2. pass' = [pass EXCEPT ![p] = new] /\ lock' = [by |-> p, left |-> LockTTL]
  BY DEF Acquire
<1>3. UNCHANGED <<created, row, faults, accepted, seen>> /\ lock.by = None
  BY DEF Acquire
<1> HIDE DEF new
<1>4. /\ pass' \in [Passes -> PassRecord] /\ pass'[p] = new
      /\ \A q \in Passes \ {p} : pass'[q] = pass[q]
  BY <1>1, <1>2 DEF RelayInv, TypeOK, PassRecord
<1>5. TypeOK'
  BY <1>2, <1>3, <1>4, RelayAssumption DEF RelayInv, TypeOK, PassRecord
<1>6. (WorksOnCommitted /\ StartsEmpty /\ DoneIsAccepted /\ NoGaps)'
  <2>1. Monotone
    BY <1>3 DEF Monotone
  <2>2. \A r \in seen'[p] : row'[r] \in Committed
    BY <1>3 DEF RelayInv, WorksOnCommitted
  <2>3. NoGap(p)'
    BY <1>1, <1>4 DEF NoGap
  <2>4. seen'[p] \subseteq Rows /\ \A q \in Passes : seen'[q] = seen[q]
    BY <1>3 DEF RelayInv, TypeOK
  <2>5. QED
    BY <1>1, <1>4, <2>1, <2>2, <2>3, <2>4, BatchesKept
<1>7. NoRowLost'
  BY <1>3 DEF RelayInv, NoRowLost
<1>8. LeaseHeld'
  <2>1. \A q \in Passes : ~Fresh(q)
    BY <1>3, RelayAssumption DEF RelayInv, LeaseHeld
  <2>2. \A q \in Passes \ {p} : ~Fresh(q)'
    BY <1>4, <2>1 DEF Fresh
  <2>3. lock'.by = p /\ lock'.left + pass'[p].age >= LockTTL
    BY <1>1, <1>2, <1>4, RelayAssumption
  <2>4. QED
    BY <2>2, <2>3 DEF LeaseHeld
<1>9. QED
  BY <1>5, <1>6, <1>7, <1>8 DEF RelayInv

(* The query returns the oldest pending rows, a batch without gaps. *)
LEMMA FindKeeps ==
  ASSUME RelayInv, NEW p \in Passes, Find(p)
  PROVE  RelayInv'
<1> DEFINE pc == IF FindPending = {} THEN "release" ELSE "publish"
           new == [pass[p] EXCEPT !.pc = pc, !.todo = FindPending]
<1>1. FindPending \subseteq Pending /\ Pending \subseteq Rows
  BY DEF FindPending, Pending
<1>2. pass[p] \in PassRecord /\ pass[p].pc = "find" /\ pass[p].done = {}
  BY PassFields DEF Find, RelayInv, StartsEmpty
<1>3. /\ new \in PassRecord /\ new.pc = pc /\ new.todo = FindPending
      /\ new.done = {} /\ new.age = pass[p].age
  BY <1>1, <1>2 DEF PassRecord, Running
<1>4. pass' = [pass EXCEPT ![p] = new]
  BY DEF Find
<1>5. pc \in {"release", "publish"}
  OBVIOUS
<1>6. UNCHANGED <<created, row, lock, faults, accepted>> /\ seen' = [seen EXCEPT ![p] = Pending]
  BY DEF Find
<1> HIDE DEF new, pc
<1>7. /\ pass' \in [Passes -> PassRecord] /\ pass'[p] = new
      /\ \A q \in Passes \ {p} : pass'[q] = pass[q]
  BY <1>3, <1>4 DEF RelayInv, TypeOK, PassRecord
<1>8. seen' \in [Passes -> SUBSET Rows] /\ seen'[p] = Pending /\ \A q \in Passes \ {p} : seen'[q] = seen[q]
  BY <1>1, <1>6 DEF RelayInv, TypeOK
<1>9. TypeOK'
  BY <1>6, <1>7, <1>8 DEF RelayInv, TypeOK, PassRecord
<1>10. (WorksOnCommitted /\ StartsEmpty /\ DoneIsAccepted /\ NoGaps)'
  <2>1. Monotone
    BY <1>6 DEF Monotone
  <2>2. \A r \in pass'[p].todo \cup pass'[p].done \cup seen'[p] : row'[r] \in Committed
    BY <1>1, <1>3, <1>6, <1>7, <1>8 DEF Pending, Committed
  <2>3. NoGap(p)'
    <3>1. \A r \in FindPending, q \in Pending : created[q] < created[r] => q \in FindPending
      BY OldestHaveNoGap DEF RelayInv
    <3>2. pass'[p].todo \cup pass'[p].done = FindPending
      BY <1>3, <1>7
    <3>3. QED
      BY <1>6, <1>8, <3>1, <3>2 DEF NoGap
  <2>4. pass'[p].todo \cup pass'[p].done \cup seen'[p] \subseteq Rows
    BY <1>1, <1>3, <1>7, <1>8
  <2>5. pass'[p].pc # "find" /\ pass'[p].done = {}
    BY <1>3, <1>5, <1>7
  <2>6. QED
    BY <1>7, <1>8, <2>1, <2>2, <2>3, <2>4, <2>5, BatchesKept
<1>11. NoRowLost'
  BY <1>6 DEF RelayInv, NoRowLost
<1>12. LeaseHeld'
  <2>1. pass[p].pc \in Running /\ pass'[p].age = pass[p].age
    BY <1>2, <1>3, <1>7 DEF Running
  <2>2. QED
    BY <1>6, <1>7, <2>1, LeaseKept DEF RelayInv
<1>13. QED
  BY <1>9, <1>10, <1>11, <1>12 DEF RelayInv


(* A confirmed publish moves one row from what is left of the batch to     *)
(* what is done.                                                           *)
LEMMA PublishFacts ==
  ASSUME TypeOK, NEW p \in Passes, NEW r \in Rows, Publish(p, r)
  PROVE  /\ pass' \in [Passes -> PassRecord]
         /\ \A q \in Passes \ {p} : pass'[q] = pass[q]
         /\ pass'[p].pc = "publish" /\ pass'[p].todo = pass[p].todo \ {r}
         /\ pass'[p].done = pass[p].done \cup {r} /\ pass'[p].age = pass[p].age
         /\ pass[p].pc = "publish" /\ r \in pass[p].todo
<1> DEFINE new == [pass[p] EXCEPT !.todo = pass[p].todo \ {r}, !.done = pass[p].done \cup {r}]
<1>1. pass[p] \in PassRecord /\ pass[p].pc = "publish" /\ r \in pass[p].todo
  BY PassFields DEF Publish, IsNext
<1>2. /\ new \in PassRecord /\ new.pc = "publish" /\ new.todo = pass[p].todo \ {r}
      /\ new.done = pass[p].done \cup {r} /\ new.age = pass[p].age
  BY <1>1 DEF PassRecord
<1>3. pass' = [pass EXCEPT ![p] = new]
  BY DEF Publish
<1> HIDE DEF new
<1>4. QED
  BY <1>1, <1>2, <1>3 DEF TypeOK, PassRecord

LEMMA PublishKeeps ==
  ASSUME RelayInv, NEW p \in Passes, NEW r \in Rows, Publish(p, r)
  PROVE  RelayInv'
<1>1. /\ pass' \in [Passes -> PassRecord]
      /\ \A q \in Passes \ {p} : pass'[q] = pass[q]
      /\ pass'[p].pc = "publish" /\ pass'[p].todo = pass[p].todo \ {r}
      /\ pass'[p].done = pass[p].done \cup {r} /\ pass'[p].age = pass[p].age
      /\ pass[p].pc = "publish" /\ r \in pass[p].todo
  BY PublishFacts DEF RelayInv
<1>2. UNCHANGED <<created, row, lock, faults, seen>> /\ accepted' = accepted \cup {r}
  BY DEF Publish
<1>3. TypeOK'
  BY <1>1, <1>2 DEF RelayInv, TypeOK, PassRecord
<1>4. (WorksOnCommitted /\ StartsEmpty /\ DoneIsAccepted /\ NoGaps)'
  <2>1. Monotone
    BY <1>2 DEF Monotone
  <2>2. pass'[p].todo \cup pass'[p].done = pass[p].todo \cup pass[p].done
    BY <1>1
  <2>3. \A q \in pass'[p].todo \cup pass'[p].done \cup seen'[p] : row'[q] \in Committed
    BY <1>2, <2>2 DEF RelayInv, WorksOnCommitted
  <2>4. NoGap(p)'
    BY <1>2, <2>2 DEF RelayInv, NoGaps, NoGap
  <2>5. pass'[p].todo \cup pass'[p].done \cup seen'[p] \subseteq Rows
    BY <1>2, <2>2, PassFields DEF RelayInv, TypeOK
  <2>6. pass'[p].done \subseteq accepted'
    BY <1>1, <1>2 DEF RelayInv, DoneIsAccepted
  <2>7. \A q \in Passes \ {p} : pass'[q] = pass[q] /\ seen'[q] = seen[q]
    BY <1>1, <1>2
  <2>8. pass'[p].pc # "find"
    BY <1>1
  <2>9. QED
    BY <2>1, <2>3, <2>4, <2>5, <2>6, <2>7, <2>8, BatchesKept
<1>5. NoRowLost'
  BY <1>2 DEF RelayInv, NoRowLost
<1>6. LeaseHeld'
  <2>1. \A q \in Passes : pass'[q].pc \in Running =>
          pass[q].pc \in Running /\ pass'[q].age = pass[q].age
    BY <1>1 DEF Running
  <2>2. QED
    BY <1>2, <2>1, LeaseKept DEF RelayInv
<1>7. QED
  BY <1>3, <1>4, <1>5, <1>6 DEF RelayInv

(* A pass that moves on without marking keeps its batch as it is; what the *)
(* broker has can only grow.                                               *)
LEMMA MoveKeeps ==
  ASSUME RelayInv, NEW p \in Passes, NEW pc \in Running \ {"find"}, Goto(p, pc),
         pass[p].pc \in Running,
         accepted \subseteq accepted', accepted' \subseteq Rows,
         faults' \in 0..MaxFaults, UNCHANGED <<created, row, lock, seen>>
  PROVE  RelayInv'
<1>1. /\ pass' \in [Passes -> PassRecord]
      /\ \A q \in Passes \ {p} : pass'[q] = pass[q]
      /\ pass'[p].pc = pc /\ pass'[p].todo = pass[p].todo
      /\ pass'[p].done = pass[p].done /\ pass'[p].age = pass[p].age
  BY GotoFacts DEF RelayInv
<1>2. TypeOK'
  BY <1>1 DEF RelayInv, TypeOK, PassRecord
<1>3. (WorksOnCommitted /\ StartsEmpty /\ DoneIsAccepted /\ NoGaps)'
  <2>1. Monotone
    BY DEF Monotone
  <2>2. \A q \in pass'[p].todo \cup pass'[p].done \cup seen'[p] : row'[q] \in Committed
    BY <1>1 DEF RelayInv, WorksOnCommitted
  <2>3. NoGap(p)'
    BY <1>1 DEF RelayInv, NoGaps, NoGap
  <2>4. pass'[p].todo \cup pass'[p].done \cup seen'[p] \subseteq Rows
    BY <1>1, PassFields DEF RelayInv, TypeOK
  <2>5. pass'[p].done \subseteq accepted'
    BY <1>1 DEF RelayInv, DoneIsAccepted
  <2>6. QED
    BY <1>1, <2>1, <2>2, <2>3, <2>4, <2>5, BatchesKept
<1>4. NoRowLost'
  BY DEF RelayInv, NoRowLost
<1>5. LeaseHeld'
  BY <1>1, LeaseKept DEF RelayInv
<1>6. QED
  BY <1>2, <1>3, <1>4, <1>5 DEF RelayInv

(* markPublished marks accepted rows only. *)
LEMMA MarkKeeps ==
  ASSUME RelayInv, NEW p \in Passes, Mark(p)
  PROVE  RelayInv'
<1>1. /\ pass' \in [Passes -> PassRecord]
      /\ \A q \in Passes \ {p} : pass'[q] = pass[q]
      /\ pass'[p].pc = "release" /\ pass'[p].todo = pass[p].todo
      /\ pass'[p].done = pass[p].done /\ pass'[p].age = pass[p].age
  BY GotoFacts DEF RelayInv, Mark, Running
<1>2. UNCHANGED <<created, lock, faults, accepted, seen>> /\ pass[p].pc = "mark"
  BY DEF Mark
<1>3. \A r \in Rows : \/ row'[r] = row[r]
                      \/ r \in pass[p].done /\ row'[r] = "published"
  BY DEF Mark, ToMark
<1>4. row' \in [Rows -> RowStates]
  BY DEF RelayInv, TypeOK, Mark, ToMark, RowStates
<1>5. TypeOK'
  BY <1>1, <1>2, <1>4 DEF RelayInv, TypeOK, PassRecord
<1>6. Monotone
  BY <1>2, <1>3 DEF Monotone, Committed
<1>7. (WorksOnCommitted /\ StartsEmpty /\ DoneIsAccepted /\ NoGaps)'
  <2>1. pass'[p].todo \cup pass'[p].done \cup seen'[p] \subseteq Rows
    BY <1>1, <1>2, PassFields DEF RelayInv, TypeOK
  <2>2. \A q \in pass'[p].todo \cup pass'[p].done \cup seen'[p] : row'[q] \in Committed
    BY <1>1, <1>2, <1>6, <2>1 DEF RelayInv, WorksOnCommitted, Monotone
  <2>3. NoGap(p)'
    BY <1>1, <1>2 DEF RelayInv, NoGaps, NoGap
  <2>4. pass'[p].done \subseteq accepted'
    BY <1>1, <1>2 DEF RelayInv, DoneIsAccepted
  <2>5. QED
    BY <1>1, <1>2, <1>6, <2>1, <2>2, <2>3, <2>4, BatchesKept
<1>8. NoRowLost'
  BY <1>2, <1>3 DEF RelayInv, NoRowLost, DoneIsAccepted
<1>9. LeaseHeld'
  BY <1>1, <1>2, LeaseKept DEF RelayInv, Running
<1>10. QED
  BY <1>5, <1>7, <1>8, <1>9 DEF RelayInv

(* A pass that ends, with or without its lock, leaves the others theirs.   *)
LEMMA EndKeeps ==
  ASSUME RelayInv, NEW p \in Passes, pass' = [pass EXCEPT ![p] = IdlePass],
         seen' = [seen EXCEPT ![p] = {}], lock' \in {lock, Released(p)},
         faults' \in 0..MaxFaults, UNCHANGED <<created, row, accepted>>
  PROVE  RelayInv'
<1>1. /\ pass' \in [Passes -> PassRecord] /\ pass'[p] = IdlePass
      /\ \A q \in Passes \ {p} : pass'[q] = pass[q]
  BY EndFacts DEF RelayInv
<1>2. /\ seen' \in [Passes -> SUBSET Rows] /\ seen'[p] = {}
      /\ \A q \in Passes \ {p} : seen'[q] = seen[q]
  BY DEF RelayInv, TypeOK
<1>3. lock' \in [by: Passes \cup {None}, left: 0..LockTTL]
  BY RelayAssumption DEF RelayInv, TypeOK, Released, FreeLock
<1>4. TypeOK'
  BY <1>1, <1>2, <1>3 DEF RelayInv, TypeOK, PassRecord
<1>5. (WorksOnCommitted /\ StartsEmpty /\ DoneIsAccepted /\ NoGaps)'
  <2>1. Monotone
    BY DEF Monotone
  <2>2. NoGap(p)'
    BY <1>1, <1>2 DEF NoGap
  <2>3. QED
    BY <1>1, <1>2, <2>1, <2>2, IdleFields, BatchesKept
<1>6. NoRowLost'
  BY DEF RelayInv, NoRowLost
<1>7. LeaseHeld'
  <2>1. ~Fresh(p)'
    BY <1>1, IdleFields DEF Fresh, Running
  <2>2. ASSUME NEW q \in Passes \ {p}, Fresh(q)'
        PROVE  lock'.by = q /\ lock'.left + pass'[q].age >= LockTTL
    <3>1. Fresh(q) /\ pass'[q] = pass[q]
      BY <1>1, <2>2 DEF Fresh
    <3>2. lock.by = q /\ lock.left + pass[q].age >= LockTTL
      BY <3>1 DEF RelayInv, LeaseHeld
    <3>3. lock' = lock
      BY <3>2 DEF Released
    <3>4. QED
      BY <3>1, <3>2, <3>3
  <2>3. QED
    BY <2>1, <2>2 DEF LeaseHeld
<1>8. QED
  BY <1>4, <1>5, <1>6, <1>7 DEF RelayInv

(* Time passes for the lock and for the pass that holds it alike. *)
LEMMA TickKeeps ==
  ASSUME RelayInv, Tick
  PROVE  RelayInv'
<1>1. UNCHANGED <<created, row, faults, accepted, seen>> /\ lock' = Expired
  BY DEF Tick
<1>2. ASSUME NEW q \in Passes
      PROVE  /\ pass'[q] \in PassRecord
             /\ pass'[q].todo = pass[q].todo /\ pass'[q].done = pass[q].done
             /\ pass'[q].pc = pass[q].pc
             /\ pass[q].pc \in Running => pass'[q].age = pass[q].age + 1
  <2> DEFINE old == [pass[q] EXCEPT !.age = pass[q].age + 1]
  <2>1. pass[q] \in PassRecord /\ (pass[q].pc \in Running => pass[q].age < PassBound)
    BY PassFields DEF RelayInv, Tick
  <2>2. pass'[q] = IF pass[q].pc \in Running THEN old ELSE pass[q]
    BY DEF Tick
  <2>3. /\ old.todo = pass[q].todo /\ old.done = pass[q].done
        /\ old.pc = pass[q].pc /\ old.age = pass[q].age + 1
        /\ pass[q].age < PassBound => old \in PassRecord
    BY <2>1, RelayAssumption DEF PassRecord
  <2> HIDE DEF old
  <2>4. QED
    BY <2>1, <2>2, <2>3
<1>3. pass' \in [Passes -> PassRecord]
  <2>1. DOMAIN pass' = Passes /\ pass' = [q \in Passes |-> pass'[q]]
    BY DEF Tick
  <2>2. QED
    BY <1>2, <2>1
<1>4. /\ lock' \in [by: Passes \cup {None}, left: 0..LockTTL]
      /\ lock.left > 1 => lock'.by = lock.by /\ lock'.left = lock.left - 1
  BY <1>1, RelayAssumption DEF RelayInv, TypeOK, Expired, FreeLock
<1>5. TypeOK'
  BY <1>1, <1>3, <1>4 DEF RelayInv, TypeOK, PassRecord
<1>6. (WorksOnCommitted /\ StartsEmpty /\ DoneIsAccepted /\ NoGaps)'
  <2>1. Monotone
    BY <1>1 DEF Monotone
  <2>2. QED
    BY <1>1, <1>2, <2>1, BatchesUntouched
<1>7. NoRowLost'
  BY <1>1 DEF RelayInv, NoRowLost
<1>8. LeaseHeld'
  <2>1. ASSUME NEW q \in Passes, Fresh(q)'
        PROVE  lock'.by = q /\ lock'.left + pass'[q].age >= LockTTL
    <3>1. /\ pass[q].pc \in Running /\ pass'[q].age = pass[q].age + 1
          /\ pass'[q].age < LockTTL /\ pass[q].age \in Nat /\ lock.left \in Nat
      BY <1>2, <2>1, PassFields, RelayAssumption DEF Fresh, RelayInv, TypeOK
    <3>2. lock.by = q /\ lock.left + pass[q].age >= LockTTL
      BY <3>1, RelayAssumption DEF RelayInv, LeaseHeld, Fresh
    <3>3. lock.left > 1
      BY <3>1, <3>2, RelayAssumption
    <3>4. QED
      BY <1>4, <3>1, <3>2, <3>3, RelayAssumption
  <2>2. QED
    BY <2>1 DEF LeaseHeld
<1>9. QED
  BY <1>5, <1>6, <1>7, <1>8 DEF RelayInv

(* Every step keeps the invariant. *)
LEMMA StepRelayInv == RelayInv /\ [Next]_vars => RelayInv'
<1> SUFFICES ASSUME RelayInv, [Next]_vars PROVE RelayInv'
  OBVIOUS
<1>0. /\ faults \in 0..MaxFaults /\ accepted \subseteq Rows
      /\ Fault => faults' \in 0..MaxFaults
  BY RelayAssumption DEF RelayInv, TypeOK, Fault
<1>1. CASE \E r \in Rows : Stage(r) \/ Commit(r) \/ Abort(r) \/ PruneRelayed(r)
  BY <1>1, RowStepKeeps
<1>2. ASSUME NEW p \in Passes, Acquire(p) PROVE RelayInv'
  BY <1>2, AcquireKeeps
<1>3. ASSUME NEW p \in Passes, Find(p) PROVE RelayInv'
  BY <1>3, FindKeeps
<1>4. ASSUME NEW p \in Passes, NEW r \in Rows, Publish(p, r) PROVE RelayInv'
  BY <1>4, PublishKeeps
<1>5. ASSUME NEW p \in Passes, Exhausted(p) PROVE RelayInv'
  BY <1>0, <1>5, MoveKeeps DEF Exhausted, Running
<1>6. ASSUME NEW p \in Passes, NEW r \in Rows, PublishFails(p, r) PROVE RelayInv'
  BY <1>0, <1>6, MoveKeeps DEF PublishFails, Running
<1>7. ASSUME NEW p \in Passes, Mark(p) PROVE RelayInv'
  BY <1>7, MarkKeeps
<1>8. ASSUME NEW p \in Passes, QueryFails(p) PROVE RelayInv'
  BY <1>0, <1>8, MoveKeeps DEF QueryFails, Running
<1>9. ASSUME NEW p \in Passes, Release(p) PROVE RelayInv'
  BY <1>0, <1>9, EndKeeps DEF Release
<1>10. ASSUME NEW p \in Passes, ReleaseFails(p) PROVE RelayInv'
  BY <1>0, <1>10, EndKeeps DEF ReleaseFails
<1>11. ASSUME NEW p \in Passes, Crash(p) PROVE RelayInv'
  BY <1>0, <1>11, EndKeeps DEF Crash
<1>12. CASE Tick
  BY <1>12, TickKeeps
<1>13. CASE UNCHANGED vars
  BY <1>13
  DEF vars, RelayInv, TypeOK, WorksOnCommitted, StartsEmpty, DoneIsAccepted, NoRowLost,
      NoGaps, NoGap, LeaseHeld, Fresh
<1>14. QED
  BY <1>1, <1>2, <1>3, <1>4, <1>5, <1>6, <1>7, <1>8, <1>9, <1>10, <1>11, <1>12, <1>13
  DEF Next, PassStep, PassFault


LEMMA RelayInvariant == Spec => []RelayInv
  BY InitRelayInv, StepRelayInv, PTL DEF Spec

(* Every variable keeps its type, so that the lock never outlives its TTL  *)
(* (acquireLock) and no pass its bound.                                    *)
THEOREM TypeCorrect == Spec => []TypeOK
<1>1. RelayInv => TypeOK
  BY DEF RelayInv
<1>2. QED
  BY <1>1, RelayInvariant, PTL

(* markPublished and pruneRelayed touch no row the broker has not accepted, *)
(* however many passes overlap, crash or are refused.                       *)
THEOREM NothingMarkedUnsent == Spec => []NoRowLost
<1>1. RelayInv => NoRowLost
  BY DEF RelayInv
<1>2. QED
  BY <1>1, RelayInvariant, PTL

(* The lock of flush keeps the passes that still own their lease apart,    *)
(* although no pass renews it and a late one releases after its TTL.       *)
THEOREM PassesExclude == Spec => []OneFreshPass
<1>1. RelayInv => OneFreshPass
  BY DEF RelayInv, LeaseHeld, OneFreshPass
<1>2. QED
  BY <1>1, RelayInvariant, PTL

(* "Order is kept" (publishPending): a row reaches the broker after every  *)
(* older row the same pass found pending.                                  *)
THEOREM OrderKept == Spec => OrderIsKept
<1> DEFINE InOrder ==
      \A p \in Passes, r \in Rows :
        Publish(p, r) => \A q \in seen[p] : created[q] < created[r] => q \in accepted
<1>1. RelayInv /\ [Next]_vars => InOrder
  <2> SUFFICES ASSUME RelayInv, NEW p \in Passes, NEW r \in Rows, Publish(p, r),
                      NEW q \in seen[p], created[q] < created[r]
               PROVE  q \in accepted
    OBVIOUS
  <2>1. r \in pass[p].todo /\ \A t \in pass[p].todo : created[r] <= created[t]
    BY DEF Publish, IsNext
  <2>2. q \in pass[p].todo \cup pass[p].done
    BY <2>1 DEF RelayInv, NoGaps, NoGap
  <2>3. created[q] \in Nat /\ created[r] \in Nat
    BY DEF RelayInv, TypeOK
  <2>4. q \notin pass[p].todo
    BY <2>1, <2>3
  <2>5. QED
    BY <2>2, <2>4 DEF RelayInv, DoneIsAccepted
<1>2. Spec => [][InOrder]_vars
  BY <1>1, RelayInvariant, PTL DEF Spec
<1>3. QED
  BY <1>2 DEF OrderIsKept

(* Each step of the relay is a step of Handover, or changes nothing there: *)
(* a commit owes a row, a publish gives it (again), marking closes what    *)
(* was given; staging, aborting, pruning, locks and time are invisible.    *)
LEMMA StepHandsOver == RelayInv /\ [Next]_vars => [H!Next]_H!hvars
<1> SUFFICES ASSUME RelayInv, [Next]_vars PROVE [H!Next]_H!hvars
  OBVIOUS
<1> DEFINE Closed == {r \in Rows : row[r] \in {"published", "pruned"}}
<1>0. row \in [Rows -> RowStates]
  BY DEF RelayInv, TypeOK
<1>1. ASSUME row' = row, accepted' = accepted PROVE [H!Next]_H!hvars
  BY <1>1 DEF H!hvars, Pending
<1>2. ASSUME NEW r \in Rows, Stage(r) \/ Abort(r) \/ PruneRelayed(r) PROVE [H!Next]_H!hvars
  <2>1. /\ accepted' = accepted
        /\ \/ row' = [row EXCEPT ![r] = "writing"] /\ row[r] = "none"
           \/ row' = [row EXCEPT ![r] = "aborted"] /\ row[r] = "writing"
           \/ row' = [row EXCEPT ![r] = "pruned"] /\ row[r] = "published"
    BY <1>2 DEF Stage, Abort, PruneRelayed
  <2>2. Pending' = Pending /\ Closed' = Closed
    BY <1>0, <2>1 DEF Pending
  <2>3. QED
    BY <2>1, <2>2 DEF H!hvars
<1>3. ASSUME NEW r \in Rows, Commit(r) PROVE [H!Next]_H!hvars
  <2>1. row[r] = "writing" /\ row' = [row EXCEPT ![r] = "pending"] /\ accepted' = accepted
    BY <1>3 DEF Commit
  <2>2. Pending' = Pending \cup {r} /\ Closed' = Closed /\ r \notin Pending \cup Closed
    BY <1>0, <2>1 DEF Pending
  <2>3. H!Owe(r)
    BY <2>1, <2>2 DEF H!Owe
  <2>4. QED
    BY <2>3 DEF H!Next
<1>4. ASSUME NEW p \in Passes, NEW r \in Rows, Publish(p, r) \/ PublishFails(p, r)
      PROVE  [H!Next]_H!hvars
  <2>1. /\ row' = row /\ accepted' \in {accepted, accepted \cup {r}} /\ r \in pass[p].todo
    BY <1>4 DEF Publish, PublishFails, IsNext
  <2>2. Pending' = Pending /\ Closed' = Closed
    BY <2>1 DEF Pending
  <2>3. row[r] \in Committed
    BY <2>1 DEF RelayInv, WorksOnCommitted
  <2>4. CASE accepted' = accepted
    BY <1>1, <2>1, <2>4
  <2>5. CASE accepted' = accepted \cup {r} /\ r \in Pending
    <3>1. H!Give(r)
      BY <2>2, <2>5 DEF H!Give
    <3>2. QED
      BY <3>1 DEF H!Next
  <2>6. CASE accepted' = accepted \cup {r} /\ r \notin Pending
    <3>1. r \in accepted
      BY <2>3, <2>6 DEF RelayInv, NoRowLost, Pending, Committed
    <3>2. QED
      BY <1>1, <2>1, <2>6, <3>1
  <2>7. QED
    BY <2>1, <2>4, <2>5, <2>6
<1>5. ASSUME NEW p \in Passes, Mark(p) PROVE [H!Next]_H!hvars
  <2> DEFINE S == pass[p].done \cap Pending
  <2>1. /\ accepted' = accepted
        /\ \A r \in Rows : row'[r] = IF r \in pass[p].done /\ row[r] # "pruned"
                                     THEN "published" ELSE row[r]
    BY <1>5 DEF Mark, ToMark
  <2>2. S \subseteq Pending \cap accepted /\ S \subseteq Rows
    BY DEF RelayInv, DoneIsAccepted, Pending
  <2>3. \A r \in pass[p].done : row[r] \in Committed
    BY DEF RelayInv, WorksOnCommitted
  <2>4. Pending' = Pending \ S
    BY <2>1, <2>3 DEF Pending, Committed
  <2>5. Closed' = Closed \cup S
    BY <2>1, <2>3 DEF Pending, Committed
  <2>6. PICK T \in SUBSET Rows : T = S
    BY <2>2
  <2>7. H!Close(T)
    BY <2>1, <2>2, <2>4, <2>5, <2>6 DEF H!Close
  <2>8. QED
    BY <2>7 DEF H!Next
<1>6. ASSUME NEW p \in Passes,
             \/ Acquire(p) \/ Find(p) \/ Exhausted(p) \/ Release(p)
             \/ QueryFails(p) \/ ReleaseFails(p) \/ Crash(p)
      PROVE  [H!Next]_H!hvars
  BY <1>1, <1>6 DEF Acquire, Find, Exhausted, Release, QueryFails, ReleaseFails, Crash
<1>7. CASE Tick
  BY <1>1, <1>7 DEF Tick
<1>8. CASE UNCHANGED vars
  BY <1>1, <1>8 DEF vars
<1>9. QED
  BY <1>2, <1>3, <1>4, <1>5, <1>6, <1>7, <1>8 DEF Next, PassStep, PassFault

(* The relay implements the safety part of Handover: a committed row stays *)
(* owed until the broker has it and is closed only then.                   *)
THEOREM RelayImplementsHandover == Spec => H!Safe
<1>1. Init => H!Init
  BY DEF Init, H!Init, Pending
<1>2. QED
  BY <1>1, StepHandsOver, RelayInvariant, PTL DEF Spec, H!Safe
=============================================================================
