--------------------------- MODULE AccountsProofs ---------------------------
(***************************************************************************)
(* The safety properties of Accounts, for every number of accounts, rows   *)
(* and requests in flight, every limit and every number of watchers.       *)
(***************************************************************************)
EXTENDS Accounts, FiniteSetTheorems, TLAPS

(* A request names what its kind of operation is about. *)
ReqOK(m) ==
  /\ m \in RequestType
  /\ m.op \in RoleOps => m.of \in Accounts
  /\ m.op \in {"create", "pin"} => m.who \in Accounts
  /\ m.op \in {"update", "delete"} => m.of \in Rows

Typed == TypeOK /\ \A q \in Requests : ReqOK(req[q])

(* A removal that is about to be written, and that no role change has      *)
(* overtaken, leaves an administrator.                                     *)
Removal(q) == req[q].op \in RoleOps \ {"promote"} /\ req[q].pc = "write"

RoleInv ==
  /\ AdminRemains
  /\ \A q \in Requests :
       Removal(q) /\ ~req[q].stale /\ acct[req[q].of].role = "ADMIN" =>
         AdminSet \ {req[q].of} # {}

(* The requests of an account that have passed the count. *)
Creating(a) == {q \in Requests : req[q].op = "create" /\ req[q].pc = "create" /\ req[q].who = a}
Pinning(a)  == {q \in Requests : req[q].op = "pin" /\ req[q].who = a}

LimitInv ==
  \A a \in Accounts :
    /\ Cardinality(Owned(a)) + Cardinality(Creating(a)) <= MaxTriggers + Cardinality(Requests) - 1
    /\ Cardinality(pins[a]) + Cardinality(Pinning(a)) <= MaxPins + Cardinality(Requests) - 1

(* A live trigger has coordinates, and the bucket of them unless half a    *)
(* patch moved it.                                                         *)
BucketInv ==
  \A t \in Rows :
    trig[t].state = "live" =>
      /\ trig[t].lat \in Lats /\ trig[t].lon \in Lons
      /\ t \notin half => trig[t].bucket = LocationBucket(trig[t].lat, trig[t].lon)

AccountsInv == Typed /\ RoleInv /\ LimitInv /\ BucketInv

----------------------------------------------------------------------------
(* The records of the requests *)

AcctRecord == [role: {"ADMIN", "USER", "gone", "unused"}, verified: BOOLEAN, link: BOOLEAN]
TrigRecord == [owner: Accounts \cup {None}, lat: Lats \cup {None}, lon: Lons \cup {None},
               bucket: 0..(Buckets - 1), state: {"unused", "live", "deleted"}]

(* Typed but for the requests. *)
RowsTyped ==
  /\ table \in Tables
  /\ acct \in [Accounts -> AcctRecord]
  /\ trig \in [Rows -> TrigRecord]
  /\ pins \in [Accounts -> SUBSET Cities]
  /\ writes \in 0..MaxWrites
  /\ raced \in BOOLEAN /\ half \subseteq Rows

LEMMA TypeSplit ==
  Typed <=> RowsTyped /\ req \in [Requests -> RequestType] /\ \A q \in Requests : ReqOK(req[q])
  BY DEF Typed, TypeOK, RowsTyped, AcctRecord, TrigRecord

LEMMA IdleOK == ReqOK(Idle) /\ Idle.op = "idle" /\ Idle.pc = "idle" /\ Idle.stale = FALSE
<1>1. Idle \in RequestType
  BY Zenon DEF Idle, RequestType
<1>2. Idle.op = "idle" /\ Idle.pc = "idle" /\ Idle.stale = FALSE
  BY DEF Idle
<1>3. QED
  BY <1>1, <1>2 DEF ReqOK, RoleOps

(* A request goes on with its operation. *)
LEMMA PcRecord ==
  ASSUME NEW m, ReqOK(m), NEW pc \in {"count", "write", "create"},
         NEW new, new = [m EXCEPT !.pc = pc]
  PROVE  /\ ReqOK(new) /\ new.pc = pc /\ new.op = m.op /\ new.of = m.of /\ new.who = m.who
         /\ new.stale = m.stale
<1>1. m \in RequestType
  BY DEF ReqOK
<1>2. new \in RequestType
  BY <1>1, Zenon DEF RequestType
<1>3. new.pc = pc /\ new.op = m.op /\ new.of = m.of /\ new.who = m.who
  BY <1>1 DEF RequestType
<1>4. new.stale = m.stale
  BY <1>1 DEF RequestType
<1>5. QED
  BY <1>2, <1>3, <1>4 DEF ReqOK

(* A role change outdates what a request read. *)
LEMMA StaleRecord ==
  ASSUME NEW m, ReqOK(m), NEW b \in BOOLEAN, NEW new, new = [m EXCEPT !.stale = b]
  PROVE  /\ ReqOK(new) /\ new.pc = m.pc /\ new.op = m.op /\ new.of = m.of /\ new.who = m.who
         /\ new.stale = b
<1>1. m \in RequestType
  BY DEF ReqOK
<1>2. new \in RequestType
  BY <1>1, Zenon DEF RequestType
<1>3. new.pc = m.pc /\ new.op = m.op /\ new.of = m.of /\ new.who = m.who
  BY <1>1 DEF RequestType
<1>4. new.stale = b
  BY <1>1 DEF RequestType
<1>5. QED
  BY <1>2, <1>3, <1>4 DEF ReqOK

(* The next state of the requests when one of them moves. *)
LEMMA ReqMoves ==
  ASSUME Typed, NEW q \in Requests, NEW new, ReqOK(new), req' = [req EXCEPT ![q] = new]
  PROVE  /\ req' \in [Requests -> RequestType] /\ \A p \in Requests : ReqOK(req'[p])
         /\ req'[q] = new /\ \A p \in Requests \ {q} : req'[p] = req[p]
<1>1. req \in [Requests -> RequestType] /\ \A p \in Requests : ReqOK(req[p])
  BY TypeSplit
<1>2. new \in RequestType
  BY DEF ReqOK
<1>3. /\ req' \in [Requests -> RequestType] /\ req'[q] = new
      /\ \A p \in Requests \ {q} : req'[p] = req[p]
  BY <1>1, <1>2
<1>4. QED
  BY <1>1, <1>3

----------------------------------------------------------------------------
(* Counting *)

LEMMA Sizes ==
  ASSUME Typed, NEW a \in Accounts
  PROVE  /\ IsFiniteSet(Owned(a)) /\ IsFiniteSet(Creating(a)) /\ IsFiniteSet(Pinning(a))
         /\ IsFiniteSet(pins[a])
         /\ Cardinality(Owned(a)) \in Nat /\ Cardinality(Creating(a)) \in Nat
         /\ Cardinality(Pinning(a)) \in Nat /\ Cardinality(pins[a]) \in Nat
         /\ Cardinality(Requests) \in Nat
         /\ Cardinality(Creating(a)) <= Cardinality(Requests)
         /\ Cardinality(Pinning(a)) <= Cardinality(Requests)
<1>1. /\ Owned(a) \in SUBSET Rows /\ Creating(a) \in SUBSET Requests
      /\ Pinning(a) \in SUBSET Requests /\ pins[a] \in SUBSET Cities
  BY TypeSplit DEF RowsTyped, Owned, Creating, Pinning
<1>2. IsFiniteSet(Requests) /\ IsFiniteSet(Rows) /\ IsFiniteSet(Cities)
  BY AccountsAssumption
<1>3. QED
  BY <1>1, <1>2, FS_Subset, FS_CardinalityType

(* What shrinks has no more elements than before. *)
LEMMA LimitFrame ==
  ASSUME Typed, Typed', LimitInv, NEW a \in Accounts
  PROVE  /\ Owned(a)' \subseteq Owned(a) /\ Creating(a)' \subseteq Creating(a) =>
              Cardinality(Owned(a)') + Cardinality(Creating(a)')
                <= MaxTriggers + Cardinality(Requests) - 1
         /\ pins'[a] \subseteq pins[a] /\ Pinning(a)' \subseteq Pinning(a) =>
              Cardinality(pins'[a]) + Cardinality(Pinning(a)')
                <= MaxPins + Cardinality(Requests) - 1
<1>1. PICK ow, ow2, cr, cr2, pn, pn2, pg, pg2 :
        /\ ow = Owned(a) /\ ow2 = Owned(a)' /\ cr = Creating(a) /\ cr2 = Creating(a)'
        /\ pn = pins[a] /\ pn2 = pins'[a] /\ pg = Pinning(a) /\ pg2 = Pinning(a)'
  OBVIOUS
<1>2. /\ IsFiniteSet(ow) /\ IsFiniteSet(cr) /\ IsFiniteSet(pn) /\ IsFiniteSet(pg)
      /\ Cardinality(ow) \in Nat /\ Cardinality(cr) \in Nat /\ Cardinality(pn) \in Nat
      /\ Cardinality(pg) \in Nat /\ Cardinality(Requests) \in Nat
  BY <1>1, Sizes
<1>3. /\ Cardinality(ow) + Cardinality(cr) <= MaxTriggers + Cardinality(Requests) - 1
      /\ Cardinality(pn) + Cardinality(pg) <= MaxPins + Cardinality(Requests) - 1
  BY <1>1 DEF LimitInv
<1>4. ASSUME NEW S, NEW T, IsFiniteSet(S), T \subseteq S
      PROVE  Cardinality(T) <= Cardinality(S) /\ Cardinality(T) \in Nat
  BY <1>4, FS_Subset, FS_CardinalityType
<1>5. MaxTriggers \in Nat /\ MaxPins \in Nat
  BY AccountsAssumption
<1>6. ow2 \subseteq ow /\ cr2 \subseteq cr =>
        Cardinality(ow2) + Cardinality(cr2) <= MaxTriggers + Cardinality(Requests) - 1
  BY <1>2, <1>3, <1>4, <1>5
<1>7. pn2 \subseteq pn /\ pg2 \subseteq pg =>
        Cardinality(pn2) + Cardinality(pg2) <= MaxPins + Cardinality(Requests) - 1
  BY <1>2, <1>3, <1>4, <1>5
<1>8. QED
  BY <1>1, <1>6, <1>7

----------------------------------------------------------------------------
(* The steps *)

(* Nobody gains or loses the administrator's role, and no request but      *)
(* those about to write is to write a removal.                             *)
LEMMA RoleFrame ==
  ASSUME Typed, RoleInv, raced' = raced, AdminSet' = AdminSet,
         \A a \in Accounts : acct'[a].role = "ADMIN" <=> acct[a].role = "ADMIN",
         \A p \in Requests :
           Removal(p)' => Removal(p) /\ req'[p].of = req[p].of /\ req'[p].stale = req[p].stale
  PROVE  RoleInv'
<1>1. \A p \in Requests : Removal(p) => req[p].of \in Accounts
  BY DEF Typed, ReqOK, Removal
<1>2. QED
  BY <1>1 DEF RoleInv, AdminRemains

LEMMA BucketFrame ==
  ASSUME BucketInv, half' = half,
         \A t \in Rows : trig'[t] = trig[t] \/ trig'[t].state # "live"
  PROVE  BucketInv'
  BY DEF BucketInv, LocationBucket

(* A request reads, counts or is answered, and no row changes. It may      *)
(* write next what the rows allow at this moment.                          *)
LEMMA QuietMove ==
  ASSUME AccountsInv, NEW q \in Requests, NEW new, ReqOK(new), req' = [req EXCEPT ![q] = new],
         writes' \in 0..MaxWrites, UNCHANGED <<table, acct, trig, pins, raced, half>>,
         new.op \in RoleOps \ {"promote"} /\ new.pc = "write" /\ ~new.stale
           /\ acct[new.of].role = "ADMIN" => AdminSet \ {new.of} # {},
         new.op = "create" /\ new.pc = "create" => Cardinality(Owned(new.who)) < MaxTriggers,
         new.op = "pin" => Cardinality(pins[new.who]) < MaxPins
  PROVE  AccountsInv'
<1>1. Typed /\ RoleInv /\ LimitInv /\ BucketInv
  BY DEF AccountsInv
<1>2. /\ req' \in [Requests -> RequestType] /\ \A p \in Requests : ReqOK(req'[p])
      /\ req'[q] = new /\ \A p \in Requests \ {q} : req'[p] = req[p]
  BY <1>1, ReqMoves
<1>3. Typed'
  BY <1>1, <1>2 DEF Typed, TypeOK
<1>4. AdminSet' = AdminSet /\ \A a \in Accounts : Owned(a)' = Owned(a)
  BY DEF AdminSet, Owned
<1>5. RoleInv'
  BY <1>1, <1>2, <1>4 DEF RoleInv, AdminRemains, Removal
<1>6. BucketInv'
  BY <1>1, BucketFrame
<1>7. LimitInv'
  <2>1. SUFFICES ASSUME NEW a \in Accounts
                 PROVE  /\ Cardinality(Owned(a)') + Cardinality(Creating(a)')
                             <= MaxTriggers + Cardinality(Requests) - 1
                        /\ Cardinality(pins'[a]) + Cardinality(Pinning(a)')
                             <= MaxPins + Cardinality(Requests) - 1
    BY DEF LimitInv
  <2>2. /\ Cardinality(Owned(a)) \in Nat /\ Cardinality(pins[a]) \in Nat
        /\ Cardinality(Requests) \in Nat /\ MaxTriggers \in Nat /\ MaxPins \in Nat
    BY <1>1, Sizes, AccountsAssumption
  <2>3. /\ Creating(a)' \in SUBSET Requests /\ Pinning(a)' \in SUBSET Requests
        /\ IsFiniteSet(Requests)
    BY AccountsAssumption DEF Creating, Pinning
  <2>4. /\ Cardinality(Creating(a)') \in Nat /\ Cardinality(Creating(a)') <= Cardinality(Requests)
        /\ Cardinality(Pinning(a)') \in Nat /\ Cardinality(Pinning(a)') <= Cardinality(Requests)
    BY <2>3, FS_Subset, FS_CardinalityType
  <2>5. Cardinality(Owned(a)') + Cardinality(Creating(a)') <= MaxTriggers + Cardinality(Requests) - 1
    <3>1. CASE new.op = "create" /\ new.pc = "create" /\ new.who = a
      <4>1. Cardinality(Owned(a)) < MaxTriggers
        BY <3>1
      <4>2. QED
        BY <1>4, <2>2, <2>4, <4>1
    <3>2. CASE ~(new.op = "create" /\ new.pc = "create" /\ new.who = a)
      <4>1. Creating(a)' \subseteq Creating(a)
        BY <1>2, <3>2 DEF Creating
      <4>2. QED
        BY <1>1, <1>3, <1>4, <4>1, LimitFrame
    <3>3. QED
      BY <3>1, <3>2
  <2>6. Cardinality(pins'[a]) + Cardinality(Pinning(a)') <= MaxPins + Cardinality(Requests) - 1
    <3>1. CASE new.op = "pin" /\ new.who = a
      <4>1. Cardinality(pins[a]) < MaxPins
        BY <3>1
      <4>2. QED
        BY <2>2, <2>4, <4>1
    <3>2. CASE ~(new.op = "pin" /\ new.who = a)
      <4>1. Pinning(a)' \subseteq Pinning(a)
        BY <1>2, <3>2 DEF Pinning
      <4>2. QED
        BY <1>1, <1>3, <4>1, LimitFrame
    <3>3. QED
      BY <3>1, <3>2
  <2>7. QED
    BY <2>5, <2>6
<1>8. QED
  BY <1>3, <1>5, <1>6, <1>7 DEF AccountsInv

(* The request is answered. *)
LEMMA AnswerKeeps ==
  ASSUME AccountsInv, NEW q \in Requests, Answer(q),
         UNCHANGED <<table, acct, trig, pins, writes, raced, half>>
  PROVE  AccountsInv'
<1>1. writes' \in 0..MaxWrites
  BY TypeSplit DEF AccountsInv, RowsTyped
<1>2. req' = [req EXCEPT ![q] = Idle] /\ Idle.op = "idle" /\ ReqOK(Idle)
  BY IdleOK DEF Answer
<1>3. PICK new : new = Idle
  OBVIOUS
<1>4. QED
  BY <1>1, <1>2, <1>3, QuietMove DEF RoleOps

(* A request begins. *)
LEMMA BeginFacts ==
  ASSUME Typed, NEW q \in Requests, NEW new, Begin(q, new)
  PROVE  req' = [req EXCEPT ![q] = new] /\ writes' \in 0..MaxWrites
<1>1. writes \in 0..MaxWrites /\ MaxWrites \in Nat
  BY TypeSplit, AccountsAssumption DEF RowsTyped
<1>2. QED
  BY <1>1 DEF Begin

LEMMA RoleReadKeeps ==
  ASSUME AccountsInv, NEW q \in Requests, NEW op \in RoleOps, NEW a \in Accounts, RoleRead(q, op, a)
  PROVE  AccountsInv'
<1>1. PICK pc \in {"count", "write"} :
        pc = IF acct[a].role = "ADMIN" /\ op # "promote" THEN "count" ELSE "write"
  OBVIOUS
<1>2. PICK new : new = [Idle EXCEPT !.op = op, !.of = a, !.pc = pc]
  OBVIOUS
<1>3. Begin(q, new) /\ UNCHANGED <<table, acct, trig, pins, raced, half>>
  BY <1>1, <1>2 DEF RoleRead, history
<1>4. ReqOK(new) /\ new.op = op /\ new.of = a /\ new.pc = pc
  <2>1. Idle \in RequestType
    BY IdleOK DEF ReqOK
  <2>2. new \in RequestType
    BY <1>2, <2>1, Zenon DEF RequestType
  <2>3. new.op = op /\ new.of = a /\ new.pc = pc
    BY <1>2, <2>1 DEF RequestType
  <2>4. QED
    BY <2>2, <2>3 DEF ReqOK, RoleOps
<1>5. req' = [req EXCEPT ![q] = new] /\ writes' \in 0..MaxWrites
  BY <1>3, BeginFacts DEF AccountsInv
<1>6. new.op # "create" /\ new.op # "pin"
  BY <1>4 DEF RoleOps
<1>7. ~(new.op # "promote" /\ new.pc = "write" /\ acct[new.of].role = "ADMIN")
  BY <1>1, <1>4
<1>8. QED
  BY <1>3, <1>4, <1>5, <1>6, <1>7, QuietMove

(* assertNotTheLastAdmin: the removal goes on only if another is left. *)
LEMMA RoleCountKeeps ==
  ASSUME AccountsInv, NEW q \in Requests, RoleCount(q)
  PROVE  AccountsInv'
<1>1. /\ req[q].op \in RoleOps /\ req[q].pc = "count"
      /\ UNCHANGED <<table, acct, trig, pins, writes, raced, half>>
  BY DEF RoleCount, history
<1>2. CASE LastAdmin(q)
  BY <1>1, <1>2, AnswerKeeps DEF RoleCount
<1>3. CASE ~LastAdmin(q)
  <2>1. PICK m : m = req[q] /\ ReqOK(m)
    BY TypeSplit DEF AccountsInv
  <2> DEFINE mid == [m EXCEPT !.pc = "write"]
  <2>2. PICK new, no : /\ no = FALSE /\ no \in BOOLEAN /\ new = [mid EXCEPT !.stale = no]
    OBVIOUS
  <2>3. req' = [req EXCEPT ![q] = new]
    BY <1>3, <2>1, <2>2 DEF RoleCount
  <2>4. ReqOK(new) /\ new.pc = "write" /\ new.op = m.op /\ new.of = m.of
    <3>1. PICK k : k = mid
      OBVIOUS
    <3>2. ReqOK(k) /\ k.pc = "write" /\ k.op = m.op /\ k.of = m.of
      BY <2>1, <3>1, PcRecord
    <3>3. no \in BOOLEAN /\ new = [k EXCEPT !.stale = no]
      BY <2>2, <3>1, Zenon
    <3>4. ReqOK(new) /\ new.pc = k.pc /\ new.op = k.op /\ new.of = k.of
      BY <3>2, <3>3, StaleRecord, Zenon
    <3>5. QED
      BY <3>2, <3>4, Zenon
  <2>5. acct[new.of].role = "ADMIN" => AdminSet \ {new.of} # {}
    <3>1. SUFFICES ASSUME acct[new.of].role = "ADMIN", AdminSet \ {new.of} = {} PROVE FALSE
      OBVIOUS
    <3>2. new.of \in Accounts
      BY <1>1, <2>1, <2>4 DEF ReqOK
    <3>3. AdminSet = {new.of}
      BY <3>1, <3>2 DEF AdminSet
    <3>4. Cardinality(AdminSet) = 1
      BY <3>3, FS_Singleton
    <3>5. QED
      BY <1>3, <2>1, <2>4, <3>1, <3>4 DEF LastAdmin
  <2>6. new.op # "create" /\ new.op # "pin"
    BY <1>1, <2>1, <2>4 DEF RoleOps
  <2>7. writes' \in 0..MaxWrites
    BY <1>1, TypeSplit DEF AccountsInv, RowsTyped
  <2>8. QED
    BY <1>1, <2>3, <2>4, <2>5, <2>6, <2>7, QuietMove
<1>4. QED
  BY <1>2, <1>3

(* create: the gate and the count. *)
LEMMA CreateGateKeeps ==
  ASSUME AccountsInv, NEW q \in Requests, NEW a \in Accounts, CreateGate(q, a)
  PROVE  AccountsInv'
<1>1. PICK new : new = [Idle EXCEPT !.op = "create", !.pc = "count", !.who = a]
  OBVIOUS
<1>2. Begin(q, new) /\ UNCHANGED <<table, acct, trig, pins, raced, half>>
  BY <1>1 DEF CreateGate, history
<1>3. ReqOK(new) /\ new.op = "create" /\ new.pc = "count"
  <2>1. Idle \in RequestType
    BY IdleOK DEF ReqOK
  <2>2. new \in RequestType
    BY <1>1, <2>1, Zenon DEF RequestType
  <2>3. new.op = "create" /\ new.pc = "count" /\ new.who = a
    BY <1>1, <2>1 DEF RequestType
  <2>4. QED
    BY <2>2, <2>3 DEF ReqOK, RoleOps
<1>4. req' = [req EXCEPT ![q] = new] /\ writes' \in 0..MaxWrites
  BY <1>2, BeginFacts DEF AccountsInv
<1>5. QED
  BY <1>2, <1>3, <1>4, QuietMove DEF RoleOps

LEMMA CreateCountKeeps ==
  ASSUME AccountsInv, NEW q \in Requests, CreateCount(q)
  PROVE  AccountsInv'
<1>1. /\ req[q].op = "create" /\ req[q].pc = "count"
      /\ UNCHANGED <<table, acct, trig, pins, writes, raced, half>>
  BY DEF CreateCount, history
<1>2. CASE Cardinality(Owned(req[q].who)) >= MaxTriggers
  BY <1>1, <1>2, AnswerKeeps DEF CreateCount
<1>3. CASE ~(Cardinality(Owned(req[q].who)) >= MaxTriggers)
  <2>1. PICK m : m = req[q] /\ ReqOK(m)
    BY TypeSplit DEF AccountsInv
  <2>2. PICK new : new = [m EXCEPT !.pc = "create"]
    OBVIOUS
  <2>3. req' = [req EXCEPT ![q] = new]
    BY <1>3, <2>1, <2>2 DEF CreateCount, Goto
  <2>4. ReqOK(new) /\ new.pc = "create" /\ new.op = "create" /\ new.who = m.who
    BY <1>1, <2>1, <2>2, PcRecord
  <2>5. Cardinality(Owned(new.who)) < MaxTriggers
    <3>1. new.who \in Accounts
      BY <2>4 DEF ReqOK
    <3>2. Cardinality(Owned(new.who)) \in Nat /\ MaxTriggers \in Nat
      BY <3>1, Sizes, AccountsAssumption DEF AccountsInv
    <3>3. QED
      BY <1>3, <2>1, <2>4, <3>2
  <2>6. writes' \in 0..MaxWrites
    BY <1>1, TypeSplit DEF AccountsInv, RowsTyped
  <2>7. QED
    BY <1>1, <2>3, <2>4, <2>5, <2>6, QuietMove DEF RoleOps
<1>4. QED
  BY <1>2, <1>3

(* findOwned *)
LEMMA FindOwnedKeeps ==
  ASSUME AccountsInv, NEW q \in Requests, NEW t \in Rows, FindOwned(q, t)
  PROVE  AccountsInv'
<1>1. UNCHANGED <<table, acct, trig, pins, raced, half>>
  BY DEF FindOwned, history
<1>2. PICK new : Begin(q, new) /\ ReqOK(new) /\ new.op \in {"update", "delete"}
  <2>1. ASSUME NEW lat \in Lats \cup {None}, NEW lon \in Lons \cup {None},
               Begin(q, [Idle EXCEPT !.op = "update", !.pc = "write", !.of = t,
                                     !.lat = lat, !.lon = lon])
        PROVE  \E n : Begin(q, n) /\ ReqOK(n) /\ n.op \in {"update", "delete"}
    <3>1. PICK n : n = [Idle EXCEPT !.op = "update", !.pc = "write", !.of = t,
                                    !.lat = lat, !.lon = lon]
      OBVIOUS
    <3>2. ReqOK(n) /\ n.op = "update"
      <4>1. Idle \in RequestType
        BY IdleOK DEF ReqOK
      <4>2. n \in RequestType
        BY <3>1, <4>1, Zenon DEF RequestType
      <4>3. n.op = "update" /\ n.of = t
        BY <3>1, <4>1 DEF RequestType
      <4>4. QED
        BY <4>2, <4>3 DEF ReqOK, RoleOps
    <3>3. QED
      BY <2>1, <3>1, <3>2
  <2>2. ASSUME Begin(q, [Idle EXCEPT !.op = "delete", !.pc = "write", !.of = t])
        PROVE  \E n : Begin(q, n) /\ ReqOK(n) /\ n.op \in {"update", "delete"}
    <3>1. PICK n : n = [Idle EXCEPT !.op = "delete", !.pc = "write", !.of = t]
      OBVIOUS
    <3>2. ReqOK(n) /\ n.op = "delete"
      <4>1. Idle \in RequestType
        BY IdleOK DEF ReqOK
      <4>2. n \in RequestType
        BY <3>1, <4>1, Zenon DEF RequestType
      <4>3. n.op = "delete" /\ n.of = t
        BY <3>1, <4>1 DEF RequestType
      <4>4. QED
        BY <4>2, <4>3 DEF ReqOK, RoleOps
    <3>3. QED
      BY <2>2, <3>1, <3>2
  <2>3. QED
    BY <2>1, <2>2 DEF FindOwned
<1>3. req' = [req EXCEPT ![q] = new] /\ writes' \in 0..MaxWrites
  BY <1>2, BeginFacts DEF AccountsInv
<1>4. QED
  BY <1>1, <1>2, <1>3, QuietMove DEF RoleOps

LEMMA PinCountKeeps ==
  ASSUME AccountsInv, NEW q \in Requests, NEW a \in Accounts, PinCount(q, a)
  PROVE  AccountsInv'
<1>1. PICK new : new = [Idle EXCEPT !.op = "pin", !.pc = "write", !.who = a]
  OBVIOUS
<1>2. /\ Begin(q, new) /\ UNCHANGED <<table, acct, trig, pins, raced, half>>
      /\ Cardinality(pins[a]) < MaxPins
  BY <1>1 DEF PinCount, history
<1>3. ReqOK(new) /\ new.op = "pin" /\ new.who = a
  <2>1. Idle \in RequestType
    BY IdleOK DEF ReqOK
  <2>2. new \in RequestType
    BY <1>1, <2>1, Zenon DEF RequestType
  <2>3. new.op = "pin" /\ new.who = a
    BY <1>1, <2>1 DEF RequestType
  <2>4. QED
    BY <2>2, <2>3 DEF ReqOK, RoleOps
<1>4. req' = [req EXCEPT ![q] = new] /\ writes' \in 0..MaxWrites
  BY <1>2, BeginFacts DEF AccountsInv
<1>5. QED
  BY <1>2, <1>3, <1>4, QuietMove DEF RoleOps

(* The row the write is about has gone. *)
LEMMA FailsKeeps ==
  ASSUME AccountsInv, NEW q \in Requests, RoleWriteFails(q) \/ TriggerWriteFails(q)
  PROVE  AccountsInv'
  BY AnswerKeeps DEF RoleWriteFails, TriggerWriteFails, history

(* An account's row changes, and not whether it is an administrator's. *)
LEMMA RowKeeps ==
  ASSUME AccountsInv, NEW a \in Accounts, NEW row \in AcctRecord,
         row.role = "ADMIN" <=> acct[a].role = "ADMIN",
         acct' = [acct EXCEPT ![a] = row], writes' \in 0..MaxWrites,
         UNCHANGED <<table, trig, pins, req, raced, half>>
  PROVE  AccountsInv'
<1>1. Typed /\ RoleInv /\ LimitInv /\ BucketInv /\ acct \in [Accounts -> AcctRecord]
  BY TypeSplit DEF AccountsInv, RowsTyped
<1>2. /\ acct' \in [Accounts -> AcctRecord]
      /\ acct'[a] = row /\ \A b \in Accounts \ {a} : acct'[b] = acct[b]
  BY <1>1, Zenon
<1>3. Typed'
  BY <1>1, <1>2 DEF Typed, TypeOK, AcctRecord
<1>4. \A b \in Accounts : acct'[b].role = "ADMIN" <=> acct[b].role = "ADMIN"
  BY <1>2
<1>5. AdminSet' = AdminSet
  BY <1>4 DEF AdminSet
<1>6. RoleInv'
  BY <1>1, <1>4, <1>5, RoleFrame DEF Removal
<1>7. LimitInv'
  BY <1>1 DEF LimitInv, Owned, Creating, Pinning
<1>8. BucketInv'
  BY <1>1, BucketFrame
<1>9. QED
  BY <1>3, <1>6, <1>7, <1>8 DEF AccountsInv

LEMMA VerificationKeeps ==
  ASSUME AccountsInv, NEW a \in Accounts,
         \/ Register(a) \/ ResendVerification(a) \/ VerifyEmail(a) \/ ResetPassword(a)
         \/ SetVerified(a)
  PROVE  AccountsInv'
<1>1. /\ acct \in [Accounts -> AcctRecord] /\ writes \in 0..MaxWrites /\ MaxWrites \in Nat
  BY TypeSplit, AccountsAssumption DEF AccountsInv, RowsTyped
<1>2. UNCHANGED <<table, trig, pins, req, raced, half>> /\ writes' \in 0..MaxWrites
  BY <1>1 DEF Register, ResendVerification, VerifyEmail, ResetPassword, SetVerified, history
<1>3. PICK old \in AcctRecord : old = acct[a]
  BY <1>1
<1>4. ASSUME NEW v \in BOOLEAN, NEW l \in BOOLEAN
      PROVE  /\ [old EXCEPT !.verified = v] \in AcctRecord
             /\ [old EXCEPT !.link = l] \in AcctRecord
             /\ [old EXCEPT !.verified = v, !.link = l] \in AcctRecord
  BY Zenon DEF AcctRecord
<1>5. \E row \in AcctRecord :
        /\ row.role = "ADMIN" <=> acct[a].role = "ADMIN"
        /\ acct' = [acct EXCEPT ![a] = row]
  <2>1. CASE Register(a)
    <3>1. PICK row : /\ acct' = [acct EXCEPT ![a] = row]
                     /\ \/ row = [role |-> "USER", verified |-> FALSE, link |-> FALSE]
                        \/ row = [role |-> "USER", verified |-> FALSE, link |-> TRUE]
      BY <2>1 DEF Register, SendVerificationEmail
    <3>2. row \in AcctRecord
      <4>1. ASSUME NEW l \in BOOLEAN
            PROVE  [role |-> "USER", verified |-> FALSE, link |-> l] \in AcctRecord
        BY Zenon DEF AcctRecord
      <4>2. QED
        BY <3>1, <4>1
    <3>3. row.role = "USER"
      BY <3>1
    <3>4. acct[a].role = "unused"
      BY <2>1 DEF Register
    <3>5. QED
      BY <3>1, <3>2, <3>3, <3>4
  <2>2. CASE ResendVerification(a)
    <3>1. PICK row : row = [old EXCEPT !.link = TRUE]
      OBVIOUS
    <3>2. row \in AcctRecord
      BY <1>4, <3>1
    <3>3. row.role = old.role
      BY <3>1 DEF AcctRecord
    <3>4. acct' = [acct EXCEPT ![a] = row]
      BY <1>3, <2>2, <3>1 DEF ResendVerification, SendVerificationEmail
    <3>5. QED
      BY <1>3, <3>2, <3>3, <3>4
  <2>3. CASE VerifyEmail(a)
    <3>1. PICK row : row = [old EXCEPT !.verified = TRUE, !.link = FALSE]
      OBVIOUS
    <3>2. row \in AcctRecord
      BY <1>4, <3>1
    <3>3. row.role = old.role
      BY <3>1 DEF AcctRecord
    <3>4. acct' = [acct EXCEPT ![a] = row]
      BY <1>1, <1>3, <2>3, <3>1 DEF VerifyEmail
    <3>5. QED
      BY <1>3, <3>2, <3>3, <3>4
  <2>4. CASE ResetPassword(a)
    <3>1. PICK row : row = [old EXCEPT !.verified = TRUE]
      OBVIOUS
    <3>2. row \in AcctRecord
      BY <1>4, <3>1
    <3>3. row.role = old.role
      BY <3>1 DEF AcctRecord
    <3>4. acct' = [acct EXCEPT ![a] = row]
      BY <1>3, <2>4, <3>1 DEF ResetPassword
    <3>5. QED
      BY <1>3, <3>2, <3>3, <3>4
  <2>5. CASE SetVerified(a)
    <3>1. PICK v \in BOOLEAN : v = ~old.verified
      OBVIOUS
    <3>2. PICK row : row = [old EXCEPT !.verified = v]
      OBVIOUS
    <3>3. row \in AcctRecord
      BY <1>4, <3>2
    <3>4. row.role = old.role
      BY <3>2 DEF AcctRecord
    <3>5. acct' = [acct EXCEPT ![a] = row]
      BY <1>3, <2>5, <3>1, <3>2 DEF SetVerified
    <3>6. QED
      BY <1>3, <3>3, <3>4, <3>5
  <2>6. QED
    BY <2>1, <2>2, <2>3, <2>4, <2>5
<1>6. QED
  BY <1>2, <1>5, RowKeeps

----------------------------------------------------------------------------
(* Rows that go *)

LEMMA DeletedRow ==
  /\ [NoRow EXCEPT !.state = "deleted"] \in TrigRecord
  /\ [NoRow EXCEPT !.state = "deleted"].state = "deleted"
  /\ [NoRow EXCEPT !.state = "deleted"].owner = None
<1>1. 0 \in 0..(Buckets - 1)
  BY AccountsAssumption
<1>2. NoRow \in TrigRecord
  BY <1>1 DEF NoRow, TrigRecord
<1>3. QED
  BY <1>2 DEF NoRow, TrigRecord

(* The trigger rows of a set are deleted. *)
Drop(ts) ==
  trig' = [t \in Rows |-> IF t \in ts THEN [NoRow EXCEPT !.state = "deleted"] ELSE trig[t]]

LEMMA DropRows ==
  ASSUME Typed, NEW ts, Drop(ts)
  PROVE  /\ trig' \in [Rows -> TrigRecord]
         /\ \A t \in Rows : trig'[t] = trig[t] \/ trig'[t].state # "live"
         /\ \A a \in Accounts : Owned(a)' \subseteq Owned(a)
<1>1. PICK gone \in TrigRecord :
        /\ gone = [NoRow EXCEPT !.state = "deleted"]
        /\ gone.state = "deleted" /\ gone.owner = None
  BY DeletedRow
<1>2. trig \in [Rows -> TrigRecord] /\ None \notin Accounts
  BY TypeSplit, AccountsAssumption DEF RowsTyped
<1>3. /\ trig' \in [Rows -> TrigRecord]
      /\ \A t \in Rows : trig'[t] = IF t \in ts THEN gone ELSE trig[t]
  BY <1>1, <1>2 DEF Drop
<1>4. QED
  BY <1>1, <1>2, <1>3 DEF Owned

(* Trigger rows and pins go, and a request may have been answered: what is *)
(* left is within every limit.                                             *)
LEMMA ShrinkKeeps ==
  ASSUME Typed, Typed', LimitInv, \A a \in Accounts : Owned(a)' \subseteq Owned(a),
         \A a \in Accounts : pins'[a] \subseteq pins[a],
         \A p \in Requests : \/ req'[p].op = req[p].op /\ req'[p].pc = req[p].pc
                                /\ req'[p].who = req[p].who
                             \/ req'[p].op = "idle"
  PROVE  LimitInv'
<1>1. \A a \in Accounts : Creating(a)' \subseteq Creating(a) /\ Pinning(a)' \subseteq Pinning(a)
  BY DEF Creating, Pinning
<1>2. QED
  BY <1>1, LimitFrame DEF LimitInv

LEMMA DeleteManyKeeps ==
  ASSUME AccountsInv, NEW ts, DeleteMany(ts)
  PROVE  AccountsInv'
<1>1. Typed /\ RoleInv /\ LimitInv /\ BucketInv
  BY DEF AccountsInv
<1>2. Drop(ts) /\ UNCHANGED <<table, acct, pins, req, writes, raced, half>>
  BY DEF DeleteMany, Drop, history
<1>3. /\ trig' \in [Rows -> TrigRecord]
      /\ \A t \in Rows : trig'[t] = trig[t] \/ trig'[t].state # "live"
      /\ \A a \in Accounts : Owned(a)' \subseteq Owned(a)
  BY <1>1, <1>2, DropRows
<1>4. Typed'
  BY <1>1, <1>2, <1>3 DEF Typed, TypeOK, TrigRecord
<1>5. LimitInv' /\ BucketInv'
  BY <1>1, <1>2, <1>3, <1>4, ShrinkKeeps, BucketFrame
<1>6. RoleInv'
  BY <1>1, <1>2 DEF RoleInv, AdminRemains, AdminSet, Removal
<1>7. QED
  BY <1>4, <1>5, <1>6 DEF AccountsInv

LEMMA PinRemoveKeeps ==
  ASSUME AccountsInv, NEW a \in Accounts, NEW c, PinRemove(a, c)
  PROVE  AccountsInv'
<1>1. Typed /\ RoleInv /\ LimitInv /\ BucketInv /\ pins \in [Accounts -> SUBSET Cities]
  BY TypeSplit DEF AccountsInv, RowsTyped
<1>2. /\ pins' = [pins EXCEPT ![a] = @ \ {c}]
      /\ UNCHANGED <<table, acct, trig, req, writes, raced, half>>
  BY DEF PinRemove, history
<1>3. pins' \in [Accounts -> SUBSET Cities] /\ \A b \in Accounts : pins'[b] \subseteq pins[b]
  BY <1>1, <1>2
<1>4. Typed'
  BY <1>1, <1>2, <1>3 DEF Typed, TypeOK
<1>5. RoleInv' /\ BucketInv'
  BY <1>1, <1>2, BucketFrame DEF RoleInv, AdminRemains, AdminSet, Removal
<1>6. \A b \in Accounts : /\ Owned(b)' = Owned(b) /\ Creating(b)' = Creating(b)
                          /\ Pinning(b)' = Pinning(b)
  BY <1>2 DEF Owned, Creating, Pinning
<1>7. LimitInv'
  BY <1>1, <1>3, <1>4, <1>6, LimitFrame DEF LimitInv
<1>8. QED
  BY <1>4, <1>5, <1>7 DEF AccountsInv

----------------------------------------------------------------------------
(* The writes of the role changes *)

LEMMA WrittenRows ==
  ASSUME acct \in [Accounts -> AcctRecord], NEW op \in RoleOps, NEW a \in Accounts,
         acct' = Written(op, a)
  PROVE  /\ acct' \in [Accounts -> AcctRecord]
         /\ \A b \in Accounts \ {a} : acct'[b] = acct[b]
         /\ acct'[a].role = "ADMIN" <=> op = "promote"
<1>1. PICK old \in AcctRecord : old = acct[a]
  OBVIOUS
<1>2. ASSUME NEW r \in {"ADMIN", "USER"}
      PROVE  [old EXCEPT !.role = r] \in AcctRecord /\ [old EXCEPT !.role = r].role = r
  <2>1. [old EXCEPT !.role = r] \in AcctRecord
    BY Zenon DEF AcctRecord
  <2>2. [old EXCEPT !.role = r].role = r
    BY DEF AcctRecord
  <2>3. QED
    BY <2>1, <2>2
<1>3. PICK none : none = [role |-> "gone", verified |-> FALSE, link |-> FALSE]
  OBVIOUS
<1>4. none \in AcctRecord
  BY <1>3, Zenon DEF AcctRecord
<1>5. none.role = "gone"
  BY <1>3
<1>6. PICK new \in AcctRecord :
        acct' = [acct EXCEPT ![a] = new] /\ (new.role = "ADMIN" <=> op = "promote")
  <2>1. CASE op = "demote"
    BY <1>1, <1>2, <2>1 DEF Written
  <2>2. CASE op = "promote"
    BY <1>1, <1>2, <2>2 DEF Written
  <2>3. CASE op # "demote" /\ op # "promote"
    BY <1>3, <1>4, <1>5, <2>3 DEF Written
  <2>4. QED
    BY <2>1, <2>2, <2>3
<1>7. QED
  BY <1>6

LEMMA RoleWriteKeeps ==
  ASSUME AccountsInv, NEW q \in Requests, RoleWrite(q)
  PROVE  AccountsInv'
<1>1. Typed /\ RoleInv /\ LimitInv /\ BucketInv
  BY DEF AccountsInv
<1>2. /\ acct \in [Accounts -> AcctRecord] /\ trig \in [Rows -> TrigRecord]
      /\ pins \in [Accounts -> SUBSET Cities] /\ raced \in BOOLEAN
  BY <1>1, TypeSplit DEF RowsTyped
<1>3. PICK r : r = req[q] /\ ReqOK(r)
  BY <1>1, TypeSplit
<1>4. /\ r.op \in RoleOps /\ r.pc = "write" /\ acct' = Written(r.op, r.of)
      /\ UNCHANGED <<table, writes, half>>
  BY <1>3 DEF RoleWrite
<1>5. PICK a \in Accounts : a = r.of
  BY <1>3, <1>4 DEF ReqOK
<1>6. /\ acct' \in [Accounts -> AcctRecord]
      /\ \A b \in Accounts \ {a} : acct'[b] = acct[b]
      /\ acct'[a].role = "ADMIN" <=> r.op = "promote"
  BY <1>2, <1>4, <1>5, WrittenRows
<1>7. /\ trig' \in [Rows -> TrigRecord]
      /\ \A t \in Rows : trig'[t] = trig[t] \/ trig'[t].state # "live"
      /\ \A b \in Accounts : Owned(b)' \subseteq Owned(b)
      /\ pins' \in [Accounts -> SUBSET Cities] /\ \A b \in Accounts : pins'[b] \subseteq pins[b]
  <2>1. CASE r.op \in {"deleteUser", "deleteAccount"}
    <3>1. Cascade(a)
      BY <1>3, <1>5, <2>1 DEF RoleWrite
    <3>2. Drop(Owned(a))
      BY <3>1 DEF Cascade, Drop, Owned
    <3>3. PICK ts : ts = Owned(a) /\ Drop(ts)
      BY <3>2
    <3>4. pins' \in [Accounts -> SUBSET Cities] /\ \A b \in Accounts : pins'[b] \subseteq pins[b]
      BY <1>2, <3>1 DEF Cascade
    <3>5. QED
      BY <1>1, <3>3, <3>4, DropRows
  <2>2. CASE ~(r.op \in {"deleteUser", "deleteAccount"})
    <3>1. trig' = trig /\ pins' = pins
      BY <1>3, <2>2 DEF RoleWrite
    <3>2. QED
      BY <1>2, <3>1 DEF Owned
  <2>3. QED
    BY <2>1, <2>2
<1>8. ASSUME NEW p \in Requests
      PROVE  /\ ReqOK(req'[p])
             /\ \/ req'[p].op = "idle"
                \/ /\ req'[p].op = req[p].op /\ req'[p].pc = req[p].pc /\ req'[p].who = req[p].who
                   /\ req[p].op \in RoleOps => req'[p].stale = TRUE
  <2>1. req'[p] = IF p = q THEN Idle
                  ELSE IF req[p].op \in RoleOps THEN [req[p] EXCEPT !.stale = TRUE] ELSE req[p]
    BY DEF RoleWrite
  <2>2. CASE p = q
    BY <2>1, <2>2, IdleOK
  <2>3. CASE p # q /\ req[p].op \in RoleOps
    <3>1. PICK m : m = req[p] /\ ReqOK(m)
      BY <1>1, TypeSplit
    <3>2. PICK yes \in BOOLEAN : yes = TRUE
      OBVIOUS
    <3>3. PICK new : new = [m EXCEPT !.stale = yes]
      OBVIOUS
    <3>4. req'[p] = new
      BY <2>1, <2>3, <3>1, <3>2, <3>3
    <3>5. /\ ReqOK(new) /\ new.pc = m.pc /\ new.op = m.op /\ new.who = m.who
          /\ new.stale = yes
      BY <3>1, <3>3, StaleRecord
    <3>6. QED
      BY <3>1, <3>2, <3>4, <3>5
  <2>4. CASE p # q /\ req[p].op \notin RoleOps
    <3>1. req'[p] = req[p]
      BY <2>1, <2>4
    <3>2. QED
      BY <1>1, <2>4, <3>1, TypeSplit
  <2>5. QED
    BY <2>2, <2>3, <2>4
<1>9. Typed'
  <2>1. req' \in [Requests -> RequestType]
    <3>1. \A p \in Requests : req'[p] \in RequestType
      BY <1>8 DEF ReqOK
    <3>2. req' = [p \in Requests |-> req'[p]]
      BY DEF RoleWrite
    <3>3. QED
      BY <3>1, <3>2
  <2>2. raced' \in BOOLEAN
    <3>1. r.stale \in BOOLEAN
      BY <1>3 DEF ReqOK, RequestType
    <3>2. raced' = r.stale \/ raced' = raced
      BY <1>3 DEF RoleWrite
    <3>3. QED
      BY <1>2, <3>1, <3>2, Zenon
  <2>3. QED
    BY <1>1, <1>4, <1>6, <1>7, <1>8, <2>1, <2>2 DEF Typed, TypeOK, AcctRecord, TrigRecord
<1>10. LimitInv'
  BY <1>1, <1>7, <1>8, <1>9, ShrinkKeeps
<1>11. BucketInv'
  BY <1>1, <1>4, <1>7, BucketFrame
<1>12. AdminRemains'
  <2>1. raced' = IF acct[a].role = "ADMIN" /\ r.op # "promote" THEN r.stale ELSE raced
    BY <1>3, <1>5 DEF RoleWrite
  <2>2. CASE r.op = "promote"
    BY <1>6, <2>2 DEF AdminRemains, AdminSet
  <2>3. CASE r.op # "promote" /\ acct[a].role # "ADMIN"
    <3>1. AdminSet \subseteq AdminSet'
      BY <1>6, <2>3 DEF AdminSet
    <3>2. QED
      BY <1>1, <2>1, <2>3, <3>1 DEF RoleInv, AdminRemains
  <2>4. CASE r.op # "promote" /\ acct[a].role = "ADMIN" /\ r.stale
    BY <2>1, <2>4 DEF AdminRemains
  <2>5. CASE r.op # "promote" /\ acct[a].role = "ADMIN" /\ ~r.stale
    <3>1. AdminSet \ {a} # {}
      BY <1>1, <1>3, <1>4, <1>5, <2>5 DEF RoleInv, Removal
    <3>2. AdminSet \ {a} \subseteq AdminSet'
      BY <1>6 DEF AdminSet
    <3>3. QED
      BY <3>1, <3>2 DEF AdminRemains
  <2>6. QED
    BY <2>2, <2>3, <2>4, <2>5
<1>13. \A p \in Requests : ~(Removal(p)' /\ ~req'[p].stale)
  BY <1>8 DEF Removal, RoleOps
<1>14. QED
  BY <1>9, <1>10, <1>11, <1>12, <1>13 DEF AccountsInv, RoleInv

----------------------------------------------------------------------------
(* The writes of triggers and pinned cities *)

LEMMA BucketRange ==
  ASSUME NEW lat \in Lats, NEW lon \in Lons
  PROVE  LocationBucket(lat, lon) \in 0..(Buckets - 1)
<1>1. Hash[<<lat, lon>>] \in Nat /\ Buckets \in Nat \ {0}
  BY AccountsAssumption
<1>2. ASSUME NEW h \in Nat, NEW n \in Nat \ {0} PROVE h % n \in 0..(n - 1)
  OBVIOUS
<1>3. QED
  BY <1>1, <1>2 DEF LocationBucket

(* One of the requests that passed the count makes way for its row. *)
LEMMA OneForOne ==
  ASSUME NEW S, NEW T, NEW S2, NEW T2, NEW x, NEW y, IsFiniteSet(S), IsFiniteSet(T),
         S2 \subseteq S \cup {x}, y \in T, T2 = T \ {y}
  PROVE  Cardinality(S2) + Cardinality(T2) <= Cardinality(S) + Cardinality(T)
<1>1. /\ IsFiniteSet(S \cup {x}) /\ Cardinality(S) \in Nat
      /\ Cardinality(S \cup {x}) \in Nat /\ Cardinality(S \cup {x}) <= Cardinality(S) + 1
  <2>1. /\ IsFiniteSet(S \cup {x})
        /\ Cardinality(S \cup {x}) = IF x \in S THEN Cardinality(S) ELSE Cardinality(S) + 1
    BY FS_AddElement
  <2>2. Cardinality(S) \in Nat
    BY FS_CardinalityType
  <2>3. QED
    BY <2>1, <2>2
<1>2. Cardinality(S2) \in Nat /\ Cardinality(S2) <= Cardinality(S \cup {x})
  BY <1>1, FS_Subset, FS_CardinalityType
<1>3. Cardinality(T) \in Nat /\ Cardinality(T2) = Cardinality(T) - 1
  BY FS_RemoveElement, FS_CardinalityType
<1>4. QED
  BY <1>1, <1>2, <1>3

LEMMA CreateTriggerKeeps ==
  ASSUME AccountsInv, NEW q \in Requests, CreateTrigger(q)
  PROVE  AccountsInv'
<1>1. Typed /\ RoleInv /\ LimitInv /\ BucketInv /\ trig \in [Rows -> TrigRecord]
  BY TypeSplit DEF AccountsInv, RowsTyped
<1>2. /\ req[q].op = "create" /\ req[q].pc = "create" /\ Answer(q)
      /\ UNCHANGED <<table, acct, pins, writes, raced, half>>
  BY DEF CreateTrigger, history
<1>3. CASE trig' = trig
  BY <1>2, <1>3, AnswerKeeps
<1>4. CASE trig' # trig
  <2>1. PICK a : a = req[q].who /\ a \in Accounts
    BY <1>1, <1>2, TypeSplit DEF ReqOK
  <2>2. PICK t \in Rows, lat \in Lats, lon \in Lons :
          /\ trig[t].state = "unused"
          /\ trig' = [trig EXCEPT ![t] =
                        [owner |-> a, lat |-> lat, lon |-> lon,
                         bucket |-> LocationBucket(lat, lon), state |-> "live"]]
    BY <1>4, <2>1 DEF CreateTrigger
  <2>3. PICK b \in 0..(Buckets - 1) : b = LocationBucket(lat, lon)
    BY BucketRange
  <2>4. PICK new : new = [owner |-> a, lat |-> lat, lon |-> lon, bucket |-> b, state |-> "live"]
    OBVIOUS
  <2>5. /\ new \in TrigRecord /\ new.owner = a /\ new.lat = lat /\ new.lon = lon
        /\ new.bucket = b
    BY <2>1, <2>4 DEF TrigRecord
  <2>6. /\ trig' \in [Rows -> TrigRecord] /\ trig'[t] = new
        /\ \A u \in Rows \ {t} : trig'[u] = trig[u]
    BY <1>1, <2>2, <2>3, <2>4, <2>5
  <2>7. /\ req' \in [Requests -> RequestType] /\ \A p \in Requests : ReqOK(req'[p])
        /\ req'[q].op = "idle" /\ \A p \in Requests \ {q} : req'[p] = req[p]
    BY <1>1, <1>2, IdleOK, ReqMoves DEF Answer
  <2>8. Typed'
    BY <1>1, <1>2, <2>6, <2>7 DEF Typed, TypeOK, TrigRecord
  <2>9. RoleInv'
    <3>1. AdminSet' = AdminSet
      BY <1>2 DEF AdminSet
    <3>2. \A p \in Requests :
            Removal(p)' => Removal(p) /\ req'[p].of = req[p].of /\ req'[p].stale = req[p].stale
      BY <2>7 DEF Removal, RoleOps
    <3>3. QED
      BY <1>1, <1>2, <3>1, <3>2, RoleFrame
  <2>10. BucketInv'
    BY <1>1, <1>2, <2>3, <2>5, <2>6 DEF BucketInv, LocationBucket
  <2>11. ASSUME NEW c \in Accounts
         PROVE  /\ Cardinality(Owned(c)') + Cardinality(Creating(c)')
                     <= MaxTriggers + Cardinality(Requests) - 1
                /\ Cardinality(pins'[c]) + Cardinality(Pinning(c)')
                     <= MaxPins + Cardinality(Requests) - 1
    <3>1. Pinning(c)' \subseteq Pinning(c) /\ pins'[c] \subseteq pins[c]
      BY <1>2, <2>7 DEF Pinning
    <3>2. CASE c # a
      <4>1. Owned(c)' \subseteq Owned(c) /\ Creating(c)' \subseteq Creating(c)
        BY <2>5, <2>6, <2>7, <3>2 DEF Owned, Creating
      <4>2. QED
        BY <1>1, <2>8, <3>1, <4>1, LimitFrame
    <3>3. CASE c = a
      <4>1. PICK S, T, S2, T2 : S = Owned(c) /\ T = Creating(c) /\ S2 = Owned(c)' /\ T2 = Creating(c)'
        OBVIOUS
      <4>2. S2 \subseteq S \cup {t}
        BY <2>6, <4>1 DEF Owned
      <4>3. q \in T /\ T2 = T \ {q}
        BY <1>2, <2>1, <2>7, <3>3, <4>1 DEF Creating
      <4>4. IsFiniteSet(S) /\ IsFiniteSet(T)
        BY <1>1, <4>1, Sizes
      <4>5. Cardinality(S2) + Cardinality(T2) <= Cardinality(S) + Cardinality(T)
        BY <4>2, <4>3, <4>4, OneForOne
      <4>6. Cardinality(S) + Cardinality(T) <= MaxTriggers + Cardinality(Requests) - 1
        BY <1>1, <4>1 DEF LimitInv
      <4>7. /\ Cardinality(S) \in Nat /\ Cardinality(T) \in Nat /\ Cardinality(Requests) \in Nat
            /\ MaxTriggers \in Nat
        BY <1>1, <4>1, Sizes, AccountsAssumption
      <4>8. Cardinality(S2) \in Nat /\ Cardinality(T2) \in Nat
        BY <4>2, <4>3, <4>4, FS_AddElement, FS_Subset, FS_CardinalityType
      <4>9. Cardinality(S2) + Cardinality(T2) <= MaxTriggers + Cardinality(Requests) - 1
        BY <4>5, <4>6, <4>7, <4>8
      <4>10. QED
        BY <1>1, <2>8, <3>1, <4>1, <4>9, LimitFrame
    <3>4. QED
      BY <3>2, <3>3
  <2>12. LimitInv'
    BY <2>11 DEF LimitInv
  <2>13. QED
    BY <2>8, <2>9, <2>10, <2>12 DEF AccountsInv
<1>5. QED
  BY <1>3, <1>4

(* A request is answered: it counts no more. *)
LEMMA Answered ==
  ASSUME Typed, RoleInv, NEW q \in Requests, Answer(q), UNCHANGED <<acct, raced>>
  PROVE  /\ req' \in [Requests -> RequestType] /\ \A p \in Requests : ReqOK(req'[p])
         /\ req'[q].op = "idle" /\ \A p \in Requests \ {q} : req'[p] = req[p]
         /\ RoleInv'
<1>1. /\ req' \in [Requests -> RequestType] /\ \A p \in Requests : ReqOK(req'[p])
      /\ req'[q].op = "idle" /\ \A p \in Requests \ {q} : req'[p] = req[p]
  BY IdleOK, ReqMoves DEF Answer
<1>2. AdminSet' = AdminSet
  BY DEF AdminSet
<1>3. \A p \in Requests :
        Removal(p)' => Removal(p) /\ req'[p].of = req[p].of /\ req'[p].stale = req[p].stale
  BY <1>1 DEF Removal, RoleOps
<1>4. QED
  BY <1>1, <1>2, <1>3, RoleFrame

(* A patch with both coordinates brings the bucket along; one with a       *)
(* single coordinate is on record.                                         *)
LEMMA UpdateTriggerKeeps ==
  ASSUME AccountsInv, NEW q \in Requests, UpdateTrigger(q)
  PROVE  AccountsInv'
<1>1. /\ Typed /\ RoleInv /\ LimitInv /\ BucketInv /\ trig \in [Rows -> TrigRecord]
      /\ pins \in [Accounts -> SUBSET Cities] /\ half \subseteq Rows
  BY TypeSplit DEF AccountsInv, RowsTyped
<1>2. PICK r : r = req[q] /\ ReqOK(r)
  BY <1>1, TypeSplit
<1>3. r.op = "update" /\ Answer(q) /\ UNCHANGED <<table, acct, pins, writes, raced>>
  BY <1>2 DEF UpdateTrigger
<1>4. PICK t \in Rows : t = r.of
  BY <1>2, <1>3 DEF ReqOK
<1>5. PICK row \in TrigRecord : row = trig[t]
  BY <1>1
<1>6. r.lat \in Lats \cup {None} /\ r.lon \in Lons \cup {None}
  BY <1>2 DEF ReqOK, RequestType
<1>7. row.state = "live" /\ row.lat \in Lats /\ row.lon \in Lons
  BY <1>1, <1>2, <1>4, <1>5 DEF UpdateTrigger, BucketInv
<1>8. PICK la \in Lats, lo \in Lons : la = Patched(row.lat, r.lat) /\ lo = Patched(row.lon, r.lon)
  BY <1>6, <1>7 DEF Patched
<1>9. PICK b \in 0..(Buckets - 1) : b = BucketPatch(r, row)
  <2>1. row.bucket \in 0..(Buckets - 1)
    BY DEF TrigRecord
  <2>2. QED
    BY <1>6, <2>1, BucketRange DEF BucketPatch
<1>10. PICK new : new = [row EXCEPT !.lat = la, !.lon = lo, !.bucket = b]
  OBVIOUS
<1>11. /\ new \in TrigRecord /\ new.lat = la /\ new.lon = lo /\ new.bucket = b
       /\ new.owner = row.owner /\ new.state = row.state
  BY <1>10 DEF TrigRecord
<1>12. trig' = [trig EXCEPT ![t] = new]
  BY <1>2, <1>4, <1>5, <1>8, <1>9, <1>10 DEF UpdateTrigger
<1>13. /\ trig' \in [Rows -> TrigRecord] /\ trig'[t] = new
       /\ \A u \in Rows \ {t} : trig'[u] = trig[u]
  BY <1>1, <1>11, <1>12
<1>14. half' = IF r.lat # None /\ r.lon # None THEN half \ {t}
               ELSE IF r.lat # None \/ r.lon # None THEN half \cup {t} ELSE half
  BY <1>2, <1>4 DEF UpdateTrigger
<1>15. /\ req' \in [Requests -> RequestType] /\ \A p \in Requests : ReqOK(req'[p])
       /\ req'[q].op = "idle" /\ \A p \in Requests \ {q} : req'[p] = req[p]
       /\ RoleInv'
  BY <1>1, <1>3, Answered
<1>16. Typed'
  <2>1. half' \subseteq Rows
    BY <1>1, <1>14
  <2>2. QED
    BY <1>1, <1>3, <1>13, <1>15, <2>1 DEF Typed, TypeOK, TrigRecord
<1>17. \A a \in Accounts : Owned(a)' \subseteq Owned(a)
  BY <1>5, <1>11, <1>13 DEF Owned
<1>18. LimitInv'
  BY <1>1, <1>3, <1>15, <1>16, <1>17, ShrinkKeeps
<1>19. BucketInv'
  <2>1. SUFFICES ASSUME NEW u \in Rows, trig'[u].state = "live"
                 PROVE  /\ trig'[u].lat \in Lats /\ trig'[u].lon \in Lons
                        /\ u \notin half' =>
                             trig'[u].bucket = LocationBucket(trig'[u].lat, trig'[u].lon)
    BY DEF BucketInv, LocationBucket
  <2>2. CASE u # t
    <3>1. trig'[u] = trig[u] /\ (u \in half' <=> u \in half)
      BY <1>13, <1>14, <2>2
    <3>2. QED
      BY <1>1, <2>1, <3>1 DEF BucketInv
  <2>3. CASE u = t
    <3>1. SUFFICES ASSUME t \notin half' PROVE b = LocationBucket(la, lo)
      BY <1>11, <1>13, <2>3
    <3>2. CASE r.lat # None /\ r.lon # None
      BY <1>8, <1>9, <3>2 DEF BucketPatch, Patched
    <3>3. CASE r.lat = None /\ r.lon = None
      <4>1. b = row.bucket /\ la = row.lat /\ lo = row.lon /\ t \notin half
        BY <1>8, <1>9, <1>14, <3>1, <3>3 DEF BucketPatch, Patched
      <4>2. QED
        BY <1>1, <1>5, <1>7, <4>1 DEF BucketInv
    <3>4. QED
      BY <1>14, <3>1, <3>2, <3>3
  <2>4. QED
    BY <2>2, <2>3
<1>20. QED
  BY <1>15, <1>16, <1>18, <1>19 DEF AccountsInv

LEMMA DeleteTriggerKeeps ==
  ASSUME AccountsInv, NEW q \in Requests, DeleteTrigger(q)
  PROVE  AccountsInv'
<1>1. Typed /\ RoleInv /\ LimitInv /\ BucketInv /\ trig \in [Rows -> TrigRecord]
  BY TypeSplit DEF AccountsInv, RowsTyped
<1>2. /\ req[q].op = "delete" /\ Answer(q)
      /\ UNCHANGED <<table, acct, pins, writes, raced, half>>
  BY DEF DeleteTrigger, history
<1>3. PICK t \in Rows : t = req[q].of
  BY <1>1, <1>2, TypeSplit DEF ReqOK
<1>4. Drop({t})
  BY <1>1, <1>3 DEF DeleteTrigger, Drop
<1>5. /\ trig' \in [Rows -> TrigRecord]
      /\ \A u \in Rows : trig'[u] = trig[u] \/ trig'[u].state # "live"
      /\ \A a \in Accounts : Owned(a)' \subseteq Owned(a)
  BY <1>1, <1>4, DropRows
<1>6. /\ req' \in [Requests -> RequestType] /\ \A p \in Requests : ReqOK(req'[p])
      /\ req'[q].op = "idle" /\ \A p \in Requests \ {q} : req'[p] = req[p]
      /\ RoleInv'
  BY <1>1, <1>2, Answered
<1>7. Typed'
  BY <1>1, <1>2, <1>5, <1>6 DEF Typed, TypeOK, TrigRecord
<1>8. LimitInv' /\ BucketInv'
  BY <1>1, <1>2, <1>5, <1>6, <1>7, ShrinkKeeps, BucketFrame
<1>9. QED
  BY <1>6, <1>7, <1>8 DEF AccountsInv

LEMMA PinCreateKeeps ==
  ASSUME AccountsInv, NEW q \in Requests, NEW c \in Cities, PinCreate(q, c)
  PROVE  AccountsInv'
<1>1. Typed /\ RoleInv /\ LimitInv /\ BucketInv /\ pins \in [Accounts -> SUBSET Cities]
  BY TypeSplit DEF AccountsInv, RowsTyped
<1>2. /\ req[q].op = "pin" /\ Answer(q)
      /\ UNCHANGED <<table, acct, trig, writes, raced, half>>
  BY DEF PinCreate, history
<1>3. PICK a : a = req[q].who /\ a \in Accounts
  BY <1>1, <1>2, TypeSplit DEF ReqOK
<1>4. /\ pins' \in [Accounts -> SUBSET Cities] /\ pins'[a] \subseteq pins[a] \cup {c}
      /\ \A b \in Accounts \ {a} : pins'[b] = pins[b]
  BY <1>1, <1>3 DEF PinCreate
<1>5. /\ req' \in [Requests -> RequestType] /\ \A p \in Requests : ReqOK(req'[p])
      /\ req'[q].op = "idle" /\ \A p \in Requests \ {q} : req'[p] = req[p]
      /\ RoleInv'
  BY <1>1, <1>2, Answered
<1>6. Typed'
  BY <1>1, <1>2, <1>4, <1>5 DEF Typed, TypeOK
<1>7. BucketInv'
  BY <1>1, <1>2, BucketFrame
<1>8. ASSUME NEW d \in Accounts
      PROVE  /\ Cardinality(Owned(d)') + Cardinality(Creating(d)')
                  <= MaxTriggers + Cardinality(Requests) - 1
             /\ Cardinality(pins'[d]) + Cardinality(Pinning(d)')
                  <= MaxPins + Cardinality(Requests) - 1
  <2>1. Owned(d)' \subseteq Owned(d) /\ Creating(d)' \subseteq Creating(d)
    BY <1>2, <1>5 DEF Owned, Creating
  <2>2. CASE d # a
    <3>1. pins'[d] \subseteq pins[d] /\ Pinning(d)' \subseteq Pinning(d)
      BY <1>4, <1>5, <2>2 DEF Pinning
    <3>2. QED
      BY <1>1, <1>6, <2>1, <3>1, LimitFrame
  <2>3. CASE d = a
    <3>1. PICK S, T, S2, T2 : S = pins[d] /\ T = Pinning(d) /\ S2 = pins'[d] /\ T2 = Pinning(d)'
      OBVIOUS
    <3>2. S2 \subseteq S \cup {c}
      BY <1>4, <2>3, <3>1
    <3>3. q \in T /\ T2 = T \ {q}
      BY <1>2, <1>3, <1>5, <2>3, <3>1 DEF Pinning
    <3>4. IsFiniteSet(S) /\ IsFiniteSet(T)
      BY <1>1, <3>1, Sizes
    <3>5. Cardinality(S2) + Cardinality(T2) <= Cardinality(S) + Cardinality(T)
      BY <3>2, <3>3, <3>4, OneForOne
    <3>6. Cardinality(S) + Cardinality(T) <= MaxPins + Cardinality(Requests) - 1
      BY <1>1, <3>1 DEF LimitInv
    <3>7. /\ Cardinality(S) \in Nat /\ Cardinality(T) \in Nat /\ Cardinality(Requests) \in Nat
          /\ MaxPins \in Nat
      BY <1>1, <3>1, Sizes, AccountsAssumption
    <3>8. Cardinality(S2) \in Nat /\ Cardinality(T2) \in Nat
      BY <3>2, <3>3, <3>4, FS_AddElement, FS_Subset, FS_CardinalityType
    <3>9. Cardinality(S2) + Cardinality(T2) <= MaxPins + Cardinality(Requests) - 1
      BY <3>5, <3>6, <3>7, <3>8
    <3>10. QED
      BY <1>1, <1>6, <2>1, <3>1, <3>9, LimitFrame
  <2>4. QED
    BY <2>2, <2>3
<1>9. LimitInv'
  BY <1>8 DEF LimitInv
<1>10. QED
  BY <1>5, <1>6, <1>7, <1>9 DEF AccountsInv

----------------------------------------------------------------------------
(* The invariant *)

LEMMA InitAccounts == Init => AccountsInv
<1>1. SUFFICES ASSUME Init PROVE AccountsInv
  OBVIOUS
<1>2. /\ \A a \in Accounts : acct[a] = [role |-> IF a \in Admins THEN "ADMIN" ELSE "unused",
                                        verified |-> a \in Admins, link |-> FALSE]
      /\ \A t \in Rows : trig[t] = NoRow
      /\ \A a \in Accounts : pins[a] = {}
      /\ \A q \in Requests : req[q] = Idle
      /\ writes = 0 /\ raced = FALSE /\ half = {}
  BY <1>1 DEF Init
<1>3. Typed
  <2>1. acct \in [Accounts -> AcctRecord]
    <3>1. ASSUME NEW a \in Accounts PROVE acct[a] \in AcctRecord
      <4>1. PICK r \in {"ADMIN", "unused"}, v \in BOOLEAN :
              r = (IF a \in Admins THEN "ADMIN" ELSE "unused") /\ (v <=> a \in Admins)
        OBVIOUS
      <4>2. [role |-> r, verified |-> v, link |-> FALSE] \in AcctRecord
        BY Zenon DEF AcctRecord
      <4>3. QED
        BY <1>2, <4>1, <4>2
    <3>2. acct = [a \in Accounts |-> acct[a]]
      BY <1>1 DEF Init
    <3>3. QED
      BY <3>1, <3>2
  <2>2. trig \in [Rows -> TrigRecord]
    <3>1. 0 \in 0..(Buckets - 1)
      BY AccountsAssumption
    <3>2. NoRow \in TrigRecord
      BY <3>1 DEF NoRow, TrigRecord
    <3>3. QED
      BY <1>1, <3>2 DEF Init
  <2>3. req \in [Requests -> RequestType] /\ \A q \in Requests : ReqOK(req[q])
    <3>1. Idle \in RequestType
      BY IdleOK DEF ReqOK
    <3>2. QED
      BY <1>1, <1>2, <3>1, IdleOK DEF Init
  <2>4. /\ table \in Tables /\ pins \in [Accounts -> SUBSET Cities]
        /\ writes \in 0..MaxWrites /\ raced \in BOOLEAN /\ half \subseteq Rows
    <3>1. MaxWrites \in Nat
      BY AccountsAssumption
    <3>2. table \in Tables /\ pins \in [Accounts -> SUBSET Cities]
      BY <1>1 DEF Init
    <3>3. writes \in 0..MaxWrites /\ half \subseteq Rows
      BY <1>2, <3>1
    <3>4. raced \in BOOLEAN
      BY <1>2
    <3>5. QED
      BY <3>2, <3>3, <3>4
  <2>5. QED
    BY <2>1, <2>2, <2>3, <2>4, TypeSplit DEF RowsTyped
<1>4. RoleInv
  <2>1. Admins \subseteq AdminSet /\ Admins # {}
    <3>1. \A a \in Admins : a \in Accounts /\ acct[a].role = "ADMIN"
      <4>1. Admins \subseteq Accounts
        BY AccountsAssumption
      <4>2. ASSUME NEW a \in Accounts, a \in Admins PROVE acct[a].role = "ADMIN"
        <5>1. PICK role, v : /\ acct[a] = [role |-> role, verified |-> v, link |-> FALSE]
                             /\ role = IF a \in Admins THEN "ADMIN" ELSE "unused"
          BY <1>2, Zenon
        <5>2. QED
          BY <4>2, <5>1
      <4>3. QED
        BY <4>1, <4>2
    <3>2. QED
      BY <3>1, AccountsAssumption DEF AdminSet
  <2>2. \A q \in Requests : ~Removal(q)
    BY <1>2, IdleOK DEF Removal
  <2>3. QED
    BY <2>1, <2>2 DEF RoleInv, AdminRemains
<1>5. LimitInv
  <2>1. SUFFICES ASSUME NEW a \in Accounts
                 PROVE  /\ Cardinality(Owned(a)) + Cardinality(Creating(a))
                             <= MaxTriggers + Cardinality(Requests) - 1
                        /\ Cardinality(pins[a]) + Cardinality(Pinning(a))
                             <= MaxPins + Cardinality(Requests) - 1
    BY DEF LimitInv
  <2>2. Owned(a) = {} /\ Creating(a) = {} /\ Pinning(a) = {} /\ pins[a] = {}
    <3>1. Owned(a) = {}
      BY <1>2, AccountsAssumption DEF Owned, NoRow
    <3>2. Creating(a) = {} /\ Pinning(a) = {}
      BY <1>2, IdleOK DEF Creating, Pinning
    <3>3. QED
      BY <1>2, <3>1, <3>2
  <2>3. Cardinality({}) = 0 /\ Cardinality(Requests) \in Nat
    BY FS_EmptySet, FS_CardinalityType, AccountsAssumption
  <2>4. MaxTriggers \in Nat \ {0} /\ MaxPins \in Nat \ {0}
    BY AccountsAssumption
  <2>5. QED
    BY <2>2, <2>3, <2>4
<1>6. BucketInv
  BY <1>2 DEF BucketInv, NoRow
<1>7. QED
  BY <1>3, <1>4, <1>5, <1>6 DEF AccountsInv

LEMMA StepAccounts == AccountsInv /\ [Next]_vars => AccountsInv'
<1>1. SUFFICES ASSUME AccountsInv, [Next]_vars PROVE AccountsInv'
  OBVIOUS
<1>2. ASSUME NEW a \in Accounts,
             \/ Register(a) \/ ResendVerification(a) \/ VerifyEmail(a) \/ ResetPassword(a)
             \/ SetVerified(a)
      PROVE  AccountsInv'
  BY <1>1, <1>2, VerificationKeeps
<1>3. ASSUME NEW a \in Accounts, ClearTriggers(a) PROVE AccountsInv'
  <2>1. PICK ts : ts = Owned(a)
    OBVIOUS
  <2>2. QED
    BY <1>1, <1>3, <2>1, DeleteManyKeeps DEF ClearTriggers
<1>4. ASSUME NEW t \in Rows, AdminDeleteTrigger(t) PROVE AccountsInv'
  BY <1>1, <1>4, DeleteManyKeeps DEF AdminDeleteTrigger
<1>5. ASSUME NEW a \in Accounts, NEW c \in Cities, PinRemove(a, c) PROVE AccountsInv'
  BY <1>1, <1>5, PinRemoveKeeps
<1>6. ASSUME NEW q \in Requests, NEW a \in Accounts,
             (\E op \in RoleOps : RoleRead(q, op, a)) \/ CreateGate(q, a) \/ PinCount(q, a)
      PROVE  AccountsInv'
  <2>1. ASSUME NEW op \in RoleOps, RoleRead(q, op, a) PROVE AccountsInv'
    BY <1>1, <2>1, RoleReadKeeps
  <2>2. ASSUME CreateGate(q, a) PROVE AccountsInv'
    BY <1>1, <2>2, CreateGateKeeps
  <2>3. ASSUME PinCount(q, a) PROVE AccountsInv'
    BY <1>1, <2>3, PinCountKeeps
  <2>4. QED
    BY <1>6, <2>1, <2>2, <2>3
<1>7. ASSUME NEW q \in Requests, RoleStep(q) PROVE AccountsInv'
  BY <1>1, <1>7, RoleCountKeeps, RoleWriteKeeps, FailsKeeps DEF RoleStep
<1>8. ASSUME NEW q \in Requests, TriggerStep(q) PROVE AccountsInv'
  BY <1>1, <1>8, CreateCountKeeps, CreateTriggerKeeps, UpdateTriggerKeeps, DeleteTriggerKeeps,
     FailsKeeps DEF TriggerStep
<1>9. ASSUME NEW q \in Requests, NEW t \in Rows, FindOwned(q, t) PROVE AccountsInv'
  BY <1>1, <1>9, FindOwnedKeeps
<1>10. ASSUME NEW q \in Requests, NEW c \in Cities, PinCreate(q, c) PROVE AccountsInv'
  BY <1>1, <1>10, PinCreateKeeps
<1>11. CASE UNCHANGED vars
  <2>1. UNCHANGED <<table, acct, trig, pins, req, writes, raced, half>>
    BY <1>11 DEF vars
  <2>2. Typed /\ RoleInv /\ LimitInv /\ BucketInv
    BY <1>1 DEF AccountsInv
  <2>3. Typed'
    BY <2>1, <2>2 DEF Typed, TypeOK
  <2>4. RoleInv' /\ LimitInv'
    BY <2>1, <2>2 DEF RoleInv, AdminRemains, AdminSet, Removal, LimitInv, Owned, Creating, Pinning
  <2>5. BucketInv'
    BY <2>1, <2>2, BucketFrame
  <2>6. QED
    BY <2>3, <2>4, <2>5 DEF AccountsInv
<1>12. QED
  BY <1>1, <1>2, <1>3, <1>4, <1>5, <1>6, <1>7, <1>8, <1>9, <1>10, <1>11 DEF Next

LEMMA AlwaysAccounts == Spec => []AccountsInv
  BY InitAccounts, StepAccounts, PTL DEF Spec

(* Every row and request keeps its type. *)
THEOREM TypeCorrect == Spec => []TypeOK
<1>1. AccountsInv => TypeOK
  BY DEF AccountsInv, Typed
<1>2. QED
  BY <1>1, AlwaysAccounts, PTL

(* assertNotTheLastAdmin and deleteAccount keep an administrator, however  *)
(* many requests overlap, unless one was removed on a count that another   *)
(* role change had outdated.                                               *)
THEOREM AnAdminRemains == Spec => []AdminRemains
<1>1. AccountsInv => AdminRemains
  BY DEF AccountsInv, RoleInv
<1>2. QED
  BY <1>1, AlwaysAccounts, PTL

(* The counts before the writes of triggers and pinned cities let an       *)
(* account exceed its limits by less than the requests in flight.          *)
THEOREM OvershootBounded == Spec => []LimitsOvershootBounded
<1>1. ASSUME AccountsInv PROVE LimitsOvershootBounded
  <2>1. Typed /\ LimitInv
    BY <1>1 DEF AccountsInv
  <2>2. SUFFICES ASSUME NEW a \in Accounts
                 PROVE  /\ Cardinality(Owned(a)) <= MaxTriggers + Cardinality(Requests) - 1
                        /\ Cardinality(pins[a]) <= MaxPins + Cardinality(Requests) - 1
    BY DEF LimitsOvershootBounded
  <2>3. /\ Cardinality(Owned(a)) + Cardinality(Creating(a)) <= MaxTriggers + Cardinality(Requests) - 1
        /\ Cardinality(pins[a]) + Cardinality(Pinning(a)) <= MaxPins + Cardinality(Requests) - 1
    BY <2>1 DEF LimitInv
  <2>4. /\ Cardinality(Owned(a)) \in Nat /\ Cardinality(Creating(a)) \in Nat
        /\ Cardinality(Pinning(a)) \in Nat /\ Cardinality(pins[a]) \in Nat
        /\ Cardinality(Requests) \in Nat /\ MaxTriggers \in Nat /\ MaxPins \in Nat
    BY <2>1, Sizes, AccountsAssumption
  <2>5. QED
    BY <2>3, <2>4
<1>2. QED
  BY <1>1, AlwaysAccounts, PTL

(* A bucket is dealt to one watcher instance of any number of them. *)
LEMMA OneShard ==
  ASSUME NEW n \in 1..Buckets, NEW b \in 0..(Buckets - 1)
  PROVE  {i \in 0..(n - 1) : b \in BucketsForShard(i, n)} = {b % n}
<1>1. n \in Nat \ {0} /\ b \in Nat
  BY AccountsAssumption
<1>2. b % n \in 0..(n - 1)
  BY <1>1
<1>3. QED
  BY <1>2 DEF BucketsForShard

(* For every number of instances a live trigger is polled by exactly one,  *)
(* the one of its coordinates, unless half a patch moved it.               *)
THEOREM EveryTriggerHasOneOwner == Spec => []OneOwner
<1>1. ASSUME AccountsInv PROVE OneOwner
  <2>1. BucketInv /\ trig \in [Rows -> TrigRecord]
    BY <1>1, TypeSplit DEF AccountsInv, RowsTyped
  <2>2. ASSUME NEW n \in 1..Buckets, NEW t \in Rows, trig[t].state = "live"
        PROVE  /\ Cardinality({i \in 0..(n - 1) : trig[t].bucket \in BucketsForShard(i, n)}) = 1
               /\ t \notin half =>
                    {i \in 0..(n - 1) : trig[t].bucket \in BucketsForShard(i, n)}
                    = {i \in 0..(n - 1) :
                         LocationBucket(trig[t].lat, trig[t].lon) \in BucketsForShard(i, n)}
    <3>1. PICK b \in 0..(Buckets - 1) : b = trig[t].bucket
      BY <2>1 DEF TrigRecord
    <3>2. Cardinality({i \in 0..(n - 1) : b \in BucketsForShard(i, n)}) = 1
      <4>1. {i \in 0..(n - 1) : b \in BucketsForShard(i, n)} = {b % n}
        BY OneShard
      <4>2. QED
        BY <4>1, FS_Singleton
    <3>3. t \notin half => b = LocationBucket(trig[t].lat, trig[t].lon)
      BY <2>1, <2>2, <3>1 DEF BucketInv
    <3>4. QED
      BY <3>1, <3>2, <3>3
  <2>3. QED
    BY <2>2 DEF OneOwner
<1>2. QED
  BY <1>1, AlwaysAccounts, PTL

=============================================================================
