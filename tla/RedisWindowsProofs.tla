------------------------- MODULE RedisWindowsProofs -------------------------
(***************************************************************************)
(* The safety properties of RedisWindows, for every number of requests in  *)
(* flight, every TTL and every limit.                                      *)
(***************************************************************************)
EXTENDS RedisWindows, FiniteSetTheorems, TLAPS

(* The throttler: neither key outlives the last request by more than the   *)
(* window.                                                                 *)
ThrottleInv ==
  /\ block > 0 => block + quiet <= ThrottleTTL
  /\ hits.n > 0 => hits.left > 0 /\ hits.left + quiet <= ThrottleTTL

(* The lockout: the count has its expiry from the first failure on.        *)
LockoutInv == fails.n > 0 => fails.left > 0 /\ failAge + fails.left = LockoutTTL

(* The attempts that have passed the check and are not yet counted. *)
Passed == {r \in Requests : req[r].pc \in {"compare", "record"}}

OvershootInv ==
  fails.n + Cardinality(Passed) <= MaxFailures + Cardinality(Requests) - 1 + faults

(* The cooldown: a send that is under way, or the latest that succeeded,   *)
(* is covered until its window is over: by its own reservation as long as  *)
(* that is there, then by what is still owed of it. So whoever reserves in *)
(* that time begins early, and all are apart.                              *)
Owes(t) == owed + t >= CooldownTTL

Covered ==
  /\ \A p \in Requests : req[p].pc \in Holding =>
       (holder = p /\ cool + req[p].age = CooldownTTL) \/ Owes(req[p].age)
  /\ \/ Owes(paced.age)
     \/ /\ cool + paced.age >= CooldownTTL
        /\ \A p \in Requests : holder = p => req[p].pc \notin Holding

AllApart ==
  \A p \in Requests : req[p].pc \in Holding =>
    /\ Apart(req[p], paced)
    /\ \A q \in Requests \ {p} : req[q].pc \in Holding => Apart(req[p], req[q])

PaceInv == Covered /\ AllApart

(* The caches: what is stored, or about to be, is not the answer to an     *)
(* outage.                                                                 *)
OutageInv ==
  /\ OutageIsNotRemembered
  /\ cache.got # "outage"
  /\ \A r \in Requests : req[r].got # "outage"

WindowsInv == TypeOK /\ ThrottleInv /\ LockoutInv /\ OvershootInv /\ PaceInv /\ OutageInv

----------------------------------------------------------------------------
(* The steps *)

LEMMA Constants ==
  /\ ThrottleTTL \in Nat /\ ThrottleTTL > 0 /\ LockoutTTL \in Nat /\ LockoutTTL > 0
  /\ CooldownTTL \in Nat /\ CooldownTTL > 0 /\ CacheTTL \in Nat /\ CacheTTL > 0
  /\ Limit \in Nat /\ Limit > 0 /\ MaxFailures \in Nat /\ MaxFailures > 0
  /\ Channels \in Nat /\ Channels > 0 /\ MaxHits \in Nat /\ PublishBound \in Nat
  /\ MaxFaults \in Nat /\ None \notin Requests
  /\ PaceCap \in Nat /\ PaceCap = CooldownTTL + PublishBound
  BY WindowsAssumption DEF PaceCap

(* What one request does. *)
LoginMove(r) == LoginStep(r) \/ LoginRedisFails(r)
CacheMove(r) ==
  \/ CacheHit(r) \/ GetJson(r) \/ Fetched(r) \/ SetJson(r)
  \/ FetchFails(r) \/ RetryFetch(r) \/ CacheFails(r)
Move(r) == LoginMove(r) \/ TestStep(r) \/ CacheMove(r)
Outage  == OutageBegins \/ OutageEnds

LEMMA Steps ==
  ASSUME [Next]_vars
  PROVE  \/ Increment \/ IncrementFails \/ Outage \/ Tick \/ UNCHANGED vars
         \/ \E r \in Requests : Move(r)
  BY DEF Next, Move, LoginMove, CacheMove, Outage, ForecastGet, GeocodeSearch, GeocodeFails,
    GetSnapshot, ReadThrough

(* A request leaves the keys of the other routes alone. *)
LEMMA MoveFrame ==
  ASSUME NEW r \in Requests, Move(r)
  PROVE  /\ UNCHANGED <<route, hits, block, quiet>>
         /\ ~LoginMove(r) => UNCHANGED <<fails, failAge>>
         /\ ~TestStep(r) => UNCHANGED <<cool, holder, owed, paced>>
         /\ ~CacheMove(r) => UNCHANGED <<cache, served>>
<1>1. CASE LoginMove(r)
  BY <1>1 DEF LoginMove, LoginStep, LoginCheck, PasswordCompared, RecordFailure, ClearFailures,
    LoginRedisFails, history, testHistory
<1>2. CASE TestStep(r)
  BY <1>2 DEF TestStep, ConsumeCooldown, PublishTest, PublishTestFails, ClearCooldown,
    TestEnds, history, testHistory
<1>3. CASE CacheMove(r)
  BY <1>3 DEF CacheMove, CacheHit, GetJson, Fetched, SetJson, FetchFails, RetryFetch, CacheFails,
    Serve, history, testHistory
<1>4. QED
  BY <1>1, <1>2, <1>3 DEF Move

----------------------------------------------------------------------------
(* Types *)

Pcs == {"idle", "compare", "record", "forget", "publish", "refund", "fetch", "store"}
ReqRecord == [pc: Pcs, age: 0..PublishBound, n: 0..(Channels + 1),
              early: BOOLEAN, met: BOOLEAN, got: Answers]

KeysTyped ==
  /\ route \in Routes
  /\ hits \in [n: 0..MaxHits, left: 0..ThrottleTTL] /\ block \in 0..ThrottleTTL
  /\ fails \in [n: Nat, left: 0..LockoutTTL]
  /\ cool \in 0..CooldownTTL
  /\ cache \in [got: Answers, left: 0..CacheTTL] /\ down \in BOOLEAN
  /\ faults \in 0..MaxFaults
  /\ quiet \in 0..ThrottleTTL /\ failAge \in 0..(LockoutTTL + 1)
  /\ holder \in Requests \cup {None} /\ owed \in 0..CooldownTTL
  /\ paced \in [age: 0..PaceCap, early: BOOLEAN]
  /\ served \in [got: Answers, met: BOOLEAN]

LEMMA TypeSplit == TypeOK <=> KeysTyped /\ req \in [Requests -> ReqRecord]
  BY DEF TypeOK, KeysTyped, ReqRecord, Pcs

LEMMA TypeSplitNext == TypeOK' <=> KeysTyped' /\ req' \in [Requests -> ReqRecord]
  BY DEF TypeOK, KeysTyped, ReqRecord, Pcs

LEMMA IdleOK ==
  Idle \in ReqRecord /\ Idle.pc = "idle" /\ Idle.got = "none" /\ ~Idle.early
  BY Constants DEF ReqRecord, Idle, Pcs, Answers

(* A request that moves on keeps its types if its record does. *)
LEMMA MoveTyped ==
  ASSUME TypeOK, NEW r \in Requests, NEW new \in ReqRecord,
         req' = [req EXCEPT ![r] = new], KeysTyped'
  PROVE  /\ TypeOK' /\ req'[r] = new /\ \A q \in Requests \ {r} : req'[q] = req[q]
  BY TypeSplit, TypeSplitNext

(* The records the steps of a request build. *)
LEMMA PcRecord ==
  ASSUME NEW m \in ReqRecord, NEW pc \in Pcs, NEW new, new = [m EXCEPT !.pc = pc]
  PROVE  /\ new \in ReqRecord /\ new.pc = pc /\ new.age = m.age /\ new.early = m.early
         /\ new.got = m.got
  BY DEF ReqRecord

LEMMA CountRecord ==
  ASSUME NEW m \in ReqRecord, NEW n \in 0..(Channels + 1), NEW new, new = [m EXCEPT !.n = n]
  PROVE  /\ new \in ReqRecord /\ new.pc = m.pc /\ new.age = m.age /\ new.early = m.early
         /\ new.got = m.got
  BY DEF ReqRecord

LEMMA SendingRecord ==
  ASSUME NEW early \in BOOLEAN, NEW new, new = Sending(early)
  PROVE  new \in ReqRecord /\ new.pc = "publish" /\ new.age = 0 /\ new.early = early
         /\ new.got = "none"
<1>1. new = [pc |-> "publish", age |-> 0, n |-> Channels, early |-> early, met |-> FALSE,
             got |-> "none"]
  BY DEF Sending, Idle
<1>2. "publish" \in Pcs /\ "none" \in Answers
  BY DEF Pcs, Answers
<1>3. 0 \in 0..PublishBound /\ Channels \in 0..(Channels + 1)
  BY Constants
<1>4. new \in ReqRecord
  BY <1>1, <1>2, <1>3 DEF ReqRecord
<1>5. QED
  BY <1>1, <1>4

LEMMA FetchRecord ==
  ASSUME NEW m \in ReqRecord, NEW met \in BOOLEAN, NEW new,
         new = [m EXCEPT !.pc = "fetch", !.met = met]
  PROVE  new \in ReqRecord /\ new.pc = "fetch" /\ new.got = m.got
  BY DEF ReqRecord, Pcs

LEMMA StoreRecord ==
  ASSUME NEW m \in ReqRecord, NEW new, new = [m EXCEPT !.pc = "store", !.got = "answer"]
  PROVE  new \in ReqRecord /\ new.pc = "store" /\ new.got = "answer"
  BY DEF ReqRecord, Pcs, Answers

LEMMA MetRecord ==
  ASSUME NEW m \in ReqRecord, NEW new, new = [m EXCEPT !.met = TRUE]
  PROVE  /\ new \in ReqRecord /\ new.pc = m.pc /\ new.got = m.got
  BY DEF ReqRecord

LEMMA FaultTyped ==
  ASSUME KeysTyped, Fault
  PROVE  faults' = faults + 1 /\ faults' \in 0..MaxFaults
  BY Constants DEF Fault, KeysTyped

Trying == {"compare", "record", "forget"}

(* login: a request goes from idle to the comparison, the record and back. *)
LEMMA LoginTo ==
  ASSUME TypeOK, NEW r \in Requests, LoginMove(r)
  PROVE  /\ \E new \in ReqRecord :
              /\ req' = [req EXCEPT ![r] = new] /\ new.got \in {"none", req[r].got}
              /\ new.pc \in Trying \cup {"idle"} /\ req[r].pc \in Trying \cup {"idle"}
         /\ KeysTyped'
<1>1. KeysTyped /\ req[r] \in ReqRecord
  BY TypeSplit
<1>2. PICK m \in ReqRecord : m = req[r]
  BY <1>1
<1>3. CASE LoginCheck(r) \/ PasswordCompared(r)
  <2>1. PICK pc \in Trying : Goto(r, pc)
    BY <1>3 DEF LoginCheck, PasswordCompared, Trying
  <2>2. PICK new : new = [m EXCEPT !.pc = pc]
    OBVIOUS
  <2>3. new \in ReqRecord /\ new.pc = pc /\ new.got = m.got
    BY <2>2, PcRecord DEF Trying, Pcs
  <2>4. req' = [req EXCEPT ![r] = new]
    BY <1>2, <2>1, <2>2 DEF Goto
  <2>5. req[r].pc \in Trying \cup {"idle"}
    BY <1>3 DEF LoginCheck, PasswordCompared, Trying
  <2>6. KeysTyped'
    BY <1>1, <1>3 DEF LoginCheck, PasswordCompared, KeysTyped, history, testHistory
  <2>7. QED
    BY <1>2, <2>3, <2>4, <2>5, <2>6
<1>4. CASE RecordFailure(r)
  <2>1. req' = [req EXCEPT ![r] = Idle] /\ req[r].pc = "record"
    BY <1>4 DEF RecordFailure, Answer
  <2>2. fails' \in [n: Nat, left: 0..LockoutTTL] /\ failAge' \in 0..(LockoutTTL + 1)
    BY <1>1, <1>4, Constants DEF RecordFailure, Failed, Counted, KeysTyped
  <2>3. KeysTyped'
    BY <1>1, <1>4, <2>2 DEF RecordFailure, KeysTyped, testHistory
  <2>4. QED
    BY <2>1, <2>3, IdleOK DEF Trying
<1>5. CASE ClearFailures(r)
  <2>1. req' = [req EXCEPT ![r] = Idle] /\ req[r].pc = "forget"
    BY <1>5 DEF ClearFailures, Answer
  <2>2. fails' \in [n: Nat, left: 0..LockoutTTL] /\ failAge' \in 0..(LockoutTTL + 1)
    BY <1>5, Constants DEF ClearFailures
  <2>3. KeysTyped'
    BY <1>1, <1>5, <2>2 DEF ClearFailures, KeysTyped, testHistory
  <2>4. QED
    BY <2>1, <2>3, IdleOK DEF Trying
<1>6. CASE LoginRedisFails(r)
  <2>1. KeysTyped'
    BY <1>1, <1>6, FaultTyped DEF LoginRedisFails, KeysTyped, history, testHistory
  <2>2. CASE req[r].pc = "idle" /\ Goto(r, "compare")
    <3>1. PICK new : new = [m EXCEPT !.pc = "compare"]
      OBVIOUS
    <3>2. new \in ReqRecord /\ new.pc = "compare" /\ new.got = m.got
      BY <3>1, PcRecord DEF Pcs
    <3>3. req' = [req EXCEPT ![r] = new]
      BY <1>2, <2>2, <3>1 DEF Goto
    <3>4. QED
      BY <1>2, <2>1, <2>2, <3>2, <3>3 DEF Trying
  <2>3. CASE req[r].pc \in {"record", "forget"} /\ Answer(r)
    BY <2>1, <2>3, IdleOK DEF Answer, Trying
  <2>4. QED
    BY <1>6, <2>2, <2>3 DEF LoginRedisFails
<1>7. QED
  BY <1>3, <1>4, <1>5, <1>6 DEF LoginMove, LoginStep

(* What a step of a test send makes of its request. *)
TestMoved(r, new) ==
  /\ req' = [req EXCEPT ![r] = new] /\ new.got \in {"none", req[r].got}
  /\ new.pc \in Holding \cup {"idle"} /\ req[r].pc \in Holding \cup {"idle"}
  /\ new.pc \in Holding /\ req[r].pc \in Holding =>
       new.age = req[r].age /\ new.early = req[r].early
  /\ new.pc \in Holding /\ req[r].pc = "idle" =>
       new.pc = "publish" /\ new.age = 0 /\ new.early = (owed > 0)

LEMMA TestTo ==
  ASSUME TypeOK, NEW r \in Requests, TestStep(r)
  PROVE  (\E new \in ReqRecord : TestMoved(r, new)) /\ KeysTyped'
<1>1. KeysTyped /\ req[r] \in ReqRecord
  BY TypeSplit
<1>2. PICK m \in ReqRecord : m = req[r]
  BY <1>1
<1>3. CASE ConsumeCooldown(r)
  <2>0. (owed > 0) \in BOOLEAN
    OBVIOUS
  <2>1. PICK early \in BOOLEAN : early = (owed > 0)
    BY <2>0, Zenon
  <2>2. PICK new : new = Sending(early)
    OBVIOUS
  <2>3. new \in ReqRecord /\ new.pc = "publish" /\ new.age = 0 /\ new.early = early
        /\ new.got = "none"
    BY <2>2, SendingRecord
  <2>4. req' = [req EXCEPT ![r] = new] /\ req[r].pc = "idle"
    BY <1>3, <2>1, <2>2 DEF ConsumeCooldown
  <2>5. KeysTyped'
    BY <1>1, <1>3, Constants DEF ConsumeCooldown, KeysTyped
  <2>6. QED
    BY <2>1, <2>3, <2>4, <2>5 DEF TestMoved, Holding
<1>4. CASE PublishTest(r)
  <2>1. m.age \in 0..PublishBound /\ m.early \in BOOLEAN /\ req[r].pc = "publish"
    BY <1>4 DEF PublishTest, ReqRecord
  <2>2. paced' \in [age: 0..PaceCap, early: BOOLEAN]
    BY <1>1, <1>2, <1>4, <2>1, Constants DEF PublishTest, KeysTyped
  <2>3. KeysTyped'
    BY <1>1, <1>4, <2>2 DEF PublishTest, KeysTyped
  <2>4. CASE m.n > 1
    <3>1. PICK n : n = m.n - 1
      OBVIOUS
    <3>2. PICK new : new = [m EXCEPT !.n = n]
      OBVIOUS
    <3>3. n \in 0..(Channels + 1)
      BY <2>4, <3>1, Constants DEF ReqRecord
    <3>4. new \in ReqRecord /\ new.pc = m.pc /\ new.age = m.age /\ new.early = m.early
          /\ new.got = m.got
      BY <3>2, <3>3, CountRecord
    <3>5. req' = [req EXCEPT ![r] = new]
      BY <1>2, <1>4, <2>4, <3>1, <3>2 DEF PublishTest
    <3>6. QED
      BY <1>2, <2>1, <2>3, <3>4, <3>5 DEF TestMoved, Holding
  <2>5. CASE ~(m.n > 1)
    <3>1. req' = [req EXCEPT ![r] = Idle]
      BY <1>2, <1>4, <2>5 DEF PublishTest
    <3>2. QED
      BY <2>1, <2>3, <3>1, IdleOK DEF TestMoved, Holding
  <2>6. QED
    BY <2>4, <2>5
<1>5. CASE PublishTestFails(r)
  <2>1. PICK new : new = [m EXCEPT !.pc = "refund"]
    OBVIOUS
  <2>2. m.pc = "publish" /\ req' = [req EXCEPT ![r] = new]
    BY <1>2, <1>5, <2>1 DEF PublishTestFails, Goto
  <2>3. new \in ReqRecord /\ new.pc = "refund" /\ new.age = m.age /\ new.early = m.early
        /\ new.got = m.got
    BY <2>1, PcRecord DEF Pcs
  <2>4. KeysTyped'
    BY <1>1, <1>5, FaultTyped DEF PublishTestFails, KeysTyped, history, testHistory
  <2>5. QED
    BY <1>2, <2>2, <2>3, <2>4 DEF TestMoved, Holding
<1>6. CASE ClearCooldown(r)
  <2>1. req' = [req EXCEPT ![r] = Idle] /\ req[r].pc = "refund"
    BY <1>6 DEF ClearCooldown, Answer
  <2>2. KeysTyped'
    BY <1>1, <1>6, Constants DEF ClearCooldown, KeysTyped
  <2>3. QED
    BY <2>1, <2>2, IdleOK DEF TestMoved, Holding
<1>7. CASE TestEnds(r)
  <2>1. req' = [req EXCEPT ![r] = Idle] /\ req[r].pc \in Holding
    BY <1>7 DEF TestEnds, Answer, Holding
  <2>2. KeysTyped'
    BY <1>1, <1>7, FaultTyped DEF TestEnds, KeysTyped, history, testHistory
  <2>3. QED
    BY <2>1, <2>2, IdleOK DEF TestMoved, Holding
<1>8. QED
  BY <1>3, <1>4, <1>5, <1>6, <1>7 DEF TestStep

Caching == {"idle", "fetch", "store"}

(* A cache: the request is on its way to the upstream or to the store. *)
LEMMA CacheTo ==
  ASSUME TypeOK, NEW r \in Requests, CacheMove(r)
  PROVE  /\ \E new \in ReqRecord :
              /\ req' = [req EXCEPT ![r] = new] /\ new.got \in {"none", "answer", req[r].got}
              /\ new.pc \in Caching /\ req[r].pc \in Caching
         /\ KeysTyped'
<1>1. KeysTyped /\ req[r] \in ReqRecord /\ req \in [Requests -> ReqRecord]
  BY TypeSplit
<1>2. PICK m \in ReqRecord : m = req[r]
  BY <1>1
<1>3. CASE CacheHit(r)
  <2>1. req' = [req EXCEPT ![r] = m] /\ m.pc = "idle"
    BY <1>1, <1>2, <1>3 DEF CacheHit
  <2>2. served' \in [got: Answers, met: BOOLEAN]
    BY <1>1, <1>3 DEF CacheHit, Serve, KeysTyped
  <2>3. KeysTyped'
    BY <1>1, <1>3, <2>2 DEF CacheHit, Serve, KeysTyped, testHistory
  <2>4. QED
    BY <1>2, <2>1, <2>3 DEF Caching
<1>4. CASE GetJson(r)
  <2>1. PICK new : new = [Idle EXCEPT !.pc = "fetch", !.met = down]
    OBVIOUS
  <2>2. down \in BOOLEAN
    BY <1>1 DEF KeysTyped
  <2>3. new \in ReqRecord /\ new.pc = "fetch" /\ new.got = "none"
    BY <2>1, <2>2, FetchRecord, IdleOK
  <2>4. req' = [req EXCEPT ![r] = new] /\ req[r].pc = "idle"
    BY <1>4, <2>1 DEF GetJson
  <2>5. KeysTyped'
    BY <1>1, <1>4 DEF GetJson, KeysTyped, history, testHistory
  <2>6. QED
    BY <2>3, <2>4, <2>5 DEF Caching
<1>5. CASE Fetched(r)
  <2>1. PICK new : new = [m EXCEPT !.pc = "store", !.got = "answer"]
    OBVIOUS
  <2>2. new \in ReqRecord /\ new.pc = "store" /\ new.got = "answer"
    BY <2>1, StoreRecord
  <2>3. req' = [req EXCEPT ![r] = new] /\ req[r].pc = "fetch"
    BY <1>2, <1>5, <2>1 DEF Fetched
  <2>4. KeysTyped'
    BY <1>1, <1>5 DEF Fetched, KeysTyped, history, testHistory
  <2>5. QED
    BY <2>2, <2>3, <2>4 DEF Caching
<1>6. CASE SetJson(r)
  <2>1. req' = [req EXCEPT ![r] = Idle] /\ req[r].pc = "store"
    BY <1>6 DEF SetJson, Answer
  <2>2. m.got \in Answers /\ m.met \in BOOLEAN
    BY DEF ReqRecord
  <2>3. /\ cache' \in [got: Answers, left: 0..CacheTTL]
        /\ served' \in [got: Answers, met: BOOLEAN]
    BY <1>2, <1>6, <2>2, Constants DEF SetJson, Serve
  <2>4. KeysTyped'
    BY <1>1, <1>6, <2>3 DEF SetJson, Serve, KeysTyped, testHistory
  <2>5. QED
    BY <2>1, <2>4, IdleOK DEF Caching
<1>7. CASE FetchFails(r)
  <2>1. req' = [req EXCEPT ![r] = Idle] /\ req[r].pc = "fetch"
    BY <1>7 DEF FetchFails, Answer
  <2>2. m.met \in BOOLEAN
    BY DEF ReqRecord
  <2>3. served' \in [got: Answers, met: BOOLEAN]
    BY <1>2, <1>7, <2>2 DEF FetchFails, Serve, Answers
  <2>4. KeysTyped'
    BY <1>1, <1>7, <2>3 DEF FetchFails, Serve, KeysTyped, testHistory
  <2>5. QED
    BY <2>1, <2>4, IdleOK DEF Caching
<1>8. CASE CacheFails(r)
  <2>1. req' = [req EXCEPT ![r] = Idle] /\ req[r].pc = "store"
    BY <1>8 DEF CacheFails, Answer
  <2>2. KeysTyped'
    BY <1>1, <1>8, FaultTyped DEF CacheFails, KeysTyped, history, testHistory
  <2>3. QED
    BY <2>1, <2>2, IdleOK DEF Caching
<1>9. CASE RetryFetch(r)
  <2>1. PICK new : new = [m EXCEPT !.n = 1]
    OBVIOUS
  <2>2. new \in ReqRecord /\ new.pc = m.pc /\ new.got = m.got
    <3>1. 1 \in 0..(Channels + 1)
      BY Constants
    <3>2. QED
      BY <2>1, <3>1, CountRecord
  <2>3. req' = [req EXCEPT ![r] = new] /\ m.pc = "fetch"
    BY <1>2, <1>9, <2>1 DEF RetryFetch
  <2>4. KeysTyped'
    BY <1>1, <1>9 DEF RetryFetch, KeysTyped, history, testHistory
  <2>5. QED
    BY <1>2, <2>2, <2>3, <2>4 DEF Caching
<1>10. QED
  BY <1>3, <1>4, <1>5, <1>6, <1>7, <1>8, <1>9 DEF CacheMove

(* An outage marks the calls it meets. *)
LEMMA OutageFacts ==
  ASSUME TypeOK, Outage
  PROVE  /\ TypeOK' /\ UNCHANGED <<cache, cool, holder, owed, paced, served, fails, failAge,
                                   hits, block, quiet>>
         /\ faults <= faults'
         /\ \A r \in Requests :
              /\ req'[r].pc = req[r].pc /\ req'[r].got = req[r].got
              /\ req[r].pc \in Holding => req'[r] = req[r]
<1>1. KeysTyped /\ req \in [Requests -> ReqRecord]
  BY TypeSplit
<1>2. CASE OutageEnds
  <2>1. KeysTyped'
    BY <1>1, <1>2 DEF OutageEnds, KeysTyped, history, testHistory
  <2>2. req' = req /\ faults' = faults /\ faults \in Nat
    BY <1>1, <1>2, Constants DEF OutageEnds, KeysTyped
  <2>3. QED
    BY <1>1, <1>2, <2>1, <2>2, TypeSplitNext DEF OutageEnds, history, testHistory
<1>3. CASE OutageBegins
  <2>1. faults' = faults + 1 /\ faults' \in 0..MaxFaults /\ faults \in Nat
    BY <1>1, <1>3, FaultTyped, Constants DEF OutageBegins, KeysTyped
  <2>2. KeysTyped'
    BY <1>1, <1>3, <2>1 DEF OutageBegins, KeysTyped, history, testHistory
  <2>3. ASSUME NEW r \in Requests
        PROVE  /\ req'[r] \in ReqRecord /\ req'[r].pc = req[r].pc /\ req'[r].got = req[r].got
               /\ req[r].pc \in Holding => req'[r] = req[r]
    <3>1. PICK m \in ReqRecord : m = req[r]
      BY <1>1
    <3>2. PICK new : new = [m EXCEPT !.met = TRUE]
      OBVIOUS
    <3>3. req'[r] = IF m.pc = "fetch" THEN new ELSE m
      BY <1>3, <3>1, <3>2 DEF OutageBegins
    <3>4. new \in ReqRecord /\ new.pc = m.pc /\ new.got = m.got
      BY <3>2, MetRecord
    <3>5. QED
      BY <3>1, <3>3, <3>4 DEF Holding
  <2>4. req' = [r \in Requests |-> req'[r]]
    BY <1>3 DEF OutageBegins
  <2>5. req' \in [Requests -> ReqRecord]
    BY <2>3, <2>4, Zenon
  <2>6. faults <= faults'
    BY <2>1
  <2>7. QED
    BY <1>3, <2>2, <2>3, <2>5, <2>6, TypeSplitNext DEF OutageBegins, history, testHistory
<1>4. QED
  BY <1>2, <1>3 DEF Outage

(* Time passes: every key has one tick less, every test send is one older. *)
LEMMA TickFacts ==
  ASSUME TypeOK, Tick
  PROVE  /\ TypeOK'
         /\ \A r \in Requests :
              /\ req'[r].pc = req[r].pc /\ req'[r].got = req[r].got
              /\ req[r].pc \in Holding =>
                   req'[r].age = req[r].age + 1 /\ req'[r].early = req[r].early
<1>1. KeysTyped /\ req \in [Requests -> ReqRecord]
  BY TypeSplit
<1>2. ASSUME NEW r \in Requests
      PROVE  /\ req'[r] \in ReqRecord /\ req'[r].pc = req[r].pc /\ req'[r].got = req[r].got
             /\ req[r].pc \in Holding =>
                  req'[r].age = req[r].age + 1 /\ req'[r].early = req[r].early
  <2>1. PICK m \in ReqRecord : m = req[r]
    BY <1>1
  <2>2. PICK older : older = [m EXCEPT !.age = m.age + 1]
    OBVIOUS
  <2>3. /\ req'[r] = IF m.pc \in Holding THEN older ELSE m
        /\ m.pc \in Holding => m.age < PublishBound
    BY <2>1, <2>2 DEF Tick
  <2>4. m.pc \in Holding => /\ older \in ReqRecord /\ older.pc = m.pc /\ older.age = m.age + 1
                            /\ older.early = m.early /\ older.got = m.got
    BY <2>2, <2>3, Constants DEF ReqRecord
  <2>5. QED
    BY <2>1, <2>3, <2>4
<1>3. req' \in [Requests -> ReqRecord]
  <2>1. req' = [r \in Requests |-> req'[r]]
    BY DEF Tick
  <2>2. QED
    BY <1>2, <2>1, Zenon
<1>4. /\ hits' \in [n: 0..MaxHits, left: 0..ThrottleTTL] /\ block' \in 0..ThrottleTTL
      /\ fails' \in [n: Nat, left: 0..LockoutTTL]
  BY <1>1, Constants DEF Tick, KeysTyped, WindowLater, Later
<1>5. cool' \in 0..CooldownTTL /\ owed' \in 0..CooldownTTL /\ quiet' \in 0..ThrottleTTL
  BY <1>1, Constants DEF Tick, KeysTyped, Later, Older
<1>6. failAge' \in 0..(LockoutTTL + 1) /\ paced' \in [age: 0..PaceCap, early: BOOLEAN]
  BY <1>1, Constants DEF Tick, KeysTyped, Older
<1>7. cache' \in [got: Answers, left: 0..CacheTTL]
  BY <1>1, Constants DEF Tick, KeysTyped, NoEntry, Answers
<1>8. /\ route' \in Routes /\ faults' \in 0..MaxFaults /\ down' \in BOOLEAN
      /\ holder' \in Requests \cup {None} /\ served' \in [got: Answers, met: BOOLEAN]
  BY <1>1 DEF Tick, KeysTyped
<1>9. KeysTyped'
  BY <1>4, <1>5, <1>6, <1>7, <1>8 DEF KeysTyped
<1>10. QED
  BY <1>2, <1>3, <1>9, TypeSplitNext

(* The throttler's script keeps its keys within the window. *)
LEMMA GuardTyped ==
  ASSUME KeysTyped, Increment \/ IncrementFails
  PROVE  KeysTyped'
<1>1. CASE Increment
  <2>1. hits' \in [n: 0..MaxHits, left: 0..ThrottleTTL] /\ block' \in 0..ThrottleTTL
    BY <1>1, Constants DEF Increment, KeysTyped, Counted
  <2>2. quiet' \in 0..ThrottleTTL
    BY <1>1, Constants DEF Increment
  <2>3. QED
    BY <1>1, <2>1, <2>2 DEF Increment, KeysTyped, testHistory
<1>2. CASE IncrementFails
  <2>1. faults' \in 0..MaxFaults /\ quiet' \in 0..ThrottleTTL
    BY <1>2, FaultTyped, Constants DEF IncrementFails
  <2>2. QED
    BY <1>2, <2>1 DEF IncrementFails, KeysTyped, testHistory
<1>3. QED
  BY <1>1, <1>2

(* Types are kept by every step. *)
LEMMA StepTyped == TypeOK /\ [Next]_vars => TypeOK'
<1> SUFFICES ASSUME TypeOK, [Next]_vars PROVE TypeOK'
  OBVIOUS
<1>1. CASE UNCHANGED vars
  <2>1. KeysTyped' /\ req' = req
    BY <1>1, TypeSplit DEF vars, history, testHistory, KeysTyped
  <2>2. QED
    BY <2>1, TypeSplit, TypeSplitNext
<1>2. CASE Tick \/ Outage
  BY <1>2, TickFacts, OutageFacts
<1>3. CASE Increment \/ IncrementFails
  <2>1. req' = req
    BY <1>3 DEF Increment, IncrementFails
  <2>2. KeysTyped'
    BY <1>3, TypeSplit, GuardTyped
  <2>3. QED
    BY <2>1, <2>2, TypeSplit, TypeSplitNext
<1>4. ASSUME NEW r \in Requests, Move(r) PROVE TypeOK'
  <2>1. CASE LoginMove(r)
    BY <2>1, LoginTo, MoveTyped
  <2>2. CASE TestStep(r)
    BY <2>2, TestTo, MoveTyped DEF TestMoved
  <2>3. CASE CacheMove(r)
    BY <2>3, CacheTo, MoveTyped
  <2>4. QED
    BY <1>4, <2>1, <2>2, <2>3 DEF Move
<1>5. QED
  BY <1>1, <1>2, <1>3, <1>4, Steps

----------------------------------------------------------------------------
(* The throttler *)

LEMMA StepThrottle == TypeOK /\ ThrottleInv /\ [Next]_vars => ThrottleInv'
<1> SUFFICES ASSUME TypeOK, ThrottleInv, [Next]_vars PROVE ThrottleInv'
  OBVIOUS
<1>1. /\ hits \in [n: 0..MaxHits, left: 0..ThrottleTTL] /\ block \in 0..ThrottleTTL
      /\ quiet \in 0..ThrottleTTL
  BY DEF TypeOK
<1>2. CASE Increment
  BY <1>1, <1>2, Constants DEF Increment, Counted, ThrottleInv
<1>3. CASE IncrementFails
  BY <1>1, <1>3, Constants DEF IncrementFails, ThrottleInv
<1>4. CASE Tick
  BY <1>1, <1>4, Constants DEF Tick, WindowLater, Later, Older, ThrottleInv
<1>5. CASE UNCHANGED <<hits, block, quiet>>
  BY <1>5 DEF ThrottleInv
<1>6. QED
  BY <1>2, <1>3, <1>4, <1>5, Steps, MoveFrame, OutageFacts DEF vars, history

----------------------------------------------------------------------------
(* The lockout *)

LEMMA StepLockout == TypeOK /\ LockoutInv /\ [Next]_vars => LockoutInv'
<1> SUFFICES ASSUME TypeOK, LockoutInv, [Next]_vars PROVE LockoutInv'
  OBVIOUS
<1>1. fails \in [n: Nat, left: 0..LockoutTTL] /\ failAge \in 0..(LockoutTTL + 1)
  BY DEF TypeOK
<1>2. ASSUME NEW r \in Requests, RecordFailure(r) PROVE LockoutInv'
  BY <1>1, <1>2, Constants DEF RecordFailure, Failed, Counted, LockoutInv
<1>3. ASSUME NEW r \in Requests, ClearFailures(r) PROVE LockoutInv'
  BY <1>3 DEF ClearFailures, LockoutInv
<1>4. CASE Tick
  BY <1>1, <1>4, Constants DEF Tick, WindowLater, Older, LockoutInv
<1>5. CASE UNCHANGED <<fails, failAge>>
  BY <1>5 DEF LockoutInv
<1>6. ASSUME NEW r \in Requests, Move(r)
      PROVE  RecordFailure(r) \/ ClearFailures(r) \/ UNCHANGED <<fails, failAge>>
  <2>1. CASE LoginMove(r)
    BY <2>1 DEF LoginMove, LoginStep, LoginCheck, PasswordCompared, LoginRedisFails, history, testHistory
  <2>2. CASE ~LoginMove(r)
    BY <1>6, <2>2, MoveFrame
  <2>3. QED
    BY <2>1, <2>2
<1>7. CASE Increment \/ IncrementFails
  BY <1>7 DEF Increment, IncrementFails, LockoutInv
<1>8. QED
  BY <1>2, <1>3, <1>4, <1>5, <1>6, <1>7, Steps, OutageFacts DEF vars, history

(* The attempts past the check, when one request moves. *)
LEMMA PassedFacts ==
  /\ IsFiniteSet(Passed) /\ Cardinality(Passed) \in Nat
  /\ Cardinality(Requests) \in Nat /\ Cardinality(Passed) <= Cardinality(Requests)
<1>1. Passed \in SUBSET Requests /\ IsFiniteSet(Requests)
  BY WindowsAssumption DEF Passed
<1>2. QED
  BY <1>1, FS_Subset, FS_CardinalityType

LEMMA PassedMoves ==
  ASSUME NEW r \in Requests, \A q \in Requests \ {r} : req'[q] = req[q]
  PROVE  /\ req[r].pc \in {"compare", "record"} /\ req'[r].pc \notin {"compare", "record"} =>
              Cardinality(Passed') = Cardinality(Passed) - 1
         /\ req[r].pc \notin {"compare", "record"} /\ req'[r].pc \in {"compare", "record"} =>
              Cardinality(Passed') = Cardinality(Passed) + 1
         /\ (req[r].pc \in {"compare", "record"} <=> req'[r].pc \in {"compare", "record"}) =>
              Cardinality(Passed') = Cardinality(Passed)
<1>1. IsFiniteSet(Passed) /\ Passed \in SUBSET Requests
  BY PassedFacts DEF Passed
<1>2. PICK P : P = Passed
  OBVIOUS
<1>3. PICK Q : Q = Passed'
  OBVIOUS
<1>4. IsFiniteSet(P) /\ (r \in P <=> req[r].pc \in {"compare", "record"})
      /\ (r \in Q <=> req'[r].pc \in {"compare", "record"})
  BY <1>1, <1>2, <1>3 DEF Passed
<1>5. /\ r \in P /\ r \notin Q => Q = P \ {r}
      /\ r \notin P /\ r \in Q => Q = P \cup {r}
      /\ (r \in P <=> r \in Q) => Q = P
  BY <1>2, <1>3 DEF Passed
<1>6. /\ r \in P => Cardinality(P \ {r}) = Cardinality(P) - 1
      /\ r \notin P => Cardinality(P \cup {r}) = Cardinality(P) + 1
  BY <1>4, FS_AddElement, FS_RemoveElement
<1>7. QED
  BY <1>2, <1>3, <1>4, <1>5, <1>6

(* Each attempt past the check was let through before the limit was        *)
(* reached, or because Redis did not answer.                               *)
LEMMA StepOvershoot == TypeOK /\ OvershootInv /\ [Next]_vars => OvershootInv'
<1> SUFFICES ASSUME TypeOK, TypeOK', OvershootInv, [Next]_vars PROVE OvershootInv'
  BY StepTyped
<1>1. /\ fails.n \in Nat /\ faults \in Nat /\ fails'.n \in Nat /\ faults' \in Nat
      /\ fails \in [n: Nat, left: 0..LockoutTTL]
      /\ Cardinality(Passed) \in Nat /\ Cardinality(Requests) \in Nat
      /\ MaxFailures \in Nat /\ MaxFailures > 0
  BY PassedFacts, Constants DEF TypeOK
<1>2. /\ Cardinality(Passed') \in Nat /\ Cardinality(Passed') <= Cardinality(Requests)
  <2>1. Passed' \in SUBSET Requests /\ IsFiniteSet(Requests)
    BY WindowsAssumption DEF Passed
  <2>2. QED
    BY <2>1, FS_Subset, FS_CardinalityType
<1>3. CASE fails'.n = 0
  BY <1>1, <1>2, <1>3 DEF OvershootInv
<1>4. CASE Passed' = Passed /\ fails'.n <= fails.n /\ faults <= faults'
  BY <1>1, <1>4 DEF OvershootInv
<1>5. CASE Tick
  <2>1. Passed' = Passed /\ faults' = faults
    BY <1>5, TickFacts DEF Passed, Tick
  <2>2. fails'.n \in {0, fails.n}
    BY <1>1, <1>5 DEF Tick, WindowLater
  <2>3. QED
    BY <1>1, <1>3, <1>4, <2>1, <2>2
<1>6. CASE Increment \/ IncrementFails \/ UNCHANGED vars
  <2>1. req' = req /\ fails' = fails /\ faults <= faults'
    BY <1>1, <1>6 DEF Increment, IncrementFails, Fault, vars
  <2>2. Passed' = Passed
    BY <2>1 DEF Passed
  <2>3. QED
    BY <1>1, <1>4, <2>1, <2>2
<1>7. ASSUME NEW r \in Requests, LoginMove(r) PROVE OvershootInv'
  <2>1. PICK new \in ReqRecord : req' = [req EXCEPT ![r] = new]
    BY <1>7, LoginTo
  <2>2. req \in [Requests -> ReqRecord]
    BY TypeSplit
  <2>3. req'[r] = new /\ \A q \in Requests \ {r} : req'[q] = req[q]
    BY <2>1, <2>2
  <2>4. /\ req[r].pc \in {"compare", "record"} /\ new.pc \notin {"compare", "record"} =>
             Cardinality(Passed') = Cardinality(Passed) - 1
        /\ req[r].pc \notin {"compare", "record"} /\ new.pc \in {"compare", "record"} =>
             Cardinality(Passed') = Cardinality(Passed) + 1
        /\ (req[r].pc \in {"compare", "record"} <=> new.pc \in {"compare", "record"}) =>
             Cardinality(Passed') = Cardinality(Passed)
    BY <2>3, PassedMoves
  <2>5. CASE LoginCheck(r)
    BY <1>1, <1>2, <2>5 DEF LoginCheck, OvershootInv
  <2>6. CASE PasswordCompared(r)
    <3>1. req[r].pc = "compare" /\ UNCHANGED <<fails, faults>>
      BY <2>6 DEF PasswordCompared
    <3>2. Cardinality(Passed') <= Cardinality(Passed)
      BY <1>1, <2>4, <3>1
    <3>3. QED
      BY <1>1, <1>2, <3>1, <3>2 DEF OvershootInv
  <2>7. CASE RecordFailure(r)
    <3>1. req[r].pc = "record" /\ new.pc = "idle"
      BY <2>2, <2>3, <2>7, IdleOK DEF RecordFailure, Answer
    <3>2. fails'.n = fails.n + 1 /\ faults' = faults
      BY <2>7 DEF RecordFailure, Failed, Counted
    <3>3. Cardinality(Passed') = Cardinality(Passed) - 1
      BY <2>4, <3>1
    <3>4. QED
      BY <1>1, <1>2, <3>2, <3>3 DEF OvershootInv
  <2>8. CASE ClearFailures(r)
    BY <1>3, <2>8 DEF ClearFailures
  <2>9. CASE LoginRedisFails(r)
    <3>1. faults' = faults + 1 /\ fails' = fails
      BY <2>9 DEF LoginRedisFails, Fault
    <3>2. Cardinality(Passed') <= Cardinality(Passed) + 1
      BY <1>1, <2>4
    <3>3. QED
      BY <1>1, <1>2, <3>1, <3>2 DEF OvershootInv
  <2>10. QED
    BY <1>7, <2>5, <2>6, <2>7, <2>8, <2>9 DEF LoginMove, LoginStep
<1>8. ASSUME NEW r \in Requests, TestStep(r) \/ CacheMove(r), ~LoginMove(r) PROVE OvershootInv'
  <2>1. PICK new \in ReqRecord :
          /\ req' = [req EXCEPT ![r] = new]
          /\ new.pc \notin {"compare", "record"} /\ req[r].pc \notin {"compare", "record"}
    BY <1>8, TestTo, CacheTo DEF TestMoved, Holding, Caching
  <2>2. req \in [Requests -> ReqRecord]
    BY TypeSplit
  <2>3. req'[r] = new /\ \A q \in Requests \ {r} : req'[q] = req[q]
    BY <2>1, <2>2
  <2>4. Passed' = Passed
    BY <2>1, <2>3 DEF Passed
  <2>5. fails' = fails
    BY <1>8, MoveFrame DEF Move
  <2>6. faults <= faults'
    BY <1>1, <1>8 DEF TestStep, ConsumeCooldown, PublishTest, PublishTestFails, ClearCooldown,
      TestEnds, CacheMove, CacheHit, GetJson, Fetched, SetJson, FetchFails, RetryFetch, CacheFails, Fault
  <2>7. QED
    BY <1>1, <1>4, <2>4, <2>5, <2>6
<1>9. CASE Outage
  <2>1. Passed' = Passed /\ fails' = fails /\ faults <= faults'
    BY <1>9, OutageFacts DEF Passed
  <2>2. QED
    BY <1>1, <1>4, <2>1
<1>10. QED
  BY <1>5, <1>6, <1>7, <1>8, <1>9, Steps DEF Move

----------------------------------------------------------------------------
(* The cooldown of test sends *)

LEMMA Grows ==
  \A a, b, c, t \in Nat :
    /\ (a + t >= c /\ b >= a => b + t >= c)
    /\ (t >= c => b + t >= c)
  OBVIOUS

LEMMA ApartSame ==
  ASSUME NEW a, NEW b, NEW c, NEW d, a.age = c.age, a.early = c.early,
         b.age = d.age, b.early = d.early, Apart(a, b)
  PROVE  Apart(c, d) /\ Apart(d, c)
  BY DEF Apart

(* Two sends stay apart as time passes. *)
LEMMA ApartOlder ==
  ASSUME NEW a, NEW b, NEW c, NEW d, a.age \in Nat, b.age \in Nat,
         c.age = a.age + 1, c.early = a.early, d.age = b.age + 1, d.early = b.early,
         Apart(a, b)
  PROVE  Apart(c, d)
  BY Constants DEF Apart

(* Who reserves while nothing is reserved begins apart from a send that is *)
(* covered.                                                                *)
LEMMA ApartFirst ==
  ASSUME NEW a, NEW b, a.age = 0, a.early = (owed > 0), owed \in Nat, b.age \in Nat,
         Owes(b.age)
  PROVE  Apart(a, b)
<1>1. CASE owed > 0
  <2>1. a.early
    BY <1>1, Zenon
  <2>2. b.age >= a.age
    OBVIOUS
  <2>3. QED
    BY <2>1, <2>2 DEF Apart
<1>2. CASE owed = 0
  BY <1>2, Constants DEF Apart, Owes
<1>3. QED
  BY <1>1, <1>2

(* Every step keeps the sends covered and apart.                           *)
LEMMA StepPace == TypeOK /\ PaceInv /\ [Next]_vars => PaceInv'
<1> SUFFICES ASSUME TypeOK, TypeOK', PaceInv, [Next]_vars PROVE PaceInv'
  BY StepTyped
<1>1. /\ cool \in Nat /\ cool <= CooldownTTL /\ owed \in Nat /\ paced.age \in Nat
      /\ paced \in [age: 0..PaceCap, early: BOOLEAN]
      /\ cool' \in Nat /\ owed' \in Nat /\ paced'.age \in Nat
      /\ req \in [Requests -> ReqRecord] /\ req' \in [Requests -> ReqRecord]
  BY TypeSplit, TypeSplitNext, Constants DEF KeysTyped
<1>2. \A r \in Requests : /\ req[r].age \in Nat /\ req'[r].age \in Nat
                          /\ req[r].age <= PublishBound /\ req'[r].age <= PublishBound
  BY <1>1, Constants DEF ReqRecord
<1>3. Covered /\ AllApart
  BY DEF PaceInv
<1>4. CASE Tick
  <2>1. \A r \in Requests :
          /\ req'[r].pc = req[r].pc
          /\ req[r].pc \in Holding =>
               req'[r].age = req[r].age + 1 /\ req'[r].early = req[r].early
    BY <1>4, TickFacts
  <2>2. /\ cool' = IF cool > 0 THEN cool - 1 ELSE 0
        /\ owed' = IF owed > 0 THEN owed - 1 ELSE 0
        /\ holder' = holder
    BY <1>4 DEF Tick, Later
  <2>3. /\ paced'.age = IF paced.age < PaceCap THEN paced.age + 1 ELSE PaceCap
        /\ paced'.early = paced.early
    BY <1>1, <1>4 DEF Tick, Older
  <2>4. \A t \in Nat : Owes(t) => owed' + (t + 1) >= CooldownTTL
    BY <1>1, <2>2, Constants DEF Owes
  <2>5. ASSUME NEW p \in Requests, req'[p].pc \in Holding
        PROVE  (holder' = p /\ cool' + req'[p].age = CooldownTTL) \/ owed' + req'[p].age >= CooldownTTL
    <3>1. /\ req[p].pc \in Holding /\ req'[p].age = req[p].age + 1 /\ req[p].age \in Nat
          /\ (holder = p /\ cool + req[p].age = CooldownTTL) \/ Owes(req[p].age)
      BY <1>2, <1>3, <2>1, <2>5 DEF Covered, Owes
    <3>2. CASE Owes(req[p].age)
      BY <2>4, <3>1, <3>2 DEF Owes
    <3>3. CASE holder = p /\ cool + req[p].age = CooldownTTL
      BY <1>1, <2>2, <3>1, <3>3, Constants DEF Owes
    <3>4. QED
      BY <3>1, <3>2, <3>3
  <2>6. \/ owed' + paced'.age >= CooldownTTL
        \/ /\ cool' + paced'.age >= CooldownTTL
           /\ \A p \in Requests : holder' = p => req'[p].pc \notin Holding
    <3>1. CASE paced'.age = PaceCap
      <4>1. paced'.age >= CooldownTTL
        BY <3>1, Constants
      <4>2. QED
        BY <1>1, <4>1, Constants, Grows
    <3>2. CASE paced'.age = paced.age + 1 /\ Owes(paced.age)
      BY <1>1, <2>4, <3>2 DEF Owes
    <3>3. CASE /\ paced'.age = paced.age + 1 /\ cool + paced.age >= CooldownTTL
               /\ \A p \in Requests : holder = p => req[p].pc \notin Holding
      <4>1. cool' + paced'.age >= CooldownTTL
        BY <1>1, <2>2, <3>3, Constants
      <4>2. QED
        BY <2>1, <2>2, <3>3, <4>1
    <3>4. QED
      BY <1>3, <2>3, <3>1, <3>2, <3>3 DEF Covered, Owes
  <2>7. ASSUME NEW p \in Requests, req'[p].pc \in Holding
        PROVE  /\ Apart(req'[p], paced')
               /\ \A q \in Requests \ {p} : req'[q].pc \in Holding => Apart(req'[p], req'[q])
    <3>1. /\ req[p].pc \in Holding /\ Apart(req[p], paced)
          /\ req'[p].age = req[p].age + 1 /\ req'[p].early = req[p].early
      BY <1>3, <2>1, <2>7 DEF AllApart
    <3>2. ASSUME paced'.age = paced.age + 1 PROVE Apart(req'[p], paced')
      <4>1. paced'.early = paced.early
        BY <2>3
      <4>2. QED
        BY <1>1, <1>2, <3>1, <3>2, <4>1, ApartOlder
    <3>3. ASSUME paced'.age >= req'[p].age + CooldownTTL PROVE Apart(req'[p], paced')
      BY <3>3 DEF Apart
    <3>4. ASSUME NEW q \in Requests \ {p}, req'[q].pc \in Holding
          PROVE  Apart(req'[p], req'[q])
      <4>1. /\ req[q].pc \in Holding /\ Apart(req[p], req[q])
            /\ req'[q].age = req[q].age + 1 /\ req'[q].early = req[q].early
        BY <1>3, <2>1, <3>1, <3>4 DEF AllApart
      <4>2. QED
        BY <1>2, <3>1, <4>1, ApartOlder
    <3>5. paced'.age = paced.age + 1 \/ paced'.age >= req'[p].age + CooldownTTL
      BY <1>1, <1>2, <2>3, Constants
    <3>6. QED
      BY <3>2, <3>3, <3>4, <3>5
  <2>8. QED
    BY <2>5, <2>6, <2>7 DEF PaceInv, Covered, Owes, AllApart
<1>5. CASE UNCHANGED <<cool, holder, owed, paced>>
           /\ \A r \in Requests :
                /\ req'[r].pc \in Holding => req[r].pc \in Holding
                /\ holder = r => (req'[r].pc \in Holding <=> req[r].pc \in Holding)
                /\ req'[r].pc \in Holding =>
                     req'[r].age = req[r].age /\ req'[r].early = req[r].early
  <2>1. Covered'
    <3>1. ASSUME NEW p \in Requests, req'[p].pc \in Holding
          PROVE  (holder' = p /\ cool' + req'[p].age = CooldownTTL) \/ owed' + req'[p].age >= CooldownTTL
      BY <1>3, <1>5, <3>1 DEF Covered, Owes
    <3>2. \/ owed' + paced'.age >= CooldownTTL
          \/ /\ cool' + paced'.age >= CooldownTTL
             /\ \A p \in Requests : holder' = p => req'[p].pc \notin Holding
      BY <1>3, <1>5 DEF Covered, Owes
    <3>3. QED
      BY <3>1, <3>2 DEF Covered, Owes
  <2>2. AllApart'
    BY <1>3, <1>5, ApartSame DEF AllApart
  <2>3. QED
    BY <2>1, <2>2 DEF PaceInv
<1>6. CASE Increment \/ IncrementFails \/ UNCHANGED vars
  BY <1>5, <1>6 DEF Increment, IncrementFails, vars, history, testHistory
<1>7. CASE Outage
  BY <1>5, <1>7, OutageFacts
<1>8. ASSUME NEW r \in Requests, Move(r), ~TestStep(r) PROVE PaceInv'
  <2>1. PICK new \in ReqRecord : /\ req' = [req EXCEPT ![r] = new]
                                 /\ new.pc \notin Holding /\ req[r].pc \notin Holding
    BY <1>8, LoginTo, CacheTo DEF Move, Holding, Trying, Caching
  <2>2. req'[r] = new /\ \A q \in Requests \ {r} : req'[q] = req[q]
    BY <1>1, <2>1
  <2>3. UNCHANGED <<cool, holder, owed, paced>>
    BY <1>8, MoveFrame
  <2>4. QED
    BY <1>5, <2>1, <2>2, <2>3
<1>9. ASSUME NEW r \in Requests, TestStep(r) PROVE PaceInv'
  <2>1. PICK new \in ReqRecord : TestMoved(r, new)
    BY <1>9, TestTo
  <2>2. req'[r] = new /\ \A q \in Requests \ {r} : req'[q] = req[q]
    BY <1>1, <2>1 DEF TestMoved
  <2>3. CASE ConsumeCooldown(r)
    <3>1. /\ cool = 0 /\ cool' = CooldownTTL /\ holder' = r /\ UNCHANGED <<owed, paced>>
          /\ req[r].pc = "idle"
      BY <2>3 DEF ConsumeCooldown
    <3>2. new.pc = "publish" /\ new.age = 0 /\ new.early = (owed > 0)
      <4>1. PICK early \in BOOLEAN : early = (owed > 0)
        <5>1. (owed > 0) \in BOOLEAN
          OBVIOUS
        <5>2. QED
          BY <5>1, Zenon
      <4>2. new = Sending(early)
        BY <1>1, <2>2, <2>3, <4>1 DEF ConsumeCooldown
      <4>3. QED
        BY <4>1, <4>2, SendingRecord
    <3>3. Owes(paced.age) /\ \A p \in Requests : req[p].pc \in Holding => Owes(req[p].age)
      BY <1>1, <1>2, <1>3, <3>1 DEF Covered, Owes
    <3>4. Covered'
      <4>1. ASSUME NEW p \in Requests, req'[p].pc \in Holding
            PROVE  (holder' = p /\ cool' + req'[p].age = CooldownTTL) \/ owed' + req'[p].age >= CooldownTTL
        <5>1. CASE p = r
          BY <2>2, <3>1, <3>2, <5>1, Constants
        <5>2. CASE p # r
          BY <2>2, <3>1, <3>3, <4>1, <5>2 DEF Owes
        <5>3. QED
          BY <5>1, <5>2
      <4>2. owed' + paced'.age >= CooldownTTL
        BY <3>1, <3>3 DEF Owes
      <4>3. QED
        BY <4>1, <4>2 DEF Covered, Owes
    <3>5. Apart(new, paced)
      BY <1>1, <3>2, <3>3, ApartFirst
    <3>6. \A q \in Requests \ {r} : req[q].pc \in Holding =>
            Apart(new, req[q]) /\ Apart(req[q], new)
      BY <1>1, <1>2, <3>2, <3>3, ApartFirst, ApartSame
    <3>7. AllApart'
      BY <1>3, <2>2, <3>1, <3>5, <3>6 DEF AllApart
    <3>8. QED
      BY <3>4, <3>7 DEF PaceInv
  <2>4. CASE ~ConsumeCooldown(r)
    <3>1. req[r].pc \in Holding
      BY <1>9, <2>4 DEF TestStep, PublishTest, PublishTestFails, ClearCooldown, TestEnds, Holding
    <3>2. CASE UNCHANGED <<cool, holder, owed, paced>> /\ new.pc \in Holding
      BY <1>5, <2>1, <2>2, <3>1, <3>2 DEF TestMoved
    <3>3. CASE UNCHANGED <<cool, holder, owed, paced>> /\ new.pc \notin Holding
      <4>1. Covered'
        <5>1. ASSUME NEW p \in Requests, req'[p].pc \in Holding
              PROVE  (holder' = p /\ cool' + req'[p].age = CooldownTTL) \/ owed' + req'[p].age >= CooldownTTL
          BY <1>3, <2>2, <3>3, <5>1 DEF Covered, Owes
        <5>2. \/ owed' + paced'.age >= CooldownTTL
              \/ /\ cool' + paced'.age >= CooldownTTL
                 /\ \A p \in Requests : holder' = p => req'[p].pc \notin Holding
          BY <1>3, <2>2, <3>3 DEF Covered, Owes
        <5>3. QED
          BY <5>1, <5>2 DEF Covered, Owes
      <4>2. AllApart'
        BY <1>3, <2>2, <3>3 DEF AllApart
      <4>3. QED
        BY <4>1, <4>2 DEF PaceInv
    <3>4. CASE PublishTestFails(r) \/ TestEnds(r)
      BY <3>2, <3>3, <3>4 DEF PublishTestFails, TestEnds, history, testHistory
    <3>5. CASE ClearCooldown(r)
      <4>1. /\ cool' = 0 /\ UNCHANGED <<holder, paced>> /\ new = Idle
            /\ owed' = IF holder # r /\ cool > owed THEN cool ELSE owed
        BY <1>1, <2>2, <3>5 DEF ClearCooldown, Answer
      <4>2. new.pc \notin Holding
        BY <4>1, IdleOK DEF Holding
      <4>3. owed' >= owed /\ (holder # r => owed' >= cool)
        BY <1>1, <4>1
      <4>4. \A t \in Nat : /\ Owes(t) => owed' + t >= CooldownTTL
                           /\ holder # r /\ cool + t >= CooldownTTL => owed' + t >= CooldownTTL
        <5>1. PICK x, y, z, c \in Nat : x = owed /\ y = owed' /\ z = cool /\ c = CooldownTTL
          BY <1>1, Constants
        <5>2. y >= x /\ (holder # r => y >= z)
          BY <4>3, <5>1
        <5>3. \A t \in Nat : x + t >= c => y + t >= c
          BY <5>2
        <5>4. holder # r => \A t \in Nat : z + t >= c => y + t >= c
          BY <5>2
        <5>5. QED
          BY <5>1, <5>3, <5>4 DEF Owes
      <4>5. ASSUME NEW p \in Requests, req'[p].pc \in Holding PROVE owed' + req'[p].age >= CooldownTTL
        <5>1. p # r /\ req'[p] = req[p] /\ req[p].pc \in Holding /\ req[p].age \in Nat
          BY <1>2, <2>2, <4>2, <4>5
        <5>2. Owes(req[p].age) \/ (holder = p /\ cool + req[p].age >= CooldownTTL)
          BY <1>1, <1>3, <5>1, Constants DEF Covered, Owes
        <5>3. QED
          BY <4>4, <5>1, <5>2 DEF Owes
      <4>6. owed' + paced'.age >= CooldownTTL
        <5>1. Owes(paced.age) \/ (holder # r /\ cool + paced.age >= CooldownTTL)
          BY <1>3, <3>1 DEF Covered, Owes
        <5>2. QED
          BY <1>1, <4>1, <4>4, <5>1 DEF Owes
      <4>7. AllApart'
        BY <1>3, <2>2, <4>1, <4>2 DEF AllApart
      <4>8. QED
        BY <4>5, <4>6, <4>7 DEF PaceInv, Covered, Owes
    <3>6. CASE PublishTest(r)
      <4>1. UNCHANGED <<cool, holder, owed>>
        BY <3>6 DEF PublishTest
      <4>2. CASE paced' = paced
        BY <3>2, <3>3, <4>1, <4>2
      <4>3. CASE /\ req[r].n = 1 /\ req[r].age <= paced.age
                 /\ paced' = [age |-> req[r].age, early |-> req[r].early]
        <5>1. new = Idle
          BY <1>1, <2>2, <3>6, <4>3 DEF PublishTest
        <5>2. new.pc \notin Holding /\ paced'.age = req[r].age /\ paced'.early = req[r].early
          BY <4>3, <5>1, IdleOK DEF Holding
        <5>3. Covered'
          <6>1. ASSUME NEW p \in Requests, req'[p].pc \in Holding
                PROVE  (holder' = p /\ cool' + req'[p].age = CooldownTTL) \/ owed' + req'[p].age >= CooldownTTL
            BY <1>3, <2>2, <4>1, <5>2, <6>1 DEF Covered, Owes
          <6>2. CASE Owes(req[r].age)
            <7>1. owed' + paced'.age >= CooldownTTL
              BY <4>1, <5>2, <6>2 DEF Owes
            <7>2. QED
              BY <6>1, <7>1 DEF Covered, Owes
          <6>3. CASE holder = r /\ cool + req[r].age = CooldownTTL
            <7>1. cool' + paced'.age >= CooldownTTL
              BY <1>1, <1>2, <4>1, <5>2, <6>3, Constants
            <7>2. \A p \in Requests : holder' = p => req'[p].pc \notin Holding
              BY <2>2, <4>1, <5>2, <6>3
            <7>3. QED
              BY <6>1, <7>1, <7>2 DEF Covered, Owes
          <6>4. QED
            BY <1>3, <3>1, <6>2, <6>3 DEF Covered, Owes
        <5>4. AllApart'
          <6>1. ASSUME NEW p \in Requests, req'[p].pc \in Holding
                PROVE  /\ Apart(req'[p], paced')
                       /\ \A q \in Requests \ {p} :
                            req'[q].pc \in Holding => Apart(req'[p], req'[q])
            <7>1. p # r /\ req'[p] = req[p] /\ req[p].pc \in Holding
              BY <2>2, <5>2, <6>1
            <7>2. Apart(req[p], req[r])
              BY <1>3, <3>1, <7>1 DEF AllApart
            <7>3. Apart(req'[p], paced')
              BY <5>2, <7>1, <7>2, ApartSame
            <7>4. \A q \in Requests \ {p} : req'[q].pc \in Holding => Apart(req'[p], req'[q])
              BY <1>3, <2>2, <5>2, <7>1 DEF AllApart
            <7>5. QED
              BY <7>3, <7>4
          <6>2. QED
            BY <6>1 DEF AllApart
        <5>5. QED
          BY <5>3, <5>4 DEF PaceInv
      <4>4. QED
        BY <3>6, <4>2, <4>3 DEF PublishTest
    <3>7. QED
      BY <1>9, <2>4, <3>4, <3>5, <3>6 DEF TestStep
  <2>5. QED
    BY <2>3, <2>4
<1>10. QED
  BY <1>4, <1>6, <1>7, <1>8, <1>9, Steps

----------------------------------------------------------------------------
(* The caches *)

LEMMA StepOutage == TypeOK /\ OutageInv /\ [Next]_vars => OutageInv'
<1> SUFFICES ASSUME TypeOK, OutageInv, [Next]_vars PROVE OutageInv'
  OBVIOUS
<1>1. /\ OutageIsNotRemembered /\ cache.got # "outage"
      /\ \A r \in Requests : req[r].got # "outage"
      /\ req \in [Requests -> ReqRecord] /\ cache \in [got: Answers, left: 0..CacheTTL]
  BY TypeSplit DEF OutageInv, KeysTyped
<1>2. CASE Increment \/ IncrementFails \/ UNCHANGED vars
  BY <1>1, <1>2 DEF Increment, IncrementFails, vars, history, OutageInv, OutageIsNotRemembered
<1>3. CASE Outage
  BY <1>1, <1>3, OutageFacts DEF OutageInv, OutageIsNotRemembered
<1>4. CASE Tick
  <2>1. \A r \in Requests : req'[r].got # "outage"
    BY <1>1, <1>4, TickFacts
  <2>2. cache'.got # "outage" /\ served' = served
    BY <1>1, <1>4 DEF Tick, NoEntry
  <2>3. QED
    BY <1>1, <2>1, <2>2 DEF OutageInv, OutageIsNotRemembered
<1>5. ASSUME NEW r \in Requests, Move(r) PROVE OutageInv'
  <2>1. \A q \in Requests : req'[q].got # "outage"
    <3>1. PICK new \in ReqRecord :
            req' = [req EXCEPT ![r] = new] /\ new.got \in {"none", "answer", req[r].got}
      BY <1>5, LoginTo, TestTo, CacheTo DEF Move, TestMoved
    <3>2. req'[r] = new /\ \A q \in Requests \ {r} : req'[q] = req[q]
      BY <1>1, <3>1
    <3>3. QED
      BY <1>1, <3>1, <3>2
  <2>2. CASE UNCHANGED <<cache, served>>
    BY <1>1, <2>1, <2>2 DEF OutageInv, OutageIsNotRemembered
  <2>3. CASE CacheHit(r)
    <3>1. cache' = cache /\ served'.got = cache.got
      BY <2>3 DEF CacheHit, Serve
    <3>2. QED
      BY <1>1, <2>1, <3>1 DEF OutageInv, OutageIsNotRemembered
  <2>4. CASE SetJson(r)
    <3>1. cache'.got = req[r].got /\ served'.got = req[r].got
      BY <2>4 DEF SetJson, Serve
    <3>2. QED
      BY <1>1, <2>1, <3>1 DEF OutageInv, OutageIsNotRemembered
  <2>5. CASE FetchFails(r)
    <3>1. cache' = cache /\ served'.met
      BY <2>5 DEF FetchFails, Serve
    <3>2. QED
      BY <1>1, <2>1, <3>1 DEF OutageInv, OutageIsNotRemembered
  <2>6. QED
    BY <1>5, <2>2, <2>3, <2>4, <2>5, MoveFrame DEF CacheMove, GetJson, Fetched, RetryFetch,
      CacheFails, history
<1>6. QED
  BY <1>2, <1>3, <1>4, <1>5, Steps

----------------------------------------------------------------------------
(* What the windows promise *)

LEMMA InitWindows == Init => WindowsInv
<1> SUFFICES ASSUME Init PROVE WindowsInv
  OBVIOUS
<1>1. \A r \in Requests : req[r] = Idle
  BY DEF Init
<1>2. \A r \in Requests : req[r].pc = "idle"
  BY <1>1, IdleOK
<1>3. KeysTyped
  <2>1. /\ hits \in [n: 0..MaxHits, left: 0..ThrottleTTL] /\ block \in 0..ThrottleTTL
        /\ fails \in [n: Nat, left: 0..LockoutTTL] /\ cool \in 0..CooldownTTL
        /\ faults \in 0..MaxFaults /\ quiet \in 0..ThrottleTTL
        /\ failAge \in 0..(LockoutTTL + 1) /\ owed \in 0..CooldownTTL
    BY Constants DEF Init
  <2>2. cache \in [got: Answers, left: 0..CacheTTL]
    BY Constants DEF Init, NoEntry, Answers
  <2>3. paced \in [age: 0..PaceCap, early: BOOLEAN]
    BY Constants DEF Init
  <2>4. served \in [got: Answers, met: BOOLEAN]
    BY DEF Init, Answers
  <2>5. QED
    BY <2>1, <2>2, <2>3, <2>4 DEF Init, KeysTyped
<1>4. req \in [Requests -> ReqRecord]
  BY IdleOK DEF Init
<1>5. TypeOK
  BY <1>3, <1>4, TypeSplit
<1>6. ThrottleInv /\ LockoutInv /\ OutageInv
  BY <1>1, IdleOK DEF Init, ThrottleInv, LockoutInv, OutageInv, OutageIsNotRemembered, NoEntry
<1>7. OvershootInv
  <2>1. Passed = {}
    BY <1>2 DEF Passed
  <2>2. Cardinality(Passed) = 0 /\ fails.n = 0 /\ faults = 0 /\ Cardinality(Requests) \in Nat
    BY <2>1, FS_EmptySet, PassedFacts DEF Init
  <2>3. QED
    BY <2>2, Constants DEF OvershootInv
<1>8. PaceInv
  <2>1. paced.age = PaceCap /\ owed = 0
    BY DEF Init
  <2>2. Owes(paced.age)
    BY <2>1, Constants DEF Owes
  <2>3. QED
    BY <1>2, <2>2 DEF PaceInv, Covered, AllApart, Holding
<1>9. QED
  BY <1>5, <1>6, <1>7, <1>8 DEF WindowsInv

(* Every step keeps WindowsInv, one window at a time. *)
LEMMA StepWindows == WindowsInv /\ [Next]_vars => WindowsInv'
  BY StepTyped, StepThrottle, StepLockout, StepOvershoot, StepPace, StepOutage DEF WindowsInv

LEMMA WindowsInvHolds == Spec => []WindowsInv
  BY InitWindows, StepWindows, PTL DEF Spec

(* No key of the throttler, the lockout, the cooldown or a cache outlives  *)
(* its TTL.                                                                *)
THEOREM TypeCorrect == Spec => []TypeOK
<1>1. WindowsInv => TypeOK
  BY DEF WindowsInv
<1>2. QED
  BY <1>1, WindowsInvHolds, PTL

(* recordFailure: an address is free again LOGIN_LOCKOUT_SEC after the     *)
(* first failure that counted, whatever is tried in between.               *)
THEOREM LockoutIsFinite == Spec => []LockoutEnds
<1>1. WindowsInv => LockoutEnds
  <2>1. SUFFICES ASSUME WindowsInv PROVE LockoutEnds
    OBVIOUS
  <2>2. fails \in [n: Nat, left: 0..LockoutTTL] /\ failAge \in 0..(LockoutTTL + 1) /\ LockoutInv
    BY <2>1 DEF WindowsInv, TypeOK
  <2>3. QED
    BY <2>2, Constants DEF LockoutInv, LockoutEnds
<1>2. QED
  BY <1>1, WindowsInvHolds, PTL

(* login: however the attempts overlap, they pass the limit by less than   *)
(* there are of them, and by one more for each call Redis did not answer.  *)
THEOREM OvershootIsBounded == Spec => []LockoutOvershootBounded
<1>1. WindowsInv => LockoutOvershootBounded
  <2>1. SUFFICES ASSUME WindowsInv PROVE LockoutOvershootBounded
    OBVIOUS
  <2>2. OvershootInv /\ fails.n \in Nat /\ faults \in Nat
    BY <2>1 DEF WindowsInv, TypeOK
  <2>3. QED
    BY <2>2, PassedFacts, Constants DEF OvershootInv, LockoutOvershootBounded
<1>2. QED
  BY <1>1, WindowsInvHolds, PTL

(* GeocodeService, ForecastService and the weather provider: however the   *)
(* misses, the retries and the outages overlap, what answers an outage is  *)
(* handed on by no cache.                                                  *)
THEOREM OutageForgotten == Spec => []OutageIsNotRemembered
<1>1. WindowsInv => OutageIsNotRemembered
  BY DEF WindowsInv, OutageInv
<1>2. QED
  BY <1>1, WindowsInvHolds, PTL

(* RedisThrottlerStorage: a caller that stays away for one window is let   *)
(* in, for every limit and every window.                                   *)
THEOREM QuietIsAdmitted == Spec => QuietCallerIsAdmitted
<1>1. WindowsInv => [Increment /\ quiet >= ThrottleTTL => ~Refused]_vars
  <2>1. SUFFICES ASSUME WindowsInv, Increment, quiet >= ThrottleTTL PROVE ~Refused
    OBVIOUS
  <2>2. /\ hits \in [n: 0..MaxHits, left: 0..ThrottleTTL] /\ block \in 0..ThrottleTTL
        /\ quiet \in 0..ThrottleTTL /\ ThrottleInv
    BY <2>1 DEF WindowsInv, TypeOK
  <2>3. block = 0 /\ hits.n = 0
    BY <2>1, <2>2, Constants DEF ThrottleInv
  <2>4. QED
    BY <2>1, <2>3, Constants DEF Increment, Refused
<1>2. QED
  BY <1>1, WindowsInvHolds, PTL DEF QuietCallerIsAdmitted

(* SendTestNotificationHandler: two test sends that succeed begin a whole  *)
(* cooldown apart, for every cooldown, every number of sends and however   *)
(* long they take, unless a handback deleted another one's reservation and *)
(* the later of them began in what was left of it.                         *)
THEOREM TestsPaced == Spec => TestsArePaced
<1>1. WindowsInv =>
        [\A r \in Requests : PublishTest(r) /\ req[r].n = 1 => Apart(req[r], paced)]_vars
  <2>1. SUFFICES ASSUME WindowsInv, NEW r \in Requests, PublishTest(r)
                 PROVE  Apart(req[r], paced)
    OBVIOUS
  <2>2. req[r].pc \in Holding
    BY <2>1 DEF PublishTest, Holding
  <2>3. QED
    BY <2>1, <2>2 DEF WindowsInv, PaceInv, AllApart
<1>2. QED
  BY <1>1, WindowsInvHolds, PTL DEF TestsArePaced

=============================================================================
