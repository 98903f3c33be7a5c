------------------------------ MODULE Accounts ------------------------------
(***************************************************************************)
(* The rows core-api keeps for its accounts and the requests that check    *)
(* them in one statement and write them in the next: registration and      *)
(* verification (AuthService), role changes and deletion (AdminService,    *)
(* UsersService), triggers with their location bucket (the trigger         *)
(* commands, TriggersRepository) and pinned cities (PinnedCitiesService).  *)
(* Different tables meet only where an account is deleted, so a behaviour  *)
(* exercises one of them. Buckets are dealt to watchers by bucketsForShard.*)
(***************************************************************************)
EXTENDS Integers, FiniteSets

CONSTANTS
  Accounts,      \* accounts that register, one address each
  Admins,        \* the accounts that are administrators from the start
  Requests,      \* requests in flight at once
  Rows,          \* trigger rows; an id is never used twice
  Cities,        \* cities that can be pinned
  Lats, Lons,    \* coordinates, already snapped to hundredths
  Buckets,       \* LOCATION_BUCKETS
  Hash,          \* hashLocation of a snapped coordinate pair
  MaxTriggers,   \* API_LIMITS.maxTriggersPerUser
  MaxPins,       \* API_LIMITS.maxPinnedCities
  MaxWrites,     \* bounds the requests of a behaviour
  None

ASSUME AccountsAssumption ==
  /\ Admins \subseteq Accounts /\ Admins # {}
  /\ IsFiniteSet(Requests) /\ IsFiniteSet(Rows) /\ IsFiniteSet(Cities)
  /\ Buckets \in Nat \ {0}
  /\ Hash \in [Lats \X Lons -> Nat]
  /\ MaxTriggers \in Nat \ {0} /\ MaxPins \in Nat \ {0} /\ MaxWrites \in Nat
  /\ None \notin Accounts \cup Rows

Tables == {"users", "triggers", "pins"}

VARIABLES
  table,    \* the table this behaviour exercises
  acct,     \* the User rows: role or "gone", emailVerified, a pending link
  trig,     \* the Trigger rows
  pins,     \* the PinnedCity rows of each account
  req,      \* the requests in flight
  writes,   \* requests so far
  raced,    \* history: the last administrator to go went on an outdated check
  half      \* history: rows moved by a patch with one coordinate only

vars == <<table, acct, trig, pins, req, writes, raced, half>>
history == <<raced, half>>

Idle   == [op |-> "idle", pc |-> "idle", who |-> None, of |-> None, lat |-> None,
           lon |-> None, stale |-> FALSE]
NoRow  == [owner |-> None, lat |-> None, lon |-> None, bucket |-> 0, state |-> "unused"]
Exists(a) == acct[a].role \in {"ADMIN", "USER"}
AdminSet  == {a \in Accounts : acct[a].role = "ADMIN"}

Init ==
  /\ table \in Tables
  /\ acct = [a \in Accounts |->
               [role |-> IF a \in Admins THEN "ADMIN" ELSE "unused",
                verified |-> a \in Admins, link |-> FALSE]]
  /\ trig = [t \in Rows |-> NoRow]
  /\ pins = [a \in Accounts |-> {}]
  /\ req = [q \in Requests |-> Idle]
  /\ writes = 0
  /\ raced = FALSE /\ half = {}

(* A request arrives and reads what its first statement asks for. *)
Begin(q, r) ==
  /\ req[q].pc = "idle"
  /\ writes < MaxWrites /\ writes' = writes + 1
  /\ req' = [req EXCEPT ![q] = r]

Goto(q, pc) == req' = [req EXCEPT ![q].pc = pc]
Answer(q)   == req' = [req EXCEPT ![q] = Idle]

----------------------------------------------------------------------------
(* Registration and verification *)

(* sendVerificationEmail stores the link's hash; the mail is detached. *)
SendVerificationEmail(row) == [row EXCEPT !.link = TRUE]

(* findByEmail, then create under the unique address; the id is a new one. *)
(* The account stays when storing its link fails.                          *)
Register(a) ==
  /\ acct[a].role = "unused"
  /\ writes < MaxWrites /\ writes' = writes + 1
  /\ LET row == [role |-> "USER", verified |-> FALSE, link |-> FALSE] IN
       \E new \in {row, SendVerificationEmail(row)} : acct' = [acct EXCEPT ![a] = new]
  /\ UNCHANGED <<table, trig, pins, req, history>>

ResendVerification(a) ==
  /\ Exists(a) /\ ~acct[a].verified /\ ~acct[a].link
  /\ acct' = [acct EXCEPT ![a] = SendVerificationEmail(@)]
  /\ UNCHANGED <<table, trig, pins, req, writes, history>>

VerifyEmail(a) ==
  /\ acct[a].link
  /\ acct' = [acct EXCEPT ![a].verified = TRUE, ![a].link = FALSE]
  /\ UNCHANGED <<table, trig, pins, req, writes, history>>

(* "Following the link proves control of the inbox"; the rest of a reset   *)
(* is Sessions'.                                                           *)
ResetPassword(a) ==
  /\ Exists(a) /\ ~acct[a].verified
  /\ acct' = [acct EXCEPT ![a].verified = TRUE]
  /\ UNCHANGED <<table, trig, pins, req, writes, history>>

(* updateUser with emailVerified *)
SetVerified(a) ==
  /\ AdminSet # {} /\ Exists(a)
  /\ writes < MaxWrites /\ writes' = writes + 1
  /\ acct' = [acct EXCEPT ![a].verified = ~@]
  /\ UNCHANGED <<table, trig, pins, req, history>>

----------------------------------------------------------------------------
(* Roles: the target's role is read, the administrators are counted when   *)
(* one of them is to go, and then the row is written.                      *)

RoleOps == {"demote", "promote", "deleteUser", "deleteAccount"}

(* assertExists in updateUser and deleteUser, findUnique in deleteAccount. *)
(* A role change with nothing to check is written next.                    *)
RoleRead(q, op, a) ==
  /\ table = "users" \/ op = "deleteAccount"
  /\ Exists(a)
  /\ op = "deleteAccount" \/ AdminSet # {}
  /\ op = "deleteUser" => AdminSet # {a}
  /\ Begin(q, [Idle EXCEPT !.op = op, !.of = a,
                 !.pc = IF acct[a].role = "ADMIN" /\ op # "promote" THEN "count" ELSE "write"])
  /\ UNCHANGED <<table, acct, trig, pins, history>>

(* The target counts as one of those who remain. *)
MutLastAdmin(q) == AdminSet = {}

(* assertNotTheLastAdmin asks for others; deleteAccount counts them all.   *)
LastAdmin(q) ==
  IF req[q].op = "deleteAccount" THEN Cardinality(AdminSet) = 1
                                 ELSE AdminSet \ {req[q].of} = {}

RoleCount(q) ==
  /\ req[q].op \in RoleOps /\ req[q].pc = "count"
  /\ IF LastAdmin(q) THEN Answer(q)
                     ELSE req' = [req EXCEPT ![q].pc = "write", ![q].stale = FALSE]
  /\ UNCHANGED <<table, acct, trig, pins, writes, history>>

Written(op, a) ==
  CASE op = "demote"  -> [acct EXCEPT ![a].role = "USER"]
    [] op = "promote" -> [acct EXCEPT ![a].role = "ADMIN"]
    [] OTHER          -> [acct EXCEPT ![a] = [role |-> "gone", verified |-> FALSE, link |-> FALSE]]

(* Triggers and pinned cities cascade when the row is deleted.             *)
Cascade(a) ==
  /\ trig' = [t \in Rows |-> IF trig[t].owner = a THEN [NoRow EXCEPT !.state = "deleted"]
                                                  ELSE trig[t]]
  /\ pins' = [pins EXCEPT ![a] = {}]

(* Whoever read roles before this write goes on with what it read. The     *)
(* deny marker both services set next is Sessions' RevokeUserTokens.       *)
RoleWrite(q) ==
  LET r == req[q] IN
  /\ r.op \in RoleOps /\ r.pc = "write" /\ Exists(r.of)
  /\ acct' = Written(r.op, r.of)
  /\ IF r.op \in {"deleteUser", "deleteAccount"} THEN Cascade(r.of)
                                                 ELSE UNCHANGED <<trig, pins>>
  /\ req' = [p \in Requests |-> IF p = q THEN Idle
               ELSE IF req[p].op \in RoleOps THEN [req[p] EXCEPT !.stale = TRUE] ELSE req[p]]
  /\ raced' = IF acct[r.of].role = "ADMIN" /\ r.op # "promote" THEN r.stale ELSE raced
  /\ UNCHANGED <<table, writes, half>>

(* The row is gone by now: the write throws. *)
RoleWriteFails(q) ==
  /\ req[q].op \in RoleOps /\ req[q].pc = "write" /\ ~Exists(req[q].of)
  /\ Answer(q)
  /\ UNCHANGED <<table, acct, trig, pins, writes, history>>

----------------------------------------------------------------------------
(* Triggers *)

Owned(a) == {t \in Rows : trig[t].owner = a}

LocationBucket(lat, lon) == Hash[<<lat, lon>>] % Buckets

(* isEmailVerified of an account that may be gone is false. *)
CreateGate(q, a) ==
  /\ table = "triggers" /\ acct[a].verified
  /\ Begin(q, [Idle EXCEPT !.op = "create", !.pc = "count", !.who = a])
  /\ UNCHANGED <<table, acct, trig, pins, history>>

(* One more than the limit. *)
MutCreateCount(q) ==
  /\ req[q].op = "create" /\ req[q].pc = "count"
  /\ IF Cardinality(Owned(req[q].who)) > MaxTriggers THEN Answer(q) ELSE Goto(q, "create")
  /\ UNCHANGED <<table, acct, trig, pins, writes, history>>

CreateCount(q) ==
  /\ req[q].op = "create" /\ req[q].pc = "count"
  /\ IF Cardinality(Owned(req[q].who)) >= MaxTriggers THEN Answer(q) ELSE Goto(q, "create")
  /\ UNCHANGED <<table, acct, trig, pins, writes, history>>

(* The foreign key refuses a trigger of a deleted account. *)
CreateTrigger(q) ==
  /\ req[q].op = "create" /\ req[q].pc = "create"
  /\ \/ /\ Exists(req[q].who)
        /\ \E t \in Rows, lat \in Lats, lon \in Lons :
             /\ trig[t].state = "unused"
             /\ trig' = [trig EXCEPT ![t] =
                          [owner |-> req[q].who, lat |-> lat, lon |-> lon,
                           bucket |-> LocationBucket(lat, lon), state |-> "live"]]
     \/ /\ ~Exists(req[q].who)
        /\ UNCHANGED trig
  /\ Answer(q)
  /\ UNCHANGED <<table, acct, pins, writes, history>>

(* findOwned before an update, whose patch may carry either coordinate,    *)
(* both or none, and before a deletion                                     *)
FindOwned(q, t) ==
  /\ trig[t].state = "live"
  /\ \/ \E lat \in Lats \cup {None}, lon \in Lons \cup {None} :
          Begin(q, [Idle EXCEPT !.op = "update", !.pc = "write", !.of = t,
                                !.lat = lat, !.lon = lon])
     \/ Begin(q, [Idle EXCEPT !.op = "delete", !.pc = "write", !.of = t])
  /\ UNCHANGED <<table, acct, trig, pins, history>>

Patched(old, new) == IF new = None THEN old ELSE new

(* The bucket of where the trigger was. *)
MutBucketPatch(r, row) ==
  IF r.lat = None \/ r.lon = None THEN row.bucket ELSE LocationBucket(row.lat, row.lon)

(* A patch with one coordinate leaves the bucket alone. *)
BucketPatch(r, row) ==
  IF r.lat = None \/ r.lon = None THEN row.bucket ELSE LocationBucket(r.lat, r.lon)

UpdateTrigger(q) ==
  LET r == req[q] row == trig[r.of] IN
  /\ r.op = "update" /\ row.state = "live"
  /\ trig' = [trig EXCEPT ![r.of] =
               [row EXCEPT !.lat = Patched(row.lat, r.lat), !.lon = Patched(row.lon, r.lon),
                           !.bucket = BucketPatch(r, row)]]
  /\ half' = IF r.lat # None /\ r.lon # None THEN half \ {r.of}
             ELSE IF r.lat # None \/ r.lon # None THEN half \cup {r.of} ELSE half
  /\ Answer(q)
  /\ UNCHANGED <<table, acct, pins, writes, raced>>

DeleteTrigger(q) ==
  /\ req[q].op = "delete" /\ trig[req[q].of].state = "live"
  /\ trig' = [trig EXCEPT ![req[q].of] = [NoRow EXCEPT !.state = "deleted"]]
  /\ Answer(q)
  /\ UNCHANGED <<table, acct, pins, writes, history>>

(* The row went away in between: the statement throws. *)
TriggerWriteFails(q) ==
  /\ req[q].op \in {"update", "delete"} /\ trig[req[q].of].state # "live"
  /\ Answer(q)
  /\ UNCHANGED <<table, acct, trig, pins, writes, history>>

(* clear-triggers, and the administrator's deleteTrigger: one deleteMany   *)
DeleteMany(ts) ==
  /\ ts # {}
  /\ trig' = [t \in Rows |-> IF t \in ts THEN [NoRow EXCEPT !.state = "deleted"] ELSE trig[t]]
  /\ UNCHANGED <<table, acct, pins, req, writes, history>>

ClearTriggers(a)      == DeleteMany(Owned(a))
AdminDeleteTrigger(t) == trig[t].state = "live" /\ DeleteMany({t})

----------------------------------------------------------------------------
(* Pinned cities *)

PinCount(q, a) ==
  /\ table = "pins" /\ Exists(a)
  /\ Cardinality(pins[a]) < MaxPins
  /\ Begin(q, [Idle EXCEPT !.op = "pin", !.pc = "write", !.who = a])
  /\ UNCHANGED <<table, acct, trig, pins, history>>

(* Unique per account and city: a pinned one is refused, and so is one of  *)
(* an account that is gone.                                                *)
PinCreate(q, c) ==
  /\ req[q].op = "pin"
  /\ pins' = IF Exists(req[q].who) THEN [pins EXCEPT ![req[q].who] = @ \cup {c}] ELSE pins
  /\ Answer(q)
  /\ UNCHANGED <<table, acct, trig, writes, history>>

PinRemove(a, c) ==
  /\ c \in pins[a]
  /\ pins' = [pins EXCEPT ![a] = @ \ {c}]
  /\ UNCHANGED <<table, acct, trig, req, writes, history>>

----------------------------------------------------------------------------
RoleStep(q)    == RoleCount(q) \/ RoleWrite(q) \/ RoleWriteFails(q)
TriggerStep(q) == CreateCount(q) \/ CreateTrigger(q) \/ UpdateTrigger(q)
                  \/ DeleteTrigger(q) \/ TriggerWriteFails(q)

Next ==
  \/ \E a \in Accounts :
       \/ Register(a) \/ ResendVerification(a) \/ VerifyEmail(a) \/ ResetPassword(a)
       \/ SetVerified(a) \/ ClearTriggers(a)
       \/ \E c \in Cities : PinRemove(a, c)
  \/ \E q \in Requests :
       \/ \E a \in Accounts : \/ \E op \in RoleOps : RoleRead(q, op, a)
                              \/ CreateGate(q, a) \/ PinCount(q, a)
       \/ RoleStep(q) \/ TriggerStep(q)
       \/ \E t \in Rows : FindOwned(q, t)
       \/ \E c \in Cities : PinCreate(q, c)
  \/ \E t \in Rows : AdminDeleteTrigger(t)

Spec == Init /\ [][Next]_vars

----------------------------------------------------------------------------
(* Watcher instances select triggers by bucket *)

BucketsForShard(index, count) == {b \in 0..(Buckets - 1) : b % count = index}

----------------------------------------------------------------------------
(* Properties *)

RequestType ==
  [op: RoleOps \cup {"idle", "create", "update", "delete", "pin"},
   pc: {"idle", "count", "write", "create"}, who: Accounts \cup {None},
   of: Accounts \cup Rows \cup {None}, lat: Lats \cup {None}, lon: Lons \cup {None},
   stale: BOOLEAN]

(* Every variable keeps its type: a row that exists has coordinates, and a *)
(* bucket an instance can be asked for.                                    *)
TypeOK ==
  /\ table \in Tables
  /\ acct \in [Accounts -> [role: {"ADMIN", "USER", "gone", "unused"}, verified: BOOLEAN, link: BOOLEAN]]
  /\ trig \in [Rows -> [owner: Accounts \cup {None}, lat: Lats \cup {None},
                        lon: Lons \cup {None}, bucket: 0..(Buckets - 1),
                        state: {"unused", "live", "deleted"}]]
  /\ pins \in [Accounts -> SUBSET Cities]
  /\ req \in [Requests -> RequestType]
  /\ writes \in 0..MaxWrites
  /\ raced \in BOOLEAN /\ half \subseteq Rows

(* "Refuse to remove the last account that can reach this module"          *)
(* (assertNotTheLastAdmin, and deleteAccount for one's own): an            *)
(* administrator is left, unless the last one to be removed was removed on *)
(* a check that another role change had outdated before the write.         *)
AdminRemains == raced \/ AdminSet # {}

(* The limits are counted before the write, so requests that overlap pass  *)
(* together; they exceed a limit by less than there are of them, also when *)
(* rows are deleted and created in between.                                *)
LimitsOvershootBounded ==
  \A a \in Accounts :
    /\ Cardinality(Owned(a)) <= MaxTriggers + Cardinality(Requests) - 1
    /\ Cardinality(pins[a]) <= MaxPins + Cardinality(Requests) - 1

(* "A second copy of the hash would be a silent way for a location to be   *)
(* claimed by nobody", and a row left on its old bucket is polled by the   *)
(* instance of where it used to be: for every number of instances a        *)
(* trigger has exactly one, and it is the one of the trigger's coordinates,*)
(* however updates overlap, unless a patch moved it by one coordinate only.*)
OneOwner ==
  \A count \in 1..Buckets, t \in Rows :
    LET Of(b) == {i \in 0..(count - 1) : b \in BucketsForShard(i, count)} IN
    trig[t].state = "live" =>
      /\ Cardinality(Of(trig[t].bucket)) = 1
      /\ t \notin half =>
           Of(trig[t].bucket) = Of(LocationBucket(trig[t].lat, trig[t].lon))
=============================================================================
