---------------------------- MODULE RedisWindows ----------------------------
(***************************************************************************)
(* What the API and the watcher keep in Redis under a key that expires:    *)
(* the throttler's counter and block (RedisThrottlerStorage), the count of *)
(* failed sign-ins (AuthService.login), the cooldown of test sends         *)
(* (SendTestNotificationHandler) and the three read-through caches of      *)
(* Open-Meteo (ForecastService, GeocodeService, OpenMeteoWeatherProvider). *)
(* The keys of different routes are disjoint, so every behaviour exercises *)
(* one of them, with several requests to it in flight.                     *)
(***************************************************************************)
EXTENDS Integers, FiniteSets

CONSTANTS
  Requests,      \* requests in flight at once
  ThrottleTTL,   \* the throttler's ttl, which is also its blockDuration
  Limit,         \* the throttler's limit
  MaxHits,       \* bounds the hits of one window
  LockoutTTL,    \* LOGIN_LOCKOUT_SEC
  MaxFailures,   \* LOGIN_MAX_FAILURES
  CooldownTTL,   \* API_LIMITS.testCooldownSec
  PublishBound,  \* bounds how long a test send takes, also past its cooldown
  Channels,      \* how many channels the trigger has
  CacheTTL,      \* CACHE_TTL_SEC, WEATHER_CACHE_TTL_SEC
  MaxFaults,     \* how many calls fail, and how many outages Open-Meteo has
  None           \* no request

ASSUME WindowsAssumption ==
  /\ IsFiniteSet(Requests)
  /\ {ThrottleTTL, LockoutTTL, CooldownTTL, CacheTTL, Limit, MaxFailures, Channels}
       \subseteq Nat \ {0}
  /\ {MaxHits, PublishBound, MaxFaults} \subseteq Nat
  /\ None \notin Requests

Routes == {"guard", "login", "test", "forecast", "geocode", "weather"}
Cached == {"forecast", "geocode", "weather"}
Answers == {"none", "answer", "outage"}
PaceCap == CooldownTTL + PublishBound

VARIABLES
  route,     \* the route this behaviour exercises
  hits,      \* the throttler's counter: hits and time left
  block,     \* the throttler's block key: time left
  fails,     \* the failed sign-ins of one address: count and time left
  cool,      \* the cooldown of one user: time left
  cache,     \* one cache entry: what was stored and time left
  down,      \* whether calls to Open-Meteo fail now
  req,       \* the requests
  faults,    \* failed calls and outages so far
  quiet,     \* history: time since the caller's last request
  failAge,   \* history: time since the first failure of the window
  holder,    \* history: the test send whose reservation cool is
  owed,      \* history: what was left of the last one that another send deleted
  paced,     \* history: the latest of the test sends that succeeded
  served     \* history: what a cached route answered last, and to whom

testHistory == <<holder, owed, paced>>
history == <<quiet, failAge, testHistory, served>>
vars == <<route, hits, block, fails, cool, cache, down, req, faults, history>>

(* age: time since a test send reserved. early: it reserved while the      *)
(* window of an earlier one should still have been closed. met: an outage  *)
(* of Open-Meteo has met the request. got: what it is about to store.      *)
Idle == [pc |-> "idle", age |-> 0, n |-> 0, early |-> FALSE, met |-> FALSE, got |-> "none"]
NoEntry == [got |-> "none", left |-> 0]

Init ==
  /\ route \in Routes
  /\ hits = [n |-> 0, left |-> 0] /\ block = 0
  /\ fails = [n |-> 0, left |-> 0]
  /\ cool = 0
  /\ cache = NoEntry /\ down = FALSE
  /\ req = [r \in Requests |-> Idle]
  /\ faults = 0
  /\ quiet = 0 /\ failAge = 0
  /\ holder = None /\ owed = 0 /\ paced = [age |-> PaceCap, early |-> FALSE]
  /\ served = [got |-> "none", met |-> FALSE]

Fault == faults < MaxFaults /\ faults' = faults + 1

Goto(r, pc) == req' = [req EXCEPT ![r].pc = pc]
Answer(r)   == req' = [req EXCEPT ![r] = Idle]

(* INCR, and EXPIRE on the first one only. *)
Counted(w, ttl) == [n |-> w.n + 1, left |-> IF w.n = 0 THEN ttl ELSE w.left]

----------------------------------------------------------------------------
(* The throttler guard: one script counts, reads the block and sets it     *)

(* The counter never gets its expiry. *)
MutIncrement ==
  /\ route = "guard" /\ hits.n < MaxHits
  /\ hits' = [n |-> hits.n + 1, left |-> hits.left]
  /\ block' = IF block = 0 /\ hits.n + 1 > Limit THEN ThrottleTTL ELSE block
  /\ quiet' = 0
  /\ UNCHANGED <<route, fails, cool, cache, down, req, faults, failAge, testHistory, served>>

Increment ==
  /\ route = "guard" /\ hits.n < MaxHits
  /\ hits' = Counted(hits, ThrottleTTL)
  /\ block' = IF block = 0 /\ hits.n + 1 > Limit THEN ThrottleTTL ELSE block
  /\ quiet' = 0
  /\ UNCHANGED <<route, fails, cool, cache, down, req, faults, failAge, testHistory, served>>

(* isBlocked as the script reports it *)
Refused == block' > 0

(* Redis does not answer: the request is allowed and not counted. *)
IncrementFails ==
  /\ route = "guard"
  /\ Fault
  /\ quiet' = 0
  /\ UNCHANGED <<route, hits, block, fails, cool, cache, down, req, failAge, testHistory, served>>

----------------------------------------------------------------------------
(* login: read the count, compare, then record or forget. A locked address *)
(* is refused before the comparison, which changes nothing.                *)

(* One failure more than allowed. *)
MutLoginCheck(r) ==
  /\ route = "login" /\ req[r].pc = "idle"
  /\ fails.n <= MaxFailures
  /\ Goto(r, "compare")
  /\ UNCHANGED <<route, hits, block, fails, cool, cache, down, faults, history>>

LoginCheck(r) ==
  /\ route = "login" /\ req[r].pc = "idle"
  /\ fails.n < MaxFailures
  /\ Goto(r, "compare")
  /\ UNCHANGED <<route, hits, block, fails, cool, cache, down, faults, history>>

PasswordCompared(r) ==
  /\ req[r].pc = "compare"
  /\ \E pc \in {"record", "forget"} : Goto(r, pc)
  /\ UNCHANGED <<route, hits, block, fails, cool, cache, down, faults, history>>

(* Every failure renews the window. *)
MutFailed == [n |-> fails.n + 1, left |-> LockoutTTL]

Failed == Counted(fails, LockoutTTL)

RecordFailure(r) ==
  /\ req[r].pc = "record"
  /\ fails' = Failed
  /\ failAge' = IF fails.n = 0 THEN 0 ELSE failAge
  /\ Answer(r)
  /\ UNCHANGED <<route, hits, block, cool, cache, down, faults, quiet, testHistory, served>>

ClearFailures(r) ==
  /\ req[r].pc = "forget"
  /\ fails' = [n |-> 0, left |-> 0]
  /\ failAge' = 0
  /\ Answer(r)
  /\ UNCHANGED <<route, hits, block, cool, cache, down, faults, quiet, testHistory, served>>

(* Each of the three calls fails open: no count, no record, no clearing. *)
LoginRedisFails(r) ==
  /\ route = "login"
  /\ Fault
  /\ \/ req[r].pc = "idle" /\ Goto(r, "compare")
     \/ req[r].pc \in {"record", "forget"} /\ Answer(r)
  /\ UNCHANGED <<route, hits, block, fails, cool, cache, down, history>>

----------------------------------------------------------------------------
(* A test send: reserve the window, publish to every channel, and hand the *)
(* window back when a publish fails                                        *)

Sending(early) == [Idle EXCEPT !.pc = "publish", !.n = Channels, !.early = early]

(* A read of the key, then a write. *)
MutConsumeCooldown(r) ==
  /\ route = "test" /\ req[r].pc \in {"idle", "reserve"}
  /\ \/ /\ req[r].pc = "idle" /\ cool = 0
        /\ Goto(r, "reserve")
        /\ UNCHANGED <<cool, holder>>
     \/ /\ req[r].pc = "reserve"
        /\ cool' = CooldownTTL /\ holder' = r
        /\ req' = [req EXCEPT ![r] = Sending(owed > 0)]
  /\ UNCHANGED <<route, hits, block, fails, cache, down, faults, quiet, failAge, owed, paced, served>>

ConsumeCooldown(r) ==
  /\ route = "test" /\ req[r].pc = "idle"
  /\ cool = 0
  /\ cool' = CooldownTTL /\ holder' = r
  /\ req' = [req EXCEPT ![r] = Sending(owed > 0)]
  /\ UNCHANGED <<route, hits, block, fails, cache, down, faults, quiet, failAge, owed, paced, served>>

PublishTest(r) ==
  /\ req[r].pc = "publish"
  /\ req' = [req EXCEPT ![r] = IF req[r].n > 1 THEN [req[r] EXCEPT !.n = @ - 1] ELSE Idle]
  /\ paced' = IF req[r].n = 1 /\ req[r].age <= paced.age
                THEN [age |-> req[r].age, early |-> req[r].early] ELSE paced
  /\ UNCHANGED <<route, hits, block, fails, cool, cache, down, faults, quiet, failAge,
                 holder, owed, served>>

(* Refused, or accepted without a confirm: the rest is not published. *)
PublishTestFails(r) ==
  /\ req[r].pc = "publish"
  /\ Fault
  /\ Goto(r, "refund")
  /\ UNCHANGED <<route, hits, block, fails, cool, cache, down, history>>

(* DEL, whoever reserved: once the window has run out during a slow send   *)
(* it may be the reservation of the next one.                              *)
ClearCooldown(r) ==
  /\ req[r].pc = "refund"
  /\ cool' = 0
  /\ owed' = IF holder # r /\ cool > owed THEN cool ELSE owed
  /\ Answer(r)
  /\ UNCHANGED <<route, hits, block, fails, cache, down, faults, quiet, failAge, holder, paced, served>>

(* The handback fails, or the process dies: the user waits the window out. *)
TestEnds(r) ==
  /\ req[r].pc \in {"publish", "refund"}
  /\ Fault
  /\ Answer(r)
  /\ UNCHANGED <<route, hits, block, fails, cool, cache, down, history>>

----------------------------------------------------------------------------
(* The read-through caches: getJson, the upstream call, setJson *)

(* Open-Meteo stops answering, or answers what the schema refuses. *)
OutageBegins ==
  /\ route \in Cached /\ ~down
  /\ Fault
  /\ down' = TRUE
  /\ req' = [r \in Requests |->
               IF req[r].pc = "fetch" THEN [req[r] EXCEPT !.met = TRUE] ELSE req[r]]
  /\ UNCHANGED <<route, hits, block, fails, cool, cache, history>>

OutageEnds ==
  /\ down
  /\ down' = FALSE
  /\ UNCHANGED <<route, hits, block, fails, cool, cache, req, faults, history>>

Serve(got, met) ==
  /\ served' = [got |-> got, met |-> met]
  /\ UNCHANGED <<quiet, failAge, testHistory>>

CacheHit(r) ==
  /\ req[r].pc = "idle"
  /\ cache.left > 0
  /\ Serve(cache.got, down)
  /\ UNCHANGED <<route, hits, block, fails, cool, cache, down, req, faults>>

GetJson(r) ==
  /\ req[r].pc = "idle"
  /\ cache.left = 0
  /\ req' = [req EXCEPT ![r] = [Idle EXCEPT !.pc = "fetch", !.met = down]]
  /\ UNCHANGED <<route, hits, block, fails, cool, cache, down, faults, history>>

Fetched(r) ==
  /\ req[r].pc = "fetch" /\ ~down
  /\ req' = [req EXCEPT ![r] = [req[r] EXCEPT !.pc = "store", !.got = "answer"]]
  /\ UNCHANGED <<route, hits, block, fails, cool, cache, down, faults, history>>

SetJson(r) ==
  /\ req[r].pc = "store"
  /\ cache' = [got |-> req[r].got, left |-> CacheTTL]
  /\ Serve(req[r].got, req[r].met)
  /\ Answer(r)
  /\ UNCHANGED <<route, hits, block, fails, cool, down, faults>>

ReadThrough(r) == CacheHit(r) \/ GetJson(r) \/ Fetched(r) \/ SetJson(r)

(* A call that an outage met fails, also when it is over before the call   *)
(* times out. That ends the request and leaves the cache alone.            *)
FetchFails(r) ==
  /\ req[r].pc = "fetch" /\ req[r].met
  /\ Serve("outage", req[r].met)
  /\ Answer(r)
  /\ UNCHANGED <<route, hits, block, fails, cool, cache, down, faults>>

(* A failed store ends the request with an error: a report that was        *)
(* fetched but not stored is not returned. A failed lookup changes nothing.*)
CacheFails(r) ==
  /\ route \in Cached
  /\ req[r].pc = "store"
  /\ Fault
  /\ Answer(r)
  /\ UNCHANGED <<route, hits, block, fails, cool, cache, down, history>>

(* ServiceUnavailable when the upstream fails *)
ForecastGet(r) == route = "forecast" /\ (ReadThrough(r) \/ FetchFails(r))

(* The empty list that answers an outage is stored like any other. *)
MutGeocodeFails(r) ==
  /\ req[r].pc = "fetch" /\ req[r].met
  /\ req' = [req EXCEPT ![r] = [req[r] EXCEPT !.pc = "store", !.got = "outage"]]
  /\ UNCHANGED <<route, hits, block, fails, cool, cache, down, faults, history>>

(* An empty list, which is not stored *)
GeocodeFails(r) == FetchFails(r)

GeocodeSearch(r) == route = "geocode" /\ (ReadThrough(r) \/ GeocodeFails(r))

(* The watcher asks once more when the call fails. *)
RetryFetch(r) ==
  /\ req[r].pc = "fetch" /\ req[r].n = 0 /\ req[r].met
  /\ req' = [req EXCEPT ![r] = [req[r] EXCEPT !.n = 1]]
  /\ UNCHANGED <<route, hits, block, fails, cool, cache, down, faults, history>>

(* It gives the location up after the second call, or after the first one  *)
(* when that was answered but the payload does not parse.                  *)
GetSnapshot(r) == route = "weather" /\ (ReadThrough(r) \/ RetryFetch(r) \/ FetchFails(r))

----------------------------------------------------------------------------
(* Time *)

Later(t)      == IF t > 0 THEN t - 1 ELSE 0
WindowLater(w) == IF w.left > 1 THEN [w EXCEPT !.left = @ - 1] ELSE [n |-> 0, left |-> 0]
Older(t, cap) == IF t < cap THEN t + 1 ELSE cap

Holding == {"publish", "refund"}

Tick ==
  /\ \A r \in Requests : req[r].pc \in Holding => req[r].age < PublishBound
  /\ hits' = IF hits.left > 0 THEN WindowLater(hits) ELSE hits
  /\ block' = Later(block)
  /\ fails' = IF fails.left > 0 THEN WindowLater(fails) ELSE fails
  /\ cool' = Later(cool)
  /\ cache' = IF cache.left > 1 THEN [cache EXCEPT !.left = @ - 1] ELSE NoEntry
  /\ req' = [r \in Requests |->
               IF req[r].pc \in Holding THEN [req[r] EXCEPT !.age = @ + 1] ELSE req[r]]
  /\ quiet' = Older(quiet, ThrottleTTL)
  /\ failAge' = IF fails.n = 0 THEN 0 ELSE Older(failAge, LockoutTTL + 1)
  /\ owed' = Later(owed)
  /\ paced' = [paced EXCEPT !.age = Older(@, PaceCap)]
  /\ UNCHANGED <<route, down, faults, holder, served>>

LoginStep(r) == LoginCheck(r) \/ PasswordCompared(r) \/ RecordFailure(r) \/ ClearFailures(r)
TestStep(r)  == ConsumeCooldown(r) \/ PublishTest(r) \/ PublishTestFails(r)
                \/ ClearCooldown(r) \/ TestEnds(r)

Next ==
  \/ Increment \/ IncrementFails
  \/ \E r \in Requests :
       \/ LoginStep(r) \/ LoginRedisFails(r) \/ TestStep(r)
       \/ ForecastGet(r) \/ GeocodeSearch(r) \/ GetSnapshot(r) \/ CacheFails(r)
  \/ OutageBegins \/ OutageEnds
  \/ Tick

Spec == Init /\ [][Next]_vars

----------------------------------------------------------------------------
(* Properties *)

(* Every variable keeps its type: no key outlives its TTL. *)
TypeOK ==
  /\ route \in Routes
  /\ hits \in [n: 0..MaxHits, left: 0..ThrottleTTL] /\ block \in 0..ThrottleTTL
  /\ fails \in [n: Nat, left: 0..LockoutTTL]
  /\ cool \in 0..CooldownTTL
  /\ cache \in [got: Answers, left: 0..CacheTTL] /\ down \in BOOLEAN
  /\ req \in [Requests -> [pc: {"idle", "compare", "record", "forget", "publish",
                               "refund", "fetch", "store"},
                          age: 0..PublishBound, n: 0..(Channels + 1),
                          early: BOOLEAN, met: BOOLEAN, got: Answers]]
  /\ faults \in 0..MaxFaults
  /\ quiet \in 0..ThrottleTTL /\ failAge \in 0..(LockoutTTL + 1)
  /\ holder \in Requests \cup {None} /\ owed \in 0..CooldownTTL
  /\ paced \in [age: 0..PaceCap, early: BOOLEAN]
  /\ served \in [got: Answers, met: BOOLEAN]

(* A caller that stays away for one window is let in again, however many   *)
(* of its requests were counted or refused before: neither the counter nor *)
(* the block of INCREMENT can outlive the last request by more.            *)
QuietCallerIsAdmitted ==
  [][Increment /\ quiet >= ThrottleTTL => ~Refused]_vars

(* "A fixed window that eventually frees the subject on its own, rather    *)
(* than one an attacker can keep alive" (recordFailure): no sequence of    *)
(* attempts, concurrent or late, keeps an address locked for longer than   *)
(* LOGIN_LOCKOUT_SEC after the first failure that counted.                 *)
LockoutEnds == fails.n > 0 => failAge < LockoutTTL

(* The count is read before the comparison and raised after it, so         *)
(* attempts that overlap pass together: at most one less than there are    *)
(* requests in flight, plus one for every call Redis did not answer.       *)
LockoutOvershootBounded ==
  fails.n <= MaxFailures + Cardinality(Requests) - 1 + faults

(* Two test sends whose ages are a cooldown apart, or the later of which   *)
(* began early.                                                            *)
Apart(a, b) ==
  \/ a.age >= b.age + CooldownTTL \/ b.age >= a.age + CooldownTTL
  \/ a.age >= b.age /\ b.early
  \/ b.age >= a.age /\ a.early

(* "Seconds a user must wait between test sends" (API_LIMITS): the starts  *)
(* of two test sends that succeed are a whole cooldown apart, however slow *)
(* they are and however many fail, unless the later one began in what was  *)
(* left of a reservation that the handback of a third had deleted. Nothing *)
(* else opens the window early: not a handback of one's own, a failed one  *)
(* or a send that outlasts its cooldown.                                   *)
TestsArePaced ==
  [][\A r \in Requests : PublishTest(r) /\ req[r].n = 1 => Apart(req[r], paced)]_vars

(* The answer given to an outage (geocode's empty list, the error of the   *)
(* other two) goes to the requests the outage met and to nobody else: no   *)
(* cache hands it on to who asks once Open-Meteo answers again, and a      *)
(* request that was under way during the outage does not leave it behind.  *)
OutageIsNotRemembered == served.got = "outage" => served.met
=============================================================================
