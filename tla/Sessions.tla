------------------------------ MODULE Sessions ------------------------------
(***************************************************************************)
(* The sessions of one account (AuthService): pairs of an access and a     *)
(* refresh token, rotation with reuse detection, and the ways a session    *)
(* ends.  Requests run concurrently and every await lets another one in.   *)
(* UsersService and AdminService delete the account or change its role,    *)
(* and then deny its access tokens with a marker in Redis.  The role       *)
(* itself is left out: no property here tells tokens apart by it.          *)
(***************************************************************************)
EXTENDS Integers

CONSTANTS
  Requests,     \* identities of concurrent requests (bounds them)
  Tokens,       \* pairs of tokens, named by the jti of the refresh token
  Logins,       \* sign-ins; each starts a session
  AccessTTL,    \* JWT_ACCESS_TTL, in ticks
  RefreshTTL,   \* JWT_REFRESH_TTL, in ticks
  None

ASSUME SessionsAssumption ==
  /\ AccessTTL \in Nat \ {0} /\ RefreshTTL \in Nat \ {0}
  /\ AccessTTL <= RefreshTTL
  /\ None \notin Tokens /\ None \notin Logins

VARIABLES
  exists,    \* whether the account does
  token,     \* the tokens handed out, with the row that records each
  request,   \* the requests in flight
  started,   \* the sign-ins so far
  link,      \* whether a password reset link is valid
  marker,    \* the time the deny marker has left in Redis
  missed     \* whether a deny marker that was due was not written

vars == <<exists, token, request, started, link, marker, missed>>

(* row is the RefreshToken row: "gone" once it is deleted.  age counts from *)
(* the signature, left to the expiresAt of the row.                         *)
Unused == [row |-> "unused", login |-> None, age |-> 0, left |-> 0]
Idle   == [pc |-> "idle", token |-> None, login |-> None, age |-> 0]
Issue(l)      == [pc |-> "sign", token |-> None, login |-> l, age |-> 0]
Rotate(t, pc) == [pc |-> pc, token |-> t, login |-> None, age |-> 0]

Init ==
  /\ exists = TRUE
  /\ token = [t \in Tokens |-> Unused]
  /\ request = [r \in Requests |-> Idle]
  /\ started = {}
  /\ link = FALSE
  /\ marker = 0
  /\ missed = FALSE

Done(r) == request' = [request EXCEPT ![r] = Idle]

----------------------------------------------------------------------------
(* issueTokens *)

(* Reads the role and signs both tokens with it. *)
Sign(r) ==
  /\ request[r].pc = "sign"
  /\ request' = [request EXCEPT ![r].pc = "insert"]
  /\ UNCHANGED <<exists, token, started, link, marker, missed>>

(* The row is written and the pair is handed out.  Without an account the  *)
(* foreign key refuses the row and the request fails.                      *)
Insert(r) ==
  /\ request[r].pc = "insert"
  /\ IF exists
     THEN \E t \in Tokens :
            /\ token[t].row = "unused"
            /\ token' = [token EXCEPT ![t] =
                 [row |-> "live", login |-> request[r].login,
                  age |-> request[r].age, left |-> RefreshTTL]]
     ELSE UNCHANGED token
  /\ Done(r)
  /\ UNCHANGED <<exists, started, link, marker, missed>>

(* login or register, once the credentials are accepted *)
Login(r) ==
  /\ request[r].pc = "idle"
  /\ exists
  /\ \E l \in Logins \ started :
       /\ started' = started \cup {l}
       /\ request' = [request EXCEPT ![r] = Issue(l)]
  /\ UNCHANGED <<exists, token, link, marker, missed>>

----------------------------------------------------------------------------
(* refresh *)

(* The signature of the refresh token verifies. *)
Presentable(t) == token[t].row # "unused" /\ token[t].age < RefreshTTL

(* Verifies the token and looks its row up.  A token without a row, or     *)
(* with an expired one, is refused without further effect.                 *)
Refresh(r, t) ==
  /\ request[r].pc = "idle"
  /\ Presentable(t) /\ token[t].row # "gone" /\ token[t].left > 0
  /\ request' = [request EXCEPT ![r] =
       Rotate(t, IF token[t].row = "revoked" THEN "reused" ELSE "spend")]
  /\ UNCHANGED <<exists, token, started, link, marker, missed>>

(* Trusts the check made when the row was read. *)
MutSpend(r) ==
  LET t == request[r].token IN
  /\ request[r].pc = "spend"
  /\ token[t].row # "gone"
  /\ token' = [token EXCEPT ![t].row = "revoked"]
  /\ request' = [request EXCEPT ![r] = Issue(token[t].login)]
  /\ UNCHANGED <<exists, started, link, marker, missed>>

(* The compare-and-set: whoever revokes the row may issue its successor. *)
Spend(r) ==
  LET t == request[r].token IN
  /\ request[r].pc = "spend"
  /\ IF token[t].row = "live"
     THEN /\ token' = [token EXCEPT ![t].row = "revoked"]
          /\ request' = [request EXCEPT ![r] = Issue(token[t].login)]
     ELSE /\ request' = [request EXCEPT ![r].pc = "reused"]
          /\ UNCHANGED token
  /\ UNCHANGED <<exists, started, link, marker, missed>>

(* updateMany: every row of the account that is not revoked yet *)
Revoked == [t \in Tokens |->
  IF token[t].row = "live" THEN [token[t] EXCEPT !.row = "revoked"] ELSE token[t]]

RevokeFamily(r) ==
  /\ request[r].pc = "reused"
  /\ token' = Revoked
  /\ Done(r)
  /\ UNCHANGED <<exists, started, link, marker, missed>>

----------------------------------------------------------------------------
(* What ends a session *)

Logout(t) ==
  /\ Presentable(t) /\ token[t].row = "live"
  /\ token' = [token EXCEPT ![t].row = "revoked"]
  /\ UNCHANGED <<exists, request, started, link, marker, missed>>

ForgotPassword ==
  /\ exists /\ ~link
  /\ link' = TRUE
  /\ UNCHANGED <<exists, token, request, started, marker, missed>>

LinkExpires ==
  /\ link
  /\ link' = FALSE
  /\ UNCHANGED <<exists, token, request, started, marker, missed>>

(* resetPassword finds the account by the link, hashes the new password    *)
(* and then commits both writes.                                           *)
ResetPassword(r) ==
  /\ request[r].pc = "idle" /\ link
  /\ request' = [request EXCEPT ![r].pc = "reset"]
  /\ UNCHANGED <<exists, token, started, link, marker, missed>>

CommitReset(r) ==
  /\ request[r].pc = "reset"
  /\ IF exists THEN token' = Revoked /\ link' = FALSE ELSE UNCHANGED <<token, link>>
  /\ Done(r)
  /\ UNCHANGED <<exists, started, marker, missed>>

(* Also the rows that only record a spent token. *)
MutStale(t) == token[t].row \in {"live", "revoked"} /\ (token[t].left = 0 \/ token[t].row = "revoked")

Stale(t) == token[t].row \in {"live", "revoked"} /\ token[t].left = 0

PruneStaleTokens ==
  /\ \E t \in Tokens : Stale(t)
  /\ token' = [t \in Tokens |->
       IF Stale(t) THEN [token[t] EXCEPT !.row = "gone"] ELSE token[t]]
  /\ UNCHANGED <<exists, request, started, link, marker, missed>>

----------------------------------------------------------------------------
(* Deletion, a change of role, and the deny marker *)

(* deleteAccount and AdminService.deleteUser: the rows cascade. *)
DeleteUser(r) ==
  /\ request[r].pc = "idle"
  /\ exists
  /\ exists' = FALSE
  /\ token' = [t \in Tokens |->
       IF token[t].row = "unused" THEN token[t] ELSE [token[t] EXCEPT !.row = "gone"]]
  /\ link' = FALSE
  /\ request' = [request EXCEPT ![r].pc = "deny"]
  /\ UNCHANGED <<started, marker, missed>>

(* AdminService.updateUser with another role than the account had *)
UpdateUser(r) ==
  /\ request[r].pc = "idle"
  /\ exists
  /\ request' = [request EXCEPT ![r].pc = "deny"]
  /\ UNCHANGED <<exists, token, started, link, marker, missed>>

(* The marker lasts one tick less than an access token. *)
MutRevokeUserTokens(r) ==
  /\ request[r].pc = "deny"
  /\ marker' = AccessTTL - 1
  /\ Done(r)
  /\ UNCHANGED <<exists, token, started, link, missed>>

RevokeUserTokens(r) ==
  /\ request[r].pc = "deny"
  /\ marker' = AccessTTL
  /\ Done(r)
  /\ UNCHANGED <<exists, token, started, link, missed>>

(* Redis does not answer: it is logged and the request succeeds. *)
RevokeFails(r) ==
  /\ request[r].pc = "deny"
  /\ missed' = TRUE
  /\ Done(r)
  /\ UNCHANGED <<exists, token, started, link, marker>>

(* JwtAuthGuard with a Redis that answers *)
Accepted(t) == token[t].row # "unused" /\ token[t].age < AccessTTL /\ marker = 0

----------------------------------------------------------------------------
(* The environment *)

(* The process dies, or the database refuses a statement. *)
Abort(r) ==
  /\ request[r].pc # "idle"
  /\ missed' = (missed \/ request[r].pc = "deny")
  /\ Done(r)
  /\ UNCHANGED <<exists, token, started, link, marker>>

Older(n) == IF n < RefreshTTL THEN n + 1 ELSE n
Less(n)  == IF n > 0 THEN n - 1 ELSE 0

Tick ==
  /\ token' = [t \in Tokens |->
       IF token[t].row = "unused" THEN token[t]
       ELSE [token[t] EXCEPT !.age = Older(@), !.left = Less(@)]]
  /\ request' = [r \in Requests |->
       IF request[r].pc = "insert" THEN [request[r] EXCEPT !.age = Older(@)]
       ELSE request[r]]
  /\ marker' = Less(marker)
  /\ UNCHANGED <<exists, started, link, missed>>

RequestStep(r) ==
  \/ Sign(r) \/ Insert(r) \/ Spend(r) \/ RevokeFamily(r)
  \/ CommitReset(r) \/ RevokeUserTokens(r)

Next ==
  \/ \E r \in Requests :
       \/ Login(r) \/ ResetPassword(r) \/ DeleteUser(r) \/ UpdateUser(r)
       \/ RequestStep(r) \/ RevokeFails(r) \/ Abort(r)
       \/ \E t \in Tokens : Refresh(r, t)
  \/ \E t \in Tokens : Logout(t)
  \/ ForgotPassword \/ LinkExpires \/ PruneStaleTokens \/ Tick

Spec == Init /\ [][Next]_vars

----------------------------------------------------------------------------
(* Properties *)

Issuing == {"sign", "insert"}

TokenType ==
  [row: {"unused", "live", "revoked", "gone"}, login: Logins \cup {None},
   age: 0..RefreshTTL, left: 0..RefreshTTL]
RequestType ==
  [pc: Issuing \cup {"idle", "spend", "reused", "reset", "deny"},
   token: Tokens \cup {None}, login: Logins \cup {None}, age: 0..RefreshTTL]

(* Every variable keeps its type: no lifetime is negative or longer than   *)
(* it was given.                                                           *)
TypeOK ==
  /\ exists \in BOOLEAN
  /\ token \in [Tokens -> TokenType]
  /\ request \in [Requests -> RequestType]
  /\ started \subseteq Logins
  /\ link \in BOOLEAN /\ missed \in BOOLEAN
  /\ marker \in 0..AccessTTL

Live(t, l)   == token[t].row = "live" /\ token[t].login = l
Issues(r, l) == request[r].pc \in Issuing /\ request[r].login = l

(* refresh: "Rotation is the compare-and-set itself".  However many        *)
(* requests carry the same token, a session never has two refresh tokens   *)
(* that work, nor one that works beside a request about to issue another.  *)
OneTokenPerSession ==
  \A l \in Logins :
    /\ \A t, u \in Tokens : Live(t, l) /\ Live(u, l) => t = u
    /\ \A r, s \in Requests : Issues(r, l) /\ Issues(s, l) => r = s
    /\ \A t \in Tokens, r \in Requests : ~(Live(t, l) /\ Issues(r, l))

Ended(l) ==
  /\ l \in started
  /\ \A t \in Tokens : ~Live(t, l)
  /\ \A r \in Requests : ~Issues(r, l)

(* A session that a logout, a reset, a detected reuse, expiry or a failed  *)
(* rotation has ended never works again, not through a request that read   *)
(* its token while it was still live either.                               *)
EndedStaysEnded == [][\A l \in Logins : Ended(l) => Ended(l)']_vars

(* pruneStaleTokens: a row "is the record that a token was already spent". *)
(* As long as a refresh token of an existing account verifies, its row is  *)
(* there and not expired, so that presenting it again is noticed.          *)
SpentTokenIsKnown ==
  \A t \in Tokens :
    exists /\ Presentable(t) => token[t].row # "gone" /\ token[t].left > 0

(* ADR 0011: once the deny marker of a deletion is written, no access      *)
(* token of the account is accepted, not one handed out while the account  *)
(* was being deleted either, and the marker never ends before the tokens.  *)
DeletedIsDenied ==
  ~exists /\ ~missed /\ (\A r \in Requests : request[r].pc # "deny")
    => \A t \in Tokens : ~Accepted(t)
=============================================================================
