--------------------------- MODULE SessionsProofs ---------------------------
(***************************************************************************)
(* The properties of Sessions, for every number of requests, tokens and    *)
(* sign-ins and every pair of lifetimes.                                   *)
(***************************************************************************)
EXTENDS Sessions, TLAPS

(* A rotating request names a token; what is live or being issued belongs  *)
(* to a sign-in that took place.                                           *)
Named ==
  /\ \A r \in Requests : request[r].pc = "spend" => request[r].token \in Tokens
  /\ \A r \in Requests : request[r].pc \in Issuing => request[r].login \in started
  /\ \A t \in Tokens : token[t].row = "live" => token[t].login \in started

RowOutlives(t) ==
  /\ token[t].row \in {"live", "revoked"} => token[t].age + token[t].left >= RefreshTTL
  /\ token[t].row = "gone" => token[t].age = RefreshTTL

(* The row of a token never expires before the token. *)
RowOutlivesToken == exists => \A t \in Tokens : RowOutlives(t)

(* After a deletion the marker lasts as long as any access token. *)
MarkerOutlivesToken ==
  ~exists /\ ~missed /\ (\A r \in Requests : request[r].pc # "deny")
    => \A t \in Tokens : token[t].row # "unused" => token[t].age + marker >= AccessTTL

(* The inductive invariant.  OneTokenPerSession needs Named: a new sign-in *)
(* has a name that no live token and no issuing request carries.           *)
SessionsInv ==
  /\ TypeOK
  /\ Named
  /\ OneTokenPerSession
  /\ RowOutlivesToken
  /\ MarkerOutlivesToken

(* Records and functions the actions build have their types. *)
LEMMA IdleType == Idle \in RequestType
  BY SessionsAssumption DEF Idle, RequestType

(* Revoking rows keeps the type of the tokens. *)
LEMMA RevokedType == token \in [Tokens -> TokenType] => Revoked \in [Tokens -> TokenType]
<1> SUFFICES ASSUME token \in [Tokens -> TokenType] PROVE Revoked \in [Tokens -> TokenType]
  OBVIOUS
<1>1. \A t \in Tokens : [token[t] EXCEPT !.row = "revoked"] \in TokenType
  BY DEF TokenType
<1>2. QED
  BY <1>1 DEF Revoked

(* What one compare-and-set of refresh does: it takes the token, or it finds *)
(* that another request has.                                                *)
LEMMA SpendCases ==
  ASSUME TypeOK, Named, NEW r \in Requests, Spend(r)
  PROVE  /\ request[r].token \in Tokens
         /\ \/ /\ token[request[r].token].row = "live"
               /\ token' = [token EXCEPT ![request[r].token] =
                              [token[request[r].token] EXCEPT !.row = "revoked"]]
               /\ request' = [request EXCEPT ![r] = Issue(token[request[r].token].login)]
            \/ /\ request' = [request EXCEPT ![r] = [request[r] EXCEPT !.pc = "reused"]]
               /\ UNCHANGED token
         /\ UNCHANGED <<exists, started, link, marker, missed>>
<1>1. request[r].token \in Tokens
  BY DEF Spend, Named
<1>2. CASE token[request[r].token].row = "live"
  BY <1>1, <1>2 DEF Spend
<1>3. CASE token[request[r].token].row # "live"
  BY <1>1, <1>3 DEF Spend
<1>4. QED
  BY <1>1, <1>2, <1>3

(* The same, token by token and request by request. *)
LEMMA SpendEffect ==
  ASSUME TypeOK, Named, NEW r \in Requests, Spend(r)
  PROVE  /\ \A s \in Requests \ {r} : request'[s] = request[s]
         /\ \/ \E t \in Tokens :
                 /\ token[t].row = "live" /\ token'[t].row = "revoked"
                 /\ token'[t].login = token[t].login
                 /\ token'[t].age = token[t].age /\ token'[t].left = token[t].left
                 /\ \A u \in Tokens \ {t} : token'[u] = token[u]
                 /\ request'[r].pc = "sign" /\ request'[r].login = token[t].login
            \/ token' = token /\ request'[r].pc = "reused"
         /\ UNCHANGED <<exists, started, link, marker, missed>>
<1> DEFINE t == request[r].token
<1>1. CASE /\ t \in Tokens /\ token[t].row = "live"
           /\ token' = [token EXCEPT ![t] = [token[t] EXCEPT !.row = "revoked"]]
           /\ request' = [request EXCEPT ![r] = Issue(token[t].login)]
  <2>1. token'[t] = [token[t] EXCEPT !.row = "revoked"]
    BY <1>1 DEF TypeOK
  <2>2. /\ token'[t].row = "revoked" /\ token'[t].login = token[t].login
        /\ token'[t].age = token[t].age /\ token'[t].left = token[t].left
    BY <1>1, <2>1 DEF TypeOK, TokenType
  <2>3. \A u \in Tokens \ {t} : token'[u] = token[u]
    BY <1>1 DEF TypeOK
  <2>4. /\ request'[r].pc = "sign" /\ request'[r].login = token[t].login
        /\ \A s \in Requests \ {r} : request'[s] = request[s]
    BY <1>1 DEF TypeOK, Issue
  <2> HIDE DEF t
  <2>5. QED
    BY <1>1, <2>2, <2>3, <2>4, SpendCases
<1>2. CASE /\ request' = [request EXCEPT ![r] = [request[r] EXCEPT !.pc = "reused"]]
           /\ UNCHANGED token
  <2>1. request'[r] = [request[r] EXCEPT !.pc = "reused"]
    BY <1>2 DEF TypeOK
  <2>2. request'[r].pc = "reused"
    BY <2>1 DEF TypeOK, RequestType
  <2>3. \A s \in Requests \ {r} : request'[s] = request[s]
    BY <1>2 DEF TypeOK
  <2>4. QED
    BY <1>2, <2>2, <2>3, SpendCases
<1>3. QED
  BY <1>1, <1>2, SpendCases

(* What the insertion of a pair does: a token of the request's sign-in, or *)
(* nothing when the account is gone.                                       *)
LEMMA InsertEffect ==
  ASSUME TypeOK, NEW r \in Requests, Insert(r)
  PROVE  /\ request[r].pc = "insert" /\ request'[r].pc = "idle"
         /\ \A s \in Requests \ {r} : request'[s] = request[s]
         /\ \/ /\ exists
               /\ \E t \in Tokens :
                    /\ token'[t].row = "live" /\ token'[t].login = request[r].login
                    /\ token'[t].left = RefreshTTL /\ token'[t].age = request[r].age
                    /\ \A u \in Tokens \ {t} : token'[u] = token[u]
            \/ ~exists /\ token' = token
         /\ UNCHANGED <<exists, started, link, marker, missed>>
<1>1. /\ request[r].pc = "insert" /\ request'[r].pc = "idle"
      /\ \A s \in Requests \ {r} : request'[s] = request[s]
  BY DEF TypeOK, Insert, Done, Idle
<1>2. CASE exists
  <2>1. PICK t \in Tokens :
          token' = [token EXCEPT ![t] = [row |-> "live", login |-> request[r].login,
                                         age |-> request[r].age, left |-> RefreshTTL]]
    BY <1>2 DEF Insert
  <2>2. /\ token'[t].row = "live" /\ token'[t].login = request[r].login
        /\ token'[t].left = RefreshTTL /\ token'[t].age = request[r].age
        /\ \A u \in Tokens \ {t} : token'[u] = token[u]
    BY <2>1 DEF TypeOK
  <2>3. QED
    BY <1>1, <1>2, <2>2 DEF Insert
<1>3. CASE ~exists
  BY <1>1, <1>3 DEF Insert
<1>4. QED
  BY <1>2, <1>3

(* What a tick does to one token and to one request. *)
LEMMA TickEffect ==
  ASSUME TypeOK, Tick
  PROVE  /\ \A t \in Tokens :
              /\ token'[t].row = token[t].row /\ token'[t].login = token[t].login
              /\ token[t].row # "unused" =>
                   token'[t].age = Older(token[t].age) /\ token'[t].left = Less(token[t].left)
         /\ \A r \in Requests :
              /\ request'[r].pc = request[r].pc /\ request'[r].login = request[r].login
              /\ request'[r].token = request[r].token
         /\ marker' = Less(marker)
         /\ UNCHANGED <<exists, started, link, missed>>
<1>1. ASSUME NEW t \in Tokens
      PROVE  /\ token'[t].row = token[t].row /\ token'[t].login = token[t].login
             /\ token[t].row # "unused" =>
                  token'[t].age = Older(token[t].age) /\ token'[t].left = Less(token[t].left)
  <2> HIDE DEF Older, Less
  <2>1. CASE token[t].row = "unused"
    BY <2>1 DEF Tick
  <2>2. CASE token[t].row # "unused"
    <3>1. token'[t] = [token[t] EXCEPT !.age = Older(@), !.left = Less(@)]
      BY <2>2 DEF Tick
    <3>2. QED
      BY <2>2, <3>1 DEF TypeOK, TokenType
  <2>3. QED
    BY <2>1, <2>2
<1>2. ASSUME NEW r \in Requests
      PROVE  /\ request'[r].pc = request[r].pc /\ request'[r].login = request[r].login
             /\ request'[r].token = request[r].token
  <2>1. request'[r] = request[r] \/ request'[r] = [request[r] EXCEPT !.age = Older(@)]
    BY DEF Tick
  <2>2. QED
    BY <2>1 DEF TypeOK, RequestType
<1>3. QED
  BY <1>1, <1>2 DEF Tick

(* Every action keeps the types. *)
LEMMA TypeStep ==
  TypeOK /\ Named /\ [Next]_vars => TypeOK'
<1> SUFFICES ASSUME TypeOK, Named, [Next]_vars PROVE TypeOK'
  OBVIOUS
<1> USE SessionsAssumption DEF TypeOK
<1>1. ASSUME NEW r \in Requests, Sign(r) PROVE TypeOK'
  <2>1. [request[r] EXCEPT !.pc = "insert"] \in RequestType
    BY DEF RequestType, Issuing
  <2>2. QED
    BY <1>1, <2>1 DEF Sign
<1>2. ASSUME NEW r \in Requests, Insert(r) PROVE TypeOK'
  <2>1. request' \in [Requests -> RequestType]
    BY <1>2, IdleType DEF Insert, Done
  <2>2. token' \in [Tokens -> TokenType]
    <3>1. [row |-> "live", login |-> request[r].login,
           age |-> request[r].age, left |-> RefreshTTL] \in TokenType
      BY DEF TokenType, RequestType
    <3>2. QED
      BY <1>2, <3>1 DEF Insert
  <2>3. QED
    BY <1>2, <2>1, <2>2 DEF Insert
<1>3. ASSUME NEW r \in Requests, Login(r) PROVE TypeOK'
  <2>1. PICK l \in Logins \ started :
          /\ started' = started \cup {l}
          /\ request' = [request EXCEPT ![r] = Issue(l)]
    BY <1>3 DEF Login
  <2>2. Issue(l) \in RequestType
    BY DEF Issue, RequestType, Issuing
  <2>3. QED
    BY <1>3, <2>1, <2>2 DEF Login
<1>4. ASSUME NEW r \in Requests, Spend(r) PROVE TypeOK'
  <2> DEFINE t == request[r].token
  <2>1. CASE t \in Tokens /\ token[t].row = "live"
    <3>1. [token[t] EXCEPT !.row = "revoked"] \in TokenType
      BY <2>1 DEF TokenType
    <3>2. token' = [token EXCEPT ![t] = [token[t] EXCEPT !.row = "revoked"]]
      BY <1>4, <2>1 DEF Spend
    <3>3. Issue(token[t].login) \in RequestType
      BY <2>1 DEF Issue, RequestType, TokenType, Issuing
    <3>4. request' = [request EXCEPT ![r] = Issue(token[t].login)]
      BY <1>4, <2>1 DEF Spend
    <3>5. QED
      BY <1>4, <2>1, <3>1, <3>2, <3>3, <3>4 DEF Spend
  <2>2. CASE token[t].row # "live"
    <3>1. [request[r] EXCEPT !.pc = "reused"] \in RequestType
      BY DEF RequestType
    <3>2. request' = [request EXCEPT ![r] = [request[r] EXCEPT !.pc = "reused"]]
      BY <1>4, <2>2 DEF Spend
    <3>3. QED
      BY <1>4, <2>2, <3>1, <3>2 DEF Spend
  <2>3. QED
    BY <1>4, <2>1, <2>2 DEF Spend, Named
<1>5. ASSUME NEW r \in Requests, RevokeFamily(r) PROVE TypeOK'
  BY <1>5, IdleType, RevokedType DEF RevokeFamily, Done
<1>6. ASSUME NEW r \in Requests, ResetPassword(r) PROVE TypeOK'
  <2>1. [request[r] EXCEPT !.pc = "reset"] \in RequestType
    BY DEF RequestType
  <2>2. QED
    BY <1>6, <2>1 DEF ResetPassword
<1>7. ASSUME NEW r \in Requests, CommitReset(r) PROVE TypeOK'
  <2>1. request' \in [Requests -> RequestType]
    BY <1>7, IdleType DEF CommitReset, Done
  <2>2. token' \in [Tokens -> TokenType]
    BY <1>7, RevokedType DEF CommitReset
  <2>3. QED
    BY <1>7, <2>1, <2>2 DEF CommitReset
<1>8. ASSUME NEW r \in Requests, DeleteUser(r) PROVE TypeOK'
  <2>1. [request[r] EXCEPT !.pc = "deny"] \in RequestType
    BY DEF RequestType
  <2>2. \A t \in Tokens : [token[t] EXCEPT !.row = "gone"] \in TokenType
    BY DEF TokenType
  <2>3. QED
    BY <1>8, <2>1, <2>2 DEF DeleteUser
<1>9. ASSUME NEW r \in Requests, UpdateUser(r) PROVE TypeOK'
  <2>1. [request[r] EXCEPT !.pc = "deny"] \in RequestType
    BY DEF RequestType
  <2>2. QED
    BY <1>9, <2>1 DEF UpdateUser
<1>10. ASSUME NEW r \in Requests, RevokeUserTokens(r) PROVE TypeOK'
  BY <1>10, IdleType DEF RevokeUserTokens, Done
<1>11. ASSUME NEW r \in Requests, RevokeFails(r) PROVE TypeOK'
  BY <1>11, IdleType DEF RevokeFails, Done
<1>12. ASSUME NEW r \in Requests, Abort(r) PROVE TypeOK'
  BY <1>12, IdleType DEF Abort, Done
<1>13. ASSUME NEW r \in Requests, NEW t \in Tokens, Refresh(r, t) PROVE TypeOK'
  <2>1. Rotate(t, "reused") \in RequestType /\ Rotate(t, "spend") \in RequestType
    BY DEF Rotate, RequestType
  <2>2. QED
    BY <1>13, <2>1 DEF Refresh
<1>14. ASSUME NEW t \in Tokens, Logout(t) PROVE TypeOK'
  <2>1. [token[t] EXCEPT !.row = "revoked"] \in TokenType
    BY DEF TokenType
  <2>2. QED
    BY <1>14, <2>1 DEF Logout
<1>15. CASE ForgotPassword
  BY <1>15 DEF ForgotPassword
<1>16. CASE LinkExpires
  BY <1>16 DEF LinkExpires
<1>17. CASE PruneStaleTokens
  <2>1. \A t \in Tokens : [token[t] EXCEPT !.row = "gone"] \in TokenType
    BY DEF TokenType
  <2>2. QED
    BY <1>17, <2>1 DEF PruneStaleTokens
<1>18. CASE Tick
  <2>1. \A n \in 0..RefreshTTL : Older(n) \in 0..RefreshTTL /\ Less(n) \in 0..RefreshTTL
    BY DEF Older, Less
  <2>2. \A t \in Tokens :
          [token[t] EXCEPT !.age = Older(@), !.left = Less(@)] \in TokenType
    BY <2>1 DEF TokenType
  <2>3. \A r \in Requests : [request[r] EXCEPT !.age = Older(@)] \in RequestType
    BY <2>1 DEF RequestType
  <2>4. Less(marker) \in 0..AccessTTL
    BY DEF Less
  <2>5. QED
    BY <1>18, <2>2, <2>3, <2>4 DEF Tick
<1>19. CASE UNCHANGED vars
  BY <1>19 DEF vars
<1>20. QED
    BY <1>1, <1>2, <1>3, <1>4, <1>5, <1>6, <1>7, <1>8, <1>9, <1>10, <1>11, <1>12,
     <1>13, <1>14, <1>15, <1>16, <1>17, <1>18, <1>19 DEF Next, RequestStep

(* Every action keeps the names of tokens and sign-ins. *)
LEMMA NamedStep ==
  TypeOK /\ Named /\ [Next]_vars => Named'
<1> SUFFICES ASSUME TypeOK, Named, [Next]_vars PROVE Named'
  OBVIOUS
<1> USE SessionsAssumption DEF TypeOK, TokenType, RequestType, Named, Issuing
<1>1. ASSUME NEW r \in Requests, Sign(r) PROVE Named'
  BY <1>1 DEF Sign
<1>2. ASSUME NEW r \in Requests, Insert(r) PROVE Named'
  BY <1>2, InsertEffect
<1>3. ASSUME NEW r \in Requests, Login(r) PROVE Named'
  BY <1>3 DEF Login, Issue
<1>4. ASSUME NEW r \in Requests, Spend(r) PROVE Named'
  BY <1>4, SpendEffect
<1>5. ASSUME NEW r \in Requests, RevokeFamily(r) PROVE Named'
  BY <1>5 DEF RevokeFamily, Revoked, Done, Idle
<1>6. ASSUME NEW r \in Requests, ResetPassword(r) PROVE Named'
  BY <1>6 DEF ResetPassword
<1>7. ASSUME NEW r \in Requests, CommitReset(r) PROVE Named'
  BY <1>7 DEF CommitReset, Revoked, Done, Idle
<1>8. ASSUME NEW r \in Requests, DeleteUser(r) PROVE Named'
  BY <1>8 DEF DeleteUser
<1>9. ASSUME NEW r \in Requests, UpdateUser(r) PROVE Named'
  BY <1>9 DEF UpdateUser
<1>10. ASSUME NEW r \in Requests, RevokeUserTokens(r) PROVE Named'
  BY <1>10 DEF RevokeUserTokens, Done, Idle
<1>11. ASSUME NEW r \in Requests, RevokeFails(r) PROVE Named'
  BY <1>11 DEF RevokeFails, Done, Idle
<1>12. ASSUME NEW r \in Requests, Abort(r) PROVE Named'
  BY <1>12 DEF Abort, Done, Idle
<1>13. ASSUME NEW r \in Requests, NEW t \in Tokens, Refresh(r, t) PROVE Named'
  BY <1>13 DEF Refresh, Rotate
<1>14. ASSUME NEW t \in Tokens, Logout(t) PROVE Named'
  BY <1>14 DEF Logout, Presentable
<1>15. CASE ForgotPassword
  BY <1>15 DEF ForgotPassword
<1>16. CASE LinkExpires
  BY <1>16 DEF LinkExpires
<1>17. CASE PruneStaleTokens
  BY <1>17 DEF PruneStaleTokens, Stale
<1>18. CASE Tick
  BY <1>18, TickEffect DEF Older, Less
<1>19. CASE UNCHANGED vars
  BY <1>19 DEF vars
<1>20. QED
    BY <1>1, <1>2, <1>3, <1>4, <1>5, <1>6, <1>7, <1>8, <1>9, <1>10, <1>11, <1>12,
     <1>13, <1>14, <1>15, <1>16, <1>17, <1>18, <1>19 DEF Next, RequestStep

(* No action gives a session a second token: only Spend starts to issue one,
   and it takes the live one first. *)
LEMMA OneTokenStep ==
  TypeOK /\ Named /\ OneTokenPerSession /\ [Next]_vars => OneTokenPerSession'
<1> SUFFICES ASSUME TypeOK, Named, OneTokenPerSession, [Next]_vars PROVE OneTokenPerSession'
  OBVIOUS
<1> USE SessionsAssumption
    DEF TypeOK, TokenType, RequestType, Named, OneTokenPerSession, Live, Issues, Issuing
<1>1. ASSUME NEW r \in Requests, Sign(r) PROVE OneTokenPerSession'
  BY <1>1 DEF Sign
<1>2. ASSUME NEW r \in Requests, Insert(r) PROVE OneTokenPerSession'
  <2>1. ASSUME NEW s \in Requests, NEW l \in Logins, Issues(s, l)'
        PROVE  s # r /\ Issues(s, l)
    BY <1>2, <2>1, InsertEffect
  <2>2. CASE token' = token
    BY <2>1, <2>2
  <2>3. ASSUME NEW t \in Tokens, token'[t].login = request[r].login,
               \A u \in Tokens \ {t} : token'[u] = token[u]
        PROVE  OneTokenPerSession'
    <3>1. Issues(r, request[r].login)
      BY <1>2, InsertEffect
    <3>2. ASSUME NEW u \in Tokens, NEW l \in Logins, Live(u, l)'
          PROVE  (u = t /\ l = request[r].login) \/ (u # t /\ Live(u, l))
      <4>1. CASE u = t
        BY <2>3, <3>2, <4>1
      <4>2. CASE u # t
        <5>1. token'[u] = token[u]
          BY <2>3, <4>2
        <5>2. QED
          BY <3>2, <4>2, <5>1
      <4>3. QED
        BY <4>1, <4>2
    <3> HIDE DEF Live, Issues
    <3>3. QED
      BY <2>1, <3>1, <3>2
  <2>4. QED
    BY <1>2, <2>2, <2>3, InsertEffect
<1>3. ASSUME NEW r \in Requests, Login(r) PROVE OneTokenPerSession'
  BY <1>3 DEF Login, Issue
<1>4. ASSUME NEW r \in Requests, Spend(r) PROVE OneTokenPerSession'
  BY <1>4, SpendEffect
<1>5. ASSUME NEW r \in Requests, RevokeFamily(r) PROVE OneTokenPerSession'
  BY <1>5 DEF RevokeFamily, Revoked, Done, Idle
<1>6. ASSUME NEW r \in Requests, ResetPassword(r) PROVE OneTokenPerSession'
  BY <1>6 DEF ResetPassword
<1>7. ASSUME NEW r \in Requests, CommitReset(r) PROVE OneTokenPerSession'
  BY <1>7 DEF CommitReset, Revoked, Done, Idle
<1>8. ASSUME NEW r \in Requests, DeleteUser(r) PROVE OneTokenPerSession'
  BY <1>8 DEF DeleteUser
<1>9. ASSUME NEW r \in Requests, UpdateUser(r) PROVE OneTokenPerSession'
  BY <1>9 DEF UpdateUser
<1>10. ASSUME NEW r \in Requests, RevokeUserTokens(r) PROVE OneTokenPerSession'
  BY <1>10 DEF RevokeUserTokens, Done, Idle
<1>11. ASSUME NEW r \in Requests, RevokeFails(r) PROVE OneTokenPerSession'
  BY <1>11 DEF RevokeFails, Done, Idle
<1>12. ASSUME NEW r \in Requests, Abort(r) PROVE OneTokenPerSession'
  BY <1>12 DEF Abort, Done, Idle
<1>13. ASSUME NEW r \in Requests, NEW t \in Tokens, Refresh(r, t) PROVE OneTokenPerSession'
  BY <1>13 DEF Refresh, Rotate
<1>14. ASSUME NEW t \in Tokens, Logout(t) PROVE OneTokenPerSession'
  BY <1>14 DEF Logout, Presentable
<1>15. CASE ForgotPassword
  BY <1>15 DEF ForgotPassword
<1>16. CASE LinkExpires
  BY <1>16 DEF LinkExpires
<1>17. CASE PruneStaleTokens
  BY <1>17 DEF PruneStaleTokens, Stale
<1>18. CASE Tick
  BY <1>18, TickEffect DEF Older, Less
<1>19. CASE UNCHANGED vars
  BY <1>19 DEF vars
<1>20. QED
    BY <1>1, <1>2, <1>3, <1>4, <1>5, <1>6, <1>7, <1>8, <1>9, <1>10, <1>11, <1>12,
     <1>13, <1>14, <1>15, <1>16, <1>17, <1>18, <1>19 DEF Next, RequestStep

(* No action lets a row expire, or prunes it, before its token. *)
LEMMA RowStep ==
  TypeOK /\ Named /\ RowOutlivesToken /\ [Next]_vars => RowOutlivesToken'
<1> SUFFICES ASSUME TypeOK, Named, RowOutlivesToken, [Next]_vars PROVE RowOutlivesToken'
  OBVIOUS
<1> USE SessionsAssumption DEF TypeOK, TokenType, RowOutlivesToken, RowOutlives
<1>1. ASSUME NEW r \in Requests, Sign(r) PROVE RowOutlivesToken'
  BY <1>1 DEF Sign, Issuing
<1>2. ASSUME NEW r \in Requests, Insert(r) PROVE RowOutlivesToken'
  <2> SUFFICES ASSUME NEW u \in Tokens, exists PROVE RowOutlives(u)'
    BY <1>2, InsertEffect
  <2>1. CASE token'[u] = token[u]
    BY <1>2, <2>1, InsertEffect
  <2>2. CASE /\ token'[u].row = "live" /\ token'[u].left = RefreshTTL
             /\ token'[u].age = request[r].age
    <3>1. request[r].age \in 0..RefreshTTL
      BY DEF RequestType
    <3>2. QED
      BY <2>2, <3>1
  <2>3. QED
    BY <1>2, <2>1, <2>2, InsertEffect
<1>3. ASSUME NEW r \in Requests, Login(r) PROVE RowOutlivesToken'
  BY <1>3 DEF Login, Issue
<1>4. ASSUME NEW r \in Requests, Spend(r) PROVE RowOutlivesToken'
  <2> SUFFICES ASSUME NEW u \in Tokens, exists PROVE RowOutlives(u)'
    BY <1>4, SpendEffect
  <2>1. CASE token'[u] = token[u]
    BY <1>4, <2>1, SpendEffect
  <2>2. CASE /\ token[u].row = "live" /\ token'[u].row = "revoked"
             /\ token'[u].age = token[u].age /\ token'[u].left = token[u].left
    BY <2>2
  <2>3. QED
    BY <1>4, <2>1, <2>2, SpendEffect
<1>5. ASSUME NEW r \in Requests, RevokeFamily(r) PROVE RowOutlivesToken'
  BY <1>5 DEF RevokeFamily, Revoked, Done, Idle
<1>6. ASSUME NEW r \in Requests, ResetPassword(r) PROVE RowOutlivesToken'
  BY <1>6 DEF ResetPassword
<1>7. ASSUME NEW r \in Requests, CommitReset(r) PROVE RowOutlivesToken'
  BY <1>7 DEF CommitReset, Revoked, Done, Idle
<1>8. ASSUME NEW r \in Requests, DeleteUser(r) PROVE RowOutlivesToken'
  BY <1>8 DEF DeleteUser
<1>9. ASSUME NEW r \in Requests, UpdateUser(r) PROVE RowOutlivesToken'
  BY <1>9 DEF UpdateUser
<1>10. ASSUME NEW r \in Requests, RevokeUserTokens(r) PROVE RowOutlivesToken'
  BY <1>10 DEF RevokeUserTokens, Done, Idle
<1>11. ASSUME NEW r \in Requests, RevokeFails(r) PROVE RowOutlivesToken'
  BY <1>11 DEF RevokeFails, Done, Idle
<1>12. ASSUME NEW r \in Requests, Abort(r) PROVE RowOutlivesToken'
  BY <1>12 DEF Abort, Done, Idle
<1>13. ASSUME NEW r \in Requests, NEW t \in Tokens, Refresh(r, t) PROVE RowOutlivesToken'
  BY <1>13 DEF Refresh, Rotate
<1>14. ASSUME NEW t \in Tokens, Logout(t) PROVE RowOutlivesToken'
  BY <1>14 DEF Logout, Presentable
<1>15. CASE ForgotPassword
  BY <1>15 DEF ForgotPassword
<1>16. CASE LinkExpires
  BY <1>16 DEF LinkExpires
<1>17. CASE PruneStaleTokens
  BY <1>17 DEF PruneStaleTokens, Stale
<1>18. CASE Tick
  <2> SUFFICES ASSUME NEW u \in Tokens, exists PROVE RowOutlives(u)'
    BY <1>18, TickEffect
  <2>1. token[u].age \in 0..RefreshTTL /\ token[u].left \in 0..RefreshTTL
    OBVIOUS
  <2>2. CASE token[u].row = "unused"
    BY <1>18, <2>2, TickEffect
  <2>3. CASE token[u].row # "unused"
    <3>1. /\ token'[u].row = token[u].row
          /\ token'[u].age = Older(token[u].age) /\ token'[u].left = Less(token[u].left)
      BY <1>18, <2>3, TickEffect
    <3>2. RowOutlives(u)
      OBVIOUS
    <3>3. QED
      BY <2>1, <3>1, <3>2 DEF Older, Less
  <2>4. QED
    BY <2>2, <2>3
<1>19. CASE UNCHANGED vars
  BY <1>19 DEF vars
<1>20. QED
    BY <1>1, <1>2, <1>3, <1>4, <1>5, <1>6, <1>7, <1>8, <1>9, <1>10, <1>11, <1>12,
     <1>13, <1>14, <1>15, <1>16, <1>17, <1>18, <1>19 DEF Next, RequestStep

(* No action shortens the marker of a deleted account, or issues a token. *)
LEMMA MarkerStep ==
  TypeOK /\ Named /\ MarkerOutlivesToken /\ [Next]_vars => MarkerOutlivesToken'
<1> SUFFICES ASSUME TypeOK, Named, MarkerOutlivesToken, [Next]_vars PROVE MarkerOutlivesToken'
  OBVIOUS
<1> USE SessionsAssumption DEF TypeOK, TokenType, RequestType, MarkerOutlivesToken
<1>1. ASSUME NEW r \in Requests, Sign(r) PROVE MarkerOutlivesToken'
  BY <1>1 DEF Sign, Issuing
<1>2. ASSUME NEW r \in Requests, Insert(r) PROVE MarkerOutlivesToken'
  BY <1>2, InsertEffect
<1>3. ASSUME NEW r \in Requests, Login(r) PROVE MarkerOutlivesToken'
  BY <1>3 DEF Login, Issue
<1>4. ASSUME NEW r \in Requests, Spend(r) PROVE MarkerOutlivesToken'
  <2>1. ASSUME NEW u \in Tokens
        PROVE  /\ token'[u].row = "unused" <=> token[u].row = "unused"
               /\ token'[u].age = token[u].age
    BY <1>4, SpendEffect
  <2>2. \A s \in Requests : request'[s].pc # "deny" <=> request[s].pc # "deny"
    <3>1. request[r].pc = "spend" /\ request'[r].pc # "deny"
      BY <1>4, SpendEffect DEF Spend
    <3>2. QED
      BY <1>4, <3>1, SpendEffect
  <2>3. exists' = exists /\ missed' = missed /\ marker' = marker
    BY <1>4, SpendEffect
  <2> HIDE DEF TypeOK, TokenType, RequestType
  <2>4. QED
    BY <2>1, <2>2, <2>3
<1>5. ASSUME NEW r \in Requests, RevokeFamily(r) PROVE MarkerOutlivesToken'
  BY <1>5 DEF RevokeFamily, Revoked, Done, Idle
<1>6. ASSUME NEW r \in Requests, ResetPassword(r) PROVE MarkerOutlivesToken'
  BY <1>6 DEF ResetPassword
<1>7. ASSUME NEW r \in Requests, CommitReset(r) PROVE MarkerOutlivesToken'
  BY <1>7 DEF CommitReset, Revoked, Done, Idle
<1>8. ASSUME NEW r \in Requests, DeleteUser(r) PROVE MarkerOutlivesToken'
  BY <1>8 DEF DeleteUser
<1>9. ASSUME NEW r \in Requests, UpdateUser(r) PROVE MarkerOutlivesToken'
  BY <1>9 DEF UpdateUser
<1>10. ASSUME NEW r \in Requests, RevokeUserTokens(r) PROVE MarkerOutlivesToken'
  BY <1>10 DEF RevokeUserTokens, Done, Idle
<1>11. ASSUME NEW r \in Requests, RevokeFails(r) PROVE MarkerOutlivesToken'
  BY <1>11 DEF RevokeFails, Done, Idle
<1>12. ASSUME NEW r \in Requests, Abort(r) PROVE MarkerOutlivesToken'
  BY <1>12 DEF Abort, Done, Idle
<1>13. ASSUME NEW r \in Requests, NEW t \in Tokens, Refresh(r, t) PROVE MarkerOutlivesToken'
  BY <1>13 DEF Refresh, Rotate
<1>14. ASSUME NEW t \in Tokens, Logout(t) PROVE MarkerOutlivesToken'
  BY <1>14 DEF Logout, Presentable
<1>15. CASE ForgotPassword
  BY <1>15 DEF ForgotPassword
<1>16. CASE LinkExpires
  BY <1>16 DEF LinkExpires
<1>17. CASE PruneStaleTokens
  BY <1>17 DEF PruneStaleTokens, Stale
<1>18. CASE Tick
  BY <1>18, TickEffect DEF Older, Less
<1>19. CASE UNCHANGED vars
  BY <1>19 DEF vars
<1>20. QED
    BY <1>1, <1>2, <1>3, <1>4, <1>5, <1>6, <1>7, <1>8, <1>9, <1>10, <1>11, <1>12,
     <1>13, <1>14, <1>15, <1>16, <1>17, <1>18, <1>19 DEF Next, RequestStep

(* The initial states satisfy the inductive invariant. *)
LEMMA InitInv == Init => SessionsInv
<1> SUFFICES ASSUME Init PROVE SessionsInv
  OBVIOUS
<1>1. TypeOK
  <2>1. Unused \in TokenType
    BY SessionsAssumption DEF Unused, TokenType
  <2>2. token \in [Tokens -> TokenType] /\ request \in [Requests -> RequestType]
    BY <2>1, IdleType DEF Init
  <2>3. marker \in 0..AccessTTL
    BY SessionsAssumption DEF Init
  <2>4. QED
    BY <2>2, <2>3, Zenon DEF Init, TypeOK
<1>2. Named
  BY DEF Init, Named, Issuing, Idle, Unused
<1>3. OneTokenPerSession
  BY DEF Init, OneTokenPerSession, Live, Issues, Issuing, Idle, Unused
<1>4. RowOutlivesToken
  BY DEF Init, RowOutlivesToken, RowOutlives, Unused
<1>5. MarkerOutlivesToken
  BY DEF Init, MarkerOutlivesToken
<1>6. QED
  BY <1>1, <1>2, <1>3, <1>4, <1>5 DEF SessionsInv

(* Every behaviour of Sessions satisfies the inductive invariant. *)
THEOREM Invariant == Spec => []SessionsInv
<1>1. SessionsInv /\ [Next]_vars => SessionsInv'
  BY TypeStep, NamedStep, OneTokenStep, RowStep, MarkerStep DEF SessionsInv
<1>2. QED
  BY InitInv, <1>1, PTL DEF Spec

(* Every variable of the session model keeps its type. *)
THEOREM TypeCorrect == Spec => []TypeOK
  BY Invariant, PTL DEF SessionsInv

(* refresh: however many requests carry the same token, a session never    *)
(* has two working refresh tokens.                                         *)
THEOREM RotationIsExclusive == Spec => []OneTokenPerSession
  BY Invariant, PTL DEF SessionsInv

(* pruneStaleTokens and the expiry check of refresh: a token that still    *)
(* verifies has its row, so a second use of it is noticed.                 *)
THEOREM ReuseIsNoticed == Spec => []SpentTokenIsKnown
<1>1. SessionsInv => SpentTokenIsKnown
  BY SessionsAssumption
  DEF SessionsInv, TypeOK, TokenType, RowOutlivesToken, RowOutlives, SpentTokenIsKnown,
      Presentable
<1>2. QED
  BY Invariant, <1>1, PTL

(* revokeUserTokens: an account whose deletion wrote its marker has no     *)
(* access token that JwtAuthGuard accepts.                                 *)
THEOREM DeletionIsFinal == Spec => []DeletedIsDenied
<1>1. SessionsInv => DeletedIsDenied
  BY SessionsAssumption
  DEF SessionsInv, TypeOK, TokenType, RequestType, MarkerOutlivesToken, DeletedIsDenied, Accepted
<1>2. QED
  BY Invariant, <1>1, PTL

(* refresh, logout, resetPassword: no step gives an ended session a token  *)
(* or a request that issues one.                                           *)
LEMMA EndedStep ==
  TypeOK /\ Named /\ [Next]_vars => \A l \in Logins : Ended(l) => Ended(l)'
<1> SUFFICES ASSUME TypeOK, Named, [Next]_vars, NEW l \in Logins, Ended(l)
             PROVE  Ended(l)'
  OBVIOUS
<1> USE SessionsAssumption
    DEF TypeOK, TokenType, RequestType, Named, Ended, Live, Issues, Issuing
<1>1. ASSUME NEW r \in Requests, Sign(r) PROVE Ended(l)'
  BY <1>1 DEF Sign
<1>2. ASSUME NEW r \in Requests, Insert(r) PROVE Ended(l)'
  BY <1>2, InsertEffect
<1>3. ASSUME NEW r \in Requests, Login(r) PROVE Ended(l)'
  BY <1>3 DEF Login, Issue
<1>4. ASSUME NEW r \in Requests, Spend(r) PROVE Ended(l)'
  BY <1>4, SpendEffect
<1>5. ASSUME NEW r \in Requests, RevokeFamily(r) PROVE Ended(l)'
  BY <1>5 DEF RevokeFamily, Revoked, Done, Idle
<1>6. ASSUME NEW r \in Requests, ResetPassword(r) PROVE Ended(l)'
  BY <1>6 DEF ResetPassword
<1>7. ASSUME NEW r \in Requests, CommitReset(r) PROVE Ended(l)'
  BY <1>7 DEF CommitReset, Revoked, Done, Idle
<1>8. ASSUME NEW r \in Requests, DeleteUser(r) PROVE Ended(l)'
  BY <1>8 DEF DeleteUser
<1>9. ASSUME NEW r \in Requests, UpdateUser(r) PROVE Ended(l)'
  BY <1>9 DEF UpdateUser
<1>10. ASSUME NEW r \in Requests, RevokeUserTokens(r) PROVE Ended(l)'
  BY <1>10 DEF RevokeUserTokens, Done, Idle
<1>11. ASSUME NEW r \in Requests, RevokeFails(r) PROVE Ended(l)'
  BY <1>11 DEF RevokeFails, Done, Idle
<1>12. ASSUME NEW r \in Requests, Abort(r) PROVE Ended(l)'
  BY <1>12 DEF Abort, Done, Idle
<1>13. ASSUME NEW r \in Requests, NEW t \in Tokens, Refresh(r, t) PROVE Ended(l)'
  BY <1>13 DEF Refresh, Rotate
<1>14. ASSUME NEW t \in Tokens, Logout(t) PROVE Ended(l)'
  BY <1>14 DEF Logout, Presentable
<1>15. CASE ForgotPassword
  BY <1>15 DEF ForgotPassword
<1>16. CASE LinkExpires
  BY <1>16 DEF LinkExpires
<1>17. CASE PruneStaleTokens
  BY <1>17 DEF PruneStaleTokens, Stale
<1>18. CASE Tick
  BY <1>18, TickEffect DEF Older, Less
<1>19. CASE UNCHANGED vars
  BY <1>19 DEF vars
<1>20. QED
    BY <1>1, <1>2, <1>3, <1>4, <1>5, <1>6, <1>7, <1>8, <1>9, <1>10, <1>11, <1>12,
     <1>13, <1>14, <1>15, <1>16, <1>17, <1>18, <1>19 DEF Next, RequestStep

(* refresh, logout, resetPassword: a session that has ended never works    *)
(* again.                                                                  *)
THEOREM EndIsFinal == Spec => EndedStaysEnded
<1>1. SessionsInv /\ [Next]_vars => [\A l \in Logins : Ended(l) => Ended(l)']_vars
  BY EndedStep DEF SessionsInv
<1>2. QED
  BY Invariant, <1>1, PTL DEF Spec, EndedStaysEnded
=============================================================================
