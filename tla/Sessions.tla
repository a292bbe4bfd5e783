------------------------------ MODULE Sessions ------------------------------
(***************************************************************************)
(* Accounts and sessions: internal/module/auth over the tables users and   *)
(* refresh_tokens, behind the login limiter.  Requests run concurrently,   *)
(* each in a handler goroutine; one action is one query or one script, and *)
(* everything between two of them interleaves.  A login starts a session;  *)
(* every refresh replaces its refresh token by an heir.  Time is relative: *)
(* tokens have what is left of their lifetime, and Tick moves them.        *)
(*                                                                         *)
(* Bounds: MaxLogins sessions, MaxTokens refresh tokens.                   *)
(***************************************************************************)
EXTENDS RateLimiter, FiniteSets

CONSTANTS
  Handlers,   \* requests in progress at a time
  Clients,    \* browsers, each with one cookie jar and one address
  Addresses,  \* e-mail addresses as normalizeEmail leaves them
  RefreshTTL, AccessTTL, MaxLogins, MaxTokens

ASSUME SessionsAssumption ==
  /\ RateKeys = Clients
  /\ RefreshTTL \in Nat \ {0} /\ AccessTTL \in Nat \ {0}
  /\ MaxLogins \in Nat /\ MaxTokens \in Nat

VARIABLES
  users,    \* the addresses stored in table users
  tokens,   \* refresh tokens issued so far
  loginOf,  \* refresh token -> its session
  left,     \* refresh token -> what is left until expires_at
  live,     \* refresh token -> revoked_at is NULL
  logins,   \* sessions started so far
  access,   \* session -> what is left of its latest access token
  ended,    \* session -> a logout of it succeeded
  since,    \* session -> ticks since that logout
  cookie,   \* client -> the refresh token it keeps, 0 for none
  pc,       \* handler -> its next query
  client,   \* handler -> the client it serves
  email,    \* handler -> {address it registers} or {}
  token,    \* handler -> refresh token it was given or issued, 0 for none
  session,  \* handler -> session it issues tokens for, 0 for a new one
  spent     \* handler -> ticks since Refresh read the clock

tvars == <<tokens, loginOf, left, live>>
svars == <<logins, access, ended, since>>
local == <<email, token, session, spent>>
vars == <<lvars, users, tvars, svars, cookie, pc, client, local>>

Tokens == 1..MaxTokens
Sessions == 1..MaxLogins

Steps == {"idle", "insertUser", "authenticate", "revoke", "issue",
          "signed in", "logged out"}

Init ==
  /\ LimiterInit
  /\ users = {}
  /\ tokens = 0
  /\ loginOf = [i \in Tokens |-> 0]
  /\ left = [i \in Tokens |-> 0]
  /\ live = [i \in Tokens |-> FALSE]
  /\ logins = 0
  /\ access = [l \in Sessions |-> 0]
  /\ ended = [l \in Sessions |-> FALSE]
  /\ since = [l \in Sessions |-> 0]
  /\ cookie = [c \in Clients |-> 0]
  /\ pc = [h \in Handlers |-> "idle"]
  /\ client \in [Handlers -> Clients]
  /\ email = [h \in Handlers |-> {}]
  /\ token = [h \in Handlers |-> 0]
  /\ session = [h \in Handlers |-> 0]
  /\ spent = [h \in Handlers |-> 0]

-----------------------------------------------------------------------------

Goto(h, step) == pc' = [pc EXCEPT ![h] = step]

\* The handler answers something that leaves the cookie alone: handleAuthError,
\* a bad request, the limiter's 429, or a success without a cookie.
Respond(h) == Goto(h, "idle")

\* A request of client c arrives at a free handler.
Serves(h, c) == pc[h] = "idle" /\ client' = [client EXCEPT ![h] = c]

\* Register looks the address up.  It may be malformed or taken, the password
\* weak, the query may fail.
FindByEmail(h, c) ==
  /\ Serves(h, c)
  /\ \/ /\ \E address \in Addresses \ users :
             email' = [email EXCEPT ![h] = {address}]
        /\ Goto(h, "insertUser")
     \/ Respond(h) /\ UNCHANGED email
  /\ UNCHANGED <<lvars, users, tvars, svars, cookie, token, session, spent>>

\* The unique index stores an address once; the insert may fail.
InsertUser(h) ==
  /\ pc[h] = "insertUser"
  /\ email' = [email EXCEPT ![h] = {}]
  /\ \/ users' = users \cup email[h]
     \/ UNCHANGED users
  /\ Respond(h)
  /\ UNCHANGED <<lvars, tvars, svars, cookie, client, token, session, spent>>

-----------------------------------------------------------------------------
(* Login.                                                                  *)

\* The middleware: a request the limiter cannot count is refused.
Throttle(h, c) ==
  /\ Serves(h, c)
  /\ \/ Count(c) /\ Admits(c) /\ Goto(h, "authenticate")
     \/ Count(c) /\ ~Admits(c) /\ Respond(h)
     \/ UNCHANGED lvars /\ Respond(h)
  /\ UNCHANGED <<users, tvars, svars, cookie, local>>

\* The user is found and the password verified, or not.
Authenticate(h) ==
  /\ pc[h] = "authenticate"
  /\ \/ /\ users # {}
        /\ session' = [session EXCEPT ![h] = 0]
        /\ Goto(h, "issue")
     \/ Respond(h) /\ UNCHANGED session
  /\ UNCHANGED <<lvars, users, tvars, svars, cookie, client, email, token, spent>>

\* The refresh token's row is inserted; its lifetime counts from the clock
\* Refresh read.  The access token is signed just before.
NewToken(l, lifetime) ==
  /\ tokens < MaxTokens
  /\ tokens' = tokens + 1
  /\ loginOf' = [loginOf EXCEPT ![tokens + 1] = l]
  /\ left' = [left EXCEPT ![tokens + 1] = lifetime]
  /\ live' = [live EXCEPT ![tokens + 1] = TRUE]
  /\ access' = [access EXCEPT ![l] = AccessTTL]

\* A failed insert may have taken place, and nobody knows its token.
Issue(h) ==
  /\ pc[h] = "issue"
  /\ \/ /\ \/ /\ session[h] = 0
              /\ logins < MaxLogins
              /\ logins' = logins + 1
              /\ NewToken(logins + 1, RefreshTTL)
           \/ /\ session[h] # 0
              /\ NewToken(session[h], RefreshTTL - spent[h])
              /\ UNCHANGED logins
        /\ \/ token' = [token EXCEPT ![h] = tokens + 1] /\ Goto(h, "signed in")
           \/ token' = [token EXCEPT ![h] = 0] /\ Respond(h)
     \/ /\ token' = [token EXCEPT ![h] = 0]
        /\ Respond(h)
        /\ UNCHANGED <<tvars, logins, access>>
  /\ session' = [session EXCEPT ![h] = 0]
  /\ spent' = [spent EXCEPT ![h] = 0]
  /\ UNCHANGED <<lvars, users, ended, since, cookie, client, email>>

-----------------------------------------------------------------------------
(* Refresh and Logout.                                                     *)

\* refreshTokenFromRequest: from the body or from the cookie, what the client keeps.
TokenOf(c) == cookie[c]

Valid(i) == i # 0 /\ live[i] /\ left[i] > 0

\* Users are never deleted, so that FindByID finds the token's user.
FindValidByHash(h, c) ==
  /\ Serves(h, c)
  /\ \/ /\ Valid(TokenOf(c))
        /\ token' = [token EXCEPT ![h] = TokenOf(c)]
        /\ Goto(h, "revoke")
     \/ Respond(h) /\ UNCHANGED token
  /\ UNCHANGED <<lvars, users, tvars, svars, cookie, email, session, spent>>

\* Mutant: the update does not ask for revoked_at IS NULL.
RevocableAgain(i) == loginOf[i] # 0

\* WHERE revoked_at IS NULL: an expired token can be revoked too.
Revocable(i) == live[i]

RevokeByHash(i) == live' = [live EXCEPT ![i] = FALSE]

Revoke(h) ==
  /\ pc[h] = "revoke"
  /\ \/ /\ Revocable(token[h])
        /\ RevokeByHash(token[h])
        /\ session' = [session EXCEPT ![h] = loginOf[token[h]]]
        /\ Goto(h, "issue")
     \/ /\ RevokeByHash(token[h]) \/ UNCHANGED live
        /\ Respond(h)
        /\ UNCHANGED session
  /\ token' = [token EXCEPT ![h] = 0]
  /\ spent' = IF pc'[h] = "issue" THEN spent ELSE [spent EXCEPT ![h] = 0]
  /\ UNCHANGED <<lvars, users, tokens, loginOf, left, svars, cookie, client, email>>

\* A logout that finds its token unrevoked ends the session.  Else there is no
\* token, it is revoked, or the update fails, perhaps after taking effect.
Logout(h, c) ==
  /\ Serves(h, c)
  /\ \/ /\ TokenOf(c) # 0
        /\ Revocable(TokenOf(c))
        /\ RevokeByHash(TokenOf(c))
        /\ ended' = [ended EXCEPT ![loginOf[TokenOf(c)]] = TRUE]
        /\ Goto(h, "logged out")
     \/ /\ (TokenOf(c) # 0 /\ RevokeByHash(TokenOf(c))) \/ UNCHANGED live
        /\ Respond(h)
        /\ UNCHANGED ended
  /\ UNCHANGED <<lvars, users, tokens, loginOf, left, logins, access, since, cookie,
                 local>>

\* Mutant: the expiry of an access token is not looked at.
AcceptedUnexpired(l) == l \in 1..logins

\* AuthRequired serves Me, and every other protected route, to the holder of an
\* access token of session l; neither it nor ParseAccessToken asks the database.
Accepted(l) == access[l] > 0

-----------------------------------------------------------------------------

\* The response reaches the browser, or is lost; responses may overtake each
\* other.  Only a success touches the cookie.
Deliver(h) ==
  /\ pc[h] \in {"signed in", "logged out"}
  /\ \/ /\ pc[h] = "signed in"
        /\ cookie' = [cookie EXCEPT ![client[h]] = token[h]]
     \/ /\ pc[h] = "logged out"
        /\ cookie' = [cookie EXCEPT ![client[h]] = 0]
     \/ UNCHANGED cookie
  /\ Goto(h, "idle")
  /\ token' = [token EXCEPT ![h] = 0]
  /\ UNCHANGED <<lvars, users, tvars, svars, client, email, session, spent>>

\* The process dies: the handler's query was its last.
Crash(h) ==
  /\ pc[h] \in {"insertUser", "authenticate", "revoke", "issue"}
  /\ pc' = [pc EXCEPT ![h] = "idle"]
  /\ email' = [email EXCEPT ![h] = {}]
  /\ token' = [token EXCEPT ![h] = 0]
  /\ session' = [session EXCEPT ![h] = 0]
  /\ spent' = [spent EXCEPT ![h] = 0]
  /\ UNCHANGED <<lvars, users, tvars, svars, cookie, client>>

Less(n) == IF n > 0 THEN n - 1 ELSE 0

Tick ==
  /\ LimiterTick
  /\ left' = [i \in Tokens |-> Less(left[i])]
  /\ access' = [l \in Sessions |-> Less(access[l])]
  /\ since' = [l \in Sessions |->
       IF ended[l] /\ since[l] < AccessTTL THEN since[l] + 1 ELSE since[l]]
  /\ spent' = [h \in Handlers |->
       IF (pc[h] = "revoke" \/ session[h] # 0) /\ spent[h] < RefreshTTL
       THEN spent[h] + 1 ELSE spent[h]]
  /\ UNCHANGED <<users, tokens, loginOf, live, logins, ended, cookie, pc, client,
                 email, token, session>>

Request(h, c) ==
  FindByEmail(h, c) \/ Throttle(h, c) \/ FindValidByHash(h, c) \/ Logout(h, c)

Handle(h) == InsertUser(h) \/ Authenticate(h) \/ Revoke(h) \/ Issue(h) \/ Deliver(h)

Next ==
  \/ \E h \in Handlers, c \in Clients : Request(h, c)
  \/ \E h \in Handlers : Handle(h) \/ Crash(h)
  \/ Tick

Spec == Init /\ [][Next]_vars

-----------------------------------------------------------------------------
(* Properties.                                                             *)

\* Every variable stays in its domain.
TypeOK ==
  /\ LimiterTypeOK
  /\ users \subseteq Addresses
  /\ tokens \in 0..MaxTokens
  /\ loginOf \in [Tokens -> 0..logins]
  /\ left \in [Tokens -> 0..RefreshTTL]
  /\ live \in [Tokens -> BOOLEAN]
  /\ logins \in 0..MaxLogins
  /\ access \in [Sessions -> 0..AccessTTL]
  /\ ended \in [Sessions -> BOOLEAN]
  /\ since \in [Sessions -> 0..AccessTTL]
  /\ cookie \in [Clients -> 0..tokens]
  /\ pc \in [Handlers -> Steps]
  /\ client \in [Handlers -> Clients]
  /\ email \in [Handlers -> SUBSET Addresses]
  /\ token \in [Handlers -> 0..tokens]
  /\ session \in [Handlers -> 0..logins]
  /\ spent \in [Handlers -> 0..RefreshTTL]

\* A refresh token begets one heir: of all tokens of a session at most one can
\* still be used, whatever tabs refresh at once with the same cookie.
OneTokenPerSession ==
  \A i, j \in Tokens : live[i] /\ live[j] /\ loginOf[i] = loginOf[j] => i = j

\* After a logout that succeeded nothing of the session survives, not even what
\* a refresh in progress at the time issues: no refresh token can be used, and
\* no access token is accepted from AccessTTL after the logout on.
LogoutEndsSession ==
  \A l \in Sessions : ended[l] =>
    /\ \A i \in Tokens : live[i] => loginOf[i] # l
    /\ Accepted(l) => since[l] < AccessTTL
=============================================================================
