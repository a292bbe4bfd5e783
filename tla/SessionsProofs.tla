--------------------------- MODULE SessionsProofs ---------------------------
(***************************************************************************)
(* One refresh token per session, and none after its logout.  Neither is   *)
(* inductive: while a refresh is between its update and its insert, the    *)
(* session has no token at all, and the handler carries the right to issue *)
(* the next one.  The invariant counts that right as a token.              *)
(***************************************************************************)
EXTENDS Sessions, TLAPS

\* The domains of what the proofs are about.
Typed ==
  /\ tokens \in 0..MaxTokens
  /\ logins \in 0..MaxLogins
  /\ loginOf \in [Tokens -> 0..logins]
  /\ live \in [Tokens -> BOOLEAN]
  /\ access \in [Sessions -> 0..AccessTTL]
  /\ ended \in [Sessions -> BOOLEAN]
  /\ since \in [Sessions -> 0..AccessTTL]
  /\ session \in [Handlers -> 0..logins]

\* What browsers and handlers carry: tokens that were issued.
Carried ==
  /\ cookie \in [Clients -> 0..tokens]
  /\ token \in [Handlers -> 0..tokens]
  /\ pc \in [Handlers -> Steps]
  /\ \A h \in Handlers : pc[h] = "revoke" => token[h] # 0

\* Only a row of the table is live, and it has a session.
LiveIsIssued == \A i \in Tokens : live[i] => i <= tokens /\ loginOf[i] # 0

\* Who is about to issue a token has revoked the last one,
IssuersHoldNone ==
  \A h \in Handlers, i \in Tokens :
    session[h] # 0 /\ live[i] => loginOf[i] # session[h]

\* and nobody else is about to.
OneIssuer ==
  \A g, h \in Handlers : session[g] # 0 /\ session[g] = session[h] => g = h

\* An ended session has no token, nobody issues one, and its access token ages.
EndedIsOver ==
  \A l \in Sessions : ended[l] =>
    /\ l <= logins
    /\ \A i \in Tokens : live[i] => loginOf[i] # l
    /\ \A h \in Handlers : session[h] # l
    /\ access[l] + since[l] <= AccessTTL

SinceIsAfter == \A l \in Sessions : ~ended[l] => since[l] = 0

Safe ==
  /\ LiveIsIssued /\ OneTokenPerSession /\ IssuersHoldNone /\ OneIssuer
  /\ EndedIsOver /\ SinceIsAfter

Inv == Typed /\ Carried /\ Safe

LEMMA InvImplies == Inv => OneTokenPerSession /\ LogoutEndsSession
<1> SUFFICES ASSUME Inv PROVE LogoutEndsSession
  BY DEF Inv, Safe
<1> SUFFICES ASSUME NEW l \in Sessions, ended[l]
             PROVE  /\ \A i \in Tokens : live[i] => loginOf[i] # l
                    /\ Accepted(l) => since[l] < AccessTTL
  BY DEF LogoutEndsSession
<1>1. /\ \A i \in Tokens : live[i] => loginOf[i] # l
      /\ access[l] + since[l] <= AccessTTL
  BY DEF Inv, Safe, EndedIsOver
<1>2. access[l] \in Nat /\ since[l] \in Nat /\ AccessTTL \in Nat
  BY SessionsAssumption DEF Inv, Typed
<1> QED
  BY <1>1, <1>2 DEF Accepted

LEMMA InvInit == Init => Inv
<1> SUFFICES ASSUME Init PROVE Inv
  OBVIOUS
<1>1. Typed
  BY SessionsAssumption DEF Init, Typed
<1>2. /\ \A i \in Tokens : ~live[i]
      /\ \A h \in Handlers : session[h] = 0
      /\ \A l \in Sessions : ~ended[l] /\ since[l] = 0
  BY DEF Init
<1>3. Safe
  BY <1>2 DEF Safe, LiveIsIssued, OneTokenPerSession, IssuersHoldNone, OneIssuer,
              EndedIsOver, SinceIsAfter
<1>4. Carried
  BY SessionsAssumption DEF Init, Carried, Steps
<1> QED
  BY <1>1, <1>3, <1>4 DEF Inv

-----------------------------------------------------------------------------
(* What is carried.                                                        *)

LEMMA UpdateInto ==
  ASSUME NEW S, NEW T, NEW f \in [S -> T], NEW x, NEW v \in T
  PROVE  [f EXCEPT ![x] = v] \in [S -> T]
  OBVIOUS

\* The handler h takes up a step that is not the revocation of a token.
LEMMA HandlerMovesOn ==
  ASSUME Carried, NEW h \in Handlers, NEW step \in Steps \ {"revoke"}, NEW i \in Nat,
         tokens \in Nat, tokens' \in Nat, tokens <= tokens', i <= tokens',
         pc' = [pc EXCEPT ![h] = step], token' = [token EXCEPT ![h] = i],
         cookie' \in [Clients -> 0..tokens']
  PROVE  Carried'
<1>1. pc' \in [Handlers -> Steps]
  BY UpdateInto DEF Carried
<1>2. 0..tokens \subseteq 0..tokens' /\ i \in 0..tokens'
  OBVIOUS
<1>3. token \in [Handlers -> 0..tokens']
  BY <1>2 DEF Carried
<1>4. token' \in [Handlers -> 0..tokens']
  BY <1>2, <1>3, UpdateInto
<1>5. \A g \in Handlers : pc'[g] = "revoke" => token'[g] # 0
  BY DEF Carried
<1> QED
  BY <1>1, <1>4, <1>5 DEF Carried

LEMMA CarriedKept == Inv /\ [Next]_vars => Carried'
<1> SUFFICES ASSUME Carried, tokens \in Nat, [Next]_vars PROVE Carried'
  BY SessionsAssumption DEF Inv, Typed
<1>0. 0 \in 0..tokens /\ 0 \in Nat /\ 0 <= tokens /\ tokens <= tokens
  OBVIOUS
<1>1. ASSUME NEW h \in Handlers, NEW c \in Clients, FindByEmail(h, c) PROVE Carried'
  BY <1>1 DEF FindByEmail, tvars, Carried, Steps, Goto, Respond, Serves
<1>2. ASSUME NEW h \in Handlers, NEW c \in Clients, Throttle(h, c) PROVE Carried'
  BY <1>2 DEF Throttle, tvars, local, Carried, Steps, Goto, Respond, Serves
<1>3. ASSUME NEW h \in Handlers, NEW c \in Clients, FindValidByHash(h, c) PROVE Carried'
  BY <1>3 DEF FindValidByHash, Valid, TokenOf, tvars, Carried, Steps, Goto, Respond, Serves
<1>4. ASSUME NEW h \in Handlers, NEW c \in Clients, Logout(h, c) PROVE Carried'
  BY <1>4 DEF Logout, local, Carried, Steps, Goto, Respond, Serves
<1>5. ASSUME NEW h \in Handlers, InsertUser(h) PROVE Carried'
  BY <1>5 DEF InsertUser, tvars, Carried, Steps, Goto, Respond
<1>6. ASSUME NEW h \in Handlers, Authenticate(h) PROVE Carried'
  BY <1>6 DEF Authenticate, tvars, Carried, Steps, Goto, Respond
<1>7. ASSUME NEW h \in Handlers, Revoke(h) PROVE Carried'
  <2>1. \E step \in {"issue", "idle"} : pc' = [pc EXCEPT ![h] = step]
    BY <1>7 DEF Revoke, Goto, Respond
  <2>2. tokens' = tokens /\ cookie' = cookie /\ token' = [token EXCEPT ![h] = 0]
    BY <1>7 DEF Revoke
  <2>3. cookie' \in [Clients -> 0..tokens']
    BY <2>2 DEF Carried
  <2> QED
    BY <1>0, <2>1, <2>2, <2>3, HandlerMovesOn DEF Steps
<1>8. ASSUME NEW h \in Handlers, Issue(h) PROVE Carried'
  <2>1. \E step \in {"signed in", "idle"} : pc' = [pc EXCEPT ![h] = step]
    BY <1>8 DEF Issue, Goto, Respond
  <2>2. cookie' = cookie /\ tokens' \in {tokens, tokens + 1}
    BY <1>8 DEF Issue, NewToken, tvars
  <2>3. \/ token' = [token EXCEPT ![h] = 0]
        \/ tokens' = tokens + 1 /\ token' = [token EXCEPT ![h] = tokens + 1]
    BY <1>8 DEF Issue, NewToken
  <2>4. \E i \in Nat : i <= tokens' /\ token' = [token EXCEPT ![h] = i]
    BY <2>2, <2>3
  <2>5. cookie' \in [Clients -> 0..tokens']
    BY <2>2 DEF Carried
  <2>6. tokens' \in Nat /\ tokens <= tokens'
    BY <2>2
  <2> QED
    BY <2>1, <2>4, <2>5, <2>6, HandlerMovesOn DEF Steps
<1>9. ASSUME NEW h \in Handlers, Deliver(h) PROVE Carried'
  <2>1. tokens' = tokens /\ token' = [token EXCEPT ![h] = 0]
        /\ pc' = [pc EXCEPT ![h] = "idle"]
    BY <1>9 DEF Deliver, tvars, Goto
  <2>2. token[h] \in 0..tokens
    BY DEF Carried
  <2>3. \/ cookie' = [cookie EXCEPT ![client[h]] = token[h]]
        \/ cookie' = [cookie EXCEPT ![client[h]] = 0]
        \/ cookie' = cookie
    BY <1>9 DEF Deliver
  <2>4. cookie' \in [Clients -> 0..tokens]
    BY <1>0, <2>2, <2>3, UpdateInto DEF Carried
  <2> QED
    BY <1>0, <2>1, <2>4, HandlerMovesOn DEF Steps
<1>10. ASSUME NEW h \in Handlers, Crash(h) PROVE Carried'
  <2>1. UNCHANGED <<tokens, cookie>> /\ token' = [token EXCEPT ![h] = 0]
        /\ pc' = [pc EXCEPT ![h] = "idle"]
    BY <1>10 DEF Crash, tvars
  <2>2. cookie' \in [Clients -> 0..tokens']
    BY <2>1 DEF Carried
  <2> QED
    BY <1>0, <2>1, <2>2, HandlerMovesOn DEF Steps
<1>11. CASE Tick \/ UNCHANGED vars
  <2>1. UNCHANGED <<tokens, cookie, token, pc>>
    BY <1>11 DEF Tick, vars, tvars, local
  <2> QED
    BY <2>1 DEF Carried
<1> QED
  BY <1>1, <1>2, <1>3, <1>4, <1>5, <1>6, <1>7, <1>8, <1>9, <1>10, <1>11
  DEF Next, Request, Handle

-----------------------------------------------------------------------------
(* Most steps only take away: tokens stay or are revoked, handlers go on or *)
(* forget their session.                                                    *)

Core == Typed /\ Safe

Forgets ==
  /\ UNCHANGED <<tokens, loginOf, svars>>
  /\ live' \in [Tokens -> BOOLEAN]
  /\ \A i \in Tokens : live'[i] => live[i]
  /\ session' \in [Handlers -> 0..logins]
  /\ \A h \in Handlers : session'[h] \in {0, session[h]}

LEMMA ForgettingKeepsCore == Inv /\ Forgets => Core'
<1> SUFFICES ASSUME Inv, Forgets PROVE Core'
  OBVIOUS
<1>1. UNCHANGED <<tokens, loginOf, logins, access, ended, since>>
  BY DEF Forgets, svars
<1>2. /\ \A i \in Tokens : live'[i] => live[i]
      /\ \A h \in Handlers : session'[h] \in {0, session[h]}
  BY DEF Forgets
<1>3. Typed'
  BY <1>1 DEF Inv, Typed, Forgets
<1>4. LiveIsIssued' /\ OneTokenPerSession'
  BY <1>1, <1>2 DEF Inv, Safe, LiveIsIssued, OneTokenPerSession
<1>5. IssuersHoldNone' /\ OneIssuer'
  BY <1>1, <1>2 DEF Inv, Safe, IssuersHoldNone, OneIssuer
<1>6. EndedIsOver'
  <2> SUFFICES ASSUME NEW l \in Sessions, ended'[l]
               PROVE  /\ l <= logins'
                      /\ \A i \in Tokens : live'[i] => loginOf'[i] # l
                      /\ \A h \in Handlers : session'[h] # l
                      /\ access'[l] + since'[l] <= AccessTTL
    BY DEF EndedIsOver
  <2>1. l # 0
    BY DEF Sessions
  <2> QED
    BY <1>1, <1>2, <2>1 DEF Inv, Safe, EndedIsOver
<1>7. SinceIsAfter'
  BY <1>1 DEF Inv, Safe, SinceIsAfter
<1> QED
  BY <1>3, <1>4, <1>5, <1>6, <1>7 DEF Core, Safe

-----------------------------------------------------------------------------
(* The steps that do more.                                                 *)

\* A token found live: its session is neither ended nor issued for.
LEMMA LiveToken ==
  ASSUME Inv, NEW i \in Tokens, live[i]
  PROVE  /\ loginOf[i] \in Sessions /\ loginOf[i] <= logins
         /\ ~ended[loginOf[i]] /\ since[loginOf[i]] = 0
         /\ \A h \in Handlers : session[h] # loginOf[i]
         /\ \A j \in Tokens : live[j] /\ loginOf[j] = loginOf[i] => j = i
<1>1. loginOf[i] \in 0..logins /\ loginOf[i] # 0 /\ logins \in 0..MaxLogins
  BY DEF Inv, Safe, Typed, LiveIsIssued
<1>2. loginOf[i] \in Sessions /\ loginOf[i] <= logins
  BY <1>1, SessionsAssumption DEF Sessions
<1>3. ~ended[loginOf[i]]
  BY <1>2 DEF Inv, Safe, EndedIsOver
<1>4. since[loginOf[i]] = 0
  BY <1>2, <1>3 DEF Inv, Safe, SinceIsAfter
<1>5. \A h \in Handlers : session[h] # loginOf[i]
  BY <1>1 DEF Inv, Safe, IssuersHoldNone
<1>6. \A j \in Tokens : live[j] /\ loginOf[j] = loginOf[i] => j = i
  BY DEF Inv, Safe, OneTokenPerSession
<1> QED
  BY <1>2, <1>3, <1>4, <1>5, <1>6

LEMMA KnownToken ==
  ASSUME Inv, NEW i \in 0..tokens, i # 0
  PROVE  i \in Tokens
  BY SessionsAssumption DEF Inv, Typed, Tokens

\* Revoke: a refresh that finds its token unrevoked trades it for the right to
\* issue.
LEMMA TradingKeepsCore ==
  ASSUME Inv, NEW h \in Handlers, NEW i \in Tokens, Revocable(i), RevokeByHash(i),
         session' = [session EXCEPT ![h] = loginOf[i]],
         UNCHANGED <<tokens, loginOf, svars>>
  PROVE  Core'
<1> DEFINE l == loginOf[i]
<1>1. UNCHANGED <<tokens, loginOf, logins, access, ended, since>>
  BY DEF svars
<1>2. live[i]
  BY DEF Revocable
<1>3. /\ l \in Sessions /\ l <= logins /\ ~ended[l]
      /\ \A g \in Handlers : session[g] # l
      /\ \A j \in Tokens : live[j] /\ loginOf[j] = l => j = i
  BY <1>2, LiveToken
<1>4. live' \in [Tokens -> BOOLEAN] /\ ~live'[i]
      /\ \A j \in Tokens : live'[j] => live[j]
  BY DEF RevokeByHash, Inv, Typed
<1>5. session'[h] = l /\ \A g \in Handlers \ {h} : session'[g] = session[g]
  BY DEF Inv, Typed
<1>6. l \in 0..logins
  BY DEF Inv, Typed
<1>7. session' \in [Handlers -> 0..logins]
  BY <1>6 DEF Inv, Typed
<1> HIDE DEF l
<1>8. Typed'
  BY <1>1, <1>4, <1>7 DEF Inv, Typed
<1>9. LiveIsIssued' /\ OneTokenPerSession' /\ SinceIsAfter'
  BY <1>1, <1>4 DEF Inv, Safe, LiveIsIssued, OneTokenPerSession, SinceIsAfter
<1>10. IssuersHoldNone'
  <2> SUFFICES ASSUME NEW g \in Handlers, NEW j \in Tokens, session'[g] # 0, live'[j]
               PROVE  loginOf[j] # session'[g]
    BY <1>1 DEF IssuersHoldNone
  <2>1. CASE g = h
    BY <1>3, <1>4, <1>5, <2>1
  <2>2. CASE g # h
    BY <1>4, <1>5, <2>2 DEF Inv, Safe, IssuersHoldNone
  <2> QED
    BY <2>1, <2>2
<1>11. OneIssuer'
  BY <1>3, <1>5 DEF Inv, Safe, OneIssuer
<1>12. EndedIsOver'
  BY <1>1, <1>3, <1>4, <1>5 DEF Inv, Safe, EndedIsOver
<1> QED
  BY <1>8, <1>9, <1>10, <1>11, <1>12 DEF Core, Safe

\* Logout: a session ends with its only token.
LEMMA EndingKeepsCore ==
  ASSUME Inv, NEW i \in Tokens, Revocable(i), RevokeByHash(i),
         ended' = [ended EXCEPT ![loginOf[i]] = TRUE],
         UNCHANGED <<tokens, loginOf, logins, access, since, session>>
  PROVE  Core'
<1> DEFINE l == loginOf[i]
<1>1. live[i]
  BY DEF Revocable
<1>2. /\ l \in Sessions /\ l <= logins /\ since[l] = 0
      /\ \A g \in Handlers : session[g] # l
      /\ \A j \in Tokens : live[j] /\ loginOf[j] = l => j = i
  BY <1>1, LiveToken
<1>3. live' \in [Tokens -> BOOLEAN] /\ ~live'[i]
      /\ \A j \in Tokens : live'[j] => live[j]
  BY DEF RevokeByHash, Inv, Typed
<1>4. ended' \in [Sessions -> BOOLEAN] /\ \A k \in Sessions \ {l} : ended'[k] = ended[k]
  BY DEF Inv, Typed
<1>5. ended'[l]
  BY <1>2 DEF Inv, Typed
<1>6. access[l] + since[l] <= AccessTTL
  BY <1>2, SessionsAssumption DEF Inv, Typed
<1> HIDE DEF l
<1>7. Typed'
  BY <1>3, <1>4 DEF Inv, Typed
<1>8. LiveIsIssued' /\ OneTokenPerSession' /\ IssuersHoldNone' /\ OneIssuer'
  BY <1>3 DEF Inv, Safe, LiveIsIssued, OneTokenPerSession, IssuersHoldNone, OneIssuer
<1>9. EndedIsOver'
  <2> SUFFICES ASSUME NEW k \in Sessions, ended'[k]
               PROVE  /\ k <= logins
                      /\ \A j \in Tokens : live'[j] => loginOf[j] # k
                      /\ \A h \in Handlers : session[h] # k
                      /\ access[k] + since[k] <= AccessTTL
    BY DEF EndedIsOver
  <2>1. CASE k = l
    BY <1>2, <1>3, <1>6, <2>1
  <2>2. CASE k # l
    BY <1>3, <1>4, <2>2 DEF Inv, Safe, EndedIsOver
  <2> QED
    BY <2>1, <2>2
<1>10. SinceIsAfter'
  BY <1>4, <1>5 DEF Inv, Safe, SinceIsAfter
<1> QED
  BY <1>7, <1>8, <1>9, <1>10 DEF Core, Safe

\* Issue: a token for a session that nobody has a token of, or issues for.
LEMMA IssuingKeepsCore ==
  ASSUME Inv, NEW h \in Handlers, NEW l \in Sessions, NEW lifetime, NewToken(l, lifetime),
         \/ l = logins + 1 /\ logins' = logins + 1
         \/ l = session[h] /\ logins' = logins,
         session' = [session EXCEPT ![h] = 0],
         UNCHANGED <<ended, since>>
  PROVE  Core'
<1> DEFINE n == tokens + 1
<1>1. /\ tokens \in Nat /\ logins \in Nat /\ logins' \in Nat /\ l \in Nat \ {0}
      /\ MaxTokens \in Nat /\ MaxLogins \in Nat /\ logins <= MaxLogins
      /\ AccessTTL \in Nat
  BY SessionsAssumption DEF Inv, Typed, Sessions
<1>2. /\ tokens' = n /\ n \in Tokens
      /\ loginOf' = [loginOf EXCEPT ![n] = l]
      /\ live' = [live EXCEPT ![n] = TRUE]
      /\ access' = [access EXCEPT ![l] = AccessTTL]
  BY <1>1 DEF NewToken, Tokens
<1>3. n \in Nat /\ n > tokens
  BY <1>1
<1>4. /\ logins <= logins' /\ l <= logins' /\ logins' <= MaxLogins
      /\ \A g \in Handlers : g # h => session[g] # l
      /\ \A j \in Tokens : live[j] => loginOf[j] # l
      /\ ~ended[l]
  <2>1. CASE l = logins + 1 /\ logins' = logins + 1
    <3>1. /\ \A g \in Handlers : session[g] \in 0..logins
          /\ \A j \in Tokens : loginOf[j] \in 0..logins
      BY DEF Inv, Typed
    <3>2. ~ended[l]
      BY <1>1, <2>1 DEF Inv, Safe, EndedIsOver
    <3> QED
      BY <1>1, <2>1, <3>1, <3>2 DEF Sessions
  <2>2. CASE l = session[h] /\ logins' = logins
    <3>1. session[h] \in 0..logins
      BY DEF Inv, Typed
    <3>2. /\ \A g \in Handlers : g # h => session[g] # l
          /\ \A j \in Tokens : live[j] => loginOf[j] # l
      BY <1>1, <2>2 DEF Inv, Safe, OneIssuer, IssuersHoldNone
    <3>3. ~ended[l]
      BY <2>2 DEF Inv, Safe, EndedIsOver
    <3> QED
      BY <1>1, <2>2, <3>1, <3>2, <3>3
  <2> QED
    BY <2>1, <2>2
<1> HIDE DEF n
<1>5. /\ loginOf'[n] = l /\ live'[n]
      /\ \A j \in Tokens : j # n => loginOf'[j] = loginOf[j] /\ live'[j] = live[j]
      /\ session'[h] = 0 /\ \A g \in Handlers : g # h => session'[g] = session[g]
      /\ \A k \in Sessions : k # l => access'[k] = access[k]
  BY <1>2 DEF Inv, Typed
<1>6. Typed'
  <2>1. tokens' \in 0..MaxTokens /\ logins' \in 0..MaxLogins
    BY <1>1, <1>2, <1>3, <1>4 DEF Tokens
  <2>2. 0..logins \subseteq 0..logins' /\ l \in 0..logins' /\ 0 \in 0..logins'
    BY <1>1, <1>4
  <2>3. loginOf \in [Tokens -> 0..logins'] /\ session \in [Handlers -> 0..logins']
    BY <2>2 DEF Inv, Typed
  <2>4. loginOf' \in [Tokens -> 0..logins'] /\ session' \in [Handlers -> 0..logins']
    BY <1>2, <2>2, <2>3, UpdateInto
  <2>5. live' \in [Tokens -> BOOLEAN]
    BY <1>2, UpdateInto DEF Inv, Typed
  <2>6. AccessTTL \in 0..AccessTTL
    BY <1>1
  <2>7. access' \in [Sessions -> 0..AccessTTL]
    BY <1>2, <2>6, UpdateInto DEF Inv, Typed
  <2> QED
    BY <2>1, <2>4, <2>5, <2>7 DEF Inv, Typed
<1>7. LiveIsIssued'
  <2> SUFFICES ASSUME NEW j \in Tokens, live'[j]
               PROVE  j <= n /\ loginOf'[j] # 0
    BY <1>2 DEF LiveIsIssued
  <2>1. CASE j = n
    BY <1>1, <1>3, <1>5, <2>1
  <2>2. CASE j # n
    <3>1. j <= tokens /\ loginOf[j] # 0
      BY <1>5, <2>2 DEF Inv, Safe, LiveIsIssued
    <3>2. j \in Nat
      BY DEF Tokens
    <3> QED
      BY <1>1, <1>3, <1>5, <2>2, <3>1, <3>2
  <2> QED
    BY <2>1, <2>2
<1>8. OneTokenPerSession'
  <2> SUFFICES ASSUME NEW i \in Tokens, NEW j \in Tokens, live'[i], live'[j],
                      loginOf'[i] = loginOf'[j]
               PROVE  i = j
    BY DEF OneTokenPerSession
  <2>1. CASE i # n /\ j # n
    BY <1>5, <2>1 DEF Inv, Safe, OneTokenPerSession
  <2>2. CASE i = n \/ j = n
    BY <1>4, <1>5, <2>2
  <2> QED
    BY <2>1, <2>2
<1>9. IssuersHoldNone'
  <2> SUFFICES ASSUME NEW g \in Handlers, NEW j \in Tokens, session'[g] # 0, live'[j]
               PROVE  loginOf'[j] # session'[g]
    BY DEF IssuersHoldNone
  <2>1. g # h /\ session'[g] = session[g]
    BY <1>5
  <2>2. CASE j = n
    BY <1>4, <1>5, <2>1, <2>2
  <2>3. CASE j # n
    BY <1>5, <2>1, <2>3 DEF Inv, Safe, IssuersHoldNone
  <2> QED
    BY <2>2, <2>3
<1>10. OneIssuer'
  BY <1>5 DEF Inv, Safe, OneIssuer
<1>11. EndedIsOver'
  <2> SUFFICES ASSUME NEW k \in Sessions, ended'[k]
               PROVE  /\ k <= logins'
                      /\ \A j \in Tokens : live'[j] => loginOf'[j] # k
                      /\ \A g \in Handlers : session'[g] # k
                      /\ access'[k] + since'[k] <= AccessTTL
    BY DEF EndedIsOver
  <2>1. k # l /\ k # 0 /\ k \in Nat
    BY <1>4 DEF Sessions
  <2>2. /\ k <= logins
        /\ \A j \in Tokens : live[j] => loginOf[j] # k
        /\ \A g \in Handlers : session[g] # k
        /\ access[k] + since[k] <= AccessTTL
    BY DEF Inv, Safe, EndedIsOver
  <2>3. k <= logins'
    BY <1>1, <1>4, <2>1, <2>2
  <2>4. \A j \in Tokens : live'[j] => loginOf'[j] # k
    BY <1>5, <2>1, <2>2
  <2>5. \A g \in Handlers : session'[g] # k
    BY <1>5, <2>1, <2>2
  <2>6. access'[k] + since'[k] <= AccessTTL
    BY <1>5, <2>1, <2>2
  <2> QED
    BY <2>3, <2>4, <2>5, <2>6
<1>12. SinceIsAfter'
  BY DEF Inv, Safe, SinceIsAfter
<1> QED
  BY <1>6, <1>7, <1>8, <1>9, <1>10, <1>11, <1>12 DEF Core, Safe

\* Time takes from an access token what it adds to the logout's age.
LEMMA TickKeepsCore == Inv /\ Tick => Core'
<1> SUFFICES ASSUME Inv, Tick PROVE Core'
  OBVIOUS
<1>1. UNCHANGED <<tokens, loginOf, live, logins, ended, session>>
  BY DEF Tick
<1>2. AccessTTL \in Nat
  BY SessionsAssumption
<1>3. \A l \in Sessions :
        /\ access[l] \in 0..AccessTTL /\ since[l] \in 0..AccessTTL
        /\ access'[l] = Less(access[l])
        /\ since'[l] = IF ended[l] /\ since[l] < AccessTTL THEN since[l] + 1
                                                           ELSE since[l]
  BY DEF Inv, Typed, Tick
<1>4. \A l \in Sessions :
        access'[l] \in 0..AccessTTL /\ since'[l] \in 0..AccessTTL
  BY <1>2, <1>3 DEF Less
<1>5. \A l \in Sessions :
        access[l] + since[l] <= AccessTTL => access'[l] + since'[l] <= AccessTTL
  BY <1>2, <1>3 DEF Less
<1>6. access' \in [Sessions -> 0..AccessTTL] /\ since' \in [Sessions -> 0..AccessTTL]
  BY <1>4 DEF Tick
<1>7. Typed'
  BY <1>1, <1>6 DEF Inv, Typed
<1>8. LiveIsIssued' /\ OneTokenPerSession' /\ IssuersHoldNone' /\ OneIssuer'
  BY <1>1 DEF Inv, Safe, LiveIsIssued, OneTokenPerSession, IssuersHoldNone, OneIssuer
<1>9. EndedIsOver'
  BY <1>1, <1>5 DEF Inv, Safe, EndedIsOver
<1>10. SinceIsAfter'
  BY <1>1, <1>3 DEF Inv, Safe, SinceIsAfter
<1> QED
  BY <1>7, <1>8, <1>9, <1>10 DEF Core, Safe

-----------------------------------------------------------------------------
(* Every step is one of these.                                             *)

LEMMA RevokingIsPartial ==
  ASSUME Inv, NEW i, RevokeByHash(i)
  PROVE  live' \in [Tokens -> BOOLEAN] /\ \A j \in Tokens : live'[j] => live[j]
  BY DEF Inv, Typed, RevokeByHash

LEMMA RequestKeepsCore ==
  ASSUME Inv, NEW h \in Handlers, NEW c \in Clients, Request(h, c)
  PROVE  Core'
<1>1. CASE FindByEmail(h, c)
  <2>1. Forgets
    BY <1>1 DEF FindByEmail, Forgets, svars, tvars, Inv, Typed
  <2> QED
    BY <2>1, ForgettingKeepsCore
<1>2. CASE Throttle(h, c)
  <2>1. Forgets
    BY <1>2 DEF Throttle, Forgets, svars, tvars, local, Inv, Typed
  <2> QED
    BY <2>1, ForgettingKeepsCore
<1>3. CASE FindValidByHash(h, c)
  <2>1. Forgets
    BY <1>3 DEF FindValidByHash, Forgets, svars, tvars, Inv, Typed
  <2> QED
    BY <2>1, ForgettingKeepsCore
<1>4. CASE Logout(h, c)
  <2> DEFINE i == TokenOf(c)
  <2>1. UNCHANGED <<tokens, loginOf, logins, access, since, session>>
    BY <1>4 DEF Logout, local
  <2>2. CASE /\ i # 0 /\ Revocable(i) /\ RevokeByHash(i)
             /\ ended' = [ended EXCEPT ![loginOf[i]] = TRUE]
    <3>1. i \in Tokens
      BY <2>2, KnownToken DEF Inv, Carried, TokenOf
    <3> HIDE DEF i
    <3> QED
      BY <2>1, <2>2, <3>1, EndingKeepsCore
  <2>3. CASE UNCHANGED ended /\ (RevokeByHash(i) \/ UNCHANGED live)
    <3>1. live' \in [Tokens -> BOOLEAN] /\ \A j \in Tokens : live'[j] => live[j]
      BY <2>3, RevokingIsPartial DEF Inv, Typed
    <3>2. Forgets
      BY <2>1, <2>3, <3>1 DEF Forgets, svars, Inv, Typed
    <3> QED
      BY <3>2, ForgettingKeepsCore
  <2> QED
    BY <1>4, <2>2, <2>3 DEF Logout
<1> QED
  BY <1>1, <1>2, <1>3, <1>4 DEF Request

LEMMA HandleKeepsCore ==
  ASSUME Inv, NEW h \in Handlers, Handle(h) \/ Crash(h)
  PROVE  Core'
<1>0. 0 \in 0..logins
  BY SessionsAssumption DEF Inv, Typed
<1>1. CASE InsertUser(h)
  <2>1. Forgets
    BY <1>1 DEF InsertUser, Forgets, svars, tvars, Inv, Typed
  <2> QED
    BY <2>1, ForgettingKeepsCore
<1>2. ASSUME session' \in {session, [session EXCEPT ![h] = 0]},
             UNCHANGED <<tokens, loginOf, live, svars>>
      PROVE  Core'
  <2>1. session' \in [Handlers -> 0..logins]
    BY <1>0, <1>2, UpdateInto DEF Inv, Typed
  <2>2. \A g \in Handlers : session'[g] \in {0, session[g]}
    BY <1>2 DEF Inv, Typed
  <2>3. Forgets
    BY <1>2, <2>1, <2>2 DEF Forgets, Inv, Typed
  <2> QED
    BY <2>3, ForgettingKeepsCore
<1>3. CASE Authenticate(h) \/ Crash(h) \/ Deliver(h)
  <2>1. session' \in {session, [session EXCEPT ![h] = 0]}
    BY <1>3 DEF Authenticate, Crash, Deliver
  <2>2. UNCHANGED <<tokens, loginOf, live, svars>>
    BY <1>3 DEF Authenticate, Crash, Deliver, tvars
  <2> QED
    BY <1>2, <2>1, <2>2
<1>4. CASE Revoke(h)
  <2> DEFINE i == token[h]
  <2>1. UNCHANGED <<tokens, loginOf, svars>>
    BY <1>4 DEF Revoke
  <2>2. CASE /\ Revocable(i) /\ RevokeByHash(i)
             /\ session' = [session EXCEPT ![h] = loginOf[i]]
    <3>1. i \in 0..tokens /\ i # 0
      BY <1>4 DEF Revoke, Inv, Carried
    <3> HIDE DEF i
    <3>2. i \in Tokens
      BY <3>1, KnownToken
    <3> QED
      BY <2>1, <2>2, <3>2, TradingKeepsCore
  <2>3. CASE UNCHANGED session /\ (RevokeByHash(i) \/ UNCHANGED live)
    <3>1. live' \in [Tokens -> BOOLEAN] /\ \A j \in Tokens : live'[j] => live[j]
      BY <2>3, RevokingIsPartial DEF Inv, Typed
    <3>2. Forgets
      BY <2>1, <2>3, <3>1 DEF Forgets, Inv, Typed
    <3> QED
      BY <3>2, ForgettingKeepsCore
  <2> QED
    BY <1>4, <2>2, <2>3 DEF Revoke
<1>5. CASE Issue(h)
  <2>1. session' = [session EXCEPT ![h] = 0] /\ UNCHANGED <<ended, since>>
    BY <1>5 DEF Issue
  <2>2. CASE /\ session[h] = 0 /\ logins < MaxLogins /\ logins' = logins + 1
             /\ NewToken(logins + 1, RefreshTTL)
    <3>1. logins + 1 \in Sessions
      BY <2>2, SessionsAssumption DEF Inv, Typed, Sessions
    <3> QED
      BY <2>1, <2>2, <3>1, IssuingKeepsCore
  <2>3. CASE /\ session[h] # 0 /\ UNCHANGED logins
             /\ NewToken(session[h], RefreshTTL - spent[h])
    <3>1. session[h] \in 0..logins /\ logins \in 0..MaxLogins
      BY DEF Inv, Typed
    <3>2. session[h] \in Sessions
      BY <2>3, <3>1, SessionsAssumption DEF Sessions
    <3> QED
      BY <2>1, <2>3, <3>2, IssuingKeepsCore
  <2>4. CASE UNCHANGED <<tvars, logins, access>>
    <3>1. UNCHANGED <<tokens, loginOf, live, svars>>
      BY <2>1, <2>4 DEF tvars, svars
    <3> QED
      BY <1>2, <2>1, <3>1
  <2> QED
    BY <1>5, <2>2, <2>3, <2>4 DEF Issue
<1> QED
  BY <1>1, <1>3, <1>4, <1>5 DEF Handle

LEMMA StepKeepsInv == Inv /\ [Next]_vars => Inv'
<1> SUFFICES ASSUME Inv, [Next]_vars PROVE Inv'
  OBVIOUS
<1>1. Carried'
  BY CarriedKept
<1>2. Core'
  <2>1. CASE UNCHANGED vars
    <3>1. Forgets
      BY <2>1 DEF vars, Forgets, svars, tvars, local, Inv, Typed
    <3> QED
      BY <3>1, ForgettingKeepsCore
  <2> QED
    BY <2>1, RequestKeepsCore, HandleKeepsCore, TickKeepsCore DEF Next
<1> QED
  BY <1>1, <1>2 DEF Inv, Core

LEMMA InvHolds == Spec => []Inv
<1>1. Init => Inv
  BY InvInit
<1>2. Inv /\ [Next]_vars => Inv'
  BY StepKeepsInv
<1> QED
  BY <1>1, <1>2, PTL DEF Spec

\* Of all refresh tokens of a session at most one can be used, for any number
\* of browsers and requests: Refresh revokes before it issues, and of two that
\* race the update ... WHERE revoked_at IS NULL lets one through.
THEOREM OneTokenPerSessionHolds == Spec => []OneTokenPerSession
<1>1. Inv => OneTokenPerSession
  BY InvImplies
<1> QED
  BY <1>1, InvHolds, PTL

\* After a logout nothing of its session can be used, but its last access token
\* until AccessTTL has passed.
THEOREM LogoutEndsSessionHolds == Spec => []LogoutEndsSession
<1>1. Inv => LogoutEndsSession
  BY InvImplies
<1> QED
  BY <1>1, InvHolds, PTL

-----------------------------------------------------------------------------
(* The limiter.  BurstBound is not inductive: how many requests the present *)
(* window may still admit depends on its counter, and how many the one      *)
(* before it admitted is still to be seen on when the present one began.    *)

\* What the counter c of a key says of the requests a admitted for it and of
\* its refusals: at most Limit in the present window, which began
\* Window - c.left ticks ago, and at most Limit before it; a refusal is not
\* older than the window, whose end is still ahead.
Accounted(c, a, R) ==
  /\ \A m, n \in 1..Window : m <= n => a[m] <= a[n]
  /\ c.left = 0 => c.count = 0 /\ a[1] = 0 /\ a[Window] <= Limit /\ R = {}
  /\ c.left = NoExpiry => c.count = Limit + 1 /\ a[Window] = 0 /\ R = {}
  /\ c.left > 0 =>
       /\ c.count > 0
       /\ a[Window - c.left + 1] <= c.count
       /\ a[Window - c.left + 1] <= Limit
       /\ a[Window] - a[Window - c.left + 1] <= Limit
       /\ \A t \in R : c.count >= Limit /\ t + c.left <= Window

LimiterInv ==
  LimiterTypeOK /\ \A k \in RateKeys : Accounted(counter[k], admitted[k], refusing[k])

\* The domains of what Accounted relates.
Counters == [count : 0..(Limit + 1), left : {NoExpiry} \cup 0..Window]
Admissions == [1..Window -> Nat]
Refusals == {{}} \cup {{t} : t \in 0..Window}

LEMMA LimiterTypes ==
  /\ LimiterTypeOK <=> /\ counter \in [RateKeys -> Counters]
                       /\ admitted \in [RateKeys -> Admissions]
                       /\ refusing \in [RateKeys -> Refusals]
  /\ Limit \in Nat \ {0} /\ Window \in Nat \ {0}
  /\ Absent \in Counters
  /\ NoExpiry < 0 /\ NoExpiry \in Int
<1>1. Limit \in Nat \ {0} /\ Window \in Nat \ {0}
  BY RateLimiterAssumption
<1>2. 0 \in 0..(Limit + 1) /\ 0 \in 0..Window
  BY <1>1
<1> QED
  BY <1>1, <1>2 DEF LimiterTypeOK, Counters, Admissions, Refusals, Absent, NoExpiry

LEMMA AccountedBounds ==
  ASSUME NEW c \in Counters, NEW a \in Admissions, NEW R \in Refusals,
         Accounted(c, a, R)
  PROVE  a[Window] <= 2 * Limit /\ Window \notin R
<1>1. /\ Limit \in Nat \ {0} /\ Window \in Nat \ {0}
      /\ c.left \in {NoExpiry} \cup 0..Window /\ NoExpiry < 0 /\ NoExpiry \in Int
  BY LimiterTypes DEF Counters
<1>2. \A n \in 1..Window : a[n] \in Nat
  BY DEF Admissions
<1>3. CASE c.left > 0
  <2>1. Window - c.left + 1 \in 1..Window /\ Window \in 1..Window
    BY <1>1, <1>3
  <2>2. a[Window - c.left + 1] \in Nat /\ a[Window] \in Nat
    BY <1>2, <2>1
  <2> QED
    BY <1>1, <1>3, <2>2 DEF Accounted
<1>4. CASE ~(c.left > 0)
  <2>1. a[Window] \in Nat
    BY <1>1, <1>2
  <2> QED
    BY <1>1, <1>4, <2>1 DEF Accounted
<1> QED
  BY <1>3, <1>4

LEMMA LimiterInvImplies == LimiterInv => BurstBound /\ RefusalsEnd
<1> SUFFICES ASSUME LimiterInv, NEW k \in RateKeys
             PROVE  admitted[k][Window] <= 2 * Limit /\ Window \notin refusing[k]
  BY DEF BurstBound, RefusalsEnd
<1>1. /\ counter[k] \in Counters /\ admitted[k] \in Admissions
      /\ refusing[k] \in Refusals
  BY LimiterTypes DEF LimiterInv
<1> QED
  BY <1>1, AccountedBounds DEF LimiterInv

LEMMA LimiterInitInv == LimiterInit => LimiterInv
<1> SUFFICES ASSUME LimiterInit PROVE LimiterInv
  OBVIOUS
<1>1. [count |-> Limit + 1, left |-> NoExpiry] \in Counters
  BY RateLimiterAssumption DEF Counters
<1>2. /\ counter \in [RateKeys -> Counters] /\ admitted \in [RateKeys -> Admissions]
      /\ refusing \in [RateKeys -> Refusals]
  BY <1>1, LimiterTypes DEF LimiterInit, Admissions, Refusals
<1>3. ASSUME NEW k \in RateKeys PROVE Accounted(counter[k], admitted[k], refusing[k])
  <2>1. \A n \in 1..Window : admitted[k][n] = 0
    BY DEF LimiterInit
  <2>2. refusing[k] = {} /\ 1 \in 1..Window /\ Window \in 1..Window
    BY RateLimiterAssumption DEF LimiterInit
  <2>3. \/ counter[k].left = 0 /\ counter[k].count = 0
        \/ counter[k].left = NoExpiry /\ counter[k].count = Limit + 1
    BY DEF LimiterInit, Absent
  <2> QED
    BY <2>1, <2>2, <2>3, LimiterTypes DEF Accounted
<1> QED
  BY <1>2, <1>3, LimiterTypes DEF LimiterInv

-----------------------------------------------------------------------------

\* A request is counted, and admitted or refused.
LEMMA CountAccounted ==
  ASSUME LimiterInv, NEW k \in RateKeys,
         NEW c, c = [count |-> IF counter[k].count <= Limit
                               THEN counter[k].count + 1 ELSE Limit + 1,
                     left |-> LeftAfter(k)],
         NEW a, a = IF Admits(k) THEN [n \in 1..Window |-> admitted[k][n] + 1]
                    ELSE admitted[k],
         NEW R, R = IF Admits(k) THEN {}
                    ELSE IF refusing[k] = {} THEN {0} ELSE refusing[k]
  PROVE  /\ c \in Counters /\ a \in Admissions /\ R \in Refusals
         /\ Accounted(c, a, R)
<1>1. /\ Limit \in Nat \ {0} /\ Window \in Nat \ {0}
      /\ NoExpiry < 0 /\ NoExpiry \in Int
  BY LimiterTypes
<1>2. /\ counter[k] \in Counters /\ admitted[k] \in Admissions
      /\ refusing[k] \in Refusals
      /\ Accounted(counter[k], admitted[k], refusing[k])
  BY LimiterTypes DEF LimiterInv
<1>3. /\ counter[k].count \in 0..(Limit + 1)
      /\ counter[k].left \in {NoExpiry} \cup 0..Window
      /\ \A n \in 1..Window : admitted[k][n] \in Nat
  BY <1>2 DEF Counters, Admissions
<1>4. /\ c.count = IF counter[k].count <= Limit THEN counter[k].count + 1 ELSE Limit + 1
      /\ c.left = LeftAfter(k)
  OBVIOUS
<1>5. /\ c.count \in 1..(Limit + 1)
      /\ counter[k].left > 0 => c.left = counter[k].left
      /\ counter[k].left <= 0 => c.left = Window
  <2>1. counter[k].left > 0 => counter[k].count > 0
    BY <1>2 DEF Accounted
  <2>2. counter[k].left = 0 => counter[k].count = 0
    BY <1>2 DEF Accounted
  <2> QED
    BY <1>1, <1>3, <1>4, <2>1, <2>2 DEF LeftAfter
<1>6. c \in Counters
  <2>1. c.left \in 1..Window
    BY <1>1, <1>3, <1>5
  <2> QED
    BY <1>1, <1>5, <2>1 DEF Counters
<1>7. /\ a \in Admissions
      /\ Admits(k) => \A n \in 1..Window : a[n] = admitted[k][n] + 1
      /\ ~Admits(k) => a = admitted[k]
  BY <1>2, <1>3 DEF Admissions
<1>8. /\ R \in Refusals
      /\ Admits(k) => R = {}
      /\ ~Admits(k) => R = {0} \/ R = refusing[k]
      /\ refusing[k] = {} => R = {} \/ R = {0}
  BY <1>1, <1>2 DEF Refusals
<1> HIDE DEF NoExpiry
<1>9. \A m, n \in 1..Window : m <= n => a[m] <= a[n]
  <2>1. \A m, n \in 1..Window : m <= n => admitted[k][m] <= admitted[k][n]
    BY <1>2 DEF Accounted
  <2> QED
    BY <1>3, <1>7, <2>1
<1> DEFINE s == Window - c.left + 1
<1>10. s \in 1..Window /\ Window \in 1..Window
  BY <1>1, <1>3, <1>5
<1>11. admitted[k][s] \in Nat /\ admitted[k][Window] \in Nat
  BY <1>3, <1>10
<1>12. /\ admitted[k][s] <= counter[k].count
       /\ admitted[k][s] <= Limit
       /\ admitted[k][Window] - admitted[k][s] <= Limit
  <2>1. CASE counter[k].left > 0
    BY <1>2, <1>5, <2>1 DEF Accounted
  <2>2. CASE counter[k].left <= 0
    <3>1. s = 1 /\ admitted[k][1] = 0 /\ admitted[k][Window] <= Limit
      <4>1. s = 1
        BY <1>1, <1>5, <2>2
      <4>2. counter[k].left = 0 \/ counter[k].left = NoExpiry
        BY <1>1, <1>3, <2>2
      <4>3. admitted[k][1] <= admitted[k][Window]
        BY <1>2, <1>10, <4>1 DEF Accounted
      <4> QED
        BY <1>1, <1>2, <1>11, <4>1, <4>2, <4>3 DEF Accounted
    <3> QED
      BY <1>1, <1>3, <1>11, <3>1
  <2> QED
    BY <1>1, <1>3, <2>1, <2>2
<1>13. /\ a[s] <= c.count /\ a[s] <= Limit
       /\ a[Window] - a[s] <= Limit
  <2>1. CASE Admits(k)
    <3>1. a[s] = admitted[k][s] + 1 /\ a[Window] = admitted[k][Window] + 1
      BY <1>7, <1>10, <2>1
    <3>2. counter[k].count < Limit /\ c.count = counter[k].count + 1
      BY <1>1, <1>3, <1>4, <2>1 DEF Admits
    <3> HIDE DEF s
    <3>3. a[s] <= Limit /\ a[Window] - a[s] <= Limit
      <4>1. counter[k].count + 1 <= Limit
        BY <1>1, <1>3, <3>2
      <4>2. admitted[k][s] + 1 <= Limit
        BY <1>1, <1>3, <1>11, <1>12, <4>1
      <4>3. (admitted[k][Window] + 1) - (admitted[k][s] + 1) <= Limit
        BY <1>1, <1>11, <1>12
      <4> QED
        BY <3>1, <4>2, <4>3
    <3>4. a[s] <= c.count
      BY <1>3, <1>11, <1>12, <3>1, <3>2
    <3> QED
      BY <3>3, <3>4
  <2>2. CASE ~Admits(k)
    <3>1. counter[k].count <= c.count
      BY <1>1, <1>3, <1>4
    <3> HIDE DEF s
    <3> QED
      BY <1>1, <1>3, <1>5, <1>7, <1>11, <1>12, <2>2, <3>1
  <2> QED
    BY <2>1, <2>2
<1>14. \A t \in R : c.count >= Limit /\ t + c.left <= Window
  <2> SUFFICES ASSUME NEW t \in R, ~Admits(k)
               PROVE  c.count >= Limit /\ t + c.left <= Window
    BY <1>8
  <2>1. c.count >= Limit
    BY <1>1, <1>3, <1>4 DEF Admits
  <2>2. CASE t = 0
    BY <1>1, <1>3, <1>5, <2>1, <2>2
  <2>3. CASE t # 0
    <3>1. t \in refusing[k]
      BY <1>8, <2>3
    <3>2. counter[k].left > 0
      BY <1>1, <1>2, <1>3, <3>1 DEF Accounted
    <3> QED
      BY <1>2, <1>5, <2>1, <3>1, <3>2 DEF Accounted
  <2> QED
    BY <2>2, <2>3
<1>15. c.left > 0 /\ c.count > 0
  BY <1>1, <1>3, <1>5
<1>16. Accounted(c, a, R)
  BY <1>1, <1>9, <1>13, <1>14, <1>15 DEF Accounted
<1> QED
  BY <1>6, <1>7, <1>8, <1>16

LEMMA CountInv == ASSUME LimiterInv, NEW k \in RateKeys, Count(k) PROVE LimiterInv'
<1> DEFINE c == [count |-> IF counter[k].count <= Limit
                           THEN counter[k].count + 1 ELSE Limit + 1,
                 left |-> LeftAfter(k)]
           a == IF Admits(k) THEN [n \in 1..Window |-> admitted[k][n] + 1]
                ELSE admitted[k]
           R == IF Admits(k) THEN {}
                ELSE IF refusing[k] = {} THEN {0} ELSE refusing[k]
<1>1. /\ c \in Counters /\ a \in Admissions /\ R \in Refusals
      /\ Accounted(c, a, R)
  BY CountAccounted
<1>2. /\ counter \in [RateKeys -> Counters] /\ admitted \in [RateKeys -> Admissions]
      /\ refusing \in [RateKeys -> Refusals]
  BY LimiterTypes DEF LimiterInv
<1>3. counter' = [counter EXCEPT ![k] = c] /\ refusing' = [refusing EXCEPT ![k] = R]
  BY DEF Count
<1>4. admitted' = [admitted EXCEPT ![k] = a]
  BY <1>2 DEF Count
<1> HIDE DEF c, a, R
<1>5. /\ counter' \in [RateKeys -> Counters] /\ admitted' \in [RateKeys -> Admissions]
      /\ refusing' \in [RateKeys -> Refusals]
  BY <1>1, <1>2, <1>3, <1>4
<1>6. \A i \in RateKeys : Accounted(counter'[i], admitted'[i], refusing'[i])
  BY <1>1, <1>2, <1>3, <1>4 DEF LimiterInv
<1> QED
  BY <1>5, <1>6 DEF LimiterInv, LimiterTypeOK, Counters, Admissions, Refusals

\* A tick ages what was admitted and refused, and may end the window.
LEMMA TickAccounted ==
  ASSUME LimiterInv, LimiterTick, NEW k \in RateKeys
  PROVE  /\ counter'[k] \in Counters /\ admitted'[k] \in Admissions
         /\ refusing'[k] \in Refusals
         /\ Accounted(counter'[k], admitted'[k], refusing'[k])
<1>1. /\ Limit \in Nat \ {0} /\ Window \in Nat \ {0}
      /\ NoExpiry < 0 /\ NoExpiry \in Int
  BY LimiterTypes
<1>2. /\ counter[k] \in Counters /\ admitted[k] \in Admissions
      /\ refusing[k] \in Refusals
      /\ Accounted(counter[k], admitted[k], refusing[k])
  BY LimiterTypes DEF LimiterInv
<1>3. /\ counter[k].count \in 0..(Limit + 1)
      /\ counter[k].left \in {NoExpiry} \cup 0..Window
      /\ \A n \in 1..Window : admitted[k][n] \in Nat
  BY <1>2 DEF Counters, Admissions
<1>4. \A m, n \in 1..Window : m <= n => admitted[k][m] <= admitted[k][n]
  BY <1>2 DEF Accounted
<1>5. /\ admitted'[k] \in Admissions
      /\ admitted'[k][1] = 0
      /\ \A n \in 2..Window :
           n - 1 \in 1..Window /\ admitted'[k][n] = admitted[k][n - 1]
  <2>1. admitted'[k] =
          [n \in 1..Window |-> IF n = 1 THEN 0 ELSE admitted[k][n - 1]]
    BY DEF LimiterTick
  <2>2. \A n \in 1..Window : n # 1 => n - 1 \in 1..Window
    BY <1>1
  <2>3. \A n \in 2..Window : n \in 1..Window /\ n # 1
    BY <1>1
  <2>4. 1 \in 1..Window
    BY <1>1
  <2>5. admitted'[k] \in Admissions
    BY <1>3, <2>1, <2>2 DEF Admissions
  <2> QED
    BY <2>1, <2>2, <2>3, <2>4, <2>5
<1>6. \A n \in 1..Window : admitted'[k][n] \in Nat /\ admitted'[k][n] <= admitted[k][n]
  <2> SUFFICES ASSUME NEW n \in 1..Window
               PROVE  admitted'[k][n] \in Nat /\ admitted'[k][n] <= admitted[k][n]
    OBVIOUS
  <2>1. CASE n = 1
    BY <1>3, <1>5, <2>1
  <2>2. CASE n # 1
    <3>1. n \in 2..Window /\ n - 1 \in 1..Window
      BY <1>1, <2>2
    <3>2. admitted[k][n - 1] <= admitted[k][n]
      BY <1>1, <1>4, <3>1
    <3> QED
      BY <1>3, <1>5, <3>1, <3>2
  <2> QED
    BY <2>1, <2>2
<1>7. \A m, n \in 1..Window : m <= n => admitted'[k][m] <= admitted'[k][n]
  <2> SUFFICES ASSUME NEW m \in 1..Window, NEW n \in 1..Window, m <= n
               PROVE  admitted'[k][m] <= admitted'[k][n]
    OBVIOUS
  <2>1. CASE m = 1
    BY <1>5, <1>6, <2>1
  <2>2. CASE m # 1
    <3>1. m \in 2..Window /\ n \in 2..Window /\ m - 1 <= n - 1
      BY <1>1, <2>2
    <3> QED
      BY <1>4, <1>5, <3>1
  <2> QED
    BY <2>1, <2>2
<1>8. 1 \in 1..Window /\ Window \in 1..Window
  BY <1>1
<1>9. CASE counter[k].left = NoExpiry
  <2>1. counter'[k] = counter[k]
    BY <1>9 DEF LimiterTick
  <2>2. refusing[k] = {} /\ admitted[k][Window] = 0 /\ counter[k].count = Limit + 1
    BY <1>2, <1>9 DEF Accounted
  <2>3. refusing'[k] = {}
    BY <2>2 DEF LimiterTick
  <2>4. admitted'[k][Window] = 0
    BY <1>6, <1>8, <2>2
  <2>5. Accounted(counter'[k], admitted'[k], refusing'[k])
    BY <1>1, <1>7, <1>9, <2>1, <2>2, <2>3, <2>4 DEF Accounted
  <2> QED
    BY <1>2, <1>5, <2>1, <2>3, <2>5 DEF Refusals
<1>10. CASE counter[k].left \in 0..Window /\ counter[k].left <= 1
  <2>1. counter'[k] = Absent
    BY <1>1, <1>10 DEF LimiterTick
  <2>2. refusing'[k] = {}
    BY <2>1 DEF LimiterTick
  <2>3. admitted[k][Window] <= Limit
    <3>1. CASE counter[k].left = 0
      BY <1>2, <3>1 DEF Accounted
    <3>2. CASE counter[k].left = 1
      <4>1. Window - 1 + 1 = Window
        BY <1>1
      <4> QED
        BY <1>2, <3>2, <4>1 DEF Accounted
    <3> QED
      BY <1>10, <3>1, <3>2
  <2>4. admitted'[k][Window] <= Limit
    BY <1>1, <1>3, <1>6, <1>8, <2>3
  <2>5. Absent.count = 0 /\ Absent.left = 0
    BY DEF Absent
  <2>6. Accounted(Absent, admitted'[k], {})
    BY <1>1, <1>5, <1>7, <2>4, <2>5 DEF Accounted
  <2> QED
    BY <1>5, <2>1, <2>2, <2>6, LimiterTypes DEF Refusals
<1>11. CASE counter[k].left \in 2..Window
  <2>1. counter'[k] = [counter[k] EXCEPT !.left = @ - 1]
    <3>1. ~(counter[k].left = NoExpiry) /\ ~(counter[k].left <= 1)
      BY <1>1, <1>11
    <3> QED
      BY <3>1 DEF LimiterTick
  <2>2. counter'[k].left = counter[k].left - 1 /\ counter'[k].count = counter[k].count
    BY <1>2, <2>1 DEF Counters
  <2>3. counter'[k] \in Counters
    <3>1. counter[k].left - 1 \in 0..Window
      BY <1>1, <1>11
    <3> QED
      BY <1>2, <2>1, <3>1 DEF Counters
  <2>4. /\ counter[k].count > 0
        /\ admitted[k][Window - counter[k].left + 1] <= counter[k].count
        /\ admitted[k][Window - counter[k].left + 1] <= Limit
        /\ admitted[k][Window] - admitted[k][Window - counter[k].left + 1] <= Limit
        /\ \A t \in refusing[k] :
             counter[k].count >= Limit /\ t + counter[k].left <= Window
    <3>1. counter[k].left > 0
      BY <1>11
    <3> QED
      BY <1>2, <3>1 DEF Accounted
  <2> DEFINE s == Window - counter[k].left + 1
  <2>5. /\ s \in 1..Window /\ s + 1 \in 2..Window /\ s + 1 \in 1..Window
        /\ s + 1 = Window - counter'[k].left + 1 /\ (s + 1) - 1 = s
    BY <1>1, <1>11, <2>2
  <2>6. admitted'[k][Window - counter'[k].left + 1] = admitted[k][s]
    BY <1>5, <2>5
  <2>7. admitted[k][s] \in Nat /\ admitted[k][Window] \in Nat
        /\ admitted'[k][Window] \in Nat /\ admitted'[k][Window] <= admitted[k][Window]
    BY <1>3, <1>6, <1>8, <2>5
  <2>8. admitted'[k][Window] - admitted[k][s] <= Limit
    <3>1. admitted[k][Window] - admitted[k][s] <= Limit
      BY <2>4
    <3> HIDE DEF s
    <3> QED
      BY <1>1, <2>7, <3>1
  <2>9. refusing'[k] \subseteq {t + 1 : t \in refusing[k]}
    BY DEF LimiterTick
  <2>10. \A t \in refusing[k] : t \in 0..Window
    BY <1>2 DEF Refusals
  <2>11. \A t \in refusing'[k] :
           counter'[k].count >= Limit /\ t + counter'[k].left <= Window
    BY <1>1, <1>11, <2>2, <2>4, <2>9, <2>10
  <2>12. refusing'[k] \in Refusals
    <3>1. counter'[k] # Absent
      BY <1>11, <2>2 DEF Absent
    <3>2. refusing'[k] = {t + 1 : t \in refusing[k] \ {Window}}
      BY <3>1 DEF LimiterTick
    <3>3. CASE refusing[k] = {}
      BY <3>2, <3>3 DEF Refusals
    <3>4. ASSUME NEW t \in 0..Window, refusing[k] = {t} PROVE refusing'[k] \in Refusals
      <4>1. t + 1 \in 0..Window
        BY <1>1, <1>11, <2>4, <3>4
      <4>2. refusing'[k] = {} \/ refusing'[k] = {t + 1}
        BY <3>2, <3>4
      <4> QED
        BY <4>1, <4>2 DEF Refusals
    <3> QED
      BY <1>2, <3>3, <3>4 DEF Refusals
  <2>13. counter'[k].left > 0 /\ counter'[k].left # 0 /\ counter'[k].left # NoExpiry
    BY <1>1, <1>11, <2>2
  <2>14. Accounted(counter'[k], admitted'[k], refusing'[k])
    BY <1>7, <2>2, <2>4, <2>6, <2>8, <2>11, <2>13 DEF Accounted
  <2> QED
    BY <1>5, <2>3, <2>12, <2>14
<1> QED
  BY <1>1, <1>3, <1>9, <1>10, <1>11

LEMMA LimiterTickInv == LimiterInv /\ LimiterTick => LimiterInv'
<1> SUFFICES ASSUME LimiterInv, LimiterTick PROVE LimiterInv'
  OBVIOUS
<1>1. /\ counter' = [k \in RateKeys |-> counter'[k]]
      /\ admitted' = [k \in RateKeys |-> admitted'[k]]
      /\ refusing' = [k \in RateKeys |-> refusing'[k]]
  BY DEF LimiterTick
<1>2. \A k \in RateKeys :
        /\ counter'[k] \in Counters /\ admitted'[k] \in Admissions
        /\ refusing'[k] \in Refusals
        /\ Accounted(counter'[k], admitted'[k], refusing'[k])
  BY TickAccounted
<1>3. /\ counter' \in [RateKeys -> Counters] /\ admitted' \in [RateKeys -> Admissions]
      /\ refusing' \in [RateKeys -> Refusals]
  BY <1>1, <1>2
<1> QED
  BY <1>2, <1>3 DEF LimiterInv, LimiterTypeOK, Counters, Admissions, Refusals

LEMMA LimiterNext == LimiterInv /\ [Next]_vars => LimiterInv'
<1>1. [Next]_vars => (\E k \in RateKeys : Count(k)) \/ LimiterTick \/ UNCHANGED lvars
  BY SessionsAssumption
     DEF Next, Request, Handle, FindByEmail, Throttle, FindValidByHash, Logout,
         InsertUser, Authenticate, Revoke, Issue, Deliver, Crash, Tick, vars
<1>2. LimiterInv /\ UNCHANGED lvars => LimiterInv'
  BY DEF LimiterInv, LimiterTypeOK, lvars
<1> QED
  BY <1>1, <1>2, CountInv, LimiterTickInv

LEMMA LimiterInvariance == Spec => []LimiterInv
<1>1. Init => LimiterInv
  BY LimiterInitInv DEF Init
<1> QED
  BY <1>1, LimiterNext, PTL DEF Spec

\* The fixed window of redisRateLimitScript admits no burst of more than twice
\* the limit, wherever two windows meet and for any limit and window.
THEOREM BurstsAreBounded == Spec => []BurstBound
<1> QED
  BY LimiterInvariance, LimiterInvImplies, PTL

\* No client is refused for longer than a window: the script's repair gives a
\* counter that lost its TTL an end.
THEOREM RefusalsAreShort == Spec => []RefusalsEnd
<1> QED
  BY LimiterInvariance, LimiterInvImplies, PTL

-----------------------------------------------------------------------------
(* Types, of what no property is about.                                    *)

OthersTyped ==
  /\ users \subseteq Addresses
  /\ left \in [Tokens -> 0..RefreshTTL]
  /\ client \in [Handlers -> Clients]
  /\ email \in [Handlers -> SUBSET Addresses]
  /\ spent \in [Handlers -> 0..RefreshTTL]

TypesInv == Inv /\ LimiterInv /\ OthersTyped

LEMMA TypesInvInit == Init => TypesInv
<1> SUFFICES ASSUME Init PROVE OthersTyped
  BY InvInit, LimiterInitInv DEF Init, TypesInv
<1>1. 0 \in 0..RefreshTTL
  BY SessionsAssumption
<1> QED
  BY <1>1 DEF Init, OthersTyped

\* A token lives no longer than RefreshTTL, also one whose clock was read before.
LEMMA IssueTyped ==
  ASSUME OthersTyped, NEW h \in Handlers, Issue(h)
  PROVE  OthersTyped'
<1>1. spent[h] \in 0..RefreshTTL /\ RefreshTTL \in Nat
  BY SessionsAssumption DEF OthersTyped
<1>2. RefreshTTL \in 0..RefreshTTL /\ RefreshTTL - spent[h] \in 0..RefreshTTL
      /\ 0 \in 0..RefreshTTL
  BY <1>1
<1>3. spent' = [spent EXCEPT ![h] = 0] /\ UNCHANGED <<users, client, email>>
  BY DEF Issue
<1>4. spent' \in [Handlers -> 0..RefreshTTL]
  BY <1>2, <1>3 DEF OthersTyped
<1>5. \/ UNCHANGED left
      \/ left' = [left EXCEPT ![tokens + 1] = RefreshTTL]
      \/ left' = [left EXCEPT ![tokens + 1] = RefreshTTL - spent[h]]
  BY DEF Issue, NewToken, tvars
<1>6. left' \in [Tokens -> 0..RefreshTTL]
  BY <1>2, <1>5 DEF OthersTyped
<1> QED
  BY <1>3, <1>4, <1>6 DEF OthersTyped

LEMMA TickTyped ==
  ASSUME OthersTyped, Tick
  PROVE  OthersTyped'
<1>1. UNCHANGED <<users, client, email>>
  BY DEF Tick
<1>2. left' \in [Tokens -> 0..RefreshTTL]
  <2>1. ASSUME NEW n \in 0..RefreshTTL PROVE Less(n) \in 0..RefreshTTL
    BY SessionsAssumption DEF Less
  <2>2. left' = [i \in Tokens |-> Less(left[i])]
    BY DEF Tick
  <2> QED
    BY <2>1, <2>2 DEF OthersTyped
<1>3. spent' \in [Handlers -> 0..RefreshTTL]
  <2>1. ASSUME NEW n \in 0..RefreshTTL, n < RefreshTTL PROVE n + 1 \in 0..RefreshTTL
    BY <2>1, SessionsAssumption
  <2>2. spent' = [h \in Handlers |->
                    IF (pc[h] = "revoke" \/ session[h] # 0) /\ spent[h] < RefreshTTL
                    THEN spent[h] + 1 ELSE spent[h]]
    BY DEF Tick
  <2>3. ASSUME NEW h \in Handlers PROVE spent'[h] \in 0..RefreshTTL
    BY <2>1, <2>2 DEF OthersTyped
  <2> QED
    BY <2>2, <2>3
<1> QED
  BY <1>1, <1>2, <1>3 DEF OthersTyped

LEMMA StepKeepsOthers == OthersTyped /\ [Next]_vars => OthersTyped'
<1> SUFFICES ASSUME OthersTyped, [Next]_vars PROVE OthersTyped'
  OBVIOUS
<1>1. ASSUME NEW h \in Handlers, NEW c \in Clients, Request(h, c) PROVE OthersTyped'
  <2>1. client' = [client EXCEPT ![h] = c] /\ UNCHANGED <<users, left, spent>>
    BY <1>1 DEF Request, FindByEmail, Throttle, FindValidByHash, Logout, Serves, tvars,
       local
  <2>2. email' \in [Handlers -> SUBSET Addresses]
    BY <1>1 DEF Request, FindByEmail, Throttle, FindValidByHash, Logout, local, OthersTyped
  <2> QED
    BY <2>1, <2>2 DEF OthersTyped
<1>2. ASSUME NEW h \in Handlers,
             InsertUser(h) \/ Authenticate(h) \/ Revoke(h) \/ Deliver(h) \/ Crash(h)
      PROVE  OthersTyped'
  <2>1. UNCHANGED <<left, client>>
    BY <1>2 DEF InsertUser, Authenticate, Revoke, Deliver, Crash, tvars
  <2>2. /\ UNCHANGED email \/ email' = [email EXCEPT ![h] = {}]
        /\ UNCHANGED spent \/ spent' = [spent EXCEPT ![h] = 0]
        /\ UNCHANGED users \/ users' = users \cup email[h]
    BY <1>2 DEF InsertUser, Authenticate, Revoke, Deliver, Crash
  <2>3. 0 \in 0..RefreshTTL
    BY SessionsAssumption
  <2> QED
    BY <2>1, <2>2, <2>3 DEF OthersTyped
<1>3. CASE UNCHANGED vars
  BY <1>3 DEF vars, tvars, local, OthersTyped
<1> QED
  BY <1>1, <1>2, <1>3, IssueTyped, TickTyped DEF Next, Handle

LEMMA StepKeepsTypes == TypesInv /\ [Next]_vars => TypesInv'
  BY StepKeepsInv, LimiterNext, StepKeepsOthers DEF TypesInv

LEMMA TypesInvImplies == TypesInv => TypeOK
  BY DEF TypesInv, Inv, Typed, Carried, LimiterInv, OthersTyped, TypeOK
=============================================================================
