-------------------------- MODULE Accounts_proofs --------------------------
(***************************************************************************)
(* Proofs about Accounts, for every number of workers, browsers, emails    *)
(* and sessions, and every limit.                                          *)
(***************************************************************************)
EXTENDS Accounts, WellFoundedInduction, TLAPS

Sessions == [email : Emails, login : Tokens, revoked : BOOLEAN, expired : BOOLEAN,
             replacedBy : Tokens \cup {NoToken}]

Places == {"limit", "expire", "admitted", "insert", "inserted", "reset", "issue",
           "read", "reuse", "refused", "rotate", "ended", "answered"}

Requests == [at : Places, op : {"register", "login", "refresh", "logout"},
             browser : Browsers, email : Emails, token : Tokens \cup {NoToken},
             seen : SUBSET Tokens]

TypeInv ==
    /\ account \in [Emails -> {{}, Parts}]
    /\ sessions \in [Tokens -> {NoSession} \cup Sessions]
    /\ cookie \in [Browsers -> Tokens \cup {NoToken}]
    /\ hits \in [Counters -> Nat]
    /\ timed \in [Counters -> BOOLEAN]
    /\ req \in [Workers -> {Idle} \cup Requests]
    /\ scene \in Scenes

\* Every token that somebody holds is in the database.
TokensExist ==
    /\ \A b \in Browsers : cookie[b] # NoToken => Exists(cookie[b])
    /\ \A w \in Workers : ~At(w, "idle") =>
          /\ req[w].token # NoToken => Exists(req[w].token)
          /\ req[w].at \in {"read", "reuse", "refused", "rotate", "ended"} =>
                req[w].token # NoToken /\ sessions[req[w].token].email = req[w].email

-----------------------------------------------------------------------------
(* Values *)

\* A row is not the absence of one, and a request is not idleness.
LEMMA Distinct ==
    /\ NoSession \notin Sessions
    /\ Idle \notin Requests
    /\ \A r \in Requests : r.at # "idle"
    /\ NoToken \notin Tokens
<1>1. NoSession \notin Sessions
  <2>1. SUFFICES ASSUME NoSession \in Sessions PROVE FALSE
    OBVIOUS
  <2>2. DOMAIN NoSession = {"email"}
    BY DEF NoSession
  <2>3. "login" \in DOMAIN NoSession
    BY <2>1 DEF Sessions
  <2>4. QED
    BY <2>2, <2>3
<1>2. \A r \in Requests : r.at # "idle"
  BY DEF Requests, Places
<1>3. Idle \notin Requests
  BY <1>2 DEF Idle
<1>4. NoToken \notin Tokens
  BY DEF NoToken, Tokens
<1>5. QED
  BY <1>1, <1>2, <1>3, <1>4

\* The next token is one that no session has.
LEMMA FreshIsSpare ==
    ASSUME Spare # {}
    PROVE  Fresh \in Tokens /\ ~Exists(Fresh) /\ Fresh # NoToken
<1>1. Spare \subseteq Nat
  BY AccountsAssumption DEF Spare, Tokens
<1>2. PICK s \in Spare : \A t \in Spare : ~(<<t, s>> \in OpToRel(<, Nat))
  BY <1>1, NatLessThanWellFounded, WFMin
<1>3. \A t \in Spare : ~(t < s)
  BY <1>1, <1>2, Zenon DEF OpToRel
<1>4. \A t \in Spare : s <= t
  BY <1>1, <1>3
<1>5. Fresh \in Spare
  BY <1>4 DEF Fresh
<1>6. QED
  BY <1>5, Distinct DEF Spare

-----------------------------------------------------------------------------
(* Steps *)

\* A request that is under way has the fields of one.
LEMMA Running ==
    ASSUME TypeInv, NEW w \in Workers, ~At(w, "idle")
    PROVE  req[w] \in Requests
BY DEF TypeInv, At, Idle

\* What the steps do to the sessions: they open one, revoke some or let them
\* expire; a row keeps its email and its login, and stays revoked.
SessionsGrow ==
    \A s \in Tokens : Exists(s) =>
        /\ sessions'[s] # NoSession
        /\ sessions'[s].email = sessions[s].email
        /\ sessions'[s].login = sessions[s].login
        /\ sessions[s].revoked => sessions'[s].revoked

\* The types hold in the next state, and rows are never lost.
LEMMA TypeStep ==
    ASSUME TypeInv, TokensExist, Next
    PROVE  TypeInv' /\ SessionsGrow
<1>1. ASSUME NEW w \in Workers, NEW b \in Browsers, NEW op \in {"register", "login"},
             NEW email \in Emails, AskLimit(w, b, op, email)
      PROVE  TypeInv' /\ SessionsGrow
  <2>1. req'[w] \in Requests
    BY <1>1 DEF AskLimit, TypeInv, Requests, Places
  <2>2. QED
    BY <1>1, <2>1 DEF AskLimit, TypeInv, SessionsGrow, KeepAccounts, KeepLimits, Exists
<1>2. ASSUME NEW w \in Workers, NEW b \in Browsers, NEW op \in {"refresh", "logout"},
             PresentToken(w, b, op)
      PROVE  TypeInv' /\ SessionsGrow
  <2>1. sessions[cookie[b]] \in Sessions
    BY <1>2 DEF PresentToken, TypeInv, TokensExist, Exists
  <2>2. req'[w] \in Requests
    BY <1>2, <2>1 DEF PresentToken, TypeInv, Requests, Places, Sessions, Family
  <2>3. QED
    BY <1>2, <2>2 DEF PresentToken, TypeInv, SessionsGrow, KeepAccounts, KeepLimits, Exists
<1>3. ASSUME NEW w \in Workers, Count(w) PROVE TypeInv' /\ SessionsGrow
  <2>1. req[w] \in Requests
    BY <1>3, Running DEF Count, At
  <2>2. req' \in [Workers -> {Idle} \cup Requests]
    BY <1>3, <2>1 DEF Count, TypeInv, Requests, Places, Goes, Ends
  <2>3. hits' \in [Counters -> Nat]
    <3> DEFINE k == CounterOf(req[w])
    <3>1. hits' = [hits EXCEPT ![k] = hits[k] + 1]
      BY <1>3 DEF Count
    <3> HIDE DEF k
    <3>2. \A j \in Counters : j = k => hits[k] + 1 \in Nat
      BY DEF TypeInv
    <3>3. QED
      BY <3>1, <3>2 DEF TypeInv
  <2>4. QED
    BY <1>3, <2>2, <2>3 DEF Count, TypeInv, SessionsGrow, KeepAccounts, Exists
<1>4. ASSUME NEW w \in Workers, SetExpiry(w) PROVE TypeInv' /\ SessionsGrow
  <2>1. req[w] \in Requests
    BY <1>4, Running DEF SetExpiry, At
  <2>2. req' \in [Workers -> {Idle} \cup Requests]
    BY <1>4, <2>1 DEF SetExpiry, TypeInv, Requests, Places, Goes
  <2>3. timed' \in [Counters -> BOOLEAN]
    <3> DEFINE k == CounterOf(req[w])
               lives == hits[k] > 0
    <3>1. timed' = [timed EXCEPT ![k] = lives]
      BY <1>4 DEF SetExpiry
    <3>2. lives \in BOOLEAN
      OBVIOUS
    <3> HIDE DEF k, lives
    <3>3. QED
      BY <3>1, <3>2 DEF TypeInv
  <2>4. QED
    BY <1>4, <2>2, <2>3 DEF SetExpiry, TypeInv, SessionsGrow, KeepAccounts, Exists
<1>5. ASSUME NEW w \in Workers,
             RedisFails(w) \/ LookUp(w) \/ InsertUser(w) \/ Authenticate(w) \/ ReadToken(w)
                \/ Refuse(w) \/ Fails(w)
      PROVE  TypeInv' /\ SessionsGrow
  <2>1. req[w] \in Requests
    BY <1>5, Running DEF RedisFails, LookUp, InsertUser, Authenticate, ReadToken, Refuse, Fails, At
  <2>2. \/ Ends(w)
        \/ \E place \in Places : Goes(w, place)
    BY <1>5 DEF RedisFails, LookUp, InsertUser, Authenticate, ReadToken, Refuse, Fails, Places
  <2>3. req' \in [Workers -> {Idle} \cup Requests]
    BY <2>1, <2>2 DEF TypeInv, Requests, Goes, Ends
  <2>4. UNCHANGED <<account, sessions, cookie, hits, timed, scene>>
    BY <1>5 DEF RedisFails, LookUp, InsertUser, Authenticate, ReadToken, Refuse, Fails,
                KeepAccounts, KeepLimits
  <2>5. QED
    BY <2>3, <2>4 DEF TypeInv, SessionsGrow, Exists
<1>6. ASSUME NEW w \in Workers, Register(w) \/ Login(w) \/ Rotate(w)
      PROVE  TypeInv' /\ SessionsGrow
  <2>1. req[w] \in Requests
    BY <1>6, Running DEF Register, Login, Rotate, At
  <2>2. Fresh \in Tokens /\ ~Exists(Fresh)
    BY <1>6, FreshIsSpare DEF Register, Login, Rotate, Issues
  <2>3. req' \in [Workers -> {Idle} \cup Requests]
    BY <1>6, <2>1, <2>2 DEF Register, Login, Rotate, Issues, TypeInv, Requests, Places
  <2>4. account' \in [Emails -> {{}, Parts}]
    BY <1>6 DEF Register, Login, Rotate, TypeInv
  <2>5. CASE Register(w) \/ Login(w)
    <3>1. sessions' = [sessions EXCEPT ![Fresh] = Opened(req[w].email, Fresh)]
      BY <2>5 DEF Register, Login
    <3>2. Opened(req[w].email, Fresh) \in Sessions
      BY <2>1, <2>2 DEF Opened, Sessions, Requests
    <3>3. sessions' \in [Tokens -> {NoSession} \cup Sessions]
      BY <3>1, <3>2 DEF TypeInv
    <3>4. SessionsGrow
      BY <2>2, <3>1 DEF TypeInv, SessionsGrow, Exists
    <3>5. QED
      BY <1>6, <2>3, <2>4, <3>3, <3>4
      DEF Register, Login, Rotate, Issues, TypeInv, KeepLimits
  <2>6. CASE Rotate(w)
    <3> DEFINE old == req[w].token
               new == Opened(req[w].email, sessions[old].login)
    <3>1. old \in Tokens /\ Exists(old) /\ old # Fresh
      BY <2>1, <2>2, <2>6 DEF Rotate, At, TokensExist, Requests
    <3>2. sessions[old] \in Sessions
      BY <3>1 DEF TypeInv, Exists
    <3>3. sessions' = [sessions EXCEPT ![Fresh] = new, ![old].revoked = TRUE,
                                       ![old].replacedBy = Fresh]
      BY <2>6 DEF Rotate
    <3>4. new \in Sessions
      BY <2>1, <3>2 DEF Opened, Sessions, Requests
    <3> HIDE DEF new, old
    <3>5. /\ sessions'[Fresh] = new
          /\ sessions'[old] = [sessions[old] EXCEPT !.revoked = TRUE, !.replacedBy = Fresh]
          /\ \A s \in Tokens \ {Fresh, old} : sessions'[s] = sessions[s]
      BY <2>2, <3>1, <3>3 DEF TypeInv
    <3>6. /\ sessions'[old] \in Sessions
          /\ sessions'[old].email = sessions[old].email
          /\ sessions'[old].login = sessions[old].login
          /\ sessions'[old].revoked = TRUE
      BY <2>2, <3>2, <3>5 DEF Sessions
    <3>7. DOMAIN sessions' = Tokens
      BY <3>3 DEF TypeInv
    <3>8. sessions' \in [Tokens -> {NoSession} \cup Sessions]
      BY <2>2, <3>1, <3>3, <3>4, <3>5, <3>6 DEF TypeInv
    <3>9. SessionsGrow
      BY <2>2, <3>1, <3>5, <3>6, Distinct DEF SessionsGrow, Exists
    <3>10. QED
      BY <2>6, <2>3, <2>4, <3>8, <3>9 DEF Rotate, Issues, TypeInv, KeepLimits
  <2>7. QED
    BY <1>6, <2>5, <2>6
<1>7. ASSUME NEW w \in Workers, ResetLimit(w) PROVE TypeInv' /\ SessionsGrow
  <2>1. req[w] \in Requests
    BY <1>7, Running DEF ResetLimit, At
  <2>2. req' \in [Workers -> {Idle} \cup Requests]
    BY <1>7, <2>1 DEF ResetLimit, TypeInv, Requests, Places, Goes
  <2>3. hits' \in [Counters -> Nat] /\ timed' \in [Counters -> BOOLEAN]
    <3> DEFINE k == CounterOf(req[w])
    <3>1. \/ hits' = [hits EXCEPT ![k] = 0] /\ timed' = [timed EXCEPT ![k] = FALSE]
          \/ hits' = hits /\ timed' = timed
      BY <1>7 DEF ResetLimit, KeepLimits
    <3> HIDE DEF k
    <3>2. hits' \in [Counters -> Nat]
      BY <3>1 DEF TypeInv
    <3>3. timed' \in [Counters -> BOOLEAN]
      BY <3>1 DEF TypeInv
    <3>4. QED
      BY <3>2, <3>3
  <2>4. QED
    BY <1>7, <2>2, <2>3 DEF ResetLimit, TypeInv, SessionsGrow, KeepAccounts, Exists
<1>8. ASSUME NEW w \in Workers, RevokeAll(w) PROVE TypeInv' /\ SessionsGrow
  <2>1. req[w] \in Requests
    BY <1>8, Running DEF RevokeAll, At
  <2>2. req' \in [Workers -> {Idle} \cup Requests]
    BY <1>8, <2>1 DEF RevokeAll, TypeInv, Requests, Places, Goes
  <2>3. ASSUME NEW s \in Tokens, s \in Family(req[w].email)
        PROVE  /\ sessions'[s] \in Sessions
               /\ sessions'[s].email = sessions[s].email
               /\ sessions'[s].login = sessions[s].login
               /\ sessions'[s].revoked = TRUE
    <3>1. sessions[s] \in Sessions
      BY <2>3 DEF TypeInv, Family, Live, Exists
    <3>2. sessions'[s] = [sessions[s] EXCEPT !.revoked = TRUE]
      BY <1>8, <2>3 DEF RevokeAll
    <3>3. QED
      BY <3>1, <3>2 DEF Sessions
  <2>4. \A s \in Tokens : s \notin Family(req[w].email) => sessions'[s] = sessions[s]
    BY <1>8 DEF RevokeAll
  <2>5. sessions' = [s \in Tokens |-> sessions'[s]]
    <3> DEFINE row(s) == IF s \in Family(req[w].email)
                         THEN [sessions[s] EXCEPT !.revoked = TRUE] ELSE sessions[s]
    <3>1. sessions' = [s \in Tokens |-> row(s)]
      BY <1>8 DEF RevokeAll
    <3> HIDE DEF row
    <3>2. QED
      BY <3>1
  <2>6. sessions' \in [Tokens -> {NoSession} \cup Sessions]
    BY <2>3, <2>4, <2>5 DEF TypeInv
  <2>7. SessionsGrow
    BY <2>3, <2>4, Distinct DEF SessionsGrow, Exists
  <2>8. QED
    BY <1>8, <2>2, <2>6, <2>7 DEF RevokeAll, TypeInv, KeepLimits
<1>9. ASSUME NEW w \in Workers, Logout(w) PROVE TypeInv' /\ SessionsGrow
  <2> DEFINE old == req[w].token
  <2>1. req[w] \in Requests
    BY <1>9, Running DEF Logout, At
  <2>2. req' \in [Workers -> {Idle} \cup Requests]
    BY <1>9, <2>1 DEF Logout, TypeInv, Requests, Places
  <2>3. old \in Tokens /\ sessions[old] \in Sessions
    BY <1>9, <2>1 DEF Logout, At, TokensExist, Requests, TypeInv, Exists
  <2>4. sessions' = [sessions EXCEPT ![old].revoked = TRUE]
    BY <1>9 DEF Logout
  <2> HIDE DEF old
  <2>5. sessions'[old] = [sessions[old] EXCEPT !.revoked = TRUE]
    BY <2>3, <2>4 DEF TypeInv
  <2>6. /\ sessions'[old] \in Sessions
        /\ sessions'[old].email = sessions[old].email
        /\ sessions'[old].login = sessions[old].login
        /\ sessions'[old].revoked = TRUE
    BY <2>3, <2>5 DEF Sessions
  <2>7. \A s \in Tokens \ {old} : sessions'[s] = sessions[s]
    BY <2>4 DEF TypeInv
  <2>8. sessions' \in [Tokens -> {NoSession} \cup Sessions]
    BY <2>4, <2>6, <2>7 DEF TypeInv
  <2>9. SessionsGrow
    BY <2>6, <2>7, Distinct DEF SessionsGrow, Exists
  <2>10. QED
    BY <1>9, <2>2, <2>8, <2>9 DEF Logout, TypeInv, KeepLimits
<1>10. ASSUME NEW w \in Workers, Deliver(w) PROVE TypeInv' /\ SessionsGrow
  <2>1. req[w] \in Requests
    BY <1>10, Running DEF Deliver, At
  <2>2. QED
    BY <1>10, <2>1 DEF Deliver, TypeInv, Requests, Ends, SessionsGrow, KeepLimits, Exists
<1>11. ASSUME NEW k \in Counters, WindowEnds(k) PROVE TypeInv' /\ SessionsGrow
  BY <1>11 DEF WindowEnds, TypeInv, SessionsGrow, KeepAccounts, Exists
<1>12. ASSUME NEW s \in Tokens, Expires(s) PROVE TypeInv' /\ SessionsGrow
  <2>1. sessions[s] \in Sessions
    BY <1>12 DEF Expires, TypeInv, Live, Exists
  <2>2. sessions' = [sessions EXCEPT ![s].expired = TRUE]
    BY <1>12 DEF Expires
  <2>3. sessions'[s] = [sessions[s] EXCEPT !.expired = TRUE]
    BY <2>2 DEF TypeInv
  <2>4. /\ sessions'[s] \in Sessions
        /\ sessions'[s].email = sessions[s].email
        /\ sessions'[s].login = sessions[s].login
        /\ sessions'[s].revoked = sessions[s].revoked
    BY <2>1, <2>3 DEF Sessions
  <2>5. \A t \in Tokens \ {s} : sessions'[t] = sessions[t]
    BY <2>2 DEF TypeInv
  <2>6. sessions' \in [Tokens -> {NoSession} \cup Sessions]
    BY <2>2, <2>4, <2>5 DEF TypeInv
  <2>7. SessionsGrow
    BY <2>4, <2>5, Distinct DEF SessionsGrow, Exists
  <2>8. QED
    BY <1>12, <2>6, <2>7 DEF Expires, TypeInv, KeepLimits
<1>13. QED
  BY <1>1, <1>2, <1>3, <1>4, <1>5, <1>6, <1>7, <1>8, <1>9, <1>10, <1>11, <1>12
  DEF Next, Arrive, Step

\* Most steps leave the other requests as they are, and the tokens with them.
LEMMA TokensStep ==
    ASSUME TypeInv, TokensExist, TypeInv', SessionsGrow, Next
    PROVE  TokensExist'
<1>1. ASSUME NEW w \in Workers, NEW b \in Browsers, NEW op \in {"register", "login"},
             NEW email \in Emails, AskLimit(w, b, op, email)
      PROVE  TokensExist'
  BY <1>1 DEF AskLimit, TokensExist, TypeInv, KeepAccounts, Exists, At
<1>2. ASSUME NEW w \in Workers, NEW b \in Browsers, NEW op \in {"refresh", "logout"},
             PresentToken(w, b, op)
      PROVE  TokensExist'
  BY <1>2 DEF PresentToken, TokensExist, TypeInv, KeepAccounts, Exists, At
<1>3. ASSUME NEW w \in Workers,
             \/ Count(w) \/ SetExpiry(w) \/ RedisFails(w) \/ LookUp(w) \/ InsertUser(w)
             \/ Authenticate(w) \/ ResetLimit(w) \/ ReadToken(w) \/ Refuse(w) \/ Fails(w)
      PROVE  TokensExist'
  <2>1. UNCHANGED <<account, sessions, cookie>>
    BY <1>3 DEF Count, SetExpiry, RedisFails, LookUp, InsertUser, Authenticate, ResetLimit,
                ReadToken, Refuse, Fails, KeepAccounts
  <2>2. req[w] \in Requests
    BY <1>3, Running DEF Count, SetExpiry, RedisFails, LookUp, InsertUser, Authenticate,
                         ResetLimit, ReadToken, Refuse, Fails, At
  <2>3. \/ Ends(w)
        \/ \E place \in {"expire", "admitted", "insert", "inserted", "reset", "issue"} :
              Goes(w, place)
        \/ At(w, "read") /\ \E place \in {"reuse", "refused", "rotate"} : Goes(w, place)
    BY <1>3 DEF Count, SetExpiry, RedisFails, LookUp, InsertUser, Authenticate, ResetLimit,
                ReadToken, Refuse, Fails
  <2>4. \A v \in Workers \ {w} : req'[v] = req[v]
    BY <2>3 DEF TypeInv, Goes, Ends
  <2>5. \/ req'[w] = Idle
        \/ /\ req'[w].token = req[w].token /\ req'[w].email = req[w].email
           /\ \/ req'[w].at \notin {"read", "reuse", "refused", "rotate", "ended"}
              \/ At(w, "read")
    BY <2>2, <2>3 DEF TypeInv, Goes, Ends, Requests
  <2>6. ASSUME req'[w] # Idle
        PROVE  /\ req'[w].token # NoToken => Exists(req'[w].token)
               /\ req'[w].at \in {"read", "reuse", "refused", "rotate", "ended"} =>
                     /\ req'[w].token # NoToken
                     /\ sessions[req'[w].token].email = req'[w].email
    <3>1. ~At(w, "idle")
      BY <2>2, Distinct DEF At
    <3>2. QED
      BY <2>5, <2>6, <3>1 DEF TokensExist, At
  <2>7. req'[w] = Idle => req'[w].at = "idle"
    BY DEF Idle
  <2>8. QED
    BY <2>1, <2>4, <2>6, <2>7 DEF TokensExist, Exists, At
<1>4. ASSUME NEW w \in Workers, Register(w) \/ Login(w) \/ Rotate(w)
      PROVE  TokensExist'
  <2>1. Fresh \in Tokens
    BY <1>4, FreshIsSpare DEF Register, Login, Rotate, Issues
  <2>2. req[w] \in Requests
    BY <1>4, Running DEF Register, Login, Rotate, At
  <2>3. sessions'[Fresh] # NoSession
    <3>1. CASE Register(w) \/ Login(w)
      <4>1. sessions' = [sessions EXCEPT ![Fresh] = Opened(req[w].email, Fresh)]
        BY <3>1 DEF Register, Login
      <4>2. Opened(req[w].email, Fresh) \in Sessions
        BY <2>1, <2>2 DEF Opened, Sessions, Requests
      <4>3. QED
        BY <2>1, <4>1, <4>2, Distinct DEF TypeInv
    <3>2. CASE Rotate(w)
      <4> DEFINE old == req[w].token
                 next == Opened(req[w].email, sessions[old].login)
      <4>1. old \in Tokens /\ Exists(old)
        BY <2>2, <3>2 DEF Rotate, At, TokensExist, Requests
      <4>2. old # Fresh
        BY <4>1, <3>2, FreshIsSpare DEF Rotate, Issues
      <4>3. next \in Sessions
        BY <2>2, <4>1 DEF Opened, Sessions, Requests, TypeInv, Exists
      <4>4. sessions' = [sessions EXCEPT ![Fresh] = next, ![old].revoked = TRUE,
                                         ![old].replacedBy = Fresh]
        BY <3>2 DEF Rotate
      <4> HIDE DEF next, old
      <4>5. QED
        BY <2>1, <4>1, <4>2, <4>3, <4>4, Distinct DEF TypeInv
    <3>3. QED
      BY <1>4, <3>1, <3>2
  <2>4. /\ cookie' = cookie
        /\ req' = [req EXCEPT ![w].at = "answered", ![w].token = Fresh]
    BY <1>4 DEF Register, Login, Rotate, Issues
  <2>5. req'[w] = [req[w] EXCEPT !.at = "answered", !.token = Fresh]
    BY <2>4 DEF TypeInv
  <2>6. req'[w].at = "answered" /\ req'[w].token = Fresh
    BY <2>2, <2>5 DEF Requests
  <2>7. \A v \in Workers \ {w} : req'[v] = req[v]
    BY <2>4 DEF TypeInv
  <2>8. QED
    BY <2>1, <2>3, <2>4, <2>6, <2>7
    DEF TokensExist, TypeInv, SessionsGrow, Exists, At, Requests, Idle
<1>5. ASSUME NEW w \in Workers, RevokeAll(w)
      PROVE  TokensExist'
  BY <1>5 DEF RevokeAll, TokensExist, TypeInv, SessionsGrow, Exists, At, Goes, Requests, Idle
<1>6. ASSUME NEW w \in Workers, Logout(w)
      PROVE  TokensExist'
  <2>1. req[w] \in Requests
    BY <1>6, Running DEF Logout, At
  <2>2. /\ cookie' = cookie
        /\ req' = [req EXCEPT ![w].at = "answered", ![w].token = NoToken]
    BY <1>6 DEF Logout
  <2>3. req'[w].at = "answered" /\ req'[w].token = NoToken
    BY <2>1, <2>2 DEF TypeInv, Requests
  <2>4. \A v \in Workers \ {w} : req'[v] = req[v]
    BY <2>2 DEF TypeInv
  <2>5. QED
    BY <2>2, <2>3, <2>4 DEF TokensExist, TypeInv, SessionsGrow, Exists, At, Requests, Idle
<1>7. ASSUME NEW w \in Workers, Deliver(w)
      PROVE  TokensExist'
  <2>1. req[w] \in Requests
    BY <1>7, Running DEF Deliver, At
  <2>2. QED
    BY <1>7, <2>1 DEF Deliver, TokensExist, TypeInv, Exists, At, Ends, Requests, Idle
<1>8. CASE (\E k \in Counters : WindowEnds(k)) \/ (\E s \in Tokens : Expires(s))
  <2>1. cookie' = cookie /\ req' = req
    BY <1>8 DEF WindowEnds, Expires, KeepAccounts
  <2>2. QED
    BY <2>1 DEF TokensExist, TypeInv, SessionsGrow, Exists, At, Requests, Idle
<1>9. QED
  BY <1>1, <1>2, <1>3, <1>4, <1>5, <1>6, <1>7, <1>8 DEF Next, Arrive, Step

\* TypeInv and TokensExist are an inductive invariant of the specification.
LEMMA SpecTypes == Spec => [](TypeInv /\ TokensExist)
<1>1. Init => TypeInv /\ TokensExist
  BY AccountsAssumption, Distinct DEF Init, TypeInv, TokensExist, Exists, At, Idle, NoToken
<1>2. TypeInv /\ TokensExist /\ [Next]_vars => (TypeInv /\ TokensExist)'
  <2>1. SUFFICES ASSUME TypeInv, TokensExist, [Next]_vars PROVE (TypeInv /\ TokensExist)'
    OBVIOUS
  <2>2. CASE Next
    BY <2>1, <2>2, TypeStep, TokensStep
  <2>3. CASE UNCHANGED vars
    BY <2>1, <2>3 DEF vars, TypeInv, TokensExist, Exists, At
  <2>4. QED
    BY <2>1, <2>2, <2>3
<1>3. QED
  BY <1>1, <1>2, PTL DEF Spec

-----------------------------------------------------------------------------
(* The limiter *)

\* A step that leaves the counters alone, and the requests that are about to set
\* an expiry, leaves the promise about them alone.
LEMMA CountersKept ==
    ASSUME EveryCounterExpires, UNCHANGED <<hits, timed, scene>>,
           \A v \in Workers : At(v, "expire") => req'[v] = req[v]
    PROVE  EveryCounterExpires'
BY DEF EveryCounterExpires, At, CounterOf

\* A counter that does not expire is about to be told to, in every behaviour in
\* which the calls to Redis succeed (utils/rate_limit.py, check_rate_limit).
THEOREM CountersExpire == Spec => []EveryCounterExpires
<1>1. Init => EveryCounterExpires
  BY DEF Init, EveryCounterExpires
<1>2. TypeInv /\ EveryCounterExpires /\ [Next]_vars => EveryCounterExpires'
  <2>1. SUFFICES ASSUME TypeInv, EveryCounterExpires, [Next]_vars PROVE EveryCounterExpires'
    OBVIOUS
  <2>2. ASSUME NEW w \in Workers, Arrive(w) PROVE EveryCounterExpires'
    BY <2>1, <2>2, CountersKept
    DEF Arrive, AskLimit, PresentToken, MayArrive, KeepLimits, TypeInv, At
  <2>3. ASSUME NEW w \in Workers, Count(w) PROVE EveryCounterExpires'
    <3> DEFINE k == CounterOf(req[w])
    <3>1. \A v \in Workers \ {w} : req'[v] = req[v]
      BY <2>1, <2>3 DEF Count, TypeInv, Goes, Ends
    <3>2. /\ At(w, "limit") /\ timed' = timed /\ scene' = scene
          /\ hits' = [hits EXCEPT ![k] = hits[k] + 1]
      BY <2>3 DEF Count
    <3>3. hits[k] + 1 = 1 => req' = [req EXCEPT ![w].at = "expire"]
      BY <2>3 DEF Count, Goes
    <3>4. hits[k] + 1 = 1 => At(w, "expire")' /\ CounterOf(req'[w]) = k
      <4>1. req[w] \in Requests
        BY <2>1, <3>2, Running DEF At
      <4>2. QED
        BY <2>1, <3>3, <4>1 DEF TypeInv, At, CounterOf, Requests
    <3> HIDE DEF k
    <3>5. ASSUME scene.steady, NEW j \in Counters, hits'[j] > 0, ~timed[j]
          PROVE  \E v \in Workers : req'[v].at = "expire" /\ CounterOf(req'[v]) = j
      <4>1. CASE j = k /\ hits[k] = 0
        BY <3>4, <4>1 DEF At
      <4>2. CASE j # k \/ hits[k] # 0
        <5>1. hits[j] > 0
          BY <2>1, <3>2, <3>5, <4>2 DEF TypeInv
        <5>2. PICK v \in Workers : At(v, "expire") /\ CounterOf(req[v]) = j
          BY <2>1, <3>5, <5>1 DEF EveryCounterExpires
        <5>3. v # w
          BY <3>2, <5>2 DEF At
        <5>4. QED
          BY <3>1, <5>2, <5>3 DEF At
      <4>3. QED
        BY <4>1, <4>2
    <3>6. QED
      BY <3>2, <3>5 DEF EveryCounterExpires, At
  <2>4. ASSUME NEW w \in Workers, SetExpiry(w) PROVE EveryCounterExpires'
    <3> DEFINE k == CounterOf(req[w])
               lives == hits[k] > 0
    <3>1. \A v \in Workers \ {w} : req'[v] = req[v]
      BY <2>1, <2>4 DEF SetExpiry, TypeInv, Goes
    <3>2. hits' = hits /\ scene' = scene /\ timed' = [timed EXCEPT ![k] = lives]
      BY <2>4 DEF SetExpiry
    <3>3. ASSUME scene.steady, NEW j \in Counters, hits[j] > 0, ~timed'[j]
          PROVE  \E v \in Workers : req'[v].at = "expire" /\ CounterOf(req'[v]) = j
      <4>1. j # k
        BY <2>1, <3>2, <3>3 DEF TypeInv
      <4>2. ~timed[j]
        BY <2>1, <3>2, <3>3, <4>1 DEF TypeInv
      <4>3. PICK v \in Workers : At(v, "expire") /\ CounterOf(req[v]) = j
        BY <2>1, <3>3, <4>2 DEF EveryCounterExpires
      <4>4. QED
        BY <3>1, <4>1, <4>3 DEF At
    <3>4. QED
      BY <3>2, <3>3 DEF EveryCounterExpires, At
  <2>5. ASSUME NEW w \in Workers, RedisFails(w) PROVE EveryCounterExpires'
    BY <2>5 DEF RedisFails, EveryCounterExpires
  <2>6. ASSUME NEW w \in Workers, ResetLimit(w) PROVE EveryCounterExpires'
    <3> DEFINE k == CounterOf(req[w])
    <3>1. CASE ~scene.steady
      BY <2>6, <3>1 DEF ResetLimit, EveryCounterExpires
    <3>2. CASE scene.steady
      <4>1. /\ hits' = [hits EXCEPT ![k] = 0]
            /\ timed' = [timed EXCEPT ![k] = FALSE]
            /\ scene' = scene
        BY <2>6, <3>2 DEF ResetLimit
      <4>2. \A v \in Workers : At(v, "expire") => req'[v] = req[v]
        BY <2>1, <2>6 DEF ResetLimit, At, Goes, TypeInv
      <4> HIDE DEF k
      <4>3. ASSUME NEW j \in Counters, hits'[j] > 0
            PROVE  hits[j] > 0 /\ timed'[j] = timed[j]
        <5>1. j # k
          BY <2>1, <4>1, <4>3 DEF TypeInv
        <5>2. hits[j] > 0
          BY <2>1, <4>1, <4>3, <5>1 DEF TypeInv
        <5>3. timed'[j] = timed[j]
          BY <2>1, <4>1, <5>1 DEF TypeInv
        <5>4. QED
          BY <5>2, <5>3
      <4>4. QED
        BY <2>1, <4>1, <4>2, <4>3 DEF EveryCounterExpires, At
    <3>3. QED
      BY <3>1, <3>2
  <2>7. ASSUME NEW w \in Workers,
               \/ LookUp(w) \/ InsertUser(w) \/ Register(w) \/ Authenticate(w) \/ Login(w)
               \/ ReadToken(w) \/ Rotate(w) \/ RevokeAll(w) \/ Refuse(w) \/ Logout(w)
               \/ Deliver(w) \/ Fails(w)
        PROVE  EveryCounterExpires'
    <3>1. ~At(w, "expire") /\ UNCHANGED <<hits, timed, scene>>
      BY <2>7 DEF LookUp, InsertUser, Register, Authenticate, Login, ReadToken, Rotate, RevokeAll,
                  Refuse, Logout, Deliver, Fails, Issues, KeepLimits, At
    <3>2. \A v \in Workers \ {w} : req'[v] = req[v]
      BY <2>1, <2>7
      DEF LookUp, InsertUser, Register, Authenticate, Login, ReadToken, Rotate, RevokeAll,
          Refuse, Logout, Deliver, Fails, Issues, Goes, Ends, TypeInv
    <3>3. QED
      BY <2>1, <3>1, <3>2, CountersKept
  <2>8. ASSUME NEW k \in Counters, WindowEnds(k) PROVE EveryCounterExpires'
    <3>1. ASSUME NEW j \in Counters, hits'[j] > 0
          PROVE  hits[j] > 0 /\ timed'[j] = timed[j]
      <4>1. /\ hits' = [hits EXCEPT ![k] = 0]
            /\ timed' = [timed EXCEPT ![k] = FALSE]
        BY <2>8 DEF WindowEnds
      <4>2. j # k
        BY <2>1, <3>1, <4>1 DEF TypeInv
      <4>3. hits[j] > 0
        BY <2>1, <3>1, <4>1, <4>2 DEF TypeInv
      <4>4. timed'[j] = timed[j]
        BY <2>1, <4>1, <4>2 DEF TypeInv
      <4>5. QED
        BY <4>3, <4>4
    <3>2. QED
      BY <2>1, <2>8, <3>1 DEF WindowEnds, EveryCounterExpires, At
  <2>9. CASE (\E s \in Tokens : Expires(s)) \/ UNCHANGED vars
    BY <2>1, <2>9, CountersKept DEF Expires, KeepLimits, vars
  <2>10. QED
    BY <2>1, <2>2, <2>3, <2>4, <2>5, <2>6, <2>7, <2>8, <2>9 DEF Next, Step
<1>3. QED
  BY <1>1, <1>2, SpecTypes, PTL DEF Spec

\* What a request is as it arrives.
LEMMA Arrivals ==
    ASSUME TypeInv, NEW w \in Workers, Arrive(w)
    PROVE  /\ MayArrive(w)
           /\ \A v \in Workers \ {w} : req'[v] = req[v]
           /\ UNCHANGED <<account, sessions, scene>>
           /\ \/ req'[w].at = "limit" /\ req'[w].seen = {}
              \/ req'[w].at = "read" /\ req'[w].seen = Family(req'[w].email)
<1>1. ASSUME NEW b \in Browsers, NEW op \in {"register", "login"}, NEW email \in Emails,
             AskLimit(w, b, op, email)
      PROVE  /\ MayArrive(w)
             /\ \A v \in Workers \ {w} : req'[v] = req[v]
             /\ UNCHANGED <<account, sessions, scene>>
             /\ req'[w].at = "limit" /\ req'[w].seen = {}
  BY <1>1 DEF AskLimit, TypeInv, KeepAccounts
<1>2. ASSUME NEW b \in Browsers, NEW op \in {"refresh", "logout"}, PresentToken(w, b, op)
      PROVE  /\ MayArrive(w)
             /\ \A v \in Workers \ {w} : req'[v] = req[v]
             /\ UNCHANGED <<account, sessions, scene>>
             /\ req'[w].at = "read" /\ req'[w].seen = Family(req'[w].email)
  BY <1>2 DEF PresentToken, TypeInv, KeepAccounts
<1>3. QED
  BY <1>1, <1>2 DEF Arrive

-----------------------------------------------------------------------------
(* Cookies *)

\* Every session belongs to a whole account, and so will the one that a login is
\* about to open.
AccountsWhole ==
    /\ \A s \in Tokens : Exists(s) => account[sessions[s].email] = Parts
    /\ \A w \in Workers : req[w].at \in {"reset", "issue"} => account[req[w].email] = Parts

LEMMA AccountsStep ==
    ASSUME TypeInv, TokensExist, AccountsWhole, SessionsGrow, TypeInv', Next
    PROVE  AccountsWhole'
<1>1. ASSUME NEW w \in Workers, Register(w) \/ Login(w)
      PROVE  AccountsWhole'
  <2>1. req[w] \in Requests
    BY <1>1, Running DEF Register, Login, At
  <2>2. Fresh \in Tokens /\ ~Exists(Fresh)
    BY <1>1, FreshIsSpare DEF Register, Login, Issues
  <2>3. sessions' = [sessions EXCEPT ![Fresh] = Opened(req[w].email, Fresh)]
    BY <1>1 DEF Register, Login
  <2>4. sessions'[Fresh].email = req[w].email
    BY <2>2, <2>3 DEF TypeInv, Opened
  <2>5. /\ account'[req[w].email] = Parts
        /\ \A e \in Emails : account[e] = Parts => account'[e] = Parts
    BY <1>1, <2>1 DEF Register, Login, TypeInv, AccountsWhole, At, Requests
  <2>6. \A s \in Tokens \ {Fresh} : sessions'[s] = sessions[s]
    BY <2>3 DEF TypeInv
  <2>7. \A s \in Tokens : Exists(s) => sessions[s].email \in Emails
    BY DEF TypeInv, Exists, Sessions
  <2>8. \A s \in Tokens : sessions'[s] # NoSession => account'[sessions'[s].email] = Parts
    BY <2>4, <2>5, <2>6, <2>7 DEF AccountsWhole, Exists
  <2>9. /\ \A v \in Workers \ {w} : req'[v] = req[v]
        /\ req'[w].at = "answered"
    BY <1>1, <2>1 DEF Register, Login, Issues, TypeInv, Requests
  <2>10. \A v \in Workers : req[v].at \in {"reset", "issue"} => req[v].email \in Emails
    BY Running DEF At, Requests
  <2>11. QED
    BY <2>5, <2>8, <2>9, <2>10 DEF AccountsWhole, Exists
<1>2. ASSUME NEW w \in Workers, Rotate(w)
      PROVE  AccountsWhole'
  <2> DEFINE old == req[w].token
             next == Opened(req[w].email, sessions[old].login)
  <2>1. req[w] \in Requests
    BY <1>2, Running DEF Rotate, At
  <2>2. Fresh \in Tokens /\ ~Exists(Fresh)
    BY <1>2, FreshIsSpare DEF Rotate, Issues
  <2>3. old \in Tokens /\ Exists(old) /\ old # Fresh /\ sessions[old].email = req[w].email
    BY <1>2, <2>1, <2>2 DEF Rotate, At, TokensExist, Requests
  <2>4. sessions' = [sessions EXCEPT ![Fresh] = next, ![old].revoked = TRUE,
                                     ![old].replacedBy = Fresh]
    BY <1>2 DEF Rotate
  <2>5. next.email = sessions[old].email
    BY <2>3 DEF Opened
  <2> HIDE DEF old, next
  <2>6. /\ sessions'[Fresh] = next
        /\ \A s \in Tokens \ {Fresh, old} : sessions'[s] = sessions[s]
    BY <2>2, <2>3, <2>4 DEF TypeInv
  <2>7. sessions'[old].email = sessions[old].email
    BY <2>3 DEF SessionsGrow
  <2>8. account' = account
    BY <1>2 DEF Rotate
  <2>9. \A s \in Tokens : sessions'[s] # NoSession => account'[sessions'[s].email] = Parts
    BY <2>3, <2>5, <2>6, <2>7, <2>8 DEF AccountsWhole, Exists
  <2>10. /\ \A v \in Workers \ {w} : req'[v] = req[v]
         /\ req'[w].at = "answered"
    BY <1>2, <2>1 DEF Rotate, Issues, TypeInv, Requests
  <2>11. QED
    BY <2>8, <2>9, <2>10 DEF AccountsWhole, Exists
<1>3. ASSUME account' = account,
             \A s \in Tokens : Exists(s) <=> sessions'[s] # NoSession,
             \A w \in Workers : req'[w].at \in {"reset", "issue"} =>
                account[req'[w].email] = Parts
      PROVE  AccountsWhole'
  BY <1>3 DEF AccountsWhole, SessionsGrow, Exists
<1>4. ASSUME NEW w \in Workers,
             Arrive(w) \/ Count(w) \/ SetExpiry(w) \/ RedisFails(w) \/ LookUp(w) \/ InsertUser(w)
                \/ ReadToken(w) \/ Refuse(w) \/ Fails(w) \/ Deliver(w)
      PROVE  AccountsWhole'
  <2>1. account' = account /\ sessions' = sessions
    BY <1>4 DEF Arrive, AskLimit, PresentToken, Count, SetExpiry, RedisFails, LookUp, InsertUser,
                ReadToken, Refuse, Fails, Deliver, KeepAccounts
  <2>2. \A v \in Workers \ {w} : req'[v] = req[v]
    BY <1>4 DEF Arrive, AskLimit, PresentToken, Count, SetExpiry, RedisFails, LookUp, InsertUser,
                ReadToken, Refuse, Fails, Deliver, Goes, Ends, TypeInv
  <2>3. req'[w].at \notin {"reset", "issue"}
    <3>1. CASE Arrive(w)
      BY <3>1, Arrivals
    <3>2. CASE ~Arrive(w)
      <4>1. \/ Ends(w)
            \/ \E place \in Places \ {"reset", "issue"} : Goes(w, place)
        BY <1>4, <3>2 DEF Count, SetExpiry, RedisFails, LookUp, InsertUser, ReadToken, Refuse, Fails,
                          Deliver, Places
      <4>2. req[w] \in Requests
        BY <1>4, <3>2, Running DEF Count, SetExpiry, RedisFails, LookUp, InsertUser, ReadToken,
                                   Refuse, Fails, Deliver, At
      <4>3. QED
        BY <4>1, <4>2 DEF Goes, Ends, TypeInv, Idle, Requests
    <3>3. QED
      BY <3>1, <3>2
  <2>4. QED
    BY <1>3, <2>1, <2>2, <2>3 DEF AccountsWhole, Exists
<1>5. ASSUME NEW w \in Workers, Authenticate(w) \/ ResetLimit(w)
      PROVE  AccountsWhole'
  <2>1. account' = account /\ sessions' = sessions
    BY <1>5 DEF Authenticate, ResetLimit, KeepAccounts
  <2>2. req[w] \in Requests
    BY <1>5, Running DEF Authenticate, ResetLimit, At
  <2>3. \A v \in Workers \ {w} : req'[v] = req[v]
    BY <1>5 DEF Authenticate, ResetLimit, Goes, Ends, TypeInv
  <2>4. \/ req'[w] = Idle
        \/ account[req[w].email] = Parts /\ req'[w].email = req[w].email
    BY <1>5, <2>2 DEF Authenticate, ResetLimit, Goes, Ends, TypeInv, AccountsWhole, At, Requests
  <2>5. QED
    BY <1>3, <2>1, <2>3, <2>4 DEF AccountsWhole, Exists, Idle
<1>6. ASSUME NEW w \in Workers, RevokeAll(w) \/ Logout(w)
      PROVE  AccountsWhole'
  <2>1. account' = account
    BY <1>6 DEF RevokeAll, Logout
  <2>2. req[w] \in Requests
    BY <1>6, Running DEF RevokeAll, Logout, At
  <2>3. \A s \in Tokens : ~Exists(s) => sessions'[s] = sessions[s]
    <3>1. CASE RevokeAll(w)
      BY <3>1 DEF RevokeAll, Family, Live
    <3>2. CASE Logout(w)
      <4>1. Exists(req[w].token)
        BY <2>2, <3>2 DEF Logout, TokensExist, At
      <4>2. QED
        BY <3>2, <4>1 DEF Logout, TypeInv
    <3>3. QED
      BY <1>6, <3>1, <3>2
  <2>4. \A v \in Workers \ {w} : req'[v] = req[v]
    BY <1>6 DEF RevokeAll, Logout, Goes, TypeInv
  <2>5. req'[w].at \in {"ended", "answered"}
    BY <1>6, <2>2 DEF RevokeAll, Logout, Goes, TypeInv, Requests
  <2>6. QED
    BY <1>3, <2>1, <2>3, <2>4, <2>5 DEF AccountsWhole, SessionsGrow, Exists
<1>7. ASSUME NEW k \in Counters, WindowEnds(k) PROVE AccountsWhole'
  BY <1>3, <1>7 DEF WindowEnds, KeepAccounts, AccountsWhole, Exists
<1>8. ASSUME NEW s \in Tokens, Expires(s) PROVE AccountsWhole'
  <2>1. \A t \in Tokens : ~Exists(t) => sessions'[t] = sessions[t]
    BY <1>8 DEF Expires, Live, TypeInv
  <2>2. QED
    BY <1>3, <1>8, <2>1 DEF Expires, AccountsWhole, SessionsGrow, Exists
<1>9. QED
  BY <1>1, <1>2, <1>4, <1>5, <1>6, <1>7, <1>8 DEF Next, Step

\* A browser that was told it is in has a session, of a whole account: whatever
\* fails, races or is lost (api/routes/auth.py, services/auth_service.py).
THEOREM CookiesBacked == Spec => []CookiesAreBacked
<1>1. Init => AccountsWhole
  BY DEF Init, AccountsWhole, Exists, Idle
<1>2. TypeInv /\ TokensExist /\ AccountsWhole /\ [Next]_vars => AccountsWhole'
  <2>1. SUFFICES ASSUME TypeInv, TokensExist, AccountsWhole, [Next]_vars PROVE AccountsWhole'
    OBVIOUS
  <2>2. CASE Next
    BY <2>1, <2>2, TypeStep, AccountsStep
  <2>3. CASE UNCHANGED vars
    BY <2>1, <2>3 DEF vars, AccountsWhole, Exists
  <2>4. QED
    BY <2>1, <2>2, <2>3
<1>3. TypeInv /\ TokensExist /\ AccountsWhole => CookiesAreBacked
  BY DEF TypeInv, TokensExist, AccountsWhole, CookiesAreBacked
<1>4. QED
  BY <1>1, <1>2, <1>3, SpecTypes, PTL DEF Spec

-----------------------------------------------------------------------------
(* A token that is used again *)

\* What a request has seen are sessions of its account, and they are revoked when
\* it has revoked them all.
SeenRevoked ==
    \A w \in Workers : ~At(w, "idle") =>
        \A s \in req[w].seen :
            /\ Exists(s) /\ sessions[s].email = req[w].email
            /\ At(w, "ended") => sessions[s].revoked

LEMMA SeenStep ==
    ASSUME TypeInv, TokensExist, SeenRevoked, SessionsGrow, TypeInv', Next
    PROVE  SeenRevoked'
<1>1. ASSUME NEW w \in Workers,
             \A v \in Workers \ {w} : req'[v] = req[v],
             \/ req'[w] = Idle
             \/ /\ ~At(w, "idle") /\ req'[w].seen = req[w].seen /\ req'[w].email = req[w].email
                /\ req'[w].at # "ended" \/ At(w, "ended")
      PROVE  SeenRevoked'
  <2>1. \A v \in Workers : ~At(v, "idle") => req[v].seen \subseteq Tokens
    BY Running DEF Requests
  <2>2. QED
    BY <1>1, <2>1 DEF SeenRevoked, SessionsGrow, Exists, At, Idle
<1>2. ASSUME NEW w \in Workers, Arrive(w) PROVE SeenRevoked'
  <2>1. /\ sessions' = sessions
        /\ \A v \in Workers \ {w} : req'[v] = req[v]
    BY <1>2, Arrivals
  <2>2. /\ req'[w].at # "ended"
        /\ \A s \in req'[w].seen : Exists(s) /\ sessions[s].email = req'[w].email
    BY <1>2, Arrivals DEF Family, Live
  <2>3. QED
    BY <2>1, <2>2 DEF SeenRevoked, Exists, At
<1>3. ASSUME NEW w \in Workers, RevokeAll(w) PROVE SeenRevoked'
  <2>1. req[w] \in Requests
    BY <1>3, Running DEF RevokeAll, At
  <2>2. req'[w] = [req[w] EXCEPT !.at = "ended"]
    BY <1>3 DEF RevokeAll, Goes, TypeInv
  <2>3. req'[w].seen = req[w].seen /\ req'[w].email = req[w].email
    BY <2>1, <2>2 DEF Requests
  <2>4. \A v \in Workers \ {w} : req'[v] = req[v]
    BY <1>3 DEF RevokeAll, Goes, TypeInv
  <2>5. ASSUME NEW s \in req[w].seen
        PROVE  sessions'[s].revoked
    <3>1. s \in Tokens /\ Exists(s) /\ sessions[s].email = req[w].email
      BY <1>3, <2>1, <2>5 DEF SeenRevoked, RevokeAll, At, Requests
    <3>2. CASE sessions[s].revoked
      BY <3>1, <3>2 DEF SessionsGrow
    <3>3. CASE ~sessions[s].revoked
      <4>1. s \in Family(req[w].email) /\ sessions[s] \in Sessions
        BY <3>1, <3>3 DEF Family, Live, TypeInv, Exists
      <4>2. sessions'[s] = [sessions[s] EXCEPT !.revoked = TRUE]
        BY <1>3, <3>1, <4>1 DEF RevokeAll
      <4>3. QED
        BY <4>1, <4>2 DEF Sessions
    <3>4. QED
      BY <3>2, <3>3
  <2>6. \A v \in Workers : ~At(v, "idle") => req[v].seen \subseteq Tokens
    BY Running DEF Requests
  <2>7. ~At(w, "idle")
    BY <1>3 DEF RevokeAll, At
  <2>8. QED
    BY <2>3, <2>4, <2>5, <2>6, <2>7 DEF SeenRevoked, SessionsGrow, Exists, At
<1>4. ASSUME NEW w \in Workers,
             \/ Count(w) \/ SetExpiry(w) \/ RedisFails(w) \/ LookUp(w) \/ InsertUser(w)
             \/ Authenticate(w) \/ ResetLimit(w) \/ ReadToken(w) \/ Refuse(w) \/ Deliver(w)
             \/ Fails(w)
      PROVE  SeenRevoked'
  <2>1. req[w] \in Requests /\ ~At(w, "idle")
    BY <1>4, Running DEF Count, SetExpiry, RedisFails, LookUp, InsertUser, Authenticate, ResetLimit,
                         ReadToken, Refuse, Deliver, Fails, At
  <2>2. Ends(w) \/ \E place \in Places \ {"ended"} : Goes(w, place)
    BY <1>4 DEF Count, SetExpiry, RedisFails, LookUp, InsertUser, Authenticate, ResetLimit,
                ReadToken, Refuse, Deliver, Fails, Places
  <2>3. \A v \in Workers \ {w} : req'[v] = req[v]
    BY <2>2 DEF Ends, Goes, TypeInv
  <2>4. \/ req'[w] = Idle
        \/ /\ req'[w].seen = req[w].seen /\ req'[w].email = req[w].email
           /\ req'[w].at # "ended"
    BY <2>1, <2>2 DEF Ends, Goes, TypeInv, Requests
  <2>5. QED
    BY <1>1, <2>1, <2>3, <2>4
<1>5. ASSUME NEW w \in Workers, Register(w) \/ Login(w) \/ Rotate(w) \/ Logout(w)
      PROVE  SeenRevoked'
  <2>1. req[w] \in Requests /\ ~At(w, "idle")
    BY <1>5, Running DEF Register, Login, Rotate, Logout, At
  <2>2. PICK token : req' = [req EXCEPT ![w].at = "answered", ![w].token = token]
    BY <1>5 DEF Register, Login, Rotate, Logout, Issues
  <2>3. \A v \in Workers \ {w} : req'[v] = req[v]
    BY <2>2 DEF TypeInv
  <2>4. /\ req'[w].seen = req[w].seen /\ req'[w].email = req[w].email
        /\ req'[w].at # "ended"
    BY <2>1, <2>2 DEF TypeInv, Requests
  <2>5. QED
    BY <1>1, <2>1, <2>3, <2>4
<1>6. CASE (\E k \in Counters : WindowEnds(k)) \/ (\E s \in Tokens : Expires(s))
  <2>1. req' = req
    BY <1>6 DEF WindowEnds, Expires
  <2>2. \A v \in Workers : ~At(v, "idle") => req[v].seen \subseteq Tokens
    BY Running DEF Requests
  <2>3. QED
    BY <2>1, <2>2 DEF SeenRevoked, SessionsGrow, Exists, At
<1>7. QED
  BY <1>2, <1>3, <1>4, <1>5, <1>6 DEF Next, Step

\* When the revocation is done, no session that the account had when the used
\* token came is live, whatever ran meanwhile (services/token_service.py,
\* rotate_tokens).
THEOREM ReuseEndsAll == Spec => []ReuseEndsTheFamily
<1>1. Init => SeenRevoked
  BY DEF Init, SeenRevoked, At, Idle
<1>2. TypeInv /\ TokensExist /\ SeenRevoked /\ [Next]_vars => SeenRevoked'
  <2>1. SUFFICES ASSUME TypeInv, TokensExist, SeenRevoked, [Next]_vars PROVE SeenRevoked'
    OBVIOUS
  <2>2. CASE Next
    BY <2>1, <2>2, TypeStep, SeenStep
  <2>3. CASE UNCHANGED vars
    BY <2>1, <2>3 DEF vars, SeenRevoked, Exists, At
  <2>4. QED
    BY <2>1, <2>2, <2>3
<1>3. SeenRevoked => ReuseEndsTheFamily
  BY DEF SeenRevoked, ReuseEndsTheFamily, At
<1>4. QED
  BY <1>1, <1>2, <1>3, SpecTypes, PTL DEF Spec

-----------------------------------------------------------------------------
(* Chains of rotations, one request at a time *)

\* One request runs; a chain has the login it began with; and the token that is
\* about to be rotated is the live one of its chain.
OneAtATime ==
    scene.alone => \A v, w \in Workers : ~At(v, "idle") /\ ~At(w, "idle") => v = w

ChainsBegin ==
    \A s \in Tokens : Exists(s) => Exists(sessions[s].login)

RotatesTheLive ==
    scene.alone => \A w \in Workers : At(w, "rotate") => Live(req[w].token)

AloneInv == OneAtATime /\ ChainsBegin /\ RotatesTheLive /\ OneLivePerLogin

\* A step that opens no session, makes none live and starts no request.
LEMMA AloneKept ==
    ASSUME TypeInv, SessionsGrow, AloneInv, scene' = scene,
           \A s \in Tokens : Live(s)' => Live(s),
           \A s \in Tokens : Exists(s)' => Exists(s),
           \A v \in Workers : req'[v].at # "idle" => ~At(v, "idle"),
           RotatesTheLive'
    PROVE  AloneInv'
<1>1. \A s \in Tokens : Exists(s) => sessions[s].login \in Tokens
  BY DEF TypeInv, Exists, Sessions
<1>2. ChainsBegin'
  BY <1>1 DEF AloneInv, ChainsBegin, SessionsGrow, Exists
<1>3. OneAtATime'
  BY DEF AloneInv, OneAtATime, At
<1>4. OneLivePerLogin'
  BY DEF AloneInv, OneLivePerLogin, SessionsGrow, Live
<1>5. QED
  BY <1>2, <1>3, <1>4 DEF AloneInv

\* What a step on w leaves of the others: when requests run alone, nothing.
LEMMA OthersIdle ==
    ASSUME OneAtATime, scene.alone, NEW w \in Workers, ~At(w, "idle")
    PROVE  \A v \in Workers \ {w} : At(v, "idle")
BY DEF OneAtATime

LEMMA AloneStep ==
    ASSUME TypeInv, TokensExist, AloneInv, SessionsGrow, TypeInv', Next
    PROVE  AloneInv'
<1>1. ASSUME NEW w \in Workers, Arrive(w) PROVE AloneInv'
  <2>1. /\ sessions' = sessions /\ scene' = scene
        /\ \A v \in Workers \ {w} : req'[v] = req[v]
        /\ req'[w].at # "rotate"
        /\ scene.alone => \A v \in Workers : At(v, "idle")
    BY <1>1, Arrivals DEF MayArrive
  <2>2. OneAtATime'
    BY <2>1 DEF AloneInv, OneAtATime, At
  <2>3. ChainsBegin' /\ OneLivePerLogin'
    BY <2>1 DEF AloneInv, ChainsBegin, OneLivePerLogin, Live, Exists
  <2>4. RotatesTheLive'
    BY <2>1 DEF AloneInv, RotatesTheLive, Live, Exists, At
  <2>5. QED
    BY <2>2, <2>3, <2>4 DEF AloneInv
<1>2. ASSUME NEW w \in Workers,
             \/ Count(w) \/ SetExpiry(w) \/ RedisFails(w) \/ LookUp(w) \/ InsertUser(w)
             \/ Authenticate(w) \/ ResetLimit(w) \/ ReadToken(w) \/ Refuse(w) \/ Deliver(w)
             \/ Fails(w)
      PROVE  AloneInv'
  <2>1. req[w] \in Requests /\ ~At(w, "idle")
    BY <1>2, Running DEF Count, SetExpiry, RedisFails, LookUp, InsertUser, Authenticate, ResetLimit,
                         ReadToken, Refuse, Deliver, Fails, At
  <2>2. sessions' = sessions /\ scene' = scene
    BY <1>2 DEF Count, SetExpiry, RedisFails, LookUp, InsertUser, Authenticate, ResetLimit,
                ReadToken, Refuse, Deliver, Fails, KeepAccounts
  <2>3. \/ Ends(w)
        \/ \E place \in Places \ {"rotate"} : Goes(w, place)
        \/ ~sessions[req[w].token].revoked /\ At(w, "read") /\ Goes(w, "rotate")
    BY <1>2 DEF Count, SetExpiry, RedisFails, LookUp, InsertUser, Authenticate, ResetLimit,
                ReadToken, Refuse, Deliver, Fails, Places
  <2>4. \A v \in Workers \ {w} : req'[v] = req[v]
    BY <2>3 DEF Ends, Goes, TypeInv
  <2>5. \/ req'[w].at # "rotate"
        \/ req'[w].token = req[w].token /\ Live(req[w].token)
    BY <2>1, <2>3 DEF Ends, Goes, TypeInv, Requests, Idle, Live, TokensExist, At
  <2>6. RotatesTheLive'
    BY <2>2, <2>4, <2>5 DEF AloneInv, RotatesTheLive, Live, Exists, At
  <2>7. \A v \in Workers : req'[v].at # "idle" => ~At(v, "idle")
    BY <2>1, <2>4 DEF At
  <2>8. QED
    BY <2>2, <2>6, <2>7, AloneKept DEF Live, Exists
<1>3. ASSUME NEW w \in Workers, RevokeAll(w) \/ Logout(w) PROVE AloneInv'
  <2>1. req[w] \in Requests /\ ~At(w, "idle")
    BY <1>3, Running DEF RevokeAll, Logout, At
  <2>2. scene' = scene
    BY <1>3 DEF RevokeAll, Logout
  <2>3. \A v \in Workers \ {w} : req'[v] = req[v]
    BY <1>3 DEF RevokeAll, Logout, Goes, TypeInv
  <2>4. req'[w].at # "rotate"
    BY <1>3, <2>1 DEF RevokeAll, Logout, Goes, TypeInv, Requests
  <2>5. RotatesTheLive'
    BY <2>1, <2>2, <2>3, <2>4, OthersIdle DEF AloneInv, RotatesTheLive, At
  <2>6. \A s \in Tokens : ~Exists(s) => sessions'[s] = sessions[s]
    <3>1. CASE RevokeAll(w)
      BY <3>1 DEF RevokeAll, Family, Live
    <3>2. CASE Logout(w)
      <4>1. Exists(req[w].token)
        BY <2>1, <3>2 DEF Logout, TokensExist, At
      <4>2. QED
        BY <3>2, <4>1 DEF Logout, TypeInv
    <3>3. QED
      BY <1>3, <3>1, <3>2
  <2>7. \A s \in Tokens : Exists(s)' => Exists(s)
    BY <2>6 DEF Exists
  <2>8. \A s \in Tokens : Live(s)' => Live(s)
    BY <2>7 DEF Live, SessionsGrow
  <2>9. \A v \in Workers : req'[v].at # "idle" => ~At(v, "idle")
    BY <2>1, <2>3 DEF At
  <2>10. QED
    BY <2>2, <2>5, <2>7, <2>8, <2>9, AloneKept
<1>4. ASSUME NEW w \in Workers, Register(w) \/ Login(w) PROVE AloneInv'
  <2>1. req[w] \in Requests /\ ~At(w, "idle")
    BY <1>4, Running DEF Register, Login, At
  <2>2. Fresh \in Tokens /\ ~Exists(Fresh)
    BY <1>4, FreshIsSpare DEF Register, Login, Issues
  <2>3. /\ sessions' = [sessions EXCEPT ![Fresh] = Opened(req[w].email, Fresh)]
        /\ req' = [req EXCEPT ![w].at = "answered", ![w].token = Fresh]
        /\ scene' = scene
    BY <1>4 DEF Register, Login, Issues
  <2>4. /\ sessions'[Fresh].login = Fresh
        /\ Opened(req[w].email, Fresh) \in Sessions
    BY <2>1, <2>2, <2>3 DEF TypeInv, Opened, Sessions, Requests
  <2>5. /\ \A s \in Tokens \ {Fresh} : sessions'[s] = sessions[s]
        /\ sessions'[Fresh] # NoSession
    BY <2>2, <2>3, <2>4, Distinct DEF TypeInv
  <2>6. \A v \in Workers \ {w} : req'[v] = req[v]
    BY <2>3 DEF TypeInv
  <2>7. req'[w].at = "answered"
    BY <2>1, <2>3 DEF TypeInv, Requests
  <2>8. OneAtATime'
    BY <2>1, <2>3, <2>6 DEF AloneInv, OneAtATime, At
  <2>9. RotatesTheLive'
    BY <2>1, <2>3, <2>6, <2>7, OthersIdle DEF AloneInv, RotatesTheLive, At
  <2>10. \A s \in Tokens : Exists(s) => sessions[s].login \in Tokens /\ sessions[s].login # Fresh
    BY <2>2 DEF TypeInv, Exists, Sessions, AloneInv, ChainsBegin
  <2>11. ChainsBegin'
    BY <2>4, <2>5, <2>10 DEF AloneInv, ChainsBegin, Exists
  <2>12. OneLivePerLogin'
    BY <2>3, <2>4, <2>5, <2>10 DEF AloneInv, OneLivePerLogin, Live, Exists
  <2>13. QED
    BY <2>8, <2>9, <2>11, <2>12 DEF AloneInv
<1>5. ASSUME NEW w \in Workers, Rotate(w) PROVE AloneInv'
  <2> DEFINE old == req[w].token
             next == Opened(req[w].email, sessions[old].login)
  <2>1. req[w] \in Requests /\ ~At(w, "idle")
    BY <1>5, Running DEF Rotate, At
  <2>2. Fresh \in Tokens /\ ~Exists(Fresh)
    BY <1>5, FreshIsSpare DEF Rotate, Issues
  <2>3. old \in Tokens /\ Exists(old) /\ old # Fresh /\ sessions[old] \in Sessions
    BY <1>5, <2>1, <2>2 DEF Rotate, At, TokensExist, Requests, TypeInv, Exists
  <2>4. scene.alone => Live(old)
    BY <1>5 DEF AloneInv, RotatesTheLive, Rotate
  <2>5. sessions' = [sessions EXCEPT ![Fresh] = next, ![old].revoked = TRUE,
                                     ![old].replacedBy = Fresh]
    BY <1>5 DEF Rotate
  <2>6. next.login = sessions[old].login /\ next \in Sessions
    BY <2>1, <2>3 DEF Opened, Sessions, Requests
  <2>7. /\ req' = [req EXCEPT ![w].at = "answered", ![w].token = Fresh]
        /\ scene' = scene
    BY <1>5 DEF Rotate, Issues
  <2>8. \A v \in Workers \ {w} : req'[v] = req[v]
    BY <2>7 DEF TypeInv
  <2>9. req'[w].at = "answered"
    BY <2>1, <2>7 DEF TypeInv, Requests
  <2>10. OneAtATime'
    BY <2>1, <2>7, <2>8 DEF AloneInv, OneAtATime, At
  <2>11. RotatesTheLive'
    BY <2>1, <2>7, <2>8, <2>9, OthersIdle DEF AloneInv, RotatesTheLive, At
  <2> HIDE DEF old, next
  <2>12. /\ sessions'[Fresh] = next
         /\ \A s \in Tokens \ {Fresh, old} : sessions'[s] = sessions[s]
         /\ sessions'[old] = [sessions[old] EXCEPT !.revoked = TRUE, !.replacedBy = Fresh]
    BY <2>2, <2>3, <2>5 DEF TypeInv
  <2>13. sessions'[old].revoked = TRUE /\ sessions'[old].login = sessions[old].login
    BY <2>3, <2>12 DEF Sessions
  <2>14. sessions'[Fresh] # NoSession
    BY <2>6, <2>12, Distinct
  <2>15. \A s \in Tokens : Exists(s) => sessions[s].login \in Tokens
    BY DEF TypeInv, Exists, Sessions
  <2>16. ChainsBegin'
    BY <2>3, <2>6, <2>12, <2>13, <2>14, <2>15 DEF AloneInv, ChainsBegin, SessionsGrow, Exists
  <2>17. OneLivePerLogin'
    <3>1. SUFFICES ASSUME scene.alone, NEW s \in Tokens, NEW t \in Tokens, Live(s)', Live(t)',
                          sessions'[s].login = sessions'[t].login
                   PROVE  s = t
      BY <2>7 DEF OneLivePerLogin
    <3>2. s # old /\ t # old
      BY <2>13, <3>1 DEF Live
    <3>3. \A u \in Tokens \ {Fresh, old} :
             Live(u)' => Live(u) /\ sessions'[u].login # sessions[old].login
      BY <2>3, <2>4, <2>12, <3>1 DEF AloneInv, OneLivePerLogin, Live, Exists
    <3>4. CASE s = Fresh \/ t = Fresh
      BY <2>6, <2>12, <3>1, <3>2, <3>3, <3>4
    <3>5. CASE s # Fresh /\ t # Fresh
      BY <2>12, <3>1, <3>2, <3>3, <3>5 DEF AloneInv, OneLivePerLogin
    <3>6. QED
      BY <3>4, <3>5
  <2>18. QED
    BY <2>10, <2>11, <2>16, <2>17 DEF AloneInv
<1>6. ASSUME NEW k \in Counters, WindowEnds(k) PROVE AloneInv'
  BY <1>6 DEF WindowEnds, KeepAccounts, AloneInv, OneAtATime, ChainsBegin, RotatesTheLive,
              OneLivePerLogin, Live, Exists, At
<1>7. ASSUME NEW s \in Tokens, Expires(s) PROVE AloneInv'
  <2>1. req' = req /\ scene' = scene
    BY <1>7 DEF Expires
  <2>2. \A t \in Tokens : ~Exists(t) => sessions'[t] = sessions[t]
    BY <1>7 DEF Expires, Live, TypeInv
  <2>3. \A t \in Tokens : Exists(t)' => Exists(t)
    BY <2>2 DEF Exists
  <2>4. sessions[s] \in Sessions /\ sessions' = [sessions EXCEPT ![s].expired = TRUE]
    BY <1>7 DEF Expires, Live, Exists, TypeInv
  <2>5. \A t \in Tokens : Exists(t) => (sessions'[t].revoked = sessions[t].revoked)
    BY <2>4 DEF TypeInv, Exists, Sessions
  <2>6. \A t \in Tokens : Live(t) <=> Live(t)'
    BY <2>3, <2>5 DEF Live, Exists, SessionsGrow
  <2>7. \A v \in Workers : At(v, "rotate") => req[v].token \in Tokens
    BY Running DEF At, TokensExist, Requests
  <2>8. RotatesTheLive'
    BY <2>1, <2>6, <2>7 DEF AloneInv, RotatesTheLive, At, Live, Exists, SessionsGrow
  <2>9. QED
    BY <2>1, <2>3, <2>6, <2>8, AloneKept DEF At
<1>8. QED
  BY <1>1, <1>2, <1>3, <1>4, <1>5, <1>6, <1>7 DEF Next, Step

\* Of a chain of rotations one session at most is live, as long as the requests
\* come one after the other, whatever answers are lost (rotate_tokens).
THEOREM OneLive == Spec => []OneLivePerLogin
<1>1. Init => AloneInv
  BY DEF Init, AloneInv, OneAtATime, ChainsBegin, RotatesTheLive, OneLivePerLogin, Live, Exists,
         At, Idle
<1>2. TypeInv /\ TokensExist /\ AloneInv /\ [Next]_vars => AloneInv'
  <2>1. SUFFICES ASSUME TypeInv, TokensExist, AloneInv, [Next]_vars PROVE AloneInv'
    OBVIOUS
  <2>2. CASE Next
    BY <2>1, <2>2, TypeStep, AloneStep
  <2>3. CASE UNCHANGED vars
    BY <2>1, <2>3 DEF vars, AloneInv, OneAtATime, ChainsBegin, RotatesTheLive, OneLivePerLogin,
                      Live, Exists, At
  <2>4. QED
    BY <2>1, <2>2, <2>3
<1>3. AloneInv => OneLivePerLogin
  BY DEF AloneInv
<1>4. QED
  BY <1>1, <1>2, <1>3, SpecTypes, PTL DEF Spec
=============================================================================
