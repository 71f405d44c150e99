------------------------------ MODULE Accounts ------------------------------
(***************************************************************************)
(* Accounts and the sessions of their browsers: registering, logging in,   *)
(* refreshing and logging out (backend/app/api/routes/auth.py,             *)
(* services/auth_service.py, services/token_service.py), and the counters  *)
(* in Redis that limit the first two (utils/rate_limit.py).                *)
(*                                                                         *)
(* Requests run on worker threads, each in a transaction at READ COMMITTED *)
(* that it commits once; an answer may be lost, and a call to Redis fail.  *)
(* Every browser is behind one address, so a counter belongs to an         *)
(* operation and, for logging in, an email.  Passwords are right or wrong, *)
(* times are past or not.                                                  *)
(***************************************************************************)
EXTENDS Integers, FiniteSets

CONSTANTS
    Workers,      \* requests that may run at the same time
    Browsers,     \* each has one cookie for the refresh token
    Emails,
    Parts,        \* rows of an account: the user, its preferences, three agreements
    UserRow,      \* the first of them to be inserted
    Limit,        \* LOGIN_RATE_LIMIT, REGISTER_RATE_LIMIT
    MaxHits,      \* bound: no request is sent to a counter that has reached it
    MaxSessions,  \* bound: sessions that are ever opened
    Scenes        \* what may happen in a behaviour, see scene

ASSUME AccountsAssumption ==
    /\ Limit \in Nat \ {0} /\ MaxHits \in Nat /\ Limit < MaxHits
    /\ MaxSessions \in Nat
    /\ UserRow \in Parts
    /\ \A s \in Scenes : s.alone \in BOOLEAN /\ s.steady \in BOOLEAN

VARIABLES
    account,   \* email -> the rows committed for it
    sessions,  \* refresh_sessions: the rows committed, by the order of their tokens
    cookie,    \* browser -> the token it holds, or NoToken
    hits,      \* counter -> INCRs since the key was created; 0: no such key
    timed,     \* counter -> does its key expire?
    req,       \* worker -> the request it runs
    scene      \* the operations of this behaviour (ops), whether its requests run
               \* one after the other (alone), and whether every call to Redis
               \* succeeds (steady)

vars == <<account, sessions, cookie, hits, timed, req, scene>>

-----------------------------------------------------------------------------
(* Values *)

NoToken == 0
Tokens  == 1..MaxSessions

NoSession == [email |-> "nobody"]

\* login is the session that the chain of rotations began with.
Opened(email, login) ==
    [email |-> email, login |-> login, revoked |-> FALSE, expired |-> FALSE,
     replacedBy |-> NoToken]

Exists(s) == sessions[s] # NoSession
Live(s)   == Exists(s) /\ ~sessions[s].revoked
Spare     == {s \in Tokens : ~Exists(s)}
Fresh     == CHOOSE s \in Spare : \A t \in Spare : s <= t

Family(email) == {s \in Tokens : Live(s) /\ sessions[s].email = email}

\* The keys of the limiter.
Counters == [op : {"register"}] \cup [op : {"login"}, email : Emails]
CounterOf(r) ==
    IF r.op = "register" THEN [op |-> "register"] ELSE [op |-> "login", email |-> r.email]

\* A request that runs has the place it is at, its operation, browser and email,
\* the token it came with or answers with, and, when it presented a token, the
\* live sessions of the account as it came (seen).
Idle == [at |-> "idle"]

Goes(w, place) == req' = [req EXCEPT ![w].at = place]
Ends(w)        == req' = [req EXCEPT ![w] = Idle]
At(w, place)   == req[w].at = place

KeepAccounts == UNCHANGED <<account, sessions, cookie>>
KeepLimits   == UNCHANGED <<hits, timed>>

Init ==
    /\ account \in [Emails -> {{}, Parts}]
    /\ sessions = [s \in Tokens |-> NoSession]
    /\ cookie = [b \in Browsers |-> NoToken]
    /\ hits = [k \in Counters |-> 0]
    /\ timed = [k \in Counters |-> FALSE]
    /\ req = [w \in Workers |-> Idle]
    /\ scene \in Scenes

-----------------------------------------------------------------------------
(* A request arrives *)

MayArrive(w) == At(w, "idle") /\ (scene.alone => \A v \in Workers : At(v, "idle"))

\* POST /auth/register and POST /auth/login
AskLimit(w, b, op, email) ==
    /\ MayArrive(w) /\ op \in scene.ops \cap {"register", "login"}
    /\ LET r == [at |-> "limit", op |-> op, browser |-> b, email |-> email, token |-> NoToken,
                 seen |-> {}] IN
       /\ hits[CounterOf(r)] < MaxHits
       /\ req' = [req EXCEPT ![w] = r]
    /\ KeepAccounts /\ KeepLimits /\ UNCHANGED scene

\* POST /auth/refresh and POST /auth/logout with the cookie of the browser.
\* Without one a refresh is refused and a logout clears what is not there.
PresentToken(w, b, op) ==
    /\ MayArrive(w) /\ op \in scene.ops \cap {"refresh", "logout"}
    /\ cookie[b] # NoToken
    /\ LET email == sessions[cookie[b]].email IN
       req' = [req EXCEPT ![w] = [at |-> "read", op |-> op, browser |-> b, email |-> email,
                                  token |-> cookie[b], seen |-> Family(email)]]
    /\ KeepAccounts /\ KeepLimits /\ UNCHANGED scene

-----------------------------------------------------------------------------
(* The rate limiter *)

\* The window starts with the request that the limit refuses.
SlipCount(w) ==
    /\ At(w, "limit")
    /\ LET k == CounterOf(req[w])
           n == hits[k] + 1 IN
       /\ hits' = [hits EXCEPT ![k] = n]
       /\ IF n > Limit THEN Goes(w, "expire") ELSE Goes(w, "admitted")
    /\ UNCHANGED timed /\ KeepAccounts /\ UNCHANGED scene

\* INCR, and the comparison with the limit, unless the key is new.
Count(w) ==
    /\ At(w, "limit")
    /\ LET k == CounterOf(req[w])
           n == hits[k] + 1 IN
       /\ hits' = [hits EXCEPT ![k] = n]
       /\ IF n = 1 THEN Goes(w, "expire")
          ELSE IF n <= Limit THEN Goes(w, "admitted") ELSE Ends(w)
    /\ UNCHANGED timed /\ KeepAccounts /\ UNCHANGED scene

\* EXPIRE does nothing to a key that has been deleted meanwhile.
SetExpiry(w) ==
    /\ At(w, "expire")
    /\ LET k == CounterOf(req[w]) IN timed' = [timed EXCEPT ![k] = hits[k] > 0]
    /\ Goes(w, "admitted")
    /\ UNCHANGED hits /\ KeepAccounts /\ UNCHANGED scene

\* The limiter fails open.
RedisFails(w) ==
    /\ ~scene.steady
    /\ At(w, "limit") \/ At(w, "expire")
    /\ Goes(w, "admitted")
    /\ KeepLimits /\ KeepAccounts /\ UNCHANGED scene

WindowEnds(k) ==
    /\ timed[k]
    /\ hits' = [hits EXCEPT ![k] = 0]
    /\ timed' = [timed EXCEPT ![k] = FALSE]
    /\ UNCHANGED req /\ KeepAccounts /\ UNCHANGED scene

-----------------------------------------------------------------------------
(* Register and login *)

\* register_user looks the email up; one that is taken is answered 409.
LookUp(w) ==
    /\ At(w, "admitted") /\ req[w].op = "register"
    /\ IF account[req[w].email] # {} THEN Ends(w) ELSE Goes(w, "insert")
    /\ KeepAccounts /\ KeepLimits /\ UNCHANGED scene

\* The user is committed before the rest of the account.
SlipInsertUser(w) ==
    /\ At(w, "insert") /\ account[req[w].email] = {}
    /\ account' = [account EXCEPT ![req[w].email] = {UserRow}]
    /\ Goes(w, "inserted")
    /\ UNCHANGED <<sessions, cookie>> /\ KeepLimits /\ UNCHANGED scene

\* The INSERT waits for the transaction that has inserted the email; where it
\* finds it taken the unique index raises, which the route does not catch.
InsertUser(w) ==
    /\ At(w, "insert")
    /\ \A v \in Workers : ~(At(v, "inserted") /\ req[v].email = req[w].email)
    /\ IF account[req[w].email] # {} THEN Ends(w) ELSE Goes(w, "inserted")
    /\ KeepAccounts /\ KeepLimits /\ UNCHANGED scene

\* issue_tokens and the commit: the answer sets the cookie.
Issues(w, login) ==
    /\ Spare # {}
    /\ req' = [req EXCEPT ![w].at = "answered", ![w].token = Fresh]
    /\ UNCHANGED cookie /\ KeepLimits /\ UNCHANGED scene

\* Preferences and agreements, the tokens and the last login, and the commit.
Register(w) ==
    /\ At(w, "inserted")
    /\ Issues(w, Fresh)
    /\ account' = [account EXCEPT ![req[w].email] = Parts]
    /\ sessions' = [sessions EXCEPT ![Fresh] = Opened(req[w].email, Fresh)]

\* Nobody by that email, or a wrong password: 401.
Authenticate(w) ==
    /\ At(w, "admitted") /\ req[w].op = "login"
    /\ \/ Ends(w)
       \/ account[req[w].email] # {} /\ Goes(w, "reset")
    /\ KeepAccounts /\ KeepLimits /\ UNCHANGED scene

\* reset_rate_limit: DEL, and an error is swallowed.
ResetLimit(w) ==
    /\ At(w, "reset")
    /\ LET k == CounterOf(req[w]) IN
       \/ hits' = [hits EXCEPT ![k] = 0] /\ timed' = [timed EXCEPT ![k] = FALSE]
       \/ ~scene.steady /\ KeepLimits
    /\ Goes(w, "issue")
    /\ KeepAccounts /\ UNCHANGED scene

Login(w) ==
    /\ At(w, "issue")
    /\ Issues(w, Fresh)
    /\ sessions' = [sessions EXCEPT ![Fresh] = Opened(req[w].email, Fresh)]
    /\ UNCHANGED account

-----------------------------------------------------------------------------
(* Refresh and logout *)

\* rotate_tokens reads the row, without a lock, and chooses its way.
ReadToken(w) ==
    /\ At(w, "read") /\ req[w].op = "refresh"
    /\ LET s == sessions[req[w].token] IN
       IF s.revoked THEN Goes(w, "reuse")
       ELSE IF s.expired THEN Goes(w, "refused") ELSE Goes(w, "rotate")
    /\ KeepAccounts /\ KeepLimits /\ UNCHANGED scene

\* The token that was used stays good.
SlipRotate(w) ==
    /\ At(w, "rotate")
    /\ Issues(w, sessions[req[w].token].login)
    /\ sessions' = [sessions EXCEPT
           ![Fresh] = Opened(req[w].email, sessions[req[w].token].login),
           ![req[w].token].replacedBy = Fresh]
    /\ UNCHANGED account

\* The successor, the old session revoked and linked to it, and the commit.
Rotate(w) ==
    /\ At(w, "rotate")
    /\ Issues(w, sessions[req[w].token].login)
    /\ sessions' = [sessions EXCEPT
           ![Fresh] = Opened(req[w].email, sessions[req[w].token].login),
           ![req[w].token].revoked = TRUE,
           ![req[w].token].replacedBy = Fresh]
    /\ UNCHANGED account

\* The route raises without a commit, and the revocations are rolled back.
SlipRevokeAll(w) ==
    /\ At(w, "reuse")
    /\ Goes(w, "ended")
    /\ KeepAccounts /\ KeepLimits /\ UNCHANGED scene

\* A revoked token: every session of the user that the UPDATE finds live is
\* revoked, and the route commits before it raises.
RevokeAll(w) ==
    /\ At(w, "reuse")
    /\ sessions' = [s \in Tokens |-> IF s \in Family(req[w].email)
                                     THEN [sessions[s] EXCEPT !.revoked = TRUE] ELSE sessions[s]]
    /\ Goes(w, "ended")
    /\ UNCHANGED <<account, cookie>> /\ KeepLimits /\ UNCHANGED scene

\* 401.  The exception leaves the prepared answer behind, with the cleared
\* cookies: the browser keeps its own.
Refuse(w) ==
    /\ At(w, "refused") \/ At(w, "ended")
    /\ Ends(w)
    /\ KeepAccounts /\ KeepLimits /\ UNCHANGED scene

\* revoke_token and the commit; the answer clears the cookies.
Logout(w) ==
    /\ At(w, "read") /\ req[w].op = "logout"
    /\ sessions' = [sessions EXCEPT ![req[w].token].revoked = TRUE]
    /\ req' = [req EXCEPT ![w].at = "answered", ![w].token = NoToken]
    /\ UNCHANGED <<account, cookie>> /\ KeepLimits /\ UNCHANGED scene

-----------------------------------------------------------------------------
(* The answer arrives, or does not; a request fails; the months pass *)

Deliver(w) ==
    /\ At(w, "answered")
    /\ cookie' = [cookie EXCEPT ![req[w].browser] = req[w].token]
    /\ Ends(w)
    /\ UNCHANGED <<account, sessions>> /\ KeepLimits /\ UNCHANGED scene

\* Before its commit, which is rolled back, or after it, when the answer is lost.
Fails(w) ==
    /\ req[w].at \in {"admitted", "insert", "inserted", "issue", "read", "rotate", "reuse", "answered"}
    /\ Ends(w)
    /\ KeepAccounts /\ KeepLimits /\ UNCHANGED scene

\* Nothing asks whether a revoked session has expired.
Expires(s) ==
    /\ Live(s) /\ ~sessions[s].expired
    /\ sessions' = [sessions EXCEPT ![s].expired = TRUE]
    /\ UNCHANGED <<account, cookie, req>> /\ KeepLimits /\ UNCHANGED scene

Arrive(w) ==
    \E b \in Browsers :
        \/ \E op \in {"register", "login"}, email \in Emails : AskLimit(w, b, op, email)
        \/ \E op \in {"refresh", "logout"} : PresentToken(w, b, op)

Step(w) ==
    \/ Count(w) \/ SetExpiry(w) \/ RedisFails(w)
    \/ LookUp(w) \/ InsertUser(w) \/ Register(w)
    \/ Authenticate(w) \/ ResetLimit(w) \/ Login(w)
    \/ ReadToken(w) \/ Rotate(w) \/ RevokeAll(w) \/ Refuse(w) \/ Logout(w)
    \/ Deliver(w) \/ Fails(w)

Next ==
    \/ \E w \in Workers : Arrive(w) \/ Step(w)
    \/ \E k \in Counters : WindowEnds(k)
    \/ \E s \in Tokens : Expires(s)

Spec == Init /\ [][Next]_vars

-----------------------------------------------------------------------------
(* Properties *)

\* Nobody is locked out for good: while Redis is steady, a counter that does not
\* expire is about to be told to, whatever logs in, deletes it and counts anew.
EveryCounterExpires ==
    scene.steady => \A k \in Counters :
        hits[k] > 0 /\ ~timed[k] => \E w \in Workers : At(w, "expire") /\ CounterOf(req[w]) = k

\* A browser that was told it is in has a session in the database, of an account
\* with its preferences and every agreement, however registrations race or fail.
CookiesAreBacked ==
    \A b \in Browsers : cookie[b] # NoToken =>
        Exists(cookie[b]) /\ account[sessions[cookie[b]].email] = Parts

\* One login, one session: of a chain of rotations only one session is live,
\* whatever answers are lost.  Two refreshes at once may fork it, see the README.
OneLivePerLogin ==
    scene.alone => \A s, t \in Tokens :
        Live(s) /\ Live(t) /\ sessions[s].login = sessions[t].login => s = t

\* A token that is used again ends every session of the account there was when it
\* came, although the answer is an error, and while others refresh and log in.
ReuseEndsTheFamily ==
    \A w \in Workers : At(w, "ended") => \A s \in req[w].seen : sessions[s].revoked
=============================================================================
