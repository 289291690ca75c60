-------------------------- MODULE RefreshSessions --------------------------
(***************************************************************************)
(* Refresh-token sessions: login, refresh and logout (api/v1/routes/       *)
(* auth.py) over RefreshSessionStore (services/refresh_session_store.py),  *)
(* which keeps one Redis hash per token id.  Every Redis call is a step of *)
(* its own and any of them may fail; the store swallows the failure.  A    *)
(* browser keeps the last cookie it was given and may have several         *)
(* requests in flight.                                                     *)
(***************************************************************************)
EXTENDS Naturals, FiniteSets

CONSTANTS
    Tokens,       \* refresh tokens, by jti; bounds logins and refreshes
    Browsers,
    Requests,     \* requests in flight at the same time
    MaxFaults,    \* bound: failing Redis calls and dying requests
    NoToken, NoBrowser

ASSUME SessionsAssumption ==
    /\ NoToken \notin Tokens
    /\ NoBrowser \notin Browsers
    /\ MaxFaults \in Nat

VARIABLES
    key,        \* the Redis key of each token: none, without or with a TTL
    login,      \* the token of the login a token descends from; NoToken if unused
    expired,    \* tokens whose exp has passed
    cookie,     \* the refresh cookie of each browser
    request,    \* what each request is doing
    retired,    \* history: tokens a request that met no fault was to revoke
    cut,        \* history: tokens whose registration a fault cut short
    overlap,    \* history: browsers that had two requests in flight at once
    faults

store == <<key, expired>>
history == <<retired, cut, overlap>>
vars == <<store, login, cookie, request, history, faults>>

PC == {"idle", "hset", "expire", "answer", "exists", "rotate", "revoke", "clear"}

\* A request: its place, its browser, the token it presented, the token it has
\* created, and whether one of its Redis calls has failed.
Request == [pc : PC, browser : Browsers \union {NoBrowser}, old : Tokens \union {NoToken},
            new : Tokens \union {NoToken}, clean : BOOLEAN]

Idle == [pc |-> "idle", browser |-> NoBrowser, old |-> NoToken, new |-> NoToken,
         clean |-> TRUE]

At(r, pc) == request[r].pc = pc
Become(r, x) == request' = [request EXCEPT ![r] = x]
Goto(r, pc) == Become(r, [request[r] EXCEPT !.pc = pc])
Done(r) == Become(r, Idle)
InFlight(b) == {r \in Requests : request[r].browser = b}
Unused == {t \in Tokens : login[t] = NoToken}
Live(t) == key[t] # "none"
Fault == faults < MaxFaults /\ faults' = faults + 1

\* A Redis call of request r fails; the request goes on at pc.
Fails(r, pc) ==
    /\ Fault
    /\ Become(r, [request[r] EXCEPT !.pc = pc, !.clean = FALSE])

Init ==
    /\ key = [t \in Tokens |-> "none"]
    /\ login = [t \in Tokens |-> NoToken]
    /\ expired = {}
    /\ cookie = [b \in Browsers |-> NoToken]
    /\ request = [r \in Requests |-> Idle]
    /\ retired = {}
    /\ cut = {}
    /\ overlap = {}
    /\ faults = 0

-----------------------------------------------------------------------------
\* A request of browser b arrives.
Arrive(r, b, pc, old, new) ==
    /\ At(r, "idle")
    /\ Become(r, [pc |-> pc, browser |-> b, old |-> old, new |-> new, clean |-> TRUE])
    /\ overlap' = IF InFlight(b) = {} THEN overlap ELSE overlap \union {b}

\* login, once the user is authenticated and let in: a refresh token is created.
Login(r, b, t) ==
    /\ t \in Unused
    /\ Arrive(r, b, "hset", NoToken, t)
    /\ login' = [login EXCEPT ![t] = t]
    /\ UNCHANGED <<store, cookie, retired, cut, faults>>

\* RefreshSessionStore.add, first call.  A failure skips the second one.
AddHset(r) ==
    LET t == request[r].new IN
    /\ At(r, "hset")
    /\ \/ key' = [key EXCEPT ![t] = "open"] /\ Goto(r, "expire") /\ UNCHANGED <<cut, faults>>
       \/ Fails(r, "answer") /\ cut' = cut \union {t} /\ UNCHANGED key
    /\ UNCHANGED <<login, expired, cookie, retired, overlap>>

\* Mutant of AddExpire: the session gets no TTL.
AddExpireNever(r) ==
    /\ At(r, "expire")
    /\ Goto(r, "answer")
    /\ UNCHANGED <<store, login, cookie, history, faults>>

\* RefreshSessionStore.add, second call.
AddExpire(r) ==
    LET t == request[r].new IN
    /\ At(r, "expire")
    /\ \/ /\ key' = [key EXCEPT ![t] = IF @ = "none" THEN "none" ELSE "ttl"]
          /\ Goto(r, "answer")
          /\ UNCHANGED <<cut, faults>>
       \/ Fails(r, "answer") /\ cut' = cut \union {t} /\ UNCHANGED key
    /\ UNCHANGED <<login, expired, cookie, retired, overlap>>

\* A request has done what it can to revoke the token it presented.
Retire(r) ==
    retired' = IF request[r].clean /\ request[r].old # NoToken
                 THEN retired \union {request[r].old}
                 ELSE retired

\* login and refresh_tokens answer: the cookie is replaced.
Answer(r) ==
    /\ At(r, "answer")
    /\ cookie' = [cookie EXCEPT ![request[r].browser] = request[r].new]
    /\ Retire(r)
    /\ Done(r)
    /\ UNCHANGED <<store, login, cut, overlap, faults>>

-----------------------------------------------------------------------------
\* refresh_tokens with a cookie whose token decodes; any other is refused at once.
Refresh(r, b) ==
    /\ cookie[b] \in Tokens \ expired
    /\ Arrive(r, b, "exists", cookie[b], NoToken)
    /\ UNCHANGED <<store, login, cookie, retired, cut, faults>>

\* store.exists: an unknown session, or a Redis that does not answer, is refused.
Exists(r) ==
    /\ At(r, "exists")
    /\ \/ Live(request[r].old) /\ Goto(r, "rotate") /\ UNCHANGED faults
       \/ ~Live(request[r].old) /\ Done(r) /\ UNCHANGED faults
       \/ Fault /\ Done(r)
    /\ UNCHANGED <<store, login, cookie, history>>

\* Mutant of Rotate: the presented session is kept.
RotateKeeping(r, t) ==
    /\ At(r, "rotate")
    /\ t \in Unused
    /\ Become(r, [request[r] EXCEPT !.pc = "hset", !.new = t])
    /\ login' = [login EXCEPT ![t] = login[request[r].old]]
    /\ UNCHANGED <<store, cookie, history, faults>>

\* store.revoke of the presented token, then create_refresh_token.
Rotate(r, t) ==
    /\ At(r, "rotate")
    /\ t \in Unused
    /\ \/ /\ key' = [key EXCEPT ![request[r].old] = "none"]
          /\ Become(r, [request[r] EXCEPT !.pc = "hset", !.new = t])
          /\ UNCHANGED faults
       \/ /\ Fault
          /\ Become(r, [request[r] EXCEPT !.pc = "hset", !.new = t, !.clean = FALSE])
          /\ UNCHANGED key
    /\ login' = [login EXCEPT ![t] = login[request[r].old]]
    /\ UNCHANGED <<expired, cookie, history>>

\* logout: revoke if the cookie's token decodes.
Logout(r, b) ==
    /\ IF cookie[b] \in Tokens \ expired
         THEN Arrive(r, b, "revoke", cookie[b], NoToken)
         ELSE Arrive(r, b, "clear", NoToken, NoToken)
    /\ UNCHANGED <<store, login, cookie, retired, cut, faults>>

\* store.revoke in logout.
Revoke(r) ==
    /\ At(r, "revoke")
    /\ \/ /\ key' = [key EXCEPT ![request[r].old] = "none"]
          /\ Goto(r, "clear")
          /\ UNCHANGED faults
       \/ Fails(r, "clear") /\ UNCHANGED key
    /\ UNCHANGED <<expired, login, cookie, history>>

\* Mutant of Clear: the cookie is left with the browser.
ClearNothing(r) ==
    /\ At(r, "clear")
    /\ Retire(r)
    /\ Done(r)
    /\ UNCHANGED <<store, login, cookie, cut, overlap, faults>>

\* logout answers: the cookie is deleted.
Clear(r) ==
    /\ At(r, "clear")
    /\ cookie' = [cookie EXCEPT ![request[r].browser] = NoToken]
    /\ Retire(r)
    /\ Done(r)
    /\ UNCHANGED <<store, login, cut, overlap, faults>>

-----------------------------------------------------------------------------
\* The request dies, or its answer is lost.
Die(r) ==
    /\ ~At(r, "idle")
    /\ Fault
    /\ Done(r)
    /\ cut' = IF request[r].pc \in {"hset", "expire"} THEN cut \union {request[r].new} ELSE cut
    /\ UNCHANGED <<store, login, cookie, retired, overlap>>

\* exp of token t passes: it no longer decodes.
Expire(t) ==
    /\ login[t] # NoToken
    /\ expired' = expired \union {t}
    /\ UNCHANGED <<key, login, cookie, request, history, faults>>

\* Redis drops a key whose TTL is over, never before exp.
Evict(t) ==
    /\ key[t] = "ttl"
    /\ t \in expired
    /\ key' = [key EXCEPT ![t] = "none"]
    /\ UNCHANGED <<expired, login, cookie, request, history, faults>>

-----------------------------------------------------------------------------
Next ==
    \/ \E r \in Requests, b \in Browsers :
          Refresh(r, b) \/ Logout(r, b) \/ \E t \in Tokens : Login(r, b, t)
    \/ \E r \in Requests :
          \/ AddHset(r) \/ AddExpire(r) \/ Answer(r) \/ Exists(r) \/ Revoke(r)
          \/ Clear(r) \/ Die(r) \/ \E t \in Tokens : Rotate(r, t)
    \/ \E t \in Tokens : Expire(t) \/ Evict(t)

Spec == Init /\ [][Next]_vars

-----------------------------------------------------------------------------
\* Every variable has its type.
TypeOK ==
    /\ key \in [Tokens -> {"none", "open", "ttl"}]
    /\ login \in [Tokens -> Tokens \union {NoToken}]
    /\ expired \subseteq Tokens
    /\ cookie \in [Browsers -> Tokens \union {NoToken}]
    /\ request \in [Requests -> Request]
    /\ retired \subseteq Tokens
    /\ cut \subseteq Tokens
    /\ overlap \subseteq Browsers
    /\ faults \in Nat

\* The token a refresh or a logout presented is dead once that request has answered
\* without a Redis failure, and stays dead whatever other requests, also of the
\* same browser with the same cookie, are doing.
RetiredStaysDead == \A t \in retired : ~Live(t)

\* A session that Redis would keep for ever is one whose registration is still
\* under way or was cut short by a fault between its two Redis calls.
SessionsExpire ==
    \A t \in Tokens : key[t] = "open" =>
        t \in cut \/ \E r \in Requests : At(r, "expire") /\ request[r].new = t

Undisturbed(b) == faults = 0 /\ b \notin overlap

\* A browser at rest that never had two requests in flight holds no cookie or one
\* that the next refresh will accept, until the cookie expires.
CookieIsGood ==
    \A b \in Browsers : Undisturbed(b) /\ InFlight(b) = {} =>
        cookie[b] = NoToken \/ Live(cookie[b]) \/ cookie[b] \in expired

\* Rotation: while no browser sends two requests at once and nothing fails, a login
\* has at most one live session, however often it has been refreshed.
OneSessionPerLogin ==
    faults = 0 /\ overlap = {} =>
        \A s, t \in Tokens : Live(s) /\ Live(t) /\ login[s] = login[t] => s = t
=============================================================================
