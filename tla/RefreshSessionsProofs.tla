----------------------- MODULE RefreshSessionsProofs -----------------------
(***************************************************************************)
(* Theorems about RefreshSessions, for any number of browsers, requests,   *)
(* tokens and faults.                                                      *)
(***************************************************************************)
EXTENDS RefreshSessions, TLAPS

-----------------------------------------------------------------------------
(* The inductive invariant.                                                *)

\* A request that has created a token and not yet answered with it.
Making(x) == x.pc \in {"hset", "expire", "answer"}

\* A request has the tokens its place calls for.
Placed ==
    \A r \in Requests :
        /\ Making(request[r]) => request[r].new \in Tokens
        /\ request[r].pc \in {"exists", "rotate", "revoke"} => request[r].old \in Tokens
        /\ request[r].pc # "idle" => request[r].browser \in Browsers

Typed == TypeOK /\ Placed

\* The token a request has created is in use and is that request's alone.
Fresh ==
    \A r \in Requests : Making(request[r]) =>
        /\ login[request[r].new] # NoToken
        /\ \A s \in Requests : Making(request[s]) /\ request[s].new = request[r].new => s = r

\* A token that a browser or a request was given, or that was retired.
Handed(t) ==
    \/ t \in retired
    \/ \E b \in Browsers : cookie[b] = t
    \/ \E r \in Requests : request[r].old = t

\* A token is handed out only after its registration.
HandedAfter ==
    \A t \in Tokens : Handed(t) =>
        /\ login[t] # NoToken
        /\ \A r \in Requests : Making(request[r]) => request[r].new # t

\* A request that has revoked its token without a failure finds it dead from then on.
Dead ==
    \A r \in Requests :
        /\ request[r].clean
        /\ request[r].old \in Tokens
        /\ request[r].pc \in {"hset", "expire", "answer", "clear"}
        => key[request[r].old] = "none"

IInv == Typed /\ Fresh /\ HandedAfter /\ Dead /\ RetiredStaysDead /\ SessionsExpire

\* The invariant holds before the first login.
LEMMA InitIInv == Init => IInv
BY SessionsAssumption DEF Init, IInv, Typed, TypeOK, Placed, Fresh, HandedAfter, Handed, Dead,
   RetiredStaysDead, SessionsExpire, Making, Idle, Request, PC, Live

\* Request r goes on at pc, with the token new, and no other request changes.
Moved(r, pc, new, clean) ==
    /\ request' \in [Requests -> Request]
    /\ \A s \in Requests : s # r => request'[s] = request[s]
    /\ request'[r].pc = pc
    /\ request'[r].browser = request[r].browser
    /\ request'[r].old = request[r].old
    /\ request'[r].new = new
    /\ request'[r].clean = clean

\* Going on, with or without a failing call, is such a move.
LEMMA Moves ==
    ASSUME TypeOK, NEW r \in Requests, NEW pc \in PC
    PROVE  /\ Goto(r, pc) => Moved(r, pc, request[r].new, request[r].clean)
           /\ Fails(r, pc) => Moved(r, pc, request[r].new, FALSE) /\ faults' \in Nat /\ faults' # 0
<1>1. request[r] \in Request /\ request \in [Requests -> Request]
  BY DEF TypeOK
<1>2. ASSUME NEW x \in Request, Become(r, x)
      PROVE  /\ request' \in [Requests -> Request]
             /\ request'[r] = x
             /\ \A s \in Requests : s # r => request'[s] = request[s]
  BY <1>1, <1>2 DEF Become
<1>3. [request[r] EXCEPT !.pc = pc] \in Request
  BY <1>1 DEF Request
<1>4. [request[r] EXCEPT !.pc = pc, !.clean = FALSE] \in Request
  BY <1>1 DEF Request
<1>5. Goto(r, pc) => Moved(r, pc, request[r].new, request[r].clean)
  BY <1>1, <1>2, <1>3 DEF Goto, Moved, Request
<1>6. Fails(r, pc) => Moved(r, pc, request[r].new, FALSE)
  BY <1>1, <1>2, <1>4 DEF Fails, Moved, Request
<1>7. Fails(r, pc) => faults' \in Nat /\ faults' # 0
  BY DEF Fails, Fault, TypeOK
<1>8. QED
  BY <1>5, <1>6, <1>7

\* The cases of the first half of RefreshSessionStore.add.
LEMMA AddHsetMoves ==
    ASSUME TypeOK, NEW r \in Requests, AddHset(r)
    PROVE  \/ /\ key' = [key EXCEPT ![request[r].new] = "open"]
              /\ Moved(r, "expire", request[r].new, request[r].clean)
              /\ UNCHANGED <<cut, faults>>
           \/ /\ Moved(r, "answer", request[r].new, FALSE)
              /\ cut' = cut \union {request[r].new}
              /\ faults' \in Nat /\ faults' # 0
              /\ UNCHANGED key
BY Moves DEF AddHset, PC

\* The cases of the second half of RefreshSessionStore.add.
LEMMA AddExpireMoves ==
    ASSUME TypeOK, NEW r \in Requests, AddExpire(r)
    PROVE  \/ /\ key' = [key EXCEPT ![request[r].new] = IF @ = "none" THEN "none" ELSE "ttl"]
              /\ Moved(r, "answer", request[r].new, request[r].clean)
              /\ UNCHANGED <<cut, faults>>
           \/ /\ Moved(r, "answer", request[r].new, FALSE)
              /\ cut' = cut \union {request[r].new}
              /\ faults' \in Nat /\ faults' # 0
              /\ UNCHANGED key
BY Moves DEF AddExpire, PC

\* The cases of RefreshSessionStore.revoke.
LEMMA RevokeMoves ==
    ASSUME TypeOK, NEW r \in Requests, Revoke(r)
    PROVE  \/ /\ key' = [key EXCEPT ![request[r].old] = "none"]
              /\ Moved(r, "clear", request[r].new, request[r].clean)
              /\ UNCHANGED faults
           \/ /\ Moved(r, "clear", request[r].new, FALSE)
              /\ faults' \in Nat /\ faults' # 0
              /\ UNCHANGED key
BY Moves DEF Revoke, PC

\* The cases of RefreshSessionStore.exists.
LEMMA ExistsMoves ==
    ASSUME TypeOK, NEW r \in Requests, Exists(r)
    PROVE  /\ Moved(r, "rotate", request[r].new, request[r].clean) \/ Done(r)
           /\ faults' \in Nat
<1>1. Moved(r, "rotate", request[r].new, request[r].clean) \/ Done(r)
  BY Moves DEF Exists, PC
<1>2. faults' \in Nat
  BY DEF Exists, Fault, TypeOK
<1>3. QED
  BY <1>1, <1>2

\* The cases of the rotation in refresh_tokens.
LEMMA RotateMoves ==
    ASSUME TypeOK, NEW r \in Requests, NEW t \in Tokens, Rotate(r, t)
    PROVE  \/ /\ key' = [key EXCEPT ![request[r].old] = "none"]
              /\ Moved(r, "hset", t, request[r].clean)
              /\ UNCHANGED faults
           \/ /\ Moved(r, "hset", t, FALSE)
              /\ faults' \in Nat /\ faults' # 0
              /\ UNCHANGED key
<1>1. request[r] \in Request /\ request \in [Requests -> Request]
  BY DEF TypeOK
<1>2. ASSUME NEW x \in Request, Become(r, x)
      PROVE  /\ request' \in [Requests -> Request]
             /\ request'[r] = x
             /\ \A s \in Requests : s # r => request'[s] = request[s]
  BY <1>1, <1>2 DEF Become
<1>3. [request[r] EXCEPT !.pc = "hset", !.new = t] \in Request
  BY <1>1 DEF Request, PC
<1>4. [request[r] EXCEPT !.pc = "hset", !.new = t, !.clean = FALSE] \in Request
  BY <1>1 DEF Request, PC
<1>5. Become(r, [request[r] EXCEPT !.pc = "hset", !.new = t]) =>
        Moved(r, "hset", t, request[r].clean)
  BY <1>1, <1>2, <1>3 DEF Moved, Request
<1>6. Become(r, [request[r] EXCEPT !.pc = "hset", !.new = t, !.clean = FALSE]) =>
        Moved(r, "hset", t, FALSE)
  BY <1>1, <1>2, <1>4 DEF Moved, Request
<1>7. Fault => faults' \in Nat /\ faults' # 0
  BY DEF Fault, TypeOK
<1>8. QED
  BY <1>5, <1>6, <1>7 DEF Rotate

\* Types, action by action.
LEMMA TypedStep == IInv /\ [Next]_vars => Typed'
<1> SUFFICES ASSUME IInv, [Next]_vars PROVE Typed'
  OBVIOUS
<1> USE SessionsAssumption
    DEF IInv, store, history, Typed, TypeOK, Placed, Making
<1>1. ASSUME NEW r \in Requests, NEW b \in Browsers, Refresh(r, b)
      PROVE  Typed'
  BY <1>1 DEF Become, Request, PC, Refresh, Arrive
<1>2. ASSUME NEW r \in Requests, NEW b \in Browsers, Logout(r, b)
      PROVE  Typed'
  <2>1. CASE cookie[b] \in Tokens \ expired
    <3> DEFINE x == [pc |-> "revoke", browser |-> b, old |-> cookie[b], new |-> NoToken,
                     clean |-> TRUE]
    <3>1. x \in Request
      BY <2>1 DEF Request, PC
    <3>2. request' = [request EXCEPT ![r] = x]
      BY <1>2, <2>1 DEF Logout, Arrive, Become
    <3>3. x.pc = "revoke" /\ x.old \in Tokens /\ x.browser \in Browsers
      BY <2>1
    <3> HIDE DEF x
    <3>4. QED
      BY <1>2, <2>1, <3>1, <3>2, <3>3 DEF Logout, Arrive
  <2>2. CASE cookie[b] \notin Tokens \ expired
    <3> DEFINE x == [pc |-> "clear", browser |-> b, old |-> NoToken, new |-> NoToken,
                     clean |-> TRUE]
    <3>1. x \in Request
      BY DEF Request, PC
    <3>2. request' = [request EXCEPT ![r] = x]
      BY <1>2, <2>2 DEF Logout, Arrive, Become
    <3>3. x.pc = "clear" /\ x.browser \in Browsers
      OBVIOUS
    <3> HIDE DEF x
    <3>4. QED
      BY <1>2, <2>2, <3>1, <3>2, <3>3 DEF Logout, Arrive
  <2>3. QED
    BY <2>1, <2>2
<1>3. ASSUME NEW r \in Requests, NEW b \in Browsers, NEW t \in Tokens, Login(r, b, t)
      PROVE  Typed'
  BY <1>3 DEF Become, Request, PC, Login, Arrive, Unused
<1>4. ASSUME NEW r \in Requests, AddHset(r)
      PROVE  Typed'
  <2>1. CASE /\ key' = [key EXCEPT ![request[r].new] = "open"]
             /\ Moved(r, "expire", request[r].new, request[r].clean)
             /\ UNCHANGED <<cut, faults>>
    BY <1>4, <2>1 DEF Request, PC, AddHset, At, Moved
  <2>2. CASE /\ Moved(r, "answer", request[r].new, FALSE)
             /\ cut' = cut \union {request[r].new}
             /\ faults' \in Nat /\ faults' # 0
             /\ UNCHANGED key
    BY <1>4, <2>2 DEF Request, PC, AddHset, At, Moved
  <2>3. QED
    BY <1>4, <2>1, <2>2, AddHsetMoves 
<1>5. ASSUME NEW r \in Requests, AddExpire(r)
      PROVE  Typed'
  <2>1. CASE /\ key' = [key EXCEPT ![request[r].new] = IF @ = "none" THEN "none" ELSE "ttl"]
             /\ Moved(r, "answer", request[r].new, request[r].clean)
             /\ UNCHANGED <<cut, faults>>
    BY <1>5, <2>1 DEF Request, PC, AddExpire, At, Moved
  <2>2. CASE /\ Moved(r, "answer", request[r].new, FALSE)
             /\ cut' = cut \union {request[r].new}
             /\ faults' \in Nat /\ faults' # 0
             /\ UNCHANGED key
    BY <1>5, <2>2 DEF Request, PC, AddExpire, At, Moved
  <2>3. QED
    BY <1>5, <2>1, <2>2, AddExpireMoves 
<1>6. ASSUME NEW r \in Requests, Answer(r)
      PROVE  Typed'
  BY <1>6 DEF Become, Request, PC, Answer, Retire, Done, Idle, At
<1>7. ASSUME NEW r \in Requests, Exists(r)
      PROVE  Typed'
  <2>1. CASE /\ Moved(r, "rotate", request[r].new, request[r].clean)
             /\ faults' \in Nat
    BY <1>7, <2>1 DEF Request, PC, Exists, At, Moved
  <2>2. CASE /\ Done(r)
             /\ faults' \in Nat
    BY <1>7, <2>2 DEF Become, Request, PC, Exists, Done, Idle, At, Moved
  <2>3. QED
    BY <1>7, <2>1, <2>2, ExistsMoves 
<1>8. ASSUME NEW r \in Requests, Revoke(r)
      PROVE  Typed'
  <2>1. CASE /\ key' = [key EXCEPT ![request[r].old] = "none"]
             /\ Moved(r, "clear", request[r].new, request[r].clean)
             /\ UNCHANGED faults
    BY <1>8, <2>1 DEF Request, PC, Revoke, At, Moved
  <2>2. CASE /\ Moved(r, "clear", request[r].new, FALSE)
             /\ faults' \in Nat /\ faults' # 0
             /\ UNCHANGED key
    BY <1>8, <2>2 DEF Request, PC, Revoke, At, Moved
  <2>3. QED
    BY <1>8, <2>1, <2>2, RevokeMoves 
<1>9. ASSUME NEW r \in Requests, Clear(r)
      PROVE  Typed'
  BY <1>9 DEF Become, Request, PC, Clear, Retire, Done, Idle, At
<1>10. ASSUME NEW r \in Requests, Die(r)
       PROVE  Typed'
  BY <1>10 DEF Become, Request, PC, Die, Done, Idle, Fault, At
<1>11. ASSUME NEW r \in Requests, NEW t \in Tokens, Rotate(r, t)
       PROVE  Typed'
  <2>1. CASE /\ key' = [key EXCEPT ![request[r].old] = "none"]
             /\ Moved(r, "hset", t, request[r].clean)
             /\ UNCHANGED faults
    BY <1>11, <2>1 DEF Request, PC, Rotate, Unused, At, Moved
  <2>2. CASE /\ Moved(r, "hset", t, FALSE)
             /\ faults' \in Nat /\ faults' # 0
             /\ UNCHANGED key
    BY <1>11, <2>2 DEF Request, PC, Rotate, Unused, At, Moved
  <2>3. QED
    BY <1>11, <2>1, <2>2, RotateMoves 
<1>12. ASSUME NEW t \in Tokens, Expire(t)
       PROVE  Typed'
  BY <1>12 DEF Become, Request, PC, Expire
<1>13. ASSUME NEW t \in Tokens, Evict(t)
       PROVE  Typed'
  BY <1>13 DEF Become, Request, PC, Evict
<1>14. CASE UNCHANGED vars
  BY <1>14 DEF Become, Request, PC, vars
<1>15. QED
  BY <1>1, <1>2, <1>3, <1>4, <1>5, <1>6, <1>7, <1>8, <1>9, <1>10,
     <1>11, <1>12, <1>13, <1>14 DEF Next

\* A new token is taken from the unused ones.
LEMMA FreshStep == IInv /\ [Next]_vars => Fresh'
<1> SUFFICES ASSUME IInv, [Next]_vars PROVE Fresh'
  OBVIOUS
<1> USE SessionsAssumption
    DEF IInv, store, history, Fresh, HandedAfter, Handed, Typed, TypeOK, Placed, Making
<1>1. ASSUME NEW r \in Requests, NEW b \in Browsers, Refresh(r, b)
      PROVE  Fresh'
  BY <1>1 DEF Become, Request, PC, Refresh, Arrive
<1>2. ASSUME NEW r \in Requests, NEW b \in Browsers, Logout(r, b)
      PROVE  Fresh'
  <2>1. CASE cookie[b] \in Tokens \ expired
    BY <1>2, <2>1 DEF Become, Request, PC, Logout, Arrive
  <2>2. CASE cookie[b] \notin Tokens \ expired
    BY <1>2, <2>2 DEF Become, Request, PC, Logout, Arrive
  <2>3. QED
    BY <2>1, <2>2
<1>3. ASSUME NEW r \in Requests, NEW b \in Browsers, NEW t \in Tokens, Login(r, b, t)
      PROVE  Fresh'
  BY <1>3 DEF Become, Request, PC, Login, Arrive, Unused
<1>4. ASSUME NEW r \in Requests, AddHset(r)
      PROVE  Fresh'
  <2>1. CASE /\ key' = [key EXCEPT ![request[r].new] = "open"]
             /\ Moved(r, "expire", request[r].new, request[r].clean)
             /\ UNCHANGED <<cut, faults>>
    BY <1>4, <2>1 DEF AddHset, At, Moved
  <2>2. CASE /\ Moved(r, "answer", request[r].new, FALSE)
             /\ cut' = cut \union {request[r].new}
             /\ faults' \in Nat /\ faults' # 0
             /\ UNCHANGED key
    BY <1>4, <2>2 DEF AddHset, At, Moved
  <2>3. QED
    BY <1>4, <2>1, <2>2, AddHsetMoves 
<1>5. ASSUME NEW r \in Requests, AddExpire(r)
      PROVE  Fresh'
  <2>1. CASE /\ key' = [key EXCEPT ![request[r].new] = IF @ = "none" THEN "none" ELSE "ttl"]
             /\ Moved(r, "answer", request[r].new, request[r].clean)
             /\ UNCHANGED <<cut, faults>>
    BY <1>5, <2>1 DEF AddExpire, At, Moved
  <2>2. CASE /\ Moved(r, "answer", request[r].new, FALSE)
             /\ cut' = cut \union {request[r].new}
             /\ faults' \in Nat /\ faults' # 0
             /\ UNCHANGED key
    BY <1>5, <2>2 DEF AddExpire, At, Moved
  <2>3. QED
    BY <1>5, <2>1, <2>2, AddExpireMoves 
<1>6. ASSUME NEW r \in Requests, Answer(r)
      PROVE  Fresh'
  BY <1>6 DEF Become, Request, PC, Answer, Retire, Done, Idle, At
<1>7. ASSUME NEW r \in Requests, Exists(r)
      PROVE  Fresh'
  <2>1. CASE /\ Moved(r, "rotate", request[r].new, request[r].clean)
             /\ faults' \in Nat
    BY <1>7, <2>1 DEF Exists, At, Moved
  <2>2. CASE /\ Done(r)
             /\ faults' \in Nat
    BY <1>7, <2>2 DEF Become, Request, PC, Exists, Done, Idle, At, Moved
  <2>3. QED
    BY <1>7, <2>1, <2>2, ExistsMoves 
<1>8. ASSUME NEW r \in Requests, Revoke(r)
      PROVE  Fresh'
  <2>1. CASE /\ key' = [key EXCEPT ![request[r].old] = "none"]
             /\ Moved(r, "clear", request[r].new, request[r].clean)
             /\ UNCHANGED faults
    BY <1>8, <2>1 DEF Revoke, At, Moved
  <2>2. CASE /\ Moved(r, "clear", request[r].new, FALSE)
             /\ faults' \in Nat /\ faults' # 0
             /\ UNCHANGED key
    BY <1>8, <2>2 DEF Revoke, At, Moved
  <2>3. QED
    BY <1>8, <2>1, <2>2, RevokeMoves 
<1>9. ASSUME NEW r \in Requests, Clear(r)
      PROVE  Fresh'
  BY <1>9 DEF Become, Request, PC, Clear, Retire, Done, Idle, At
<1>10. ASSUME NEW r \in Requests, Die(r)
       PROVE  Fresh'
  BY <1>10 DEF Become, Request, PC, Die, Done, Idle, Fault, At
<1>11. ASSUME NEW r \in Requests, NEW t \in Tokens, Rotate(r, t)
       PROVE  Fresh'
  <2>1. CASE /\ key' = [key EXCEPT ![request[r].old] = "none"]
             /\ Moved(r, "hset", t, request[r].clean)
             /\ UNCHANGED faults
    BY <1>11, <2>1 DEF Rotate, Unused, At, Moved
  <2>2. CASE /\ Moved(r, "hset", t, FALSE)
             /\ faults' \in Nat /\ faults' # 0
             /\ UNCHANGED key
    BY <1>11, <2>2 DEF Rotate, Unused, At, Moved
  <2>3. QED
    BY <1>11, <2>1, <2>2, RotateMoves 
<1>12. ASSUME NEW t \in Tokens, Expire(t)
       PROVE  Fresh'
  BY <1>12 DEF Become, Request, PC, Expire
<1>13. ASSUME NEW t \in Tokens, Evict(t)
       PROVE  Fresh'
  BY <1>13 DEF Become, Request, PC, Evict
<1>14. CASE UNCHANGED vars
  BY <1>14 DEF Become, Request, PC, vars
<1>15. QED
  BY <1>1, <1>2, <1>3, <1>4, <1>5, <1>6, <1>7, <1>8, <1>9, <1>10,
     <1>11, <1>12, <1>13, <1>14 DEF Next

\* Only an answer hands a token out, and it ends the request that made it.
LEMMA HandedStep == IInv /\ [Next]_vars => HandedAfter'
<1> SUFFICES ASSUME IInv, [Next]_vars PROVE HandedAfter'
  OBVIOUS
<1> USE SessionsAssumption
    DEF IInv, store, history, Fresh, HandedAfter, Handed, Typed, TypeOK, Placed, Making
<1>1. ASSUME NEW r \in Requests, NEW b \in Browsers, Refresh(r, b)
      PROVE  HandedAfter'
  BY <1>1 DEF Become, Request, PC, Refresh, Arrive
<1>2. ASSUME NEW r \in Requests, NEW b \in Browsers, Logout(r, b)
      PROVE  HandedAfter'
  <2>1. /\ UNCHANGED <<login, cookie, retired>> /\ DOMAIN request' = Requests
        /\ \A s \in Requests \ {r} : request'[s] = request[s]
    BY <1>2 DEF Become, Logout, Arrive
  <2>2. /\ request'[r].pc \in {"revoke", "clear"}
        /\ request'[r].old \in {cookie[b], NoToken}
    BY <1>2 DEF Become, Logout, Arrive
  <2>3. \A s \in Requests : Making(request'[s]) => s # r
    BY <2>2
  <2>4. ASSUME NEW t \in Tokens, Handed(t)'
        PROVE  Handed(t)
    BY <2>1, <2>2, <2>4
  <2>5. QED
    BY <2>1, <2>3, <2>4
<1>3. ASSUME NEW r \in Requests, NEW b \in Browsers, NEW t \in Tokens, Login(r, b, t)
      PROVE  HandedAfter'
  BY <1>3 DEF Become, Request, PC, Login, Arrive, Unused
<1>4. ASSUME NEW r \in Requests, AddHset(r)
      PROVE  HandedAfter'
  <2>1. CASE /\ key' = [key EXCEPT ![request[r].new] = "open"]
             /\ Moved(r, "expire", request[r].new, request[r].clean)
             /\ UNCHANGED <<cut, faults>>
    BY <1>4, <2>1 DEF AddHset, At, Moved
  <2>2. CASE /\ Moved(r, "answer", request[r].new, FALSE)
             /\ cut' = cut \union {request[r].new}
             /\ faults' \in Nat /\ faults' # 0
             /\ UNCHANGED key
    BY <1>4, <2>2 DEF AddHset, At, Moved
  <2>3. QED
    BY <1>4, <2>1, <2>2, AddHsetMoves 
<1>5. ASSUME NEW r \in Requests, AddExpire(r)
      PROVE  HandedAfter'
  <2>1. CASE /\ key' = [key EXCEPT ![request[r].new] = IF @ = "none" THEN "none" ELSE "ttl"]
             /\ Moved(r, "answer", request[r].new, request[r].clean)
             /\ UNCHANGED <<cut, faults>>
    BY <1>5, <2>1 DEF AddExpire, At, Moved
  <2>2. CASE /\ Moved(r, "answer", request[r].new, FALSE)
             /\ cut' = cut \union {request[r].new}
             /\ faults' \in Nat /\ faults' # 0
             /\ UNCHANGED key
    BY <1>5, <2>2 DEF AddExpire, At, Moved
  <2>3. QED
    BY <1>5, <2>1, <2>2, AddExpireMoves 
<1>6. ASSUME NEW r \in Requests, Answer(r)
      PROVE  HandedAfter'
  BY <1>6 DEF Become, Request, PC, Answer, Retire, Done, Idle, At
<1>7. ASSUME NEW r \in Requests, Exists(r)
      PROVE  HandedAfter'
  <2>1. CASE /\ Moved(r, "rotate", request[r].new, request[r].clean)
             /\ faults' \in Nat
    BY <1>7, <2>1 DEF Exists, At, Moved
  <2>2. CASE /\ Done(r)
             /\ faults' \in Nat
    BY <1>7, <2>2 DEF Become, Request, PC, Exists, Done, Idle, At, Moved
  <2>3. QED
    BY <1>7, <2>1, <2>2, ExistsMoves 
<1>8. ASSUME NEW r \in Requests, Revoke(r)
      PROVE  HandedAfter'
  <2>1. CASE /\ key' = [key EXCEPT ![request[r].old] = "none"]
             /\ Moved(r, "clear", request[r].new, request[r].clean)
             /\ UNCHANGED faults
    BY <1>8, <2>1 DEF Revoke, At, Moved
  <2>2. CASE /\ Moved(r, "clear", request[r].new, FALSE)
             /\ faults' \in Nat /\ faults' # 0
             /\ UNCHANGED key
    BY <1>8, <2>2 DEF Revoke, At, Moved
  <2>3. QED
    BY <1>8, <2>1, <2>2, RevokeMoves 
<1>9. ASSUME NEW r \in Requests, Clear(r)
      PROVE  HandedAfter'
  BY <1>9 DEF Become, Request, PC, Clear, Retire, Done, Idle, At
<1>10. ASSUME NEW r \in Requests, Die(r)
       PROVE  HandedAfter'
  BY <1>10 DEF Become, Request, PC, Die, Done, Idle, Fault, At
<1>11. ASSUME NEW r \in Requests, NEW t \in Tokens, Rotate(r, t)
       PROVE  HandedAfter'
  <2>1. CASE /\ key' = [key EXCEPT ![request[r].old] = "none"]
             /\ Moved(r, "hset", t, request[r].clean)
             /\ UNCHANGED faults
    BY <1>11, <2>1 DEF Rotate, Unused, At, Moved
  <2>2. CASE /\ Moved(r, "hset", t, FALSE)
             /\ faults' \in Nat /\ faults' # 0
             /\ UNCHANGED key
    BY <1>11, <2>2 DEF Rotate, Unused, At, Moved
  <2>3. QED
    BY <1>11, <2>1, <2>2, RotateMoves 
<1>12. ASSUME NEW t \in Tokens, Expire(t)
       PROVE  HandedAfter'
  BY <1>12 DEF Become, Request, PC, Expire
<1>13. ASSUME NEW t \in Tokens, Evict(t)
       PROVE  HandedAfter'
  BY <1>13 DEF Become, Request, PC, Evict
<1>14. CASE UNCHANGED vars
  BY <1>14 DEF Become, Request, PC, vars
<1>15. QED
  BY <1>1, <1>2, <1>3, <1>4, <1>5, <1>6, <1>7, <1>8, <1>9, <1>10,
     <1>11, <1>12, <1>13, <1>14 DEF Next

\* Keys are written for tokens in the making only, which no request presents.
LEMMA DeadStep == IInv /\ [Next]_vars => Dead'
<1> SUFFICES ASSUME IInv, [Next]_vars PROVE Dead'
  OBVIOUS
<1> USE SessionsAssumption
    DEF IInv, store, history, Fresh, HandedAfter, Handed, Dead, Typed, TypeOK, Placed,
        Making
<1>1. ASSUME NEW r \in Requests, NEW b \in Browsers, Refresh(r, b)
      PROVE  Dead'
  BY <1>1 DEF Become, Request, PC, Refresh, Arrive
<1>2. ASSUME NEW r \in Requests, NEW b \in Browsers, Logout(r, b)
      PROVE  Dead'
  <2>1. CASE cookie[b] \in Tokens \ expired
    BY <1>2, <2>1 DEF Become, Request, PC, Logout, Arrive
  <2>2. CASE cookie[b] \notin Tokens \ expired
    BY <1>2, <2>2 DEF Become, Request, PC, Logout, Arrive
  <2>3. QED
    BY <2>1, <2>2
<1>3. ASSUME NEW r \in Requests, NEW b \in Browsers, NEW t \in Tokens, Login(r, b, t)
      PROVE  Dead'
  BY <1>3 DEF Become, Request, PC, Login, Arrive, Unused
<1>4. ASSUME NEW r \in Requests, AddHset(r)
      PROVE  Dead'
  <2>1. CASE /\ key' = [key EXCEPT ![request[r].new] = "open"]
             /\ Moved(r, "expire", request[r].new, request[r].clean)
             /\ UNCHANGED <<cut, faults>>
    BY <1>4, <2>1 DEF AddHset, At, Moved
  <2>2. CASE /\ Moved(r, "answer", request[r].new, FALSE)
             /\ cut' = cut \union {request[r].new}
             /\ faults' \in Nat /\ faults' # 0
             /\ UNCHANGED key
    BY <1>4, <2>2 DEF AddHset, At, Moved
  <2>3. QED
    BY <1>4, <2>1, <2>2, AddHsetMoves 
<1>5. ASSUME NEW r \in Requests, AddExpire(r)
      PROVE  Dead'
  <2>1. CASE /\ key' = [key EXCEPT ![request[r].new] = IF @ = "none" THEN "none" ELSE "ttl"]
             /\ Moved(r, "answer", request[r].new, request[r].clean)
             /\ UNCHANGED <<cut, faults>>
    BY <1>5, <2>1 DEF AddExpire, At, Moved
  <2>2. CASE /\ Moved(r, "answer", request[r].new, FALSE)
             /\ cut' = cut \union {request[r].new}
             /\ faults' \in Nat /\ faults' # 0
             /\ UNCHANGED key
    BY <1>5, <2>2 DEF AddExpire, At, Moved
  <2>3. QED
    BY <1>5, <2>1, <2>2, AddExpireMoves 
<1>6. ASSUME NEW r \in Requests, Answer(r)
      PROVE  Dead'
  BY <1>6 DEF Become, Request, PC, Answer, Retire, Done, Idle, At
<1>7. ASSUME NEW r \in Requests, Exists(r)
      PROVE  Dead'
  <2>1. CASE /\ Moved(r, "rotate", request[r].new, request[r].clean)
             /\ faults' \in Nat
    BY <1>7, <2>1 DEF Exists, At, Moved
  <2>2. CASE /\ Done(r)
             /\ faults' \in Nat
    BY <1>7, <2>2 DEF Become, Request, PC, Exists, Done, Idle, At, Moved
  <2>3. QED
    BY <1>7, <2>1, <2>2, ExistsMoves 
<1>8. ASSUME NEW r \in Requests, Revoke(r)
      PROVE  Dead'
  <2>1. CASE /\ key' = [key EXCEPT ![request[r].old] = "none"]
             /\ Moved(r, "clear", request[r].new, request[r].clean)
             /\ UNCHANGED faults
    BY <1>8, <2>1 DEF Revoke, At, Moved
  <2>2. CASE /\ Moved(r, "clear", request[r].new, FALSE)
             /\ faults' \in Nat /\ faults' # 0
             /\ UNCHANGED key
    BY <1>8, <2>2 DEF Revoke, At, Moved
  <2>3. QED
    BY <1>8, <2>1, <2>2, RevokeMoves 
<1>9. ASSUME NEW r \in Requests, Clear(r)
      PROVE  Dead'
  BY <1>9 DEF Become, Request, PC, Clear, Retire, Done, Idle, At
<1>10. ASSUME NEW r \in Requests, Die(r)
       PROVE  Dead'
  BY <1>10 DEF Become, Request, PC, Die, Done, Idle, Fault, At
<1>11. ASSUME NEW r \in Requests, NEW t \in Tokens, Rotate(r, t)
       PROVE  Dead'
  <2>1. CASE /\ key' = [key EXCEPT ![request[r].old] = "none"]
             /\ Moved(r, "hset", t, request[r].clean)
             /\ UNCHANGED faults
    BY <1>11, <2>1 DEF Rotate, Unused, At, Moved
  <2>2. CASE /\ Moved(r, "hset", t, FALSE)
             /\ faults' \in Nat /\ faults' # 0
             /\ UNCHANGED key
    BY <1>11, <2>2 DEF Rotate, Unused, At, Moved
  <2>3. QED
    BY <1>11, <2>1, <2>2, RotateMoves 
<1>12. ASSUME NEW t \in Tokens, Expire(t)
       PROVE  Dead'
  BY <1>12 DEF Become, Request, PC, Expire
<1>13. ASSUME NEW t \in Tokens, Evict(t)
       PROVE  Dead'
  BY <1>13 DEF Become, Request, PC, Evict
<1>14. CASE UNCHANGED vars
  BY <1>14 DEF Become, Request, PC, vars
<1>15. QED
  BY <1>1, <1>2, <1>3, <1>4, <1>5, <1>6, <1>7, <1>8, <1>9, <1>10,
     <1>11, <1>12, <1>13, <1>14 DEF Next

\* The same for the tokens retired.
LEMMA RetiredStep == IInv /\ [Next]_vars => RetiredStaysDead'
<1> SUFFICES ASSUME IInv, [Next]_vars PROVE RetiredStaysDead'
  OBVIOUS
<1> USE SessionsAssumption
    DEF IInv, store, history, Fresh, HandedAfter, Handed, Dead, RetiredStaysDead, Live,
        Typed, TypeOK, Placed, Making
<1>1. ASSUME NEW r \in Requests, NEW b \in Browsers, Refresh(r, b)
      PROVE  RetiredStaysDead'
  BY <1>1 DEF Become, Request, PC, Refresh, Arrive
<1>2. ASSUME NEW r \in Requests, NEW b \in Browsers, Logout(r, b)
      PROVE  RetiredStaysDead'
  <2>1. CASE cookie[b] \in Tokens \ expired
    BY <1>2, <2>1 DEF Become, Request, PC, Logout, Arrive
  <2>2. CASE cookie[b] \notin Tokens \ expired
    BY <1>2, <2>2 DEF Become, Request, PC, Logout, Arrive
  <2>3. QED
    BY <2>1, <2>2
<1>3. ASSUME NEW r \in Requests, NEW b \in Browsers, NEW t \in Tokens, Login(r, b, t)
      PROVE  RetiredStaysDead'
  BY <1>3 DEF Become, Request, PC, Login, Arrive, Unused
<1>4. ASSUME NEW r \in Requests, AddHset(r)
      PROVE  RetiredStaysDead'
  <2>1. CASE /\ key' = [key EXCEPT ![request[r].new] = "open"]
             /\ Moved(r, "expire", request[r].new, request[r].clean)
             /\ UNCHANGED <<cut, faults>>
    BY <1>4, <2>1 DEF AddHset, At, Moved
  <2>2. CASE /\ Moved(r, "answer", request[r].new, FALSE)
             /\ cut' = cut \union {request[r].new}
             /\ faults' \in Nat /\ faults' # 0
             /\ UNCHANGED key
    BY <1>4, <2>2 DEF AddHset, At, Moved
  <2>3. QED
    BY <1>4, <2>1, <2>2, AddHsetMoves 
<1>5. ASSUME NEW r \in Requests, AddExpire(r)
      PROVE  RetiredStaysDead'
  <2>1. CASE /\ key' = [key EXCEPT ![request[r].new] = IF @ = "none" THEN "none" ELSE "ttl"]
             /\ Moved(r, "answer", request[r].new, request[r].clean)
             /\ UNCHANGED <<cut, faults>>
    BY <1>5, <2>1 DEF AddExpire, At, Moved
  <2>2. CASE /\ Moved(r, "answer", request[r].new, FALSE)
             /\ cut' = cut \union {request[r].new}
             /\ faults' \in Nat /\ faults' # 0
             /\ UNCHANGED key
    BY <1>5, <2>2 DEF AddExpire, At, Moved
  <2>3. QED
    BY <1>5, <2>1, <2>2, AddExpireMoves 
<1>6. ASSUME NEW r \in Requests, Answer(r)
      PROVE  RetiredStaysDead'
  BY <1>6 DEF Become, Request, PC, Answer, Retire, Done, Idle, At
<1>7. ASSUME NEW r \in Requests, Exists(r)
      PROVE  RetiredStaysDead'
  <2>1. CASE /\ Moved(r, "rotate", request[r].new, request[r].clean)
             /\ faults' \in Nat
    BY <1>7, <2>1 DEF Exists, At, Moved
  <2>2. CASE /\ Done(r)
             /\ faults' \in Nat
    BY <1>7, <2>2 DEF Become, Request, PC, Exists, Done, Idle, At, Moved
  <2>3. QED
    BY <1>7, <2>1, <2>2, ExistsMoves 
<1>8. ASSUME NEW r \in Requests, Revoke(r)
      PROVE  RetiredStaysDead'
  <2>1. CASE /\ key' = [key EXCEPT ![request[r].old] = "none"]
             /\ Moved(r, "clear", request[r].new, request[r].clean)
             /\ UNCHANGED faults
    BY <1>8, <2>1 DEF Revoke, At, Moved
  <2>2. CASE /\ Moved(r, "clear", request[r].new, FALSE)
             /\ faults' \in Nat /\ faults' # 0
             /\ UNCHANGED key
    BY <1>8, <2>2 DEF Revoke, At, Moved
  <2>3. QED
    BY <1>8, <2>1, <2>2, RevokeMoves 
<1>9. ASSUME NEW r \in Requests, Clear(r)
      PROVE  RetiredStaysDead'
  BY <1>9 DEF Become, Request, PC, Clear, Retire, Done, Idle, At
<1>10. ASSUME NEW r \in Requests, Die(r)
       PROVE  RetiredStaysDead'
  BY <1>10 DEF Become, Request, PC, Die, Done, Idle, Fault, At
<1>11. ASSUME NEW r \in Requests, NEW t \in Tokens, Rotate(r, t)
       PROVE  RetiredStaysDead'
  <2>1. CASE /\ key' = [key EXCEPT ![request[r].old] = "none"]
             /\ Moved(r, "hset", t, request[r].clean)
             /\ UNCHANGED faults
    BY <1>11, <2>1 DEF Rotate, Unused, At, Moved
  <2>2. CASE /\ Moved(r, "hset", t, FALSE)
             /\ faults' \in Nat /\ faults' # 0
             /\ UNCHANGED key
    BY <1>11, <2>2 DEF Rotate, Unused, At, Moved
  <2>3. QED
    BY <1>11, <2>1, <2>2, RotateMoves 
<1>12. ASSUME NEW t \in Tokens, Expire(t)
       PROVE  RetiredStaysDead'
  BY <1>12 DEF Become, Request, PC, Expire
<1>13. ASSUME NEW t \in Tokens, Evict(t)
       PROVE  RetiredStaysDead'
  BY <1>13 DEF Become, Request, PC, Evict
<1>14. CASE UNCHANGED vars
  BY <1>14 DEF Become, Request, PC, vars
<1>15. QED
  BY <1>1, <1>2, <1>3, <1>4, <1>5, <1>6, <1>7, <1>8, <1>9, <1>10,
     <1>11, <1>12, <1>13, <1>14 DEF Next

\* A key without a TTL has its second call still to come, or was cut short.
LEMMA ExpireStep == IInv /\ [Next]_vars => SessionsExpire'
<1> SUFFICES ASSUME IInv, [Next]_vars PROVE SessionsExpire'
  OBVIOUS
<1> USE SessionsAssumption
    DEF IInv, store, history, SessionsExpire, At, Typed, TypeOK, Placed, Making
<1>1. ASSUME NEW r \in Requests, NEW b \in Browsers, Refresh(r, b)
      PROVE  SessionsExpire'
  BY <1>1 DEF Become, Request, PC, Refresh, Arrive
<1>2. ASSUME NEW r \in Requests, NEW b \in Browsers, Logout(r, b)
      PROVE  SessionsExpire'
  <2>1. CASE cookie[b] \in Tokens \ expired
    BY <1>2, <2>1 DEF Become, Request, PC, Logout, Arrive
  <2>2. CASE cookie[b] \notin Tokens \ expired
    BY <1>2, <2>2 DEF Become, Request, PC, Logout, Arrive
  <2>3. QED
    BY <2>1, <2>2
<1>3. ASSUME NEW r \in Requests, NEW b \in Browsers, NEW t \in Tokens, Login(r, b, t)
      PROVE  SessionsExpire'
  BY <1>3 DEF Become, Request, PC, Login, Arrive, Unused
<1>4. ASSUME NEW r \in Requests, AddHset(r)
      PROVE  SessionsExpire'
  <2>1. CASE /\ key' = [key EXCEPT ![request[r].new] = "open"]
             /\ Moved(r, "expire", request[r].new, request[r].clean)
             /\ UNCHANGED <<cut, faults>>
    BY <1>4, <2>1 DEF AddHset, At, Moved
  <2>2. CASE /\ Moved(r, "answer", request[r].new, FALSE)
             /\ cut' = cut \union {request[r].new}
             /\ faults' \in Nat /\ faults' # 0
             /\ UNCHANGED key
    BY <1>4, <2>2 DEF AddHset, At, Moved
  <2>3. QED
    BY <1>4, <2>1, <2>2, AddHsetMoves 
<1>5. ASSUME NEW r \in Requests, AddExpire(r)
      PROVE  SessionsExpire'
  <2>1. CASE /\ key' = [key EXCEPT ![request[r].new] = IF @ = "none" THEN "none" ELSE "ttl"]
             /\ Moved(r, "answer", request[r].new, request[r].clean)
             /\ UNCHANGED <<cut, faults>>
    BY <1>5, <2>1 DEF AddExpire, At, Moved
  <2>2. CASE /\ Moved(r, "answer", request[r].new, FALSE)
             /\ cut' = cut \union {request[r].new}
             /\ faults' \in Nat /\ faults' # 0
             /\ UNCHANGED key
    BY <1>5, <2>2 DEF AddExpire, At, Moved
  <2>3. QED
    BY <1>5, <2>1, <2>2, AddExpireMoves 
<1>6. ASSUME NEW r \in Requests, Answer(r)
      PROVE  SessionsExpire'
  BY <1>6 DEF Become, Request, PC, Answer, Retire, Done, Idle, At
<1>7. ASSUME NEW r \in Requests, Exists(r)
      PROVE  SessionsExpire'
  <2>1. CASE /\ Moved(r, "rotate", request[r].new, request[r].clean)
             /\ faults' \in Nat
    BY <1>7, <2>1 DEF Exists, At, Moved
  <2>2. CASE /\ Done(r)
             /\ faults' \in Nat
    BY <1>7, <2>2 DEF Become, Request, PC, Exists, Done, Idle, At, Moved
  <2>3. QED
    BY <1>7, <2>1, <2>2, ExistsMoves 
<1>8. ASSUME NEW r \in Requests, Revoke(r)
      PROVE  SessionsExpire'
  <2>1. CASE /\ key' = [key EXCEPT ![request[r].old] = "none"]
             /\ Moved(r, "clear", request[r].new, request[r].clean)
             /\ UNCHANGED faults
    BY <1>8, <2>1 DEF Revoke, At, Moved
  <2>2. CASE /\ Moved(r, "clear", request[r].new, FALSE)
             /\ faults' \in Nat /\ faults' # 0
             /\ UNCHANGED key
    BY <1>8, <2>2 DEF Revoke, At, Moved
  <2>3. QED
    BY <1>8, <2>1, <2>2, RevokeMoves 
<1>9. ASSUME NEW r \in Requests, Clear(r)
      PROVE  SessionsExpire'
  BY <1>9 DEF Become, Request, PC, Clear, Retire, Done, Idle, At
<1>10. ASSUME NEW r \in Requests, Die(r)
       PROVE  SessionsExpire'
  BY <1>10 DEF Become, Request, PC, Die, Done, Idle, Fault, At
<1>11. ASSUME NEW r \in Requests, NEW t \in Tokens, Rotate(r, t)
       PROVE  SessionsExpire'
  <2>1. CASE /\ key' = [key EXCEPT ![request[r].old] = "none"]
             /\ Moved(r, "hset", t, request[r].clean)
             /\ UNCHANGED faults
    BY <1>11, <2>1 DEF Rotate, Unused, At, Moved
  <2>2. CASE /\ Moved(r, "hset", t, FALSE)
             /\ faults' \in Nat /\ faults' # 0
             /\ UNCHANGED key
    BY <1>11, <2>2 DEF Rotate, Unused, At, Moved
  <2>3. QED
    BY <1>11, <2>1, <2>2, RotateMoves 
<1>12. ASSUME NEW t \in Tokens, Expire(t)
       PROVE  SessionsExpire'
  BY <1>12 DEF Become, Request, PC, Expire
<1>13. ASSUME NEW t \in Tokens, Evict(t)
       PROVE  SessionsExpire'
  BY <1>13 DEF Become, Request, PC, Evict
<1>14. CASE UNCHANGED vars
  BY <1>14 DEF Become, Request, PC, vars
<1>15. QED
  BY <1>1, <1>2, <1>3, <1>4, <1>5, <1>6, <1>7, <1>8, <1>9, <1>10,
     <1>11, <1>12, <1>13, <1>14 DEF Next

\* IInv is an invariant.
LEMMA Invariance == Spec => []IInv
<1>1. IInv /\ [Next]_vars => IInv'
  BY TypedStep, FreshStep, HandedStep, DeadStep, RetiredStep, ExpireStep DEF IInv
<1>2. QED
  BY InitIInv, <1>1, PTL DEF Spec

-----------------------------------------------------------------------------
\* Keys, cookies and requests always have their types.
THEOREM TypeCorrect == Spec => []TypeOK
<1>1. IInv => TypeOK
  BY DEF IInv, Typed
<1>2. QED
  BY Invariance, <1>1, PTL

\* RefreshSessionStore never brings a revoked session back: the token of an answered
\* refresh or logout is dead for good, whatever runs at the same time, unless
\* Redis failed that very request.
THEOREM RetirementIsFinal == Spec => []RetiredStaysDead
<1>1. IInv => RetiredStaysDead
  BY DEF IInv
<1>2. QED
  BY Invariance, <1>1, PTL

\* A session without a TTL is being registered or was cut short by a fault.
THEOREM SessionsGetTheirTTL == Spec => []SessionsExpire
<1>1. IInv => SessionsExpire
  BY DEF IInv
<1>2. QED
  BY Invariance, <1>1, PTL

-----------------------------------------------------------------------------
(* Cookies and logins.                                                     *)

\* Browser b has token t: as its cookie, or in a request it has sent.
Has(b, t) ==
    \/ cookie[b] = t
    \/ \E r \in Requests : /\ request[r].browser = b
                           /\ request[r].old = t \/ (Making(request[r]) /\ request[r].new = t)

\* No two browsers have the same token.
Owned == \A b, c \in Browsers, t \in Tokens : Has(b, t) /\ Has(c, t) => b = c

\* A browser that is not in overlap has one request at a time.
OneByOne ==
    \A r, s \in Requests :
        /\ request[r].pc = "idle" => request[r].browser = NoBrowser
        /\ request[r].browser \in Browsers \ overlap /\ request[s].browser = request[r].browser
           => r = s

\* Tokens descend from a login, and only tokens in use are registered.
Lineage ==
    \A t \in Tokens : /\ login[t] # NoToken => login[login[t]] # NoToken
                      /\ Live(t) => login[t] # NoToken

Good(t) == Live(t) \/ t \in expired

\* The request of an undisturbed browser: until the old token is revoked the cookie is
\* good; the new one is, once it is registered.
RequestGood(r) ==
    LET x == request[r] IN
    /\ x.pc \in {"exists", "rotate", "revoke"} => cookie[x.browser] = x.old /\ Good(x.old)
    /\ x.pc = "expire" => key[x.new] = "open"
    /\ x.pc = "answer" => Good(x.new)

RequestsGood ==
    \A r \in Requests :
        request[r].browser \in Browsers /\ Undisturbed(request[r].browser) => RequestGood(r)

\* A token that is registered, about to be registered or about to be exchanged.
Current(t) ==
    \/ Live(t)
    \/ \E r \in Requests : \/ request[r].pc = "hset" /\ request[r].new = t
                           \/ request[r].pc \in {"exists", "rotate"} /\ request[r].old = t

OneCurrent ==
    faults = 0 /\ overlap = {} =>
        \A s, t \in Tokens : Current(s) /\ Current(t) /\ login[s] = login[t] => s = t

Calm == Owned /\ OneByOne /\ Lineage /\ RequestsGood /\ CookieIsGood /\ OneCurrent

\* A browser with a request in flight that sends another is in overlap.
LEMMA OneByOneStep == IInv /\ OneByOne /\ [Next]_vars => OneByOne'
<1> SUFFICES ASSUME IInv, OneByOne, [Next]_vars PROVE OneByOne'
  OBVIOUS
<1> USE SessionsAssumption
    DEF IInv, store, history, OneByOne, Typed, TypeOK, Placed
<1>1. ASSUME NEW r \in Requests, NEW b \in Browsers, Refresh(r, b)
      PROVE  OneByOne'
  BY <1>1 DEF Become, Request, PC, Refresh, Arrive, InFlight, At
<1>2. ASSUME NEW r \in Requests, NEW b \in Browsers, Logout(r, b)
      PROVE  OneByOne'
  <2>1. CASE cookie[b] \in Tokens \ expired
    BY <1>2, <2>1 DEF Become, Request, PC, Logout, Arrive, InFlight, At
  <2>2. CASE cookie[b] \notin Tokens \ expired
    BY <1>2, <2>2 DEF Become, Request, PC, Logout, Arrive, InFlight, At
  <2>3. QED
    BY <1>2, <2>1, <2>2
<1>3. ASSUME NEW r \in Requests, NEW b \in Browsers, NEW t \in Tokens, Login(r, b, t)
      PROVE  OneByOne'
  BY <1>3 DEF Become, Request, PC, Login, Arrive, Unused, InFlight, At
<1>4. ASSUME NEW r \in Requests, AddHset(r)
      PROVE  OneByOne'
  <2>1. CASE /\ key' = [key EXCEPT ![request[r].new] = "open"]
             /\ Moved(r, "expire", request[r].new, request[r].clean)
             /\ UNCHANGED <<cut, faults>>
    BY <1>4, <2>1 DEF AddHset, At, Moved
  <2>2. CASE /\ Moved(r, "answer", request[r].new, FALSE)
             /\ cut' = cut \union {request[r].new}
             /\ faults' \in Nat /\ faults' # 0
             /\ UNCHANGED key
    BY <1>4, <2>2 DEF AddHset, At, Moved
  <2>3. QED
    BY <1>4, <2>1, <2>2, AddHsetMoves
<1>5. ASSUME NEW r \in Requests, AddExpire(r)
      PROVE  OneByOne'
  <2>1. CASE /\ key' = [key EXCEPT ![request[r].new] = IF @ = "none" THEN "none" ELSE "ttl"]
             /\ Moved(r, "answer", request[r].new, request[r].clean)
             /\ UNCHANGED <<cut, faults>>
    BY <1>5, <2>1 DEF AddExpire, At, Moved
  <2>2. CASE /\ Moved(r, "answer", request[r].new, FALSE)
             /\ cut' = cut \union {request[r].new}
             /\ faults' \in Nat /\ faults' # 0
             /\ UNCHANGED key
    BY <1>5, <2>2 DEF AddExpire, At, Moved
  <2>3. QED
    BY <1>5, <2>1, <2>2, AddExpireMoves
<1>6. ASSUME NEW r \in Requests, Answer(r)
      PROVE  OneByOne'
  BY <1>6 DEF Become, Request, PC, Answer, Retire, Done, Idle, At
<1>7. ASSUME NEW r \in Requests, Exists(r)
      PROVE  OneByOne'
  <2>1. CASE Moved(r, "rotate", request[r].new, request[r].clean)
    BY <1>7, <2>1 DEF Exists, At, Moved
  <2>2. CASE Done(r)
    BY <1>7, <2>2 DEF Become, Request, PC, Exists, Done, Idle, At, Moved
  <2>3. QED
    BY <1>7, <2>1, <2>2, ExistsMoves
<1>8. ASSUME NEW r \in Requests, Revoke(r)
      PROVE  OneByOne'
  <2>1. CASE /\ key' = [key EXCEPT ![request[r].old] = "none"]
             /\ Moved(r, "clear", request[r].new, request[r].clean)
             /\ UNCHANGED faults
    BY <1>8, <2>1 DEF Revoke, At, Moved
  <2>2. CASE /\ Moved(r, "clear", request[r].new, FALSE)
             /\ faults' \in Nat /\ faults' # 0
             /\ UNCHANGED key
    BY <1>8, <2>2 DEF Revoke, At, Moved
  <2>3. QED
    BY <1>8, <2>1, <2>2, RevokeMoves
<1>9. ASSUME NEW r \in Requests, Clear(r)
      PROVE  OneByOne'
  BY <1>9 DEF Become, Request, PC, Clear, Retire, Done, Idle, At
<1>10. ASSUME NEW r \in Requests, Die(r)
       PROVE  OneByOne'
  BY <1>10 DEF Become, Request, PC, Die, Done, Idle, Fault, At
<1>11. ASSUME NEW r \in Requests, NEW t \in Tokens, Rotate(r, t)
       PROVE  OneByOne'
  <2>1. CASE /\ key' = [key EXCEPT ![request[r].old] = "none"]
             /\ Moved(r, "hset", t, request[r].clean)
             /\ UNCHANGED faults
    BY <1>11, <2>1 DEF Rotate, Unused, At, Moved
  <2>2. CASE /\ Moved(r, "hset", t, FALSE)
             /\ faults' \in Nat /\ faults' # 0
             /\ UNCHANGED key
    BY <1>11, <2>2 DEF Rotate, Unused, At, Moved
  <2>3. QED
    BY <1>11, <2>1, <2>2, RotateMoves
<1>12. ASSUME NEW t \in Tokens, Expire(t)
       PROVE  OneByOne'
  BY <1>12 DEF Expire
<1>13. ASSUME NEW t \in Tokens, Evict(t)
       PROVE  OneByOne'
  BY <1>13 DEF Evict
<1>14. CASE UNCHANGED vars
  BY <1>14 DEF vars
<1>15. QED
  BY <1>1, <1>2, <1>3, <1>4, <1>5, <1>6, <1>7, <1>8, <1>9, <1>10,
     <1>11, <1>12, <1>13, <1>14 DEF Next

\* Tokens are used before they are registered.
LEMMA LineageStep == IInv /\ Lineage /\ [Next]_vars => Lineage'
<1> SUFFICES ASSUME IInv, Lineage, [Next]_vars PROVE Lineage'
  OBVIOUS
<1> USE SessionsAssumption
    DEF IInv, store, history, Lineage, Live, Fresh, HandedAfter, Handed, Typed, TypeOK, Placed, Making
<1>1. ASSUME NEW r \in Requests, NEW b \in Browsers, Refresh(r, b)
      PROVE  Lineage'
  BY <1>1 DEF Become, Request, PC, Refresh, Arrive, InFlight, At
<1>2. ASSUME NEW r \in Requests, NEW b \in Browsers, Logout(r, b)
      PROVE  Lineage'
  <2>1. CASE cookie[b] \in Tokens \ expired
    BY <1>2, <2>1 DEF Become, Request, PC, Logout, Arrive, InFlight, At
  <2>2. CASE cookie[b] \notin Tokens \ expired
    BY <1>2, <2>2 DEF Become, Request, PC, Logout, Arrive, InFlight, At
  <2>3. QED
    BY <1>2, <2>1, <2>2
<1>3. ASSUME NEW r \in Requests, NEW b \in Browsers, NEW t \in Tokens, Login(r, b, t)
      PROVE  Lineage'
  BY <1>3 DEF Become, Request, PC, Login, Arrive, Unused, InFlight, At
<1>4. ASSUME NEW r \in Requests, AddHset(r)
      PROVE  Lineage'
  <2>1. CASE /\ key' = [key EXCEPT ![request[r].new] = "open"]
             /\ Moved(r, "expire", request[r].new, request[r].clean)
             /\ UNCHANGED <<cut, faults>>
    BY <1>4, <2>1 DEF AddHset, At, Moved
  <2>2. CASE /\ Moved(r, "answer", request[r].new, FALSE)
             /\ cut' = cut \union {request[r].new}
             /\ faults' \in Nat /\ faults' # 0
             /\ UNCHANGED key
    BY <1>4, <2>2 DEF AddHset, At, Moved
  <2>3. QED
    BY <1>4, <2>1, <2>2, AddHsetMoves
<1>5. ASSUME NEW r \in Requests, AddExpire(r)
      PROVE  Lineage'
  <2>1. CASE /\ key' = [key EXCEPT ![request[r].new] = IF @ = "none" THEN "none" ELSE "ttl"]
             /\ Moved(r, "answer", request[r].new, request[r].clean)
             /\ UNCHANGED <<cut, faults>>
    BY <1>5, <2>1 DEF AddExpire, At, Moved
  <2>2. CASE /\ Moved(r, "answer", request[r].new, FALSE)
             /\ cut' = cut \union {request[r].new}
             /\ faults' \in Nat /\ faults' # 0
             /\ UNCHANGED key
    BY <1>5, <2>2 DEF AddExpire, At, Moved
  <2>3. QED
    BY <1>5, <2>1, <2>2, AddExpireMoves
<1>6. ASSUME NEW r \in Requests, Answer(r)
      PROVE  Lineage'
  BY <1>6 DEF Become, Request, PC, Answer, Retire, Done, Idle, At
<1>7. ASSUME NEW r \in Requests, Exists(r)
      PROVE  Lineage'
  <2>1. CASE Moved(r, "rotate", request[r].new, request[r].clean)
    BY <1>7, <2>1 DEF Exists, At, Moved
  <2>2. CASE Done(r)
    BY <1>7, <2>2 DEF Become, Request, PC, Exists, Done, Idle, At, Moved
  <2>3. QED
    BY <1>7, <2>1, <2>2, ExistsMoves
<1>8. ASSUME NEW r \in Requests, Revoke(r)
      PROVE  Lineage'
  <2>1. CASE /\ key' = [key EXCEPT ![request[r].old] = "none"]
             /\ Moved(r, "clear", request[r].new, request[r].clean)
             /\ UNCHANGED faults
    BY <1>8, <2>1 DEF Revoke, At, Moved
  <2>2. CASE /\ Moved(r, "clear", request[r].new, FALSE)
             /\ faults' \in Nat /\ faults' # 0
             /\ UNCHANGED key
    BY <1>8, <2>2 DEF Revoke, At, Moved
  <2>3. QED
    BY <1>8, <2>1, <2>2, RevokeMoves
<1>9. ASSUME NEW r \in Requests, Clear(r)
      PROVE  Lineage'
  BY <1>9 DEF Become, Request, PC, Clear, Retire, Done, Idle, At
<1>10. ASSUME NEW r \in Requests, Die(r)
       PROVE  Lineage'
  BY <1>10 DEF Become, Request, PC, Die, Done, Idle, Fault, At
<1>11. ASSUME NEW r \in Requests, NEW t \in Tokens, Rotate(r, t)
       PROVE  Lineage'
  <2>1. CASE /\ key' = [key EXCEPT ![request[r].old] = "none"]
             /\ Moved(r, "hset", t, request[r].clean)
             /\ UNCHANGED faults
    BY <1>11, <2>1 DEF Rotate, Unused, At, Moved
  <2>2. CASE /\ Moved(r, "hset", t, FALSE)
             /\ faults' \in Nat /\ faults' # 0
             /\ UNCHANGED key
    BY <1>11, <2>2 DEF Rotate, Unused, At, Moved
  <2>3. QED
    BY <1>11, <2>1, <2>2, RotateMoves
<1>12. ASSUME NEW t \in Tokens, Expire(t)
       PROVE  Lineage'
  BY <1>12 DEF Expire
<1>13. ASSUME NEW t \in Tokens, Evict(t)
       PROVE  Lineage'
  BY <1>13 DEF Evict
<1>14. CASE UNCHANGED vars
  BY <1>14 DEF vars
<1>15. QED
  BY <1>1, <1>2, <1>3, <1>4, <1>5, <1>6, <1>7, <1>8, <1>9, <1>10,
     <1>11, <1>12, <1>13, <1>14 DEF Next

\* A browser gets a token from its own requests only, and requests from the unused ones.
LEMMA OwnedStep == IInv /\ OneByOne /\ Owned /\ [Next]_vars => Owned'
<1> SUFFICES ASSUME IInv, OneByOne, Owned, [Next]_vars PROVE Owned'
  OBVIOUS
<1> USE SessionsAssumption
    DEF IInv, store, history, Owned, Has, OneByOne, Fresh, HandedAfter, Handed, Typed, TypeOK, Placed, Making
<1>1. ASSUME NEW r \in Requests, NEW b \in Browsers, Refresh(r, b)
      PROVE  Owned'
  BY <1>1 DEF Become, Request, PC, Refresh, Arrive, InFlight, At
<1>2. ASSUME NEW r \in Requests, NEW b \in Browsers, Logout(r, b)
      PROVE  Owned'
  <2>1. CASE cookie[b] \in Tokens \ expired
    BY <1>2, <2>1, SMTT(30) DEF Become, Request, PC, Logout, Arrive, InFlight, At
  <2>2. CASE cookie[b] \notin Tokens \ expired
    <3>1. /\ request'[r].old = NoToken /\ request'[r].pc = "clear" /\ UNCHANGED cookie
          /\ \A s \in Requests \ {r} : request'[s] = request[s]
      BY <1>2, <2>2 DEF Become, Logout, Arrive
    <3>2. \A c \in Browsers, u \in Tokens : Has(c, u)' => Has(c, u)
      BY <3>1
    <3>3. QED
      BY <3>2
  <2>3. QED
    BY <1>2, <2>1, <2>2
<1>3. ASSUME NEW r \in Requests, NEW b \in Browsers, NEW t \in Tokens, Login(r, b, t)
      PROVE  Owned'
  BY <1>3 DEF Become, Request, PC, Login, Arrive, Unused, InFlight, At
<1>4. ASSUME NEW r \in Requests, AddHset(r)
      PROVE  Owned'
  <2>1. CASE /\ key' = [key EXCEPT ![request[r].new] = "open"]
             /\ Moved(r, "expire", request[r].new, request[r].clean)
             /\ UNCHANGED <<cut, faults>>
    <3>1. \A c \in Browsers, u \in Tokens : Has(c, u)' => Has(c, u)
      BY <1>4, <2>1 DEF AddHset, At, Moved
    <3>2. QED
      BY <3>1
  <2>2. CASE /\ Moved(r, "answer", request[r].new, FALSE)
             /\ cut' = cut \union {request[r].new}
             /\ faults' \in Nat /\ faults' # 0
             /\ UNCHANGED key
    BY <1>4, <2>2 DEF AddHset, At, Moved
  <2>3. QED
    BY <1>4, <2>1, <2>2, AddHsetMoves
<1>5. ASSUME NEW r \in Requests, AddExpire(r)
      PROVE  Owned'
  <2>1. CASE /\ key' = [key EXCEPT ![request[r].new] = IF @ = "none" THEN "none" ELSE "ttl"]
             /\ Moved(r, "answer", request[r].new, request[r].clean)
             /\ UNCHANGED <<cut, faults>>
    BY <1>5, <2>1 DEF AddExpire, At, Moved
  <2>2. CASE /\ Moved(r, "answer", request[r].new, FALSE)
             /\ cut' = cut \union {request[r].new}
             /\ faults' \in Nat /\ faults' # 0
             /\ UNCHANGED key
    BY <1>5, <2>2 DEF AddExpire, At, Moved
  <2>3. QED
    BY <1>5, <2>1, <2>2, AddExpireMoves
<1>6. ASSUME NEW r \in Requests, Answer(r)
      PROVE  Owned'
  BY <1>6 DEF Become, Request, PC, Answer, Retire, Done, Idle, At
<1>7. ASSUME NEW r \in Requests, Exists(r)
      PROVE  Owned'
  <2>1. CASE Moved(r, "rotate", request[r].new, request[r].clean)
    BY <1>7, <2>1 DEF Exists, At, Moved
  <2>2. CASE Done(r)
    BY <1>7, <2>2 DEF Become, Request, PC, Exists, Done, Idle, At, Moved
  <2>3. QED
    BY <1>7, <2>1, <2>2, ExistsMoves
<1>8. ASSUME NEW r \in Requests, Revoke(r)
      PROVE  Owned'
  <2>1. CASE /\ key' = [key EXCEPT ![request[r].old] = "none"]
             /\ Moved(r, "clear", request[r].new, request[r].clean)
             /\ UNCHANGED faults
    BY <1>8, <2>1 DEF Revoke, At, Moved
  <2>2. CASE /\ Moved(r, "clear", request[r].new, FALSE)
             /\ faults' \in Nat /\ faults' # 0
             /\ UNCHANGED key
    BY <1>8, <2>2 DEF Revoke, At, Moved
  <2>3. QED
    BY <1>8, <2>1, <2>2, RevokeMoves
<1>9. ASSUME NEW r \in Requests, Clear(r)
      PROVE  Owned'
  BY <1>9 DEF Become, Request, PC, Clear, Retire, Done, Idle, At
<1>10. ASSUME NEW r \in Requests, Die(r)
       PROVE  Owned'
  BY <1>10 DEF Become, Request, PC, Die, Done, Idle, Fault, At
<1>11. ASSUME NEW r \in Requests, NEW t \in Tokens, Rotate(r, t)
       PROVE  Owned'
  <2>1. CASE /\ key' = [key EXCEPT ![request[r].old] = "none"]
             /\ Moved(r, "hset", t, request[r].clean)
             /\ UNCHANGED faults
    BY <1>11, <2>1 DEF Rotate, Unused, At, Moved
  <2>2. CASE /\ Moved(r, "hset", t, FALSE)
             /\ faults' \in Nat /\ faults' # 0
             /\ UNCHANGED key
    BY <1>11, <2>2 DEF Rotate, Unused, At, Moved
  <2>3. QED
    BY <1>11, <2>1, <2>2, RotateMoves
<1>12. ASSUME NEW t \in Tokens, Expire(t)
       PROVE  Owned'
  BY <1>12 DEF Expire
<1>13. ASSUME NEW t \in Tokens, Evict(t)
       PROVE  Owned'
  BY <1>13 DEF Evict
<1>14. CASE UNCHANGED vars
  BY <1>14 DEF vars
<1>15. QED
  BY <1>1, <1>2, <1>3, <1>4, <1>5, <1>6, <1>7, <1>8, <1>9, <1>10,
     <1>11, <1>12, <1>13, <1>14 DEF Next

\* What a request presents, no browser but its own has, nor a request but itself if that
\* browser sends one at a time.
LEMMA Alone ==
    ASSUME IInv, Owned, OneByOne, NEW r \in Requests, request[r].pc # "idle", request[r].old \in Tokens
    PROVE  /\ \A b \in Browsers : cookie[b] = request[r].old => b = request[r].browser
           /\ \A s \in Requests :
                /\ request[s].browser \in Browsers \ overlap
                /\ request[s].old = request[r].old \/ (Making(request[s]) /\ request[s].new = request[r].old)
                => s = r
<1>1. request[r].browser \in Browsers
  BY DEF IInv, Typed, Placed
<1>2. Has(request[r].browser, request[r].old)
  BY DEF Has
<1>3. \A b \in Browsers : cookie[b] = request[r].old => b = request[r].browser
  BY <1>1, <1>2 DEF Owned, Has
<1>4. ASSUME NEW s \in Requests, request[s].browser \in Browsers \ overlap,
             request[s].old = request[r].old \/ (Making(request[s]) /\ request[s].new = request[r].old)
      PROVE  s = r
  <2>1. Has(request[s].browser, request[r].old)
    BY <1>4 DEF Has
  <2>2. QED
    BY <1>1, <1>2, <1>4, <2>1 DEF Owned, OneByOne
<1>5. QED
  BY <1>3, <1>4

\* Request r of browser b arrives, and no other request changes.
Arrived(r, b, pc, old, new) ==
    /\ request[r].pc = "idle"
    /\ request' \in [Requests -> Request]
    /\ \A s \in Requests : s # r => request'[s] = request[s]
    /\ request'[r].pc = pc /\ request'[r].browser = b
    /\ request'[r].old = old /\ request'[r].new = new
    /\ overlap \subseteq overlap'
    /\ b \notin overlap' => InFlight(b) = {}

\* Request r ends, and no other request changes.
Left(r) ==
    /\ request' \in [Requests -> Request]
    /\ \A s \in Requests : s # r => request'[s] = request[s]
    /\ request'[r].pc = "idle" /\ request'[r].browser = NoBrowser
    /\ request'[r].old = NoToken /\ request'[r].new = NoToken

\* What Arrive does.
LEMMA Arrives ==
    ASSUME TypeOK, NEW r \in Requests, NEW b \in Browsers, NEW pc \in PC,
           NEW old \in Tokens \union {NoToken}, NEW new \in Tokens \union {NoToken},
           Arrive(r, b, pc, old, new)
    PROVE  Arrived(r, b, pc, old, new)
BY DEF Arrive, Arrived, Become, At, TypeOK, Request

\* What Done does.
LEMMA Leaves == ASSUME TypeOK, NEW r \in Requests, Done(r) PROVE Left(r)
BY DEF Done, Left, Become, Idle, TypeOK, Request, PC

\* A request that does not change, whose browser keeps its cookie and whose tokens keep
\* their sessions, stays good.
LEMMA StaysGood ==
    ASSUME TypeOK, NEW s \in Requests, RequestGood(s), request'[s] = request[s],
           cookie'[request[s].browser] = cookie[request[s].browser],
           \A t \in Tokens : t = request[s].old \/ (Making(request[s]) /\ t = request[s].new) => key'[t] = key[t],
           Placed, expired \subseteq expired'
    PROVE  RequestGood(s)'
BY DEF RequestGood, Good, Live, Placed, Making

\* A session is revoked by its own browser's request, and evicted when it has expired.
LEMMA RequestsGoodStep ==
    IInv /\ Owned /\ OneByOne /\ RequestsGood /\ CookieIsGood /\ [Next]_vars => RequestsGood'
<1> SUFFICES ASSUME IInv, Owned, OneByOne, RequestsGood, CookieIsGood, [Next]_vars PROVE RequestsGood'
  OBVIOUS
<1> USE DEF IInv, Typed
<1>1. ASSUME NEW r \in Requests, NEW b \in Browsers, Refresh(r, b)
      PROVE  RequestsGood'
  <2> SUFFICES ASSUME NEW s \in Requests, request'[s].browser \in Browsers,
                      faults' = 0, request'[s].browser \notin overlap'
               PROVE  RequestGood(s)'
    BY DEF RequestsGood, Undisturbed
  <2>1. /\ Arrived(r, b, "exists", cookie[b], NoToken) /\ cookie[b] \in Tokens
        /\ UNCHANGED <<key, expired, cookie, faults>>
    BY <1>1, Arrives DEF Refresh, TypeOK, PC, store
  <2>2. CASE s = r
    BY <2>1, <2>2, SessionsAssumption DEF Arrived, CookieIsGood, RequestGood, Good, Live, Undisturbed
  <2>3. CASE s # r
    BY <2>1, <2>3, StaysGood DEF Arrived, RequestsGood, Undisturbed
  <2>4. QED
    BY <2>2, <2>3
<1>2. ASSUME NEW r \in Requests, NEW b \in Browsers, Logout(r, b)
      PROVE  RequestsGood'
  <2> SUFFICES ASSUME NEW s \in Requests, request'[s].browser \in Browsers,
                      faults' = 0, request'[s].browser \notin overlap'
               PROVE  RequestGood(s)'
    BY DEF RequestsGood, Undisturbed
  <2>1. /\ Arrived(r, b, "revoke", cookie[b], NoToken) \/ Arrived(r, b, "clear", NoToken, NoToken)
        /\ UNCHANGED <<key, expired, cookie, faults>>
    BY <1>2, Arrives DEF Logout, TypeOK, PC, store
  <2>2. cookie[b] \in Tokens \union {NoToken}
    BY DEF TypeOK
  <2>3. CASE s = r
    <3>1. CASE Arrived(r, b, "revoke", cookie[b], NoToken) /\ cookie[b] \in Tokens
      BY <2>1, <2>3, <3>1, SessionsAssumption
      DEF Arrived, CookieIsGood, RequestGood, Good, Live, Undisturbed
    <3>2. CASE Arrived(r, b, "clear", NoToken, NoToken)
      BY <2>3, <3>2 DEF Arrived, RequestGood
    <3>3. QED
      BY <1>2, <3>1, <3>2, Arrives DEF Logout, TypeOK, PC
  <2>4. CASE s # r
    BY <2>1, <2>4, StaysGood DEF Arrived, RequestsGood, Undisturbed
  <2>5. QED
    BY <2>3, <2>4
<1>3. ASSUME NEW r \in Requests, NEW b \in Browsers, NEW t \in Tokens, Login(r, b, t)
      PROVE  RequestsGood'
  <2> SUFFICES ASSUME NEW s \in Requests, request'[s].browser \in Browsers,
                      faults' = 0, request'[s].browser \notin overlap'
               PROVE  RequestGood(s)'
    BY DEF RequestsGood, Undisturbed
  <2>1. Arrived(r, b, "hset", NoToken, t) /\ UNCHANGED <<key, expired, cookie, faults>>
    BY <1>3, Arrives DEF Login, TypeOK, PC, store
  <2>2. CASE s = r
    BY <2>1, <2>2 DEF Arrived, RequestGood
  <2>3. CASE s # r
    BY <2>1, <2>3, StaysGood DEF Arrived, RequestsGood, Undisturbed
  <2>4. QED
    BY <2>2, <2>3
<1>4. ASSUME NEW r \in Requests, AddHset(r)
      PROVE  RequestsGood'
  <2> SUFFICES ASSUME NEW s \in Requests, request'[s].browser \in Browsers,
                      faults' = 0, request'[s].browser \notin overlap'
               PROVE  RequestGood(s)'
    BY DEF RequestsGood, Undisturbed
  <2>1. /\ key' = [key EXCEPT ![request[r].new] = "open"]
        /\ Moved(r, "expire", request[r].new, request[r].clean)
    BY <1>4, AddHsetMoves
  <2>2. request[r].pc = "hset" /\ UNCHANGED <<expired, cookie, overlap>> /\ request[r].new \in Tokens
    BY <1>4 DEF AddHset, At, Placed, Making
  <2>3. faults = 0
    BY <1>4, AddHsetMoves
  <2>4. CASE s = r
    BY <2>1, <2>2, <2>4 DEF Moved, RequestGood, TypeOK
  <2>5. CASE s # r
    <3>1. request'[s] = request[s] /\ RequestGood(s)
      BY <2>1, <2>2, <2>3, <2>5 DEF Moved, RequestsGood, Undisturbed
    <3>2. \A t \in Tokens : t = request[s].old \/ (Making(request[s]) /\ t = request[s].new)
                            => t # request[r].new
      BY <2>2, <2>5 DEF Fresh, HandedAfter, Handed, Making
    <3>3. QED
      BY <2>1, <2>2, <3>1, <3>2, StaysGood DEF TypeOK
  <2>6. QED
    BY <2>4, <2>5
<1>5. ASSUME NEW r \in Requests, AddExpire(r)
      PROVE  RequestsGood'
  <2> SUFFICES ASSUME NEW s \in Requests, request'[s].browser \in Browsers,
                      faults' = 0, request'[s].browser \notin overlap'
               PROVE  RequestGood(s)'
    BY DEF RequestsGood, Undisturbed
  <2>1. /\ key' = [key EXCEPT ![request[r].new] = IF @ = "none" THEN "none" ELSE "ttl"]
        /\ Moved(r, "answer", request[r].new, request[r].clean)
    BY <1>5, AddExpireMoves
  <2>2. request[r].pc = "expire" /\ UNCHANGED <<expired, cookie, overlap>> /\ request[r].new \in Tokens
    BY <1>5 DEF AddExpire, At, Placed, Making
  <2>3. faults = 0
    BY <1>5, AddExpireMoves
  <2>4. CASE s = r
    <3>1. key[request[r].new] = "open"
      BY <2>1, <2>2, <2>3, <2>4 DEF Moved, RequestsGood, RequestGood, Undisturbed
    <3>2. key'[request[r].new] = "ttl"
      BY <2>1, <2>2, <3>1 DEF TypeOK
    <3>3. QED
      BY <2>1, <2>4, <3>2 DEF Moved, RequestGood, Good, Live
  <2>5. CASE s # r
    <3>1. request'[s] = request[s] /\ RequestGood(s)
      BY <2>1, <2>2, <2>3, <2>5 DEF Moved, RequestsGood, Undisturbed
    <3>2. \A t \in Tokens : t = request[s].old \/ (Making(request[s]) /\ t = request[s].new)
                            => t # request[r].new
      BY <2>2, <2>5 DEF Fresh, HandedAfter, Handed, Making
    <3>3. QED
      BY <2>1, <2>2, <3>1, <3>2, StaysGood DEF TypeOK
  <2>6. QED
    BY <2>4, <2>5
<1>6. ASSUME NEW r \in Requests, Answer(r)
      PROVE  RequestsGood'
  <2> SUFFICES ASSUME NEW s \in Requests, request'[s].browser \in Browsers,
                      faults' = 0, request'[s].browser \notin overlap'
               PROVE  RequestGood(s)'
    BY DEF RequestsGood, Undisturbed
  <2>1. Left(r) /\ UNCHANGED <<key, expired, overlap, faults>>
    BY <1>6, Leaves DEF Answer, store
  <2>2. /\ request[r].browser \in Browsers
        /\ \A c \in Browsers : c # request[r].browser => cookie'[c] = cookie[c]
    BY <1>6 DEF Answer, At, Placed, TypeOK
  <2>3. s # r
    BY <2>1, SessionsAssumption DEF Left
  <2>4. request'[s] = request[s] /\ RequestGood(s)
    BY <2>1, <2>3 DEF Left, RequestsGood, Undisturbed
  <2>5. cookie'[request[s].browser] = cookie[request[s].browser]
    BY <2>1, <2>2, <2>3, <2>4 DEF OneByOne
  <2>6. QED
    BY <2>1, <2>4, <2>5, StaysGood
<1>7. ASSUME NEW r \in Requests, Exists(r)
      PROVE  RequestsGood'
  <2> SUFFICES ASSUME NEW s \in Requests, request'[s].browser \in Browsers,
                      faults' = 0, request'[s].browser \notin overlap'
               PROVE  RequestGood(s)'
    BY DEF RequestsGood, Undisturbed
  <2>1. UNCHANGED <<key, expired, cookie, overlap>> /\ faults = 0 /\ request[r].pc = "exists"
    BY <1>7 DEF Exists, At, store, history, Fault, TypeOK
  <2>2. CASE s = r
    <3>1. Moved(r, "rotate", request[r].new, request[r].clean)
      BY <1>7, <2>2, ExistsMoves, Leaves, SessionsAssumption DEF Left
    <3>2. QED
      BY <2>1, <2>2, <3>1 DEF Moved, RequestsGood, RequestGood, Good, Live, Undisturbed
  <2>3. CASE s # r
    <3>1. request'[s] = request[s]
      BY <1>7, <2>3, ExistsMoves, Leaves DEF Moved, Left
    <3>2. QED
      BY <2>1, <3>1, StaysGood DEF RequestsGood, Undisturbed
  <2>4. QED
    BY <2>2, <2>3
<1>8. ASSUME NEW r \in Requests, Revoke(r)
      PROVE  RequestsGood'
  <2> SUFFICES ASSUME NEW s \in Requests, request'[s].browser \in Browsers,
                      faults' = 0, request'[s].browser \notin overlap'
               PROVE  RequestGood(s)'
    BY DEF RequestsGood, Undisturbed
  <2>1. /\ key' = [key EXCEPT ![request[r].old] = "none"]
        /\ Moved(r, "clear", request[r].new, request[r].clean)
    BY <1>8, RevokeMoves
  <2>2. /\ request[r].pc = "revoke" /\ request[r].old \in Tokens
        /\ UNCHANGED <<expired, cookie, overlap>>
    BY <1>8 DEF Revoke, At, Placed, history
  <2>3. faults = 0
    BY <1>8, RevokeMoves
  <2>4. CASE s = r
    BY <2>1, <2>4 DEF Moved, RequestGood
  <2>5. CASE s # r
    <3>1. request'[s] = request[s] /\ RequestGood(s) /\ request[s].browser \in Browsers \ overlap
      BY <2>1, <2>2, <2>3, <2>5 DEF Moved, RequestsGood, Undisturbed
    <3>2. \A u \in Tokens : u = request[s].old \/ (Making(request[s]) /\ u = request[s].new)
                            => u # request[r].old
      BY <2>2, <2>5, <3>1, Alone
    <3>3. QED
      BY <2>1, <2>2, <3>1, <3>2, StaysGood DEF TypeOK
  <2>6. QED
    BY <2>4, <2>5
<1>9. ASSUME NEW r \in Requests, Clear(r)
      PROVE  RequestsGood'
  <2> SUFFICES ASSUME NEW s \in Requests, request'[s].browser \in Browsers,
                      faults' = 0, request'[s].browser \notin overlap'
               PROVE  RequestGood(s)'
    BY DEF RequestsGood, Undisturbed
  <2>1. Left(r) /\ UNCHANGED <<key, expired, overlap, faults>>
    BY <1>9, Leaves DEF Clear, store
  <2>2. /\ request[r].browser \in Browsers
        /\ \A c \in Browsers : c # request[r].browser => cookie'[c] = cookie[c]
    BY <1>9 DEF Clear, At, Placed, TypeOK
  <2>3. s # r
    BY <2>1, SessionsAssumption DEF Left
  <2>4. request'[s] = request[s] /\ RequestGood(s)
    BY <2>1, <2>3 DEF Left, RequestsGood, Undisturbed
  <2>5. cookie'[request[s].browser] = cookie[request[s].browser]
    BY <2>1, <2>2, <2>3, <2>4 DEF OneByOne
  <2>6. QED
    BY <2>1, <2>4, <2>5, StaysGood
<1>10. ASSUME NEW r \in Requests, Die(r)
       PROVE  RequestsGood'
  BY <1>10 DEF Die, Fault, TypeOK, RequestsGood, Undisturbed
<1>11. ASSUME NEW r \in Requests, NEW t \in Tokens, Rotate(r, t)
       PROVE  RequestsGood'
  <2> SUFFICES ASSUME NEW s \in Requests, request'[s].browser \in Browsers,
                      faults' = 0, request'[s].browser \notin overlap'
               PROVE  RequestGood(s)'
    BY DEF RequestsGood, Undisturbed
  <2>1. /\ key' = [key EXCEPT ![request[r].old] = "none"]
        /\ Moved(r, "hset", t, request[r].clean)
    BY <1>11, RotateMoves
  <2>2. /\ request[r].pc = "rotate" /\ request[r].old \in Tokens
        /\ UNCHANGED <<expired, cookie, overlap>>
    BY <1>11 DEF Rotate, At, Placed, history
  <2>3. faults = 0
    BY <1>11, RotateMoves
  <2>4. CASE s = r
    BY <2>1, <2>4 DEF Moved, RequestGood
  <2>5. CASE s # r
    <3>1. request'[s] = request[s] /\ RequestGood(s) /\ request[s].browser \in Browsers \ overlap
      BY <2>1, <2>2, <2>3, <2>5 DEF Moved, RequestsGood, Undisturbed
    <3>2. \A u \in Tokens : u = request[s].old \/ (Making(request[s]) /\ u = request[s].new)
                            => u # request[r].old
      BY <2>2, <2>5, <3>1, Alone
    <3>3. QED
      BY <2>1, <2>2, <3>1, <3>2, StaysGood DEF TypeOK
  <2>6. QED
    BY <2>4, <2>5
<1>12. ASSUME NEW t \in Tokens, Expire(t)
       PROVE  RequestsGood'
  <2> SUFFICES ASSUME NEW s \in Requests, request'[s].browser \in Browsers,
                      faults' = 0, request'[s].browser \notin overlap'
               PROVE  RequestGood(s)'
    BY DEF RequestsGood, Undisturbed
  <2>1. UNCHANGED <<key, cookie, request, overlap, faults>> /\ expired \subseteq expired'
    BY <1>12 DEF Expire, history
  <2>2. QED
    BY <2>1, StaysGood DEF RequestsGood, Undisturbed
<1>13. ASSUME NEW t \in Tokens, Evict(t)
       PROVE  RequestsGood'
  <2> SUFFICES ASSUME NEW s \in Requests, request'[s].browser \in Browsers,
                      faults' = 0, request'[s].browser \notin overlap'
               PROVE  RequestGood(s)'
    BY DEF RequestsGood, Undisturbed
  <2>1. /\ UNCHANGED <<cookie, request, overlap, faults, expired>> /\ key[t] = "ttl" /\ t \in expired
        /\ \A u \in Tokens : u # t => key'[u] = key[u]
    BY <1>13 DEF Evict, history, TypeOK
  <2>2. RequestGood(s)
    BY <2>1 DEF RequestsGood, Undisturbed
  <2>3. QED
    BY <2>1, <2>2 DEF RequestGood, Good, Live, Placed, Making
<1>14. CASE UNCHANGED vars
  BY <1>14 DEF vars, store, history, RequestsGood, RequestGood, Good, Live, Undisturbed
<1>15. QED
  BY <1>1, <1>2, <1>3, <1>4, <1>5, <1>6, <1>7, <1>8, <1>9, <1>10,
     <1>11, <1>12, <1>13, <1>14 DEF Next

\* The cookie a browser is left with is good.
LEMMA CookieIsGoodStep ==
    IInv /\ Owned /\ OneByOne /\ RequestsGood /\ CookieIsGood /\ [Next]_vars => CookieIsGood'
<1> SUFFICES ASSUME IInv, Owned, OneByOne, RequestsGood, CookieIsGood, [Next]_vars PROVE CookieIsGood'
  OBVIOUS
<1> USE DEF IInv, Typed
<1>1. ASSUME NEW r \in Requests, NEW b \in Browsers, Refresh(r, b)
      PROVE  CookieIsGood'
  <2> SUFFICES ASSUME NEW c \in Browsers, faults' = 0, c \notin overlap', InFlight(c)' = {}
               PROVE  cookie'[c] = NoToken \/ Good(cookie[c])'
    BY DEF CookieIsGood, Undisturbed, Good, Live
  <2>1. /\ Arrived(r, b, "exists", cookie[b], NoToken)
        /\ UNCHANGED <<key, expired, cookie, faults>>
    BY <1>1, Arrives DEF Refresh, TypeOK, PC, store
  <2>2. c # b /\ c \notin overlap /\ InFlight(c) = {}
    BY <2>1, SessionsAssumption DEF Arrived, InFlight, OneByOne
  <2>3. QED
    BY <2>1, <2>2 DEF CookieIsGood, Undisturbed, Good, Live
<1>2. ASSUME NEW r \in Requests, NEW b \in Browsers, Logout(r, b)
      PROVE  CookieIsGood'
  <2> SUFFICES ASSUME NEW c \in Browsers, faults' = 0, c \notin overlap', InFlight(c)' = {}
               PROVE  cookie'[c] = NoToken \/ Good(cookie[c])'
    BY DEF CookieIsGood, Undisturbed, Good, Live
  <2>1. /\ Arrived(r, b, "revoke", cookie[b], NoToken) \/ Arrived(r, b, "clear", NoToken, NoToken)
        /\ UNCHANGED <<key, expired, cookie, faults>>
    BY <1>2, Arrives DEF Logout, TypeOK, PC, store
  <2>2. c # b /\ c \notin overlap /\ InFlight(c) = {}
    BY <2>1, SessionsAssumption DEF Arrived, InFlight, OneByOne
  <2>3. QED
    BY <2>1, <2>2 DEF CookieIsGood, Undisturbed, Good, Live
<1>3. ASSUME NEW r \in Requests, NEW b \in Browsers, NEW t \in Tokens, Login(r, b, t)
      PROVE  CookieIsGood'
  <2> SUFFICES ASSUME NEW c \in Browsers, faults' = 0, c \notin overlap', InFlight(c)' = {}
               PROVE  cookie'[c] = NoToken \/ Good(cookie[c])'
    BY DEF CookieIsGood, Undisturbed, Good, Live
  <2>1. /\ Arrived(r, b, "hset", NoToken, t)
        /\ UNCHANGED <<key, expired, cookie, faults>>
    BY <1>3, Arrives DEF Login, TypeOK, PC, store
  <2>2. c # b /\ c \notin overlap /\ InFlight(c) = {}
    BY <2>1, SessionsAssumption DEF Arrived, InFlight, OneByOne
  <2>3. QED
    BY <2>1, <2>2 DEF CookieIsGood, Undisturbed, Good, Live
<1>4. ASSUME NEW r \in Requests, AddHset(r)
      PROVE  CookieIsGood'
  <2> SUFFICES ASSUME NEW c \in Browsers, faults' = 0, c \notin overlap', InFlight(c)' = {}
               PROVE  cookie'[c] = NoToken \/ Good(cookie[c])'
    BY DEF CookieIsGood, Undisturbed, Good, Live
  <2>1. /\ key' = [key EXCEPT ![request[r].new] = "open"]
        /\ Moved(r, "expire", request[r].new, request[r].clean)
    BY <1>4, AddHsetMoves
  <2>2. request[r].pc = "hset" /\ UNCHANGED <<expired, cookie, overlap>>
    BY <1>4 DEF AddHset, At
  <2>3. faults = 0
    BY <1>4, AddHsetMoves
  <2>4. InFlight(c) = {} /\ cookie[c] \in Tokens \union {NoToken}
    BY <2>1 DEF Moved, InFlight, TypeOK
  <2>5. cookie[c] = NoToken \/ Good(cookie[c])
    BY <2>2, <2>3, <2>4 DEF CookieIsGood, Undisturbed, Good, Live
  <2>6. cookie[c] \in Tokens => cookie[c] # request[r].new
    BY <2>2 DEF HandedAfter, Handed, Making
  <2>7. QED
    BY <2>1, <2>2, <2>4, <2>5, <2>6 DEF Good, Live, TypeOK
<1>5. ASSUME NEW r \in Requests, AddExpire(r)
      PROVE  CookieIsGood'
  <2> SUFFICES ASSUME NEW c \in Browsers, faults' = 0, c \notin overlap', InFlight(c)' = {}
               PROVE  cookie'[c] = NoToken \/ Good(cookie[c])'
    BY DEF CookieIsGood, Undisturbed, Good, Live
  <2>1. /\ key' = [key EXCEPT ![request[r].new] = IF @ = "none" THEN "none" ELSE "ttl"]
        /\ Moved(r, "answer", request[r].new, request[r].clean)
    BY <1>5, AddExpireMoves
  <2>2. request[r].pc = "expire" /\ UNCHANGED <<expired, cookie, overlap>>
    BY <1>5 DEF AddExpire, At
  <2>3. faults = 0
    BY <1>5, AddExpireMoves
  <2>4. InFlight(c) = {} /\ cookie[c] \in Tokens \union {NoToken}
    BY <2>1 DEF Moved, InFlight, TypeOK
  <2>5. cookie[c] = NoToken \/ Good(cookie[c])
    BY <2>2, <2>3, <2>4 DEF CookieIsGood, Undisturbed, Good, Live
  <2>6. cookie[c] \in Tokens => cookie[c] # request[r].new
    BY <2>2 DEF HandedAfter, Handed, Making
  <2>7. QED
    BY <2>1, <2>2, <2>4, <2>5, <2>6 DEF Good, Live, TypeOK
<1>6. ASSUME NEW r \in Requests, Answer(r)
      PROVE  CookieIsGood'
  <2> SUFFICES ASSUME NEW c \in Browsers, faults' = 0, c \notin overlap', InFlight(c)' = {}
               PROVE  cookie'[c] = NoToken \/ Good(cookie[c])'
    BY DEF CookieIsGood, Undisturbed, Good, Live
  <2>1. Left(r) /\ UNCHANGED <<key, expired, overlap, faults>>
    BY <1>6, Leaves DEF Answer, store
  <2>2. /\ request[r].browser \in Browsers /\ request[r].pc = "answer"
        /\ cookie' = [cookie EXCEPT ![request[r].browser] = request[r].new]
    BY <1>6 DEF Answer, At, Placed
  <2>3. CASE c = request[r].browser
    BY <2>1, <2>2, <2>3 DEF RequestsGood, RequestGood, Undisturbed, Good, Live, TypeOK
  <2>4. CASE c # request[r].browser
    <3>1. InFlight(c) = {}
      BY <2>1, <2>4 DEF InFlight, Left
    <3>2. cookie'[c] = cookie[c]
      BY <2>2, <2>4 DEF TypeOK
    <3>3. QED
      BY <2>1, <3>1, <3>2 DEF CookieIsGood, Undisturbed, Good, Live
  <2>5. QED
    BY <2>3, <2>4
<1>7. ASSUME NEW r \in Requests, Exists(r)
      PROVE  CookieIsGood'
  <2> SUFFICES ASSUME NEW c \in Browsers, faults' = 0, c \notin overlap', InFlight(c)' = {}
               PROVE  cookie'[c] = NoToken \/ Good(cookie[c])'
    BY DEF CookieIsGood, Undisturbed, Good, Live
  <2>1. /\ UNCHANGED <<key, expired, cookie, overlap>> /\ faults = 0
        /\ request[r].pc = "exists" /\ request[r].browser \in Browsers
    BY <1>7 DEF Exists, At, store, history, Fault, TypeOK, Placed
  <2>2. CASE c = request[r].browser
    BY <2>1, <2>2 DEF RequestsGood, RequestGood, Undisturbed, Good, Live
  <2>3. CASE c # request[r].browser
    <3>1. \A s \in Requests : s # r => request'[s] = request[s]
      BY <1>7, ExistsMoves, Leaves DEF Moved, Left
    <3>2. InFlight(c) = {}
      BY <2>3, <3>1 DEF InFlight
    <3>3. QED
      BY <2>1, <3>2 DEF CookieIsGood, Undisturbed, Good, Live
  <2>4. QED
    BY <2>2, <2>3
<1>8. ASSUME NEW r \in Requests, Revoke(r)
      PROVE  CookieIsGood'
  <2> SUFFICES ASSUME NEW c \in Browsers, faults' = 0, c \notin overlap', InFlight(c)' = {}
               PROVE  cookie'[c] = NoToken \/ Good(cookie[c])'
    BY DEF CookieIsGood, Undisturbed, Good, Live
  <2>1. /\ key' = [key EXCEPT ![request[r].old] = "none"]
        /\ Moved(r, "clear", request[r].new, request[r].clean)
    BY <1>8, RevokeMoves
  <2>2. /\ request[r].pc = "revoke" /\ request[r].old \in Tokens
        /\ UNCHANGED <<expired, cookie, overlap>>
    BY <1>8 DEF Revoke, At, Placed, history
  <2>3. faults = 0
    BY <1>8, RevokeMoves
  <2>4. InFlight(c) = {} /\ c # request[r].browser /\ cookie[c] \in Tokens \union {NoToken}
    BY <2>1 DEF Moved, InFlight, TypeOK
  <2>5. cookie[c] = NoToken \/ Good(cookie[c])
    BY <2>2, <2>3, <2>4 DEF CookieIsGood, Undisturbed, Good, Live
  <2>6. cookie[c] # request[r].old
    BY <2>2, <2>4, Alone
  <2>7. QED
    BY <2>1, <2>2, <2>4, <2>5, <2>6 DEF Good, Live, TypeOK
<1>9. ASSUME NEW r \in Requests, Clear(r)
      PROVE  CookieIsGood'
  <2> SUFFICES ASSUME NEW c \in Browsers, faults' = 0, c \notin overlap', InFlight(c)' = {}
               PROVE  cookie'[c] = NoToken \/ Good(cookie[c])'
    BY DEF CookieIsGood, Undisturbed, Good, Live
  <2>1. Left(r) /\ UNCHANGED <<key, expired, overlap, faults>>
    BY <1>9, Leaves DEF Clear, store
  <2>2. /\ request[r].browser \in Browsers /\ request[r].pc = "clear"
        /\ cookie' = [cookie EXCEPT ![request[r].browser] = NoToken]
    BY <1>9 DEF Clear, At, Placed
  <2>3. CASE c = request[r].browser
    BY <2>1, <2>2, <2>3 DEF RequestsGood, RequestGood, Undisturbed, Good, Live, TypeOK
  <2>4. CASE c # request[r].browser
    <3>1. InFlight(c) = {}
      BY <2>1, <2>4 DEF InFlight, Left
    <3>2. cookie'[c] = cookie[c]
      BY <2>2, <2>4 DEF TypeOK
    <3>3. QED
      BY <2>1, <3>1, <3>2 DEF CookieIsGood, Undisturbed, Good, Live
  <2>5. QED
    BY <2>3, <2>4
<1>10. ASSUME NEW r \in Requests, Die(r)
       PROVE  CookieIsGood'
  BY <1>10 DEF Die, Fault, TypeOK, CookieIsGood, Undisturbed
<1>11. ASSUME NEW r \in Requests, NEW t \in Tokens, Rotate(r, t)
       PROVE  CookieIsGood'
  <2> SUFFICES ASSUME NEW c \in Browsers, faults' = 0, c \notin overlap', InFlight(c)' = {}
               PROVE  cookie'[c] = NoToken \/ Good(cookie[c])'
    BY DEF CookieIsGood, Undisturbed, Good, Live
  <2>1. /\ key' = [key EXCEPT ![request[r].old] = "none"]
        /\ Moved(r, "hset", t, request[r].clean)
    BY <1>11, RotateMoves
  <2>2. /\ request[r].pc = "rotate" /\ request[r].old \in Tokens
        /\ UNCHANGED <<expired, cookie, overlap>>
    BY <1>11 DEF Rotate, At, Placed, history
  <2>3. faults = 0
    BY <1>11, RotateMoves
  <2>4. InFlight(c) = {} /\ c # request[r].browser /\ cookie[c] \in Tokens \union {NoToken}
    BY <2>1 DEF Moved, InFlight, TypeOK
  <2>5. cookie[c] = NoToken \/ Good(cookie[c])
    BY <2>2, <2>3, <2>4 DEF CookieIsGood, Undisturbed, Good, Live
  <2>6. cookie[c] # request[r].old
    BY <2>2, <2>4, Alone
  <2>7. QED
    BY <2>1, <2>2, <2>4, <2>5, <2>6 DEF Good, Live, TypeOK
<1>12. ASSUME NEW t \in Tokens, Expire(t)
       PROVE  CookieIsGood'
  BY <1>12 DEF Expire, history, CookieIsGood, Undisturbed, InFlight, Live
<1>13. ASSUME NEW t \in Tokens, Evict(t)
       PROVE  CookieIsGood'
  BY <1>13 DEF Evict, history, CookieIsGood, Undisturbed, InFlight, Live, TypeOK
<1>14. CASE UNCHANGED vars
  BY <1>14 DEF vars, store, history, CookieIsGood, InFlight, Live, Undisturbed
<1>15. QED
  BY <1>1, <1>2, <1>3, <1>4, <1>5, <1>6, <1>7, <1>8, <1>9, <1>10,
     <1>11, <1>12, <1>13, <1>14 DEF Next

\* A current token is in use.
LEMMA CurrentInUse ==
    ASSUME IInv, Lineage, NEW t \in Tokens, Current(t) PROVE login[t] # NoToken
<1> USE DEF IInv
<1>1. CASE Live(t)
  BY <1>1 DEF Lineage
<1>2. ASSUME NEW r \in Requests, request[r].pc = "hset", request[r].new = t PROVE login[t] # NoToken
  BY <1>2 DEF Fresh, Making
<1>3. ASSUME NEW r \in Requests, request[r].old = t PROVE login[t] # NoToken
  BY <1>3 DEF HandedAfter, Handed
<1>4. QED
  BY <1>1, <1>2, <1>3 DEF Current

\* A refresh exchanges the one current token of its login.
LEMMA OneCurrentStep == IInv /\ Calm /\ [Next]_vars => OneCurrent'
<1> SUFFICES ASSUME IInv, Calm, [Next]_vars PROVE OneCurrent'
  OBVIOUS
<1> USE DEF IInv, Typed, Calm
<1>1. ASSUME NEW r \in Requests, NEW b \in Browsers, Refresh(r, b)
      PROVE  OneCurrent'
  <2> SUFFICES ASSUME faults' = 0, overlap' = {}
               PROVE  \A u, v \in Tokens : Current(u)' /\ Current(v)' /\ login'[u] = login'[v] => u = v
    BY DEF OneCurrent
  <2>1. Arrived(r, b, "exists", cookie[b], NoToken) /\ cookie[b] \in Tokens \ expired
    BY <1>1, Arrives DEF Refresh, TypeOK, PC
  <2>2. UNCHANGED <<key, login, expired, cookie, faults>>
    BY <1>1 DEF Refresh, store
  <2>3. overlap = {} /\ InFlight(b) = {}
    BY <2>1 DEF Arrived
  <2>4. Live(cookie[b])
    BY <2>1, <2>2, <2>3, SessionsAssumption DEF CookieIsGood, Undisturbed
  <2>5. \A u \in Tokens : Current(u)' => Current(u)
    BY <2>1, <2>2, <2>4 DEF Current, Live, Arrived
  <2>6. QED
    BY <2>2, <2>3, <2>5 DEF OneCurrent
<1>2. ASSUME NEW r \in Requests, NEW b \in Browsers, Logout(r, b)
      PROVE  OneCurrent'
  <2> SUFFICES ASSUME faults' = 0, overlap' = {}
               PROVE  \A u, v \in Tokens : Current(u)' /\ Current(v)' /\ login'[u] = login'[v] => u = v
    BY DEF OneCurrent
  <2>1. Arrived(r, b, "revoke", cookie[b], NoToken) \/ Arrived(r, b, "clear", NoToken, NoToken)
    BY <1>2, Arrives DEF Logout, TypeOK, PC
  <2>2. UNCHANGED <<key, login, faults>>
    BY <1>2 DEF Logout, store
  <2>3. overlap = {}
    BY <2>1 DEF Arrived
  <2>4. \A u \in Tokens : Current(u)' => Current(u)
    BY <2>1, <2>2 DEF Current, Live, Arrived
  <2>5. QED
    BY <2>2, <2>3, <2>4 DEF OneCurrent
<1>3. ASSUME NEW r \in Requests, NEW b \in Browsers, NEW t \in Tokens, Login(r, b, t)
      PROVE  OneCurrent'
  <2> SUFFICES ASSUME faults' = 0, overlap' = {}
               PROVE  \A u, v \in Tokens : Current(u)' /\ Current(v)' /\ login'[u] = login'[v] => u = v
    BY DEF OneCurrent
  <2>1. Arrived(r, b, "hset", NoToken, t)
    BY <1>3, Arrives DEF Login, TypeOK, PC
  <2>2. UNCHANGED <<key, faults>> /\ login' = [login EXCEPT ![t] = t] /\ login[t] = NoToken
    BY <1>3 DEF Login, store, Unused
  <2>3. overlap = {}
    BY <2>1 DEF Arrived
  <2>4. \A u \in Tokens : Current(u)' => Current(u) \/ u = t
    BY <2>1, <2>2 DEF Current, Live, Arrived
  <2>5. \A u \in Tokens : Current(u) => login[u] # NoToken /\ login[u] # t
    BY <2>2, CurrentInUse DEF Lineage
  <2>6. \A u \in Tokens : login'[u] = IF u = t THEN t ELSE login[u]
    BY <2>2 DEF TypeOK
  <2>7. QED
    BY <2>2, <2>3, <2>4, <2>5, <2>6 DEF OneCurrent
<1>4. ASSUME NEW r \in Requests, AddHset(r)
      PROVE  OneCurrent'
  <2> SUFFICES ASSUME faults' = 0, overlap' = {}
               PROVE  \A u, v \in Tokens : Current(u)' /\ Current(v)' /\ login'[u] = login'[v] => u = v
    BY DEF OneCurrent
  <2>1. /\ key' = [key EXCEPT ![request[r].new] = "open"]
        /\ Moved(r, "expire", request[r].new, request[r].clean)
    BY <1>4, AddHsetMoves
  <2>2. request[r].pc = "hset" /\ UNCHANGED <<login, overlap>>
    BY <1>4 DEF AddHset, At
  <2>3. faults = 0
    BY <1>4, AddHsetMoves
  <2>4. \A u \in Tokens : Current(u)' => Current(u)
    BY <2>1, <2>2 DEF Current, Live, Moved, TypeOK
  <2>5. QED
    BY <2>2, <2>3, <2>4 DEF OneCurrent
<1>5. ASSUME NEW r \in Requests, AddExpire(r)
      PROVE  OneCurrent'
  <2> SUFFICES ASSUME faults' = 0, overlap' = {}
               PROVE  \A u, v \in Tokens : Current(u)' /\ Current(v)' /\ login'[u] = login'[v] => u = v
    BY DEF OneCurrent
  <2>1. /\ key' = [key EXCEPT ![request[r].new] = IF @ = "none" THEN "none" ELSE "ttl"]
        /\ Moved(r, "answer", request[r].new, request[r].clean)
    BY <1>5, AddExpireMoves
  <2>2. request[r].pc = "expire" /\ UNCHANGED <<login, overlap>>
    BY <1>5 DEF AddExpire, At
  <2>3. faults = 0
    BY <1>5, AddExpireMoves
  <2>4. \A u \in Tokens : Current(u)' => Current(u)
    BY <2>1, <2>2 DEF Current, Live, Moved, TypeOK
  <2>5. QED
    BY <2>2, <2>3, <2>4 DEF OneCurrent
<1>6. ASSUME NEW r \in Requests, Answer(r)
      PROVE  OneCurrent'
  <2> SUFFICES ASSUME faults' = 0, overlap' = {}
               PROVE  \A u, v \in Tokens : Current(u)' /\ Current(v)' /\ login'[u] = login'[v] => u = v
    BY DEF OneCurrent
  <2>1. Left(r) /\ UNCHANGED <<key, login, overlap, faults>>
    BY <1>6, Leaves DEF Answer, store
  <2>2. \A u \in Tokens : Current(u)' => Current(u)
    BY <2>1 DEF Current, Live, Left
  <2>3. QED
    BY <2>1, <2>2 DEF OneCurrent
<1>7. ASSUME NEW r \in Requests, Exists(r)
      PROVE  OneCurrent'
  <2> SUFFICES ASSUME faults' = 0, overlap' = {}
               PROVE  \A u, v \in Tokens : Current(u)' /\ Current(v)' /\ login'[u] = login'[v] => u = v
    BY DEF OneCurrent
  <2>1. UNCHANGED <<key, login, overlap>> /\ faults = 0 /\ request[r].pc = "exists"
    BY <1>7 DEF Exists, At, store, history, Fault, TypeOK
  <2>2. Moved(r, "rotate", request[r].new, request[r].clean) \/ Left(r)
    BY <1>7, ExistsMoves, Leaves
  <2>3. \A u \in Tokens : Current(u)' => Current(u)
    BY <2>1, <2>2 DEF Current, Live, Moved, Left
  <2>4. QED
    BY <2>1, <2>3 DEF OneCurrent
<1>8. ASSUME NEW r \in Requests, Revoke(r)
      PROVE  OneCurrent'
  <2> SUFFICES ASSUME faults' = 0, overlap' = {}
               PROVE  \A u, v \in Tokens : Current(u)' /\ Current(v)' /\ login'[u] = login'[v] => u = v
    BY DEF OneCurrent
  <2>1. /\ key' = [key EXCEPT ![request[r].old] = "none"]
        /\ Moved(r, "clear", request[r].new, request[r].clean)
    BY <1>8, RevokeMoves
  <2>2. UNCHANGED <<login, overlap>>
    BY <1>8 DEF Revoke, history
  <2>3. faults = 0
    BY <1>8, RevokeMoves
  <2>4. \A u \in Tokens : Current(u)' => Current(u)
    BY <2>1, <2>2 DEF Current, Live, Moved, TypeOK
  <2>5. QED
    BY <2>2, <2>3, <2>4 DEF OneCurrent
<1>9. ASSUME NEW r \in Requests, Clear(r)
      PROVE  OneCurrent'
  <2> SUFFICES ASSUME faults' = 0, overlap' = {}
               PROVE  \A u, v \in Tokens : Current(u)' /\ Current(v)' /\ login'[u] = login'[v] => u = v
    BY DEF OneCurrent
  <2>1. Left(r) /\ UNCHANGED <<key, login, overlap, faults>>
    BY <1>9, Leaves DEF Clear, store
  <2>2. \A u \in Tokens : Current(u)' => Current(u)
    BY <2>1 DEF Current, Live, Left
  <2>3. QED
    BY <2>1, <2>2 DEF OneCurrent
<1>10. ASSUME NEW r \in Requests, Die(r)
       PROVE  OneCurrent'
  BY <1>10 DEF Die, Fault, TypeOK, OneCurrent
<1>11. ASSUME NEW r \in Requests, NEW t \in Tokens, Rotate(r, t)
       PROVE  OneCurrent'
  <2> SUFFICES ASSUME faults' = 0, overlap' = {}
               PROVE  \A u, v \in Tokens : Current(u)' /\ Current(v)' /\ login'[u] = login'[v] => u = v
    BY DEF OneCurrent
  <2> DEFINE old == request[r].old
  <2>1. key' = [key EXCEPT ![old] = "none"] /\ Moved(r, "hset", t, request[r].clean)
    BY <1>11, RotateMoves
  <2>2. /\ request[r].pc = "rotate" /\ old \in Tokens /\ UNCHANGED overlap
        /\ login' = [login EXCEPT ![t] = login[old]] /\ login[t] = NoToken
    BY <1>11 DEF Rotate, At, Placed, history, Unused
  <2>3. faults = 0
    BY <1>11, RotateMoves
  <2>4. Current(old) /\ login[old] # NoToken
    BY <2>2, CurrentInUse DEF Current
  <2>5. \A u \in Tokens : Current(u)' => Current(u) \/ u = t
    BY <2>1, <2>2 DEF Current, Live, Moved, TypeOK
  <2>6. \A u \in Tokens : u = old => ~Current(u)'
    <3>1. key'[old] = "none" /\ t # old
      BY <2>1, <2>2, <2>4 DEF TypeOK
    <3>2. ASSUME NEW s \in Requests, s # r
          PROVE  /\ ~(request[s].pc = "hset" /\ request[s].new = old)
                 /\ ~(request[s].pc \in {"exists", "rotate"} /\ request[s].old = old)
      <4>1. request[s].pc # "idle" => request[s].browser \in Browsers \ overlap
        BY <2>2 DEF Placed
      <4>2. QED
        BY <2>2, <3>2, <4>1, Alone DEF Making
    <3>3. QED
      BY <2>1, <3>1, <3>2 DEF Current, Live, Moved
  <2>7. \A u \in Tokens : login'[u] = IF u = t THEN login[old] ELSE login[u]
    BY <2>2 DEF TypeOK
  <2>8. \A u \in Tokens : Current(u) /\ login[u] = login[old] => u = old
    BY <2>2, <2>3, <2>4 DEF OneCurrent
  <2> HIDE DEF old
  <2>9. \A u, v \in Tokens : Current(u) /\ Current(v) /\ login[u] = login[v] => u = v
    BY <2>2, <2>3 DEF OneCurrent
  <2>10. QED
    BY <2>5, <2>6, <2>7, <2>8, <2>9
<1>12. ASSUME NEW t \in Tokens, Expire(t)
       PROVE  OneCurrent'
  BY <1>12 DEF Expire, history, OneCurrent, Current, Live
<1>13. ASSUME NEW t \in Tokens, Evict(t)
       PROVE  OneCurrent'
  <2> SUFFICES ASSUME faults' = 0, overlap' = {}
               PROVE  \A u, v \in Tokens : Current(u)' /\ Current(v)' /\ login'[u] = login'[v] => u = v
    BY DEF OneCurrent
  <2>1. UNCHANGED <<login, request, overlap, faults>> /\ key' = [key EXCEPT ![t] = "none"]
    BY <1>13 DEF Evict, history
  <2>2. \A u \in Tokens : Current(u)' => Current(u)
    BY <2>1 DEF Current, Live, TypeOK
  <2>3. QED
    BY <2>1, <2>2 DEF OneCurrent
<1>14. CASE UNCHANGED vars
  BY <1>14 DEF vars, store, history, OneCurrent, Current, Live
<1>15. QED
  BY <1>1, <1>2, <1>3, <1>4, <1>5, <1>6, <1>7, <1>8, <1>9, <1>10,
     <1>11, <1>12, <1>13, <1>14 DEF Next

\* Calm is inductive relative to IInv.
LEMMA CalmStep == IInv /\ Calm /\ [Next]_vars => Calm'
BY OwnedStep, OneByOneStep, LineageStep, RequestsGoodStep, CookieIsGoodStep, OneCurrentStep DEF Calm

\* Calm holds before the first login.
LEMMA InitCalm == Init => Calm
<1> SUFFICES ASSUME Init PROVE Calm
  OBVIOUS
<1>1. /\ \A r \in Requests : request[r].pc = "idle" /\ request[r].browser = NoBrowser /\ request[r].old = NoToken
      /\ \A b \in Browsers : cookie[b] = NoToken
      /\ \A t \in Tokens : ~Live(t) /\ login[t] = NoToken
  BY DEF Init, Idle, Live
<1>2. Owned /\ OneByOne /\ Lineage
  BY <1>1, SessionsAssumption DEF Owned, Has, OneByOne, Lineage, Making
<1>3. RequestsGood /\ CookieIsGood /\ OneCurrent
  BY <1>1, SessionsAssumption DEF RequestsGood, CookieIsGood, OneCurrent, Current
<1>4. QED
  BY <1>2, <1>3 DEF Calm

\* Every reachable state satisfies both invariants.
LEMMA AllIsCalm == Spec => [](IInv /\ Calm)
<1>1. IInv /\ IInv' /\ Calm /\ [Next]_vars => Calm'
  BY CalmStep
<1>2. QED
  BY Invariance, InitCalm, <1>1, PTL DEF Spec

\* While nothing fails and its browser sends one request at a time, the cookie that
\* login, refresh_tokens and logout leave behind names a session the next refresh
\* will find, whatever the requests of the other browsers do in between.
THEOREM CookiesStayGood == Spec => []CookieIsGood
<1>1. IInv /\ Calm => CookieIsGood
  BY DEF Calm
<1>2. QED
  BY AllIsCalm, <1>1, PTL

\* Rotation in refresh_tokens: while nothing fails and browsers send one request at a
\* time, a login never has two sessions that Redis knows.
THEOREM RotationKeepsOneSession == Spec => []OneSessionPerLogin
<1>1. IInv /\ Calm => OneSessionPerLogin
  BY DEF Calm, OneCurrent, Current, OneSessionPerLogin
<1>2. QED
  BY AllIsCalm, <1>1, PTL
=============================================================================
