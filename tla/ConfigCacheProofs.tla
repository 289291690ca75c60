------------------------- MODULE ConfigCacheProofs -------------------------
(***************************************************************************)
(* Theorems about ConfigCache, for any number of users and requests, any   *)
(* TTL and any number of changes and faults.                               *)
(***************************************************************************)
EXTENDS ConfigCache, TLAPS

-----------------------------------------------------------------------------
(* The inductive invariant.                                                *)

\* A request that works for a user has one.
Placed ==
    \A r \in Requests :
        request[r].pc \in Reading \union {"del_user"} => request[r].user \in Users

Typed == TypeOK /\ Placed

\* The types of all variables but request.
Others ==
    /\ admin \in 0..MaxAdmin
    /\ pref \in [Users -> 0..MaxPref]
    /\ adminCache \in [admin : 0..MaxAdmin, left : 0..TTL]
    /\ resolved \in [Users -> [admin : 0..MaxAdmin, pref : 0..MaxPref, left : 0..TTL]]
    /\ sinceAdmin \in 0..(2 * TTL)
    /\ sincePref \in [Users -> 0..TTL]
    /\ excused \in BOOLEAN
    /\ faults \in 0..MaxFaults

\* A stale key was filled when the change was younger by what has passed of its TTL.
\* Time stands still while a request is in flight, so what a request has read from
\* the database is at most as old as the last change, and what it has read
\* from the key of the overrides is no older than that key allows.
AdminAges ==
    /\ adminCache.left > 0 /\ adminCache.admin # admin => adminCache.left + sinceAdmin <= TTL
    /\ \A u \in Users : resolved[u].left > 0 /\ resolved[u].admin # admin =>
          resolved[u].left + sinceAdmin < 2 * TTL
    /\ \A r \in Requests : request[r].admin # admin =>
          /\ At(r, "admin_set") => sinceAdmin = 0
          /\ request[r].pc \in {"prefs", "resolved_set"} => sinceAdmin < TTL

PrefAges ==
    /\ \A u \in Users : resolved[u].left > 0 /\ resolved[u].pref # pref[u] =>
          resolved[u].left + sincePref[u] <= TTL
    /\ \A r \in Requests :
          At(r, "resolved_set") /\ request[r].pref # pref[request[r].user] =>
              sincePref[request[r].user] = 0

\* An invalidation under way will delete the key of the overrides, or that of user u.
WillDeleteAdmin == \E r \in Requests : At(r, "del_admin")
WillDelete(u) ==
    \E r \in Requests :
        \/ request[r].pc \in {"del_admin", "scan"}
        \/ At(r, "del_keys") /\ u \in request[r].keys
        \/ At(r, "del_user") /\ request[r].user = u

\* As long as nothing is excused, reads and writes do not overlap, whatever is stale
\* is about to be deleted and what a read has read is fresh.
Orderly ==
    ~excused =>
        /\ ~(InFlight(Reading) /\ InFlight(Writing))
        /\ adminCache.left > 0 => adminCache.admin = admin \/ WillDeleteAdmin
        /\ \A u \in Users : resolved[u].left > 0 =>
              WillDelete(u) \/ (resolved[u].admin = admin /\ resolved[u].pref = pref[u])
        /\ \A r \in Requests :
              /\ request[r].pc \in {"admin_set", "prefs", "resolved_set"} =>
                    request[r].admin = admin
              /\ At(r, "resolved_set") => request[r].pref = pref[request[r].user]

IInv == Typed /\ AdminAges /\ PrefAges /\ Orderly

\* The values that stand for a missing key have the types of keys.
LEMMA NothingTyped ==
    /\ NoAdmin \in [admin : 0..MaxAdmin, left : 0..TTL]
    /\ NoConfig \in [admin : 0..MaxAdmin, pref : 0..MaxPref, left : 0..TTL]
<1>1. 0 \in 0..MaxAdmin /\ 0 \in 0..MaxPref /\ 0 \in 0..TTL
  BY CacheAssumption
<1>2. QED
  BY <1>1 DEF NoAdmin, NoConfig

\* The invariant holds when the service starts.
LEMMA InitIInv == Init => IInv
<1> SUFFICES ASSUME Init PROVE IInv
  OBVIOUS
<1>1. Idle \in Request /\ Idle.pc = "idle"
  BY CacheAssumption DEF Idle, Request
<1>2. request \in [Requests -> Request] /\ Placed
  BY <1>1 DEF Init, Placed, Reading
<1>3. Others
  <2>1. /\ 0 \in 0..MaxAdmin /\ 0 \in 0..MaxPref /\ 0 \in 0..MaxFaults
        /\ 0 \in 0..TTL /\ 0 \in 0..(2 * TTL)
    BY CacheAssumption
  <2>2. QED
    BY <2>1, NothingTyped DEF Init, Others
<1>4. AdminAges /\ PrefAges /\ Orderly
  BY <1>1 DEF Init, AdminAges, PrefAges, Orderly, NoAdmin, NoConfig, At, InFlight, Reading
<1>5. QED
  BY <1>2, <1>3, <1>4 DEF IInv, Typed, TypeOK, Others

-----------------------------------------------------------------------------
(* How requests change.                                                    *)

\* A request that may take the place of another one.
Fine(x) == x \in Request /\ (x.pc \in Reading \union {"del_user"} => x.user \in Users)

\* A step that assigns a fine request keeps all requests fine and changes only one.
LEMMA BecomeFine ==
    ASSUME Typed, NEW r \in Requests, NEW x, Fine(x), Become(r, x)
    PROVE  /\ request' \in [Requests -> Request]
           /\ Placed'
           /\ request'[r] = x
           /\ \A s \in Requests : s # r => request'[s] = request[s]
BY DEF Typed, TypeOK, Placed, Fine, Become

\* A request that is over is fine.
LEMMA IdleFine == Fine(Idle) /\ Idle.pc = "idle"
BY CacheAssumption DEF Fine, Idle, Request, Reading

\* A step that ends a request changes nothing else.
LEMMA DoneFine ==
    ASSUME Typed, NEW r \in Requests, Done(r)
    PROVE  /\ request' \in [Requests -> Request]
           /\ Placed'
           /\ request'[r] = Idle /\ request'[r].pc = "idle"
           /\ \A s \in Requests : s # r => request'[s] = request[s]
BY BecomeFine, IdleFine DEF Done

\* Request r goes on with all it has but what is named, and no other one changes.
Moved(r, pc, adm, keys) ==
    /\ request' \in [Requests -> Request]
    /\ Placed'
    /\ \A s \in Requests : s # r => request'[s] = request[s]
    /\ request'[r].pc = pc
    /\ request'[r].user = request[r].user
    /\ request'[r].admin = adm
    /\ request'[r].pref = request[r].pref
    /\ request'[r].keys = keys

\* Such an assignment is what it says.
LEMMA Moves ==
    ASSUME Typed, NEW r \in Requests,
           NEW pc \in {"admin_read", "admin_set", "prefs", "scan", "del_keys"},
           NEW adm \in 0..MaxAdmin, NEW keys \in SUBSET Users,
           pc \in Reading => request[r].user \in Users,
           Become(r, [request[r] EXCEPT !.pc = pc, !.admin = adm, !.keys = keys])
    PROVE  Moved(r, pc, adm, keys)
<1> DEFINE x == [request[r] EXCEPT !.pc = pc, !.admin = adm, !.keys = keys]
<1>1. request[r] \in Request
  BY DEF Typed, TypeOK
<1>2. x \in Request
  BY <1>1 DEF Request, Reading, Writing
<1>3. /\ x.pc = pc /\ x.user = request[r].user /\ x.admin = adm
      /\ x.pref = request[r].pref /\ x.keys = keys
  BY <1>1 DEF Request
<1>4. Fine(x)
  BY <1>2, <1>3 DEF Fine
<1> HIDE DEF x
<1>5. Become(r, x)
  BY DEF x
<1>6. QED
  BY <1>3, <1>4, <1>5, BecomeFine DEF Moved

\* The same for the assignments to some of the fields only.
LEMMA SomeMoves ==
    ASSUME Typed, NEW r \in Requests,
           NEW pc \in {"admin_read", "admin_set", "prefs", "scan", "del_keys"},
           pc \in Reading => request[r].user \in Users
    PROVE  /\ Goto(r, pc) => Moved(r, pc, request[r].admin, request[r].keys)
           /\ \A adm \in 0..MaxAdmin :
                 Become(r, [request[r] EXCEPT !.pc = pc, !.admin = adm])
                    => Moved(r, pc, adm, request[r].keys)
           /\ \A keys \in SUBSET Users :
                 Become(r, [request[r] EXCEPT !.pc = pc, !.keys = keys])
                    => Moved(r, pc, request[r].admin, keys)
<1>1. request[r] \in Request /\ request[r].admin \in 0..MaxAdmin /\ request[r].keys \in SUBSET Users
  BY DEF Typed, TypeOK, Request
<1>2. [request[r] EXCEPT !.pc = pc] =
        [request[r] EXCEPT !.pc = pc, !.admin = request[r].admin, !.keys = request[r].keys]
  BY <1>1 DEF Request
<1>3. \A adm \in 0..MaxAdmin : [request[r] EXCEPT !.pc = pc, !.admin = adm] =
        [request[r] EXCEPT !.pc = pc, !.admin = adm, !.keys = request[r].keys]
  BY <1>1 DEF Request
<1>4. \A keys \in SUBSET Users : [request[r] EXCEPT !.pc = pc, !.keys = keys] =
        [request[r] EXCEPT !.pc = pc, !.admin = request[r].admin, !.keys = keys]
  BY <1>1 DEF Request
<1>5. QED
  BY <1>1, <1>2, <1>3, <1>4, Moves DEF Goto

\* Faults stay within their bound.
LEMMA FaultTyped == ASSUME Typed, Fault PROVE faults' \in 0..MaxFaults
BY CacheAssumption DEF Typed, TypeOK, Fault

\* What _load_admin_overrides_dict does with the key of the overrides.
LEMMA GetAdminMoves ==
    ASSUME Typed, NEW r \in Requests, GetAdmin(r)
    PROVE  /\ \/ adminCache.left > 0 /\ Moved(r, "prefs", adminCache.admin, request[r].keys)
              \/ Moved(r, "admin_read", request[r].admin, request[r].keys)
           /\ faults' \in 0..MaxFaults
<1>1. request[r].user \in Users /\ adminCache.admin \in 0..MaxAdmin
  BY DEF GetAdmin, At, Typed, TypeOK, Placed, Reading
<1>2. faults' \in 0..MaxFaults
  BY FaultTyped DEF GetAdmin, Typed, TypeOK
<1>3. QED
  BY <1>1, <1>2, SomeMoves DEF GetAdmin

\* What the first deletion of _invalidate_admin_cache does.
LEMMA DeleteAdminMoves ==
    ASSUME Typed, NEW r \in Requests, DeleteAdmin(r)
    PROVE  /\ \/ /\ Moved(r, "scan", request[r].admin, request[r].keys)
                 /\ adminCache' = NoAdmin
                 /\ UNCHANGED excused
              \/ Done(r) /\ excused' = TRUE /\ UNCHANGED adminCache
           /\ faults' \in 0..MaxFaults
<1>1. faults' \in 0..MaxFaults
  BY FaultTyped DEF DeleteAdmin, Lost, Typed, TypeOK
<1>2. QED
  BY <1>1, SomeMoves DEF DeleteAdmin, Lost, Reading

\* What the scan of _invalidate_admin_cache does.
LEMMA ScanMoves ==
    ASSUME Typed, NEW r \in Requests, Scan(r)
    PROVE  /\ \/ /\ Moved(r, "del_keys", request[r].admin, {u \in Users : resolved[u].left > 0})
                 /\ UNCHANGED excused
              \/ Done(r) /\ excused' = TRUE
           /\ faults' \in 0..MaxFaults
<1>1. faults' \in 0..MaxFaults
  BY FaultTyped DEF Scan, Lost, Typed, TypeOK
<1>2. {u \in Users : resolved[u].left > 0} \in SUBSET Users
  OBVIOUS
<1>3. QED
  BY <1>1, <1>2, SomeMoves DEF Scan, Lost, Reading

-----------------------------------------------------------------------------
(* Every step preserves the invariant.                                     *)

\* Reading the key of the overrides.
LEMMA GetAdminKeeps ==
    ASSUME IInv, NEW r \in Requests, GetAdmin(r)
    PROVE  AdminAges' /\ PrefAges' /\ Orderly'
<1>1. Typed /\ UNCHANGED <<db, cache, clocks, excused>> /\ At(r, "admin_get")
  BY DEF IInv, GetAdmin
<1>2. /\ adminCache.left \in Nat /\ sinceAdmin \in Nat
  BY <1>1, CacheAssumption DEF Typed, TypeOK
<1>3. CASE adminCache.left > 0 /\ Moved(r, "prefs", adminCache.admin, request[r].keys)
  <2>1. AdminAges'
    BY <1>1, <1>2, <1>3, CacheAssumption DEF IInv, AdminAges, Moved, At, db, cache, clocks
  <2>2. PrefAges'
    BY <1>1, <1>3 DEF IInv, PrefAges, Moved, At, db, cache, clocks
  <2>3. Orderly'
    BY <1>1, <1>2, <1>3 DEF IInv, Orderly, InFlight, WillDelete, WillDeleteAdmin, Reading,
          Writing, Moved, At, db, cache
  <2>4. QED
    BY <2>1, <2>2, <2>3
<1>4. CASE Moved(r, "admin_read", request[r].admin, request[r].keys)
  <2>1. AdminAges'
    BY <1>1, <1>2, <1>4, CacheAssumption DEF IInv, AdminAges, Moved, At, db, cache, clocks
  <2>2. PrefAges'
    BY <1>1, <1>4 DEF IInv, PrefAges, Moved, At, db, cache, clocks
  <2>3. Orderly'
    BY <1>1, <1>2, <1>4 DEF IInv, Orderly, InFlight, WillDelete, WillDeleteAdmin, Reading,
          Writing, Moved, At, db, cache
  <2>4. QED
    BY <2>1, <2>2, <2>3
<1>5. QED
  BY <1>1, <1>3, <1>4, GetAdminMoves

\* Deleting the key of the overrides.
LEMMA DeleteAdminKeeps ==
    ASSUME IInv, NEW r \in Requests, DeleteAdmin(r)
    PROVE  AdminAges' /\ PrefAges' /\ Orderly'
<1>1. Typed /\ UNCHANGED <<db, resolved, clocks>> /\ At(r, "del_admin")
  BY DEF IInv, DeleteAdmin
<1>2. CASE /\ Moved(r, "scan", request[r].admin, request[r].keys)
           /\ adminCache' = NoAdmin
           /\ UNCHANGED excused
  <2>1. AdminAges'
    BY <1>1, <1>2 DEF IInv, AdminAges, Moved, At, db, clocks, NoAdmin
  <2>2. PrefAges'
    BY <1>1, <1>2 DEF IInv, PrefAges, Moved, At, db, clocks
  <2>3. Orderly'
    BY <1>1, <1>2 DEF IInv, Orderly, InFlight, WillDelete, WillDeleteAdmin, Reading,
          Writing, Moved, At, db, NoAdmin
  <2>4. QED
    BY <2>1, <2>2, <2>3
<1>3. CASE Done(r) /\ excused' = TRUE /\ UNCHANGED adminCache
  <2>1. /\ request'[r].pc = "idle"
        /\ \A s \in Requests : s # r => request'[s] = request[s]
    BY <1>1, <1>3, DoneFine
  <2>2. AdminAges'
    BY <1>1, <1>3, <2>1 DEF IInv, AdminAges, At, db, clocks
  <2>3. PrefAges'
    BY <1>1, <1>3, <2>1 DEF IInv, PrefAges, At, db, clocks
  <2>4. QED
    BY <1>3, <2>2, <2>3 DEF Orderly
<1>4. QED
  BY <1>1, <1>2, <1>3, DeleteAdminMoves

\* Looking for the keys of the users.
LEMMA ScanKeeps ==
    ASSUME IInv, NEW r \in Requests, Scan(r)
    PROVE  AdminAges' /\ PrefAges' /\ Orderly'
<1>1. Typed /\ UNCHANGED <<db, cache, clocks>> /\ At(r, "scan")
  BY DEF IInv, Scan
<1>2. CASE /\ Moved(r, "del_keys", request[r].admin, {u \in Users : resolved[u].left > 0})
           /\ UNCHANGED excused
  <2>1. AdminAges'
    BY <1>1, <1>2 DEF IInv, AdminAges, Moved, At, db, cache, clocks
  <2>2. PrefAges'
    BY <1>1, <1>2 DEF IInv, PrefAges, Moved, At, db, cache, clocks
  <2>3. Orderly'
    BY <1>1, <1>2 DEF IInv, Orderly, InFlight, WillDelete, WillDeleteAdmin, Reading,
          Writing, Moved, At, db, cache
  <2>4. QED
    BY <2>1, <2>2, <2>3
<1>3. CASE Done(r) /\ excused' = TRUE
  <2>1. /\ request'[r].pc = "idle"
        /\ \A s \in Requests : s # r => request'[s] = request[s]
    BY <1>1, <1>3, DoneFine
  <2>2. AdminAges'
    BY <1>1, <1>3, <2>1 DEF IInv, AdminAges, At, db, cache, clocks
  <2>3. PrefAges'
    BY <1>1, <1>3, <2>1 DEF IInv, PrefAges, At, db, cache, clocks
  <2>4. QED
    BY <1>3, <2>2, <2>3 DEF Orderly
<1>4. QED
  BY <1>1, <1>2, <1>3, ScanMoves

\* Types, action by action.
LEMMA TypedStep == IInv /\ [Next]_vars => Typed'
<1> SUFFICES ASSUME IInv, [Next]_vars PROVE Typed'
  OBVIOUS
<1> USE DEF IInv
<1>1. ASSUME NEW r \in Requests, NEW u \in Users, NEW fills \in BOOLEAN, Read(r, u, fills)
      PROVE  Typed'
  <2> DEFINE x == [Idle EXCEPT !.pc = "admin_get", !.user = u, !.fills = fills]
  <2>0. Fine(x)
    BY IdleFine DEF Fine, Request, Reading, Writing
  <2> HIDE DEF x
  <2>1. request' \in [Requests -> Request] /\ Placed'
    BY <1>1, <2>0, BecomeFine DEF Read, x
  <2>2. Others'
    BY <1>1, FaultTyped
    DEF Typed, TypeOK, Others, db, cache, clocks, Read
  <2>3. QED
    BY <2>1, <2>2 DEF Typed, TypeOK, Others
<1>2. ASSUME NEW r \in Requests, GetAdmin(r)
      PROVE  Typed'
  <2>1. request' \in [Requests -> Request] /\ Placed'
    BY <1>2, GetAdminMoves DEF Moved
  <2>2. Others'
    BY <1>2, GetAdminMoves
    DEF Typed, TypeOK, Others, db, cache, clocks, GetAdmin
  <2>3. QED
    BY <2>1, <2>2 DEF Typed, TypeOK, Others
<1>3. ASSUME NEW r \in Requests, ReadAdmin(r)
      PROVE  Typed'
  <2>0. request[r].user \in Users /\ admin \in 0..MaxAdmin
    BY <1>3 DEF ReadAdmin, At, Typed, TypeOK, Placed, Reading
  <2>1. request' \in [Requests -> Request] /\ Placed'
    BY <1>3, <2>0, SomeMoves DEF ReadAdmin, Moved
  <2>2. Others'
    BY <1>3, CacheAssumption
    DEF Typed, TypeOK, Others, db, cache, clocks, ReadAdmin
  <2>3. QED
    BY <2>1, <2>2 DEF Typed, TypeOK, Others
<1>4. ASSUME NEW r \in Requests, SetAdmin(r)
      PROVE  Typed'
  <2>0. request[r].user \in Users /\ request[r].admin \in 0..MaxAdmin
    BY <1>4 DEF SetAdmin, At, Typed, TypeOK, Placed, Reading, Request
  <2>1. request' \in [Requests -> Request] /\ Placed'
    BY <1>4, <2>0, SomeMoves DEF SetAdmin, Moved
  <2>2. Others'
    BY <1>4, <2>0, FaultTyped, CacheAssumption
    DEF Typed, TypeOK, Others, db, cache, clocks, SetAdmin
  <2>3. QED
    BY <2>1, <2>2 DEF Typed, TypeOK, Others
<1>5. ASSUME NEW r \in Requests, ReadPrefs(r)
      PROVE  Typed'
  <2> DEFINE x == [request[r] EXCEPT !.pc = "resolved_set", !.pref = pref[request[r].user]]
  <2>a. request[r] \in Request /\ request[r].user \in Users /\ pref[request[r].user] \in 0..MaxPref
    BY <1>5 DEF ReadPrefs, At, Typed, TypeOK, Placed, Reading
  <2>b. x \in Request /\ x.user = request[r].user
    BY <2>a DEF Request, Reading
  <2>0. Fine(x)
    BY <2>a, <2>b DEF Fine
  <2> HIDE DEF x
  <2>1. request' \in [Requests -> Request] /\ Placed'
    BY <1>5, <2>0, BecomeFine, IdleFine DEF ReadPrefs, x
  <2>2. Others'
    BY <1>5, CacheAssumption
    DEF Typed, TypeOK, Others, db, cache, clocks, ReadPrefs
  <2>3. QED
    BY <2>1, <2>2 DEF Typed, TypeOK, Others
<1>6. ASSUME NEW r \in Requests, SetResolved(r)
      PROVE  Typed'
  <2>0. /\ request[r].user \in Users
        /\ request[r].admin \in 0..MaxAdmin /\ request[r].pref \in 0..MaxPref
    BY <1>6 DEF SetResolved, At, Typed, TypeOK, Placed, Reading, Request
  <2>1. request' \in [Requests -> Request] /\ Placed'
    BY <1>6, DoneFine DEF SetResolved
  <2>2. Others'
    BY <1>6, <2>0, FaultTyped, CacheAssumption
    DEF Typed, TypeOK, Others, db, cache, clocks, SetResolved
  <2>3. QED
    BY <2>1, <2>2 DEF Typed, TypeOK, Others
<1>7. ASSUME NEW r \in Requests, ChangeAdmin(r)
      PROVE  Typed'
  <2> DEFINE x == [Idle EXCEPT !.pc = "del_admin"]
  <2>0. Fine(x)
    BY IdleFine DEF Fine, Request, Reading, Writing
  <2> HIDE DEF x
  <2>1. request' \in [Requests -> Request] /\ Placed'
    BY <1>7, <2>0, BecomeFine DEF ChangeAdmin, x
  <2>2. Others'
    BY <1>7, CacheAssumption
    DEF Typed, TypeOK, Others, db, cache, clocks, ChangeAdmin
  <2>3. QED
    BY <2>1, <2>2 DEF Typed, TypeOK, Others
<1>8. ASSUME NEW r \in Requests, DeleteAdmin(r)
      PROVE  Typed'
  <2>1. request' \in [Requests -> Request] /\ Placed'
    BY <1>8, DeleteAdminMoves, DoneFine DEF Moved
  <2>2. Others'
    BY <1>8, DeleteAdminMoves, NothingTyped
    DEF Typed, TypeOK, Others, db, cache, clocks, DeleteAdmin
  <2>3. QED
    BY <2>1, <2>2 DEF Typed, TypeOK, Others
<1>9. ASSUME NEW r \in Requests, Scan(r)
      PROVE  Typed'
  <2>1. request' \in [Requests -> Request] /\ Placed'
    BY <1>9, ScanMoves, DoneFine DEF Moved
  <2>2. Others'
    BY <1>9, ScanMoves
    DEF Typed, TypeOK, Others, db, cache, clocks, Scan
  <2>3. QED
    BY <2>1, <2>2 DEF Typed, TypeOK, Others
<1>10. ASSUME NEW r \in Requests, DeleteKeys(r)
       PROVE  Typed'
  <2>1. request' \in [Requests -> Request] /\ Placed'
    BY <1>10, DoneFine DEF DeleteKeys
  <2>2. Others'
    BY <1>10, FaultTyped, NothingTyped
    DEF Typed, TypeOK, Others, db, cache, clocks, DeleteKeys, Lost
  <2>3. QED
    BY <2>1, <2>2 DEF Typed, TypeOK, Others
<1>11. ASSUME NEW r \in Requests, NEW u \in Users, ChangePref(r, u)
       PROVE  Typed'
  <2> DEFINE x == [Idle EXCEPT !.pc = "del_user", !.user = u]
  <2>0. Fine(x)
    BY IdleFine DEF Fine, Request, Reading, Writing
  <2> HIDE DEF x
  <2>1. request' \in [Requests -> Request] /\ Placed'
    BY <1>11, <2>0, BecomeFine DEF ChangePref, x
  <2>2. Others'
    BY <1>11, CacheAssumption
    DEF Typed, TypeOK, Others, db, cache, clocks, ChangePref
  <2>3. QED
    BY <2>1, <2>2 DEF Typed, TypeOK, Others
<1>12. ASSUME NEW r \in Requests, DeleteUser(r)
       PROVE  Typed'
  <2>1. request' \in [Requests -> Request] /\ Placed'
    BY <1>12, DoneFine DEF DeleteUser
  <2>2. Others'
    BY <1>12, FaultTyped, NothingTyped
    DEF Typed, TypeOK, Others, db, cache, clocks, DeleteUser, Lost
  <2>3. QED
    BY <2>1, <2>2 DEF Typed, TypeOK, Others
<1>13. ASSUME NEW r \in Requests, Die(r)
       PROVE  Typed'
  <2>1. request' \in [Requests -> Request] /\ Placed'
    BY <1>13, DoneFine DEF Die
  <2>2. Others'
    BY <1>13, FaultTyped, NothingTyped
    DEF Typed, TypeOK, Others, db, cache, clocks, Die
  <2>3. QED
    BY <2>1, <2>2 DEF Typed, TypeOK, Others
<1>14. CASE Lapse
  <2>1. request' \in [Requests -> Request] /\ Placed'
    BY <1>14 DEF Lapse, Typed, TypeOK, Placed
  <2>2. Others'
    BY <1>14, CacheAssumption
    DEF Typed, TypeOK, Others, db, cache, clocks, Lapse
  <2>3. QED
    BY <2>1, <2>2 DEF Typed, TypeOK, Others
<1>15. CASE Tick
  <2>1. request' \in [Requests -> Request] /\ Placed'
    BY <1>15 DEF Tick, Typed, TypeOK, Placed
  <2>2. Others'
    BY <1>15, CacheAssumption
    DEF Typed, TypeOK, Others, db, cache, clocks, Tick, Older, NoAdmin, NoConfig
  <2>3. QED
    BY <2>1, <2>2 DEF Typed, TypeOK, Others
<1>16. CASE UNCHANGED vars
  BY <1>16 DEF vars, Typed, TypeOK, Placed, db, cache, clocks
<1>17. QED
  BY <1>1, <1>2, <1>3, <1>4, <1>5, <1>6, <1>7, <1>8, <1>9,
     <1>10, <1>11, <1>12, <1>13, <1>14, <1>15, <1>16 DEF Next

\* The overrides: a key filled anew is as old as what was read, and a tick ages all.
LEMMA AdminStep == IInv /\ [Next]_vars => AdminAges'
<1> SUFFICES ASSUME IInv, [Next]_vars PROVE AdminAges'
  OBVIOUS
<1> USE CacheAssumption
    DEF IInv, db, cache, clocks, Typed, TypeOK, Placed, At, AdminAges, Become, Reading,
        Writing, Request
<1>1. ASSUME NEW r \in Requests, NEW u \in Users, NEW fills \in BOOLEAN, Read(r, u, fills)
      PROVE  AdminAges'
  BY <1>1 DEF Read, Idle, Fault
<1>2. ASSUME NEW r \in Requests, GetAdmin(r)
      PROVE  AdminAges'
  <2> HIDE DEF IInv, AdminAges
  <2>1. QED
    BY <1>2, GetAdminKeeps
<1>3. ASSUME NEW r \in Requests, ReadAdmin(r)
      PROVE  AdminAges'
  BY <1>3 DEF ReadAdmin
<1>4. ASSUME NEW r \in Requests, SetAdmin(r)
      PROVE  AdminAges'
  BY <1>4 DEF SetAdmin, Goto, Fault
<1>5. ASSUME NEW r \in Requests, ReadPrefs(r)
      PROVE  AdminAges'
  BY <1>5 DEF ReadPrefs, Idle
<1>6. ASSUME NEW r \in Requests, SetResolved(r)
      PROVE  AdminAges'
  BY <1>6 DEF SetResolved, Done, Idle, Fault
<1>7. ASSUME NEW r \in Requests, ChangeAdmin(r)
      PROVE  AdminAges'
  BY <1>7 DEF ChangeAdmin, Idle
<1>8. ASSUME NEW r \in Requests, DeleteAdmin(r)
      PROVE  AdminAges'
  <2> HIDE DEF IInv, AdminAges
  <2>1. QED
    BY <1>8, DeleteAdminKeeps
<1>9. ASSUME NEW r \in Requests, Scan(r)
      PROVE  AdminAges'
  <2> HIDE DEF IInv, AdminAges
  <2>1. QED
    BY <1>9, ScanKeeps
<1>10. ASSUME NEW r \in Requests, DeleteKeys(r)
       PROVE  AdminAges'
  BY <1>10 DEF DeleteKeys, Lost, Fault, Done, Idle, NoConfig
<1>11. ASSUME NEW r \in Requests, NEW u \in Users, ChangePref(r, u)
       PROVE  AdminAges'
  BY <1>11 DEF ChangePref, Idle
<1>12. ASSUME NEW r \in Requests, DeleteUser(r)
       PROVE  AdminAges'
  BY <1>12 DEF DeleteUser, Lost, Fault, Done, Idle, NoConfig
<1>13. ASSUME NEW r \in Requests, Die(r)
       PROVE  AdminAges'
  BY <1>13 DEF Die, Fault, Done, Idle
<1>14. CASE Lapse
  BY <1>14 DEF Lapse
<1>15. CASE Tick
  BY <1>15 DEF Tick, Older, NoAdmin, NoConfig
<1>16. CASE UNCHANGED vars
  BY <1>16 DEF vars
<1>17. QED
  BY <1>1, <1>2, <1>3, <1>4, <1>5, <1>6, <1>7, <1>8, <1>9,
     <1>10, <1>11, <1>12, <1>13, <1>14, <1>15, <1>16 DEF Next

\* The preferences.
LEMMA PrefStep == IInv /\ [Next]_vars => PrefAges'
<1> SUFFICES ASSUME IInv, [Next]_vars PROVE PrefAges'
  OBVIOUS
<1> USE CacheAssumption
    DEF IInv, db, cache, clocks, Typed, TypeOK, Placed, At, PrefAges, Become, Reading,
        Writing, Request
<1>1. ASSUME NEW r \in Requests, NEW u \in Users, NEW fills \in BOOLEAN, Read(r, u, fills)
      PROVE  PrefAges'
  BY <1>1 DEF Read, Idle, Fault
<1>2. ASSUME NEW r \in Requests, GetAdmin(r)
      PROVE  PrefAges'
  <2> HIDE DEF IInv, PrefAges
  <2>1. QED
    BY <1>2, GetAdminKeeps
<1>3. ASSUME NEW r \in Requests, ReadAdmin(r)
      PROVE  PrefAges'
  BY <1>3 DEF ReadAdmin
<1>4. ASSUME NEW r \in Requests, SetAdmin(r)
      PROVE  PrefAges'
  BY <1>4 DEF SetAdmin, Goto, Fault
<1>5. ASSUME NEW r \in Requests, ReadPrefs(r)
      PROVE  PrefAges'
  BY <1>5 DEF ReadPrefs, Idle
<1>6. ASSUME NEW r \in Requests, SetResolved(r)
      PROVE  PrefAges'
  BY <1>6 DEF SetResolved, Done, Idle, Fault
<1>7. ASSUME NEW r \in Requests, ChangeAdmin(r)
      PROVE  PrefAges'
  BY <1>7 DEF ChangeAdmin, Idle
<1>8. ASSUME NEW r \in Requests, DeleteAdmin(r)
      PROVE  PrefAges'
  <2> HIDE DEF IInv, PrefAges
  <2>1. QED
    BY <1>8, DeleteAdminKeeps
<1>9. ASSUME NEW r \in Requests, Scan(r)
      PROVE  PrefAges'
  <2> HIDE DEF IInv, PrefAges
  <2>1. QED
    BY <1>9, ScanKeeps
<1>10. ASSUME NEW r \in Requests, DeleteKeys(r)
       PROVE  PrefAges'
  BY <1>10, SMTT(30) DEF DeleteKeys, Lost, Fault, Done, Idle, NoConfig
<1>11. ASSUME NEW r \in Requests, NEW u \in Users, ChangePref(r, u)
       PROVE  PrefAges'
  BY <1>11 DEF ChangePref, Idle
<1>12. ASSUME NEW r \in Requests, DeleteUser(r)
       PROVE  PrefAges'
  BY <1>12 DEF DeleteUser, Lost, Fault, Done, Idle, NoConfig
<1>13. ASSUME NEW r \in Requests, Die(r)
       PROVE  PrefAges'
  BY <1>13 DEF Die, Fault, Done, Idle
<1>14. CASE Lapse
  BY <1>14 DEF Lapse
<1>15. CASE Tick
  BY <1>15 DEF Tick, Older, NoAdmin, NoConfig
<1>16. CASE UNCHANGED vars
  BY <1>16 DEF vars
<1>17. QED
  BY <1>1, <1>2, <1>3, <1>4, <1>5, <1>6, <1>7, <1>8, <1>9,
     <1>10, <1>11, <1>12, <1>13, <1>14, <1>15, <1>16 DEF Next

\* Order, as long as nothing is excused.
LEMMA OrderlyStep == IInv /\ [Next]_vars => Orderly'
<1> SUFFICES ASSUME IInv, [Next]_vars PROVE Orderly'
  OBVIOUS
<1> USE CacheAssumption
    DEF IInv, db, cache, clocks, Typed, TypeOK, Placed, At, Orderly, InFlight, WillDelete,
        WillDeleteAdmin, Become, Reading, Writing, Request
<1>1. ASSUME NEW r \in Requests, NEW u \in Users, NEW fills \in BOOLEAN, Read(r, u, fills)
      PROVE  Orderly'
  BY <1>1 DEF Read, Idle, Fault
<1>2. ASSUME NEW r \in Requests, GetAdmin(r)
      PROVE  Orderly'
  <2> HIDE DEF IInv, Orderly
  <2>1. QED
    BY <1>2, GetAdminKeeps
<1>3. ASSUME NEW r \in Requests, ReadAdmin(r)
      PROVE  Orderly'
  BY <1>3 DEF ReadAdmin
<1>4. ASSUME NEW r \in Requests, SetAdmin(r)
      PROVE  Orderly'
  BY <1>4 DEF SetAdmin, Goto, Fault
<1>5. ASSUME NEW r \in Requests, ReadPrefs(r)
      PROVE  Orderly'
  BY <1>5 DEF ReadPrefs, Idle
<1>6. ASSUME NEW r \in Requests, SetResolved(r)
      PROVE  Orderly'
  BY <1>6 DEF SetResolved, Done, Idle, Fault
<1>7. ASSUME NEW r \in Requests, ChangeAdmin(r)
      PROVE  Orderly'
  BY <1>7 DEF ChangeAdmin, Idle
<1>8. ASSUME NEW r \in Requests, DeleteAdmin(r)
      PROVE  Orderly'
  <2> HIDE DEF IInv, Orderly
  <2>1. QED
    BY <1>8, DeleteAdminKeeps
<1>9. ASSUME NEW r \in Requests, Scan(r)
      PROVE  Orderly'
  <2> HIDE DEF IInv, Orderly
  <2>1. QED
    BY <1>9, ScanKeeps
<1>10. ASSUME NEW r \in Requests, DeleteKeys(r)
       PROVE  Orderly'
  BY <1>10, SMTT(30) DEF DeleteKeys, Lost, Fault, Done, Idle, NoConfig
<1>11. ASSUME NEW r \in Requests, NEW u \in Users, ChangePref(r, u)
       PROVE  Orderly'
  BY <1>11 DEF ChangePref, Idle
<1>12. ASSUME NEW r \in Requests, DeleteUser(r)
       PROVE  Orderly'
  BY <1>12 DEF DeleteUser, Lost, Fault, Done, Idle, NoConfig
<1>13. ASSUME NEW r \in Requests, Die(r)
       PROVE  Orderly'
  BY <1>13 DEF Die, Fault, Done, Idle
<1>14. CASE Lapse
  BY <1>14 DEF Lapse
<1>15. CASE Tick
  BY <1>15 DEF Tick, Older, NoAdmin, NoConfig
<1>16. CASE UNCHANGED vars
  BY <1>16 DEF vars
<1>17. QED
  BY <1>1, <1>2, <1>3, <1>4, <1>5, <1>6, <1>7, <1>8, <1>9,
     <1>10, <1>11, <1>12, <1>13, <1>14, <1>15, <1>16, SMTT(30) DEF Next

\* IInv is an invariant.
LEMMA Invariance == Spec => []IInv
<1>1. IInv /\ [Next]_vars => IInv'
  BY TypedStep, AdminStep, PrefStep, OrderlyStep DEF IInv
<1>2. QED
  BY InitIInv, <1>1, PTL DEF Spec

-----------------------------------------------------------------------------
\* Versions, keys, clocks and requests always have their types.
THEOREM TypeCorrect == Spec => []TypeOK
<1>1. IInv => TypeOK
  BY DEF IInv, Typed
<1>2. QED
  BY Invariance, <1>1, PTL

\* While reads and writes do not overlap and every invalidation is carried out, the
\* cache never serves what is no longer in the database.
THEOREM InvalidationWorks == Spec => []FreshUnlessExcused
<1>1. IInv => FreshUnlessExcused
  BY DEF IInv, Orderly, FreshUnlessExcused, WillDelete, WillDeleteAdmin, InFlight, Writing, At
<1>2. QED
  BY Invariance, <1>1, PTL

\* A change of the overrides reaches every user within twice the TTL, whatever goes
\* wrong with the invalidation.
THEOREM OverridesArrive == Spec => []OverridesWithinTwoTTLs
<1>1. IInv => OverridesWithinTwoTTLs
  BY CacheAssumption DEF IInv, Typed, TypeOK, AdminAges, OverridesWithinTwoTTLs
<1>2. QED
  BY Invariance, <1>1, PTL

\* A change of a user's preferences reaches that user within the TTL.
THEOREM PreferencesArrive == Spec => []PreferencesWithinTTL
<1>1. IInv => PreferencesWithinTTL
  BY CacheAssumption DEF IInv, Typed, TypeOK, PrefAges, PreferencesWithinTTL
<1>2. QED
  BY Invariance, <1>1, PTL
=============================================================================
