---------------------------- MODULE ConfigCache ----------------------------
(***************************************************************************)
(* The Redis cache of LLMConfigService (services/llm_config_service.py):   *)
(* the admin overrides in one key and the resolved configuration of each   *)
(* user in a key of its own, both with a TTL.  Writers commit and then     *)
(* invalidate; readers look at the cache, read the database and fill the   *)
(* cache.  Every Redis call and every query is a step of its own, and a    *)
(* Redis call that fails is logged and forgotten.                          *)
(*                                                                         *)
(* The overrides and the preferences are versions, so that a cached value  *)
(* is stale exactly if its version is not the one in the database.  Time   *)
(* is counted in ticks; a request is taken to be shorter than a tick.      *)
(***************************************************************************)
EXTENDS Naturals, FiniteSets

CONSTANTS
    Users,
    Requests,     \* requests in flight at the same time
    TTL,          \* CACHE_TTL_SECONDS, in ticks
    MaxAdmin,     \* bound: changes of the admin overrides
    MaxPref,      \* bound: changes of each user's preferences
    MaxFaults,    \* bound: failing Redis calls and dying requests
    NoUser

ASSUME CacheAssumption ==
    /\ TTL \in Nat \ {0}
    /\ MaxAdmin \in Nat
    /\ MaxPref \in Nat
    /\ MaxFaults \in Nat
    /\ NoUser \notin Users

VARIABLES
    admin,        \* llm_config_overrides: the version that is in force
    pref,         \* user_llm_preferences: the version of each user
    adminCache,   \* the key llm_config:admin_overrides
    resolved,     \* the keys llm_config:resolved:<user>
    request,      \* what each request is doing
    sinceAdmin,   \* ticks since admin changed, up to 2 * TTL
    sincePref,    \* ticks since pref changed, up to TTL
    excused,      \* history: a read has overlapped a write, or a write was not
                  \* followed by its whole invalidation
    faults

db == <<admin, pref>>
cache == <<adminCache, resolved>>
clocks == <<sinceAdmin, sincePref>>
vars == <<db, cache, request, clocks, excused, faults>>

Reading == {"admin_get", "admin_read", "admin_set", "prefs", "resolved_set"}
Writing == {"del_admin", "scan", "del_keys", "del_user"}

\* A request: its place, its user, whether it fills the user's key, the versions it
\* has read, and the keys its scan has found.
Request == [pc : {"idle"} \union Reading \union Writing, user : Users \union {NoUser},
            fills : BOOLEAN, admin : 0..MaxAdmin, pref : 0..MaxPref, keys : SUBSET Users]

Idle == [pc |-> "idle", user |-> NoUser, fills |-> FALSE, admin |-> 0, pref |-> 0,
         keys |-> {}]

\* A key with left = 0 is not there.
NoAdmin == [admin |-> 0, left |-> 0]
NoConfig == [admin |-> 0, pref |-> 0, left |-> 0]

At(r, pc) == request[r].pc = pc
Become(r, x) == request' = [request EXCEPT ![r] = x]
Goto(r, pc) == Become(r, [request[r] EXCEPT !.pc = pc])
Done(r) == Become(r, Idle)
InFlight(places) == \E r \in Requests : request[r].pc \in places

Fault == faults < MaxFaults /\ faults' = faults + 1

\* A Redis call fails; what should have been deleted or stored is not.
Lost == Fault /\ excused' = TRUE

Init ==
    /\ admin = 0
    /\ pref = [u \in Users |-> 0]
    /\ adminCache = NoAdmin
    /\ resolved = [u \in Users |-> NoConfig]
    /\ request = [r \in Requests |-> Idle]
    /\ sinceAdmin = 0
    /\ sincePref = [u \in Users |-> 0]
    /\ excused = FALSE
    /\ faults = 0

-----------------------------------------------------------------------------
(* Reading.                                                                *)

\* get_resolved_config when the user's key is missing or cannot be read, or
\* get_effective_model_params and get_config_with_overrides, which never look at
\* that key (fills is FALSE).  A hit is answered at once and changes nothing.
Read(r, u, fills) ==
    /\ At(r, "idle")
    /\ Become(r, [Idle EXCEPT !.pc = "admin_get", !.user = u, !.fills = fills])
    /\ IF fills /\ resolved[u].left > 0 THEN Fault ELSE UNCHANGED faults
    /\ excused' = (excused \/ InFlight(Writing))
    /\ UNCHANGED <<db, cache, clocks>>

\* _load_admin_overrides_dict: the cached overrides, or else the database.
GetAdmin(r) ==
    /\ At(r, "admin_get")
    /\ \/ /\ adminCache.left > 0
          /\ Become(r, [request[r] EXCEPT !.pc = "prefs", !.admin = adminCache.admin])
          /\ UNCHANGED faults
       \/ adminCache.left = 0 /\ Goto(r, "admin_read") /\ UNCHANGED faults
       \/ Fault /\ Goto(r, "admin_read")
    /\ UNCHANGED <<db, cache, clocks, excused>>

\* get_admin_overrides.
ReadAdmin(r) ==
    /\ At(r, "admin_read")
    /\ Become(r, [request[r] EXCEPT !.pc = "admin_set", !.admin = admin])
    /\ UNCHANGED <<db, cache, clocks, excused, faults>>

\* Mutant of SetAdmin: the key gets twice the TTL.
SetAdminLong(r) ==
    /\ At(r, "admin_set")
    /\ adminCache' = [admin |-> request[r].admin, left |-> 2 * TTL]
    /\ Goto(r, "prefs")
    /\ UNCHANGED <<db, resolved, clocks, excused, faults>>

\* _set_cached of the overrides.
SetAdmin(r) ==
    /\ At(r, "admin_set")
    /\ \/ /\ adminCache' = [admin |-> request[r].admin, left |-> TTL]
          /\ UNCHANGED faults
       \/ Fault /\ UNCHANGED adminCache
    /\ Goto(r, "prefs")
    /\ UNCHANGED <<db, resolved, clocks, excused>>

\* _load_user_preferences_dict.
ReadPrefs(r) ==
    /\ At(r, "prefs")
    /\ Become(r, IF request[r].fills
                   THEN [request[r] EXCEPT !.pc = "resolved_set", !.pref = pref[request[r].user]]
                   ELSE Idle)
    /\ UNCHANGED <<db, cache, clocks, excused, faults>>

\* Mutant of SetResolved: the key gets one tick more.
SetResolvedLong(r) ==
    LET x == request[r] IN
    /\ At(r, "resolved_set")
    /\ resolved' = [resolved EXCEPT ![x.user] = [admin |-> x.admin, pref |-> x.pref, left |-> TTL + 1]]
    /\ Done(r)
    /\ UNCHANGED <<db, adminCache, clocks, excused, faults>>

\* _set_cached of the resolved configuration.
SetResolved(r) ==
    LET x == request[r] IN
    /\ At(r, "resolved_set")
    /\ \/ /\ resolved' = [resolved EXCEPT ![x.user] =
                            [admin |-> x.admin, pref |-> x.pref, left |-> TTL]]
          /\ UNCHANGED faults
       \/ Fault /\ UNCHANGED resolved
    /\ Done(r)
    /\ UNCHANGED <<db, adminCache, clocks, excused>>

-----------------------------------------------------------------------------
(* Writing.                                                                *)

\* create_, update_ and delete_admin_override, up to the commit.
ChangeAdmin(r) ==
    /\ At(r, "idle")
    /\ admin < MaxAdmin
    /\ admin' = admin + 1
    /\ sinceAdmin' = 0
    /\ Become(r, [Idle EXCEPT !.pc = "del_admin"])
    /\ excused' = (excused \/ InFlight(Reading))
    /\ UNCHANGED <<pref, cache, sincePref, faults>>

\* An override reaches its expires_at: nothing is invalidated.
Lapse ==
    /\ admin < MaxAdmin
    /\ admin' = admin + 1
    /\ sinceAdmin' = 0
    /\ excused' = TRUE
    /\ UNCHANGED <<pref, cache, request, sincePref, faults>>

\* _invalidate_admin_cache, first the overrides.  A failure skips the rest.
DeleteAdmin(r) ==
    /\ At(r, "del_admin")
    /\ \/ adminCache' = NoAdmin /\ Goto(r, "scan") /\ UNCHANGED <<excused, faults>>
       \/ Lost /\ Done(r) /\ UNCHANGED adminCache
    /\ UNCHANGED <<db, resolved, clocks>>

\* Mutant of Scan: leaves the resolved configurations to their TTL.
ScanNothing(r) ==
    /\ At(r, "scan")
    /\ Done(r)
    /\ UNCHANGED <<db, cache, clocks, excused, faults>>

\* scan_iter: the keys of the users whose configuration is cached.
Scan(r) ==
    /\ At(r, "scan")
    /\ \/ /\ Become(r, [request[r] EXCEPT !.pc = "del_keys",
                          !.keys = {u \in Users : resolved[u].left > 0}])
          /\ UNCHANGED <<excused, faults>>
       \/ Lost /\ Done(r)
    /\ UNCHANGED <<db, cache, clocks>>

\* The keys found are deleted.
DeleteKeys(r) ==
    /\ At(r, "del_keys")
    /\ \/ /\ resolved' = [u \in Users |-> IF u \in request[r].keys THEN NoConfig ELSE resolved[u]]
          /\ UNCHANGED <<excused, faults>>
       \/ request[r].keys # {} /\ Lost /\ UNCHANGED resolved
    /\ Done(r)
    /\ UNCHANGED <<db, adminCache, clocks>>

\* create_ and delete_user_preference, up to the commit.
ChangePref(r, u) ==
    /\ At(r, "idle")
    /\ pref[u] < MaxPref
    /\ pref' = [pref EXCEPT ![u] = @ + 1]
    /\ sincePref' = [sincePref EXCEPT ![u] = 0]
    /\ Become(r, [Idle EXCEPT !.pc = "del_user", !.user = u])
    /\ excused' = (excused \/ InFlight(Reading))
    /\ UNCHANGED <<admin, cache, sinceAdmin, faults>>

\* _invalidate_user_cache.
DeleteUser(r) ==
    /\ At(r, "del_user")
    /\ \/ /\ resolved' = [resolved EXCEPT ![request[r].user] = NoConfig]
          /\ UNCHANGED <<excused, faults>>
       \/ Lost /\ UNCHANGED resolved
    /\ Done(r)
    /\ UNCHANGED <<db, adminCache, clocks>>

\* The request dies; an invalidation that was under way is not finished.
Die(r) ==
    /\ ~At(r, "idle")
    /\ Fault
    /\ excused' = (excused \/ request[r].pc \in Writing)
    /\ Done(r)
    /\ UNCHANGED <<db, cache, clocks>>

-----------------------------------------------------------------------------
Older(n, cap) == IF n < cap THEN n + 1 ELSE cap

\* Time passes and Redis drops the keys whose TTL is over.
Tick ==
    /\ \A r \in Requests : At(r, "idle")
    /\ adminCache' = IF adminCache.left > 1
                       THEN [adminCache EXCEPT !.left = @ - 1]
                       ELSE NoAdmin
    /\ resolved' = [u \in Users |-> IF resolved[u].left > 1
                                      THEN [resolved[u] EXCEPT !.left = @ - 1]
                                      ELSE NoConfig]
    /\ sinceAdmin' = Older(sinceAdmin, 2 * TTL)
    /\ sincePref' = [u \in Users |-> Older(sincePref[u], TTL)]
    /\ UNCHANGED <<db, request, excused, faults>>

-----------------------------------------------------------------------------
Next ==
    \/ \E r \in Requests, u \in Users :
          ChangePref(r, u) \/ \E fills \in BOOLEAN : Read(r, u, fills)
    \/ \E r \in Requests :
          \/ GetAdmin(r) \/ ReadAdmin(r) \/ SetAdmin(r) \/ ReadPrefs(r) \/ SetResolved(r)
          \/ ChangeAdmin(r) \/ DeleteAdmin(r) \/ Scan(r) \/ DeleteKeys(r)
          \/ DeleteUser(r) \/ Die(r)
    \/ Lapse
    \/ Tick

Spec == Init /\ [][Next]_vars

-----------------------------------------------------------------------------
\* Every variable has its type.
TypeOK ==
    /\ admin \in 0..MaxAdmin
    /\ pref \in [Users -> 0..MaxPref]
    /\ adminCache \in [admin : 0..MaxAdmin, left : 0..TTL]
    /\ resolved \in [Users -> [admin : 0..MaxAdmin, pref : 0..MaxPref, left : 0..TTL]]
    /\ request \in [Requests -> Request]
    /\ sinceAdmin \in 0..(2 * TTL)
    /\ sincePref \in [Users -> 0..TTL]
    /\ excused \in BOOLEAN
    /\ faults \in 0..MaxFaults

\* "Cache is automatically invalidated when a user updates their preferences or an
\* admin modifies overrides": as long as no read overlaps a write, no Redis call of
\* an invalidation fails and no override lapses, a configuration that is served
\* from the cache is the one in the database as soon as the write has returned.
FreshUnlessExcused ==
    ~excused /\ ~InFlight(Writing) =>
        /\ adminCache.left > 0 => adminCache.admin = admin
        /\ \A u \in Users : resolved[u].left > 0 =>
              resolved[u].admin = admin /\ resolved[u].pref = pref[u]

\* Whatever overlaps, fails or lapses, a change of the overrides is visible to every
\* user after twice the TTL: a stale key of the overrides may still feed a resolved
\* configuration just before it expires, and that one lives as long again.
OverridesWithinTwoTTLs ==
    sinceAdmin = 2 * TTL =>
        \A u \in Users : resolved[u].left > 0 => resolved[u].admin = admin

\* Whatever overlaps or fails, a user's own change is visible after the TTL.
PreferencesWithinTTL ==
    \A u \in Users : sincePref[u] = TTL /\ resolved[u].left > 0 => resolved[u].pref = pref[u]
=============================================================================
