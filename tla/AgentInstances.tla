--------------------------- MODULE AgentInstances ---------------------------
(***************************************************************************)
(* A user's agent instances: services/user_agent_instance_service.py       *)
(* behind api/v1/routes/agent_instances.py.  A request loads what it needs *)
(* in its transaction and commits its changes; the database isolates       *)
(* transactions as PostgreSQL does by default (a statement sees what was   *)
(* committed when it began, waits for rows another transaction has         *)
(* written and looks at them again).  Prompts, descriptions and settings   *)
(* of an instance are applied in AgentSettings.                            *)
(***************************************************************************)
EXTENDS Naturals, FiniteSets

CONSTANTS
    Instances,     \* ids of rows
    InstanceNames,
    Requests,      \* requests of the user that may be in progress at once
    MaxRequests,   \* bound: requests ever begun
    NoInstance

VARIABLES
    instance,      \* rows of user_agent_instances with their subagents, or NoInstance
    request,       \* what each request is doing
    begun,         \* how many requests have begun
    crossed        \* history: two requests that set the default overlapped, and no
                   \* request that overlapped with none has set it since

instanceVars == <<instance, request, begun, crossed>>

InstanceRow == [name : InstanceNames, default : BOOLEAN, deep : BOOLEAN, active : BOOLEAN,
                subagents : SUBSET Instances]

ASSUME AgentInstancesAssumption == NoInstance \notin InstanceRow /\ MaxRequests \in Nat

\* A request: its place, its row and that row as it was loaded, the row wanted (NoInstance:
\* delete it), whether it makes its row the default, the default rows its UPDATE saw, those
\* it has written, and whether no other request cleared or set a default meanwhile.
RequestPlaces == {"idle", "prepare", "clear", "save"}
Request == [pc : RequestPlaces, id : Instances \union {NoInstance},
            loaded : InstanceRow \union {NoInstance}, wanted : InstanceRow \union {NoInstance},
            sets : BOOLEAN, seen : SUBSET Instances, locks : SUBSET Instances, alone : BOOLEAN]
NoRequest == [pc |-> "idle", id |-> NoInstance, loaded |-> NoInstance, wanted |-> NoInstance,
              sets |-> FALSE, seen |-> {}, locks |-> {}, alone |-> TRUE]

InstancesTypeOK ==
    /\ instance \in [Instances -> InstanceRow \union {NoInstance}]
    /\ request \in [Requests -> Request]
    /\ begun \in 0..MaxRequests
    /\ crossed \in BOOLEAN

InstancesInit ==
    /\ instance = [i \in Instances |-> NoInstance]
    /\ request = [q \in Requests |-> NoRequest]
    /\ begun = 0
    /\ crossed = FALSE

Existing == {i \in Instances : instance[i] # NoInstance}
Defaults == {i \in Existing : instance[i].default}
Setting(q) == request[q].sets /\ request[q].pc \in {"clear", "save"}
Locked(q) == UNION {request[p].locks : p \in Requests \ {q}}

StartRequest(q) ==
    /\ request[q].pc = "idle"
    /\ begun < MaxRequests
    /\ begun' = begun + 1
    /\ UNCHANGED <<instance, crossed>>

\* create_instance up to the subagents: the name must be free, and the subagents, which
\* only a deep agent is given, must be there.
CreateInstance(q) ==
    /\ StartRequest(q)
    /\ \E i \in Instances \ Existing, name \in InstanceNames, default, deep \in BOOLEAN :
       \E subagents \in SUBSET Existing :
          /\ \A p \in Requests : request[p].id # i
          /\ \A j \in Existing : instance[j].name # name
          /\ deep \/ subagents = {}
          /\ request' = [request EXCEPT ![q] =
                [NoRequest EXCEPT !.pc = IF default THEN "prepare" ELSE "save", !.id = i,
                    !.wanted = [name |-> name, default |-> default, deep |-> deep,
                                active |-> TRUE, subagents |-> subagents],
                    !.sets = default]]

\* Mutant of UpdateInstance: the other defaults are left.
UpdateInstanceKeepsDefaults(q) ==
    /\ StartRequest(q)
    /\ \E i \in Existing :
          request' = [request EXCEPT ![q] =
                [NoRequest EXCEPT !.pc = "save", !.id = i, !.loaded = instance[i],
                    !.wanted = [instance[i] EXCEPT !.default = TRUE], !.sets = TRUE]]

\* update_instance: fields that are None are left; an empty list of subagents is left too;
\* a row that was loaded as the default clears nothing.
UpdateInstance(q) ==
    /\ StartRequest(q)
    /\ \E i \in Existing, default, deep, active \in BOOLEAN, given \in SUBSET Existing :
          LET row == instance[i]
              sets == default /\ ~row.default
          IN /\ given # {} => deep
             /\ request' = [request EXCEPT ![q] =
                  [NoRequest EXCEPT !.pc = IF sets THEN "prepare" ELSE "save", !.id = i,
                      !.loaded = row,
                      !.wanted = [row EXCEPT !.default = default, !.deep = deep,
                                    !.active = active,
                                    !.subagents = IF given = {} THEN row.subagents ELSE given],
                      !.sets = sets]]

DeleteInstance(q) ==
    /\ StartRequest(q)
    /\ \E i \in Existing :
          request' = [request EXCEPT ![q] = [NoRequest EXCEPT !.pc = "save", !.id = i,
                                                !.loaded = instance[i]]]

\* _clear_user_defaults: the UPDATE begins and sees the defaults of the moment, ...
BeginClear(q) ==
    /\ request[q].pc = "prepare"
    /\ LET others == {p \in Requests \ {q} : Setting(p)}
       IN request' = [p \in Requests |->
            IF p = q THEN [request[q] EXCEPT !.pc = "clear", !.seen = Defaults,
                                             !.alone = others = {}]
            ELSE IF p \in others THEN [request[p] EXCEPT !.alone = FALSE]
            ELSE request[p]]
    /\ UNCHANGED <<instance, begun, crossed>>

\* ... and writes those that still are when no other transaction holds them.
ClearUserDefaults(q) ==
    /\ request[q].pc = "clear"
    /\ request[q].seen \intersect Locked(q) = {}
    /\ request' = [request EXCEPT ![q].pc = "save",
                                  ![q].locks = request[q].seen \intersect Defaults]
    /\ UNCHANGED <<instance, begun, crossed>>

\* The rows after q: the defaults it cleared, then the columns of its own row it changed,
\* and, when a row goes, its place among the subagents of others.
Saved(q) ==
    LET f == request[q]
        cleared == [i \in Instances |->
                      IF i \in f.locks THEN [instance[i] EXCEPT !.default = FALSE]
                      ELSE instance[i]]
        own == IF f.loaded = NoInstance \/ f.wanted = NoInstance THEN f.wanted
               ELSE [c \in DOMAIN f.wanted |->
                       IF f.wanted[c] # f.loaded[c] THEN f.wanted[c]
                       ELSE cleared[f.id][c]]
    IN [i \in Instances |->
          IF i = f.id THEN own
          ELSE IF f.wanted = NoInstance /\ cleared[i] # NoInstance
               THEN [cleared[i] EXCEPT !.subagents = @ \ {f.id}]
               ELSE cleared[i]]

\* The constraints: the row is still there, its name is free, its subagents exist.
Allowed(q) ==
    LET f == request[q]
    IN /\ f.loaded # NoInstance => f.id \in Existing
       /\ f.wanted # NoInstance =>
             /\ \A j \in Existing \ {f.id} : instance[j].name # f.wanted.name
             /\ f.wanted.subagents \subseteq Existing \union {f.id}

CommitRequest(q) ==
    /\ request[q].pc = "save"
    /\ request[q].id \notin Locked(q)
    /\ Allowed(q)
    /\ instance' = Saved(q)
    /\ request' = [request EXCEPT ![q] = NoRequest]
    /\ crossed' = IF request[q].sets THEN ~request[q].alone ELSE crossed
    /\ UNCHANGED begun

\* A constraint refuses the commit, a deadlock is broken or the connection is lost: the
\* transaction is rolled back.
Rollback(q) ==
    /\ request[q].pc # "idle"
    /\ request' = [request EXCEPT ![q] = NoRequest]
    /\ UNCHANGED <<instance, begun, crossed>>

InstancesNext ==
    \E q \in Requests :
        \/ CreateInstance(q) \/ UpdateInstance(q) \/ DeleteInstance(q)
        \/ BeginClear(q) \/ ClearUserDefaults(q) \/ CommitRequest(q) \/ Rollback(q)

InstancesSpec == InstancesInit /\ [][InstancesNext]_instanceVars

-----------------------------------------------------------------------------
(* Properties.                                                             *)

\* A user has at most one default agent, whatever is created, changed, deleted or rolled
\* back, unless two requests that set it overlapped (the UPDATE of _clear_user_defaults
\* cannot see the row the other is about to make the default); the next request that sets
\* it alone repairs that.
OneDefault == Cardinality(Defaults) > 1 => crossed
=============================================================================
