--------------------------- MODULE ServicesProofs ---------------------------
(* Proofs about the services: agent instances, agent memory, snapshots, e-mail, usage       *)
(* logging, the event loops of the workers, the layers of the LLM configuration, the vector *)
(* store and the agents' settings.  Each part has one inductive invariant, named after its  *)
(* module (MemoryIInv, UsageIInv, ...), and one or two theorems.                            *)
EXTENDS AgentInstances, AgentMemory, AgentSettings, ConfigLayers, EmailSending, EventLoops,
        SnapshotReplay, UsagePricing, VectorStore, FiniteSetTheorems, TLAPS
-----------------------------------------------------------------------------
(* AgentInstances.                                                         *)

\* What a request is about to do to its row's default flag, and what it has written.
RequestOK(q) ==
    /\ request[q].pc \in {"prepare", "clear"} => request[q].sets
    /\ request[q].sets \/ request[q].locks = {}
    /\ request[q].locks \subseteq Existing
    /\ ~request[q].sets /\ request[q].wanted # NoInstance =>
          IF request[q].loaded = NoInstance THEN ~request[q].wanted.default
          ELSE request[q].wanted.default => request[q].loaded.default

\* A request that sets the default and has met no other that does: there is none, and it has
\* seen, or cleared, every default there is.
AloneOK(q) ==
    Setting(q) /\ request[q].alone =>
        /\ \A p \in Requests \ {q} : ~Setting(p)
        /\ Defaults \subseteq IF request[q].pc = "clear" THEN request[q].seen
                              ELSE request[q].locks

\* At most one instance is the default, the claim for a user whose requests have not crossed.
AtMostOneDefault == \A i, j \in Defaults : i = j

\* The inductive invariant of AgentInstances.
InstancesIInv ==
    /\ InstancesTypeOK
    /\ \A q \in Requests : RequestOK(q) /\ AloneOK(q)
    /\ crossed \/ AtMostOneDefault

RowOrNone == InstanceRow \union {NoInstance}

\* A function of the columns is a row when each of its columns is one's.
LEMMA ColumnsMakeRow ==
    ASSUME NEW a \in InstanceRow, NEW b \in InstanceRow, NEW c \in InstanceRow,
           NEW row, row = [x \in DOMAIN a |-> IF a[x] # b[x] THEN a[x] ELSE c[x]]
    PROVE  /\ row \in InstanceRow
           /\ row.default = IF a.default # b.default THEN a.default ELSE c.default
<1>1. DOMAIN a = {"name", "default", "deep", "active", "subagents"}
  BY DEF InstanceRow
<1>2. row = [name |-> row.name, default |-> row.default, deep |-> row.deep,
             active |-> row.active, subagents |-> row.subagents]
  BY <1>1
<1>3. /\ row.name \in {a.name, c.name} /\ row.deep \in {a.deep, c.deep}
      /\ row.active \in {a.active, c.active} /\ row.subagents \in {a.subagents, c.subagents}
      /\ row.default = IF a.default # b.default THEN a.default ELSE c.default
  BY <1>1
<1>4. QED
  BY <1>2, <1>3 DEF InstanceRow

\* What a commit makes of the rows: a request that does not set the default adds none, one
\* that does and was alone leaves its own row as the only one, and every other row stays.
LEMMA CommitEffect ==
    ASSUME InstancesIInv, NEW q \in Requests, CommitRequest(q)
    PROVE  /\ instance' \in [Instances -> RowOrNone]
           /\ ~request[q].sets => Defaults' \subseteq Defaults
           /\ request[q].sets /\ request[q].alone => Defaults' \subseteq {request[q].id}
           /\ \A i \in Existing : i # request[q].id => i \in Existing'
<1> DEFINE f == request[q]
           cleared == [i \in Instances |->
                         IF i \in f.locks THEN [instance[i] EXCEPT !.default = FALSE]
                         ELSE instance[i]]
           own == IF f.loaded = NoInstance \/ f.wanted = NoInstance THEN f.wanted
                  ELSE [c \in DOMAIN f.wanted |->
                          IF f.wanted[c] # f.loaded[c] THEN f.wanted[c]
                          ELSE cleared[f.id][c]]
<1>1. /\ f \in Request /\ f.pc = "save" /\ Allowed(q) /\ instance \in [Instances -> RowOrNone]
      /\ RequestOK(q) /\ AloneOK(q)
  BY DEF InstancesIInv, InstancesTypeOK, CommitRequest, RowOrNone
<1>2. instance' = [i \in Instances |->
          IF i = f.id THEN own
          ELSE IF f.wanted = NoInstance /\ cleared[i] # NoInstance
               THEN [cleared[i] EXCEPT !.subagents = @ \ {f.id}]
               ELSE cleared[i]]
  BY DEF CommitRequest, Saved
<1>3. ASSUME NEW i \in Instances
      PROVE  /\ cleared[i] \in RowOrNone
             /\ cleared[i] = NoInstance <=> instance[i] = NoInstance
             /\ cleared[i] # NoInstance =>
                   cleared[i].default = (instance[i].default /\ i \notin f.locks)
  <2>1. CASE i \in f.locks
    <3>1. instance[i] \in InstanceRow
      BY <1>1, <2>1 DEF RequestOK, Existing, RowOrNone
    <3>2. [instance[i] EXCEPT !.default = FALSE] \in InstanceRow
      BY <3>1 DEF InstanceRow
    <3>3. cleared[i] = [instance[i] EXCEPT !.default = FALSE] /\ cleared[i].default = FALSE
      BY <2>1, <3>1 DEF InstanceRow
    <3> HIDE DEF cleared
    <3>4. QED
      BY <2>1, <3>1, <3>2, <3>3, AgentInstancesAssumption DEF RowOrNone
  <2>2. CASE i \notin f.locks
    <3>1. cleared[i] = instance[i] /\ instance[i] \in RowOrNone
      BY <1>1, <2>2
    <3>2. instance[i] # NoInstance => instance[i].default \in BOOLEAN
      BY <3>1 DEF RowOrNone, InstanceRow
    <3> HIDE DEF cleared
    <3>3. QED
      BY <2>2, <3>1, <3>2
  <2>3. QED
    BY <2>1, <2>2
<1>4. f.loaded \in RowOrNone /\ f.wanted \in RowOrNone
  BY <1>1 DEF Request, RowOrNone
<1>5. /\ own \in RowOrNone
      /\ own # NoInstance /\ own.default /\ ~f.sets => f.id \in Defaults
  <2>1. CASE f.loaded = NoInstance \/ f.wanted = NoInstance
    <3>1. own = f.wanted
      BY <2>1
    <3>2. own # NoInstance /\ ~f.sets => ~own.default
      BY <3>1, <1>1, <2>1 DEF RequestOK
    <3> HIDE DEF own
    <3>3. QED
      BY <3>1, <3>2, <1>4
  <2>2. CASE f.loaded # NoInstance /\ f.wanted # NoInstance
    <3>1. f.id \in Existing /\ f.id \in Instances /\ instance[f.id] # NoInstance
      BY <1>1, <2>2 DEF Allowed, Existing
    <3>2. /\ f.wanted \in InstanceRow /\ f.loaded \in InstanceRow
          /\ cleared[f.id] \in InstanceRow
      BY <1>3, <1>4, <2>2, <3>1 DEF RowOrNone
    <3>3. own = [c \in DOMAIN f.wanted |-> IF f.wanted[c] # f.loaded[c] THEN f.wanted[c]
                                          ELSE cleared[f.id][c]]
      BY <2>2
    <3>4. cleared[f.id].default => instance[f.id].default
      BY <1>3, <3>1, <3>2
    <3> HIDE DEF own, cleared
    <3>5. /\ own \in InstanceRow
          /\ own.default = IF f.wanted.default # f.loaded.default THEN f.wanted.default
                           ELSE cleared[f.id].default
      BY <3>2, <3>3, ColumnsMakeRow, SMTT(30)
    <3>6. ~f.sets => (f.wanted.default => f.loaded.default)
      BY <1>1, <2>2 DEF RequestOK
    <3>7. f.wanted.default \in BOOLEAN /\ f.loaded.default \in BOOLEAN
      BY <3>2 DEF InstanceRow
    <3>8. QED
      BY <3>1, <3>4, <3>5, <3>6, <3>7 DEF Defaults, RowOrNone
  <2>3. QED
    BY <2>1, <2>2
<1>6. ASSUME NEW i \in Instances, i # f.id
      PROVE  /\ instance'[i] \in RowOrNone
             /\ instance'[i] = NoInstance <=> instance[i] = NoInstance
             /\ instance'[i] # NoInstance =>
                   instance'[i].default = (instance[i].default /\ i \notin f.locks)
  <2>1. CASE f.wanted = NoInstance /\ cleared[i] # NoInstance
    <3>1. instance'[i] = [cleared[i] EXCEPT !.subagents = @ \ {f.id}]
      BY <1>2, <1>6, <2>1
    <3>2. cleared[i] \in InstanceRow
      BY <1>3, <2>1 DEF RowOrNone
    <3>3. instance[i] # NoInstance
      BY <1>3, <2>1
    <3>4. cleared[i].default = (instance[i].default /\ i \notin f.locks)
      BY <1>3, <2>1
    <3> HIDE DEF cleared, own
    <3>5. instance'[i] \in InstanceRow /\ instance'[i].default = cleared[i].default
      BY <3>1, <3>2 DEF InstanceRow
    <3>6. QED
      BY <3>3, <3>4, <3>5, AgentInstancesAssumption DEF RowOrNone
  <2>2. CASE ~(f.wanted = NoInstance /\ cleared[i] # NoInstance)
    <3>1. instance'[i] = cleared[i]
      BY <1>2, <1>6, <2>2
    <3> HIDE DEF cleared, own
    <3>2. QED
      BY <3>1, <1>3
  <2>3. QED
    BY <2>1, <2>2
<1>7. f.id \in Instances => instance'[f.id] = own
  BY <1>2
<1>8. instance' \in [Instances -> RowOrNone]
  <2>1. DOMAIN instance' = Instances /\ instance' = [i \in Instances |-> instance'[i]]
    BY <1>2
  <2> HIDE DEF own, cleared
  <2>2. \A i \in Instances : instance'[i] \in RowOrNone
    BY <1>5, <1>6, <1>7
  <2>3. QED
    BY <2>1, <2>2
<1> HIDE DEF own, cleared
<1>9. \A i \in Defaults' : i # f.id => i \in Defaults /\ i \notin f.locks
  BY <1>6 DEF Defaults, Existing
<1>10. f.id \in Defaults' /\ ~f.sets => f.id \in Defaults
  BY <1>5, <1>7 DEF Defaults, Existing
<1>11. ~f.sets => Defaults' \subseteq Defaults
  BY <1>9, <1>10
<1>12. f.sets /\ f.alone => Defaults' \subseteq {f.id}
  BY <1>1, <1>9 DEF AloneOK, Setting
<1>13. \A i \in Existing : i # f.id => i \in Existing'
  BY <1>6 DEF Existing
<1>14. QED
  BY <1>8, <1>11, <1>12, <1>13

\* A request that begins or is rolled back: it holds nothing, and if it is to set the default
\* it has not begun to clear.
LEMMA RequestBegins ==
    ASSUME InstancesIInv, NEW q \in Requests, NEW r \in Request,
           request' = [request EXCEPT ![q] = r], UNCHANGED <<instance, crossed>>,
           begun' \in 0..MaxRequests, r.locks = {}, r.pc \in {"idle", "prepare", "save"},
           r.pc = "prepare" <=> r.sets,
           ~r.sets /\ r.wanted # NoInstance => IF r.loaded = NoInstance THEN ~r.wanted.default
                                               ELSE r.wanted.default => r.loaded.default
    PROVE  InstancesIInv'
<1>1. InstancesTypeOK'
  BY DEF InstancesIInv, InstancesTypeOK
<1>2. UNCHANGED <<Existing, Defaults>>
  BY DEF Existing, Defaults
<1>3. request'[q] = r /\ \A p \in Requests \ {q} : request'[p] = request[p]
  BY DEF InstancesIInv, InstancesTypeOK
<1>4. ASSUME NEW p \in Requests PROVE RequestOK(p)'
  BY <1>2, <1>3 DEF InstancesIInv, RequestOK
<1>5. ~Setting(q)' /\ \A p \in Requests \ {q} : Setting(p)' = Setting(p)
  BY <1>3 DEF Setting
<1>6. ASSUME NEW p \in Requests PROVE AloneOK(p)'
  BY <1>2, <1>3, <1>5 DEF InstancesIInv, AloneOK
<1>7. QED
  BY <1>1, <1>2, <1>4, <1>6 DEF InstancesIInv, AtMostOneDefault

\* Every step of a request, commits included, keeps at most one default.
LEMMA InstancesStep == InstancesIInv /\ [InstancesNext]_instanceVars => InstancesIInv'
<1> SUFFICES ASSUME InstancesIInv, [InstancesNext]_instanceVars PROVE InstancesIInv'
  OBVIOUS
<1>0. /\ instance \in [Instances -> RowOrNone] /\ request \in [Requests -> Request]
      /\ begun \in 0..MaxRequests /\ crossed \in BOOLEAN
  BY DEF InstancesIInv, InstancesTypeOK, RowOrNone
<1>1. CASE UNCHANGED instanceVars
  BY <1>1 DEF instanceVars, InstancesIInv, InstancesTypeOK, RequestOK, AloneOK, AtMostOneDefault,
     Existing, Defaults, Setting
<1>2. CASE InstancesNext
  <2>P. PICK q \in Requests : \/ CreateInstance(q) \/ UpdateInstance(q) \/ DeleteInstance(q)
                              \/ BeginClear(q) \/ ClearUserDefaults(q) \/ CommitRequest(q)
                              \/ Rollback(q)
    BY <1>2 DEF InstancesNext
  <2>0. request[q] \in Request /\ RequestOK(q) /\ AloneOK(q)
    BY <1>0 DEF InstancesIInv
  <2>B. StartRequest(q) => begun' \in 0..MaxRequests /\ UNCHANGED <<instance, crossed>>
    BY <1>0, AgentInstancesAssumption DEF StartRequest
  <2>N. NoRequest \in Request
    BY DEF NoRequest, Request, RequestPlaces
  <2>1. CASE CreateInstance(q)
    <3>1. PICK i \in Instances \ Existing, name \in InstanceNames, default, deep \in BOOLEAN :
          \E subagents \in SUBSET Existing :
          /\ \A p \in Requests : request[p].id # i
          /\ \A j \in Existing : instance[j].name # name
          /\ deep \/ subagents = {}
          /\ request' = [request EXCEPT ![q] =
                [NoRequest EXCEPT !.pc = IF default THEN "prepare" ELSE "save", !.id = i,
                    !.wanted = [name |-> name, default |-> default, deep |-> deep,
                                active |-> TRUE, subagents |-> subagents],
                    !.sets = default]]
      BY <2>1 DEF CreateInstance
    <3>2. PICK subagents \in SUBSET Existing :
            request' = [request EXCEPT ![q] =
                [NoRequest EXCEPT !.pc = IF default THEN "prepare" ELSE "save", !.id = i,
                    !.wanted = [name |-> name, default |-> default, deep |-> deep,
                                active |-> TRUE, subagents |-> subagents],
                    !.sets = default]]
      BY <3>1
    <3> DEFINE row == [name |-> name, default |-> default, deep |-> deep,
                       active |-> TRUE, subagents |-> subagents]
               r == [NoRequest EXCEPT !.pc = IF default THEN "prepare" ELSE "save", !.id = i,
                        !.wanted = row, !.sets = default]
    <3>3. row \in InstanceRow /\ row.default = default
      BY DEF InstanceRow, Existing
    <3>4. request' = [request EXCEPT ![q] = r]
      BY <3>2
    <3> HIDE DEF row
    <3>5. r \in Request
      BY <3>3, <2>N DEF NoRequest, Request, RequestPlaces
    <3>6. /\ r.pc = (IF default THEN "prepare" ELSE "save") /\ r.sets = default /\ r.locks = {}
          /\ r.wanted = row /\ r.loaded = NoInstance
      BY DEF NoRequest
    <3>7. StartRequest(q)
      BY <2>1 DEF CreateInstance
    <3> HIDE DEF r
    <3>8. QED
      BY <3>3, <3>4, <3>5, <3>6, <3>7, <2>B, RequestBegins
  <2>2. CASE UpdateInstance(q)
    <3>1. PICK i \in Existing, default, deep, active \in BOOLEAN, given \in SUBSET Existing :
          LET row == instance[i]
              sets == default /\ ~row.default
          IN /\ given # {} => deep
             /\ request' = [request EXCEPT ![q] =
                  [NoRequest EXCEPT !.pc = IF sets THEN "prepare" ELSE "save", !.id = i,
                      !.loaded = row,
                      !.wanted = [row EXCEPT !.default = default, !.deep = deep,
                                    !.active = active,
                                    !.subagents = IF given = {} THEN row.subagents ELSE given],
                      !.sets = sets]]
      BY <2>2 DEF UpdateInstance
    <3> DEFINE sets == default /\ ~instance[i].default
               row == [instance[i] EXCEPT !.default = default, !.deep = deep, !.active = active,
                           !.subagents = IF given = {} THEN instance[i].subagents ELSE given]
               r == [NoRequest EXCEPT !.pc = IF sets THEN "prepare" ELSE "save", !.id = i,
                        !.loaded = instance[i], !.wanted = row, !.sets = sets]
    <3>2. instance[i] \in InstanceRow /\ i \in Instances /\ given \subseteq Instances
      BY <1>0 DEF Existing, RowOrNone
    <3>3. row \in InstanceRow /\ row.default = default
      BY <3>2 DEF InstanceRow
    <3>4. request' = [request EXCEPT ![q] = r]
      BY <3>1
    <3>5. sets \in BOOLEAN /\ (sets <=> default /\ ~instance[i].default)
      OBVIOUS
    <3> HIDE DEF row, sets
    <3>6. r \in Request
      BY <3>2, <3>3, <3>5, <2>N DEF NoRequest, Request, RequestPlaces
    <3>7. /\ r.pc = (IF sets THEN "prepare" ELSE "save") /\ r.sets = sets /\ r.locks = {}
          /\ r.wanted = row /\ r.loaded = instance[i]
      BY DEF NoRequest
    <3>8. StartRequest(q)
      BY <2>2 DEF UpdateInstance
    <3>9. instance[i] # NoInstance
      BY DEF Existing
    <3> HIDE DEF r
    <3>10. QED
      BY <3>3, <3>4, <3>5, <3>6, <3>7, <3>8, <3>9, <2>B, RequestBegins
  <2>3. CASE DeleteInstance(q)
    <3>1. PICK i \in Existing :
            request' = [request EXCEPT ![q] = [NoRequest EXCEPT !.pc = "save", !.id = i,
                                                !.loaded = instance[i]]]
      BY <2>3 DEF DeleteInstance
    <3> DEFINE r == [NoRequest EXCEPT !.pc = "save", !.id = i, !.loaded = instance[i]]
    <3>2. instance[i] \in InstanceRow /\ i \in Instances
      BY <1>0 DEF Existing, RowOrNone
    <3>3. r \in Request
      BY <3>2, <2>N DEF NoRequest, Request, RequestPlaces
    <3>4. r.pc = "save" /\ r.sets = FALSE /\ r.locks = {} /\ r.wanted = NoInstance
      BY DEF NoRequest
    <3>5. StartRequest(q) /\ request' = [request EXCEPT ![q] = r]
      BY <2>3, <3>1 DEF DeleteInstance
    <3> HIDE DEF r
    <3>6. QED
      BY <3>3, <3>4, <3>5, <2>B, RequestBegins
  <2>4. CASE BeginClear(q)
    <3> DEFINE others == {p \in Requests \ {q} : Setting(p)}
    <3>1. /\ request[q].pc = "prepare" /\ UNCHANGED <<instance, begun, crossed>>
          /\ request' = [p \in Requests |->
                IF p = q THEN [request[q] EXCEPT !.pc = "clear", !.seen = Defaults,
                                                 !.alone = others = {}]
                ELSE IF p \in others THEN [request[p] EXCEPT !.alone = FALSE]
                ELSE request[p]]
      BY <2>4 DEF BeginClear
    <3>2. UNCHANGED <<Existing, Defaults>> /\ Defaults \subseteq Instances
      BY <3>1 DEF Existing, Defaults
    <3>3. /\ request'[q] \in Request /\ request'[q].pc = "clear" /\ request'[q].seen = Defaults
          /\ request'[q].alone = (others = {}) /\ request'[q].sets = request[q].sets
          /\ request'[q].locks = request[q].locks /\ request'[q].wanted = request[q].wanted
          /\ request'[q].loaded = request[q].loaded
      BY <2>0, <3>1, <3>2 DEF Request, RequestPlaces
    <3>4. ASSUME NEW p \in Requests, p # q
          PROVE  /\ request'[p] \in Request /\ request'[p].pc = request[p].pc
                 /\ request'[p].seen = request[p].seen /\ request'[p].sets = request[p].sets
                 /\ request'[p].locks = request[p].locks /\ request'[p].wanted = request[p].wanted
                 /\ request'[p].loaded = request[p].loaded
                 /\ request'[p].alone = (request[p].alone /\ ~Setting(p))
                    \/ (~Setting(p) /\ request'[p].alone = request[p].alone)
      <4>1. request[p] \in Request
        BY <1>0
      <4>2. CASE Setting(p)
        BY <4>1, <4>2, <3>1, <3>4 DEF Request
      <4>3. CASE ~Setting(p)
        BY <4>1, <4>3, <3>1, <3>4
      <4>4. QED
        BY <4>2, <4>3
    <3>5. DOMAIN request' = Requests
      BY <3>1
    <3>6. Setting(q)' /\ \A p \in Requests \ {q} : Setting(p)' = Setting(p)
      BY <3>1, <3>3, <3>4, <2>0, ZenonT(60) DEF Setting, RequestOK
    <3>7. others = {} => \A p \in Requests \ {q} : ~Setting(p)
      OBVIOUS
    <3>8. request' = [p \in Requests |-> request'[p]]
      BY <3>1
    <3> HIDE DEF others
    <3>9. InstancesTypeOK'
      BY <1>0, <3>1, <3>3, <3>4, <3>8 DEF InstancesTypeOK, RowOrNone
    <3>10. ASSUME NEW p \in Requests PROVE RequestOK(p)'
      <4>1. CASE p = q
        BY <4>1, <2>0, <3>1, <3>2, <3>3 DEF RequestOK
      <4>2. CASE p # q
        BY <4>2, <3>2, <3>4 DEF RequestOK, InstancesIInv
      <4>3. QED
        BY <4>1, <4>2
    <3>11. ASSUME NEW p \in Requests PROVE AloneOK(p)'
      <4>1. CASE p = q
        BY <4>1, <3>2, <3>3, <3>6, <3>7 DEF AloneOK
      <4>2. CASE p # q
        BY <4>2, <3>4, <3>6 DEF AloneOK
      <4>3. QED
        BY <4>1, <4>2
    <3>12. QED
      BY <3>1, <3>2, <3>9, <3>10, <3>11 DEF InstancesIInv, AtMostOneDefault
  <2>5. CASE ClearUserDefaults(q)
    <3>1. /\ request[q].pc = "clear" /\ UNCHANGED <<instance, begun, crossed>>
          /\ request' = [request EXCEPT ![q].pc = "save",
                                        ![q].locks = request[q].seen \intersect Defaults]
      BY <2>5 DEF ClearUserDefaults
    <3>2. UNCHANGED <<Existing, Defaults>> /\ Defaults \subseteq Existing
          /\ Existing \subseteq Instances
      BY <3>1 DEF Existing, Defaults
    <3>3. /\ request'[q] \in Request /\ request'[q].pc = "save"
          /\ request'[q].locks = request[q].seen \intersect Defaults
          /\ request'[q].alone = request[q].alone /\ request'[q].sets = request[q].sets
          /\ request'[q].wanted = request[q].wanted /\ request'[q].loaded = request[q].loaded
      BY <1>0, <2>0, <3>1, <3>2 DEF Request, RequestPlaces
    <3>4. \A p \in Requests \ {q} : request'[p] = request[p]
      BY <1>0, <3>1
    <3>5. request' \in [Requests -> Request]
      BY <1>0, <3>1, <3>3
    <3>6. \A p \in Requests : Setting(p)' = Setting(p)
      BY <3>1, <3>3, <3>4 DEF Setting
    <3>7. InstancesTypeOK'
      BY <1>0, <3>1, <3>5 DEF InstancesTypeOK, RowOrNone
    <3>8. ASSUME NEW p \in Requests PROVE RequestOK(p)'
      <4>1. CASE p = q
        BY <4>1, <2>0, <3>1, <3>2, <3>3 DEF RequestOK
      <4>2. CASE p # q
        BY <4>2, <3>2, <3>4 DEF RequestOK, InstancesIInv
      <4>3. QED
        BY <4>1, <4>2
    <3>9. ASSUME NEW p \in Requests PROVE AloneOK(p)'
      <4>1. CASE p = q
        BY <4>1, <2>0, <3>1, <3>2, <3>3, <3>6 DEF AloneOK
      <4>2. CASE p # q
        BY <4>2, <3>2, <3>4, <3>6 DEF AloneOK, InstancesIInv
      <4>3. QED
        BY <4>1, <4>2
    <3>10. QED
      BY <3>1, <3>2, <3>7, <3>8, <3>9 DEF InstancesIInv, AtMostOneDefault
  <2>6. CASE CommitRequest(q)
    <3>1. /\ instance' \in [Instances -> RowOrNone]
          /\ ~request[q].sets => Defaults' \subseteq Defaults
          /\ request[q].sets /\ request[q].alone => Defaults' \subseteq {request[q].id}
          /\ \A i \in Existing : i # request[q].id => i \in Existing'
      BY <2>6, CommitEffect
    <3>2. /\ request[q].pc = "save" /\ request[q].id \notin Locked(q)
          /\ request' = [request EXCEPT ![q] = NoRequest] /\ UNCHANGED begun
          /\ crossed' = IF request[q].sets THEN ~request[q].alone ELSE crossed
      BY <2>6 DEF CommitRequest
    <3>3. request'[q] = NoRequest /\ \A p \in Requests \ {q} : request'[p] = request[p]
      BY <1>0, <3>2
    <3>4. ~Setting(q)' /\ \A p \in Requests \ {q} : Setting(p)' = Setting(p)
      BY <3>3 DEF Setting, NoRequest
    <3>5. InstancesTypeOK'
      <4>1. crossed' \in BOOLEAN
        BY <1>0, <2>0, <3>2 DEF Request
      <4>2. QED
        BY <1>0, <2>N, <3>1, <3>2, <4>1 DEF InstancesTypeOK, RowOrNone
    <3>6. ASSUME NEW p \in Requests PROVE RequestOK(p)'
      <4>1. CASE p = q
        BY <4>1, <3>3 DEF RequestOK, NoRequest
      <4>2. CASE p # q
        <5>1. request[p].locks \subseteq Existing /\ request[q].id \notin request[p].locks
          BY <4>2, <3>2 DEF Locked, InstancesIInv, RequestOK
        <5>2. request[p].locks \subseteq Existing'
          BY <5>1, <3>1
        <5>3. QED
          BY <4>2, <5>2, <3>3 DEF RequestOK, InstancesIInv
      <4>3. QED
        BY <4>1, <4>2
    <3>7. ASSUME NEW p \in Requests PROVE AloneOK(p)'
      <4> SUFFICES ASSUME Setting(p)', request'[p].alone PROVE AloneOK(p)'
        BY DEF AloneOK
      <4>1. p # q /\ Setting(p) /\ request'[p] = request[p]
        BY <3>3, <3>4
      <4>2. AloneOK(p) /\ request[p].alone
        BY <4>1 DEF InstancesIInv
      <4>3. ~Setting(q)
        BY <4>1, <4>2 DEF AloneOK
      <4>4. ~request[q].sets
        BY <4>3, <3>2 DEF Setting
      <4>5. Defaults' \subseteq Defaults
        BY <4>4, <3>1
      <4>6. QED
        BY <4>1, <4>2, <4>5, <3>4 DEF AloneOK
    <3>8. crossed' \/ AtMostOneDefault'
      <4>1. CASE request[q].sets
        BY <4>1, <3>1, <3>2 DEF AtMostOneDefault
      <4>2. CASE ~request[q].sets
        BY <4>2, <3>1, <3>2 DEF AtMostOneDefault, InstancesIInv
      <4>3. QED
        BY <4>1, <4>2
    <3>9. QED
      BY <3>5, <3>6, <3>7, <3>8 DEF InstancesIInv
  <2>7. CASE Rollback(q)
    <3>1. /\ NoRequest.pc = "idle" /\ NoRequest.sets = FALSE /\ NoRequest.locks = {}
          /\ NoRequest.wanted = NoInstance
      BY DEF NoRequest
    <3>2. begun' \in 0..MaxRequests
      BY <1>0, <2>7 DEF Rollback
    <3>3. QED
      BY <2>7, <2>N, <3>1, <3>2, RequestBegins DEF Rollback
  <2>8. QED
    BY <2>P, <2>1, <2>2, <2>3, <2>4, <2>5, <2>6, <2>7
<1>3. QED
  BY <1>1, <1>2

\* For any number of instances and of requests in progress, and whatever is created, changed,
\* deleted and rolled back between the statements of a transaction: a user has two default
\* agents only after two requests that set the default overlapped.
THEOREM DefaultIsUnique == InstancesSpec => []OneDefault
<1>1. InstancesInit => InstancesIInv
  <2> SUFFICES ASSUME InstancesInit PROVE InstancesIInv
    OBVIOUS
  <2>1. InstancesTypeOK
    <3>1. NoRequest \in Request
      BY DEF NoRequest, Request, RequestPlaces
    <3>2. instance \in [Instances -> RowOrNone] /\ request \in [Requests -> Request]
      BY <3>1 DEF InstancesInit, RowOrNone
    <3>3. begun \in 0..MaxRequests
      BY AgentInstancesAssumption DEF InstancesInit
    <3>4. crossed \in BOOLEAN
      BY DEF InstancesInit
    <3>5. QED
      BY <3>2, <3>3, <3>4 DEF InstancesTypeOK, RowOrNone
  <2>2. Existing = {} /\ Defaults = {}
    BY DEF InstancesInit, Existing, Defaults
  <2>3. \A q \in Requests : RequestOK(q) /\ AloneOK(q)
    BY <2>2 DEF InstancesInit, NoRequest, RequestOK, AloneOK, Setting
  <2>4. QED
    BY <2>1, <2>2, <2>3 DEF InstancesIInv, AtMostOneDefault
<1>2. InstancesIInv => OneDefault
  <2> SUFFICES ASSUME AtMostOneDefault PROVE ~(Cardinality(Defaults) > 1)
    BY DEF InstancesIInv, OneDefault
  <2>1. CASE Defaults = {}
    BY <2>1, FS_EmptySet
  <2>2. ASSUME NEW i \in Defaults PROVE Cardinality(Defaults) = 1
    <3>1. Defaults = {i}
      BY <2>2 DEF AtMostOneDefault
    <3>2. QED
      BY <3>1, FS_Singleton
  <2>3. QED
    BY <2>1, <2>2
<1>3. QED
  BY <1>1, <1>2, InstancesStep, PTL DEF InstancesSpec

-----------------------------------------------------------------------------
(* AgentMemory.                                                            *)

\* Revisions are numbered by the saves, and a revision is never in two places: not in the
\* store, and not in the store and in a listing made when it was elsewhere.
Numbered ==
    /\ saves \in Nat
    /\ Revisions(memories \union listing) \subseteq 1..saves
    /\ forgotten \subseteq 1..saves
    /\ \A m, n \in memories \union listing : m.revision = n.revision => m.at = n.at

\* What a purge found when it began is in the categories it goes through, if it is still there.
PurgeIsRight ==
    purge # NoAgent =>
        /\ purge \in [categories : SUBSET MemoryCategories, batch : SUBSET Place,
                      progressed : BOOLEAN, began : SUBSET (1..saves)]
        /\ \A m \in memories : m.revision \in purge.began =>
                                 m.at.ns.category \in purge.categories

MemoryIInv ==
    /\ memories \subseteq Entry
    /\ Numbered /\ PurgeIsRight
    /\ Revisions(memories) \intersect forgotten = {}

\* A step that only takes entries away, from the store or from the listing, or lists entries.
LEMMA MemoryShrinks ==
    ASSUME MemoryIInv, memories' \subseteq memories, listing' \subseteq memories \union listing,
           UNCHANGED <<saves, purge, forgotten>>
    PROVE  MemoryIInv'
<1>1. memories' \union listing' \subseteq memories \union listing
  OBVIOUS
<1>2. Numbered'
  BY <1>1 DEF MemoryIInv, Numbered, Revisions
<1>3. PurgeIsRight'
  BY DEF MemoryIInv, PurgeIsRight
<1>4. QED
  BY <1>2, <1>3 DEF MemoryIInv, Revisions

\* A save under a new number disturbs nothing that was numbered before.
LEMMA MemoryGrows ==
    ASSUME MemoryIInv, NEW a \in MemoryAgents, NEW key \in Keys,
           NEW category \in MemoryCategories, Put(a, key, category),
           UNCHANGED <<listing, purge, forgotten>>
    PROVE  MemoryIInv'
<1> DEFINE place == [ns |-> NamespaceFor(a, category), key |-> key]
           new == [at |-> place, revision |-> saves + 1]
<1>1. /\ saves < MaxSaves /\ saves' = saves + 1
      /\ memories' = Without({place}) \union {new}
  BY DEF Put
<1>2. saves \in Nat /\ saves' \in Nat
  BY <1>1 DEF MemoryIInv, Numbered
<1>3. place \in Place
  BY AgentMemoryAssumption DEF Place, Namespace, NamespaceFor
<1>4. new.at = place /\ new.revision = saves + 1
  OBVIOUS
<1>5. new \in Entry
  BY <1>1, <1>2, <1>3, AgentMemoryAssumption DEF Entry
<1>6. \A m \in memories' \union listing' : m = new \/ m \in memories \union listing
  BY <1>1 DEF Without
<1>7. \A m \in memories \union listing : m.revision \in 1..saves
  BY DEF MemoryIInv, Numbered, Revisions
<1>8. \A m \in memories' : m = new \/ m \in memories
  BY <1>1 DEF Without
<1> HIDE DEF new, place
<1>9. \A m \in memories' \union listing' : m.revision \in 1..saves'
  <2>1. saves + 1 \in 1..saves' /\ 1..saves \subseteq 1..saves'
    BY <1>1, <1>2
  <2>2. QED
    BY <1>4, <1>6, <1>7, <2>1
<1>10. \A m \in memories \union listing : m.revision # saves + 1
  BY <1>2, <1>7
<1>11. \A m, n \in memories' \union listing' : m.revision = n.revision => m.at = n.at
  BY <1>4, <1>6, <1>10 DEF MemoryIInv, Numbered
<1>12. forgotten \subseteq 1..saves' /\ saves + 1 \notin forgotten
  BY <1>1, <1>2 DEF MemoryIInv, Numbered
<1>13. Numbered'
  BY <1>2, <1>9, <1>11, <1>12 DEF Numbered, Revisions
<1>14. PurgeIsRight'
  <2> SUFFICES ASSUME purge # NoAgent PROVE PurgeIsRight'
    BY DEF PurgeIsRight
  <2>1. purge \in [categories : SUBSET MemoryCategories, batch : SUBSET Place,
                   progressed : BOOLEAN, began : SUBSET (1..saves)]
    BY DEF MemoryIInv, PurgeIsRight
  <2>2. purge.began \subseteq 1..saves' /\ saves + 1 \notin purge.began
    BY <1>1, <1>2, <2>1
  <2>3. purge \in [categories : SUBSET MemoryCategories, batch : SUBSET Place,
                   progressed : BOOLEAN, began : SUBSET (1..saves')]
    BY <2>1, <2>2
  <2>4. \A m \in memories' : m.revision \in purge.began => m.at.ns.category \in purge.categories
    BY <1>4, <1>8, <2>2 DEF MemoryIInv, PurgeIsRight
  <2>5. QED
    BY <2>3, <2>4 DEF PurgeIsRight
<1>15. \A m \in memories' : m.revision \notin forgotten
  BY <1>4, <1>8, <1>12 DEF MemoryIInv, Revisions
<1>16. memories' \subseteq Entry
  BY <1>5, <1>8 DEF MemoryIInv
<1>17. QED
  BY <1>13, <1>14, <1>15, <1>16 DEF MemoryIInv, Revisions

\* Every step of the store, a purge and the listings keeps what is forgotten forgotten.
LEMMA MemoryStep == MemoryIInv /\ [MemoryNext]_memoryVars => MemoryIInv'
<1> SUFFICES ASSUME MemoryIInv, [MemoryNext]_memoryVars PROVE MemoryIInv'
  OBVIOUS
<1>1. CASE UNCHANGED memoryVars
  BY <1>1, MemoryShrinks DEF memoryVars
<1>2. ASSUME NEW a \in MemoryAgents, SaveMemory(a) \/ UpdateMemory(a) PROVE MemoryIInv'
  <2>1. Used \subseteq Keys
    BY DEF Used, MemoryIInv, Entry, Place
  <2>2. PICK key \in Keys, category \in MemoryCategories : Put(a, key, category)
    BY <1>2, <2>1 DEF SaveMemory, UpdateMemory
  <2>3. QED
    BY <1>2, <2>2, MemoryGrows DEF SaveMemory, UpdateMemory
<1>3. ASSUME NEW a \in MemoryAgents, DeleteMemory(a) \/ BeginBulkDelete(a) PROVE MemoryIInv'
  BY <1>3, MemoryShrinks DEF DeleteMemory, BeginBulkDelete, Without
<1>4. CASE BulkDelete \/ ListMemories
  BY <1>4, MemoryShrinks DEF BulkDelete, ListMemories, Without
<1>5. CASE DeleteEntry
  <2>1. PICK m \in listing : /\ memories' = Without({m.at})
                             /\ listing' = listing \ {m}
                             /\ forgotten' = forgotten \union {m.revision}
    BY <1>5 DEF DeleteEntry
  <2>2. UNCHANGED <<purge, saves>>
    BY <1>5 DEF DeleteEntry
  <2>3. memories' \subseteq memories /\ memories' \union listing' \subseteq memories \union listing
    BY <2>1 DEF Without
  <2>4. m.revision \in 1..saves /\ \A n \in memories' : n.revision # m.revision
    BY <2>1 DEF Without, MemoryIInv, Numbered, Revisions
  <2>5. Numbered'
    BY <2>1, <2>2, <2>3, <2>4 DEF MemoryIInv, Numbered, Revisions
  <2>6. PurgeIsRight'
    BY <2>2, <2>3 DEF MemoryIInv, PurgeIsRight
  <2>7. QED
    BY <2>1, <2>3, <2>4, <2>5, <2>6 DEF MemoryIInv, Revisions
<1>6. CASE BeginPurge
  <2>1. PICK categories \in {MemoryCategories} \union {{c} : c \in MemoryCategories} :
          purge' = [categories |-> categories, batch |-> {}, progressed |-> TRUE,
                    began |-> Revisions({m \in memories : m.at.ns.category \in categories})]
    BY <1>6 DEF BeginPurge
  <2>2. UNCHANGED <<memories, listing, saves, forgotten>>
    BY <1>6 DEF BeginPurge
  <2> DEFINE began == Revisions({m \in memories : m.at.ns.category \in categories})
  <2>3. began \subseteq 1..saves /\ categories \in SUBSET MemoryCategories
    BY DEF MemoryIInv, Numbered, Revisions
  <2>4. \A m \in memories : m.revision \in began => m.at.ns.category \in categories
    BY DEF MemoryIInv, Numbered, Revisions
  <2> HIDE DEF began
  <2>5. purge' = [categories |-> categories, batch |-> {}, progressed |-> TRUE, began |-> began]
    BY <2>1 DEF began
  <2>6. PurgeIsRight'
    BY <2>2, <2>3, <2>4, <2>5 DEF PurgeIsRight
  <2>7. QED
    BY <2>2, <2>6 DEF MemoryIInv, Numbered
<1>7. CASE PurgeSearch
  <2>1. purge # NoAgent /\ UNCHANGED <<memories, listing, saves>>
    BY <1>7 DEF PurgeSearch
  <2>2. purge \in [categories : SUBSET MemoryCategories, batch : SUBSET Place,
                   progressed : BOOLEAN, began : SUBSET (1..saves)]
    BY <2>1 DEF MemoryIInv, PurgeIsRight
  <2>3. CASE purge' = NoAgent /\ UNCHANGED forgotten
    BY <2>1, <2>3 DEF MemoryIInv, Numbered, PurgeIsRight
  <2>4. CASE /\ InPurge = {} /\ purge' = NoAgent
             /\ forgotten' = forgotten \union purge.began
    <3>1. \A m \in memories : m.revision \notin purge.began
      BY <2>1, <2>4 DEF MemoryIInv, PurgeIsRight, InPurge
    <3>2. forgotten' \subseteq 1..saves
      BY <2>2, <2>4 DEF MemoryIInv, Numbered
    <3>3. QED
      BY <2>1, <2>4, <3>1, <3>2 DEF MemoryIInv, Numbered, PurgeIsRight, Revisions
  <2>5. ASSUME NEW batch \in SUBSET InPurge, UNCHANGED forgotten,
               purge' = [purge EXCEPT !.batch = {m.at : m \in batch}, !.progressed = FALSE]
        PROVE  MemoryIInv'
    <3>1. {m.at : m \in batch} \in SUBSET Place
      BY DEF InPurge, MemoryIInv, Entry
    <3>2. /\ purge' \in [categories : SUBSET MemoryCategories, batch : SUBSET Place,
                         progressed : BOOLEAN, began : SUBSET (1..saves)]
          /\ purge'.categories = purge.categories /\ purge'.began = purge.began
      BY <2>2, <2>5, <3>1
    <3>3. PurgeIsRight'
      BY <2>1, <3>2 DEF MemoryIInv, PurgeIsRight
    <3>4. QED
      BY <2>1, <2>5, <3>3 DEF MemoryIInv, Numbered
  <2>6. QED
    BY <1>7, <2>3, <2>4, <2>5 DEF PurgeSearch
<1>8. CASE PurgeDelete
  <2>1. purge # NoAgent /\ UNCHANGED <<listing, saves, forgotten>>
    BY <1>8 DEF PurgeDelete
  <2>2. purge \in [categories : SUBSET MemoryCategories, batch : SUBSET Place,
                   progressed : BOOLEAN, began : SUBSET (1..saves)]
    BY <2>1 DEF MemoryIInv, PurgeIsRight
  <2>3. PICK place \in purge.batch :
          \/ /\ purge' = [purge EXCEPT !.batch = @ \ {place}, !.progressed = TRUE]
             /\ memories' = Without({place})
          \/ /\ purge' = [purge EXCEPT !.batch = @ \ {place}]
             /\ UNCHANGED memories
    BY <1>8 DEF PurgeDelete
  <2>4. memories' \subseteq memories
    BY <2>3 DEF Without
  <2>5. /\ purge' \in [categories : SUBSET MemoryCategories, batch : SUBSET Place,
                       progressed : BOOLEAN, began : SUBSET (1..saves)]
        /\ purge'.categories = purge.categories /\ purge'.began = purge.began
    BY <2>2, <2>3
  <2>6. PurgeIsRight'
    BY <2>1, <2>4, <2>5 DEF MemoryIInv, PurgeIsRight
  <2>7. QED
    BY <2>1, <2>4, <2>6 DEF MemoryIInv, Numbered, Revisions
<1>9. QED
  BY <1>1, <1>2, <1>3, <1>4, <1>5, <1>6, <1>7, <1>8 DEF MemoryNext

\* For any number of agents, scopes, keys and batches: what the user deleted, or had when a
\* purge began that ran to its end, is nowhere in the store any more, although entries are
\* saved anew under its key, moved and deleted between the batches of the purge.
THEOREM ForgottenStaysGone == MemorySpec => []ForgottenIsGone
<1>1. MemoryInit => MemoryIInv
  BY DEF MemoryInit, MemoryIInv, Numbered, PurgeIsRight, Revisions
<1>2. MemoryIInv => ForgottenIsGone
  <2>1. \A a \in MemoryAgents : Recallable(a) \subseteq memories
    BY DEF Recallable, Search
  <2>2. QED
    BY <2>1 DEF MemoryIInv, ForgottenIsGone, Revisions
<1>3. QED
  BY <1>1, <1>2, MemoryStep, PTL DEF MemorySpec

-----------------------------------------------------------------------------
(* SnapshotReplay.                                                         *)

\* A snapshot is of a whole response, in the directory and while it is written.
WholeFiles == \A f \in files : f.response = Chunks
WholeWrites == \A r \in LocalRuns : local[r].pc = "write" => local[r].file.response = Chunks

ReplayIInv == ReplayTypeOK /\ WholeFiles /\ WholeWrites /\ ReplaysAreFaithful

\* The file a request may be answered with, and what find_best_match guarantees of it.
Fits(given, question) ==
    /\ given.request.agent = question.agent
    /\ \/ /\ given.request.prompt = question.prompt
          /\ Normal[given.request.text] = Normal[question.text]
       \/ mode # "exact" /\ ScoreOf(given, question) >= MinScore

\* What find_best_match returns fits the request it was asked for.
LEMMA MatchesFit ==
    ASSUME NEW q, NEW m \in Matches(q), NEW f \in m
    PROVE  f \in files /\ Fits(f, q)
<1>1. PICK same \in Exact(q) :
         \/ m = Newest(same)
         \/ mode # "exact" /\ m = Best(q)
  BY DEF Matches
<1>2. CASE m = Newest(same)
  <2>1. same \subseteq SameAs(q)
    BY <1>1 DEF Exact
  <2>2. f \in SameAs(q)
    BY <1>2, <2>1 DEF Newest
  <2>3. QED
    BY <2>2 DEF SameAs, Candidates, Fingerprint, Fits
<1>3. CASE m = Best(q) /\ mode # "exact"
  BY <1>3 DEF Best, Newest, Similar, Candidates, Fits
<1>4. QED
  BY <1>1, <1>2, <1>3

\* One run goes over to next; the other runs and the mode stay.
LEMMA ReplayMoves ==
    ASSUME ReplayIInv, NEW r \in LocalRuns, NEW next \in LocalRun, Change(r, next),
           UNCHANGED mode, files' \subseteq Snapshot, written' \in 0..MaxFiles,
           \A f \in files' : f.response = Chunks,
           next.pc = "write" => next.file.response = Chunks,
           next.pc = "replay" => next.file.response = Chunks /\ Fits(next.file, next.request)
    PROVE  ReplayIInv'
<1>0. local' = [local EXCEPT ![r] = next] /\ local \in [LocalRuns -> LocalRun]
  BY DEF Change, ReplayIInv, ReplayTypeOK
<1>1. ReplayTypeOK'
  BY <1>0 DEF ReplayIInv, ReplayTypeOK
<1>2. ASSUME NEW s \in LocalRuns
      PROVE  (s # r /\ local'[s] = local[s]) \/ (s = r /\ local'[s] = next)
  BY <1>0
<1>3. WholeFiles' /\ WholeWrites'
  BY <1>2 DEF ReplayIInv, WholeFiles, WholeWrites
<1>4. ReplaysAreFaithful'
  <2> SUFFICES ASSUME NEW s \in LocalRuns, local'[s].pc = "replay"
               PROVE  local'[s].file.response = Chunks /\ Fits(local'[s].file, local'[s].request)
    BY DEF ReplaysAreFaithful, Fits, ScoreOf
  <2>1. CASE s = r
    BY <1>2, <2>1
  <2>2. CASE s # r
    BY <1>2, <2>2 DEF ReplayIInv, ReplaysAreFaithful, Fits
  <2>3. QED
    BY <2>1, <2>2
<1>5. QED
  BY <1>1, <1>3, <1>4 DEF ReplayIInv

\* Every step of a recorder or of a replayed run keeps snapshots whole and answers fitting.
LEMMA ReplayStep == ReplayIInv /\ [ReplayNext]_replayVars => ReplayIInv'
<1> SUFFICES ASSUME ReplayIInv, [ReplayNext]_replayVars PROVE ReplayIInv'
  OBVIOUS
<1>1. CASE UNCHANGED replayVars
  BY <1>1 DEF replayVars, ReplayIInv, ReplayTypeOK, WholeFiles, WholeWrites, ReplaysAreFaithful,
     ScoreOf
<1>2. CASE ReplayNext
  <2> PICK r \in LocalRuns : \/ \E q \in AgentRequest : StartRun(r, q)
                             \/ Replay(r) \/ Chunk(r) \/ EndRun(r) \/ LoseRun(r)
                             \/ WriteSnapshot(r)
    BY <1>2 DEF ReplayNext
  <2>0. /\ files \subseteq Snapshot /\ written \in 0..MaxFiles /\ local[r] \in LocalRun
        /\ local \in [LocalRuns -> LocalRun]
        /\ \A f \in files : f.response = Chunks
    BY DEF ReplayIInv, ReplayTypeOK, WholeFiles
  <2>1. NoRun \in LocalRun /\ NoRun.pc = "idle"
    BY DEF NoRun, LocalRun
  <2>2. ASSUME NEW q \in AgentRequest, StartRun(r, q) PROVE ReplayIInv'
    <3>1. PICK m \in Matches(q) :
             \/ m = {} /\ Change(r, [pc |-> "stream", request |-> q, got |-> 0])
             \/ \E f \in m : Change(r, [pc |-> "replay", request |-> q, file |-> f])
      BY <2>2 DEF StartRun
    <3>2. UNCHANGED <<mode, files, written>>
      BY <2>2 DEF StartRun
    <3>3. CASE Change(r, [pc |-> "stream", request |-> q, got |-> 0])
      <4> DEFINE next == [pc |-> "stream", request |-> q, got |-> 0]
      <4>1. next \in LocalRun /\ next.pc = "stream"
        BY SnapshotReplayAssumption DEF LocalRun
      <4>2. Change(r, next)
        BY <3>3
      <4> HIDE DEF next
      <4>3. QED
        BY <2>0, <3>2, <4>1, <4>2, ReplayMoves
    <3>4. ASSUME NEW f \in m, Change(r, [pc |-> "replay", request |-> q, file |-> f])
          PROVE  ReplayIInv'
      <4> DEFINE next == [pc |-> "replay", request |-> q, file |-> f]
      <4>1. f \in files /\ Fits(f, q)
        BY MatchesFit
      <4>2. f \in Snapshot /\ f.response = Chunks
        BY <4>1, <2>0
      <4>3. next \in LocalRun
        BY <4>2 DEF LocalRun
      <4>4. next.pc = "replay" /\ next.file = f /\ next.request = q
        OBVIOUS
      <4>5. Change(r, next)
        BY <3>4
      <4> HIDE DEF next
      <4>6. QED
        BY <2>0, <3>2, <4>1, <4>2, <4>3, <4>4, <4>5, ReplayMoves
    <3>5. QED
      BY <3>1, <3>3, <3>4
  <2>3. CASE Replay(r) \/ LoseRun(r)
    BY <2>0, <2>1, <2>3, ReplayMoves DEF Replay, LoseRun
  <2>4. CASE Chunk(r)
    <3> DEFINE next == [local[r] EXCEPT !.got = @ + 1]
    <3>1. local[r].pc = "stream" /\ local[r].got < Chunks /\ UNCHANGED <<mode, files, written>>
      BY <2>4 DEF Chunk
    <3>2. local[r] \in [pc : {"stream"}, request : AgentRequest, got : 0..Chunks]
      BY <3>1, <2>0 DEF LocalRun
    <3>3. local[r].got + 1 \in 0..Chunks
      BY <3>1, <3>2, SnapshotReplayAssumption
    <3>4. next \in [pc : {"stream"}, request : AgentRequest, got : 0..Chunks]
      BY <3>2, <3>3
    <3>5. Change(r, next)
      BY <2>4, <2>0 DEF Chunk, Change
    <3> HIDE DEF next
    <3>6. next \in LocalRun /\ next.pc = "stream"
      BY <3>4 DEF LocalRun
    <3>7. QED
      BY <2>0, <3>1, <3>5, <3>6, ReplayMoves
  <2>5. CASE EndRun(r)
    <3> DEFINE file == [request |-> local[r].request, response |-> local[r].got, at |-> written']
               next == [pc |-> "write", file |-> file]
    <3>1. /\ local[r].pc = "stream" /\ local[r].got = Chunks /\ UNCHANGED <<mode, files>>
          /\ written < MaxFiles /\ written' = written + 1 /\ Change(r, next)
      BY <2>5 DEF EndRun, Save
    <3>2. local[r] \in [pc : {"stream"}, request : AgentRequest, got : 0..Chunks]
      BY <3>1, <2>0 DEF LocalRun
    <3>3. written' \in 1..MaxFiles /\ written' \in 0..MaxFiles
      BY <3>1, <2>0, SnapshotReplayAssumption
    <3>4. file \in Snapshot
      BY <3>2, <3>3 DEF Snapshot
    <3>5. next \in LocalRun
      BY <3>4 DEF LocalRun
    <3>6. next.pc = "write" /\ next.file.response = Chunks
      BY <3>1
    <3> HIDE DEF file, next
    <3>7. QED
      BY <2>0, <3>1, <3>3, <3>5, <3>6, ReplayMoves
  <2>6. CASE WriteSnapshot(r)
    <3>1. /\ local[r].pc = "write" /\ files' \in {files, files \union {local[r].file}}
          /\ Change(r, NoRun) /\ UNCHANGED <<mode, written>>
      BY <2>6 DEF WriteSnapshot
    <3>2. local[r].file \in Snapshot /\ local[r].file.response = Chunks
      BY <3>1, <2>0 DEF ReplayIInv, WholeWrites, LocalRun
    <3>3. QED
      BY <2>0, <2>1, <3>1, <3>2, ReplayMoves
  <2>7. QED
    BY <2>2, <2>3, <2>4, <2>5, <2>6
<1>3. QED
  BY <1>1, <1>2

\* Whatever runs start, fail, are cancelled and write at the same time, a replay answers with
\* the whole response of an earlier run of the agent that matches the request, for any
\* matching of texts, any similarity and any number of runs and snapshots.
THEOREM ReplaysFit == ReplaySpec => []ReplaysAreFaithful
<1>1. ReplayInit => ReplayIInv
  BY SnapshotReplayAssumption DEF ReplayInit, ReplayIInv, ReplayTypeOK, WholeFiles, WholeWrites,
     ReplaysAreFaithful, NoRun, LocalRun
<1>2. ReplayIInv => ReplaysAreFaithful
  BY DEF ReplayIInv
<1>3. QED
  BY <1>1, <1>2, ReplayStep, PTL DEF ReplaySpec

-----------------------------------------------------------------------------
(* EmailSending.                                                           *)

\* One mail's copies, with what has been accepted in the attempt that is under way: only in
\* the places quit and done may a recipient have one copy more than attempts were repeated.
MailOK(m) ==
    /\ \A r \in Recipients :
          /\ copies[m][r] <= repeated[m] + (IF mail[m].pc \in {"quit", "done"} THEN 1 ELSE 0)
          /\ copies[m][r] > 0 => r \in mail[m].to
          /\ mail[m].pc = "unsent" => copies[m][r] = 0
    /\ mail[m].told = "success" => mail[m].pc = "done"
    /\ mail[m].pc = "quit" \/ mail[m].told = "success" => \E r \in Recipients : copies[m][r] > 0

EmailIInv == EmailTypeOK /\ \A m \in Mails : MailOK(m)

\* What a step makes of its mail (next) and of its copies (got) when it goes on without a new
\* copy: the place is not before the copies, the recipients are kept or there are no copies.
LEMMA EmailKeeps ==
    ASSUME EmailTypeOK, NEW m \in Mails, NEW next \in MailState, MailOK(m),
           mail' = [mail EXCEPT ![m] = next],
           UNCHANGED copies, repeated' \in [Mails -> Nat],
           crashes' \in 0..MaxCrashes,
           \A n \in Mails \ {m} : repeated'[n] = repeated[n],
           \/ repeated'[m] = repeated[m] + 1
           \/ repeated'[m] = repeated[m] /\ mail[m].pc \notin {"quit", "done"}
           \/ repeated'[m] = repeated[m] /\ next.pc = "done",
           next.to = mail[m].to \/ mail[m].pc = "unsent",
           next.pc # "unsent", next.pc # "quit",
           next.told = "success" => mail[m].pc = "quit" /\ next.pc = "done",
           \A n \in Mails : MailOK(n)
    PROVE  EmailIInv'
<1>1. EmailTypeOK'
  BY DEF EmailTypeOK
<1>2. ASSUME NEW n \in Mails PROVE MailOK(n)'
  <2>1. CASE n = m
    <3>1. mail'[n] = next /\ copies'[n] = copies[m]
      BY <2>1 DEF EmailTypeOK
    <3>2. \A r \in Recipients : copies[m][r] \in Nat
      BY DEF EmailTypeOK
    <3>3. repeated[m] \in Nat /\ repeated'[m] \in Nat
      BY DEF EmailTypeOK
    <3>4. QED
      BY <2>1, <3>1, <3>2, <3>3 DEF MailOK
  <2>2. CASE n # m
    <3>1. mail'[n] = mail[n] /\ repeated'[n] = repeated[n]
      BY <2>2 DEF EmailTypeOK
    <3>2. QED
      BY <3>1 DEF MailOK
  <2>3. QED
    BY <2>1, <2>2
<1>3. QED
  BY <1>1, <1>2 DEF EmailIInv

\* An attempt that fails leaves a mail that is queued again or reported as a failure.
LEMMA EmailFails ==
    ASSUME EmailTypeOK, NEW m \in Mails, NEW retryable \in BOOLEAN, AttemptFails(m, retryable)
    PROVE  \E next \in MailState :
              /\ mail' = [mail EXCEPT ![m] = next]
              /\ next.pc \in {"queued", "done"} /\ next.to = mail[m].to
              /\ next.told # "success" \/ next.told = mail[m].told
<1> DEFINE next == IF mail[m].task /\ retryable /\ mail[m].retries < MaxRetries
                   THEN [mail[m] EXCEPT !.pc = "queued", !.retries = @ + 1]
                   ELSE Told(m, "failure")
<1>1. mail[m] \in MailState
  BY DEF EmailTypeOK
<1>2. mail' = [mail EXCEPT ![m] = next]
  BY DEF AttemptFails, EmailTypeOK
<1>3. ASSUME mail[m].task, retryable, mail[m].retries < MaxRetries
      PROVE  [mail[m] EXCEPT !.pc = "queued", !.retries = @ + 1] \in MailState
  <2>1. mail[m].retries \in 0..MaxRetries
    BY <1>1 DEF MailState
  <2>2. mail[m].retries + 1 \in 0..MaxRetries
    BY <1>3, <2>1, EmailSendingAssumption
  <2>3. QED
    BY <1>1, <2>2 DEF MailState, MailPlaces
<1>4. Told(m, "failure") \in MailState
  BY <1>1 DEF MailState, MailPlaces, Told
<1>5. next \in MailState
  BY <1>3, <1>4
<1>6. next.pc \in {"queued", "done"} /\ next.to = mail[m].to
      /\ (next.told # "success" \/ next.told = mail[m].told)
  BY <1>1 DEF MailState, Told
<1> HIDE DEF next
<1>7. QED
  BY <1>2, <1>5, <1>6

\* Every step of sending keeps the copies explained by the attempts.
LEMMA EmailStep == EmailIInv /\ [EmailNext]_emailVars => EmailIInv'
<1> SUFFICES ASSUME EmailIInv, [EmailNext]_emailVars PROVE EmailIInv'
  OBVIOUS
<1> USE EmailSendingAssumption
<1>0. EmailTypeOK /\ \A n \in Mails : MailOK(n)
  BY DEF EmailIInv
<1>1. CASE UNCHANGED emailVars
  BY <1>1 DEF emailVars, EmailIInv, EmailTypeOK, MailOK
<1>2. CASE EmailNext
  <2> PICK m \in Mails : \/ SendEmail(m) \/ SendWithTool(m) \/ RunTask(m) \/ FailsEarly(m)
                         \/ LogIn(m) \/ SendMessage(m) \/ Quit(m) \/ AnswerLost(m)
                         \/ WorkerDies(m)
    BY <1>2 DEF EmailNext
  <2>0. mail[m] \in MailState /\ repeated[m] \in Nat /\ MailOK(m)
    BY <1>0 DEF EmailTypeOK
  <2>T. /\ crashes \in 0..MaxCrashes /\ repeated \in [Mails -> Nat]
        /\ mail \in [Mails -> MailState] /\ copies \in [Mails -> [Recipients -> Nat]]
    BY <1>0 DEF EmailTypeOK
  <2>1. CASE SendEmail(m)
    <3>1. PICK to \in SUBSET Recipients :
             mail' = [mail EXCEPT ![m].pc = "queued", ![m].task = TRUE, ![m].to = to]
      BY <2>1 DEF SendEmail
    <3> DEFINE next == [mail[m] EXCEPT !.pc = "queued", !.task = TRUE, !.to = to]
    <3>2. mail' = [mail EXCEPT ![m] = next]
      BY <3>1, <2>T
    <3>3. /\ next \in MailState /\ next.pc = "queued" /\ next.told = mail[m].told
      BY <2>0 DEF MailState, MailPlaces
    <3>4. /\ mail[m].pc = "unsent" /\ UNCHANGED <<copies, crashes, repeated>>
      BY <2>1 DEF SendEmail, MailAt
    <3>5. next.told # "success"
      BY <3>3, <3>4, <2>0 DEF MailOK
    <3> HIDE DEF next
    <3>6. QED
      BY <3>2, <3>3, <3>4, <3>5, <1>0, <2>0, <2>T, EmailKeeps
  <2>2. CASE SendWithTool(m)
    <3>1. PICK to \in SUBSET Recipients :
             mail' \in {[mail EXCEPT ![m].pc = "connect", ![m].to = to],
                       [mail EXCEPT ![m] = Told(m, "failure")]}
      BY <2>2 DEF SendWithTool
    <3>2. PICK next \in {[mail[m] EXCEPT !.pc = "connect", !.to = to], Told(m, "failure")} :
             mail' = [mail EXCEPT ![m] = next]
      BY <3>1, <2>T
    <3>3. /\ next \in MailState /\ next.pc \in {"connect", "done"}
          /\ next.told = mail[m].told \/ next.told = "failure"
      BY <2>0 DEF MailState, MailPlaces, Told
    <3>4. /\ mail[m].pc = "unsent" /\ UNCHANGED <<copies, crashes, repeated>>
      BY <2>2 DEF SendWithTool, MailAt
    <3>5. next.told # "success"
      BY <3>3, <3>4, <2>0 DEF MailOK
    <3>6. QED
      BY <3>2, <3>3, <3>4, <3>5, <1>0, <2>0, <2>T, EmailKeeps
  <2>3. CASE RunTask(m) \/ LogIn(m)
    <3>1. PICK next \in {[mail[m] EXCEPT !.pc = "connect"], [mail[m] EXCEPT !.pc = "data"]} :
             mail' = [mail EXCEPT ![m] = next]
      BY <2>3, <2>T DEF RunTask, LogIn, MailGoes
    <3>2. /\ next \in MailState /\ next.pc \in {"connect", "data"}
          /\ next.told = mail[m].told /\ next.to = mail[m].to
      BY <2>0 DEF MailState, MailPlaces
    <3>3. /\ mail[m].pc \in {"queued", "connect"} /\ UNCHANGED <<copies, crashes, repeated>>
      BY <2>3 DEF RunTask, LogIn, MailAt
    <3>4. next.told # "success"
      BY <3>2, <3>3, <2>0 DEF MailOK
    <3>5. QED
      BY <3>1, <3>2, <3>3, <3>4, <1>0, <2>0, <2>T, EmailKeeps
  <2>4. ASSUME NEW retryable \in BOOLEAN, AttemptFails(m, retryable), UNCHANGED <<copies, crashes, repeated>>,
               mail[m].pc \in {"connect", "data"}
        PROVE  EmailIInv'
    <3>1. PICK next \in MailState :
              /\ mail' = [mail EXCEPT ![m] = next]
              /\ next.pc \in {"queued", "done"} /\ next.to = mail[m].to
              /\ next.told # "success" \/ next.told = mail[m].told
      BY <1>0, <2>4, EmailFails
    <3>2. next.told # "success"
      BY <3>1, <2>4, <2>0 DEF MailOK
    <3>3. QED
      BY <3>1, <3>2, <2>4, <1>0, <2>0, <2>T, EmailKeeps
  <2>5. CASE FailsEarly(m)
    BY <2>5, <2>4 DEF FailsEarly, MailAt
  <2>6. CASE SendMessage(m)
    <3>1. mail[m].pc = "data" /\ UNCHANGED <<crashes, repeated>>
      BY <2>6 DEF SendMessage, MailAt
    <3>2. ASSUME NEW accepted \in (SUBSET mail[m].to) \ {{}},
                 copies' = [copies EXCEPT ![m] = [r \in Recipients |->
                               IF r \in accepted THEN @[r] + 1 ELSE @[r]]],
                 MailGoes(m, "quit")
          PROVE  EmailIInv'
      <4> DEFINE next == [mail[m] EXCEPT !.pc = "quit"]
                 got == [r \in Recipients |-> IF r \in accepted THEN copies[m][r] + 1
                                              ELSE copies[m][r]]
      <4>1. mail' = [mail EXCEPT ![m] = next] /\ copies' = [copies EXCEPT ![m] = got]
        BY <3>2, <2>T DEF MailGoes
      <4>2. next \in MailState /\ next.pc = "quit" /\ next.to = mail[m].to
                               /\ next.told = mail[m].told
        BY <2>0 DEF MailState, MailPlaces
      <4>3. got \in [Recipients -> Nat]
        BY <2>T
      <4>4. accepted \subseteq Recipients /\ accepted # {} /\ accepted \subseteq mail[m].to
        BY <3>2, <2>0 DEF MailState
      <4>5. \A r \in Recipients : /\ copies[m][r] \in Nat
                                  /\ \/ got[r] = copies[m][r] + 1 /\ r \in mail[m].to
                                     \/ got[r] = copies[m][r]
        BY <4>4, <2>T
      <4>6. PICK a \in accepted : TRUE
        BY <4>4
      <4>7. a \in Recipients /\ got[a] > 0
        BY <4>4, <4>6, <2>T
      <4> HIDE DEF next, got
      <4>8. EmailTypeOK'
        BY <4>1, <4>2, <4>3, <3>1, <2>T DEF EmailTypeOK
      <4>9. ASSUME NEW n \in Mails PROVE MailOK(n)'
        <5>1. CASE n = m
          <6>1. mail'[n] = next /\ copies'[n] = got /\ repeated'[n] = repeated[m]
            BY <5>1, <4>1, <3>1, <2>T
          <6>2. \A r \in Recipients : copies[m][r] <= repeated[m]
            BY <3>1, <2>0, <4>5 DEF MailOK
          <6>3. \A r \in Recipients : got[r] <= repeated[m] + 1 /\ (got[r] > 0 => r \in mail[m].to)
            BY <6>2, <4>5, <2>0 DEF MailOK
          <6>4. next.told # "success"
            BY <2>0, <3>1, <4>2 DEF MailOK
          <6>5. QED
            BY <6>1, <6>3, <6>4, <4>2, <4>7 DEF MailOK
        <5>2. CASE n # m
          <6>1. mail'[n] = mail[n] /\ copies'[n] = copies[n] /\ repeated'[n] = repeated[n]
            BY <5>2, <4>1, <3>1, <2>T
          <6>2. QED
            BY <6>1, <1>0 DEF MailOK
        <5>3. QED
          BY <5>1, <5>2
      <4>10. QED
        BY <4>8, <4>9 DEF EmailIInv
    <3>3. QED
      BY <2>6, <2>4, <3>1, <3>2 DEF SendMessage
  <2>7. CASE Quit(m)
    <3> DEFINE next == Told(m, "success")
    <3>1. mail' = [mail EXCEPT ![m] = next] /\ mail[m].pc = "quit"
          /\ UNCHANGED <<copies, crashes, repeated>>
      BY <2>7 DEF Quit, MailAt
    <3>2. next \in MailState /\ next.pc = "done" /\ next.to = mail[m].to
      BY <2>0 DEF MailState, MailPlaces, Told
    <3> HIDE DEF next
    <3>3. QED
      BY <3>1, <3>2, <1>0, <2>0, <2>T, EmailKeeps
  <2>8. CASE AnswerLost(m)
    <3>1. PICK next \in MailState :
              /\ mail' = [mail EXCEPT ![m] = next]
              /\ next.pc \in {"queued", "done"} /\ next.to = mail[m].to
              /\ next.told # "success" \/ next.told = mail[m].told
      BY <1>0, <2>8, EmailFails DEF AnswerLost
    <3>2. mail[m].pc = "quit" /\ UNCHANGED copies /\ crashes' \in 0..MaxCrashes
      BY <2>8, <2>T DEF AnswerLost, Crash, MailAt
    <3>3. repeated' \in [Mails -> Nat] /\ repeated'[m] = repeated[m] + 1
          /\ \A n \in Mails \ {m} : repeated'[n] = repeated[n]
      BY <2>8, <2>T DEF AnswerLost
    <3>4. next.told # "success"
      BY <3>1, <3>2, <2>0 DEF MailOK
    <3>5. QED
      BY <3>1, <3>2, <3>3, <3>4, <1>0, <2>0, <2>T, EmailKeeps
  <2>9. CASE WorkerDies(m)
    <3> DEFINE next == [mail[m] EXCEPT !.pc = "queued"]
    <3>1. mail' = [mail EXCEPT ![m] = next]
      BY <2>9, <2>T DEF WorkerDies, MailGoes
    <3>2. next \in MailState /\ next.pc = "queued" /\ next.to = mail[m].to
                             /\ next.told = mail[m].told
      BY <2>0 DEF MailState, MailPlaces
    <3> HIDE DEF next
    <3>3. mail[m].pc \in {"connect", "data", "quit"} /\ UNCHANGED copies
          /\ crashes' \in 0..MaxCrashes
      BY <2>9, <2>T DEF WorkerDies, Crash
    <3>4. repeated' \in [Mails -> Nat] /\ (\A n \in Mails \ {m} : repeated'[n] = repeated[n])
          /\ (repeated'[m] = repeated[m] + 1
              \/ (repeated'[m] = repeated[m] /\ mail[m].pc \notin {"quit", "done"}))
      <4>1. CASE mail[m].pc = "quit"
        <5>1. repeated' = [repeated EXCEPT ![m] = @ + 1]
          BY <2>9, <4>1 DEF WorkerDies, MailAt
        <5>2. QED
          BY <5>1, <2>T
      <4>2. CASE mail[m].pc # "quit"
        BY <2>9, <2>T, <3>3, <4>2 DEF WorkerDies, MailAt
      <4>3. QED
        BY <4>1, <4>2
    <3>5. next.told # "success"
      BY <3>2, <3>3, <2>0 DEF MailOK
    <3>6. QED
      BY <3>1, <3>2, <3>3, <3>4, <3>5, <1>0, <2>0, <2>T, EmailKeeps
  <2>10. QED
    BY <2>1, <2>2, <2>3, <2>5, <2>6, <2>7, <2>8, <2>9
<1>3. QED
  BY <1>1, <1>2

\* Whatever is retried, redelivered or lost, for any number of mails, recipients, retries and
\* lost workers: nobody has a mail more often than once and once for every attempt that was
\* lost after the server had accepted it, and a success is reported of a mail that arrived.
THEOREM CopiesHaveReasons == EmailSpec => []CopiesAreExplained
<1>1. EmailInit => EmailIInv
  BY EmailSendingAssumption DEF EmailInit, EmailIInv, EmailTypeOK, MailOK, Unsent, MailState,
     MailPlaces
<1>2. EmailIInv => CopiesAreExplained
  BY DEF EmailIInv, EmailTypeOK, MailOK, CopiesAreExplained
<1>3. QED
  BY <1>1, <1>2, EmailStep, PTL DEF EmailSpec

-----------------------------------------------------------------------------
(* UsagePricing.                                                           *)

\* The normalised usage of a call, and the row that finalize makes of it.
NormalUsage(p, b) == Normalized(Usage(b, p), p)
RowFor(p, b) == [pricing |-> p, of |-> b, cost |-> ComputeCost(NormalUsage(p, b), p),
                 estimated |-> CostEstimated(NormalUsage(p, b), p), guessed |-> b.key = "none"]
RowsMade == {RowFor(p, b) : p \in Prices, b \in Breakdowns}

\* Normalising leaves the core counts alone, and gives an extra that has a price its tokens
\* under its own name, unless the call is mischarged.
LEMMA NormalParts ==
    ASSUME NEW p \in Pricing, NEW b \in Breakdown, b.key # "none", ~Mischarged(b, p)
    PROVE  LET u == NormalUsage(p, b)
           IN /\ u["input"] = InputTokens(b, p) /\ u["output"] = OutputTokens(b, p)
              /\ u["cache_write"] = b.cache_write /\ u["reasoning"] = b.reasoning
              /\ "cache_read" \in Priced(p) => u["cache_read"] = b.cache_read
              /\ "audio" \in Priced(p) => u["audio"] = b.audioIn + b.audioOut
              /\ Multiplier(u, p) = Multiplier(Reported(b, p), p)
<1> DEFINE r == Reported(b, p)
           u == NormalUsage(p, b)
<1>1. /\ b.cache_read \in Nat /\ b.audioIn \in Nat /\ b.audioOut \in Nat
      /\ b.key \in {"cache_read", "cached"}
  BY DEF Breakdown
<1>2. /\ r["input"] = InputTokens(b, p) /\ r["output"] = OutputTokens(b, p)
      /\ r["cache_read"] = IF b.key = "cache_read" THEN b.cache_read ELSE 0
      /\ r["cached"] = IF b.key = "cached" THEN b.cache_read ELSE 0
      /\ r["audio"] = IF b.audioOut > 0 THEN b.audioOut ELSE b.audioIn
      /\ r["cache_write"] = b.cache_write /\ r["reasoning"] = b.reasoning
      /\ DOMAIN r = UsageKeys
  BY DEF Reported, UsageKeys, Extras
<1>3. u = IF p.alias THEN [r EXCEPT !["cache_read"] = IF r["cache_read"] # 0 THEN r["cache_read"]
                                                     ELSE r["cached"],
                                    !["cached"] = 0]
          ELSE r
  BY DEF NormalUsage, Normalized, Usage
<1> HIDE DEF r, u
<1>4. /\ u["input"] = r["input"] /\ u["output"] = r["output"]
      /\ u["cache_write"] = r["cache_write"] /\ u["reasoning"] = r["reasoning"]
      /\ u["audio"] = r["audio"]
  <2>1. CASE p.alias
    BY <1>2, <1>3, <2>1 DEF UsageKeys, Extras
  <2>2. CASE ~p.alias
    BY <1>3, <2>2
  <2>3. QED
    BY <2>1, <2>2
<1>5. ASSUME "cache_read" \in Priced(p) PROVE u["cache_read"] = b.cache_read
  <2>1. CASE p.alias
    <3>1. u["cache_read"] = IF r["cache_read"] # 0 THEN r["cache_read"] ELSE r["cached"]
      BY <1>2, <1>3, <2>1 DEF UsageKeys, Extras
    <3>2. QED
      BY <1>1, <1>2, <3>1
  <2>2. CASE ~p.alias
    <3>1. u = r
      BY <1>3, <2>2
    <3>2. b.key = "cached" => b.cache_read = 0
      BY <1>1, <1>5, <2>2 DEF Mischarged, Priced
    <3>3. QED
      BY <1>1, <1>2, <3>1, <3>2
  <2>3. QED
    BY <2>1, <2>2
<1>6. ASSUME "audio" \in Priced(p) PROVE u["audio"] = b.audioIn + b.audioOut
  <2>1. b.audioIn = 0 \/ b.audioOut = 0
    BY <1>1, <1>6 DEF Mischarged, Priced
  <2>2. QED
    BY <1>1, <1>2, <1>4, <2>1
<1>7. Multiplier(u, p) = Multiplier(r, p)
  BY <1>4 DEF Multiplier
<1>8. QED
  BY <1>2, <1>4, <1>5, <1>6, <1>7 DEF u, r

\* What an extra adds to the cost of a usage, what it deducts from the core count of its
\* parent, what its tokens should cost, and how many stay in a core count for want of a price.
ExtraCost(e, u, p) == IF e \in Priced(p) THEN u[e] * p.price[e] ELSE 0
Deducted(e, u, p) == IF e \in Priced(p) \ p.separate THEN u[e] ELSE 0
EachCost(e, n, core, p) == n * (IF p.price[e] >= 0 THEN p.price[e] ELSE p.price[core])
Unpriced(e, n, p) == IF e \in Priced(p) THEN 0 ELSE n

\* An extra with a parent: what is left in the core count is what nothing else prices.
LEMMA PartIsCharged ==
    ASSUME NEW p \in Pricing, NEW e \in Extras, NEW core \in {"input", "output"}, NEW n \in Nat,
           NEW u, e \in Priced(p) => u[e] = n
    PROVE  /\ Within(e, n, p) = Deducted(e, u, p) + Unpriced(e, n, p)
           /\ EachCost(e, n, core, p) = Unpriced(e, n, p) * p.price[core] + ExtraCost(e, u, p)
           /\ Deducted(e, u, p) \in Nat /\ Unpriced(e, n, p) \in Nat /\ ExtraCost(e, u, p) \in Int
<1>1. p.price[e] \in Int /\ p.price[core] \in Int /\ (e \in p.separate => p.price[e] >= 0)
  BY DEF Pricing
<1>2. CASE e \in Priced(p)
  <2>1. p.price[e] >= 0 /\ u[e] = n
    BY <1>2 DEF Priced
  <2>2. n * p.price[e] \in Int /\ 0 * p.price[core] = 0
    BY <1>1
  <2>3. QED
    BY <1>1, <1>2, <2>1, <2>2 DEF Within, Deducted, Unpriced, EachCost, ExtraCost
<1>3. CASE e \notin Priced(p)
  <2>1. ~(p.price[e] >= 0) /\ e \notin p.separate
    BY <1>1, <1>3 DEF Priced
  <2>2. n * p.price[core] \in Int
    BY <1>1
  <2>3. QED
    BY <1>1, <1>3, <2>1, <2>2 DEF Within, Deducted, Unpriced, EachCost, ExtraCost
<1>4. QED
  BY <1>2, <1>3

\* Audio has no parent, and nothing deducts it.
LEMMA AudioIsCharged ==
    ASSUME NEW p \in Pricing, NEW b \in Breakdown, ~Mischarged(b, p), NEW u,
           "audio" \in Priced(p) => u["audio"] = b.audioIn + b.audioOut
    PROVE  LET i == Unpriced("audio", b.audioIn, p)
               o == Unpriced("audio", b.audioOut, p)
           IN /\ Within("audio", b.audioIn, p) = i /\ Within("audio", b.audioOut, p) = o
              /\ EachCost("audio", b.audioIn, "input", p) + EachCost("audio", b.audioOut, "output", p)
                 = i * p.price["input"] + o * p.price["output"] + ExtraCost("audio", u, p)
              /\ i \in Nat /\ o \in Nat /\ ExtraCost("audio", u, p) \in Int
<1> DEFINE c == p.price["audio"]
<1>1. /\ c \in Int /\ p.price["input"] \in Int /\ p.price["output"] \in Int
      /\ "audio" \in p.separate => c >= 0
      /\ b.audioIn \in Nat /\ b.audioOut \in Nat
  BY DEF Pricing, Breakdown, Extras
<1>2. CASE "audio" \in Priced(p)
  <2>1. c >= 0 /\ u["audio"] = b.audioIn + b.audioOut
    BY <1>2 DEF Priced
  <2>2. "audio" \notin p.separate => b.audioIn = 0 /\ b.audioOut = 0
    BY <1>1, <2>1 DEF Mischarged
  <2>3. /\ b.audioIn * c \in Int /\ b.audioOut * c \in Int
        /\ (b.audioIn + b.audioOut) * c = b.audioIn * c + b.audioOut * c
        /\ 0 * p.price["input"] = 0 /\ 0 * p.price["output"] = 0
    <3> HIDE DEF c
    <3>1. QED
      BY <1>1
  <2>4. QED
    BY <1>1, <1>2, <2>1, <2>2, <2>3 DEF Within, Unpriced, EachCost, ExtraCost
<1>3. CASE "audio" \notin Priced(p)
  <2>1. ~(c >= 0) /\ "audio" \notin p.separate
    BY <1>1, <1>3 DEF Priced, Extras
  <2>2. b.audioIn * p.price["input"] \in Int /\ b.audioOut * p.price["output"] \in Int
    BY <1>1
  <2>3. QED
    BY <1>1, <1>3, <2>1, <2>2 DEF Within, Unpriced, EachCost, ExtraCost
<1>4. QED
  BY <1>2, <1>3

\* The prices of the parts of a core count add up.
LEMMA PricesAddUp ==
    ASSUME NEW k \in Int, NEW l \in Int, NEW m \in Int, NEW n \in Int, NEW price \in Int
    PROVE  /\ (k + l + m + n) * price = k * price + l * price + m * price + n * price
           /\ k * price \in Int /\ l * price \in Int /\ m * price \in Int /\ n * price \in Int
  OBVIOUS

\* Unless a call is mischarged, its cost charges every token exactly once.
LEMMA CostIsTrue ==
    ASSUME NEW p \in Pricing, NEW b \in Breakdown, b.key # "none", ~Mischarged(b, p)
    PROVE  ComputeCost(NormalUsage(p, b), p) = TrueCost(b, p)
<1> DEFINE u == NormalUsage(p, b)
           pi == p.price["input"]
           po == p.price["output"]
           r == Unpriced("cache_read", b.cache_read, p)
           w == Unpriced("cache_write", b.cache_write, p)
           t == Unpriced("reasoning", b.reasoning, p)
           i == Unpriced("audio", b.audioIn, p)
           o == Unpriced("audio", b.audioOut, p)
<1>1. /\ u["input"] = InputTokens(b, p) /\ u["output"] = OutputTokens(b, p)
      /\ u["cache_write"] = b.cache_write /\ u["reasoning"] = b.reasoning
      /\ "cache_read" \in Priced(p) => u["cache_read"] = b.cache_read
      /\ "audio" \in Priced(p) => u["audio"] = b.audioIn + b.audioOut
      /\ Multiplier(u, p) = Multiplier(Reported(b, p), p)
  BY NormalParts
<1>2. /\ b.fresh \in Nat /\ b.plain \in Nat /\ b.cache_read \in Nat /\ b.cache_write \in Nat
      /\ b.reasoning \in Nat /\ pi \in Int /\ po \in Int
  BY DEF Breakdown, Pricing
<1>3. "cache_read" \in Extras /\ "cache_write" \in Extras /\ "reasoning" \in Extras
  BY DEF Extras
<1> HIDE DEF u
<1>4. /\ Within("cache_read", b.cache_read, p) = Deducted("cache_read", u, p) + r
      /\ EachCost("cache_read", b.cache_read, "input", p) = r * pi + ExtraCost("cache_read", u, p)
      /\ Deducted("cache_read", u, p) \in Nat /\ r \in Nat /\ ExtraCost("cache_read", u, p) \in Int
  BY <1>1, <1>2, <1>3, PartIsCharged
<1>5. /\ Within("cache_write", b.cache_write, p) = Deducted("cache_write", u, p) + w
      /\ EachCost("cache_write", b.cache_write, "input", p) = w * pi + ExtraCost("cache_write", u, p)
      /\ Deducted("cache_write", u, p) \in Nat /\ w \in Nat /\ ExtraCost("cache_write", u, p) \in Int
  BY <1>1, <1>2, <1>3, PartIsCharged
<1>6. /\ Within("reasoning", b.reasoning, p) = Deducted("reasoning", u, p) + t
      /\ EachCost("reasoning", b.reasoning, "output", p) = t * po + ExtraCost("reasoning", u, p)
      /\ Deducted("reasoning", u, p) \in Nat /\ t \in Nat /\ ExtraCost("reasoning", u, p) \in Int
  BY <1>1, <1>2, <1>3, PartIsCharged
<1>7. /\ Within("audio", b.audioIn, p) = i /\ Within("audio", b.audioOut, p) = o
      /\ EachCost("audio", b.audioIn, "input", p) + EachCost("audio", b.audioOut, "output", p)
         = i * pi + o * po + ExtraCost("audio", u, p)
      /\ i \in Nat /\ o \in Nat /\ ExtraCost("audio", u, p) \in Int
  BY <1>1, AudioIsCharged
<1> HIDE DEF r, w, t, i, o
<1>8. Deduction("input", u, p) = Deducted("cache_read", u, p) + Deducted("cache_write", u, p) + 0 + 0
  BY DEF Deduction, OverExtras, ParentDimension, Deducted
<1>9. Deduction("output", u, p) = 0 + 0 + Deducted("reasoning", u, p) + 0
  BY DEF Deduction, OverExtras, ParentDimension, Deducted
<1>10. Billable("input", u, p) = b.fresh + r + w + i
  BY <1>1, <1>2, <1>4, <1>5, <1>7, <1>8 DEF Billable, InputTokens
<1>11. Billable("output", u, p) = b.plain + t + o + 0
  BY <1>1, <1>2, <1>6, <1>7, <1>9 DEF Billable, OutputTokens
<1> DEFINE xr == ExtraCost("cache_read", u, p)
           xw == ExtraCost("cache_write", u, p)
           xt == ExtraCost("reasoning", u, p)
           xa == ExtraCost("audio", u, p)
<1>12. ComputeCost(u, p) =
         Multiplier(u, p) * ((b.fresh + r + w + i) * pi + (b.plain + t + o + 0) * po
                             + (xr + xw + xt + xa))
  BY <1>10, <1>11 DEF ComputeCost, OverExtras, ExtraCost
<1> DEFINE ai == EachCost("audio", b.audioIn, "input", p)
           ao == EachCost("audio", b.audioOut, "output", p)
<1>13. TrueCost(b, p) =
         Multiplier(Reported(b, p), p)
           * (b.fresh * pi + b.plain * po + EachCost("cache_read", b.cache_read, "input", p)
              + EachCost("cache_write", b.cache_write, "input", p)
              + EachCost("reasoning", b.reasoning, "output", p) + ai + ao)
  BY DEF TrueCost, EachCost
<1>14. ai \in Int /\ ao \in Int
  BY DEF EachCost, Breakdown, Pricing, Extras
<1>15. /\ (b.fresh + r + w + i) * pi = b.fresh * pi + r * pi + w * pi + i * pi
       /\ b.fresh * pi \in Int /\ r * pi \in Int /\ w * pi \in Int /\ i * pi \in Int
  BY <1>2, <1>4, <1>5, <1>7, PricesAddUp
<1>16. /\ (b.plain + t + o + 0) * po = b.plain * po + t * po + o * po + 0 * po
       /\ b.plain * po \in Int /\ t * po \in Int /\ o * po \in Int /\ 0 * po = 0
  BY <1>2, <1>6, <1>7, PricesAddUp
<1> DEFINE fp == b.fresh * pi
           rp == r * pi
           wp == w * pi
           ip == i * pi
           pp == b.plain * po
           tp == t * po
           op == o * po
<1>17. /\ fp \in Int /\ rp \in Int /\ wp \in Int /\ ip \in Int /\ pp \in Int /\ tp \in Int
       /\ op \in Int /\ xr \in Int /\ xw \in Int /\ xt \in Int /\ xa \in Int
       /\ ai + ao = ip + op + xa
  BY <1>4, <1>5, <1>6, <1>7, <1>15, <1>16
<1>18. ComputeCost(u, p) =
         Multiplier(u, p) * ((fp + rp + wp + ip) + (pp + tp + op + 0) + (xr + xw + xt + xa))
  BY <1>12, <1>15, <1>16
<1>19. TrueCost(b, p) =
         Multiplier(u, p) * (fp + pp + (rp + xr) + (wp + xw) + (tp + xt) + ai + ao)
  BY <1>1, <1>4, <1>5, <1>6, <1>13
<1> HIDE DEF fp, rp, wp, ip, pp, tp, op, xr, xw, xt, xa, ai, ao
<1>20. (fp + rp + wp + ip) + (pp + tp + op + 0) + (xr + xw + xt + xa)
       = fp + pp + (rp + xr) + (wp + xw) + (tp + xt) + ai + ao
  BY <1>14, <1>17
<1>21. QED
  BY <1>18, <1>19, <1>20 DEF u

-----------------------------------------------------------------------------

\* A call of finalize between its start and its end.
AtWork == [pc : {"select", "insert", "commit", "write"}, pricing : Prices, row : RowsMade]

\* A call of finalize goes on with the row it made at the start, and writes it only when the
\* snapshot of its prices is committed.
LoggerOK(l) ==
    \/ logger[l] = IdleLogger
    \/ /\ logger[l] \in AtWork
       /\ logger[l].pricing = logger[l].row.pricing
       /\ logger[l].pc = "write" => HashOf(l) \in snapshots

\* The inductive invariant of UsagePricing.
UsageIInv ==
    /\ DOMAIN logger = Loggers
    /\ cache \subseteq snapshots
    /\ \A l \in Loggers : LoggerOK(l)
    /\ \A r \in logs : r \in RowsMade /\ Hash(r.pricing) \in snapshots

\* One logger takes a step while snapshots only grow: every logger keeps its promise.
LEMMA LoggerMoves ==
    ASSUME UsageIInv, NEW l \in Loggers, NEW new,
           logger' = [logger EXCEPT ![l] = new],
           snapshots \subseteq snapshots',
           \/ new = IdleLogger
           \/ /\ new \in AtWork /\ new.pricing = new.row.pricing
              /\ new.pc = "write" => Hash(new.pricing) \in snapshots'
    PROVE  DOMAIN logger' = Loggers /\ \A k \in Loggers : LoggerOK(k)'
<1>1. DOMAIN logger' = Loggers /\ logger'[l] = new
  BY DEF UsageIInv
<1>2. ASSUME NEW k \in Loggers PROVE LoggerOK(k)'
  <2>1. CASE k = l
    BY <1>1, <2>1 DEF LoggerOK, HashOf
  <2>2. CASE k # l
    <3>1. logger'[k] = logger[k]
      BY <2>2 DEF UsageIInv
    <3>2. LoggerOK(k)
      BY DEF UsageIInv
    <3>3. QED
      BY <3>1, <3>2 DEF LoggerOK, HashOf
  <2>3. QED
    BY <2>1, <2>2
<1>3. QED
  BY <1>1, <1>2

\* A logger that is at work goes to its next step with the same row.
LEMMA LoggerGoes ==
    ASSUME UsageIInv, NEW l \in Loggers, NEW next \in {"insert", "commit", "write"},
           ~AtStep(l, "idle"), GoTo(l, next),
           snapshots \subseteq snapshots', next = "write" => HashOf(l) \in snapshots'
    PROVE  DOMAIN logger' = Loggers /\ \A k \in Loggers : LoggerOK(k)'
<1> DEFINE new == [logger[l] EXCEPT !.pc = next]
<1>1. logger[l] # IdleLogger
  BY DEF AtStep, IdleLogger
<1>2. /\ logger[l] \in AtWork
      /\ logger[l].pricing = logger[l].row.pricing
  BY <1>1 DEF UsageIInv, LoggerOK
<1>3. logger' = [logger EXCEPT ![l] = new]
  BY DEF GoTo
<1>4. /\ new \in AtWork
      /\ new.row = logger[l].row /\ new.pricing = logger[l].pricing /\ new.pc = next
  BY <1>2 DEF AtWork
<1> HIDE DEF new
<1>5. new.pc = "write" => Hash(new.pricing) \in snapshots'
  BY <1>4 DEF HashOf
<1>6. QED
  BY <1>2, <1>3, <1>4, <1>5, LoggerMoves

\* Every step of the loggers and of the synchronisation keeps the invariant.
LEMMA UsageStep == UsageIInv /\ [UsageNext]_usageVars => UsageIInv'
<1> SUFFICES ASSUME UsageIInv, [UsageNext]_usageVars PROVE UsageIInv'
  OBVIOUS
<1>1. ASSUME NEW l \in Loggers, Finalize(l) PROVE UsageIInv'
  <2>1. UNCHANGED <<snapshots, cache, logs>>
    BY <1>1 DEF Finalize
  <2>2. PICK p \in Prices, b \in Breakdowns :
          LET u == Normalized(Usage(b, p), p)
          IN logger' = [logger EXCEPT ![l] =
                          [pc |-> IF Hash(p) \in cache THEN "write" ELSE "select", pricing |-> p,
                           row |-> [pricing |-> p, of |-> b, cost |-> ComputeCost(u, p),
                                    estimated |-> CostEstimated(u, p),
                                    guessed |-> b.key = "none"]]]
    BY <1>1 DEF Finalize
  <2> DEFINE new == [pc |-> IF Hash(p) \in cache THEN "write" ELSE "select", pricing |-> p,
                     row |-> RowFor(p, b)]
  <2>3. logger' = [logger EXCEPT ![l] = new]
    BY <2>2 DEF RowFor, NormalUsage
  <2>4. RowFor(p, b) \in RowsMade
    BY DEF RowsMade
  <2>5. RowFor(p, b).pricing = p
    BY DEF RowFor
  <2>6. new \in AtWork /\ new.pricing = new.row.pricing
    BY <2>4, <2>5 DEF AtWork
  <2>7. new.pc = "write" => Hash(new.pricing) \in snapshots'
    BY <2>1 DEF UsageIInv
  <2> HIDE DEF new
  <2>8. DOMAIN logger' = Loggers /\ \A k \in Loggers : LoggerOK(k)'
    BY <2>1, <2>3, <2>6, <2>7, LoggerMoves
  <2>9. QED
    BY <2>1, <2>8 DEF UsageIInv
<1>2. ASSUME NEW l \in Loggers, SelectSnapshot(l) PROVE UsageIInv'
  <2>1. UNCHANGED <<snapshots, logs>> /\ ~AtStep(l, "idle")
    BY <1>2 DEF SelectSnapshot, AtStep
  <2>2. CASE HashOf(l) \in snapshots
    <3>1. Remember(l) /\ GoTo(l, "write")
      BY <1>2, <2>2 DEF SelectSnapshot
    <3>2. DOMAIN logger' = Loggers /\ \A k \in Loggers : LoggerOK(k)'
      BY <2>1, <2>2, <3>1, LoggerGoes
    <3>3. QED
      BY <2>1, <2>2, <3>1, <3>2 DEF UsageIInv, Remember
  <2>3. CASE HashOf(l) \notin snapshots
    <3>1. UNCHANGED cache /\ GoTo(l, "insert")
      BY <1>2, <2>3 DEF SelectSnapshot
    <3>2. DOMAIN logger' = Loggers /\ \A k \in Loggers : LoggerOK(k)'
      BY <2>1, <3>1, LoggerGoes
    <3>3. QED
      BY <2>1, <3>1, <3>2 DEF UsageIInv
  <2>4. QED
    BY <2>2, <2>3
<1>3. ASSUME NEW l \in Loggers, InsertSnapshot(l) PROVE UsageIInv'
  <2>1. UNCHANGED <<snapshots, logs>> /\ ~AtStep(l, "idle")
    BY <1>3 DEF InsertSnapshot, AtStep
  <2>2. CASE HashOf(l) \in snapshots
    <3>1. Remember(l) /\ GoTo(l, "write")
      BY <1>3, <2>2 DEF InsertSnapshot
    <3>2. DOMAIN logger' = Loggers /\ \A k \in Loggers : LoggerOK(k)'
      BY <2>1, <2>2, <3>1, LoggerGoes
    <3>3. QED
      BY <2>1, <2>2, <3>1, <3>2 DEF UsageIInv, Remember
  <2>3. CASE HashOf(l) \notin snapshots
    <3>1. UNCHANGED cache /\ GoTo(l, "commit")
      BY <1>3, <2>3 DEF InsertSnapshot
    <3>2. DOMAIN logger' = Loggers /\ \A k \in Loggers : LoggerOK(k)'
      BY <2>1, <3>1, LoggerGoes
    <3>3. QED
      BY <2>1, <3>1, <3>2 DEF UsageIInv
  <2>4. QED
    BY <2>2, <2>3
<1>4. ASSUME NEW l \in Loggers, CommitSnapshot(l) PROVE UsageIInv'
  <2>1. UNCHANGED logs /\ ~AtStep(l, "idle")
    BY <1>4 DEF CommitSnapshot, AtStep
  <2>2. CASE snapshots' = snapshots \union {HashOf(l)} /\ Remember(l) /\ GoTo(l, "write")
    <3>1. DOMAIN logger' = Loggers /\ \A k \in Loggers : LoggerOK(k)'
      BY <2>1, <2>2, LoggerGoes
    <3>2. QED
      BY <2>1, <2>2, <3>1 DEF UsageIInv, Remember
  <2>3. CASE UNCHANGED <<snapshots, cache>> /\ QuitLogging(l)
    <3>1. logger' = [logger EXCEPT ![l] = IdleLogger]
      BY <2>3 DEF QuitLogging
    <3>2. DOMAIN logger' = Loggers /\ \A k \in Loggers : LoggerOK(k)'
      BY <2>3, <3>1, LoggerMoves
    <3>3. QED
      BY <2>1, <2>3, <3>2 DEF UsageIInv
  <2>4. QED
    BY <1>4, <2>2, <2>3 DEF CommitSnapshot
<1>5. ASSUME NEW l \in Loggers, WriteRow(l) PROVE UsageIInv'
  <2>1. /\ UNCHANGED <<snapshots, cache>>
        /\ logger' = [logger EXCEPT ![l] = IdleLogger]
        /\ logs' \in {logs, logs \union {logger[l].row}}
        /\ logger[l].pc = "write"
    BY <1>5 DEF WriteRow, QuitLogging, AtStep
  <2>2. DOMAIN logger' = Loggers /\ \A k \in Loggers : LoggerOK(k)'
    BY <2>1, LoggerMoves
  <2>3. logger[l] # IdleLogger
    BY <2>1 DEF IdleLogger
  <2>4. /\ logger[l] \in AtWork
        /\ Hash(logger[l].row.pricing) \in snapshots
    BY <2>1, <2>3 DEF UsageIInv, LoggerOK, HashOf
  <2>5. logger[l].row \in RowsMade
    BY <2>4 DEF AtWork
  <2>6. QED
    BY <2>1, <2>2, <2>4, <2>5 DEF UsageIInv
<1>6. ASSUME NEW p \in Prices, SyncNext(p) PROVE UsageIInv'
  BY <1>6 DEF SyncNext, UsageIInv, LoggerOK, HashOf
<1>7. ASSUME SyncEnd PROVE UsageIInv'
  <2>1. UNCHANGED <<cache, logs, logger>> /\ snapshots \subseteq snapshots'
    BY <1>7 DEF SyncEnd
  <2>2. QED
    BY <2>1 DEF UsageIInv, LoggerOK, HashOf
<1>8. CASE UNCHANGED usageVars
  BY <1>8 DEF usageVars, UsageIInv, LoggerOK, HashOf
<1>9. QED
  BY <1>1, <1>2, <1>3, <1>4, <1>5, <1>6, <1>7, <1>8 DEF UsageNext

\* Every log row charges each token once, but for estimated tokens and the mischarged calls,
\* and points to a committed snapshot of its prices, for all prices, calls and loggers.
THEOREM LogRowsArePriced == UsageSpec => []LogsArePriced
<1>1. UsageInit => UsageIInv
  BY DEF UsageInit, UsageIInv, LoggerOK
<1>2. UsageIInv => LogsArePriced
  <2> SUFFICES ASSUME UsageIInv, NEW r \in logs
               PROVE  /\ \/ r.guessed \/ Mischarged(r.of, r.pricing)
                         \/ r.cost = TrueCost(r.of, r.pricing)
                      /\ Hash(r.pricing) \in snapshots
    BY DEF LogsArePriced
  <2>1. r \in RowsMade /\ Hash(r.pricing) \in snapshots
    BY DEF UsageIInv
  <2>2. PICK p \in Prices, b \in Breakdowns : r = RowFor(p, b)
    BY <2>1 DEF RowsMade
  <2>3. p \in Pricing /\ b \in Breakdown
    BY UsagePricingAssumption
  <2>4. /\ r.pricing = p /\ r.of = b /\ r.cost = ComputeCost(NormalUsage(p, b), p)
        /\ r.guessed = (b.key = "none")
    BY <2>2 DEF RowFor
  <2>5. CASE b.key = "none"
    BY <2>1, <2>4, <2>5
  <2>6. CASE Mischarged(b, p)
    BY <2>1, <2>4, <2>6
  <2>7. CASE b.key # "none" /\ ~Mischarged(b, p)
    BY <2>1, <2>3, <2>4, <2>7, CostIsTrue
  <2>8. QED
    BY <2>5, <2>6, <2>7
<1>3. QED
  BY <1>1, <1>2, UsageStep, PTL DEF UsageSpec

-----------------------------------------------------------------------------
(* EventLoops.                                                             *)

\* Before the start there is no job, and nothing has gone wrong.
BootOK ==
    phase = "boot" => /\ NoJobs /\ ~orphaned /\ abandoned = {} /\ ~raced /\ loops = 1
                      /\ engines \in {0, 1} /\ mcp = "none" /\ ~agentMcp
                      /\ kind = "api" => engines = 0

\* Engines that have not been made are in nobody's hands; the first engine is gone for good
\* once what it left over is an orphan.
NumbersOK ==
    /\ engine <= engines /\ maker <= engines
    /\ \A e \in Engine : e > engines => pool[e] = {}
    /\ orphaned => engines # 0 /\ engine # 1

\* The session maker is the engine's, or the orphan; the pool is of the engine's loop.
EngineOK ==
    /\ maker # 0 => maker = engine \/ (orphaned /\ maker = 1)
    /\ engine # 0 => pool[engine] \subseteq {engineLoop}

\* A job inside get_session_maker is the only one there and works with the engine there is, of
\* its own loop.
MakerOK(j) ==
    InMaker(j) => /\ engine # 0 /\ job[j].engine = engine /\ job[j].loop = engineLoop
                  /\ \A k \in Jobs \ {j} : ~InMaker(k)

\* A session is of an engine that was made, of the loop of the present one if it is that, and of
\* the loop that the other sessions of its engine have.
SessionOK(j) ==
    job[j].pc = "session" =>
        /\ job[j].engine # 0 /\ job[j].engine <= engines
        /\ job[j].engine = engine => job[j].loop = engineLoop
        /\ \/ /\ pool[job[j].engine] \subseteq {job[j].loop}
              /\ \A k \in Jobs : job[k].pc = "session" /\ job[k].engine = job[j].engine
                                 => job[k].loop = job[j].loop
           \/ orphaned /\ job[j].engine = 1

Orderly == /\ NumbersOK /\ EngineOK
           /\ \A j \in Jobs : MakerOK(j) /\ SessionOK(j)

\* A job that has begun has a loop.
Placed == loops # 0 /\ \A j \in Jobs : job[j].pc # "idle" => job[j].loop # 0

\* Where engines are closed, also after a race, only an engine that is accounted for is bound to
\* the session maker, used by a job or has connections.
Accounted ==
    kind # "none" => /\ maker # 0 => maker \in Reachable
                     /\ \A e \in Engine : pool[e] # {} => e \in Reachable
                     /\ \A j \in Jobs : job[j].engine # 0 => job[j].engine \in Reachable

\* A shutdown has closed the clients that it has come past.
ClientsClosed == /\ phase \in {"redis", "down"} => mcp = "none" /\ ~agentMcp
                 /\ phase = "down" => ~redis /\ kind # "none"

LoopsIInv == /\ LoopsTypeOK /\ Placed /\ BootOK /\ (raced \/ Orderly)
             /\ Accounted /\ ClientsClosed

\* get_engine on a loop gives the engine that there is, if it is of that loop, or the next one;
\* what it forgets has no connections left.
LEMMA EngineIsGot ==
    ASSUME LoopsTypeOK, NumbersOK, NEW l \in Loop, GetEngine(l)
    PROVE  /\ engine' \in Engine /\ engineLoop' = l /\ engines' \in 0..MaxEngines
           /\ engine' <= engines' /\ engines <= engines'
           /\ \/ UNCHANGED <<engine, engineLoop, maker, engines, pool>>
              \/ /\ engines' = engines + 1 /\ engine' = engines'
                 /\ engine = 0 => maker' = maker /\ pool' = pool
                 /\ engine # 0 => maker' = 0 /\ pool' = [pool EXCEPT ![engine] = {}]
           /\ maker' \in 0..MaxEngines /\ pool' \in [Engine -> SUBSET Loop]
<1>1. CASE engine # 0 /\ engineLoop = l
  BY <1>1, EventLoopsAssumption DEF GetEngine, LoopsTypeOK, NumbersOK, Engine
<1>2. CASE ~(engine # 0 /\ engineLoop = l)
  <2>1. engines' = engines + 1 /\ engine' = engines' /\ engineLoop' = l /\ engines < MaxEngines
    BY <1>2 DEF GetEngine
  <2>2. engines' \in Engine /\ engines' \in 0..MaxEngines /\ engines <= engines'
    BY <2>1, EventLoopsAssumption DEF LoopsTypeOK, Engine
  <2>3. CASE engine = 0
    BY <1>2, <2>1, <2>2, <2>3 DEF GetEngine, LoopsTypeOK
  <2>4. CASE engine # 0
    <3>1. maker' = 0 /\ pool' = [pool EXCEPT ![engine] = {}]
      BY <1>2, <2>4 DEF GetEngine
    <3>2. pool' \in [Engine -> SUBSET Loop]
      BY <3>1 DEF LoopsTypeOK
    <3>3. maker' \in 0..MaxEngines
      BY <3>1, EventLoopsAssumption
    <3>4. QED
      BY <2>1, <2>2, <2>4, <3>1, <3>2, <3>3
  <2>5. QED
    BY <2>3, <2>4
<1>3. QED
  BY <1>1, <1>2

\* An engine that is got keeps the numbers, the pools and the session maker in order.
LEMMA EngineStaysOrderly ==
    ASSUME LoopsTypeOK, NumbersOK, EngineOK, NEW l \in Loop, GetEngine(l), UNCHANGED orphaned
    PROVE  /\ NumbersOK' /\ EngineOK'
           /\ \A e \in Engine : pool'[e] \subseteq pool[e]
<1>1. /\ engine \in 0..MaxEngines /\ engines \in 0..MaxEngines /\ maker \in 0..MaxEngines
      /\ pool \in [Engine -> SUBSET Loop]
  BY DEF LoopsTypeOK
<1>2. /\ engine' \in Engine /\ engineLoop' = l /\ engines' \in 0..MaxEngines
      /\ engine' <= engines' /\ engines <= engines'
      /\ \/ UNCHANGED <<engine, engineLoop, maker, engines, pool>>
         \/ /\ engines' = engines + 1 /\ engine' = engines'
            /\ engine = 0 => maker' = maker /\ pool' = pool
            /\ engine # 0 => maker' = 0 /\ pool' = [pool EXCEPT ![engine] = {}]
  BY EngineIsGot
<1>3. CASE UNCHANGED <<engine, engineLoop, maker, engines, pool>>
  BY <1>3 DEF NumbersOK, EngineOK
<1>4. CASE /\ engines' = engines + 1 /\ engine' = engines'
           /\ engine = 0 => maker' = maker /\ pool' = pool
           /\ engine # 0 => maker' = 0 /\ pool' = [pool EXCEPT ![engine] = {}]
  <2>1. \A e \in Engine : pool'[e] = pool[e] \/ pool'[e] = {}
    BY <1>1, <1>4
  <2>2. pool'[engine'] = {}
    <3>1. engine' > engines
      BY <1>1, <1>4
    <3>2. pool[engine'] = {}
      BY <1>2, <3>1 DEF NumbersOK
    <3>3. QED
      BY <1>2, <2>1, <3>2
  <2>3. \A e \in Engine : e > engines' => pool'[e] = {}
    BY <1>1, <1>4, <2>1 DEF NumbersOK, Engine
  <2>5. maker' = maker \/ maker' = 0
    BY <1>4
  <2>6. maker' # 0 => orphaned /\ maker' = 1
    BY <1>4 DEF EngineOK
  <2>7. orphaned => engines' # 0 /\ engine' # 1
    BY <1>1, <1>4 DEF NumbersOK
  <2>8. maker' <= engines'
    BY <1>1, <1>2, <2>5 DEF NumbersOK
  <2>9. NumbersOK'
    BY <1>2, <2>3, <2>7, <2>8 DEF NumbersOK
  <2>10. EngineOK'
    BY <2>2, <2>6 DEF EngineOK
  <2>12. QED
    BY <2>1, <2>9, <2>10
<1>5. QED
  BY <1>2, <1>3, <1>4

\* A job that starts or ends is outside get_session_maker and has no session.
LEMMA JobMovesOutside ==
    ASSUME LoopsTypeOK, Orderly, NEW j \in Jobs, NEW next \in Job, next.pc \in {"idle", "engine"},
           job' = [job EXCEPT ![j] = next],
           UNCHANGED <<kind, phase, engines, engine, engineLoop, maker, pool, clients, orphaned>>
    PROVE  Orderly'
<1>1. job'[j] = next /\ \A k \in Jobs \ {j} : job'[k] = job[k]
  BY DEF LoopsTypeOK
<1>2. NumbersOK' /\ EngineOK'
  BY DEF Orderly, NumbersOK, EngineOK
<1>3. ~InMaker(j)' /\ \A k \in Jobs \ {j} : InMaker(k)' = InMaker(k)
  BY <1>1 DEF InMaker
<1>4. ASSUME NEW k \in Jobs PROVE MakerOK(k)'
  BY <1>1, <1>3 DEF Orderly, MakerOK
<1>5. ASSUME NEW k \in Jobs PROVE SessionOK(k)'
  BY <1>1 DEF Orderly, SessionOK
<1>6. QED
  BY <1>2, <1>4, <1>5 DEF Orderly

\* Clients are of no concern to engines and sessions.
LEMMA ClientsMove ==
    ASSUME Orderly,
           UNCHANGED <<engines, engine, engineLoop, maker, pool, job, orphaned>>
    PROVE  Orderly'
  BY DEF Orderly, NumbersOK, EngineOK, MakerOK, SessionOK, InMaker

\* get_session_maker up to the session, in its three steps.
LEMMA TakesEngine ==
    ASSUME LoopsTypeOK, Orderly, NEW j \in Jobs, TakeEngine(j), ~raced',
           job[j].loop # 0
    PROVE  Orderly'
<1>1. /\ job[j].pc = "engine" /\ GetEngine(job[j].loop)
      /\ job' = [job EXCEPT ![j].pc = "maker", ![j].engine = engine']
      /\ UNCHANGED <<kind, phase, loops, clients, orphaned>>
      /\ \A k \in Jobs \ {j} : ~InMaker(k)
  BY DEF TakeEngine, JobAt
<1>2. job[j].loop \in Loop
  BY EventLoopsAssumption DEF LoopsTypeOK, Job, Loop
<1>3. NumbersOK /\ EngineOK
  BY DEF Orderly
<1>4. /\ engine' \in Engine /\ engineLoop' = job[j].loop /\ engines' \in 0..MaxEngines
      /\ engine' <= engines' /\ engines <= engines'
      /\ \/ UNCHANGED <<engine, engineLoop, maker, engines, pool>>
         \/ engines' = engines + 1 /\ engine' = engines'
  BY <1>1, <1>2, <1>3, EngineIsGot
<1>5. /\ NumbersOK' /\ EngineOK'
      /\ \A e \in Engine : pool'[e] \subseteq pool[e]
  BY <1>1, <1>2, <1>3, EngineStaysOrderly
<1>6. /\ job'[j].pc = "maker" /\ job'[j].engine = engine' /\ job'[j].loop = job[j].loop
      /\ \A k \in Jobs \ {j} : job'[k] = job[k]
  BY <1>1 DEF LoopsTypeOK, Job
<1>7. engine' # 0
  BY <1>4 DEF Engine
<1>9. ASSUME NEW k \in Jobs PROVE MakerOK(k)'
  BY <1>1, <1>4, <1>6, <1>7 DEF MakerOK, InMaker
<1>10. ASSUME NEW k \in Jobs PROVE SessionOK(k)'
  <2> SUFFICES ASSUME job'[k].pc = "session" PROVE SessionOK(k)'
    BY DEF SessionOK
  <2>1. k # j /\ job'[k] = job[k] /\ job[k].pc = "session" /\ SessionOK(k)
    BY <1>6 DEF Orderly
  <2>2. job[k].engine # 0 /\ job[k].engine <= engines /\ job[k].engine \in 0..MaxEngines
    BY <2>1 DEF SessionOK, LoopsTypeOK, Job
  <2>3. job[k].engine \in Engine
    BY <2>2, EventLoopsAssumption DEF Engine
  <2>4. engines \in Nat /\ engines' \in Nat /\ engine' \in Nat /\ job[k].engine \in Nat
    BY <1>4, <2>3, EventLoopsAssumption DEF LoopsTypeOK, Engine
  <2>5. job[k].engine <= engines'
    BY <1>4, <2>2, <2>4
  <2>6. job[k].engine = engine' => job[k].loop = engineLoop'
    BY <1>4, <2>1, <2>2, <2>4 DEF SessionOK
  <2>7. \/ /\ pool'[job[k].engine] \subseteq {job[k].loop}
           /\ \A i \in Jobs : job'[i].pc = "session" /\ job'[i].engine = job[k].engine
                              => job'[i].loop = job[k].loop
        \/ orphaned' /\ job[k].engine = 1
    BY <1>1, <1>5, <1>6, <2>1, <2>3 DEF SessionOK
  <2>8. QED
    BY <2>1, <2>2, <2>5, <2>6, <2>7 DEF SessionOK
<1>11. QED
  BY <1>5, <1>9, <1>10 DEF Orderly

\* A session maker is made once, with the engine the job was given.
LEMMA MakesMaker ==
    ASSUME LoopsTypeOK, Orderly, NEW j \in Jobs, MakeMaker(j)
    PROVE  Orderly'
<1>1. /\ job[j].pc = "maker" /\ maker' = IF maker = 0 THEN job[j].engine ELSE maker
      /\ job' = [job EXCEPT ![j].pc = "return"]
      /\ UNCHANGED <<kind, phase, loops, engines, engine, engineLoop, pool, clients, orphaned>>
  BY DEF MakeMaker, JobAt
<1>2. /\ job'[j].pc = "return" /\ job'[j].engine = job[j].engine /\ job'[j].loop = job[j].loop
      /\ \A k \in Jobs \ {j} : job'[k] = job[k]
  BY <1>1 DEF LoopsTypeOK, Job
<1>3. job[j].engine = engine /\ engine # 0 /\ job[j].loop = engineLoop
      /\ \A k \in Jobs \ {j} : ~InMaker(k)
  BY <1>1 DEF Orderly, MakerOK, InMaker
<1>4. NumbersOK' /\ EngineOK'
  BY <1>1, <1>3 DEF Orderly, NumbersOK, EngineOK
<1>6. ASSUME NEW k \in Jobs PROVE MakerOK(k)'
  BY <1>1, <1>2, <1>3 DEF MakerOK, InMaker
<1>7. ASSUME NEW k \in Jobs PROVE SessionOK(k)'
  BY <1>1, <1>2 DEF Orderly, SessionOK
<1>8. QED
  BY <1>4, <1>6, <1>7 DEF Orderly

\* Opening a session on the engine a job was given keeps every session on its loop.
LEMMA OpensSession ==
    ASSUME LoopsTypeOK, Orderly, NEW j \in Jobs, OpenSession(j)
    PROVE  Orderly'
<1>1. /\ job[j].pc = "return"
      /\ UNCHANGED <<kind, phase, loops, engines, engine, engineLoop, maker, pool, clients, orphaned>>
  BY DEF OpenSession, JobAt
<1>2. CASE maker = 0
  <2>1. NoJob \in Job /\ NoJob.pc = "idle"
    BY EventLoopsAssumption DEF NoJob, Job
  <2>2. job' = [job EXCEPT ![j] = NoJob]
    BY <1>2 DEF OpenSession
  <2>3. QED
    BY <1>1, <2>1, <2>2, JobMovesOutside
<1>3. CASE maker # 0
  <2>1. job' = [job EXCEPT ![j] = [job[j] EXCEPT !.pc = "session", !.engine = maker]]
    BY <1>3 DEF OpenSession, LoopsTypeOK
  <2>2. /\ job'[j].pc = "session" /\ job'[j].engine = maker /\ job'[j].loop = job[j].loop
        /\ \A k \in Jobs \ {j} : job'[k] = job[k]
    BY <2>1 DEF LoopsTypeOK, Job
  <2>3. engine # 0 /\ job[j].loop = engineLoop /\ \A k \in Jobs \ {j} : ~InMaker(k)
    BY <1>1 DEF Orderly, MakerOK, InMaker
  <2>4. maker = engine \/ (orphaned /\ maker = 1)
    BY <1>3 DEF Orderly, EngineOK
  <2>5. maker <= engines /\ pool[engine] \subseteq {engineLoop}
    BY <2>3 DEF Orderly, EngineOK, NumbersOK
  <2>6. NumbersOK' /\ EngineOK'
    BY <1>1 DEF Orderly, NumbersOK, EngineOK
  <2>7. ASSUME NEW k \in Jobs PROVE MakerOK(k)'
    BY <2>2, <2>3 DEF MakerOK, InMaker
  <2>8. ASSUME NEW k \in Jobs PROVE SessionOK(k)'
    <3> SUFFICES ASSUME job'[k].pc = "session" PROVE SessionOK(k)'
      BY DEF SessionOK
    <3>1. CASE orphaned /\ job'[k].engine = 1
      <4>1. CASE k = j
        <5>1. job'[k].engine = engine => maker = engine
          BY <2>2, <4>1
        <5>2. QED
          BY <1>1, <1>3, <2>2, <2>3, <2>5, <3>1, <4>1 DEF SessionOK
      <4>2. CASE k # j
        BY <1>1, <2>2, <3>1, <4>2 DEF Orderly, SessionOK
      <4>3. QED
        BY <4>1, <4>2
    <3>2. CASE ~(orphaned /\ job'[k].engine = 1)
      <4>1. CASE k = j
        <5>1. maker = engine
          BY <2>2, <2>4, <3>2, <4>1
        <5>2. \A i \in Jobs : job'[i].pc = "session" /\ job'[i].engine = maker
                              => job'[i].loop = engineLoop
          BY <2>2, <2>3, <5>1 DEF Orderly, SessionOK
        <5>3. QED
          BY <1>1, <1>3, <2>2, <2>3, <2>5, <4>1, <5>1, <5>2 DEF SessionOK
      <4>2. CASE k # j
        <5>1. job'[k] = job[k] /\ job[k].pc = "session" /\ SessionOK(k)
          BY <2>2, <4>2 DEF Orderly
        <5>2. job[k].engine = maker => job[k].loop = job'[j].loop
          BY <2>2, <2>3, <2>4, <3>2, <5>1 DEF SessionOK
        <5>3. \A i \in Jobs : job'[i].pc = "session" /\ job'[i].engine = job[k].engine
                              => job'[i].loop = job[k].loop
          BY <2>2, <3>2, <5>1, <5>2 DEF SessionOK
        <5>4. QED
          BY <1>1, <3>2, <5>1, <5>3 DEF SessionOK
      <4>3. QED
        BY <4>1, <4>2
    <3>3. QED
      BY <3>1, <3>2
  <2>9. QED
    BY <2>6, <2>7, <2>8 DEF Orderly
<1>4. QED
  BY <1>2, <1>3

\* A connection that a session takes is of the loop that the sessions of its engine have.
LEMMA Executes ==
    ASSUME LoopsTypeOK, Orderly, NEW j \in Jobs, Execute(j)
    PROVE  Orderly'
<1>1. /\ job[j].pc = "session" /\ pool' = [pool EXCEPT ![job[j].engine] = @ \union {job[j].loop}]
      /\ UNCHANGED <<engines, engine, engineLoop, maker, job, orphaned>>
  BY DEF Execute, JobAt
<1>2. /\ job[j].engine # 0 /\ job[j].engine <= engines
      /\ job[j].engine = engine => job[j].loop = engineLoop
      /\ SessionOK(j)
  BY <1>1 DEF Orderly, SessionOK
<1>3. job[j].engine \in Engine
  BY <1>2, EventLoopsAssumption DEF LoopsTypeOK, Job, Engine
<1>4. /\ pool'[job[j].engine] = pool[job[j].engine] \union {job[j].loop}
      /\ \A e \in Engine : e # job[j].engine => pool'[e] = pool[e]
  BY <1>1, <1>3 DEF LoopsTypeOK
<1>5. NumbersOK'
  <2>1. \A e \in Engine : e > engines => e # job[j].engine
    BY <1>2, <1>3 DEF LoopsTypeOK, Engine
  <2>2. QED
    BY <1>1, <1>4, <2>1 DEF Orderly, NumbersOK
<1>6. EngineOK'
  <2>1. engine # 0 => engine \in Engine
    BY EventLoopsAssumption DEF LoopsTypeOK, Engine
  <2>2. engine # 0 => pool'[engine] \subseteq {engineLoop}
    BY <1>2, <1>4, <2>1 DEF Orderly, EngineOK
  <2>3. QED
    BY <1>1, <2>2 DEF Orderly, EngineOK
<1>7. ASSUME NEW k \in Jobs PROVE MakerOK(k)'
  BY <1>1 DEF Orderly, MakerOK, InMaker
<1>8. ASSUME NEW k \in Jobs PROVE SessionOK(k)'
  <2> SUFFICES ASSUME job[k].pc = "session" PROVE SessionOK(k)'
    BY <1>1 DEF SessionOK
  <2>1. SessionOK(k) /\ job[k].engine \in Engine
    BY EventLoopsAssumption DEF Orderly, SessionOK, LoopsTypeOK, Job, Engine
  <2>2. CASE job[k].engine = job[j].engine /\ ~(orphaned /\ job[k].engine = 1)
    <3>1. job[k].loop = job[j].loop /\ pool[job[k].engine] \subseteq {job[k].loop}
      BY <1>1, <2>1, <2>2 DEF SessionOK
    <3>2. pool'[job[k].engine] \subseteq {job[k].loop}
      BY <1>4, <2>2, <3>1
    <3>3. QED
      BY <1>1, <2>1, <2>2, <3>2 DEF SessionOK
  <2>3. CASE job[k].engine # job[j].engine \/ (orphaned /\ job[k].engine = 1)
    BY <1>1, <1>4, <2>1, <2>3 DEF SessionOK
  <2>4. QED
    BY <2>2, <2>3
<1>9. QED
  BY <1>5, <1>6, <1>7, <1>8 DEF Orderly

\* The first loop's engine, for the API.
LEMMA ResourcesAreInited ==
    ASSUME LoopsTypeOK, BootOK, Orderly, InitResources
    PROVE  Orderly'
<1>1. /\ phase = "boot" /\ kind = "api" /\ phase' = "up"
      /\ engines' = 1 /\ engine' = 1 /\ engineLoop' = 1 /\ maker' = 1
      /\ pool' = [pool EXCEPT ![1] = {1}]
      /\ UNCHANGED <<job, orphaned>>
  BY DEF InitResources
<1>2. engines = 0 /\ NoJobs /\ ~orphaned
  BY <1>1 DEF BootOK
<1>3. 1 \in Engine
  BY EventLoopsAssumption DEF Engine
<1>4. pool'[1] = {1} /\ \A e \in Engine : e # 1 => pool'[e] = pool[e]
  BY <1>1, <1>3 DEF LoopsTypeOK
<1>5. \A e \in Engine : e > 1 => pool'[e] = {}
  BY <1>2, <1>4 DEF Orderly, NumbersOK, Engine
<1>6. NumbersOK' /\ EngineOK'
  BY <1>1, <1>2, <1>4, <1>5 DEF NumbersOK, EngineOK
<1>7. \A j \in Jobs : MakerOK(j)' /\ SessionOK(j)'
  BY <1>1, <1>2 DEF NoJobs, NoJob, MakerOK, SessionOK, InMaker
<1>8. QED
  BY <1>6, <1>7 DEF Orderly

\* A worker's loop is made: an inherited engine is disposed of, or leaves an orphan.
LEMMA WorkerIsInited ==
    ASSUME LoopsTypeOK, BootOK, Orderly, WorkerLoopIsMade
    PROVE  Orderly'
<1>1. /\ phase = "boot" /\ loops' = loops + 1 /\ phase' = "up" /\ redis' = FALSE
      /\ UNCHANGED <<mcp, agentMcp, kind, job, raced>>
  BY DEF WorkerLoopIsMade, CloseRedis
<1>2. NoJobs /\ ~orphaned /\ mcp = "none" /\ ~agentMcp
  BY <1>1 DEF BootOK
<1>3. \A j \in Jobs : MakerOK(j)' /\ SessionOK(j)'
  BY <1>1, <1>2 DEF NoJobs, NoJob, MakerOK, SessionOK, InMaker
<1>4. CASE engine = 0
  <2>1. UNCHANGED <<engine, engineLoop, pool, orphaned, maker, engines>>
    BY <1>4 DEF WorkerLoopIsMade
  <2>2. QED
    BY <1>1, <1>2, <1>3, <2>1 DEF Orderly, NumbersOK, EngineOK
<1>5. CASE engine # 0
  <2>1. /\ engine' = 0 /\ engineLoop' = 0 /\ pool' \in {pool, [pool EXCEPT ![engine] = {}]}
        /\ orphaned' = (maker # 0 \/ pool' = pool) /\ UNCHANGED <<maker, engines>>
    BY <1>5 DEF WorkerLoopIsMade, DisposeCurrentEngine
  <2>2. engine \in Engine /\ engines \in Nat /\ engine <= engines /\ maker <= engines
    BY <1>5, EventLoopsAssumption DEF LoopsTypeOK, Engine, Orderly, NumbersOK
  <2>3. \A e \in Engine : pool'[e] = pool[e] \/ pool'[e] = {}
    BY <2>1, <2>2 DEF LoopsTypeOK
  <2>5. NumbersOK'
    <3>1. engines' # 0 /\ engine' # 1 /\ engine' <= engines'
      BY <1>5, <2>1, <2>2 DEF Engine
    <3>2. \A e \in Engine : e > engines' => pool'[e] = {}
      BY <2>1, <2>3 DEF Orderly, NumbersOK
    <3>3. QED
      BY <2>1, <2>2, <3>1, <3>2 DEF NumbersOK
  <2>6. EngineOK'
    <3>1. maker # 0 => maker = 1
      BY <1>1, <2>2, EventLoopsAssumption DEF BootOK, LoopsTypeOK
    <3>2. QED
      BY <2>1, <3>1 DEF EngineOK
  <2>8. QED
    BY <1>3, <2>5, <2>6 DEF Orderly
<1>6. QED
  BY <1>4, <1>5

\* Closing the database when no job is left, or failing to.
LEMMA DatabaseCloses ==
    ASSUME LoopsTypeOK, Orderly, DatabaseIsClosed
    PROVE  Orderly'
<1>1. NoJobs /\ UNCHANGED <<engines, job, orphaned>>
  BY DEF DatabaseIsClosed, CloseDatabase
<1>2. \A j \in Jobs : MakerOK(j)' /\ SessionOK(j)'
  BY <1>1 DEF NoJobs, NoJob, MakerOK, SessionOK, InMaker
<1>3. CASE UNCHANGED <<engine, engineLoop, maker, pool, engines>>
  BY <1>1, <1>2, <1>3 DEF Orderly, NumbersOK, EngineOK
<1>4. CASE /\ engine' = 0 /\ engineLoop' = 0 /\ maker' = 0
           /\ pool' = IF engine # 0 THEN [pool EXCEPT ![engine] = {}] ELSE pool
  <2>1. \A e \in Engine : pool'[e] = pool[e] \/ pool'[e] = {}
    BY <1>4 DEF LoopsTypeOK
  <2>2. engine' <= engines' /\ maker' <= engines'
    BY <1>1, <1>4, EventLoopsAssumption DEF LoopsTypeOK
  <2>3. NumbersOK'
    BY <1>1, <1>4, <2>1, <2>2 DEF Orderly, NumbersOK
  <2>4. EngineOK'
    BY <1>4 DEF EngineOK
  <2>5. QED
    BY <1>2, <2>3, <2>4 DEF Orderly
<1>5. QED
  BY <1>3, <1>4 DEF DatabaseIsClosed, CloseDatabase

\* A shutdown that runs out of time leaves the engine where it was.
LEMMA ShutdownTimesOut ==
    ASSUME Orderly, WorkerShutdownTimesOut
    PROVE  Orderly'
<1>1. /\ job' = [j \in Jobs |-> NoJob]
      /\ UNCHANGED <<engines, engine, engineLoop, maker, pool, orphaned>>
  BY DEF WorkerShutdownTimesOut
<1>2. NumbersOK' /\ EngineOK'
  BY <1>1 DEF Orderly, NumbersOK, EngineOK
<1>3. \A j \in Jobs : MakerOK(j)' /\ SessionOK(j)'
  BY <1>1 DEF NoJob, MakerOK, SessionOK, InMaker
<1>4. QED
  BY <1>2, <1>3 DEF Orderly

\* The reset for a new loop drops the engine of the old one.
LEMMA ResetsForNewLoop ==
    ASSUME LoopsTypeOK, Orderly, ResetForNewLoop
    PROVE  Orderly'
<1>1. /\ kind = "none" /\ NoJobs /\ engine' = 0 /\ engineLoop' = 0 /\ maker' = 0
      /\ UNCHANGED <<kind, phase, loops, engines, pool, clients, job, orphaned, raced>>
  BY DEF ResetForNewLoop
<1>2. NumbersOK'
  <2>1. engine' <= engines' /\ maker' <= engines'
    BY <1>1, EventLoopsAssumption DEF LoopsTypeOK
  <2>2. QED
    BY <1>1, <2>1 DEF Orderly, NumbersOK
<1>3. EngineOK'
  BY <1>1 DEF EngineOK
<1>4. \A j \in Jobs : MakerOK(j)' /\ SessionOK(j)'
  BY <1>1 DEF NoJobs, NoJob, MakerOK, SessionOK, InMaker
<1>5. QED
  BY <1>2, <1>3, <1>4 DEF Orderly

\* The steps of the jobs.
JobSteps(j) == \/ OnWorkerLoop(j) \/ OnServerLoop(j) \/ OnTemporaryLoop(j)
               \/ TakeEngine(j) \/ MakeMaker(j) \/ OpenSession(j) \/ Execute(j)
               \/ GetRedis(j) \/ GetTools(j) \/ GetToolsForProfile(j)
               \/ EndJob(j)

\* The types of what get_engine writes.
LEMMA EngineTypes ==
    ASSUME LoopsTypeOK, NEW l \in Loop, GetEngine(l)
    PROVE  /\ engine' \in 0..MaxEngines /\ engineLoop' \in 0..MaxLoops
           /\ engines' \in 0..MaxEngines /\ maker' \in 0..MaxEngines
           /\ pool' \in [Engine -> SUBSET Loop]
<1>1. CASE engine # 0 /\ engineLoop = l
  BY <1>1 DEF GetEngine, LoopsTypeOK
<1>2. CASE ~(engine # 0 /\ engineLoop = l)
  <2>1. engines' = engines + 1 /\ engine' = engines' /\ engineLoop' = l /\ engines < MaxEngines
    BY <1>2 DEF GetEngine
  <2>2. engines' \in 0..MaxEngines
    BY <2>1, EventLoopsAssumption DEF LoopsTypeOK
  <2>3. maker' \in 0..MaxEngines
    BY <1>2, EventLoopsAssumption DEF GetEngine, LoopsTypeOK
  <2>4. pool' = pool \/ pool' = [pool EXCEPT ![engine] = {}]
    BY <1>2 DEF GetEngine
  <2>5. pool' \in [Engine -> SUBSET Loop]
    BY <2>4 DEF LoopsTypeOK
  <2>6. engineLoop' \in 0..MaxLoops
    BY <2>1, EventLoopsAssumption DEF Loop
  <2>7. QED
    BY <2>1, <2>2, <2>3, <2>5, <2>6
<1>3. QED
  BY <1>1, <1>2

\* A job's step keeps the types, and gives a job that goes on a loop.
LEMMA JobStepTypes ==
    ASSUME LoopsTypeOK, Placed, NEW j \in Jobs, JobSteps(j)
    PROVE  /\ LoopsTypeOK' /\ Placed' /\ phase = "up" /\ phase' = "up"
           /\ UNCHANGED <<kind, orphaned>> /\ (raced => raced')
<1>0. /\ loops \in 1..MaxLoops /\ job \in [Jobs -> Job] /\ job[j] \in Job
      /\ NoJob \in Job /\ NoJob.pc = "idle"
  BY EventLoopsAssumption DEF LoopsTypeOK, Placed, NoJob, Job
<1>1. ASSUME NEW next \in Job, job' = [job EXCEPT ![j] = next], next.pc # "idle" => next.loop # 0,
             loops' \in 1..MaxLoops
      PROVE  job' \in [Jobs -> Job] /\ Placed'
  BY <1>0, <1>1 DEF Placed
<1>2. CASE OnWorkerLoop(j) \/ OnServerLoop(j) \/ OnTemporaryLoop(j)
  <2>1. PICK l \in 1..MaxLoops :
          /\ job' = [job EXCEPT ![j] = [NoJob EXCEPT !.pc = "engine", !.loop = l]]
          /\ loops' \in 1..MaxLoops
    <3>1. CASE OnWorkerLoop(j)
      BY <1>0, <3>1 DEF OnWorkerLoop, WorkerLoop
    <3>2. CASE OnServerLoop(j)
      <4>1. 1 \in 1..MaxLoops
        BY EventLoopsAssumption
      <4>2. QED
        BY <1>0, <3>2, <4>1 DEF OnServerLoop
    <3>3. CASE OnTemporaryLoop(j)
      <4>1. loops' \in 1..MaxLoops
        BY <1>0, <3>3, EventLoopsAssumption DEF OnTemporaryLoop
      <4>2. QED
        BY <3>3, <4>1 DEF OnTemporaryLoop
    <3>4. QED
      BY <1>2, <3>1, <3>2, <3>3
  <2> DEFINE next == [NoJob EXCEPT !.pc = "engine", !.loop = l]
  <2>2. next \in Job /\ next.loop # 0
    <3>1. l \in 0..MaxLoops /\ l # 0 /\ 0 \in 0..MaxEngines
      BY EventLoopsAssumption
    <3>2. QED
      BY <3>1 DEF NoJob, Job
  <2> HIDE DEF next
  <2>3. job' \in [Jobs -> Job] /\ Placed'
    BY <1>1, <2>1, <2>2 DEF next
  <2>4. /\ phase = "up"
        /\ UNCHANGED <<kind, phase, engines, engine, engineLoop, maker, pool, clients, orphaned,
                       abandoned, raced>>
    BY <1>2 DEF OnWorkerLoop, OnServerLoop, OnTemporaryLoop, JobAt
  <2>5. loops' \in 0..MaxLoops
    BY <2>1, EventLoopsAssumption
  <2>6. QED
    BY <2>3, <2>4, <2>5 DEF LoopsTypeOK, clients
<1>3. CASE TakeEngine(j)
  <2> DEFINE next == [job[j] EXCEPT !.pc = "maker", !.engine = engine']
  <2>1. /\ phase = "up" /\ job[j].pc = "engine" /\ GetEngine(job[j].loop)
        /\ job' = [job EXCEPT ![j] = next]
        /\ UNCHANGED <<kind, phase, loops, clients, orphaned>>
    BY <1>0, <1>3 DEF TakeEngine, JobAt
  <2>2. job[j].loop \in Loop
    BY <1>0, <2>1, EventLoopsAssumption DEF Placed, Job, Loop
  <2>3. /\ engine' \in 0..MaxEngines /\ engineLoop' \in 0..MaxLoops
        /\ engines' \in 0..MaxEngines /\ maker' \in 0..MaxEngines
        /\ pool' \in [Engine -> SUBSET Loop]
    BY <2>1, <2>2, EngineTypes
  <2>4. next \in Job /\ next.loop = job[j].loop
    BY <1>0, <2>3 DEF Job
  <2> HIDE DEF next
  <2>5. next.loop # 0
    BY <2>1, <2>4 DEF Placed
  <2>6. job' \in [Jobs -> Job] /\ Placed'
    BY <1>0, <1>1, <2>1, <2>4, <2>5
  <2>7. raced' \in BOOLEAN /\ (raced => raced') /\ abandoned' \subseteq Engine
    <3>1. engine # 0 => engine \in Engine
      BY EventLoopsAssumption DEF LoopsTypeOK, Engine
    <3>2. QED
      BY <1>3, <3>1 DEF TakeEngine, LoopsTypeOK
  <2>8. QED
    BY <2>1, <2>3, <2>6, <2>7 DEF LoopsTypeOK, clients
<1>4. CASE MakeMaker(j)
  <2> DEFINE next == [job[j] EXCEPT !.pc = "return"]
  <2>1. /\ phase = "up" /\ job[j].pc = "maker" /\ maker' \in {maker, job[j].engine}
        /\ job' = [job EXCEPT ![j] = next]
        /\ UNCHANGED <<kind, phase, loops, engines, engine, engineLoop, pool, clients, orphaned,
                       abandoned, raced>>
    BY <1>0, <1>4 DEF MakeMaker, JobAt
  <2>2. next \in Job /\ next.loop = job[j].loop /\ job[j].engine \in 0..MaxEngines
    BY <1>0 DEF Job
  <2> HIDE DEF next
  <2>3. job' \in [Jobs -> Job] /\ Placed'
    BY <1>0, <1>1, <2>1, <2>2 DEF Placed
  <2>4. QED
    BY <2>1, <2>2, <2>3 DEF LoopsTypeOK, clients
<1>5. CASE OpenSession(j)
  <2> DEFINE next == IF maker = 0 THEN NoJob
                     ELSE [job[j] EXCEPT !.pc = "session", !.engine = maker]
  <2>1. /\ phase = "up" /\ job[j].pc = "return" /\ job' = [job EXCEPT ![j] = next]
        /\ UNCHANGED <<kind, phase, loops, engines, engine, engineLoop, maker, pool, clients,
                       orphaned, abandoned, raced>>
    BY <1>0, <1>5 DEF OpenSession, JobAt
  <2>2. next \in Job /\ (next = NoJob \/ next.loop = job[j].loop)
    BY <1>0 DEF Job, LoopsTypeOK
  <2> HIDE DEF next
  <2>3. job' \in [Jobs -> Job] /\ Placed'
    BY <1>0, <1>1, <2>1, <2>2 DEF Placed
  <2>4. QED
    BY <2>1, <2>3 DEF LoopsTypeOK, clients
<1>9. CASE Execute(j)
  <2>1. /\ phase = "up" /\ job[j].pc = "session"
        /\ pool' = [pool EXCEPT ![job[j].engine] = @ \union {job[j].loop}]
        /\ UNCHANGED <<kind, phase, loops, engines, engine, engineLoop, maker, clients, job,
                       orphaned, abandoned, raced>>
    BY <1>9 DEF Execute, JobAt
  <2>2. job[j].loop \in Loop
    BY <1>0, <2>1, EventLoopsAssumption DEF Placed, Job, Loop
  <2>3. pool' \in [Engine -> SUBSET Loop]
    BY <2>1, <2>2 DEF LoopsTypeOK
  <2>4. QED
    BY <2>1, <2>3 DEF LoopsTypeOK, Placed, clients
<1>6. CASE GetRedis(j) \/ GetTools(j) \/ GetToolsForProfile(j)
  <2>1. /\ phase = "up"
        /\ UNCHANGED <<kind, phase, loops, engines, engine, engineLoop, maker, pool, job, orphaned,
                       abandoned, raced>>
    BY <1>6 DEF GetRedis, GetTools, GetToolsForProfile, JobAt
  <2>2. redis' \in BOOLEAN /\ mcp' \in {"none", "client", "broken"} /\ agentMcp' \in BOOLEAN
    BY <1>6 DEF GetRedis, GetTools, GetToolsForProfile, LoopsTypeOK
  <2>3. QED
    BY <2>1, <2>2 DEF LoopsTypeOK, Placed
<1>7. CASE EndJob(j)
  <2>1. /\ phase = "up" /\ job' = [job EXCEPT ![j] = NoJob]
        /\ UNCHANGED <<kind, phase, loops, engines, engine, engineLoop, maker, pool, clients, orphaned,
                       abandoned, raced>>
    BY <1>7 DEF EndJob, JobAt
  <2>2. job' \in [Jobs -> Job] /\ Placed'
    BY <1>0, <1>1, <2>1
  <2>3. QED
    BY <2>1, <2>2 DEF LoopsTypeOK, clients
<1>8. QED
  BY <1>2, <1>3, <1>4, <1>5, <1>6, <1>7, <1>9 DEF JobSteps

\* The steps of the process itself keep the types too.
LEMMA ProcessStepTypes ==
    ASSUME LoopsTypeOK, Placed, BootOK,
           \/ InitResources \/ WorkerLoopIsMade \/ NoInit \/ Closing
           \/ WorkerShutdownTimesOut \/ ResetForNewLoop
    PROVE  LoopsTypeOK' /\ Placed' /\ phase' # "boot" /\ UNCHANGED raced
<1>1. CASE InitResources
  <2>1. 1 \in Loop /\ 1 \in 0..MaxEngines /\ 1 \in 0..MaxLoops
    BY EventLoopsAssumption DEF Loop
  <2>2. /\ engine' = 1 /\ engineLoop' = 1 /\ engines' = 1 /\ maker' = 1 /\ redis' = TRUE
        /\ pool' = [pool EXCEPT ![1] = {1}] /\ phase' = "up"
        /\ UNCHANGED <<kind, loops, mcp, agentMcp, job, orphaned, abandoned, raced>>
    BY <1>1 DEF InitResources
  <2>3. pool' \in [Engine -> SUBSET Loop]
    BY <2>1, <2>2 DEF LoopsTypeOK
  <2>4. QED
    BY <2>1, <2>2, <2>3 DEF LoopsTypeOK, Placed
<1>2. CASE WorkerLoopIsMade
  <2>1. phase = "boot" /\ loops' = loops + 1 /\ phase' = "up" /\ redis' = FALSE
        /\ UNCHANGED <<mcp, agentMcp, kind, job, abandoned, raced, maker, engines>>
    BY <1>2 DEF WorkerLoopIsMade, CloseRedis, DisposeCurrentEngine
  <2>2. loops' \in 0..MaxLoops /\ loops' # 0
    BY <2>1, EventLoopsAssumption DEF BootOK
  <2>3. engine' \in {engine, 0} /\ engineLoop' \in {engineLoop, 0}
    BY <1>2 DEF WorkerLoopIsMade, DisposeCurrentEngine
  <2>4. pool' = pool \/ pool' = [pool EXCEPT ![engine] = {}]
    BY <1>2 DEF WorkerLoopIsMade, DisposeCurrentEngine
  <2>5. pool' \in [Engine -> SUBSET Loop]
    BY <2>4 DEF LoopsTypeOK
  <2>6. orphaned' \in BOOLEAN
    BY <1>2 DEF WorkerLoopIsMade, DisposeCurrentEngine, LoopsTypeOK
  <2>7. engine' \in 0..MaxEngines /\ engineLoop' \in 0..MaxLoops
    BY <2>3, EventLoopsAssumption DEF LoopsTypeOK
  <2>8. QED
    BY <2>1, <2>2, <2>5, <2>6, <2>7 DEF LoopsTypeOK, Placed
<1>3. CASE NoInit
  BY <1>3 DEF NoInit, LoopsTypeOK, Placed, clients
<1>4. CASE Closing \/ ResetForNewLoop
  <2>1. /\ engine' \in {0, engine} /\ engineLoop' \in {0, engineLoop} /\ maker' \in {0, maker}
        /\ UNCHANGED <<engines, kind, loops, job, orphaned, abandoned, raced>>
    BY <1>4 DEF Closing, DatabaseIsClosed, McpIsClosed, RedisIsClosed, CloseDatabase,
       ResetForNewLoop
  <2>2. pool' = pool \/ pool' = [pool EXCEPT ![engine] = {}]
    BY <1>4 DEF Closing, DatabaseIsClosed, McpIsClosed, RedisIsClosed, CloseDatabase,
       ResetForNewLoop
  <2>3. pool' \in [Engine -> SUBSET Loop]
    BY <2>2 DEF LoopsTypeOK
  <2>4. redis' \in BOOLEAN /\ mcp' \in {"none", "client", "broken"} /\ agentMcp' \in BOOLEAN
    BY <1>4 DEF Closing, DatabaseIsClosed, McpIsClosed, RedisIsClosed, CloseMcp, CloseRedis,
       ResetForNewLoop, LoopsTypeOK, clients
  <2>5. 0 \in 0..MaxEngines /\ 0 \in 0..MaxLoops
    BY EventLoopsAssumption
  <2>6. phase' \in {"up", "mcp", "redis", "down"}
    BY <1>4 DEF Closing, DatabaseIsClosed, McpIsClosed, RedisIsClosed, ResetForNewLoop
  <2>7. QED
    BY <2>1, <2>3, <2>4, <2>5, <2>6 DEF LoopsTypeOK, Placed
<1>5. CASE WorkerShutdownTimesOut
  <2>1. NoJob \in Job /\ NoJob.pc = "idle"
    BY EventLoopsAssumption DEF NoJob, Job
  <2>2. QED
    BY <1>5, <2>1 DEF WorkerShutdownTimesOut, LoopsTypeOK, Placed, clients
<1>6. QED
  BY <1>1, <1>2, <1>3, <1>4, <1>5

\* Job steps leave no engine unaccounted for: one that get_engine forgets under a job is noted.
LEMMA JobsAreAccounted ==
    ASSUME LoopsTypeOK, Accounted, NEW j \in Jobs, JobSteps(j)
    PROVE  Accounted'
<1> SUFFICES ASSUME kind # "none" PROVE Accounted'
  BY DEF Accounted, JobSteps, OnWorkerLoop, OnServerLoop, OnTemporaryLoop, TakeEngine, MakeMaker,
     OpenSession, Execute, GetRedis, GetTools, GetToolsForProfile, EndJob
<1>0. /\ job \in [Jobs -> Job] /\ job[j] \in Job /\ NoJob.engine = 0
      /\ maker # 0 => maker \in Reachable
      /\ \A e \in Engine : pool[e] # {} => e \in Reachable
      /\ \A k \in Jobs : job[k].engine # 0 => job[k].engine \in Reachable
  BY DEF LoopsTypeOK, Accounted, NoJob
<1>1. CASE TakeEngine(j)
  <2>1. /\ \/ UNCHANGED <<engine, maker, pool>>
           \/ /\ engine # 0 => maker' = 0 /\ pool' = [pool EXCEPT ![engine] = {}]
              /\ engine = 0 => maker' = maker /\ pool' = pool
        /\ job' = [job EXCEPT ![j].pc = "maker", ![j].engine = engine']
        /\ abandoned' = IF engine \notin {0, engine'} /\ \E k \in Jobs : job[k].engine = engine
                        THEN abandoned \union {engine} ELSE abandoned
        /\ UNCHANGED orphaned
    BY <1>1 DEF TakeEngine, GetEngine
  <2>2. /\ job'[j].engine = engine'
        /\ \A k \in Jobs \ {j} : job'[k] = job[k]
    BY <1>0, <2>1 DEF Job
  <2>3. \A e : e \in Reachable /\ e # engine => e \in Reachable'
    BY <2>1 DEF Reachable
  <2>4. engine # 0 /\ (\E k \in Jobs : job[k].engine = engine) => engine \in Reachable'
    BY <2>1 DEF Reachable
  <2>5. engine' \in Reachable'
    BY DEF Reachable
  <2>6. maker' # 0 => maker' \in Reachable'
    BY <1>0, <2>1, <2>3, <2>5
  <2>7. ASSUME NEW e \in Engine, pool'[e] # {} PROVE e \in Reachable'
    <3>1. e # 0
      BY EventLoopsAssumption DEF Engine
    <3>2. CASE e = engine
      <4>1. pool' = pool /\ engine' = engine
        BY <2>1, <2>7, <3>1, <3>2 DEF LoopsTypeOK
      <4>2. QED
        BY <2>5, <3>2, <4>1
    <3>3. CASE e # engine
      <4>1. pool'[e] = pool[e]
        BY <2>1, <3>3 DEF LoopsTypeOK
      <4>2. QED
        BY <1>0, <2>3, <2>7, <3>3, <4>1
    <3>4. QED
      BY <3>2, <3>3
  <2>8. ASSUME NEW k \in Jobs, job'[k].engine # 0 PROVE job'[k].engine \in Reachable'
    <3>1. CASE k = j
      BY <2>2, <2>5, <3>1
    <3>2. CASE k # j
      <4>1. job'[k].engine = job[k].engine /\ job[k].engine \in Reachable
        BY <1>0, <2>2, <2>8, <3>2
      <4>2. QED
        BY <2>3, <2>4, <2>8, <4>1
    <3>3. QED
      BY <3>1, <3>2
  <2>9. QED
    BY <2>6, <2>7, <2>8 DEF Accounted
<1>2. CASE ~TakeEngine(j)
  <2>1. UNCHANGED <<engine, abandoned, orphaned>>
    BY <1>2 DEF JobSteps, OnWorkerLoop, OnServerLoop, OnTemporaryLoop, MakeMaker, OpenSession,
       Execute, GetRedis, GetTools, GetToolsForProfile, EndJob
  <2>2. Reachable' = Reachable
    BY <2>1 DEF Reachable
  <2>3. maker' \in {maker, job[j].engine}
    BY <1>2 DEF JobSteps, OnWorkerLoop, OnServerLoop, OnTemporaryLoop, MakeMaker, OpenSession,
       Execute, GetRedis, GetTools, GetToolsForProfile, EndJob
  <2>4. maker' # 0 => maker' \in Reachable'
    BY <1>0, <2>2, <2>3
  <2>5. pool' = pool \/ pool' = [pool EXCEPT ![job[j].engine] = @ \union {job[j].loop}]
    BY <1>2 DEF JobSteps, OnWorkerLoop, OnServerLoop, OnTemporaryLoop, MakeMaker, OpenSession,
       Execute, GetRedis, GetTools, GetToolsForProfile, EndJob
  <2>6. ASSUME NEW e \in Engine, pool'[e] # {} PROVE e \in Reachable'
    <3>1. e # 0
      BY EventLoopsAssumption DEF Engine
    <3>2. pool[e] # {} \/ e = job[j].engine
      BY <2>5, <2>6 DEF LoopsTypeOK
    <3>3. QED
      BY <1>0, <2>2, <3>1, <3>2
  <2>7. /\ job'[j].engine \in {0, job[j].engine, maker}
        /\ \A k \in Jobs \ {j} : job'[k] = job[k]
    <3>1. CASE OnWorkerLoop(j) \/ OnServerLoop(j) \/ OnTemporaryLoop(j) \/ EndJob(j)
      <4>1. \/ job' = [job EXCEPT ![j] = NoJob]
            \/ \E l : job' = [job EXCEPT ![j] = [NoJob EXCEPT !.pc = "engine", !.loop = l]]
        BY <3>1 DEF OnWorkerLoop, OnServerLoop, OnTemporaryLoop, EndJob
      <4>2. \A l : [NoJob EXCEPT !.pc = "engine", !.loop = l].engine = 0
        BY DEF NoJob
      <4>3. \E next : next.engine = 0 /\ job' = [job EXCEPT ![j] = next]
        BY <1>0, <4>1, <4>2
      <4>4. QED
        BY <1>0, <4>3
    <3>2. CASE MakeMaker(j)
      BY <1>0, <3>2 DEF MakeMaker, Job
    <3>3. CASE OpenSession(j)
      <4> DEFINE next == IF maker = 0 THEN NoJob
                        ELSE [job[j] EXCEPT !.pc = "session", !.engine = maker]
      <4>1. job' = [job EXCEPT ![j] = next]
        BY <3>3 DEF OpenSession
      <4>2. next.engine \in {0, maker}
        BY <1>0 DEF Job
      <4> HIDE DEF next
      <4>3. QED
        BY <1>0, <4>1, <4>2
    <3>4. CASE Execute(j) \/ GetRedis(j) \/ GetTools(j) \/ GetToolsForProfile(j)
      BY <3>4 DEF Execute, GetRedis, GetTools, GetToolsForProfile
    <3>5. QED
      BY <1>2, <3>1, <3>2, <3>3, <3>4 DEF JobSteps
  <2>8. ASSUME NEW k \in Jobs, job'[k].engine # 0 PROVE job'[k].engine \in Reachable'
    BY <1>0, <2>2, <2>7, <2>8
  <2>9. QED
    BY <2>4, <2>6, <2>8 DEF Accounted
<1>3. QED
  BY <1>1, <1>2

\* The start of a process and its shutdown leave none unaccounted for either.
LEMMA ProcessIsAccounted ==
    ASSUME LoopsTypeOK, BootOK, raced \/ Orderly, Accounted,
           \/ InitResources \/ WorkerLoopIsMade \/ NoInit \/ Closing
           \/ WorkerShutdownTimesOut \/ ResetForNewLoop
    PROVE  Accounted'
<1>0. /\ kind # "none" /\ maker # 0 => maker \in Reachable
      /\ kind # "none" => \A e \in Engine : pool[e] # {} => e \in Reachable
      /\ 0 \notin Engine /\ NoJob.engine = 0
  BY EventLoopsAssumption DEF Accounted, NoJob, Engine
<1>1. CASE InitResources
  <2>1. /\ phase = "boot" /\ kind = "api" /\ engine' = 1 /\ maker' = 1
        /\ pool' = [pool EXCEPT ![1] = {1}] /\ UNCHANGED <<kind, job, orphaned, abandoned>>
    BY <1>1 DEF InitResources
  <2>2. engines = 0 /\ NoJobs /\ Orderly
    BY <2>1 DEF BootOK
  <2>3. \A e \in Engine : pool[e] = {}
    BY <2>2 DEF Orderly, NumbersOK, Engine
  <2>4. \A e \in Engine : pool'[e] # {} => e = 1
    BY <2>1, <2>3 DEF LoopsTypeOK
  <2>5. QED
    BY <1>0, <2>1, <2>2, <2>4 DEF Accounted, Reachable, NoJobs
<1>2. CASE WorkerLoopIsMade
  <2>1. phase = "boot" /\ UNCHANGED <<kind, job, maker, abandoned>>
    BY <1>2 DEF WorkerLoopIsMade, DisposeCurrentEngine
  <2>2. NoJobs /\ Orderly /\ ~orphaned /\ abandoned = {} /\ engines \in {0, 1}
    BY <2>1 DEF BootOK
  <2>3. engine \in {0, 1} /\ maker \in {0, 1}
    BY <2>2, EventLoopsAssumption DEF Orderly, NumbersOK, LoopsTypeOK
  <2>4. CASE engine = 0
    <3>1. UNCHANGED <<engine, pool, orphaned>>
      BY <1>2, <2>4 DEF WorkerLoopIsMade
    <3>2. QED
      BY <1>0, <2>1, <2>2, <3>1 DEF Accounted, Reachable, NoJobs
  <2>5. CASE engine # 0
    <3>1. /\ pool' \in {pool, [pool EXCEPT ![engine] = {}]}
          /\ orphaned' = (maker # 0 \/ pool' = pool)
      BY <1>2, <2>5 DEF WorkerLoopIsMade, DisposeCurrentEngine
    <3>2. \A e \in Engine : pool'[e] # {} => pool[e] # {} /\ (e = engine => pool' = pool)
      BY <3>1 DEF LoopsTypeOK
    <3>3. kind # "none" => \A e \in Engine : pool'[e] # {} => e = 1 /\ orphaned'
      BY <1>0, <2>2, <2>3, <2>5, <3>1, <3>2 DEF Reachable
    <3>4. maker' # 0 => maker' \in Reachable'
      BY <2>1, <2>3, <3>1 DEF Reachable
    <3>5. QED
      BY <1>0, <2>1, <2>2, <3>3, <3>4 DEF Accounted, Reachable, NoJobs
  <2>6. QED
    BY <2>4, <2>5
<1>3. CASE NoInit \/ ResetForNewLoop
  BY <1>3 DEF NoInit, ResetForNewLoop, Accounted
<1>4. CASE Closing
  <2>1. UNCHANGED <<kind, job, orphaned, abandoned>>
    BY <1>4 DEF Closing, DatabaseIsClosed, McpIsClosed, RedisIsClosed
  <2>2. CASE UNCHANGED <<engine, maker, pool>>
    BY <2>1, <2>2 DEF Accounted, Reachable
  <2>3. CASE /\ engine' = 0 /\ maker' = 0 /\ NoJobs
             /\ pool' = IF engine # 0 THEN [pool EXCEPT ![engine] = {}] ELSE pool
    <3>1. \A e \in Engine : pool'[e] # {} => pool[e] # {} /\ e # engine
      BY <1>0, <2>3 DEF LoopsTypeOK
    <3>2. kind # "none" => \A e \in Engine : pool'[e] # {} => e \in Reachable'
      BY <1>0, <2>1, <3>1 DEF Reachable
    <3>3. QED
      BY <1>0, <2>1, <2>3, <3>2 DEF Accounted, NoJobs
  <2>4. QED
    BY <1>4, <2>2, <2>3 DEF Closing, DatabaseIsClosed, McpIsClosed, RedisIsClosed, CloseDatabase
<1>5. CASE WorkerShutdownTimesOut
  BY <1>0, <1>5 DEF WorkerShutdownTimesOut, Accounted, Reachable
<1>6. QED
  BY <1>1, <1>2, <1>3, <1>4, <1>5

\* Every step of the process and of its jobs preserves the invariant.
LEMMA LoopsStep == LoopsIInv /\ [LoopsNext]_loopVars => LoopsIInv'
<1> SUFFICES ASSUME LoopsIInv, [LoopsNext]_loopVars PROVE LoopsIInv'
  OBVIOUS
<1>0. LoopsTypeOK /\ Placed /\ BootOK /\ (raced \/ Orderly) /\ Accounted /\ ClientsClosed
  BY DEF LoopsIInv
<1>1. CASE UNCHANGED loopVars
  <2>1. LoopsTypeOK' /\ Placed' /\ BootOK' /\ Accounted' /\ ClientsClosed' /\ UNCHANGED raced
    BY <1>0, <1>1 DEF loopVars, clients, LoopsTypeOK, Placed, BootOK, NoJobs, Accounted, Reachable,
       ClientsClosed
  <2>2. Orderly => Orderly'
    BY <1>1 DEF loopVars, Orderly, NumbersOK, EngineOK, MakerOK, SessionOK, InMaker
  <2>3. QED
    BY <1>0, <2>1, <2>2 DEF LoopsIInv
<1>2. ASSUME NEW j \in Jobs, JobSteps(j) PROVE LoopsIInv'
  <2>1. /\ LoopsTypeOK' /\ Placed' /\ phase = "up" /\ phase' = "up"
        /\ UNCHANGED <<kind, orphaned>> /\ (raced => raced')
    BY <1>0, <1>2, JobStepTypes
  <2>2. ASSUME ~raced' PROVE Orderly'
    <3>0. Orderly
      BY <1>0, <2>1, <2>2
    <3>1. CASE OnWorkerLoop(j) \/ OnServerLoop(j) \/ OnTemporaryLoop(j) \/ EndJob(j)
      <4>1. UNCHANGED <<kind, phase, engines, engine, engineLoop, maker, pool, clients, orphaned>>
        BY <3>1 DEF OnWorkerLoop, OnServerLoop, OnTemporaryLoop, EndJob
      <4>2. /\ job' = [job EXCEPT ![j] = job'[j]] /\ job'[j] \in Job
            /\ job'[j].pc \in {"idle", "engine"}
        <5>1. job \in [Jobs -> Job] /\ job' \in [Jobs -> Job]
          BY <1>0, <2>1 DEF LoopsTypeOK
        <5>2. \/ job' = [job EXCEPT ![j] = NoJob]
              \/ \E l : job' = [job EXCEPT ![j] = [NoJob EXCEPT !.pc = "engine", !.loop = l]]
          BY <3>1 DEF OnWorkerLoop, OnServerLoop, OnTemporaryLoop, EndJob
        <5>3. NoJob.pc = "idle" /\ \A l : [NoJob EXCEPT !.pc = "engine", !.loop = l].pc = "engine"
          BY DEF NoJob
        <5>4. QED
          BY <5>1, <5>2, <5>3, ZenonT(60)
      <4>3. QED
        BY <1>0, <3>0, <4>1, <4>2, JobMovesOutside
    <3>2. CASE TakeEngine(j)
      <4>1. job[j].loop # 0
        BY <1>0, <3>2 DEF TakeEngine, JobAt, Placed
      <4>2. QED
        BY <1>0, <2>2, <3>0, <3>2, <4>1, TakesEngine
    <3>3. CASE MakeMaker(j)
      BY <1>0, <3>0, <3>3, MakesMaker
    <3>4. CASE OpenSession(j)
      BY <1>0, <3>0, <3>4, OpensSession
    <3>5. CASE Execute(j)
      BY <1>0, <3>0, <3>5, Executes
    <3>6. CASE GetRedis(j) \/ GetTools(j) \/ GetToolsForProfile(j)
      BY <3>0, <3>6, ClientsMove DEF GetRedis, GetTools, GetToolsForProfile
    <3>7. QED
      BY <1>2, <3>1, <3>2, <3>3, <3>4, <3>5, <3>6 DEF JobSteps
  <2>3. BootOK' /\ ClientsClosed'
    BY <2>1 DEF BootOK, ClientsClosed
  <2>4. Accounted'
    BY <1>0, <1>2, JobsAreAccounted
  <2>5. QED
    BY <2>1, <2>2, <2>3, <2>4 DEF LoopsIInv
<1>3. CASE \/ InitResources \/ WorkerLoopIsMade \/ NoInit \/ (Closing /\ kind # "none")
           \/ WorkerShutdownTimesOut \/ ResetForNewLoop
  <2>1. LoopsTypeOK' /\ Placed' /\ phase' # "boot" /\ UNCHANGED raced
    BY <1>0, <1>3, ProcessStepTypes
  <2>2. Accounted'
    BY <1>0, <1>3, ProcessIsAccounted
  <2>3. BootOK'
    BY <2>1 DEF BootOK
  <2>4. ClientsClosed'
    <3>1. CASE Closing /\ kind # "none"
      BY <1>0, <3>1 DEF ClientsClosed, Closing, DatabaseIsClosed, McpIsClosed, RedisIsClosed, CloseMcp,
         CloseRedis
    <3>2. CASE \/ InitResources \/ WorkerLoopIsMade \/ NoInit
               \/ WorkerShutdownTimesOut \/ ResetForNewLoop
      <4>1. phase' \in {"up", "cut"}
        BY <3>2 DEF InitResources, WorkerLoopIsMade, NoInit, WorkerShutdownTimesOut, ResetForNewLoop
      <4>2. QED
        BY <4>1 DEF ClientsClosed
    <3>3. QED
      BY <1>3, <3>1, <3>2
  <2>5. ASSUME Orderly PROVE Orderly'
    <3>1. CASE NoInit
      BY <2>5, <3>1, ClientsMove DEF NoInit
    <3>2. CASE Closing
      <4>1. CASE DatabaseIsClosed
        BY <1>0, <2>5, <4>1, DatabaseCloses
      <4>2. CASE McpIsClosed \/ RedisIsClosed
        BY <2>5, <4>2, ClientsMove DEF McpIsClosed, RedisIsClosed
      <4>3. QED
        BY <3>2, <4>1, <4>2 DEF Closing
    <3>3. CASE \/ InitResources \/ WorkerLoopIsMade
               \/ WorkerShutdownTimesOut \/ ResetForNewLoop
      BY <1>0, <2>5, <3>3, ResourcesAreInited, WorkerIsInited, ShutdownTimesOut, ResetsForNewLoop
    <3>4. QED
      BY <1>3, <3>1, <3>2, <3>3
  <2>6. QED
    BY <1>0, <2>1, <2>2, <2>3, <2>4, <2>5 DEF LoopsIInv
<1>7. CASE LoopsNext
  BY <1>2, <1>3, <1>7
     DEF LoopsNext, JobSteps, WorkerProcessInit, WorkerInit, ShutdownResources,
         WorkerProcessShutdown, WorkerShutdown
<1>8. QED
  BY <1>1, <1>7

\* The invariant holds of a process that is starting.
LEMMA LoopsStart == LoopsInit => LoopsIInv
<1> SUFFICES ASSUME LoopsInit PROVE LoopsIInv
  OBVIOUS
<1>1. PICK used \in {"no", "engine", "sessions"} :
          /\ engines = IF used = "no" THEN 0 ELSE 1
          /\ engine = engines /\ engineLoop = engines
          /\ maker = IF used = "sessions" THEN 1 ELSE 0
          /\ pool = [e \in Engine |-> IF e = engines THEN {1} ELSE {}]
          /\ kind = "api" => used = "no"
  BY DEF LoopsInit
<1>2. /\ kind \in Kinds /\ phase = "boot" /\ loops = 1 /\ redis \in BOOLEAN /\ mcp = "none"
      /\ agentMcp = FALSE /\ job = [j \in Jobs |-> NoJob] /\ orphaned = FALSE
      /\ abandoned = {} /\ raced = FALSE
  BY DEF LoopsInit
<1>3. /\ engines \in {0, 1} /\ engine = engines /\ engineLoop = engines /\ maker \in {0, engines}
      /\ kind = "api" => engines = 0
  BY <1>1
<1>4. 1 \in Loop /\ 1 \in Engine /\ 0 \notin Engine /\ 1 \in 0..MaxLoops /\ 0 \in 0..MaxLoops
      /\ 0 \in 0..MaxEngines /\ 1 \in 0..MaxEngines
  BY EventLoopsAssumption DEF Loop, Engine
<1>5. pool \in [Engine -> SUBSET Loop] /\ \A e \in Engine : e # engine => pool[e] = {}
  BY <1>1, <1>3, <1>4
<1>6. NoJob \in Job /\ NoJob.pc = "idle" /\ NoJob.engine = 0
  BY <1>4 DEF NoJob, Job
<1>7. LoopsTypeOK /\ Placed /\ BootOK
  BY <1>2, <1>3, <1>4, <1>5, <1>6 DEF LoopsTypeOK, Placed, BootOK, NoJobs
<1>8. \A j \in Jobs : MakerOK(j) /\ SessionOK(j)
  BY <1>2, <1>6 DEF MakerOK, SessionOK, InMaker
<1>9. NumbersOK
  <2>1. \A e \in Engine : e > engines => e # engine
    BY <1>3 DEF Engine
  <2>2. QED
    BY <1>2, <1>3, <1>5, <2>1 DEF NumbersOK
<1>10. EngineOK
  BY <1>1, <1>3, <1>4 DEF EngineOK
<1>11. Accounted
  BY <1>2, <1>3, <1>5, <1>6 DEF Accounted, Reachable
<1>12. ClientsClosed
  BY <1>2 DEF ClientsClosed
<1>13. QED
  BY <1>7, <1>8, <1>9, <1>10, <1>11, <1>12 DEF LoopsIInv, Orderly

\* For any number of jobs, loops and engines and every kind of process: a session shares its
\* pool with no other loop's connections, unless two loops raced in get_session_maker or an
\* inherited engine left an orphan.
THEOREM SessionsKeepToTheirLoop == LoopsSpec => []SessionsStayOnTheirLoop
<1>1. LoopsIInv => SessionsStayOnTheirLoop
  BY DEF LoopsIInv, Orderly, SessionOK, SessionsStayOnTheirLoop
<1>2. QED
  BY <1>1, LoopsStart, LoopsStep, PTL DEF LoopsSpec

\* The same for the shutdown, after races too: each client is closed, and each engine with a
\* connection left is one that could not be disposed of, was inherited or was forgotten under a
\* job.
THEOREM ShutdownCloses == LoopsSpec => []ClosedAtShutdown
<1>1. LoopsIInv => ClosedAtShutdown
  BY DEF LoopsIInv, Accounted, ClientsClosed, ClosedAtShutdown
<1>2. QED
  BY <1>1, LoopsStart, LoopsStep, PTL DEF LoopsSpec

-----------------------------------------------------------------------------
(* ConfigLayers.                                                           *)

\* The inductive invariant of ConfigLayers: a row for a model is the only one for its slot,
\* as the unique constraint has it, whichever rows expire and come back.
OneRowPerSlot ==
    \A o, q \in Rows : /\ override[o].slot = override[q].slot
                       /\ override[o].slot.target # Unset
                       => o = q
ConfigIInv == override \in [Overrides -> OverrideRow \union {Unset}] /\ OneRowPerSlot

\* One row is written, and the rows that are there still have slots of their own.
LEMMA RowIsWritten ==
    ASSUME ConfigIInv, NEW o \in Overrides, NEW row \in OverrideRow \union {Unset},
           override' = [override EXCEPT ![o] = row],
           row # Unset => \/ row.slot.target = Unset
                          \/ \A q \in Rows : override[q].slot = row.slot => q = o
    PROVE  ConfigIInv'
<1>1. override' \in [Overrides -> OverrideRow \union {Unset}]
  BY DEF ConfigIInv
<1>2. override'[o] = row /\ \A q \in Overrides : q # o => override'[q] = override[q]
  BY DEF ConfigIInv
<1>3. ASSUME NEW p \in Overrides, NEW q \in Overrides, override'[p] # Unset, override'[q] # Unset,
             override'[p].slot = override'[q].slot, override'[p].slot.target # Unset
      PROVE  p = q
  <2>1. CASE p # o /\ q # o
    <3>1. p \in Rows /\ q \in Rows
      BY <1>2, <1>3, <2>1 DEF Rows
    <3>2. QED
      BY <1>2, <1>3, <2>1, <3>1 DEF ConfigIInv, OneRowPerSlot
  <2>2. CASE p = o /\ q # o
    <3>1. q \in Rows
      BY <1>2, <1>3, <2>2 DEF Rows
    <3>2. QED
      BY <1>2, <1>3, <2>2, <3>1
  <2>3. CASE p # o /\ q = o
    <3>1. p \in Rows
      BY <1>2, <1>3, <2>3 DEF Rows
    <3>2. QED
      BY <1>2, <1>3, <2>3, <3>1
  <2>4. QED
    BY <2>1, <2>2, <2>3
<1>4. OneRowPerSlot'
  BY <1>3 DEF OneRowPerSlot, Rows
<1>5. QED
  BY <1>1, <1>4 DEF ConfigIInv

\* Every request of the admin and of the user keeps the invariant.
LEMMA ConfigStep == ConfigIInv /\ [ConfigNext]_configVars => ConfigIInv'
<1> SUFFICES ASSUME ConfigIInv, [ConfigNext]_configVars PROVE ConfigIInv'
  OBVIOUS
<1>1. ASSUME NEW o \in Overrides, CreateOverride(o) PROVE ConfigIInv'
  <2>1. PICK slot \in Slots, priority \in {0, 1} : \E value \in AdminValues(slot) :
          /\ FreeSlot(slot)
          /\ override' = [override EXCEPT ![o] = [slot |-> slot, value |-> value,
                                                  priority |-> priority, active |-> TRUE]]
    BY <1>1 DEF CreateOverride
  <2>2. PICK value \in AdminValues(slot) :
          /\ FreeSlot(slot)
          /\ override' = [override EXCEPT ![o] = [slot |-> slot, value |-> value,
                                                  priority |-> priority, active |-> TRUE]]
    BY <2>1
  <2> DEFINE row == [slot |-> slot, value |-> value, priority |-> priority, active |-> TRUE]
  <2>3. row \in OverrideRow
    BY DEF OverrideRow, AdminValues
  <2>4. row.slot = slot
    OBVIOUS
  <2>5. override' = [override EXCEPT ![o] = row]
    BY <2>2
  <2> HIDE DEF row
  <2>6. \/ row.slot.target = Unset
        \/ \A q \in Rows : override[q].slot = row.slot => q = o
    BY <2>2, <2>4 DEF FreeSlot
  <2>7. QED
    BY <2>3, <2>5, <2>6, RowIsWritten
<1>2. ASSUME NEW o \in Overrides, UpdateOverride(o) PROVE ConfigIInv'
  <2>1. override[o] \in OverrideRow /\ o \in Rows
    BY <1>2 DEF UpdateOverride, Rows, ConfigIInv
  <2>2. PICK value \in AdminValues(override[o].slot), priority \in {0, 1}, active \in BOOLEAN :
          override' = [override EXCEPT ![o].value = value, ![o].priority = priority,
                                       ![o].active = active]
    BY <1>2 DEF UpdateOverride
  <2> DEFINE row == [[[override[o] EXCEPT !.value = value] EXCEPT !.priority = priority]
                       EXCEPT !.active = active]
  <2>3. row \in OverrideRow /\ row.slot = override[o].slot
    <3>1. override[o] \in [slot : Slots, value : {1, 2} \union ConfigModels, priority : {0, 1},
                           active : BOOLEAN]
      BY <2>1 DEF OverrideRow
    <3>2. value \in {1, 2} \union ConfigModels
      BY DEF AdminValues
    <3>3. /\ row \in [slot : Slots, value : {1, 2} \union ConfigModels, priority : {0, 1},
                      active : BOOLEAN]
          /\ row.slot = override[o].slot /\ row.value = value
      BY <3>1, <3>2
    <3> HIDE DEF row
    <3>4. QED
      BY <3>3 DEF OverrideRow
  <2>4. override' = [override EXCEPT ![o] = row]
    BY <2>2 DEF ConfigIInv
  <2> HIDE DEF row
  <2>5. \/ row.slot.target = Unset
        \/ \A q \in Rows : override[q].slot = row.slot => q = o
    BY <2>1, <2>3 DEF ConfigIInv, OneRowPerSlot
  <2>6. QED
    BY <2>3, <2>4, <2>5, RowIsWritten
<1>3. ASSUME NEW o \in Overrides, DeleteOverride(o) PROVE ConfigIInv'
  BY <1>3, RowIsWritten DEF DeleteOverride
<1>4. CASE UNCHANGED override
  BY <1>4 DEF ConfigIInv, OneRowPerSlot, Rows
<1>5. QED
  BY <1>1, <1>2, <1>3, <1>4
  DEF ConfigNext, configVars, AllowOverride, SetPreference, DeletePreference

-----------------------------------------------------------------------------

\* Two elements of a finite set of which there are not more than one are the same.
LEMMA AtMostOne ==
    ASSUME NEW S, IsFiniteSet(S), ~(Cardinality(S) > 1), NEW x \in S, NEW y \in S
    PROVE  x = y
<1>1. Cardinality(S) \in Nat
  BY FS_CardinalityType
<1>2. IsFiniteSet(S \ {x}) /\ Cardinality(S \ {x}) = Cardinality(S) - 1
  BY FS_RemoveElement
<1>3. Cardinality(S \ {x}) \in Nat
  BY <1>2, FS_CardinalityType
<1>4. Cardinality(S \ {x}) = 0
  BY <1>1, <1>2, <1>3
<1>5. S \ {x} = {}
  BY <1>2, <1>4, FS_EmptySet
<1>6. QED
  BY <1>5

\* Where at most one row is in force, the row read last is the row of the highest priority.
LEMMA LastIsHighest ==
    ASSUME ConfigIInv, NEW slot, \A o, q \in InForce(slot) : o = q
    PROVE  Kept(slot) = Highest(slot)
<1>1. \A o, q \in InForce(slot) : /\ override[o].priority <= override[q].priority
                                  /\ override[o].priority >= override[q].priority
  <2>1. TAKE o, q \in InForce(slot)
  <2>2. override[o] \in OverrideRow
    BY DEF InForce, Rows, ConfigIInv
  <2>3. override[o].priority \in {0, 1}
    BY <2>2 DEF OverrideRow
  <2>4. QED
    BY <2>3
<1>2. Kept(slot) = {override[o].value : o \in InForce(slot)}
  BY <1>1 DEF Kept
<1>3. Highest(slot) = {override[o].value : o \in InForce(slot)}
  BY <1>1 DEF Highest
<1>4. QED
  BY <1>2, <1>3

\* The merge gives each setting to the layer that has the last word on it, whatever rows and
\* preferences there are and in whatever order they are read.
THEOREM LayersKeepTheirOrder == ConfigSpec => []LayersAreHonoured
<1>1. ConfigInit => ConfigIInv
  BY DEF ConfigInit, ConfigIInv, OneRowPerSlot, Rows
<1>2. ConfigIInv => LayersAreHonoured
  <2> SUFFICES ASSUME ConfigIInv PROVE LayersAreHonoured
    OBVIOUS
  <2>1. ASSUME NEW m \in ConfigModels, NEW p \in Params, p = "temperature" \/ Pref(m, p) = Unset
        PROVE  EffectiveParam(m, p) = Counts(m, p)
    <3> DEFINE slot == Slot("model", m, p)
    <3>1. slot.target = m
      BY DEF Slot
    <3>2. m # Unset
      BY ConfigLayersAssumption
    <3>3. \A o, q \in InForce(slot) : o = q
      BY <3>1, <3>2 DEF InForce, ConfigIInv, OneRowPerSlot
    <3>4. Kept(slot) = Highest(slot)
      BY <3>3, LastIsHighest
    <3> HIDE DEF slot
    <3>5. CASE Pref(m, p) = Unset
      <4>1. Given(Pref(m, p)) = {}
        BY <3>5 DEF Given
      <4>2. QED
        BY <3>4, <3>5, <4>1 DEF EffectiveParam, Counts, Over, slot
    <3>6. CASE Pref(m, p) # Unset
      <4>1. Given(Pref(m, p)) # {} /\ p = "temperature"
        BY <2>1, <3>6 DEF Given
      <4>2. QED
        BY <3>4, <3>6, <4>1 DEF EffectiveParam, Counts, Over, slot
    <3>7. QED
      BY <3>5, <3>6
  <2>2. \A slot : IsFiniteSet(InForce(slot))
    <3>1. TAKE slot
    <3>2. InForce(slot) \in SUBSET Overrides
      BY DEF InForce, Rows
    <3>3. QED
      BY <3>2, ConfigLayersAssumption, FS_Subset
  <2>3. ASSUME NEW p \in Params, ~(Cardinality(InForce(Slot("global", Unset, p))) > 1)
        PROVE  DefaultParam(p) = Over({pref[k] : k \in {k \in Prefs : k.key = p}},
                                    Over(Highest(Slot("global", Unset, p)), {0}))
    <3>1. \A o, q \in InForce(Slot("global", Unset, p)) : o = q
      BY <2>2, <2>3, AtMostOne
    <3>2. Kept(Slot("global", Unset, p)) = Highest(Slot("global", Unset, p))
      BY <3>1, LastIsHighest
    <3>3. QED
      BY <3>2 DEF DefaultParam
  <2>4. ASSUME NEW key \in ModelKeys, NEW o \in InForce(Slot("global", Unset, key)),
               ~(Cardinality(InForce(Slot("global", Unset, key))) > 1)
        PROVE  /\ Kept(Slot("global", Unset, key)) = {override[o].value}
               /\ override[o].value \in ConfigModels /\ override[o].value # Unset
    <3> DEFINE slot == Slot("global", Unset, key)
    <3>1. \A q \in InForce(slot) : q = o
      BY <2>2, <2>4, AtMostOne
    <3>2. override[o] \in OverrideRow /\ override[o].slot.key = key
      BY <2>4 DEF InForce, Rows, ConfigIInv, Slot
    <3>3. override[o].value \in ConfigModels /\ override[o].value # Unset
      BY <3>2, ConfigLayersAssumption DEF OverrideRow, AdminValues
    <3>4. override[o].priority <= override[o].priority
      BY <3>2 DEF OverrideRow
    <3>5. Kept(slot) = {override[o].value}
      BY <2>4, <3>1, <3>4 DEF Kept
    <3>6. QED
      BY <3>3, <3>5
  <2>5. ASSUME NEW o \in InForce(Slot("global", Unset, "models")),
               ~(Cardinality(InForce(Slot("global", Unset, "models"))) > 1)
        PROVE  DefaultModel \subseteq {override[o].value, Unset}
    <3>1. Kept(Slot("global", Unset, "models")) = {override[o].value}
      BY <2>4, <2>5 DEF ModelKeys
    <3>2. AvailableModels = {{override[o].value}}
      BY <3>1 DEF AvailableModels
    <3>3. QED
      BY <3>2 DEF DefaultModel
  <2>6. ASSUME InForce(Slot("global", Unset, "models")) = {},
               NEW o \in InForce(Slot("global", Unset, "disabled_models")),
               ~(Cardinality(InForce(Slot("global", Unset, "disabled_models"))) > 1)
        PROVE  override[o].value \notin DefaultModel
    <3> DEFINE v == override[o].value
    <3>1. Kept(Slot("global", Unset, "disabled_models")) = {v} /\ v # Unset
      BY <2>4, <2>6 DEF ModelKeys
    <3>2. Kept(Slot("global", Unset, "models")) = {}
      BY <2>6 DEF Kept
    <3> HIDE DEF v
    <3>3. AvailableModels = {ConfigModels \ {v}}
      BY <3>1, <3>2 DEF AvailableModels, Over
    <3>4. v \notin DefaultModel
      BY <3>1, <3>3 DEF DefaultModel
    <3>5. QED
      BY <3>4 DEF v
  <2>7. QED
    BY <2>1, <2>3, <2>5, <2>6 DEF LayersAreHonoured
<1>3. QED
  BY <1>1, <1>2, ConfigStep, PTL DEF ConfigSpec

-----------------------------------------------------------------------------
(* VectorStore.                                                            *)

\* How many elements of a set come before one, and the elements from one rank up to another.
Rank(S, d) == Cardinality({e \in S : e < d})
Section(S, lo, hi) == {d \in S : lo <= Rank(S, d) /\ Rank(S, d) < hi}

\* Ranks are numbers below the size of the set.
LEMMA RankType ==
    ASSUME NEW S \in SUBSET Nat, IsFiniteSet(S), NEW d
    PROVE  /\ Rank(S, d) \in Nat /\ Cardinality(S) \in Nat /\ Rank(S, d) <= Cardinality(S)
           /\ d \in S => Rank(S, d) < Cardinality(S)
<1> DEFINE T == {e \in S : e < d}
<1>1. T \in SUBSET S
  OBVIOUS
<1>2. /\ IsFiniteSet(T) /\ Cardinality(T) <= Cardinality(S)
      /\ Cardinality(S) = Cardinality(T) => S = T
  BY <1>1, FS_Subset
<1>3. Cardinality(T) \in Nat /\ Cardinality(S) \in Nat
  BY <1>2, FS_CardinalityType
<1>4. d \in S => S # T
  BY <1>1
<1> HIDE DEF T
<1>5. Rank(S, d) = Cardinality(T)
  BY DEF Rank, T
<1>6. QED
  BY <1>2, <1>3, <1>4, <1>5

\* A higher number has at least the rank, and a higher rank than an element of the set.
LEMMA RankGrows ==
    ASSUME NEW S \in SUBSET Nat, IsFiniteSet(S), NEW d \in Nat, NEW e \in Nat, d <= e
    PROVE  /\ Rank(S, d) <= Rank(S, e)
           /\ d \in S /\ d < e => Rank(S, d) < Rank(S, e)
<1> DEFINE T == {x \in S : x < d}
           U == {x \in S : x < e}
<1>1. U \in SUBSET S
  OBVIOUS
<1>2. T \in SUBSET U
  <2>1. \A x \in S : x < d => x < e
    OBVIOUS
  <2>2. QED
    BY <2>1
<1>3. IsFiniteSet(U)
  BY <1>1, FS_Subset
<1>4. /\ IsFiniteSet(T) /\ Cardinality(T) <= Cardinality(U)
      /\ Cardinality(U) = Cardinality(T) => U = T
  BY <1>2, <1>3, FS_Subset
<1>5. Cardinality(T) \in Nat /\ Cardinality(U) \in Nat
  BY <1>3, <1>4, FS_CardinalityType
<1>6. d \in S /\ d < e => U # T
  <2>1. d \notin T
    OBVIOUS
  <2>2. d \in S /\ d < e => d \in U
    OBVIOUS
  <2>3. QED
    BY <2>1, <2>2
<1> HIDE DEF T, U
<1>7. Rank(S, d) = Cardinality(T) /\ Rank(S, e) = Cardinality(U)
  BY DEF Rank, T, U
<1>8. QED
  BY <1>4, <1>5, <1>6, <1>7

\* Elements are ordered as their ranks are.
LEMMA RankOrders ==
    ASSUME NEW S \in SUBSET Nat, IsFiniteSet(S), NEW d \in S, NEW e \in S
    PROVE  /\ d < e <=> Rank(S, d) < Rank(S, e)
           /\ Rank(S, d) = Rank(S, e) => d = e
<1>1. d \in Nat /\ e \in Nat /\ Rank(S, d) \in Nat /\ Rank(S, e) \in Nat
  BY RankType
<1>2. d < e => Rank(S, d) < Rank(S, e)
  BY <1>1, RankGrows
<1>3. e < d => Rank(S, e) < Rank(S, d)
  BY <1>1, RankGrows
<1>4. QED
  BY <1>1, <1>2, <1>3

\* Every number below the size of the set is the rank of an element.
LEMMA RankOnto ==
    ASSUME NEW S \in SUBSET Nat, IsFiniteSet(S), NEW i \in Nat, i < Cardinality(S)
    PROVE  \E d \in S : Rank(S, d) = i
<1> DEFINE n == Cardinality(S)
           T == 0..(n - 1)
           f == [d \in S |-> Rank(S, d)]
<1>1. n \in Nat
  BY FS_CardinalityType
<1> HIDE DEF n
<1>2. \A d \in S : Rank(S, d) \in T
  <2>1. TAKE d \in S
  <2>2. Rank(S, d) \in Nat /\ Rank(S, d) < n
    BY RankType DEF n
  <2>3. QED
    BY <1>1, <2>2
<1>3. f \in [S -> T]
  BY <1>2
<1>4. \A d, e \in S : f[d] = f[e] => d = e
  BY RankOrders
<1>5. f \in Injection(S, T)
  BY <1>3, <1>4 DEF Injection, IsInjective
<1>6. IsFiniteSet(T) /\ Cardinality(T) = n
  BY <1>1, FS_Interval
<1>7. i \in T
  BY <1>1 DEF n
<1> HIDE DEF f, T
<1>8. f \in Surjection(S, T)
  BY <1>5, <1>6, FS_Injection DEF n
<1>9. \E d \in S : f[d] = i
  BY <1>7, <1>8 DEF Surjection
<1>10. QED
  BY <1>9 DEF f

\* A section has as many elements as ranks.
LEMMA SectionSize ==
    ASSUME NEW S \in SUBSET Nat, IsFiniteSet(S), NEW lo \in Nat, NEW hi \in Nat,
           lo <= hi, hi <= Cardinality(S)
    PROVE  IsFiniteSet(Section(S, lo, hi)) /\ Cardinality(Section(S, lo, hi)) = hi - lo
<1> DEFINE X == Section(S, lo, hi)
           T == lo..(hi - 1)
           f == [d \in X |-> Rank(S, d)]
<1>0. Cardinality(S) \in Nat
  BY FS_CardinalityType
<1>1. X \in SUBSET S
  BY DEF Section
<1>2. \A d \in X : Rank(S, d) \in T
  <2>1. TAKE d \in X
  <2>2. Rank(S, d) \in Nat /\ lo <= Rank(S, d) /\ Rank(S, d) < hi
    BY RankType DEF Section
  <2>3. QED
    BY <2>2
<1>3. f \in [X -> T]
  BY <1>2
<1>4. \A d, e \in X : f[d] = f[e] => d = e
  BY <1>1, RankOrders
<1>5. f \in Injection(X, T)
  BY <1>3, <1>4 DEF Injection, IsInjective
<1>6. \A i \in T : \E d \in X : f[d] = i
  <2>1. TAKE i \in T
  <2>2. i \in Nat /\ lo <= i /\ i < hi /\ i < Cardinality(S)
    BY <1>0
  <2>3. PICK d \in S : Rank(S, d) = i
    BY <2>2, RankOnto
  <2>4. d \in X
    BY <2>2, <2>3 DEF Section
  <2>5. QED
    BY <2>3, <2>4
<1>7. f \in Surjection(X, T)
  BY <1>3, <1>6 DEF Surjection
<1>8. IsFiniteSet(T) /\ Cardinality(T) = hi - lo
  <2>1. hi - 1 \in Int /\ lo \in Int
    OBVIOUS
  <2>2. /\ IsFiniteSet(T)
        /\ Cardinality(T) = IF lo > hi - 1 THEN 0 ELSE (hi - 1) - lo + 1
    BY <2>1, FS_Interval
  <2>3. QED
    BY <2>2
<1>9. IsFiniteSet(X)
  BY <1>1, FS_Subset
<1> HIDE DEF f, T, X
<1>10. Cardinality(X) = Cardinality(T)
  BY <1>5, <1>7, <1>8, FS_Injection
<1>11. QED
  BY <1>8, <1>9, <1>10 DEF X

\* In a section the ranks start at its first.
LEMMA SectionRank ==
    ASSUME NEW S \in SUBSET Nat, IsFiniteSet(S), NEW lo \in Nat, NEW hi \in Nat,
           NEW d \in Section(S, lo, hi)
    PROVE  Rank(Section(S, lo, hi), d) = Rank(S, d) - lo
<1> DEFINE X == Section(S, lo, hi)
           r == Rank(S, d)
<1>1. d \in S /\ r \in Nat /\ lo <= r /\ r < hi /\ r < Cardinality(S) /\ Cardinality(S) \in Nat
  BY RankType DEF Section
<1>2. {e \in X : e < d} = Section(S, lo, r)
  <2>1. \A e \in S : e < d <=> Rank(S, e) < r
    BY <1>1, RankOrders
  <2>2. \A e \in S : Rank(S, e) \in Nat
    BY RankType
  <2>3. \A e \in S : (e \in X /\ e < d) <=> e \in Section(S, lo, r)
    <3>1. TAKE e \in S
    <3>2. e < d <=> Rank(S, e) < r
      BY <2>1
    <3>3. Rank(S, e) \in Nat
      BY <2>2
    <3>4. QED
      BY <1>1, <3>2, <3>3 DEF Section
  <2>4. X \subseteq S /\ Section(S, lo, r) \subseteq S
    BY DEF Section
  <2> HIDE DEF X, r
  <2>5. QED
    BY <2>3, <2>4
<1>3. Cardinality(Section(S, lo, r)) = r - lo
  BY <1>1, SectionSize
<1>4. QED
  BY <1>2, <1>3 DEF Rank

\* The elements of a set in their order.
LEMMA InOrderRanks ==
    ASSUME NEW S \in SUBSET Nat, IsFiniteSet(S)
    PROVE  /\ InOrder(S) \in Seq(Nat) /\ Len(InOrder(S)) = Cardinality(S)
           /\ Cardinality(S) \in Nat
           /\ \A i \in 1..Cardinality(S) : InOrder(S)[i] \in S /\ Rank(S, InOrder(S)[i]) = i - 1
<1> DEFINE n == Cardinality(S)
<1>1. n \in Nat
  BY FS_CardinalityType
<1>2. \A i \in 1..n : InOrder(S)[i] \in S /\ Rank(S, InOrder(S)[i]) = i - 1
  <2>1. TAKE i \in 1..n
  <2>2. \E d \in S : Rank(S, d) = i - 1
    BY <1>1, RankOnto
  <2>3. InOrder(S)[i] = CHOOSE d \in S : Rank(S, d) = i - 1
    BY DEF InOrder, Rank
  <2>4. QED
    BY <2>2, <2>3
<1>3. InOrder(S) \in [1..n -> Nat]
  BY <1>2 DEF InOrder
<1> HIDE DEF n
<1>4. InOrder(S) \in Seq(Nat) /\ Len(InOrder(S)) = n
  BY <1>1, <1>3
<1>5. QED
  BY <1>1, <1>2, <1>4 DEF n

\* A page with the n documents of a set that follow an offset, and how far a number is
\* beyond another.
PageOf(docs, offset, page, n) ==
    /\ page \in Seq(Nat) /\ Len(page) = n
    /\ \A i \in 1..n : page[i] \in docs /\ Rank(docs, page[i]) = offset + i - 1
Beyond(a, b) == IF a > b THEN a - b ELSE 0

\* A page is determined by the offset and the number of its documents.
LEMMA PageIsUnique ==
    ASSUME NEW S \in SUBSET Nat, IsFiniteSet(S), NEW offset, NEW n \in Nat, NEW page, NEW other,
           PageOf(S, offset, page, n), PageOf(S, offset, other, n)
    PROVE  page = other
<1>1. /\ page \in Seq(Nat) /\ Len(page) = n /\ other \in Seq(Nat) /\ Len(other) = n
  BY DEF PageOf
<1>2. \A i \in 1..n : page[i] = other[i]
  BY RankOrders DEF PageOf
<1>3. QED
  BY <1>1, <1>2

\* The slice of the in-memory provider is such a page.
LEMMA SliceIsPage ==
    ASSUME NEW S \in SUBSET Nat, IsFiniteSet(S), NEW want \in [offset : Nat, limit : Nat \ {0}]
    PROVE  PageOf(S, want.offset, Slice(S, want),
                  Beyond(LesserOf(want.offset + want.limit, Cardinality(S)), want.offset))
<1> DEFINE o == want.offset
           c == Cardinality(S)
           m == LesserOf(o + want.limit, c)
           s == InOrder(S)
           p == Slice(S, want)
<1>1. o \in Nat /\ want.limit \in Nat
  OBVIOUS
<1>2. /\ s \in Seq(Nat) /\ Len(s) = c /\ c \in Nat
      /\ \A i \in 1..c : s[i] \in S /\ Rank(S, s[i]) = i - 1
  BY InOrderRanks
<1>3. p = SubSeq(s, o + 1, m)
  BY DEF Slice
<1>4. m \in Nat /\ m <= c
  BY <1>1, <1>2 DEF LesserOf
<1> HIDE DEF o, c, m, s, p
<1>5. CASE m > o
  <2>1. p \in Seq(Nat) /\ Len(p) = m - o
    BY <1>1, <1>2, <1>3, <1>4, <1>5
  <2>2. \A i \in 1..(m - o) : p[i] = s[o + i]
    BY <1>1, <1>2, <1>3, <1>4, <1>5
  <2>3. \A i \in 1..(m - o) : p[i] \in S /\ Rank(S, p[i]) = o + i - 1
    <3>1. TAKE i \in 1..(m - o)
    <3>2. o + i \in 1..c
      BY <1>1, <1>2, <1>4, <1>5
    <3>3. QED
      BY <1>1, <1>2, <2>2, <3>2
  <2>4. QED
    BY <1>5, <2>1, <2>3 DEF PageOf, Beyond, o, c, m, p
<1>6. CASE ~(m > o)
  <2>1. p \in Seq(Nat) /\ Len(p) = 0
    BY <1>1, <1>2, <1>3, <1>4, <1>6
  <2>2. QED
    BY <1>6, <2>1 DEF PageOf, Beyond, o, c, m, p
<1>7. QED
  BY <1>5, <1>6

\* The points of a scroll that goes on where the passed ones end are the next ranks.
LEMMA BatchIsSection ==
    ASSUME NEW S \in SUBSET Nat, IsFiniteSet(S), NEW from \in Nat, NEW size \in Nat,
           NEW passed, passed = Rank(S, from),
           NEW ahead, ahead = {d \in S : d >= from},
           NEW batch, batch = Lowest(ahead, size),
           NEW m, m = LesserOf(passed + size, Cardinality(S))
    PROVE  /\ batch = Section(S, passed, m)
           /\ ahead \ batch = Section(S, m, Cardinality(S))
           /\ passed <= m /\ m <= Cardinality(S)
<1> DEFINE c == Cardinality(S)
<1>1. passed \in Nat /\ c \in Nat /\ passed <= c
  BY RankType
<1>2. \A d \in S : Rank(S, d) \in Nat /\ Rank(S, d) < c
  BY RankType
<1>3. \A d \in S : d >= from <=> Rank(S, d) >= passed
  <2>1. TAKE d \in S
  <2>2. d \in Nat
    OBVIOUS
  <2>3. from <= d => passed <= Rank(S, d)
    BY <2>2, RankGrows
  <2>4. d < from => Rank(S, d) < passed
    BY <2>2, RankGrows
  <2>5. QED
    BY <1>1, <1>2, <2>2, <2>3, <2>4
<1>4. m \in Nat /\ passed <= m /\ m <= c
  BY <1>1 DEF LesserOf
<1>5. ahead = Section(S, passed, c)
  <2> HIDE DEF c
  <2>1. \A d \in S : d \in ahead <=> d \in Section(S, passed, c)
    BY <1>1, <1>2, <1>3 DEF Section
  <2>2. Section(S, passed, c) \subseteq S
    BY DEF Section
  <2>3. QED
    BY <2>1, <2>2
<1>6. \A d \in ahead : Rank(ahead, d) = Rank(S, d) - passed
  <2> HIDE DEF c
  <2>1. \A d \in Section(S, passed, c) : Rank(Section(S, passed, c), d) = Rank(S, d) - passed
    BY <1>1, SectionRank
  <2>2. QED
    BY <1>5, <2>1
<1>7. \A d \in S : d \in batch <=> d \in Section(S, passed, m)
  <2>1. TAKE d \in S
  <2>2. d \in batch <=> d \in ahead /\ Rank(ahead, d) < size
    BY DEF Lowest, Rank
  <2>3. d \in ahead <=> passed <= Rank(S, d)
    BY <1>1, <1>2, <1>3
  <2> HIDE DEF c
  <2>4. d \in batch <=> passed <= Rank(S, d) /\ Rank(S, d) - passed < size
    BY <1>6, <2>2, <2>3
  <2>5. Rank(S, d) - passed < size <=> Rank(S, d) < m
    BY <1>1, <1>2 DEF LesserOf, c
  <2>6. QED
    BY <2>4, <2>5 DEF Section
<1>8. batch \subseteq S /\ Section(S, passed, m) \subseteq S /\ Section(S, m, c) \subseteq S
  BY DEF Lowest, Section
<1>9. batch = Section(S, passed, m)
  BY <1>7, <1>8
<1>10. \A d \in S : d \in ahead \ batch <=> d \in Section(S, m, c)
  <2> HIDE DEF c
  <2>1. TAKE d \in S
  <2>2. d \in ahead <=> passed <= Rank(S, d)
    BY <1>1, <1>2, <1>5 DEF Section
  <2>3. d \in batch <=> passed <= Rank(S, d) /\ Rank(S, d) < m
    BY <1>9 DEF Section
  <2>4. d \in Section(S, m, c) <=> m <= Rank(S, d)
    BY <1>2 DEF Section
  <2>5. QED
    BY <1>1, <1>2, <1>4, <2>2, <2>3, <2>4
<1>11. ahead \ batch = Section(S, m, c)
  BY <1>8, <1>10
<1>12. QED
  BY <1>4, <1>9, <1>11

\* Of a batch, the documents that come onto the page are those at or after the offset.
LEMMA NewIsSection ==
    ASSUME NEW S \in SUBSET Nat, IsFiniteSet(S), NEW offset \in Nat, NEW limit \in Nat,
           NEW passed \in Nat, NEW m \in Nat, passed <= m, m <= Cardinality(S),
           m <= offset + limit
    PROVE  LET batch == Section(S, passed, m)
               lo == IF passed > offset THEN passed ELSE offset
           IN Lowest({d \in batch : passed + Rank(batch, d) >= offset},
                     limit - Beyond(passed, offset)) = Section(S, lo, m)
<1> DEFINE batch == Section(S, passed, m)
           lo == IF passed > offset THEN passed ELSE offset
           late == {d \in batch : passed + Rank(batch, d) >= offset}
           room == limit - Beyond(passed, offset)
<1>1. lo \in Nat /\ passed <= lo /\ offset <= lo
  OBVIOUS
<1>2. \A d \in batch : Rank(batch, d) = Rank(S, d) - passed
  BY SectionRank
<1>3. \A d \in S : Rank(S, d) \in Nat
  BY RankType
<1>4. batch \subseteq S /\ Section(S, lo, m) \subseteq S
  BY DEF Section
<1>5. late = Section(S, lo, m)
  <2>1. \A d \in S : d \in late <=> d \in Section(S, lo, m)
    <3>1. TAKE d \in S
    <3>2. d \in batch <=> passed <= Rank(S, d) /\ Rank(S, d) < m
      BY DEF Section
    <3> HIDE DEF batch
    <3>3. d \in late <=> d \in batch /\ passed + (Rank(S, d) - passed) >= offset
      BY <1>2
    <3>4. d \in late <=> passed <= Rank(S, d) /\ Rank(S, d) < m /\ Rank(S, d) >= offset
      BY <1>3, <3>2, <3>3
    <3> HIDE DEF late
    <3>5. QED
      BY <1>3, <3>4 DEF Section
  <2> HIDE DEF batch, lo
  <2>2. QED
    BY <1>4, <2>1
<1>6. \A d \in Section(S, lo, m) : Rank(Section(S, lo, m), d) = Rank(S, d) - lo
  BY <1>1, SectionRank
<1>7. \A d \in Section(S, lo, m) : Rank(Section(S, lo, m), d) < room
  <2>1. TAKE d \in Section(S, lo, m)
  <2>2. Rank(S, d) \in Nat /\ Rank(S, d) < m
    BY <1>3 DEF Section
  <2>3. Rank(S, d) - lo < room
    BY <2>2 DEF Beyond
  <2>4. QED
    BY <1>6, <2>3
<1> HIDE DEF late, room, lo
<1>8. Lowest(late, room) = {d \in late : Rank(late, d) < room}
  BY DEF Lowest, Rank
<1>9. Lowest(late, room) = Section(S, lo, m)
  BY <1>5, <1>7, <1>8
<1>10. QED
  BY <1>9 DEF late, room, lo

\* A sequence of numbers after another.
LEMMA Joined ==
    ASSUME NEW s \in Seq(Nat), NEW t \in Seq(Nat)
    PROVE  /\ s \o t \in Seq(Nat) /\ Len(s \o t) = Len(s) + Len(t)
           /\ \A i \in 1..Len(s) : (s \o t)[i] = s[i]
           /\ \A i \in 1..Len(t) : (s \o t)[Len(s) + i] = t[i]
<1>1. Len(s) \in Nat /\ Len(t) \in Nat
  OBVIOUS
<1>2. s \o t \in Seq(Nat) /\ Len(s \o t) = Len(s) + Len(t)
  OBVIOUS
<1>3. \A i \in 1..Len(s) : (s \o t)[i] = s[i]
  OBVIOUS
<1>4. ASSUME NEW i \in 1..Len(t) PROVE (s \o t)[Len(s) + i] = t[i]
  <2>1. Len(s) + i \in 1..(Len(s) + Len(t)) /\ ~(Len(s) + i <= Len(s)) /\ (Len(s) + i) - Len(s) = i
    BY <1>1
  <2>2. QED
    BY <2>1
<1>5. QED
  BY <1>2, <1>3, <1>4

\* The page after a scroll goes on where the page before it ended.
LEMMA PageGrows ==
    ASSUME NEW S \in SUBSET Nat, IsFiniteSet(S), NEW offset \in Nat, NEW passed \in Nat,
           NEW m \in Nat, passed <= m, m <= Cardinality(S), NEW page,
           PageOf(S, offset, page, Beyond(passed, offset))
    PROVE  LET lo == IF passed > offset THEN passed ELSE offset
           IN PageOf(S, offset, page \o InOrder(Section(S, lo, m)), Beyond(m, offset))
<1> DEFINE lo == IF passed > offset THEN passed ELSE offset
           N == Section(S, lo, m)
           n == Beyond(passed, offset)
           new == page \o InOrder(N)
<1>1. lo \in Nat /\ n \in Nat /\ offset + n = lo
  BY DEF Beyond
<1>2. N \in SUBSET Nat /\ N \in SUBSET S
  BY DEF Section
<1>3. IsFiniteSet(N)
  BY <1>2, FS_Subset
<1>4. page \in Seq(Nat) /\ Len(page) = n
  BY DEF PageOf
<1>5. /\ InOrder(N) \in Seq(Nat) /\ Len(InOrder(N)) = Cardinality(N) /\ Cardinality(N) \in Nat
      /\ \A i \in 1..Cardinality(N) : InOrder(N)[i] \in N /\ Rank(N, InOrder(N)[i]) = i - 1
  BY <1>2, <1>3, InOrderRanks
<1>6. /\ new \in Seq(Nat) /\ Len(new) = n + Cardinality(N)
      /\ \A i \in 1..n : new[i] = page[i]
      /\ \A i \in 1..Cardinality(N) : new[n + i] = InOrder(N)[i]
  <2> HIDE DEF n, N
  <2>1. /\ new \in Seq(Nat) /\ Len(new) = Len(page) + Len(InOrder(N))
        /\ \A i \in 1..Len(page) : new[i] = page[i]
        /\ \A i \in 1..Len(InOrder(N)) : new[Len(page) + i] = InOrder(N)[i]
    BY <1>4, <1>5, Joined
  <2> HIDE DEF new
  <2>2. QED
    BY <1>4, <1>5, <2>1
<1>7. n + Cardinality(N) = Beyond(m, offset)
  <2>1. CASE lo <= m
    <3>1. Cardinality(N) = m - lo
      BY <1>1, <2>1, SectionSize
    <3>2. QED
      BY <1>1, <2>1, <3>1 DEF Beyond
  <2>2. CASE ~(lo <= m)
    <3>1. N = {}
      <4>1. \A d \in S : Rank(S, d) \in Nat
        BY RankType
      <4> HIDE DEF lo
      <4>2. \A d \in S : ~(lo <= Rank(S, d) /\ Rank(S, d) < m)
        BY <1>1, <2>2, <4>1
      <4>3. QED
        BY <4>2 DEF Section
    <3>2. Cardinality(N) = 0
      BY <3>1, FS_EmptySet
    <3>3. QED
      BY <1>1, <2>2, <3>2 DEF Beyond
  <2>3. QED
    BY <2>1, <2>2
<1>8. \A d \in N : Rank(N, d) = Rank(S, d) - lo /\ Rank(S, d) \in Nat
  BY <1>1, <1>2, SectionRank, RankType
<1> HIDE DEF lo, N, n, new
<1>9. \A i \in 1..(n + Cardinality(N)) : new[i] \in S /\ Rank(S, new[i]) = offset + i - 1
  <2>1. TAKE i \in 1..(n + Cardinality(N))
  <2>2. CASE i <= n
    <3>1. i \in 1..n
      BY <1>1, <1>5, <2>2
    <3>2. QED
      BY <1>6, <3>1 DEF PageOf, n
  <2>3. CASE ~(i <= n)
    <3>1. i - n \in 1..Cardinality(N) /\ n + (i - n) = i
      BY <1>1, <1>5, <2>3
    <3>2. new[i] = InOrder(N)[i - n]
      BY <1>6, <3>1
    <3>3. new[i] \in N /\ Rank(N, new[i]) = (i - n) - 1
      BY <1>5, <3>1, <3>2
    <3>4. Rank(S, new[i]) \in Nat /\ (i - n) - 1 = Rank(S, new[i]) - lo
      BY <1>8, <3>3
    <3>5. Rank(S, new[i]) = offset + i - 1
      <4> DEFINE r == Rank(S, new[i])
      <4>1. i \in Int /\ r \in Nat /\ (i - n) - 1 = r - lo
        BY <1>1, <1>5, <3>4
      <4> HIDE DEF r
      <4>2. r = offset + i - 1
        BY <1>1, <4>1
      <4>3. QED
        BY <4>2 DEF r
    <3>6. QED
      BY <1>2, <3>3, <3>5
  <2>4. QED
    BY <2>2, <2>3
<1>10. PageOf(S, offset, new, Beyond(m, offset))
  BY <1>6, <1>7, <1>9 DEF PageOf
<1>11. QED
  BY <1>10 DEF new, N, lo

Increasing(page) == \A i, j \in DOMAIN page : i < j => page[i] < page[j]

\* A page stays in order when documents follow that come after all of its own.
LEMMA OrderGrows ==
    ASSUME NEW N \in SUBSET Nat, IsFiniteSet(N), NEW from \in Nat, NEW page \in Seq(Nat),
           Increasing(page), \A i \in DOMAIN page : page[i] < from, \A d \in N : d >= from
    PROVE  LET new == page \o InOrder(N)
           IN /\ new \in Seq(Nat) /\ Increasing(new)
              /\ \A i \in DOMAIN new : new[i] < from \/ new[i] \in N
<1> DEFINE new == page \o InOrder(N)
           n == Len(page)
<1>1. /\ InOrder(N) \in Seq(Nat) /\ Len(InOrder(N)) = Cardinality(N) /\ Cardinality(N) \in Nat
      /\ \A i \in 1..Cardinality(N) : InOrder(N)[i] \in N /\ Rank(N, InOrder(N)[i]) = i - 1
  BY InOrderRanks
<1>2. n \in Nat /\ DOMAIN page = 1..n
  OBVIOUS
<1>3. /\ new \in Seq(Nat) /\ DOMAIN new = 1..(n + Cardinality(N))
      /\ \A i \in 1..n : new[i] = page[i]
      /\ \A i \in 1..Cardinality(N) : new[n + i] = InOrder(N)[i]
  <2>1. /\ new \in Seq(Nat) /\ Len(new) = n + Cardinality(N)
        /\ \A i \in 1..n : new[i] = page[i]
        /\ \A i \in 1..Cardinality(N) : new[n + i] = InOrder(N)[i]
    BY <1>1, Joined, ZenonT(60)
  <2> HIDE DEF new, n
  <2>2. QED
    BY <2>1
<1> HIDE DEF new, n
<1>4. \A i \in DOMAIN new : i > n => /\ i - n \in 1..Cardinality(N)
                                     /\ new[i] \in N /\ Rank(N, new[i]) = (i - n) - 1
  <2>1. TAKE i \in DOMAIN new
  <2>2. CASE i > n
    <3>1. i - n \in 1..Cardinality(N) /\ n + (i - n) = i
      BY <1>1, <1>2, <1>3, <2>2
    <3>2. QED
      BY <1>1, <1>3, <3>1
  <2>3. QED
    BY <2>2
<1>5. \A i \in DOMAIN new : i <= n => new[i] = page[i] /\ i \in DOMAIN page
  BY <1>1, <1>2, <1>3
<1>6. \A i \in DOMAIN new : new[i] < from \/ new[i] \in N
  BY <1>1, <1>2, <1>3, <1>4, <1>5
<1>7. ASSUME NEW i \in DOMAIN new, NEW j \in DOMAIN new, i < j
      PROVE  new[i] < new[j]
  <2>0. i \in Nat /\ j \in Nat /\ new[i] \in Nat /\ new[j] \in Nat
    <3>1. new \in Seq(Nat)
      BY <1>3, Zenon
    <3>2. \A k \in DOMAIN new : new[k] \in Nat
      BY <3>1
    <3>3. DOMAIN new \subseteq Nat
      BY <1>1, <1>2, <1>3
    <3>4. QED
      BY <3>2, <3>3
  <2>1. CASE j <= n
    BY <1>2, <1>5, <1>7, <2>0, <2>1 DEF Increasing
  <2>2. CASE i <= n /\ j > n
    <3>1. new[i] < from /\ new[j] >= from
      BY <1>4, <1>5, <2>2
    <3>2. QED
      BY <2>0, <3>1
  <2>3. CASE i > n /\ j > n
    <3>1. /\ new[i] \in N /\ new[j] \in N
          /\ Rank(N, new[i]) = (i - n) - 1 /\ Rank(N, new[j]) = (j - n) - 1
      BY <1>4, <2>3
    <3>2. Rank(N, new[i]) < Rank(N, new[j])
      BY <1>2, <1>7, <2>0, <3>1
    <3>3. QED
      BY <3>1, <3>2, RankOrders
  <2>4. QED
    BY <1>2, <1>7, <2>0, <2>1, <2>2, <2>3
<1>8. Increasing(new)
  BY <1>7 DEF Increasing
<1>9. QED
  BY <1>3, <1>6, <1>8 DEF new

-----------------------------------------------------------------------------

\* A request that scrolls: its page is in order and ends before the id it continues at; if the
\* collection stayed as it was, the points before that id are those it has passed, and the
\* page has those of them that are at or after the offset.
ScrollOK(f, docs) ==
    /\ f.want \in Pages /\ f.passed \in Nat /\ f.from \in Nat /\ f.page \in Seq(Nat)
    /\ f.passed < f.want.offset + f.want.limit
    /\ Increasing(f.page)
    /\ \A i \in DOMAIN f.page : f.page[i] < f.from
    /\ f.steady => /\ Rank(docs, f.from) = f.passed
                   /\ PageOf(docs, f.want.offset, f.page, Beyond(f.passed, f.want.offset))

\* A request that is about to answer with its page.
ListedOK(f, docs) == Increasing(f.page) /\ (f.steady => f.page = Slice(docs, f.want))

\* Sets of documents are finite sets of numbers.
LEMMA DocsFinite ==
    ASSUME NEW S \in SUBSET Docs
    PROVE  S \in SUBSET Nat /\ IsFiniteSet(S) /\ Cardinality(S) \in Nat
<1>1. IsFiniteSet(Docs) /\ Docs \subseteq Nat
  BY VectorStoreAssumption, FS_Interval DEF Docs
<1>2. IsFiniteSet(S)
  BY <1>1, FS_Subset
<1>3. QED
  BY <1>1, <1>2, FS_CardinalityType

\* A finite set of numbers that is not empty has a least one.
LEMMA LeastOf ==
    ASSUME NEW S \in SUBSET Nat, IsFiniteSet(S), S # {}
    PROVE  LET least == CHOOSE d \in S : \A e \in S : d <= e
           IN least \in S /\ \A e \in S : least <= e
<1>1. Cardinality(S) \in Nat /\ Cardinality(S) # 0
  BY FS_CardinalityType, FS_EmptySet
<1>2. PICK d \in S : Rank(S, d) = 0
  BY <1>1, RankOnto
<1>3. \A e \in S : d <= e
  <2>1. TAKE e \in S
  <2>2. ~(Rank(S, e) < Rank(S, d))
    BY <1>2, RankType
  <2>3. ~(e < d)
    BY <2>2, RankOrders
  <2>4. QED
    BY <2>3
<1>4. QED
  BY <1>3

\* A scroll that finds the collection as it was passes the next ranks, and adds to the page
\* those at or after the offset.
LEMMA SteadyScroll ==
    ASSUME NEW docs \in SUBSET Docs, NEW f, ScrollOK(f, docs), f.steady,
           NEW ahead, ahead = {d \in docs : d >= f.from},
           NEW size, size = LesserOf(ScrollBatch, f.want.offset + f.want.limit - f.passed),
           NEW batch, batch = Lowest(ahead, size)
    PROVE  LET m == f.passed + Cardinality(batch)
               page == f.page \o InOrder(NewOnPage(f, batch))
           IN /\ m \in Nat /\ m <= f.want.offset + f.want.limit /\ m <= Cardinality(docs)
              /\ PageOf(docs, f.want.offset, page, Beyond(m, f.want.offset))
              /\ ahead \ batch = Section(docs, m, Cardinality(docs))
<1> DEFINE o == f.want.offset
           l == f.want.limit
           p == f.passed
           c == Cardinality(docs)
           m == LesserOf(p + size, c)
           lo == IF p > o THEN p ELSE o
<1>1. docs \in SUBSET Nat /\ IsFiniteSet(docs) /\ c \in Nat
  BY DocsFinite
<1>2. /\ o \in Nat /\ l \in Nat /\ p \in Nat /\ f.from \in Nat /\ p < o + l
      /\ Rank(docs, f.from) = p /\ PageOf(docs, o, f.page, Beyond(p, o))
  BY VectorStoreAssumption DEF ScrollOK
<1>3. size \in Nat /\ p + size <= o + l
  BY <1>2, VectorStoreAssumption DEF LesserOf
<1>4. /\ batch = Section(docs, p, m)
      /\ ahead \ batch = Section(docs, m, c)
      /\ p <= m /\ m <= c
  BY <1>1, <1>2, <1>3, BatchIsSection
<1>5. m \in Nat /\ m <= o + l
  BY <1>1, <1>2, <1>3 DEF LesserOf
<1> HIDE DEF m, c, o, l, p
<1>6. Cardinality(batch) = m - p
  BY <1>1, <1>2, <1>4, <1>5, SectionSize DEF c
<1>7. p + Cardinality(batch) = m
  BY <1>2, <1>5, <1>6
<1>8. Len(f.page) = Beyond(p, o)
  BY <1>2 DEF PageOf
<1>9. NewOnPage(f, batch) = Lowest({d \in batch : p + Rank(batch, d) >= o}, l - Beyond(p, o))
  BY <1>8 DEF NewOnPage, Rank, o, l, p
<1>10. NewOnPage(f, batch) = Section(docs, lo, m)
  BY <1>1, <1>2, <1>4, <1>5, <1>9, NewIsSection DEF c
<1>11. PageOf(docs, o, f.page \o InOrder(Section(docs, lo, m)), Beyond(m, o))
  BY <1>1, <1>2, <1>4, <1>5, PageGrows DEF c
<1>12. QED
  BY <1>4, <1>5, <1>7, <1>10, <1>11 DEF o, l, p, c

\* A scroll keeps the page in order, and ends it before the documents that are left.
LEMMA OrderedScroll ==
    ASSUME NEW docs \in SUBSET Docs, NEW f, ScrollOK(f, docs),
           NEW ahead, ahead = {d \in docs : d >= f.from},
           NEW size \in Nat, NEW batch, batch = Lowest(ahead, size)
    PROVE  LET page == f.page \o InOrder(NewOnPage(f, batch))
           IN /\ page \in Seq(Nat) /\ Increasing(page) /\ Cardinality(batch) \in Nat
              /\ \A i \in DOMAIN page : \A d \in ahead \ batch : page[i] < d
<1> DEFINE N == NewOnPage(f, batch)
           page == f.page \o InOrder(N)
<1>1. ahead \in SUBSET Docs /\ batch \in SUBSET Docs /\ batch \subseteq ahead
  BY DEF Lowest
<1>2. N \subseteq batch
  BY DEF NewOnPage, Lowest
<1>3. N \in SUBSET Nat /\ IsFiniteSet(N) /\ ahead \in SUBSET Nat /\ IsFiniteSet(ahead)
  BY <1>1, <1>2, DocsFinite
<1>4. /\ f.from \in Nat /\ f.page \in Seq(Nat) /\ Increasing(f.page)
      /\ \A i \in DOMAIN f.page : f.page[i] < f.from
  BY DEF ScrollOK
<1>5. \A d \in ahead : d >= f.from
  OBVIOUS
<1> HIDE DEF N
<1>6. /\ page \in Seq(Nat) /\ Increasing(page)
      /\ \A i \in DOMAIN page : page[i] < f.from \/ page[i] \in N
  BY <1>1, <1>2, <1>3, <1>4, <1>5, OrderGrows
<1>7. \A b \in batch, d \in ahead \ batch : b < d
  <2>1. TAKE b \in batch, d \in ahead \ batch
  <2>2. Rank(ahead, b) < size /\ ~(Rank(ahead, d) < size)
    BY DEF Lowest, Rank
  <2>3. Rank(ahead, b) \in Nat /\ Rank(ahead, d) \in Nat
    BY <1>3, RankType
  <2>4. Rank(ahead, b) < Rank(ahead, d)
    BY <2>2, <2>3
  <2>5. QED
    BY <1>1, <1>3, <2>4, RankOrders
<1> HIDE DEF page
<1>8. \A i \in DOMAIN page : \A d \in ahead \ batch : page[i] < d
  <2>1. TAKE i \in DOMAIN page
  <2>2. TAKE d \in ahead \ batch
  <2>3. page[i] \in Nat /\ d \in Nat /\ d >= f.from
    BY <1>3, <1>5, <1>6
  <2>4. CASE page[i] < f.from
    BY <1>4, <2>3, <2>4
  <2>5. CASE page[i] \in N
    BY <1>2, <1>7, <2>5
  <2>6. QED
    BY <1>6, <2>4, <2>5
<1>9. Cardinality(batch) \in Nat
  BY <1>1, DocsFinite
<1>10. QED
  BY <1>6, <1>8, <1>9 DEF page, N

\* What one round of the loop of list_documents makes of its request.
Scrolled(f, docs) ==
    LET ahead == {d \in docs : d >= f.from}
        size == LesserOf(ScrollBatch, f.want.offset + f.want.limit - f.passed)
        batch == Lowest(ahead, size)
        page == f.page \o InOrder(NewOnPage(f, batch))
        passed == f.passed + Cardinality(batch)
        left == ahead \ batch
        more == /\ Len(page) < f.want.limit
                /\ passed < f.want.offset + f.want.limit
                /\ left # {}
    IN [f EXCEPT !.page = page, !.passed = passed, !.pc = IF more THEN "scroll" ELSE "listed",
                 !.from = IF more THEN CHOOSE d \in left : \A e \in left : d <= e ELSE 0]

QueryFields == DOMAIN IdleQuery

\* One round keeps its promise, or keeps that of the finished page.
LEMMA RoundIsRight ==
    ASSUME NEW docs \in SUBSET Docs, NEW f, ScrollOK(f, docs), DOMAIN f = QueryFields
    PROVE  LET g == Scrolled(f, docs)
           IN /\ DOMAIN g = QueryFields /\ g.steady = f.steady /\ g.of = f.of /\ g.docs = f.docs
              /\ \/ g.pc = "scroll" /\ ScrollOK(g, docs)
                 \/ g.pc = "listed" /\ ListedOK(g, docs)
<1> DEFINE ahead == {d \in docs : d >= f.from}
           o == f.want.offset
           l == f.want.limit
           c == Cardinality(docs)
           size == LesserOf(ScrollBatch, o + l - f.passed)
           batch == Lowest(ahead, size)
           page == f.page \o InOrder(NewOnPage(f, batch))
           m == f.passed + Cardinality(batch)
           left == ahead \ batch
           more == Len(page) < l /\ m < o + l /\ left # {}
           least == CHOOSE d \in left : \A e \in left : d <= e
           g == Scrolled(f, docs)
<1>1. /\ DOMAIN g = QueryFields /\ g.steady = f.steady /\ g.of = f.of /\ g.docs = f.docs
      /\ g.want = f.want /\ g.page = page /\ g.passed = m
      /\ g.pc = IF more THEN "scroll" ELSE "listed"
      /\ g.from = IF more THEN least ELSE 0
  BY DEF Scrolled, QueryFields, IdleQuery
<1>2. /\ f.want \in Pages /\ o \in Nat /\ l \in Nat \ {0} /\ f.passed \in Nat /\ f.passed < o + l
  BY VectorStoreAssumption DEF ScrollOK
<1>3. size \in Nat
  BY <1>2, VectorStoreAssumption DEF LesserOf
<1>4. docs \in SUBSET Nat /\ IsFiniteSet(docs) /\ c \in Nat
  BY DocsFinite
<1>5. left \in SUBSET Docs /\ left \subseteq docs
  OBVIOUS
<1>6. left \in SUBSET Nat /\ IsFiniteSet(left)
  BY <1>5, DocsFinite
<1>7. /\ page \in Seq(Nat) /\ Increasing(page) /\ Cardinality(batch) \in Nat
      /\ \A i \in DOMAIN page : \A d \in left : page[i] < d
  <2> HIDE DEF size, left
  <2>1. QED
    BY <1>3, OrderedScroll DEF left
<1>8. f.steady => /\ m \in Nat /\ m <= o + l /\ m <= c
                  /\ PageOf(docs, o, page, Beyond(m, o))
                  /\ left = Section(docs, m, c)
  BY SteadyScroll
<1>9. m \in Nat
  BY <1>2, <1>7
<1>10. left # {} => least \in left /\ \A e \in left : least <= e
  BY <1>6, LeastOf
<1> HIDE DEF page, m, left, least, more, g, o, l, c
<1>11. CASE more
  <2>1. left # {} /\ m < o + l
    BY <1>11 DEF more
  <2>2. least \in left /\ least \in Nat /\ least \in docs /\ \A e \in left : least <= e
    BY <1>5, <1>6, <1>10, <2>1
  <2>3. g.pc = "scroll" /\ g.from = least
    BY <1>1, <1>11
  <2>4. f.steady => Rank(docs, least) = m
    <3>1. SUFFICES ASSUME f.steady, Rank(docs, least) # m PROVE FALSE
      OBVIOUS
    <3>2. left = Section(docs, m, c) /\ m <= c
      BY <1>8, <3>1
    <3>3. Rank(docs, least) \in Nat /\ m <= Rank(docs, least) /\ Rank(docs, least) < c
      BY <1>4, <2>2, <3>2, RankType DEF Section
    <3>4. m < Rank(docs, least) /\ m < c
      BY <1>4, <1>9, <3>1, <3>3
    <3>5. PICK d \in docs : Rank(docs, d) = m
      BY <1>4, <1>9, <3>4, RankOnto DEF c
    <3>6. d \in left
      BY <1>9, <3>2, <3>4, <3>5 DEF Section
    <3>7. d < least
      BY <1>4, <2>2, <3>4, <3>5, RankOrders
    <3>8. least <= d /\ d \in Nat /\ least \in Nat
      BY <1>6, <2>2, <3>6
    <3>9. QED
      BY <3>7, <3>8
  <2>5. \A i \in DOMAIN page : page[i] < least
    BY <1>7, <2>2
  <2>6. ScrollOK(g, docs)
    BY <1>1, <1>2, <1>7, <1>8, <1>9, <2>1, <2>2, <2>3, <2>4, <2>5 DEF ScrollOK, o, l
  <2>7. QED
    BY <1>1, <2>3, <2>6 DEF g
<1>12. CASE ~more
  <2>1. g.pc = "listed"
    BY <1>1, <1>12
  <2>2. f.steady => page = Slice(docs, f.want)
    <3>1. SUFFICES ASSUME f.steady PROVE page = Slice(docs, f.want)
      OBVIOUS
    <3>2. /\ m <= o + l /\ m <= c /\ PageOf(docs, o, page, Beyond(m, o))
          /\ left = Section(docs, m, c)
      BY <1>8, <3>1
    <3>3. Len(page) = Beyond(m, o)
      BY <3>2 DEF PageOf
    <3>4. left = {} => m = c
      <4>1. Cardinality(Section(docs, m, c)) = c - m
        BY <1>4, <1>9, <3>2, SectionSize DEF c
      <4>2. left = {} => c - m = 0
        BY <3>2, <4>1, FS_EmptySet
      <4>3. QED
        BY <1>4, <1>9, <4>2
    <3>5. m = LesserOf(o + l, c)
      <4>1. CASE ~(Len(page) < l)
        <5>1. m = o + l
          BY <1>2, <1>9, <3>2, <3>3, <4>1 DEF Beyond
        <5>2. QED
          BY <1>2, <1>4, <3>2, <5>1 DEF LesserOf
      <4>2. CASE ~(m < o + l)
        BY <1>2, <1>4, <1>9, <3>2, <4>2 DEF LesserOf
      <4>3. CASE left = {}
        BY <1>2, <1>4, <1>9, <3>2, <3>4, <4>3 DEF LesserOf
      <4>4. QED
        BY <1>12, <4>1, <4>2, <4>3 DEF more
    <3>6. PageOf(docs, o, Slice(docs, f.want), Beyond(m, o))
      <4>1. f.want \in [offset : Nat, limit : Nat \ {0}]
        BY <1>2, VectorStoreAssumption
      <4>2. QED
        BY <1>4, <3>5, <4>1, SliceIsPage DEF o, l, c
    <3>7. Beyond(m, o) \in Nat
      BY <1>2, <1>9 DEF Beyond
    <3>8. QED
      BY <1>4, <3>2, <3>6, <3>7, PageIsUnique
  <2>3. ListedOK(g, docs)
    BY <1>1, <1>7, <2>2 DEF ListedOK
  <2>4. QED
    BY <1>1, <2>1, <2>3 DEF g
<1>13. QED
  BY <1>11, <1>12

-----------------------------------------------------------------------------

\* What a request at each place promises, with the documents of its collection.
QueryOK(f, docs) ==
    /\ DOMAIN f = QueryFields /\ f.steady \in BOOLEAN
    /\ f.pc # "idle" => f.of \in Collections /\ f.docs \in SUBSET Docs
    /\ f.pc = "scroll" => ScrollOK(f, docs)
    /\ f.pc = "listed" => ListedOK(f, docs)
DocsOf(q) == collection[query[q].of].docs

\* A collection that is not there has no documents.
CollectionOK(c) == /\ DOMAIN c = {"exists", "dimension", "docs"} /\ c.docs \in SUBSET Docs
                   /\ ~c.exists => c.docs = {}

\* The inductive invariant of VectorStore.
VectorIInv ==
    /\ DOMAIN collection = Collections /\ \A k \in Collections : CollectionOK(collection[k])
    /\ DOMAIN query = Queries /\ \A q \in Queries : QueryOK(query[q], DocsOf(q))

\* A request moves, and no collection gets other documents.
LEMMA QueryMoves ==
    ASSUME VectorIInv, NEW q \in Queries, NEW new, query' = [query EXCEPT ![q] = new],
           DOMAIN collection' = Collections, \A k \in Collections : CollectionOK(collection[k])',
           \A k \in Collections : collection'[k].docs = collection[k].docs,
           DOMAIN new = QueryFields, new.steady \in BOOLEAN,
           new.pc # "idle" => new.of \in Collections /\ new.docs \in SUBSET Docs,
           new.pc = "scroll" => ScrollOK(new, collection[new.of].docs),
           new.pc = "listed" => ListedOK(new, collection[new.of].docs)
    PROVE  VectorIInv'
<1>1. DOMAIN query' = Queries
  BY DEF VectorIInv
<1>2. ASSUME NEW r \in Queries PROVE QueryOK(query[r], DocsOf(r))'
  <2>1. QueryOK(query'[r], collection[query'[r].of].docs)
    <3>1. CASE r = q
      <4>1. query'[r] = new
        BY <3>1 DEF VectorIInv
      <4>2. QED
        BY <4>1 DEF QueryOK
    <3>2. CASE r # q
      <4>1. query'[r] = query[r]
        BY <3>2 DEF VectorIInv
      <4>2. QED
        BY <4>1 DEF VectorIInv, DocsOf
    <3>3. QED
      BY <3>1, <3>2
  <2>2. CASE query'[r].pc = "idle"
    BY <2>1, <2>2 DEF QueryOK
  <2>3. CASE query'[r].pc # "idle"
    <3>1. query'[r].of \in Collections
      BY <2>1, <2>3 DEF QueryOK
    <3>2. DocsOf(r)' = collection[query'[r].of].docs
      BY <3>1 DEF DocsOf
    <3>3. QED
      BY <2>1, <3>2
  <2>4. QED
    BY <2>2, <2>3
<1>3. QED
  BY <1>1, <1>2 DEF VectorIInv

\* A request moves to a place where it lists nothing, and the collections stay.
LEMMA QueryGoes ==
    ASSUME VectorIInv, NEW q \in Queries, NEW new, query' = [query EXCEPT ![q] = new],
           UNCHANGED collection, DOMAIN new = QueryFields, new.steady \in BOOLEAN,
           new.pc \notin {"scroll", "listed"},
           new.pc # "idle" => new.of \in Collections /\ new.docs \in SUBSET Docs
    PROVE  VectorIInv'
<1>1. /\ DOMAIN collection' = Collections /\ \A k \in Collections : CollectionOK(collection[k])'
      /\ \A k \in Collections : collection'[k].docs = collection[k].docs
  BY DEF VectorIInv, CollectionOK
<1>2. QED
  BY <1>1, QueryMoves

\* The request that does nothing.
LEMMA IdleIsIdle == /\ DOMAIN IdleQuery = QueryFields /\ IdleQuery.steady = TRUE
                    /\ IdleQuery.pc = "idle" /\ IdleQuery.docs = {} /\ IdleQuery.passed = 0
                    /\ IdleQuery.from = 0 /\ IdleQuery.page = << >>
  BY DEF QueryFields, IdleQuery

\* A collection gets other documents, and the pages that are being listed from it are no longer
\* expected to be exact.
LEMMA DocsChange ==
    ASSUME VectorIInv, NEW q \in Queries, NEW k \in Collections, NEW c, CollectionOK(c),
           collection' = [collection EXCEPT ![k] = c],
           Disturb(k, [query EXCEPT ![q] = IdleQuery])
    PROVE  VectorIInv'
<1> DEFINE next == [query EXCEPT ![q] = IdleQuery]
<1>1. /\ DOMAIN collection' = Collections /\ collection'[k] = c
      /\ \A j \in Collections : j # k => collection'[j] = collection[j]
  BY DEF VectorIInv
<1>2. \A j \in Collections : CollectionOK(collection[j])'
  <2>1. TAKE j \in Collections
  <2>2. CollectionOK(collection'[j])
    BY <1>1 DEF VectorIInv
  <2>3. QED
    BY <2>2 DEF CollectionOK
<1>3. DOMAIN query' = Queries
  BY DEF Disturb
<1>4. ASSUME NEW r \in Queries PROVE QueryOK(query[r], DocsOf(r))'
  <2> DEFINE f == next[r]
             g == query'[r]
  <2>1. g = [f EXCEPT !.steady =
                 f.steady /\ (f.of = k => f.pc \notin {"scroll", "listed"})]
    BY DEF Disturb
  <2>2. QueryOK(f, collection[f.of].docs)
    <3>1. CASE r = q
      <4>1. f = IdleQuery
        BY <3>1 DEF VectorIInv
      <4>2. QED
        BY <4>1, IdleIsIdle DEF QueryOK
    <3>2. CASE r # q
      <4>1. f = query[r]
        BY <3>2 DEF VectorIInv
      <4>2. QED
        BY <4>1 DEF VectorIInv, DocsOf
    <3>3. QED
      BY <3>1, <3>2
  <2> HIDE DEF f, g, next
  <2>3. DOMAIN f = QueryFields /\ f.steady \in BOOLEAN
    BY <2>2 DEF QueryOK
  <2>4. /\ DOMAIN g = QueryFields
        /\ g.pc = f.pc /\ g.of = f.of /\ g.docs = f.docs /\ g.want = f.want
        /\ g.passed = f.passed /\ g.from = f.from /\ g.page = f.page
        /\ g.steady = (f.steady /\ (f.of = k => f.pc \notin {"scroll", "listed"}))
    BY <2>1, <2>3 DEF QueryFields, IdleQuery
  <2>5. g.steady \in BOOLEAN
    BY <2>4
  <2>6. f.pc \in {"scroll", "listed"} /\ g.steady => f.steady /\ f.of # k
    BY <2>4
  <2>7. f.pc \in {"scroll", "listed"} /\ g.steady
          => collection'[f.of].docs = collection[f.of].docs
    BY <1>1, <2>2, <2>6 DEF QueryOK
  <2>8. g.pc = "scroll" => ScrollOK(g, collection'[g.of].docs)
    BY <2>2, <2>4, <2>6, <2>7 DEF QueryOK, ScrollOK
  <2>9. g.pc = "listed" => ListedOK(g, collection'[g.of].docs)
    BY <2>2, <2>4, <2>6, <2>7 DEF QueryOK, ListedOK
  <2>10. g.pc # "idle" => g.of \in Collections /\ g.docs \in SUBSET Docs
    BY <2>2, <2>4 DEF QueryOK
  <2>11. QueryOK(g, collection'[g.of].docs)
    BY <2>4, <2>5, <2>8, <2>9, <2>10 DEF QueryOK
  <2>12. QED
    BY <2>11 DEF DocsOf, g
<1>5. QED
  BY <1>1, <1>2, <1>3, <1>4 DEF VectorIInv

\* The two ways to be done: the request answers, or goes on with its collection found.
LEMMA QueryEnds ==
    ASSUME VectorIInv, NEW q \in Queries, Done(q), UNCHANGED collection
    PROVE  VectorIInv'
  BY IdleIsIdle, QueryGoes DEF Done

\* What a request is after its collection is found.
LEMMA FoundGoes ==
    ASSUME VectorIInv, NEW q \in Queries, Found(q), query[q].pc \in {"look", "create"}
    PROVE  \E new : /\ query' = [query EXCEPT ![q] = new]
                    /\ DOMAIN new = QueryFields /\ new.steady \in BOOLEAN
                    /\ new.pc \notin {"scroll", "listed"}
                    /\ new.pc # "idle" => new.of \in Collections /\ new.docs \in SUBSET Docs
<1> DEFINE f == query[q]
           looks == [f EXCEPT !.pc = "look", !.looks = f.looks - 1]
           stores == [f EXCEPT !.pc = "upsert"]
           new == IF f.looks > 1 THEN looks ELSE IF f.for = "ingest" THEN stores ELSE IdleQuery
<1>1. query' = [query EXCEPT ![q] = new]
  BY DEF Found
<1>2. /\ DOMAIN f = QueryFields /\ f.steady \in BOOLEAN
      /\ f.of \in Collections /\ f.docs \in SUBSET Docs
  BY DEF VectorIInv, QueryOK
<1>3. /\ DOMAIN looks = QueryFields /\ looks.steady = f.steady /\ looks.pc = "look"
      /\ looks.of = f.of /\ looks.docs = f.docs
  BY <1>2 DEF QueryFields, IdleQuery
<1>4. /\ DOMAIN stores = QueryFields /\ stores.steady = f.steady /\ stores.pc = "upsert"
      /\ stores.of = f.of /\ stores.docs = f.docs
  BY <1>2 DEF QueryFields, IdleQuery
<1> HIDE DEF f, looks, stores
<1>5. /\ DOMAIN new = QueryFields /\ new.steady \in BOOLEAN
      /\ new.pc \notin {"scroll", "listed"}
      /\ new.pc # "idle" => new.of \in Collections /\ new.docs \in SUBSET Docs
  <2>1. new \in {looks, stores, IdleQuery}
    OBVIOUS
  <2> HIDE DEF new
  <2>2. QED
    BY <1>2, <1>3, <1>4, <2>1, IdleIsIdle
<1>6. QED
  BY <1>1, <1>5

\* Every step of every request keeps the invariant.
LEMMA VectorStep == VectorIInv /\ [VectorNext]_vectorVars => VectorIInv'
<1> SUFFICES ASSUME VectorIInv, [VectorNext]_vectorVars PROVE VectorIInv'
  OBVIOUS
<1>1. ASSUME NEW q \in Queries, Ingest(q) PROVE VectorIInv'
  <2>1. PICK p \in Processes, k \in Collections, docs \in (SUBSET Docs) \ {{}} :
          Ask(q, AddTexts(p, k, docs))
    BY <1>1 DEF Ingest
  <2> DEFINE new == AddTexts(p, k, docs)
  <2>2. /\ DOMAIN new = QueryFields /\ new.steady = TRUE /\ new.pc = "look" /\ new.of = k
        /\ new.docs = docs
    BY DEF AddTexts, QueryFields, IdleQuery
  <2>3. query' = [query EXCEPT ![q] = new] /\ UNCHANGED collection
    BY <1>1, <2>1 DEF Ask, Ingest
  <2> HIDE DEF new
  <2>4. QED
    BY <2>2, <2>3, QueryGoes
<1>2. ASSUME NEW q \in Queries, Ensure(q) PROVE VectorIInv'
  <2>1. PICK p \in Processes, k \in Collections :
          Ask(q, [IdleQuery EXCEPT !.pc = "look", !.process = p, !.of = k, !.looks = 1])
    BY <1>2 DEF Ensure
  <2> DEFINE new == [IdleQuery EXCEPT !.pc = "look", !.process = p, !.of = k, !.looks = 1]
  <2>2. /\ DOMAIN new = QueryFields /\ new.steady = TRUE /\ new.pc = "look" /\ new.of = k
        /\ new.docs = {}
    BY DEF QueryFields, IdleQuery
  <2>3. query' = [query EXCEPT ![q] = new] /\ UNCHANGED collection
    BY <1>2, <2>1 DEF Ask, Ensure
  <2> HIDE DEF new
  <2>4. QED
    BY <2>2, <2>3, QueryGoes
<1>3. ASSUME NEW q \in Queries, GetRetriever(q) PROVE VectorIInv'
  <2>1. PICK p \in Processes, k \in Collections :
          /\ k \notin retrievers[p]
          /\ Ask(q, [IdleQuery EXCEPT !.pc = "look", !.process = p, !.for = "retriever",
                         !.of = k, !.looks = 1])
    BY <1>3 DEF GetRetriever
  <2> DEFINE new == [IdleQuery EXCEPT !.pc = "look", !.process = p, !.for = "retriever",
                         !.of = k, !.looks = 1]
  <2>2. /\ DOMAIN new = QueryFields /\ new.steady = TRUE /\ new.pc = "look" /\ new.of = k
        /\ new.docs = {}
    BY DEF QueryFields, IdleQuery
  <2>3. query' = [query EXCEPT ![q] = new] /\ UNCHANGED collection
    BY <1>3, <2>1 DEF Ask, GetRetriever
  <2> HIDE DEF new
  <2>4. QED
    BY <2>2, <2>3, QueryGoes
<1>4. ASSUME NEW q \in Queries, DeleteCollection(q) PROVE VectorIInv'
  <2>1. PICK p \in Processes, k \in Collections :
          /\ Ask(q, [IdleQuery EXCEPT !.pc = "drop", !.process = p, !.for = "delete",
                         !.of = k])
          /\ retrievers' = [retrievers EXCEPT ![p] = @ \ {k}]
    BY <1>4 DEF DeleteCollection
  <2> DEFINE new == [IdleQuery EXCEPT !.pc = "drop", !.process = p, !.for = "delete", !.of = k]
  <2>2. /\ DOMAIN new = QueryFields /\ new.steady = TRUE /\ new.pc = "drop" /\ new.of = k
        /\ new.docs = {}
    BY DEF QueryFields, IdleQuery
  <2>3. query' = [query EXCEPT ![q] = new] /\ UNCHANGED collection
    BY <1>4, <2>1 DEF Ask, DeleteCollection
  <2> HIDE DEF new
  <2>4. QED
    BY <2>2, <2>3, QueryGoes
<1>5. ASSUME NEW q \in Queries, LookFor(q) PROVE VectorIInv'
  <2>1. UNCHANGED collection /\ query[q].pc = "look"
    BY <1>5 DEF LookFor
  <2>2. CASE Found(q)
    BY <2>1, <2>2, FoundGoes, QueryGoes
  <2>3. CASE query' = [query EXCEPT ![q].pc = "create"]
    <3> DEFINE f == query[q]
               new == [f EXCEPT !.pc = "create"]
    <3>1. /\ DOMAIN f = QueryFields /\ f.steady \in BOOLEAN
          /\ f.of \in Collections /\ f.docs \in SUBSET Docs
      BY <2>1 DEF VectorIInv, QueryOK
    <3>2. /\ DOMAIN new = QueryFields /\ new.steady = f.steady /\ new.pc = "create"
          /\ new.of = f.of /\ new.docs = f.docs
      BY <3>1 DEF QueryFields, IdleQuery
    <3>3. query' = [query EXCEPT ![q] = new]
      BY <2>3
    <3> HIDE DEF f, new
    <3>4. QED
      BY <2>1, <3>1, <3>2, <3>3, QueryGoes
  <2>4. CASE Done(q)
    BY <2>1, <2>4, QueryEnds
  <2>5. QED
    BY <1>5, <2>2, <2>3, <2>4 DEF LookFor
<1>6. ASSUME NEW q \in Queries, CreateCollection(q) PROVE VectorIInv'
  <2> DEFINE k == query[q].of
             c == [Missing EXCEPT !.exists = TRUE, !.dimension = dimension[query[q].process]]
  <2>1. query[q].pc = "create"
    BY <1>6 DEF CreateCollection
  <2>2. CASE ~collection[k].exists /\ collection' = [collection EXCEPT ![k] = c] /\ Found(q)
    <3>1. k \in Collections
      BY <2>1 DEF VectorIInv, QueryOK
    <3>2. /\ DOMAIN c = {"exists", "dimension", "docs"} /\ c.exists = TRUE /\ c.docs = {}
      BY DEF Missing
    <3> HIDE DEF k, c
    <3>3. collection[k].docs = {}
      BY <2>2, <3>1 DEF VectorIInv, CollectionOK
    <3>4. /\ DOMAIN collection' = Collections /\ collection'[k] = c
          /\ \A j \in Collections : j # k => collection'[j] = collection[j]
      BY <2>2, <3>1 DEF VectorIInv
    <3>5. \A j \in Collections : CollectionOK(collection[j])'
      <4>1. TAKE j \in Collections
      <4>2. CollectionOK(collection'[j])
        BY <3>2, <3>4 DEF VectorIInv, CollectionOK
      <4>3. QED
        BY <4>2 DEF CollectionOK
    <3>6. \A j \in Collections : collection'[j].docs = collection[j].docs
      BY <3>2, <3>3, <3>4
    <3>7. PICK new : /\ query' = [query EXCEPT ![q] = new]
                     /\ DOMAIN new = QueryFields /\ new.steady \in BOOLEAN
                     /\ new.pc \notin {"scroll", "listed"}
                     /\ new.pc # "idle" => new.of \in Collections /\ new.docs \in SUBSET Docs
      BY <2>1, <2>2, FoundGoes
    <3>8. QED
      BY <3>4, <3>5, <3>6, <3>7, QueryMoves
  <2>3. CASE Done(q) /\ UNCHANGED collection
    BY <2>3, QueryEnds
  <2>4. QED
    BY <1>6, <2>2, <2>3 DEF CreateCollection
<1>7. ASSUME NEW q \in Queries, Upsert(q) PROVE VectorIInv'
  <2> DEFINE k == query[q].of
             c == [collection[k] EXCEPT !.docs = collection[k].docs \union query[q].docs]
  <2>1. query[q].pc = "upsert"
    BY <1>7 DEF Upsert
  <2>2. k \in Collections /\ query[q].docs \in SUBSET Docs
    BY <2>1 DEF VectorIInv, QueryOK
  <2>3. CASE /\ collection[k].exists
             /\ collection' = [collection EXCEPT ![k] = c]
             /\ Disturb(k, [query EXCEPT ![q] = IdleQuery])
    <3>1. CollectionOK(collection[k])
      BY <2>2 DEF VectorIInv
    <3>2. /\ DOMAIN c = {"exists", "dimension", "docs"} /\ c.exists = collection[k].exists
          /\ c.docs = collection[k].docs \union query[q].docs
      BY <3>1 DEF CollectionOK
    <3> HIDE DEF c, k
    <3>3. CollectionOK(c)
      BY <2>2, <2>3, <3>1, <3>2 DEF CollectionOK
    <3>4. QED
      BY <2>2, <2>3, <3>3, DocsChange
  <2>4. CASE Done(q) /\ UNCHANGED collection
    BY <2>4, QueryEnds
  <2>5. QED
    BY <1>7, <2>3, <2>4 DEF Upsert
<1>8. ASSUME NEW q \in Queries, DropCollection(q) PROVE VectorIInv'
  <2>1. query[q].of \in Collections
    BY <1>8 DEF DropCollection, VectorIInv, QueryOK
  <2>2. CollectionOK(Missing)
    BY DEF CollectionOK, Missing
  <2>3. QED
    BY <1>8, <2>1, <2>2, DocsChange DEF DropCollection
<1>9. ASSUME NEW q \in Queries, ListDocuments(q) PROVE VectorIInv'
  <2>1. PICK p \in Processes, k \in Collections, want \in Pages :
          /\ collection[k].exists
          /\ Ask(q, [IdleQuery EXCEPT !.pc = "scroll", !.process = p, !.for = "list",
                         !.of = k, !.want = want])
    BY <1>9 DEF ListDocuments
  <2> DEFINE new == [IdleQuery EXCEPT !.pc = "scroll", !.process = p, !.for = "list",
                         !.of = k, !.want = want]
             docs == collection[k].docs
  <2>2. /\ DOMAIN new = QueryFields /\ new.steady = TRUE /\ new.pc = "scroll" /\ new.of = k
        /\ new.docs = {} /\ new.want = want /\ new.passed = 0 /\ new.from = 0
        /\ new.page = << >>
    BY DEF QueryFields, IdleQuery
  <2>3. query' = [query EXCEPT ![q] = new] /\ UNCHANGED collection
    BY <1>9, <2>1 DEF Ask, ListDocuments
  <2>4. docs \in SUBSET Docs
    BY DEF VectorIInv, CollectionOK
  <2>5. want.offset \in Nat /\ want.limit \in Nat \ {0}
    BY VectorStoreAssumption
  <2>6. Rank(docs, 0) = 0
    <3>1. {e \in docs : e < 0} = {}
      BY <2>4 DEF Docs
    <3>2. QED
      BY <3>1, FS_EmptySet DEF Rank
  <2>7. Beyond(0, want.offset) = 0
    BY <2>5 DEF Beyond
  <2> HIDE DEF new, docs
  <2>8. << >> \in Seq(Nat) /\ Len(<< >>) = 0 /\ DOMAIN << >> = {}
    OBVIOUS
  <2>9. PageOf(docs, want.offset, << >>, 0)
    BY <2>8 DEF PageOf
  <2>10. ScrollOK(new, docs)
    BY <2>2, <2>5, <2>6, <2>7, <2>8, <2>9 DEF ScrollOK, Increasing
  <2>11. /\ DOMAIN collection' = Collections /\ \A j \in Collections : CollectionOK(collection[j])'
         /\ \A j \in Collections : collection'[j].docs = collection[j].docs
    BY <2>3 DEF VectorIInv, CollectionOK
  <2>12. QED
    BY <2>2, <2>3, <2>10, <2>11, QueryMoves DEF docs
<1>10. ASSUME NEW q \in Queries, Scroll(q) PROVE VectorIInv'
  <2> DEFINE f == query[q]
             docs == collection[f.of].docs
             new == Scrolled(f, docs)
  <2>1. f.pc = "scroll" /\ UNCHANGED collection
    BY <1>10 DEF Scroll
  <2>2. query' = [query EXCEPT ![q] = new]
    BY <1>10 DEF Scroll, Scrolled
  <2>3. /\ DOMAIN f = QueryFields /\ f.steady \in BOOLEAN /\ f.of \in Collections
        /\ f.docs \in SUBSET Docs /\ ScrollOK(f, docs)
    BY <2>1 DEF VectorIInv, QueryOK, DocsOf
  <2>4. docs \in SUBSET Docs
    BY <2>3 DEF VectorIInv, CollectionOK
  <2> HIDE DEF f, docs
  <2>5. /\ DOMAIN new = QueryFields /\ new.steady = f.steady /\ new.of = f.of /\ new.docs = f.docs
        /\ \/ new.pc = "scroll" /\ ScrollOK(new, docs)
           \/ new.pc = "listed" /\ ListedOK(new, docs)
    BY <2>3, <2>4, RoundIsRight
  <2> HIDE DEF new
  <2>6. /\ DOMAIN collection' = Collections /\ \A j \in Collections : CollectionOK(collection[j])'
        /\ \A j \in Collections : collection'[j].docs = collection[j].docs
    BY <2>1 DEF VectorIInv, CollectionOK
  <2>7. QED
    BY <2>2, <2>3, <2>5, <2>6, QueryMoves DEF docs
<1>11. ASSUME NEW q \in Queries, Listed(q) PROVE VectorIInv'
  BY <1>11, QueryEnds DEF Listed
<1>12. CASE UNCHANGED vectorVars
  BY <1>12 DEF vectorVars, VectorIInv, CollectionOK, QueryOK, DocsOf
<1>13. QED
  BY <1>1, <1>2, <1>3, <1>4, <1>5, <1>6, <1>7, <1>8, <1>9, <1>10, <1>11, <1>12 DEF VectorNext

\* A page that is gathered scroll by scroll is the slice of the in-memory provider if nobody
\* writes meanwhile, and is in order even then, for every size of batch and collection.
THEOREM PagesAreExact == VectorSpec => []PageIsExact
<1>1. VectorInit => VectorIInv
  <2> SUFFICES ASSUME VectorInit PROVE VectorIInv
    OBVIOUS
  <2>1. \A k \in Collections : CollectionOK(collection[k])
    BY DEF VectorInit, CollectionOK, Missing
  <2>2. \A q \in Queries : QueryOK(query[q], DocsOf(q))
    BY IdleIsIdle DEF VectorInit, QueryOK
  <2>3. QED
    BY <2>1, <2>2 DEF VectorInit, VectorIInv
<1>2. VectorIInv => PageIsExact
  BY DEF VectorIInv, QueryOK, ListedOK, Increasing, DocsOf, PageIsExact
<1>3. QED
  BY <1>1, <1>2, VectorStep, PTL DEF VectorSpec

-----------------------------------------------------------------------------
(* AgentSettings.                                                          *)

\* The inductive invariant of AgentSettings: what was built was built from the layers and the
\* lists that are there, in one of the three ways.
SettingsIInv ==
    /\ layers \in Layers /\ tree \in [Agents -> SubagentLists]
    /\ \/ ran = Absent
       \/ ran = Here
       \/ \E configs \in SubagentConfigs : \/ ran = There("there", Metadata(FALSE, configs))
                                           \/ ran = There("bundle", Metadata(TRUE, configs))

LayerFields == {"primary", "fallback", "session", "instructions"}

\* Layers have all fields.
LEMMA LayerIsFunction ==
    ASSUME NEW c \in AgentLayer
    PROVE  DOMAIN c = LayerFields
  BY DEF AgentLayer, LayerFields

\* What a layer over another gives for each field.
LEMMA OverridesField ==
    ASSUME NEW c, DOMAIN c = LayerFields, NEW o
    PROVE  /\ DOMAIN WithOverrides(c, o) = LayerFields
           /\ WithOverrides(c, o).primary = First(o.primary, c.primary)
           /\ WithOverrides(c, o).fallback = First(o.fallback, c.fallback)
           /\ WithOverrides(c, o).session = First(o.session, c.session)
           /\ WithOverrides(c, o).instructions = First(o.instructions, c.instructions)
  BY DEF WithOverrides, LayerFields

\* The four layers of an agent that is built for an instance.
LEMMA InstanceFields ==
    ASSUME layers \in Layers
    PROVE  /\ InstanceConfig.primary = Wanted
           /\ InstanceConfig.fallback =
                First(layers.instance.fallback, First(layers.user.fallback,
                  First(layers.admin.fallback, layers.yaml.fallback)))
           /\ InstanceConfig.session =
                First(layers.instance.session, First(layers.user.session,
                  First(layers.admin.session, layers.yaml.session)))
           /\ InstanceConfig.instructions =
                First(layers.instance.instructions, First(layers.user.instructions,
                  First(layers.admin.instructions, layers.yaml.instructions)))
<1> DEFINE a == WithOverrides(layers.yaml, layers.admin)
           b == WithOverrides(a, layers.user)
<1>1. layers.yaml \in AgentLayer /\ layers.yaml.primary = YamlModel
  BY DEF Layers
<1>2. DOMAIN layers.yaml = LayerFields
  BY <1>1, LayerIsFunction
<1>3. /\ DOMAIN a = LayerFields
      /\ a.primary = First(layers.admin.primary, layers.yaml.primary)
      /\ a.fallback = First(layers.admin.fallback, layers.yaml.fallback)
      /\ a.session = First(layers.admin.session, layers.yaml.session)
      /\ a.instructions = First(layers.admin.instructions, layers.yaml.instructions)
  BY <1>2, OverridesField
<1> HIDE DEF a
<1>4. /\ DOMAIN b = LayerFields
      /\ b.primary = First(layers.user.primary, a.primary)
      /\ b.fallback = First(layers.user.fallback, a.fallback)
      /\ b.session = First(layers.user.session, a.session)
      /\ b.instructions = First(layers.user.instructions, a.instructions)
  BY <1>3, OverridesField
<1>5. InstanceConfig = WithOverrides(b, layers.instance)
  BY DEF InstanceConfig, UserConfig, a
<1> HIDE DEF b
<1>6. /\ InstanceConfig.primary = First(layers.instance.primary, b.primary)
      /\ InstanceConfig.fallback = First(layers.instance.fallback, b.fallback)
      /\ InstanceConfig.session = First(layers.instance.session, b.session)
      /\ InstanceConfig.instructions = First(layers.instance.instructions, b.instructions)
  BY <1>4, <1>5, OverridesField
<1>7. QED
  BY <1>1, <1>3, <1>4, <1>6 DEF Wanted

\* The model and the fallbacks are the same on the server, whatever the metadata leaves out.
LEMMA SameModels ==
    ASSUME layers \in Layers, NEW bundle \in BOOLEAN, NEW configs
    PROVE  LET told == Metadata(bundle, configs)
           IN /\ First(told.primary, Compiled.model) = Wanted
              /\ First(told.fallback, Compiled.fallback) = InstanceConfig.fallback
<1> DEFINE told == Metadata(bundle, configs)
<1>1. /\ layers.yaml \in AgentLayer /\ layers.admin \in AgentLayer
      /\ layers.user \in AgentLayer /\ layers.instance \in AgentLayer
      /\ layers.yaml.primary = YamlModel /\ layers.yaml.fallback # Absent
  BY DEF Layers
<1>2. InstanceConfig.primary = Wanted
  BY InstanceFields
<1>3. Wanted # Absent /\ YamlModel # Absent
  BY <1>1, AgentSettingsAssumption DEF Wanted, First, AgentLayer, Maybe
<1>4. InstanceConfig.fallback # Absent
  BY <1>1, InstanceFields DEF First
<1>5. /\ told.primary = IF InstanceConfig.primary = layers.yaml.primary THEN Absent
                        ELSE InstanceConfig.primary
      /\ told.fallback = InstanceConfig.fallback
  BY DEF Metadata
<1>6. Compiled.model = YamlModel
  BY DEF Compiled
<1> HIDE DEF told
<1>7. First(told.primary, Compiled.model) = Wanted
  BY <1>1, <1>2, <1>3, <1>5, <1>6 DEF First
<1>8. First(told.fallback, Compiled.fallback) = InstanceConfig.fallback
  BY <1>4, <1>5 DEF First
<1>9. QED
  BY <1>7, <1>8 DEF told

\* What the instance has of its own, and the subinstances that are there.
ListedSubagents == {layers.subagents[s] : s \in SubInstances} \ {Absent}
Present == {s \in SubInstances : layers.subagents[s] # Absent}

\* Where the bases of the subagents are as many as the subagents, no two have the same.
LEMMA BasesDiffer ==
    ASSUME Cardinality({s.base : s \in ListedSubagents}) = Cardinality(Present),
           NEW s \in Present, NEW t \in Present, layers.subagents[s].base = layers.subagents[t].base
    PROVE  s = t
<1> DEFINE bases == {x.base : x \in ListedSubagents}
           f == [x \in Present |-> layers.subagents[x].base]
<1>1. IsFiniteSet(Present)
  <2>1. Present \in SUBSET SubInstances
    BY DEF Present
  <2>2. QED
    BY <2>1, AgentSettingsAssumption, FS_Subset
<1>2. f \in [Present -> bases]
  BY DEF Present, ListedSubagents
<1>3. \A b \in bases : \E x \in Present : f[x] = b
  BY DEF Present, ListedSubagents
<1>4. f \in Surjection(Present, bases)
  BY <1>2, <1>3 DEF Surjection
<1>5. Cardinality(bases) = Cardinality(Present)
  OBVIOUS
<1> HIDE DEF f, bases
<1>6. f \in Injection(Present, bases)
  BY <1>1, <1>4, <1>5, FS_SurjSameCardinalityImpliesInj
<1>7. \A x, y \in Present : f[x] = f[y] => x = y
  BY <1>2, <1>6 DEF Injection, IsInjective
<1>8. f[s] = f[t]
  BY DEF f
<1>9. QED
  BY <1>7, <1>8

\* The server gives each subagent that the agent lists the settings of the instance's own, if
\* one is based on it, and the backend builds the same ones.
LEMMA SameSubagents ==
    ASSUME layers \in Layers, tree \in [Agents -> SubagentLists],
           NEW configs \in SubagentConfigs, NEW bundle \in BOOLEAN, ~SubagentsExcused
    PROVE  SubagentsThere(Metadata(bundle, configs)) = SubagentsHere
<1> DEFINE sub == layers.subagents
           told == Metadata(bundle, configs)
           there(b) == [base |-> b,
                        model |-> IF configs[b] = Absent THEN YamlModel
                                  ELSE ModelThere(First(sub[configs[b]].model, YamlModel))]
           here(s) == [base |-> s.base, model |-> First(s.model, YamlModel)]
           plain(b) == [base |-> b, model |-> YamlModel]
<1>1. told.subagents = configs
  BY DEF Metadata
<1>2. SubagentsThere(told) = {there(b) : b \in Children(Root)}
  BY <1>1 DEF SubagentsThere
<1>3. /\ layers.list = Absent /\ Root \notin Children(Root)
      /\ \A b \in Children(Root) : layers.others[b] = Absent
                                  \/ \E s \in ListedSubagents : s.base = b /\ s.model # Absent
      /\ \A s \in ListedSubagents : s.base \in Children(Root) /\ s.model \in Maybe(Creatable)
      /\ Cardinality({s.base : s \in ListedSubagents}) = Cardinality(Present)
  BY DEF SubagentsExcused, ListedSubagents, Present
<1>4. YamlModel \in Creatable /\ Absent \notin Creatable
  BY AgentSettingsAssumption
<1>5. \A b \in Children(Root) : layers.others[b] = Absent => BasePrimary(b) = YamlModel
  BY <1>3 DEF BasePrimary, First
<1>6. ASSUME NEW s \in ListedSubagents
       PROVE  First(s.model, BasePrimary(s.base)) = First(s.model, YamlModel)
  <2>1. CASE s.model = Absent
    <3>1. ASSUME NEW o \in ListedSubagents, o.base = s.base PROVE o = s
      <4>1. PICK i \in Present : layers.subagents[i] = s
        BY DEF ListedSubagents, Present
      <4>2. PICK k \in Present : layers.subagents[k] = o
        BY DEF ListedSubagents, Present
      <4>3. k = i
        BY <1>3, <3>1, <4>1, <4>2, BasesDiffer
      <4>4. QED
        BY <4>1, <4>2, <4>3
    <3>2. layers.others[s.base] = Absent
      BY <1>3, <2>1, <3>1
    <3>3. QED
      BY <1>3, <1>5, <2>1, <3>2 DEF First
  <2>2. CASE s.model # Absent
    BY <2>2 DEF First
  <2>3. QED
    BY <2>1, <2>2
<1>7. \A s \in ListedSubagents : First(s.model, YamlModel) \in Creatable
  BY <1>3, <1>4 DEF First, Maybe
<1>8. ListedHere = Children(Root)
  BY <1>3 DEF ListedHere, Children, First
<1>9. OwnSubagents = ListedSubagents
  BY <1>6, <1>7 DEF OwnSubagents, ListedSubagents
<1>10. \A b \in Children(Root) \ {s.base : s \in ListedSubagents} : BasePrimary(b) = YamlModel
  BY <1>3, <1>5
<1>11. SubagentsHere = {here(s) : s \in ListedSubagents}
                        \union {plain(b) : b \in Children(Root) \ {s.base : s \in ListedSubagents}}
  <2>1. {[base |-> s.base, model |-> First(s.model, BasePrimary(s.base))] : s \in ListedSubagents}
        = {here(s) : s \in ListedSubagents}
    BY <1>6
  <2>2. {[base |-> b, model |-> BasePrimary(b)] :
            b \in Children(Root) \ {s.base : s \in ListedSubagents}}
        = {plain(b) : b \in Children(Root) \ {s.base : s \in ListedSubagents}}
    BY <1>10
  <2>3. QED
    BY <1>8, <1>9, <2>1, <2>2 DEF SubagentsHere
<1>12. Children(Root) \subseteq Agents
  <2>1. tree[Root] \in Seq(Agents)
    BY AgentSettingsAssumption DEF SubagentLists
  <2>2. QED
    BY <2>1 DEF Children
<1>13. \A b \in Agents : \/ configs[b] = Absent /\ (\A s \in Present : sub[s].base # b)
                         \/ configs[b] \in Present /\ sub[configs[b]].base = b
  <2>1. TAKE b \in Agents
  <2> DEFINE based == {s \in SubInstances : sub[s] # Absent /\ sub[s].base = b}
  <2>2. IF based = {} THEN configs[b] = Absent ELSE configs[b] \in based
    BY DEF SubagentConfigs
  <2>3. QED
    BY <2>2 DEF Present
<1>14. \A s \in ListedSubagents : \E i \in Present : sub[i] = s
  BY DEF ListedSubagents, Present
<1>15. \A i \in Present : sub[i] \in ListedSubagents
  BY DEF ListedSubagents, Present
<1>16. Absent \notin SubInstances /\ YamlModel \in Creatable
  BY AgentSettingsAssumption
<1>17. ASSUME NEW i \in Present
       PROVE  there(sub[i].base) = here(sub[i])
  <2> DEFINE b == sub[i].base
  <2>1. b \in Agents
    BY <1>3, <1>12, <1>15
  <2>2. configs[b] \in Present /\ sub[configs[b]].base = b
    BY <1>13, <2>1
  <2>3. configs[b] = i
    BY <1>3, <2>2, BasesDiffer
  <2>4. configs[b] # Absent
    BY <1>16, <2>2 DEF Present
  <2>5. First(sub[i].model, YamlModel) \in Creatable
    BY <1>7, <1>15
  <2>6. ModelThere(First(sub[i].model, YamlModel)) = First(sub[i].model, YamlModel)
    BY <2>5 DEF ModelThere
  <2>7. QED
    BY <2>3, <2>4, <2>6
<1>18. ASSUME NEW b \in Children(Root) \ {s.base : s \in ListedSubagents}
       PROVE  there(b) = plain(b)
  <2>1. \A s \in Present : sub[s].base # b
    BY <1>15
  <2>2. configs[b] = Absent
    BY <1>12, <1>13, <2>1
  <2>3. QED
    BY <2>2
<1> HIDE DEF there, here, plain, sub, told
<1>19. ASSUME NEW b \in Children(Root)
       PROVE  there(b) \in SubagentsHere
  <2>1. CASE b \in {s.base : s \in ListedSubagents}
    <3>1. PICK s \in ListedSubagents : s.base = b
      BY <2>1
    <3>2. PICK i \in Present : sub[i] = s
      BY <1>14
    <3>3. there(b) = here(s)
      BY <1>17, <3>1, <3>2
    <3>4. QED
      BY <1>11, <3>3
  <2>2. CASE b \notin {s.base : s \in ListedSubagents}
    BY <1>11, <1>18, <2>2
  <2>3. QED
    BY <2>1, <2>2
<1>20. ASSUME NEW s \in ListedSubagents
       PROVE  here(s) \in {there(b) : b \in Children(Root)}
  <2>1. PICK i \in Present : sub[i] = s
    BY <1>14
  <2>2. here(s) = there(s.base) /\ s.base \in Children(Root)
    BY <1>3, <1>17, <2>1
  <2>3. QED
    BY <2>2
<1>21. SubagentsHere \subseteq {there(b) : b \in Children(Root)}
  BY <1>11, <1>18, <1>20
<1>22. {there(b) : b \in Children(Root)} \subseteq SubagentsHere
  BY <1>19
<1>23. QED
  BY <1>2, <1>21, <1>22 DEF told

\* Recall and instructions are the same on the server, but for the switches it is not told.
LEMMA SameSwitches ==
    ASSUME layers \in Layers, NEW bundle \in BOOLEAN, NEW configs
    PROVE  LET told == Metadata(bundle, configs)
               untold(switch) == /\ layers.instance[switch] = Absent
                                 /\ {layers.admin[switch], layers.user[switch]} # {Absent}
           IN /\ \/ layers.instance.session = TRUE \/ untold("session")
                 \/ ~bundle /\ layers.instance.session # Absent
                 \/ RecallThere(told) = RecallHere
              /\ \/ layers.memoryTools = "all" \/ untold("instructions")
                 \/ ~bundle /\ layers.instance.instructions # Absent
                 \/ InstructionsThere(told) = InstructionsHere
<1> DEFINE told == Metadata(bundle, configs)
           yes == layers.yaml
           own == layers.instance
<1>1. /\ yes \in AgentLayer /\ layers.admin \in AgentLayer
      /\ layers.user \in AgentLayer /\ own \in AgentLayer /\ layers.autoRecall \in BOOLEAN
  BY DEF Layers
<1>2. /\ yes.session \in BOOLEAN \union {Absent} /\ own.session \in BOOLEAN \union {Absent}
      /\ yes.instructions \in BOOLEAN \union {Absent}
      /\ own.instructions \in BOOLEAN \union {Absent}
  BY <1>1 DEF AgentLayer, Maybe
<1>3. Absent # TRUE /\ Absent # FALSE
  BY AgentSettingsAssumption
<1>4. /\ told.session = IF bundle THEN own.session ELSE Absent
      /\ told.instructions = IF bundle THEN own.instructions ELSE Absent
  BY DEF Metadata
<1>5. /\ Compiled.recall = First(yes.session, layers.autoRecall)
      /\ Compiled.instructions = First(yes.instructions, layers.memoryTools # "none")
  BY DEF Compiled
<1>6. /\ InstanceConfig.session = First(own.session, First(layers.user.session,
                                      First(layers.admin.session, yes.session)))
      /\ InstanceConfig.instructions = First(own.instructions, First(layers.user.instructions,
                                      First(layers.admin.instructions, yes.instructions)))
  BY InstanceFields
<1> HIDE DEF told, yes, own
<1>7. ASSUME own.session # TRUE, ~(~bundle /\ own.session # Absent),
             own.session = Absent => layers.admin.session = Absent /\ layers.user.session = Absent
      PROVE  RecallThere(told) = RecallHere
  <2>1. CASE own.session = FALSE
    <3>1. told.session = FALSE /\ InstanceConfig.session = FALSE
      BY <1>3, <1>4, <1>6, <1>7, <2>1 DEF First
    <3>2. RecallHere = FALSE
      BY <1>3, <3>1 DEF RecallHere, First
    <3>3. QED
      BY <3>1, <3>2 DEF RecallThere
  <2>2. CASE own.session = Absent
    <3>1. told.session = Absent /\ InstanceConfig.session = yes.session
      BY <1>4, <1>6, <1>7, <2>2 DEF First
    <3>2. RecallHere = Compiled.recall
      BY <1>5, <3>1 DEF RecallHere
    <3>3. Compiled.recall \in BOOLEAN
      BY <1>1, <1>2, <1>5 DEF First
    <3>4. RecallThere(told) = Compiled.recall
      BY <1>3, <3>1, <3>3 DEF RecallThere
    <3>5. QED
      BY <3>2, <3>4
  <2>3. QED
    BY <1>2, <1>7, <2>1, <2>2
<1>8. ASSUME layers.memoryTools # "all", ~(~bundle /\ own.instructions # Absent),
             own.instructions = Absent =>
               layers.admin.instructions = Absent /\ layers.user.instructions = Absent
      PROVE  InstructionsThere(told) = InstructionsHere
  <2> DEFINE there == First(told.instructions, Compiled.instructions)
  <2>1. there \in BOOLEAN
    BY <1>2, <1>4, <1>5 DEF First
  <2>2. InstructionsThere(told) = there
    BY <1>8, <2>1 DEF InstructionsThere
  <2>3. told.instructions = own.instructions
    BY <1>4, <1>8
  <2>4. CASE own.instructions = Absent
    BY <1>5, <1>6, <1>8, <2>2, <2>3, <2>4 DEF InstructionsHere, First
  <2>5. CASE own.instructions # Absent
    BY <1>6, <2>2, <2>3, <2>5 DEF InstructionsHere, First
  <2>6. QED
    BY <2>4, <2>5
<1>9. /\ layers.admin["session"] = layers.admin.session
      /\ layers.user["session"] = layers.user.session
      /\ layers.admin["instructions"] = layers.admin.instructions
      /\ layers.user["instructions"] = layers.user.instructions
      /\ layers.instance["session"] = own.session
      /\ layers.instance["instructions"] = own.instructions
  BY DEF own
<1>10. \/ own.session = TRUE
       \/ /\ layers.instance["session"] = Absent
          /\ {layers.admin["session"], layers.user["session"]} # {Absent}
       \/ ~bundle /\ own.session # Absent
       \/ RecallThere(told) = RecallHere
  BY <1>7, <1>9
<1>11. \/ layers.memoryTools = "all"
       \/ /\ layers.instance["instructions"] = Absent
          /\ {layers.admin["instructions"], layers.user["instructions"]} # {Absent}
       \/ ~bundle /\ own.instructions # Absent
       \/ InstructionsThere(told) = InstructionsHere
  BY <1>8, <1>9
<1>12. QED
  BY <1>10, <1>11 DEF told, own

\* The prompt is the same on the server, unless the instance's is empty.
LEMMA SamePrompt ==
    ASSUME layers \in Layers, layers.override # "", NEW bundle \in BOOLEAN, NEW configs
    PROVE  PromptThere(Metadata(bundle, configs)) = PromptHere
<1> DEFINE told == Metadata(bundle, configs)
<1>1. layers.override \in {Absent, "text"} /\ Absent # "text" /\ Absent # ""
  BY AgentSettingsAssumption DEF Layers
<1>2. told.override = layers.override /\ told.append = layers.append
  BY DEF Metadata
<1>3. Compiled.prompt = {"base"}
  BY DEF Compiled
<1> HIDE DEF told
<1>4. PromptThere(told) = PromptHere
  <2>1. CASE layers.override = "text"
    BY <1>1, <1>2, <2>1 DEF PromptThere, PromptHere
  <2>2. CASE layers.override = Absent
    BY <1>1, <1>2, <1>3, <2>2 DEF PromptThere, PromptHere
  <2>3. QED
    BY <1>1, <2>1, <2>2
<1>5. QED
  BY <1>4 DEF told

\* Each way to build the agent gives what the layers say.
LEMMA BuiltAsWanted ==
    ASSUME SettingsIInv
    PROVE  ServerRunsTheInstance
<1> SUFFICES ASSUME ran # Absent PROVE ServerRunsTheInstance
  BY DEF ServerRunsTheInstance
<1>0. layers \in Layers /\ tree \in [Agents -> SubagentLists]
  BY DEF SettingsIInv
<1>1. CASE ran = Here
  <2>1. InstanceConfig.primary = Wanted
    BY <1>0, InstanceFields
  <2>2. /\ Here.failed = (Wanted \notin Creatable) /\ Here.model = Wanted
        /\ Here.subagents = SubagentsHere
    BY <2>1 DEF Here
  <2>3. QED
    BY <1>1, <2>2 DEF ServerRunsTheInstance
<1>2. ASSUME NEW configs \in SubagentConfigs, NEW where \in {"there", "bundle"},
             NEW bundle \in BOOLEAN, bundle = (where = "bundle"),
             ran = There(where, Metadata(bundle, configs))
      PROVE  ServerRunsTheInstance
  <2> DEFINE told == Metadata(bundle, configs)
             name == First(told.primary, Compiled.model)
  <2>1. name = Wanted /\ First(told.fallback, Compiled.fallback) = InstanceConfig.fallback
    BY <1>0, SameModels
  <2>2. /\ ran.where = where
        /\ ran.failed = (where = "there" /\ name \notin Creatable)
        /\ ran.model = ModelThere(name)
        /\ ran.fallback = Fallback(First(told.fallback, Compiled.fallback), name)
        /\ ran.prompt = PromptThere(told)
        /\ ran.recall = RecallThere(told)
        /\ ran.instructions = InstructionsThere(told)
        /\ ran.subagents = SubagentsThere(told)
    BY <1>2 DEF There
  <2>3. /\ Here.fallback = Fallback(InstanceConfig.fallback, Wanted)
        /\ Here.prompt = PromptHere /\ Here.recall = RecallHere
        /\ Here.instructions = InstructionsHere
    BY <1>0, InstanceFields DEF Here
  <2> DEFINE switched == ran.where = "there" /\ (layers.instance.session # Absent
                                                 \/ layers.instance.instructions # Absent)
             above(switch) == /\ layers.instance[switch] = Absent
                              /\ {layers.admin[switch], layers.user[switch]} # {Absent}
  <2>4. /\ \/ layers.instance.session = TRUE \/ above("session")
           \/ ~bundle /\ layers.instance.session # Absent
           \/ RecallThere(told) = RecallHere
        /\ \/ layers.memoryTools = "all" \/ above("instructions")
           \/ ~bundle /\ layers.instance.instructions # Absent
           \/ InstructionsThere(told) = InstructionsHere
    BY <1>0, SameSwitches
  <2>5. layers.override # "" => PromptThere(told) = PromptHere
    BY <1>0, SamePrompt
  <2>6. SubagentsExcused \/ SubagentsThere(told) = SubagentsHere
    BY <1>0, <1>2, SameSubagents
  <2> HIDE DEF told, name, above
  <2>7. ~bundle => ran.where = "there"
    BY <1>2, <2>2
  <2>8. /\ ran.failed => Wanted \notin Creatable
        /\ ran.model # Wanted => Wanted \notin Creatable /\ (ran.failed \/ ran.where = "bundle")
    BY <1>2, <2>1, <2>2 DEF ModelThere
  <2>9. ran.fallback = Here.fallback /\ (layers.override # "" => ran.prompt = Here.prompt)
    BY <2>1, <2>2, <2>3, <2>5
  <2>10. /\ \/ layers.instance.session = TRUE \/ switched \/ above("session")
            \/ ran.recall = Here.recall
         /\ \/ layers.memoryTools = "all" \/ switched \/ above("instructions")
            \/ ran.instructions = Here.instructions
    BY <2>2, <2>3, <2>4, <2>7
  <2>11. SubagentsExcused \/ ran.subagents = SubagentsHere
    BY <2>2, <2>6
  <2>12. QED
    BY <2>8, <2>9, <2>10, <2>11 DEF ServerRunsTheInstance, above
<1>3. CASE \E configs \in SubagentConfigs : ran = There("there", Metadata(FALSE, configs))
  BY <1>2, <1>3
<1>4. CASE \E configs \in SubagentConfigs : ran = There("bundle", Metadata(TRUE, configs))
  BY <1>2, <1>4
<1>5. QED
  BY <1>1, <1>3, <1>4 DEF SettingsIInv

\* The layers that a run starts with are settings.
LEMMA SettingsStarts == SettingsInit => SettingsIInv
  BY AgentSettingsAssumption DEF SettingsInit, SettingsIInv

\* What is built stays built, from layers that stay.
LEMMA SettingsStep == SettingsIInv /\ [SettingsNext]_settingsVars => SettingsIInv'
<1> SUFFICES ASSUME SettingsIInv, [SettingsNext]_settingsVars PROVE SettingsIInv'
  OBVIOUS
<1>1. layers' = layers /\ tree' = tree
  BY DEF SettingsNext, RunHere, RunThere, RunBundle, settingsVars
<1>2. Here' = Here
  BY <1>1 DEF Here, InstanceConfig, UserConfig, PromptHere, RecallHere, InstructionsHere,
              SubagentsHere, OwnSubagents, ListedHere, BasePrimary
<1>3. SubagentConfigs' = SubagentConfigs
  BY <1>1 DEF SubagentConfigs
<1>4. ASSUME NEW where, NEW bundle \in BOOLEAN, NEW configs
      PROVE  There(where, Metadata(bundle, configs))' = There(where, Metadata(bundle, configs))
  BY <1>1 DEF There, Metadata, InstanceConfig, UserConfig, Compiled, ModelThere, PromptThere,
              RecallThere, InstructionsThere, SubagentsThere, Children
<1>5. CASE ran' = ran
  BY <1>1, <1>2, <1>3, <1>4, <1>5 DEF SettingsIInv
<1>6. CASE RunHere
  BY <1>1, <1>2, <1>6 DEF SettingsIInv, RunHere
<1>7. CASE RunThere
  BY <1>1, <1>3, <1>4, <1>7 DEF SettingsIInv, RunThere
<1>8. CASE RunBundle
  BY <1>1, <1>3, <1>4, <1>8 DEF SettingsIInv, RunBundle
<1>9. QED
  BY <1>5, <1>6, <1>7, <1>8 DEF SettingsNext, settingsVars

\* Wherever an instance runs it runs with what its layers give it, for every configuration,
\* every override and preference, and every instance with its subagents.
THEOREM InstanceRunsAsWanted == SettingsSpec => []ServerRunsTheInstance
  BY SettingsStarts, SettingsStep, BuiltAsWanted, PTL DEF SettingsSpec

-----------------------------------------------------------------------------
(* The hierarchy of subagents.                                             *)

\* A path down from Root, as long as the builder goes.
IsPath(p) == /\ p \in Seq(Agents) /\ 1 <= Len(p) /\ Len(p) <= Cardinality(Agents) + 2
             /\ p[1] = Root
             /\ \A i \in 2..Len(p) : p[i] \in Children(p[i - 1])

\* Paths are sequences.
LEMMA PathsAreThese ==
    /\ Cardinality(Agents) \in Nat
    /\ \A p : p \in Paths <=> IsPath(p)
<1>1. Cardinality(Agents) \in Nat
  BY AgentSettingsAssumption, FS_CardinalityType
<1> DEFINE bound == Cardinality(Agents) + 2
<1>2. ASSUME NEW p, p \in Paths PROVE IsPath(p)
  <2>1. PICK n \in 1..bound : p \in [1..n -> Agents]
    BY <1>2 DEF Paths
  <2>2. n \in Nat
    BY <1>1
  <2>3. p \in Seq(Agents) /\ Len(p) = n
    BY <2>1, <2>2
  <2>4. p[1] = Root /\ \A i \in 2..Len(p) : p[i] \in Children(p[i - 1])
    BY <1>2 DEF Paths
  <2>5. QED
    BY <1>1, <2>1, <2>3, <2>4 DEF IsPath
<1>3. ASSUME NEW p, IsPath(p) PROVE p \in Paths
  <2>1. Len(p) \in 1..bound /\ p \in [1..Len(p) -> Agents]
    BY <1>1, <1>3 DEF IsPath
  <2>2. p[1] = Root /\ \A i \in 2..Len(p) : p[i] \in Children(p[i - 1])
    BY <1>3 DEF IsPath
  <2>3. QED
    BY <2>1, <2>2 DEF Paths
<1>4. QED
  BY <1>1, <1>2, <1>3

\* A path that comes back to an agent, or to a child of an agent it has been at, can be cut.
LEMMA Shortcut ==
    ASSUME NEW p, IsPath(p), NEW i \in Nat, NEW j \in Nat, 1 <= i, i < j, j <= Len(p),
           \/ j < Len(p) /\ p[j + 1] \in Children(p[i])
           \/ j = Len(p) /\ p[i] = p[j]
    PROVE  \E q : IsPath(q) /\ Len(q) < Len(p) /\ q[Len(q)] = p[Len(p)]
<1> DEFINE n == Len(p)
           d == j - i
           q == [k \in 1..(n - d) |-> IF k <= i THEN p[k] ELSE p[k + d]]
<1>1. /\ p \in Seq(Agents) /\ n \in Nat /\ n <= Cardinality(Agents) + 2 /\ p[1] = Root
      /\ \A k \in 2..n : p[k] \in Children(p[k - 1])
      /\ \A k \in 1..n : p[k] \in Agents
  BY DEF IsPath
<1>2. d \in Nat /\ 1 <= d /\ i <= n - d /\ n - d \in Nat /\ n - d < n /\ d + i = j
  BY <1>1
<1>0. Cardinality(Agents) \in Nat
  BY PathsAreThese
<1> HIDE DEF n, d
<1>3. \A k \in 1..(n - d) : q[k] = IF k <= i THEN p[k] ELSE p[k + d]
  OBVIOUS
<1>4. q \in [1..(n - d) -> Agents]
  <2>1. \A k \in 1..(n - d) : k \in 1..n /\ (k > i => k + d \in 1..n)
    BY <1>1, <1>2
  <2>2. ASSUME NEW k \in 1..(n - d) PROVE q[k] \in Agents
    <3>1. k \in 1..n /\ (k > i => k + d \in 1..n)
      BY <2>1
    <3>2. CASE k <= i
      BY <1>1, <1>3, <3>1, <3>2
    <3>3. CASE k > i
      BY <1>1, <1>3, <3>1, <3>3
    <3>4. QED
      BY <1>2, <3>2, <3>3
  <2>3. QED
    BY <2>2
<1> HIDE DEF q
<1>5. q \in Seq(Agents) /\ Len(q) = n - d
  BY <1>2, <1>4
<1>6. q[1] = Root
  BY <1>1, <1>2, <1>3
<1>7. ASSUME NEW k \in 2..(n - d) PROVE q[k] \in Children(q[k - 1])
  <2>0. k \in 1..(n - d) /\ k - 1 \in 1..(n - d) /\ k \in Nat /\ k \in 2..n
    BY <1>1, <1>2
  <2>1. CASE k <= i
    <3>1. q[k] = p[k] /\ q[k - 1] = p[k - 1]
      BY <1>3, <2>0, <2>1
    <3>2. QED
      BY <1>1, <2>0, <3>1
  <2>2. CASE k = i + 1
    <3>1. q[k] = p[k + d] /\ q[k - 1] = p[k - 1] /\ k + d = j + 1 /\ k - 1 = i
      BY <1>2, <1>3, <2>0, <2>2
    <3>2. j < n
      BY <1>1, <1>2, <2>0, <2>2
    <3>3. p[j + 1] \in Children(p[i])
      BY <1>1, <3>2 DEF n
    <3>4. QED
      BY <3>1, <3>3
  <2>3. CASE k > i + 1
    <3>1. q[k] = p[k + d] /\ q[k - 1] = p[(k - 1) + d] /\ (k - 1) + d = (k + d) - 1
      BY <1>2, <1>3, <2>0, <2>3
    <3>2. k + d \in 2..n
      BY <1>1, <1>2, <2>0
    <3>3. QED
      BY <1>1, <3>1, <3>2
  <2>4. QED
    BY <2>0, <2>1, <2>2, <2>3
<1>8. q[n - d] = p[n]
  <2>1. CASE j < n
    <3>1. ~(n - d <= i) /\ (n - d) + d = n /\ n - d \in 1..(n - d)
      BY <1>1, <1>2, <2>1
    <3>2. QED
      BY <1>3, <3>1
  <2>2. CASE j = n
    <3>1. n - d = i /\ n - d \in 1..(n - d) /\ ~(j < n)
      BY <1>1, <1>2, <2>2
    <3>2. q[n - d] = p[i] /\ p[i] = p[j]
      BY <1>3, <3>1 DEF n
    <3>3. QED
      BY <2>2, <3>2
  <2>3. QED
    BY <1>1, <2>1, <2>2 DEF n
<1>9. IsPath(q)
  BY <1>0, <1>1, <1>2, <1>5, <1>6, <1>7 DEF IsPath
<1>10. QED
  BY <1>2, <1>5, <1>8, <1>9 DEF n

\* To each agent that is reached there is a path that cannot be cut.
LEMMA ShortestPath ==
    ASSUME NEW p, IsPath(p)
    PROVE  \E s : /\ IsPath(s) /\ s[Len(s)] = p[Len(p)]
                  /\ \A q : IsPath(q) /\ q[Len(q)] = p[Len(p)] => Len(s) <= Len(q)
<1> DEFINE to == {q \in Paths : q[Len(q)] = p[Len(p)]}
           lengths == {Len(q) : q \in to}
           bound == Cardinality(Agents) + 2
           least == CHOOSE d \in lengths : \A e \in lengths : d <= e
<1>1. bound \in Nat /\ \A q : q \in Paths <=> IsPath(q)
  BY PathsAreThese
<1>2. lengths \subseteq 1..bound
  <2>1. \A q \in to : Len(q) \in Nat /\ 1 <= Len(q) /\ Len(q) <= bound
    BY <1>1 DEF IsPath
  <2> HIDE DEF bound
  <2>2. QED
    BY <1>1, <2>1
<1>3. lengths \in SUBSET Nat /\ lengths # {}
  BY <1>1, <1>2, SMTT(30)
<1>4. IsFiniteSet(lengths)
  <2>1. IsFiniteSet(1..bound)
    BY <1>1, FS_Interval
  <2> HIDE DEF lengths, bound
  <2>2. QED
    BY <1>2, <2>1, FS_Subset
<1>5. least \in lengths /\ \A e \in lengths : least <= e
  <2> HIDE DEF lengths
  <2>1. QED
    BY <1>3, <1>4, LeastOf
<1>6. PICK s \in to : Len(s) = least
  BY <1>5
<1> HIDE DEF least
<1>7. QED
  BY <1>1, <1>5, <1>6

\* An agent is among those that its parent's list has up to it, which are children of the parent.
LEMMA UpToIsChildren ==
    ASSUME tree \in [Agents -> SubagentLists], NEW a \in Agents, NEW b \in Children(a)
    PROVE  b \in UpTo(tree[a], b) /\ UpTo(tree[a], b) \subseteq Children(a)
<1> DEFINE list == tree[a]
           at == CHOOSE i \in DOMAIN list : list[i] = b
<1>1. list \in Seq(Agents)
  BY DEF SubagentLists
<1>2. at \in DOMAIN list /\ list[at] = b
  BY DEF Children
<1>3. Len(list) \in Nat /\ DOMAIN list = 1..Len(list)
  BY <1>1
<1>4. UpTo(list, b) = {list[i] : i \in 1..at}
  BY DEF UpTo
<1> HIDE DEF at
<1>5. at \in 1..at /\ 1..at \subseteq DOMAIN list
  BY <1>2, <1>3
<1>6. QED
  BY <1>2, <1>4, <1>5 DEF Children

\* A path as the builder on the server sees it: no agent on it is a child of one above it that
\* was gone through before.
LEMMA Unvisited ==
    ASSUME tree \in [Agents -> SubagentLists], NEW p, IsPath(p), NEW i \in 2..Len(p),
           p[i] \in Visited(p, i)
    PROVE  \E j \in Nat : 2 <= j /\ j < i /\ p[i] \in Children(p[j - 1])
<1>1. PICK j \in 2..(i - 1) : p[i] \in UpTo(tree[p[j - 1]], p[j])
  BY DEF Visited
<1>2. Len(p) \in Nat /\ \A k \in 1..Len(p) : p[k] \in Agents
  BY DEF IsPath
<1>3. i \in Nat /\ i <= Len(p) /\ j \in Nat /\ 2 <= j /\ j < i /\ j \in 2..Len(p)
      /\ j - 1 \in 1..Len(p)
  BY <1>1, <1>2
<1>4. p[j - 1] \in Agents /\ p[j] \in Children(p[j - 1])
  BY <1>2, <1>3 DEF IsPath
<1>5. UpTo(tree[p[j - 1]], p[j]) \subseteq Children(p[j - 1])
  BY <1>4, UpToIsChildren
<1>6. QED
  BY <1>1, <1>3, <1>5

\* What is on the path is visited further down.
LEMMA VisitedBelow ==
    ASSUME tree \in [Agents -> SubagentLists], NEW p, IsPath(p), NEW i \in 2..Len(p),
           NEW j \in 2..Len(p), j < i
    PROVE  p[j] \in Visited(p, i)
<1>1. Len(p) \in Nat /\ \A k \in 1..Len(p) : p[k] \in Agents
  BY DEF IsPath
<1>2. j \in 2..(i - 1) /\ j - 1 \in 1..Len(p)
  BY <1>1
<1>3. p[j - 1] \in Agents /\ p[j] \in Children(p[j - 1])
  BY <1>1, <1>2 DEF IsPath
<1>4. p[j] \in UpTo(tree[p[j - 1]], p[j])
  BY <1>3, UpToIsChildren
<1>5. QED
  BY <1>2, <1>4 DEF Visited

\* No path that is built is longer than all agents one after the other below Root.
LEMMA BuildersEnd ==
    ASSUME tree \in [Agents -> SubagentLists], NEW p \in BuiltHere \union BuiltThere
    PROVE  Len(p) <= Cardinality(Agents) + 1
<1> DEFINE n == Len(p)
           T == 2..n
           f == [i \in T |-> p[i]]
<1>1. IsPath(p) /\ Cardinality(Agents) \in Nat
  BY PathsAreThese DEF BuiltHere, BuiltThere
<1>2. n \in Nat /\ 1 <= n /\ DOMAIN p = 1..n /\ \A i \in 1..n : p[i] \in Agents
  BY <1>1 DEF IsPath
<1>3. \A i, j \in T : p[i] = p[j] => i = j
  <2>1. CASE p \in BuiltHere
    BY <1>2, <2>1 DEF BuiltHere, IsInjective
  <2>2. CASE p \in BuiltThere
    <3>1. \A i, j \in T : j < i => p[i] # p[j]
      <4>1. TAKE i, j \in T
      <4>2. CASE j < i
        <5>1. p[j] \in Visited(p, i)
          BY <1>1, <4>2, VisitedBelow
        <5>2. QED
          BY <2>2, <5>1 DEF BuiltThere
      <4>3. QED
        BY <4>2
    <3>2. QED
      BY <1>2, <3>1
  <2>3. QED
    BY <2>1, <2>2
<1>4. f \in [T -> Agents] /\ \A i, j \in T : f[i] = f[j] => i = j
  BY <1>2, <1>3
<1> HIDE DEF f
<1>5. f \in Injection(T, Agents)
  BY <1>4 DEF Injection, IsInjective
<1>6. Cardinality(T) <= Cardinality(Agents)
  BY <1>5, FS_Injection, AgentSettingsAssumption
<1>7. Cardinality(T) = n - 1
  <2>1. Cardinality(T) = IF 2 > n THEN 0 ELSE n - 2 + 1
    BY <1>2, FS_Interval
  <2>2. QED
    BY <1>2, <2>1
<1>8. QED
  BY <1>1, <1>2, <1>6, <1>7

\* A path that cannot be cut is built by both.
LEMMA ShortestIsBuilt ==
    ASSUME tree \in [Agents -> SubagentLists], NEW s, IsPath(s),
           \A q : IsPath(q) /\ q[Len(q)] = s[Len(s)] => Len(s) <= Len(q)
    PROVE  s \in BuiltHere /\ s \in BuiltThere
<1>1. s \in Paths
  BY PathsAreThese
<1>2. Len(s) \in Nat /\ DOMAIN s = 1..Len(s)
  BY DEF IsPath
<1>3. ~\E q : IsPath(q) /\ Len(q) < Len(s) /\ q[Len(q)] = s[Len(s)]
  <2>1. \A q : IsPath(q) => Len(q) \in Nat
    BY DEF IsPath
  <2>2. QED
    BY <1>2, <2>1
<1>4. \A i, j \in 1..Len(s) : i < j => s[i] # s[j]
  <2>1. SUFFICES ASSUME NEW i \in 1..Len(s), NEW j \in 1..Len(s), i < j, s[i] = s[j] PROVE FALSE
    OBVIOUS
  <2>2. i \in Nat /\ j \in Nat /\ 1 <= i /\ j <= Len(s)
    BY <1>2
  <2>3. j < Len(s) => s[j + 1] \in Children(s[i])
    <3>1. CASE j < Len(s)
      <4>1. j + 1 \in 2..Len(s) /\ (j + 1) - 1 = j
        BY <1>2, <2>2, <3>1
      <4>2. s[j + 1] \in Children(s[j])
        BY <4>1 DEF IsPath
      <4>3. QED
        BY <2>1, <4>2
    <3>2. QED
      BY <3>1
  <2>4. \/ j < Len(s) /\ s[j + 1] \in Children(s[i])
        \/ j = Len(s) /\ s[i] = s[j]
    <3>1. \A a, b \in Nat : a <= b => a < b \/ a = b
      OBVIOUS
    <3>2. j < Len(s) \/ j = Len(s)
      BY <1>2, <2>2, <3>1, Zenon
    <3>3. QED
      BY <2>1, <2>3, <3>2, Zenon
  <2>5. QED
    BY <1>3, <2>1, <2>2, <2>4, Shortcut
<1>5. s \in BuiltHere
  BY <1>1, <1>2, <1>4 DEF BuiltHere, IsInjective
<1>6. \A i \in 2..Len(s) : s[i] \notin Visited(s, i)
  <2>1. SUFFICES ASSUME NEW i \in 2..Len(s), s[i] \in Visited(s, i) PROVE FALSE
    OBVIOUS
  <2>2. PICK j \in Nat : 2 <= j /\ j < i /\ s[i] \in Children(s[j - 1])
    BY <2>1, Unvisited
  <2>3. /\ i - 1 \in Nat /\ j - 1 \in Nat /\ 1 <= j - 1 /\ j - 1 < i - 1 /\ i - 1 <= Len(s)
        /\ i - 1 < Len(s) /\ (i - 1) + 1 = i
    BY <1>2, <2>2
  <2>4. QED
    BY <1>3, <2>2, <2>3, Shortcut
<1>7. QED
  BY <1>1, <1>5, <1>6 DEF BuiltThere

\* Each builder comes to every agent that Root reaches.
LEMMA AllAreBuilt ==
    ASSUME tree \in [Agents -> SubagentLists], NEW built, built \in {BuiltHere, BuiltThere}
    PROVE  Under(built) \ {Root} = Under(Paths) \ {Root}
<1>1. built \subseteq Paths
  BY DEF BuiltHere, BuiltThere
<1>2. Under(built) \subseteq Under(Paths)
  BY <1>1 DEF Under
<1>3. ASSUME NEW a \in Under(Paths), a # Root PROVE a \in Under(built)
  <2>1. PICK p \in Paths : p[Len(p)] = a
    BY DEF Under
  <2>2. IsPath(p)
    BY PathsAreThese
  <2>3. PICK s : /\ IsPath(s) /\ s[Len(s)] = a
                 /\ \A q : IsPath(q) /\ q[Len(q)] = a => Len(s) <= Len(q)
    BY <2>1, <2>2, ShortestPath
  <2>4. s \in built
    BY <2>3, ShortestIsBuilt
  <2>5. Len(s) \in Nat /\ 1 <= Len(s) /\ s[1] = Root
    BY <2>3 DEF IsPath
  <2>6. Len(s) > 1
    BY <1>3, <2>3, <2>5
  <2>7. QED
    BY <2>3, <2>4, <2>6 DEF Under
<1>4. QED
  BY <1>2, <1>3

\* In a tree the two builders build the same.
LEMMA TreesAreBuiltAlike ==
    ASSUME tree \in [Agents -> SubagentLists],
           \A a, b \in Agents, c \in Agents \ {Root} :
               c \in Children(a) \intersect Children(b) => a = b,
           \A a \in Agents : Root \notin Children(a)
    PROVE  BuiltHere = BuiltThere
<1>1. ASSUME NEW p \in Paths PROVE p \in BuiltHere <=> p \in BuiltThere
  <2>1. IsPath(p)
    BY PathsAreThese
  <2>2. /\ Len(p) \in Nat /\ DOMAIN p = 1..Len(p) /\ \A i \in 1..Len(p) : p[i] \in Agents
        /\ p[1] = Root
        /\ \A i \in 2..Len(p) : p[i] \in Children(p[i - 1])
    BY <2>1 DEF IsPath
  <2>3. \A i \in 2..Len(p) : i \in 1..Len(p) /\ i - 1 \in 1..Len(p) /\ p[i] # Root
    BY <2>2
  <2>4. ASSUME p \in BuiltHere, NEW i \in 2..Len(p), p[i] \in Visited(p, i) PROVE FALSE
    <3>1. PICK j \in Nat : 2 <= j /\ j < i /\ p[i] \in Children(p[j - 1])
      BY <2>1, <2>4, Unvisited
    <3>2. j - 1 \in 1..Len(p) /\ i - 1 \in 1..Len(p) /\ j - 1 # i - 1
      BY <2>2, <2>3, <3>1
    <3>3. p[i] \in Agents \ {Root} /\ p[i] \in Children(p[i - 1])
      BY <2>2, <2>3
    <3>4. p[j - 1] = p[i - 1]
      BY <2>2, <3>1, <3>2, <3>3
    <3>5. QED
      BY <2>2, <2>4, <3>2, <3>4 DEF BuiltHere, IsInjective
  <2>5. ASSUME p \in BuiltThere PROVE IsInjective(p)
    <3>1. ASSUME NEW i \in 1..Len(p), NEW j \in 1..Len(p), j < i PROVE p[i] # p[j]
      <4>1. i \in 2..Len(p)
        BY <2>2, <3>1
      <4>2. CASE j = 1
        BY <2>2, <2>3, <4>1, <4>2
      <4>3. CASE j # 1
        <5>1. j \in 2..Len(p)
          BY <2>2, <4>3
        <5>2. p[j] \in Visited(p, i)
          BY <2>1, <3>1, <4>1, <5>1, VisitedBelow
        <5>3. QED
          BY <2>5, <4>1, <5>2 DEF BuiltThere
      <4>4. QED
        BY <4>2, <4>3
    <3>2. QED
      BY <2>2, <3>1 DEF IsInjective
  <2>6. QED
    BY <2>4, <2>5 DEF BuiltHere, BuiltThere
<1>2. BuiltHere \subseteq Paths /\ BuiltThere \subseteq Paths
  BY DEF BuiltHere, BuiltThere
<1>3. QED
  BY <1>1, <1>2

\* However agents list each other as subagents, both builders come to an end, build every agent
\* that Root reaches, and agree where the lists form a tree.
THEOREM HierarchiesAreBuilt == SettingsSpec => []HierarchyIsBuilt
<1>1. SettingsIInv => HierarchyIsBuilt
  <2> SUFFICES ASSUME SettingsIInv PROVE HierarchyIsBuilt
    OBVIOUS
  <2>1. tree \in [Agents -> SubagentLists]
    BY DEF SettingsIInv
  <2>2. \A p \in BuiltHere \union BuiltThere : Len(p) <= Cardinality(Agents) + 1
    BY <2>1, BuildersEnd
  <2>3. /\ Under(BuiltHere) \ {Root} = Under(Paths) \ {Root}
        /\ Under(BuiltThere) \ {Root} = Under(Paths) \ {Root}
    BY <2>1, AllAreBuilt
  <2>4. (\A a, b \in Agents, c \in Agents \ {Root} :
             c \in Children(a) \intersect Children(b) => a = b)
        /\ (\A a \in Agents : Root \notin Children(a)) => BuiltHere = BuiltThere
    BY <2>1, TreesAreBuiltAlike
  <2>5. QED
    BY <2>2, <2>3, <2>4 DEF HierarchyIsBuilt
<1>2. QED
  BY <1>1, SettingsStarts, SettingsStep, PTL DEF SettingsSpec
=============================================================================
