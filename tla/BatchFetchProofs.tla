------------------------- MODULE BatchFetchProofs -------------------------
(***************************************************************************)
(* Theorems about BatchFetch, for any number of items, workers, messages   *)
(* and faults: type correctness, and that fetching implements the promise  *)
(* of BatchResults.                                                        *)
(***************************************************************************)
EXTENDS BatchFetch, FiniteSetTheorems, TLAPS

\* Names for the disjuncts of Next: every step is one of these.
LEMMA StepCases ==
    ASSUME Next
    PROVE  \/ Send
           \/ \E w \in Workers, r \in 0..MaxRetries : LoadJob(w, r)
           \/ \E w \in Workers :
                 \/ LoadItems(w) \/ Call(w) \/ StoreItem(w) \/ PassItem(w)
                 \/ CountItem(w) \/ Finish(w) \/ Announce(w)
                 \/ CallTransient(w) \/ CallPermanent(w) \/ Crash(w) \/ Abort(w)
BY DEF Next, Progress

-----------------------------------------------------------------------------
(* Type correctness.                                                       *)

\* The variables other than task have their types.
RowsOK ==
    /\ results \in [Items -> Result]
    /\ item \in [Items -> ItemStatus]
    /\ success \in Int
    /\ error \in Int
    /\ announced \in BOOLEAN
    /\ waiting \in [0..MaxRetries -> Nat]
    /\ sent \in 0..MaxSends
    /\ faults \in [FaultKinds -> 0..MaxFaults]

\* A task is well typed, its tallies do not exceed the items it has gone through,
\* and the item it is counting exists.
TaskOK(t) ==
    /\ t \in Task
    /\ t.ok + t.bad <= IF t.pc = "count" THEN t.at ELSE t.at - 1
    /\ t.pc = "count" => t.at \in Items

Typed == RowsOK /\ task \in [Workers -> Task] /\ \A w \in Workers : TaskOK(task[w])

\* The session a task starts from, and returns to, is a good one.
LEMMA IdleOK == TaskOK(Idle)
BY FetchAssumption DEF TaskOK, Idle, Task, Items, ItemStatus

\* A step that gives one worker a good task and leaves the rest typed is fine.
LEMMA BecomeTyped ==
    ASSUME Typed, RowsOK', NEW w \in Workers, NEW t, TaskOK(t), Become(w, t)
    PROVE  Typed'
<1>1. task' \in [Workers -> Task]
  BY DEF Typed, TaskOK, Become
<1>2. \A v \in Workers : task'[v] = IF v = w THEN t ELSE task[v]
  BY DEF Typed, Become
<1>3. \A v \in Workers : TaskOK(task'[v])
  BY <1>2 DEF Typed
<1>4. QED
  BY <1>1, <1>3 DEF Typed

\* The initial state is well typed: the job has just been completed.
LEMMA TypedInit == Init => Typed
<1> SUFFICES ASSUME Init PROVE Typed
  OBVIOUS
<1>1. RowsOK
  <2>1. item \in [Items -> ItemStatus] /\ waiting \in [0..MaxRetries -> Nat]
    BY DEF Init, ItemStatus
  <2>2. sent \in 0..MaxSends /\ faults \in [FaultKinds -> 0..MaxFaults]
    BY FetchAssumption DEF Init
  <2>3. success \in Int /\ error \in Int
    BY DEF Init
  <2>4. announced \in BOOLEAN /\ results \in [Items -> Result]
    BY DEF Init
  <2>5. QED
    BY <2>1, <2>2, <2>3, <2>4 DEF RowsOK
<1>2. task \in [Workers -> Task] /\ \A w \in Workers : TaskOK(task[w])
  BY IdleOK DEF Init, TaskOK
<1>3. QED
  BY <1>1, <1>2 DEF Typed

\* Every step of a fetch task, a crash or a retry keeps the state well typed.
LEMMA TypedStep == Typed /\ [Next]_vars => Typed'
<1> SUFFICES ASSUME Typed, [Next]_vars PROVE Typed'
  OBVIOUS
<1> USE FetchAssumption, IdleOK
<1>0. \A w \in Workers : TaskOK(task[w]) /\ task[w] \in Task
  BY DEF Typed, TaskOK
<1>1. CASE Send
  BY <1>1 DEF Typed, RowsOK, Send, Enqueue, row
<1>2. ASSUME NEW w \in Workers, NEW r \in 0..MaxRetries, LoadJob(w, r)
      PROVE  Typed'
  <2> DEFINE t == [Idle EXCEPT !.pc = "items", !.retries = r,
                               !.success = success, !.error = error]
  <2>1. TaskOK(t)
    BY DEF Typed, RowsOK, TaskOK, Task, Idle, Items
  <2>2. RowsOK'
    BY <1>2 DEF Typed, RowsOK, LoadJob, row
  <2>3. Become(w, t)
    BY <1>2 DEF LoadJob
  <2> HIDE DEF t
  <2>4. QED
    BY <2>1, <2>2, <2>3, BecomeTyped
<1>3. ASSUME NEW w \in Workers, LoadItems(w)
      PROVE  Typed'
  <2> DEFINE t == [task[w] EXCEPT !.pc = "call", !.item = item]
  <2>1. TaskOK(t)
    BY <1>0, <1>3 DEF Typed, RowsOK, TaskOK, Task, LoadItems, At
  <2>2. RowsOK'
    BY <1>3 DEF Typed, RowsOK, LoadItems, row
  <2>3. Become(w, t) \/ Become(w, Idle)
    BY <1>3 DEF LoadItems
  <2> HIDE DEF t
  <2>4. QED
    BY <2>1, <2>2, <2>3, BecomeTyped
<1>4. ASSUME NEW w \in Workers, Call(w)
      PROVE  Typed'
  <2> DEFINE t == [task[w] EXCEPT !.pc = "store"]
  <2>1. TaskOK(t)
    BY <1>0, <1>4 DEF TaskOK, Task, Call, At
  <2>2. RowsOK'
    BY <1>4 DEF Typed, RowsOK, Call, row
  <2>3. Become(w, t)
    BY <1>4 DEF Call
  <2> HIDE DEF t
  <2>4. QED
    BY <2>1, <2>2, <2>3, BecomeTyped
<1>5. ASSUME NEW w \in Workers, StoreItem(w)
      PROVE  Typed'
  <2> DEFINE s == task[w]
             new == StatusFor(results[s.at])
             same == s.item[s.at] = new
             t == [s EXCEPT !.pc = IF same THEN "store" ELSE "count",
                            !.at = IF same THEN @ + 1 ELSE @,
                            !.ok = IF new = "completed" THEN @ + 1 ELSE @,
                            !.bad = IF new = "failed" THEN @ + 1 ELSE @]
  <2>1. s \in Task /\ s.pc = "store" /\ s.at \in Items /\ s.ok + s.bad <= s.at - 1
    <3>1. s \in Task /\ s.pc = "store" /\ s.at <= N /\ s.ok + s.bad <= s.at - 1
      BY <1>0, <1>5 DEF TaskOK, StoreItem, At
    <3> HIDE DEF s
    <3>2. s.at \in 1..(N + 1)
      BY <3>1 DEF Task
    <3>3. QED
      BY <3>1, <3>2 DEF Items
  <2>2. new \in {"completed", "failed"}
    BY DEF StatusFor
  <2>3. TaskOK(t)
    <3> HIDE DEF s, new, same
    <3>1. s.at \in 1..N /\ s.ok \in 0..N /\ s.bad \in 0..N
      BY <2>1 DEF Task, Items
    <3>a. s.at + 1 \in 1..(N + 1) /\ s.ok + 1 \in 0..N /\ s.bad + 1 \in 0..N
      BY <2>1, <3>1
    <3>2. t \in Task
      BY <2>1, <3>1, <3>a DEF Task
    <3>3. /\ t.pc = IF same THEN "store" ELSE "count"
          /\ t.at = IF same THEN s.at + 1 ELSE s.at
          /\ t.ok + t.bad = s.ok + s.bad + 1
      BY <2>1, <2>2, <3>1 DEF Task
    <3> HIDE DEF t
    <3>4. QED
      BY <2>1, <3>1, <3>2, <3>3 DEF TaskOK, Items
  <2>4. RowsOK'
    BY <1>5, <2>1, <2>2 DEF Typed, RowsOK, StoreItem, ItemStatus
  <2>5. Become(w, t)
    BY <1>5 DEF StoreItem
  <2> HIDE DEF t
  <2>6. QED
    BY <2>3, <2>4, <2>5, BecomeTyped
<1>6. ASSUME NEW w \in Workers, PassItem(w)
      PROVE  Typed'
  <2> DEFINE s == task[w]
             t == [s EXCEPT !.at = @ + 1]
  <2>1. s \in Task /\ s.pc = "store" /\ s.at <= N /\ s.ok + s.bad <= s.at - 1
    BY <1>0, <1>6 DEF TaskOK, PassItem, At
  <2>2. TaskOK(t)
    <3> HIDE DEF s
    <3>1. s.at \in 1..N /\ s.ok \in 0..N /\ s.bad \in 0..N
      BY <2>1 DEF Task
    <3>2. t \in Task
      BY <2>1, <3>1 DEF Task
    <3>3. t.pc = "store" /\ t.at = s.at + 1 /\ t.ok = s.ok /\ t.bad = s.bad
      BY <2>1 DEF Task
    <3> HIDE DEF t
    <3>4. QED
      BY <2>1, <3>1, <3>2, <3>3 DEF TaskOK
  <2>3. RowsOK'
    BY <1>6 DEF Typed, RowsOK, PassItem, row
  <2>4. Become(w, t)
    BY <1>6 DEF PassItem
  <2> HIDE DEF t
  <2>5. QED
    BY <2>2, <2>3, <2>4, BecomeTyped
<1>7. ASSUME NEW w \in Workers, CountItem(w)
      PROVE  Typed'
  <2> DEFINE s == task[w]
             new == StatusFor(results[s.at])
             ds == Delta(s.item[s.at], new, "completed")
             de == Delta(s.item[s.at], new, "failed")
             t == [s EXCEPT !.pc = "store", !.at = @ + 1,
                            !.success = @ + ds, !.error = @ + de]
  <2>1. s \in Task /\ s.pc = "count" /\ s.at \in Items /\ s.ok + s.bad <= s.at
    BY <1>0, <1>7 DEF TaskOK, CountItem, At
  <2>2. ds \in Int /\ de \in Int
    BY DEF Delta
  <2>3. TaskOK(t)
    <3> HIDE DEF s, ds, de
    <3>1. s.at \in 1..N /\ s.ok \in 0..N /\ s.bad \in 0..N
      BY <2>1 DEF Task, Items
    <3>a. s.at + 1 \in 1..(N + 1) /\ s.success + ds \in Int /\ s.error + de \in Int
      BY <2>1, <2>2, <3>1 DEF Task
    <3>2. t \in Task
      BY <2>1, <3>a DEF Task
    <3>3. t.pc = "store" /\ t.at = s.at + 1 /\ t.ok = s.ok /\ t.bad = s.bad
      BY <2>1 DEF Task
    <3> HIDE DEF t
    <3>4. QED
      BY <2>1, <3>1, <3>2, <3>3 DEF TaskOK
  <2>4. RowsOK'
    <3> HIDE DEF ds, de
    <3>1. s.success + ds \in Int /\ s.error + de \in Int
      BY <2>1, <2>2 DEF Task
    <3>2. success' \in Int /\ error' \in Int
      BY <1>7, <3>1 DEF CountItem, Typed, RowsOK, ds, de
    <3>3. QED
      BY <1>7, <3>2 DEF Typed, RowsOK, CountItem
  <2>5. Become(w, t)
    BY <1>7 DEF CountItem
  <2> HIDE DEF t
  <2>6. QED
    BY <2>3, <2>4, <2>5, BecomeTyped
<1>8. ASSUME NEW w \in Workers, Finish(w)
      PROVE  Typed'
  <2> DEFINE t == [task[w] EXCEPT !.pc = "event"]
  <2>1. TaskOK(t)
    BY <1>0, <1>8 DEF TaskOK, Task, Finish, At
  <2>2. RowsOK'
    BY <1>0, <1>8, SMTT(30) DEF Typed, RowsOK, Finish, Task
  <2>3. Become(w, t)
    BY <1>8 DEF Finish
  <2> HIDE DEF t
  <2>4. QED
    BY <2>1, <2>2, <2>3, BecomeTyped
<1>9. ASSUME NEW w \in Workers, Announce(w)
      PROVE  Typed'
  <2>1. RowsOK'
    BY <1>9 DEF Typed, RowsOK, Announce
  <2>2. QED
    BY <1>9, <2>1, BecomeTyped DEF Announce
<1>10. ASSUME NEW w \in Workers, CallTransient(w)
       PROVE  Typed'
  <2>1. RowsOK'
    <3>1. waiting' \in [0..MaxRetries -> Nat]
      <4>1. task[w].retries \in 0..MaxRetries
        BY <1>0 DEF Task
      <4>2. CASE task[w].retries < MaxRetries
        <5>1. waiting' = [waiting EXCEPT ![task[w].retries + 1] = @ + 1]
          BY <1>10, <4>2 DEF CallTransient, Enqueue
        <5>2. QED
          BY <4>1, <4>2, <5>1 DEF Typed, RowsOK
      <4>3. CASE ~(task[w].retries < MaxRetries)
        BY <1>10, <4>3 DEF CallTransient, Typed, RowsOK
      <4>4. QED
        BY <4>2, <4>3
    <3>2. QED
      BY <1>10, <3>1, SMTT(30) DEF Typed, RowsOK, CallTransient, Fault, row
  <2>2. QED
    BY <1>10, <2>1, BecomeTyped DEF CallTransient
<1>11. ASSUME NEW w \in Workers, CallPermanent(w)
       PROVE  Typed'
  <2>1. RowsOK'
    BY <1>11 DEF Typed, RowsOK, CallPermanent, Fault, row
  <2>2. QED
    BY <1>11, <2>1, BecomeTyped DEF CallPermanent
<1>12. ASSUME NEW w \in Workers, Crash(w)
       PROVE  Typed'
  <2>1. RowsOK'
    <3>1. waiting' \in [0..MaxRetries -> Nat]
      BY <1>0, <1>12, SMTT(30) DEF Typed, RowsOK, Crash, Enqueue, Task
    <3>2. QED
      BY <1>12, <3>1, SMTT(30) DEF Typed, RowsOK, Crash, Fault, row
  <2>2. QED
    BY <1>12, <2>1, BecomeTyped DEF Crash
<1>13. ASSUME NEW w \in Workers, Abort(w)
       PROVE  Typed'
  <2>1. RowsOK'
    BY <1>13 DEF Typed, RowsOK, Abort, Fault, row
  <2>2. QED
    BY <1>13, <2>1, BecomeTyped DEF Abort
<1>14. CASE UNCHANGED vars
  BY <1>14 DEF Typed, RowsOK, vars, row
<1>15. QED
  BY <1>1, <1>2, <1>3, <1>4, <1>5, <1>6, <1>7, <1>8, <1>9, <1>10, <1>11, <1>12,
     <1>13, <1>14, StepCases

\* Every variable keeps its type, for every choice of the constants.
THEOREM TypeCorrect == Spec => []TypeOK
<1>1. Typed => TypeOK
  BY DEF Typed, RowsOK, TypeOK
<1>2. QED
  BY TypedInit, TypedStep, <1>1, PTL DEF Spec

-----------------------------------------------------------------------------
(* The items and the promise.                                              *)

\* What item i looks like once its result is stored.
Stored(i) == item[i] = StatusFor(results[i])

\* An item waits, or has the result the provider has for it.
Faithful == \A i \in Items : item[i] = "queued" \/ (results[i] # "missing" /\ Stored(i))

\* What any step does to the items: nothing, or one result is stored.
StoresResult == \E i \in Items : Promise!Deliver(i)

\* The operators of BatchResults, with the row of BatchFetch for its variables.
LEMMA PromiseDefs ==
    /\ Promise!Items = Items
    /\ \A r : Promise!StatusFor(r) = StatusFor(r)
BY DEF Promise!Items, Items, Promise!StatusFor, StatusFor

\* A step of the tasks is a step of the promise or leaves items and results alone.
LEMMA ItemStep ==
    ASSUME Typed, Faithful, [Next]_vars
    PROVE  StoresResult \/ UNCHANGED <<results, item>>
<1>1. ASSUME NEW w \in Workers, StoreItem(w)
      PROVE  StoresResult \/ UNCHANGED <<results, item>>
  <2> DEFINE i == task[w].at
             new == StatusFor(results[i])
  <2>1. i \in Items
    <3>1. i \in 1..(N + 1) /\ i <= N
      BY <1>1 DEF Typed, Task, StoreItem
    <3>2. QED
      BY <3>1, FetchAssumption DEF Items
  <2>2. results[i] # "missing" /\ UNCHANGED results
    BY <1>1 DEF StoreItem
  <2>3. item' = item \/ item' = [item EXCEPT ![i] = new]
    BY <1>1 DEF StoreItem
  <2>4. item \in [Items -> ItemStatus]
    BY DEF Typed, RowsOK
  <2> HIDE DEF i
  <2>5. CASE item[i] = "queued" /\ item' = [item EXCEPT ![i] = new]
    BY <2>1, <2>2, <2>5, PromiseDefs DEF StoresResult, Promise!Deliver
  <2>6. CASE item[i] = new /\ item' = [item EXCEPT ![i] = new]
    BY <2>1, <2>2, <2>4, <2>6
  <2>7. QED
    BY <2>1, <2>2, <2>3, <2>5, <2>6 DEF Faithful, Stored
<1>2. CASE \E w \in Workers, r \in 0..MaxRetries : LoadJob(w, r)
  BY <1>2 DEF LoadJob, row
<1>3. ASSUME NEW w \in Workers,
             \/ LoadItems(w) \/ Call(w) \/ PassItem(w) \/ CountItem(w) \/ Finish(w)
             \/ Announce(w) \/ CallTransient(w) \/ CallPermanent(w) \/ Crash(w) \/ Abort(w)
      PROVE  UNCHANGED <<results, item>>
  BY <1>3 DEF LoadItems, Call, PassItem, CountItem, Finish, Announce, CallTransient,
              CallPermanent, Crash, Abort, row
<1>4. CASE Send \/ UNCHANGED vars
  BY <1>4 DEF Send, vars, row
<1>5. QED
  BY <1>1, <1>2, <1>3, <1>4, StepCases

\* Stored results stay, and items never hold anything else.
LEMMA FaithfulStep ==
    ASSUME Typed, Faithful, [Next]_vars
    PROVE  /\ Faithful'
           /\ results' = results
           /\ \A i \in Items : item[i] # "queued" => item'[i] = item[i]
<1>1. CASE UNCHANGED <<results, item>>
  BY <1>1 DEF Faithful, Stored
<1>2. ASSUME NEW i \in Items, Promise!Deliver(i)
      PROVE  /\ Faithful'
             /\ results' = results
             /\ \A k \in Items : item[k] # "queued" => item'[k] = item[k]
  <2>1. /\ item[i] = "queued"
        /\ results[i] # "missing"
        /\ item' = [item EXCEPT ![i] = StatusFor(results[i])]
        /\ results' = results
    BY <1>2, PromiseDefs DEF Promise!Deliver
  <2>2. item \in [Items -> ItemStatus]
    BY DEF Typed, RowsOK
  <2>3. QED
    BY <2>1, <2>2 DEF Faithful, Stored
<1>3. QED
  BY <1>1, <1>2, ItemStep DEF StoresResult

\* Before any fetch every item is QUEUED, which agrees with any result.
LEMMA FaithfulInit == Init => Faithful
BY DEF Init, Faithful

\* batch_fetch keeps the promise of BatchResults: items take their provider's
\* result at most once and never change again, for any number of items, tasks,
\* redeliveries, retries and crashes.
THEOREM FetchImplementsPromise == Spec => ImplementsPromise
<1>1. Init => Promise!Init
  BY PromiseDefs DEF Init, Promise!Init, Promise!Result, Result
<1>2. Typed /\ Faithful /\ [Next]_vars => [Promise!Next]_<<results, item>>
  BY ItemStep, PromiseDefs DEF StoresResult, Promise!Next
<1>3. Spec => [](Typed /\ Faithful)
  BY TypedInit, TypedStep, FaithfulInit, FaithfulStep, PTL DEF Spec
<1>4. QED
  BY <1>1, <1>2, <1>3, PTL DEF Spec, ImplementsPromise, Promise!Spec

-----------------------------------------------------------------------------
(* FETCH_COMPLETED.                                                        *)

\* The items a task has gone through are those before Reach(t).
Reach(t) ==
    IF t.pc = "event" THEN N + 1
    ELSE IF t.pc = "count" THEN t.at + 1
    ELSE IF t.pc = "store" THEN t.at
    ELSE 1

\* A task's copy of an item is old or right, it starts with the first item, and
\* what it has gone through is stored.  it and res are the items and the results.
Sound(t, it, res) ==
    /\ \A i \in Items : t.item[i] = "queued" \/ t.item[i] = it[i]
    /\ t.pc \in {"idle", "items", "call"} => t.at = 1
    /\ \A i \in Items : i < Reach(t) /\ res[i] # "missing" => it[i] = StatusFor(res[i])

AllSound == \A w \in Workers : Sound(task[w], item, results)

Announcing == Typed /\ Faithful /\ AllSound /\ AnnouncedIsStored

\* A worker without a task claims nothing.
LEMMA IdleSound == \A it, res : Sound(Idle, it, res)
BY DEF Sound, Idle, Reach, Items

\* What is sound stays sound while other tasks store their results.
LEMMA SoundStable ==
    ASSUME Typed, Faithful, [Next]_vars
    PROVE  /\ \A t : Sound(t, item, results) => Sound(t, item', results')
           /\ AnnouncedIsStored /\ announced' = announced => AnnouncedIsStored'
<1>1. /\ results' = results
      /\ \A i \in Items : item[i] # "queued" => item'[i] = item[i]
  BY FaithfulStep
<1>2. \A i \in Items : item[i] = StatusFor(results[i]) => item'[i] = StatusFor(results'[i])
  BY <1>1 DEF StatusFor
<1>3. ASSUME NEW t, Sound(t, item, results)
      PROVE  Sound(t, item', results')
  BY <1>1, <1>2, <1>3 DEF Sound
<1>4. AnnouncedIsStored /\ announced' = announced => AnnouncedIsStored'
  BY <1>1, <1>2 DEF AnnouncedIsStored, AllStored
<1>5. QED
  BY <1>3, <1>4

\* A step that gives one worker a sound task, and announces nothing, is fine.
LEMMA BecomeSound ==
    ASSUME Announcing, [Next]_vars, NEW w \in Workers, NEW t, Become(w, t),
           Sound(t, item', results'), announced' = announced
    PROVE  AllSound' /\ AnnouncedIsStored'
<1>1. \A v \in Workers : task'[v] = IF v = w THEN t ELSE task[v]
  BY DEF Announcing, Typed, Become
<1>2. \A v \in Workers : Sound(task'[v], item', results')
  BY <1>1, SoundStable DEF Announcing, AllSound
<1>3. QED
  BY <1>2, SoundStable DEF Announcing, AllSound

\* No step announces, or is about to announce, a result that is not stored.
LEMMA AnnouncingStep == Announcing /\ [Next]_vars => Announcing'
<1> SUFFICES ASSUME Announcing, [Next]_vars PROVE AllSound' /\ AnnouncedIsStored'
  BY TypedStep, FaithfulStep DEF Announcing
<1> USE FetchAssumption
<1>0. ASSUME NEW w \in Workers
      PROVE  Sound(task[w], item', results') /\ task[w] \in Task
  BY SoundStable DEF Announcing, AllSound, Typed
<1>a. task \in [Workers -> Task] /\ item \in [Items -> ItemStatus]
  BY DEF Announcing, Typed, RowsOK
<1>1. CASE Send \/ UNCHANGED vars
  <2>1. UNCHANGED task /\ announced' = announced
    BY <1>1 DEF Send, vars, row
  <2>2. QED
    BY <2>1, <1>0, SoundStable DEF Announcing, AllSound
<1>2. ASSUME NEW w \in Workers, NEW r \in 0..MaxRetries, LoadJob(w, r)
      PROVE  AllSound' /\ AnnouncedIsStored'
  <2> DEFINE t == [Idle EXCEPT !.pc = "items", !.retries = r,
                               !.success = success, !.error = error]
  <2>1. Sound(t, item', results')
    BY DEF Sound, Idle, Reach, Items
  <2>2. Become(w, t) /\ announced' = announced
    BY <1>2 DEF LoadJob, row
  <2> HIDE DEF t
  <2>3. QED
    BY <2>1, <2>2, BecomeSound
<1>3. ASSUME NEW w \in Workers, LoadItems(w)
      PROVE  AllSound' /\ AnnouncedIsStored'
  <2> DEFINE t == [task[w] EXCEPT !.pc = "call", !.item = item]
  <2>1. Sound(t, item', results')
    BY <1>0, <1>3 DEF Sound, Reach, Items, Task, LoadItems, At, row
  <2>2. (Become(w, t) \/ Become(w, Idle)) /\ announced' = announced
    BY <1>3 DEF LoadItems, row
  <2> HIDE DEF t
  <2>3. QED
    BY <2>1, <2>2, BecomeSound, IdleSound
<1>4. ASSUME NEW w \in Workers, Call(w)
      PROVE  AllSound' /\ AnnouncedIsStored'
  <2> DEFINE t == [task[w] EXCEPT !.pc = "store"]
  <2>1. Sound(t, item', results')
    BY <1>0, <1>4 DEF Sound, Reach, Items, Task, Call, At
  <2>2. Become(w, t) /\ announced' = announced
    BY <1>4 DEF Call, row
  <2> HIDE DEF t
  <2>3. QED
    BY <2>1, <2>2, BecomeSound
<1>5. ASSUME NEW w \in Workers, StoreItem(w)
      PROVE  AllSound' /\ AnnouncedIsStored'
  <2> DEFINE s == task[w]
             new == StatusFor(results[s.at])
             same == s.item[s.at] = new
             t == [s EXCEPT !.pc = IF same THEN "store" ELSE "count",
                            !.at = IF same THEN @ + 1 ELSE @,
                            !.ok = IF new = "completed" THEN @ + 1 ELSE @,
                            !.bad = IF new = "failed" THEN @ + 1 ELSE @]
  <2>1. s \in Task /\ s.pc = "store" /\ s.at \in 1..(N + 1) /\ s.at <= N
    BY <1>0, <1>5 DEF StoreItem, At, Task
  <2>2. s.at \in Items
    BY <2>1 DEF Items
  <2>3. t.item = s.item /\ Reach(t) = s.at + 1 /\ t.pc \in {"store", "count"}
    <3> HIDE DEF s, new, same
    <3> QED  BY <2>1 DEF Task, Reach
  <2>4. results' = results
    BY <1>5 DEF StoreItem
  <2>5. item'[s.at] = new
    <3>1. CASE same
      <4>1. item' = item
        BY <1>5, <3>1 DEF StoreItem
      <4>2. s.item[s.at] = "queued" \/ s.item[s.at] = item[s.at]
        BY <2>2 DEF Announcing, AllSound, Sound
      <4>3. QED
        BY <3>1, <4>1, <4>2 DEF StatusFor
    <3>2. CASE ~same
      <4>1. item' = [item EXCEPT ![s.at] = new]
        BY <1>5, <3>2 DEF StoreItem
      <4>2. QED
        BY <1>a, <2>2, <4>1
    <3>3. QED
      BY <3>1, <3>2
  <2>6. Sound(s, item', results')
    BY <1>0
  <2>7. Sound(t, item', results')
    <3>1. \A i \in Items : i < s.at + 1 => i < s.at \/ i = s.at
      BY <2>2 DEF Items
    <3>2. \A i \in Items : i < s.at /\ results'[i] # "missing" => item'[i] = StatusFor(results'[i])
      BY <2>1, <2>6 DEF Sound, Reach
    <3>3. item'[s.at] = StatusFor(results'[s.at])
      BY <2>4, <2>5
    <3> HIDE DEF s, t
    <3>4. QED
      BY <2>3, <2>6, <3>1, <3>2, <3>3 DEF Sound
  <2>8. Become(w, t) /\ announced' = announced
    BY <1>5 DEF StoreItem
  <2> HIDE DEF t
  <2>9. QED
    BY <2>7, <2>8, BecomeSound
<1>6. ASSUME NEW w \in Workers, PassItem(w)
      PROVE  AllSound' /\ AnnouncedIsStored'
  <2> DEFINE s == task[w]
             t == [s EXCEPT !.at = @ + 1]
  <2>1. s \in Task /\ s.pc = "store" /\ s.at \in Items /\ results'[s.at] = "missing"
    BY <1>0, <1>6 DEF PassItem, At, Task, Items
  <2>2. t.item = s.item /\ Reach(t) = s.at + 1 /\ t.pc = "store" /\ Reach(s) = s.at
    BY <2>1 DEF Task, Reach
  <2>3. Sound(s, item', results')
    BY <1>0
  <2>4. \A i \in Items : i < s.at + 1 => i < s.at \/ i = s.at
    BY <2>1 DEF Items
  <2>5. Become(w, t) /\ announced' = announced
    BY <1>6 DEF PassItem, row
  <2> HIDE DEF s, t
  <2>6. Sound(t, item', results')
    BY <2>1, <2>2, <2>3, <2>4 DEF Sound
  <2>7. QED
    BY <2>5, <2>6, BecomeSound
<1>7. ASSUME NEW w \in Workers, CountItem(w)
      PROVE  AllSound' /\ AnnouncedIsStored'
  <2> DEFINE s == task[w]
             new == StatusFor(results[s.at])
             ds == Delta(s.item[s.at], new, "completed")
             de == Delta(s.item[s.at], new, "failed")
             t == [s EXCEPT !.pc = "store", !.at = @ + 1,
                            !.success = @ + ds, !.error = @ + de]
  <2>1. s \in Task /\ s.pc = "count"
    BY <1>0, <1>7 DEF CountItem, At
  <2>2. t.item = s.item /\ Reach(t) = s.at + 1 /\ t.pc = "store" /\ Reach(s) = s.at + 1
    BY <2>1 DEF Task, Reach
  <2>3. Sound(s, item', results')
    BY <1>0
  <2>4. Become(w, t) /\ announced' = announced
    BY <1>7 DEF CountItem
  <2> HIDE DEF s, t
  <2>5. Sound(t, item', results')
    BY <2>2, <2>3 DEF Sound
  <2>6. QED
    BY <2>4, <2>5, BecomeSound
<1>8. ASSUME NEW w \in Workers, Finish(w)
      PROVE  AllSound' /\ AnnouncedIsStored'
  <2> DEFINE s == task[w]
             t == [s EXCEPT !.pc = "event"]
  <2>1. s \in Task /\ s.pc = "store" /\ s.at = N + 1
    BY <1>0, <1>8 DEF Finish, At
  <2>2. t.item = s.item /\ Reach(t) = Reach(s) /\ t.pc = "event"
    BY <2>1 DEF Task, Reach
  <2>3. Sound(s, item', results')
    BY <1>0
  <2>4. Become(w, t) /\ announced' = announced
    BY <1>8 DEF Finish
  <2> HIDE DEF s, t
  <2>5. Sound(t, item', results')
    BY <2>2, <2>3 DEF Sound
  <2>6. QED
    BY <2>4, <2>5, BecomeSound
<1>9. ASSUME NEW w \in Workers, Announce(w)
      PROVE  AllSound' /\ AnnouncedIsStored'
  <2>1. \A i \in Items : results'[i] # "missing" => item'[i] = StatusFor(results'[i])
    BY <1>0, <1>9 DEF Announce, At, Sound, Reach, Items
  <2>2. AnnouncedIsStored'
    BY <2>1 DEF AnnouncedIsStored, AllStored
  <2>3. \A v \in Workers : task'[v] = IF v = w THEN Idle ELSE task[v]
    BY <1>9, <1>a DEF Announce, Become
  <2>4. QED
    BY <1>0, <2>2, <2>3, IdleSound DEF AllSound
<1>10. ASSUME NEW w \in Workers,
              CallTransient(w) \/ CallPermanent(w) \/ Crash(w) \/ Abort(w)
       PROVE  AllSound' /\ AnnouncedIsStored'
  <2>1. Become(w, Idle) /\ announced' = announced
    BY <1>10 DEF CallTransient, CallPermanent, Crash, Abort, row
  <2>2. QED
    BY <2>1, BecomeSound, IdleSound
<1>11. QED
  BY <1>1, <1>2, <1>3, <1>4, <1>5, <1>6, <1>7, <1>8, <1>9, <1>10, StepCases

\* FETCH_COMPLETED is never announced before every result the provider has is
\* stored, whatever tasks, crashes and redeliveries came before.
THEOREM AnnouncementIsTrue == Spec => []AnnouncedIsStored
<1>1. Init => Announcing
  <2>1. Init => AllSound /\ AnnouncedIsStored
    BY IdleSound DEF Init, AllSound, AnnouncedIsStored, AllStored
  <2>2. QED
    BY <2>1, TypedInit, FaithfulInit DEF Announcing
<1>2. Announcing => AnnouncedIsStored
  BY DEF Announcing
<1>3. QED
  BY <1>1, <1>2, AnnouncingStep, PTL DEF Spec

-----------------------------------------------------------------------------
(* The counts.                                                             *)

\* The count of the job that goes with item status s, a session's copy of it, and the
\* tally a session has made itself.
Tally(s) == IF s = "completed" THEN success ELSE error
Copy(t, s) == IF s = "completed" THEN t.success ELSE t.error
Seen(t, s) == IF s = "completed" THEN t.ok ELSE t.bad

\* The items that have status s, and those whose result calls for it.
Those(it, s) == {i \in Items : it[i] = s}
Gives(res, i, s) == res[i] # "missing" /\ StatusFor(res[i]) = s

\* The items a session's copy of the count may stand for: the ones that had status s when
\* it loaded them and the ones it has gone through since.
Credit(t, s, res) == {i \in Items : t.item[i] = s \/ (i < t.at /\ Gives(res, i, s))}

\* The items a session has tallied.
Passed(t, s, res) == {i \in Items : i < Reach(t) /\ Gives(res, i, s)}

\* A session's copy never stands for more than its items, its tally is exact, and it only
\* counts an item whose status it has changed.
Booked(t, s, it, res) ==
    /\ t.pc = "items" => Copy(t, s) <= Cardinality(Those(it, s))
    /\ t.pc \in {"call", "store", "count", "event"} => Copy(t, s) <= Cardinality(Credit(t, s, res))
    /\ Seen(t, s) = Cardinality(Passed(t, s, res))
    /\ t.pc = "count" => res[t.at] # "missing" /\ t.item[t.at] # StatusFor(res[t.at])

\* Worker w will write the count for s again: its session wrote it last, or is about to.
Owes(w, s) ==
    LET t == task[w] IN
    /\ t.pc \in {"store", "count"}
    /\ Copy(t, s) = Tally(s) \/ (t.pc = "count" /\ StatusFor(results[t.at]) = s)

NotCut == faults["crash"] = 0 /\ faults["abort"] = 0

\* Unless a task was cut short, the count is right or somebody owes it.
Due(s) == NotCut => Tally(s) = Cardinality(Those(item, s)) \/ \E w \in Workers : Owes(w, s)

AllBooked(s) == \A w \in Workers : Booked(task[w], s, item, results)

Counting ==
    /\ Announcing
    /\ \A s \in Terminal : AllBooked(s) /\ Tally(s) <= Cardinality(Those(item, s)) /\ Due(s)

\* Sets of items are finite.
LEMMA Cards ==
    /\ \A A \in SUBSET Items : Cardinality(A) \in Nat
    /\ \A A, B \in SUBSET Items : A \subseteq B => Cardinality(A) <= Cardinality(B)
    /\ \A A \in SUBSET Items, i \in Items : i \notin A => Cardinality(A \union {i}) = Cardinality(A) + 1
<1>1. IsFiniteSet(Items)
  BY FS_Interval, FetchAssumption DEF Items
<1>2. \A A \in SUBSET Items : IsFiniteSet(A)
  BY <1>1, FS_Subset
<1>3. QED
  BY <1>2, FS_CardinalityType, FS_Subset, FS_AddElement

\* What the rest needs to know about the types.
LEMMA Numbers ==
    ASSUME Typed, NEW s \in Terminal, NEW w \in Workers
    PROVE  /\ task[w] \in Task /\ Tally(s) \in Int
           /\ Copy(task[w], s) \in Int /\ Seen(task[w], s) \in Nat
           /\ task[w].at \in 1..(N + 1)
           /\ task[w].pc = "count" => task[w].at \in Items
<1>1. task[w] \in Task /\ success \in Int /\ error \in Int
  BY DEF Typed, RowsOK, TaskOK
<1>2. /\ task[w].success \in Int /\ task[w].error \in Int
      /\ task[w].ok \in 0..N /\ task[w].bad \in 0..N /\ task[w].at \in 1..(N + 1)
  BY <1>1 DEF Task
<1>3. task[w].pc = "count" => task[w].at \in Items
  BY DEF Typed, TaskOK
<1>4. QED
  BY <1>1, <1>2, <1>3, FetchAssumption DEF Tally, Copy, Seen

\* Items only gain statuses, so the books of the others stay right.
LEMMA BookedStable ==
    ASSUME Announcing, [Next]_vars, NEW s \in Terminal
    PROVE  /\ results' = results /\ Those(item, s) \subseteq Those(item', s)
           /\ Cardinality(Those(item, s)) <= Cardinality(Those(item', s))
           /\ \A t : Copy(t, s) \in Int /\ Booked(t, s, item, results) => Booked(t, s, item', results')
<1>1. results' = results /\ \A i \in Items : item[i] # "queued" => item'[i] = item[i]
  BY FaithfulStep DEF Announcing
<1>2. Those(item, s) \subseteq Those(item', s) /\ Those(item', s) \subseteq Items
  BY <1>1 DEF Those, Terminal
<1>3. /\ Cardinality(Those(item, s)) <= Cardinality(Those(item', s))
      /\ Cardinality(Those(item, s)) \in Nat /\ Cardinality(Those(item', s)) \in Nat
  BY <1>2, Cards
<1>4. QED
  BY <1>1, <1>2, <1>3 DEF Booked

\* A worker that takes up a task with its books in order.
LEMMA BecomeBooked ==
    ASSUME Counting, [Next]_vars, NEW s \in Terminal, NEW w \in Workers, NEW t,
           Become(w, t), Booked(t, s, item', results')
    PROVE  AllBooked(s)'
<1>1. \A v \in Workers : task'[v] = IF v = w THEN t ELSE task[v]
  BY DEF Counting, Announcing, Typed, Become
<1>2. \A v \in Workers : Booked(task[v], s, item', results')
  BY BookedStable, Numbers DEF Counting, AllBooked, Announcing
<1>3. QED
  BY <1>1, <1>2 DEF AllBooked

\* A step that leaves the items and the counts alone, and whoever owes a count owing it.
LEMMA DueStays ==
    ASSUME Counting, NEW s \in Terminal, UNCHANGED <<item, success, error>>,
           NotCut' => NotCut,
           \A w \in Workers : Owes(w, s) => Owes(w, s)'
    PROVE  Tally(s)' <= Cardinality(Those(item', s)) /\ Due(s)'
<1>1. Tally(s)' = Tally(s) /\ Those(item', s) = Those(item, s)
  BY DEF Tally
<1>2. QED
  BY <1>1 DEF Counting, Due

\* The same, for a step of one worker that owed nothing.
LEMMA DueElsewhere ==
    ASSUME Counting, results' = results, NEW s \in Terminal, NEW w \in Workers, NEW t, Become(w, t),
           UNCHANGED <<item, success, error>>, NotCut' => NotCut,
           task[w].pc \notin {"store", "count"}
    PROVE  Tally(s)' <= Cardinality(Those(item', s)) /\ Due(s)'
<1>1. \A v \in Workers : v # w => task'[v] = task[v]
  BY DEF Counting, Announcing, Typed, Become
<1>2. \A v \in Workers : Owes(v, s) => Owes(v, s)'
  BY <1>1 DEF Owes, Tally
<1>3. QED
  BY <1>2, DueStays

\* A worker without a task has nothing on its books.
LEMMA IdleBooked == \A s \in Terminal : \A it, res : Booked(Idle, s, it, res)
<1> SUFFICES ASSUME NEW s \in Terminal, NEW it, NEW res PROVE Booked(Idle, s, it, res)
  OBVIOUS
<1>1. Idle.pc = "idle" /\ Seen(Idle, s) = 0 /\ Reach(Idle) = 1
  BY DEF Idle, Seen, Reach
<1>2. Passed(Idle, s, res) = {}
  BY <1>1 DEF Passed, Items
<1>3. QED
  BY <1>1, <1>2, FS_EmptySet DEF Booked

\* Only a crash or an abort is a cut.
LEMMA FaultCuts ==
    ASSUME Typed
    PROVE  /\ Fault("transient") \/ Fault("permanent") \/ UNCHANGED faults => (NotCut' => NotCut)
           /\ Fault("crash") \/ Fault("abort") => ~NotCut'
<1>1. faults \in [FaultKinds -> 0..MaxFaults]
  BY DEF Typed, RowsOK
<1>2. QED
  BY <1>1, FetchAssumption DEF Fault, NotCut, FaultKinds

\* The session that loads the job and its items, and the call to the provider.
LEMMA CountingLoads ==
    ASSUME Counting, [Next]_vars, NEW s \in Terminal, NEW w \in Workers,
           (\E r \in 0..MaxRetries : LoadJob(w, r)) \/ LoadItems(w) \/ Call(w)
    PROVE  AllBooked(s)' /\ Tally(s)' <= Cardinality(Those(item', s)) /\ Due(s)'
<1>0. /\ results' = results /\ UNCHANGED <<item, success, error, faults>>
      /\ task[w].pc \notin {"store", "count"} /\ task[w] \in Task
      /\ Sound(task[w], item, results) /\ Booked(task[w], s, item, results)
      /\ Tally(s) <= Cardinality(Those(item, s))
  <2>1. results' = results /\ UNCHANGED <<item, success, error, faults>>
    BY DEF LoadJob, LoadItems, Call, row
  <2>2. task[w].pc \notin {"store", "count"}
    BY DEF LoadJob, LoadItems, Call, At
  <2>3. QED
    BY <2>1, <2>2, Numbers DEF Counting, Announcing, AllSound, AllBooked
<1>1. NotCut' => NotCut
  BY <1>0 DEF NotCut
<1>2. ASSUME NEW r \in 0..MaxRetries, LoadJob(w, r)
      PROVE  AllBooked(s)' /\ Tally(s)' <= Cardinality(Those(item', s)) /\ Due(s)'
  <2> DEFINE t == [Idle EXCEPT !.pc = "items", !.retries = r,
                               !.success = success, !.error = error]
  <2>1. Become(w, t)
    BY <1>2 DEF LoadJob
  <2>2. t.pc = "items" /\ Copy(t, s) = Tally(s) /\ Seen(t, s) = 0 /\ Reach(t) = 1
    BY DEF Idle, Copy, Tally, Seen, Reach
  <2> HIDE DEF t
  <2>3. Passed(t, s, results') = {}
    BY <2>2 DEF Passed, Items
  <2>4. Booked(t, s, item', results')
    BY <1>0, <2>2, <2>3, FS_EmptySet DEF Booked
  <2>5. QED
    BY <1>0, <1>1, <2>1, <2>4, BecomeBooked, DueElsewhere
<1>3. CASE LoadItems(w)
  <2> DEFINE t == [task[w] EXCEPT !.pc = "call", !.item = item]
  <2>1. (Become(w, t) \/ Become(w, Idle)) /\ task[w].pc = "items"
    BY <1>3 DEF LoadItems, At
  <2>2. /\ t.pc = "call" /\ Copy(t, s) = Copy(task[w], s) /\ Seen(t, s) = Seen(task[w], s)
        /\ t.at = task[w].at /\ t.item = item
    BY <1>0 DEF Task, Copy, Seen
  <2>3. Reach(t) = 1 /\ Reach(task[w]) = 1 /\ t.at = 1
    BY <1>0, <2>1, <2>2 DEF Reach, Sound
  <2> HIDE DEF t
  <2>4. Credit(t, s, results) = Those(item, s) /\ Passed(t, s, results) = Passed(task[w], s, results)
    BY <2>2, <2>3 DEF Credit, Those, Passed, Items
  <2>5. Booked(t, s, item', results')
    BY <1>0, <2>1, <2>2, <2>4 DEF Booked
  <2>6. QED
    BY <1>0, <1>1, <2>1, <2>5, IdleBooked, BecomeBooked, DueElsewhere
<1>4. CASE Call(w)
  <2> DEFINE t == [task[w] EXCEPT !.pc = "store"]
  <2>1. Become(w, t) /\ task[w].pc = "call"
    BY <1>4 DEF Call, At
  <2>2. /\ t.pc = "store" /\ Copy(t, s) = Copy(task[w], s) /\ Seen(t, s) = Seen(task[w], s)
        /\ t.at = task[w].at /\ t.item = task[w].item
    BY <1>0 DEF Task, Copy, Seen
  <2>3. Reach(t) = 1 /\ Reach(task[w]) = 1
    BY <1>0, <2>1, <2>2 DEF Reach, Sound
  <2> HIDE DEF t
  <2>4. /\ Credit(t, s, results) = Credit(task[w], s, results)
        /\ Passed(t, s, results) = Passed(task[w], s, results)
    BY <2>2, <2>3 DEF Credit, Passed
  <2>5. Booked(t, s, item', results')
    BY <1>0, <2>1, <2>2, <2>4 DEF Booked
  <2>6. QED
    BY <1>0, <1>1, <2>1, <2>5, BecomeBooked, DueElsewhere
<1>5. QED
  BY <1>2, <1>3, <1>4

\* Errors and faults: the task is dropped.
LEMMA CountingDrops ==
    ASSUME Counting, [Next]_vars, NEW s \in Terminal, NEW w \in Workers,
           CallTransient(w) \/ CallPermanent(w) \/ Crash(w) \/ Abort(w) \/ Announce(w)
    PROVE  AllBooked(s)' /\ Tally(s)' <= Cardinality(Those(item', s)) /\ Due(s)'
<1>1. Become(w, Idle)
  BY DEF CallTransient, CallPermanent, Crash, Abort, Announce
<1>2. results' = results /\ UNCHANGED <<item, success, error>>
  BY DEF CallTransient, CallPermanent, Crash, Abort, Announce, row
<1>3. AllBooked(s)'
  BY <1>1, IdleBooked, BecomeBooked
<1>4. Typed
  BY DEF Counting, Announcing
<1>5. CASE Crash(w) \/ Abort(w)
  <2>1. ~NotCut'
    BY <1>4, <1>5, FaultCuts DEF Crash, Abort
  <2>2. Tally(s)' = Tally(s) /\ Those(item', s) = Those(item, s)
    BY <1>2 DEF Tally
  <2>3. QED
    BY <1>3, <2>1, <2>2 DEF Due, Counting
<1>6. CASE CallTransient(w) \/ CallPermanent(w) \/ Announce(w)
  <2>1. task[w].pc \notin {"store", "count"}
    BY <1>6 DEF CallTransient, CallPermanent, Announce, At
  <2>2. NotCut' => NotCut
    BY <1>4, <1>6, FaultCuts DEF CallTransient, CallPermanent, Announce
  <2>3. QED
    BY <1>1, <1>2, <1>3, <2>1, <2>2, DueElsewhere
<1>7. QED
  BY <1>5, <1>6

\* A row without a result is passed over.
LEMMA CountingPasses ==
    ASSUME Counting, [Next]_vars, NEW s \in Terminal, NEW w \in Workers, PassItem(w)
    PROVE  AllBooked(s)' /\ Tally(s)' <= Cardinality(Those(item', s)) /\ Due(s)'
<1> DEFINE o == task[w]
           t == [o EXCEPT !.at = @ + 1]
<1>1. /\ Become(w, t) /\ o.pc = "store" /\ results[o.at] = "missing" /\ o.at <= N
      /\ results' = results /\ UNCHANGED <<item, success, error, faults>>
  BY DEF PassItem, At, row
<1>2. o \in Task /\ o.at \in 1..(N + 1) /\ Booked(o, s, item, results)
  BY Numbers DEF Counting, Announcing, AllBooked
<1> HIDE DEF o
<1>3. /\ t.pc = "store" /\ Copy(t, s) = Copy(o, s) /\ Seen(t, s) = Seen(o, s)
      /\ t.at = o.at + 1 /\ t.item = o.item
  BY <1>1, <1>2 DEF Task, Copy, Seen
<1> HIDE DEF t
<1>4. Reach(t) = o.at + 1 /\ Reach(o) = o.at
  BY <1>1, <1>3 DEF Reach
<1>5. \A i \in Items : i < o.at + 1 <=> i < o.at \/ i = o.at
  BY <1>2 DEF Items
<1>6. Credit(t, s, results) = Credit(o, s, results) /\ Passed(t, s, results) = Passed(o, s, results)
  BY <1>1, <1>3, <1>4, <1>5 DEF Credit, Passed, Gives
<1>7. Booked(t, s, item', results')
  BY <1>1, <1>2, <1>3, <1>6 DEF Booked
<1>8. AllBooked(s)'
  BY <1>1, <1>7, BecomeBooked
<1>9. \A v \in Workers : task'[v] = IF v = w THEN t ELSE task[v]
  BY <1>1 DEF Counting, Announcing, Typed, Become
<1>10. \A v \in Workers : Owes(v, s) => Owes(v, s)'
  BY <1>1, <1>3, <1>9 DEF Owes, Tally, o
<1>11. NotCut' => NotCut
  BY <1>1 DEF NotCut
<1>12. QED
  BY <1>1, <1>8, <1>10, <1>11, DueStays

\* The commit of an item.
LEMMA CountingStores ==
    ASSUME Counting, [Next]_vars, NEW s \in Terminal, NEW w \in Workers, StoreItem(w)
    PROVE  AllBooked(s)' /\ Tally(s)' <= Cardinality(Those(item', s)) /\ Due(s)'
<1> DEFINE o == task[w]
           new == StatusFor(results[o.at])
           same == o.item[o.at] = new
           t == [o EXCEPT !.pc = IF same THEN "store" ELSE "count",
                          !.at = IF same THEN @ + 1 ELSE @,
                          !.ok = IF new = "completed" THEN @ + 1 ELSE @,
                          !.bad = IF new = "failed" THEN @ + 1 ELSE @]
<1>1. Become(w, t)
  BY DEF StoreItem
<1>2. /\ o.pc = "store" /\ results[o.at] # "missing" /\ o.at <= N
      /\ results' = results /\ UNCHANGED <<success, error, faults>>
      /\ item' = IF same THEN item ELSE [item EXCEPT ![o.at] = new]
  BY DEF StoreItem, At
<1>3. o \in Task /\ o.at \in 1..(N + 1) /\ Booked(o, s, item, results) /\ Seen(o, s) \in Nat
  BY Numbers DEF Counting, Announcing, AllBooked
<1>4. new \in Terminal
  BY DEF StatusFor, Terminal
<1>5. o.at \in Items /\ item \in [Items -> ItemStatus]
  BY <1>2, <1>3 DEF Items, Counting, Announcing, Typed, RowsOK
<1> HIDE DEF o
<1>6. /\ t.pc = IF same THEN "store" ELSE "count"
      /\ t.at = IF same THEN o.at + 1 ELSE o.at
      /\ Copy(t, s) = Copy(o, s) /\ t.item = o.item
  <2> HIDE DEF same, new
  <2> QED  BY <1>3 DEF Task, Copy
<1>7. Seen(t, s) = IF new = s THEN Seen(o, s) + 1 ELSE Seen(o, s)
  <2> HIDE DEF same, new
  <2> QED  BY <1>3, <1>4 DEF Task, Seen, Terminal
<1> HIDE DEF t
<1>8. Reach(t) = o.at + 1 /\ Reach(o) = o.at
  BY <1>2, <1>6 DEF Reach
<1>9. \A i \in Items : i < o.at + 1 <=> i < o.at \/ i = o.at
  BY <1>3 DEF Items
<1>10. Credit(t, s, results) = Credit(o, s, results)
  <2>1. CASE same
    BY <1>2, <1>6, <1>9, <2>1 DEF Credit, Gives
  <2>2. CASE ~same
    BY <1>6, <2>2 DEF Credit
  <2>3. QED
    BY <2>1, <2>2
<1>11. Passed(t, s, results) = IF new = s THEN Passed(o, s, results) \union {o.at} ELSE Passed(o, s, results)
  BY <1>2, <1>5, <1>8, <1>9 DEF Passed, Gives
<1>12. o.at \notin Passed(o, s, results) /\ Passed(o, s, results) \in SUBSET Items
  BY <1>3, <1>8 DEF Passed
<1>13. Seen(t, s) = Cardinality(Passed(t, s, results))
  <2>1. Seen(o, s) = Cardinality(Passed(o, s, results))
    BY <1>3 DEF Booked
  <2>2. Cardinality(Passed(o, s, results) \union {o.at}) = Cardinality(Passed(o, s, results)) + 1
    BY <1>5, <1>12, Cards
  <2>3. CASE new = s
    BY <1>7, <1>11, <2>1, <2>2, <2>3
  <2>4. CASE new # s
    BY <1>7, <1>11, <2>1, <2>4
  <2>5. QED
    BY <2>3, <2>4
<1>14. Booked(t, s, item', results')
  BY <1>2, <1>3, <1>6, <1>10, <1>13 DEF Booked
<1>15. AllBooked(s)'
  BY <1>1, <1>14, BecomeBooked
<1>16. Tally(s)' = Tally(s) /\ (NotCut' => NotCut)
  BY <1>2 DEF Tally, NotCut
<1>17. Tally(s)' <= Cardinality(Those(item', s))
  <2>1. /\ Those(item, s) \in SUBSET Items /\ Those(item', s) \in SUBSET Items
        /\ Tally(s) \in Int /\ Tally(s) <= Cardinality(Those(item, s))
    BY Numbers DEF Those, Counting, Announcing
  <2>2. Cardinality(Those(item, s)) <= Cardinality(Those(item', s))
    BY BookedStable DEF Counting
  <2>3. Cardinality(Those(item, s)) \in Nat /\ Cardinality(Those(item', s)) \in Nat
    BY <2>1, Cards
  <2>4. QED
    BY <1>16, <2>1, <2>2, <2>3
<1>18. \A v \in Workers : task'[v] = IF v = w THEN t ELSE task[v]
  BY <1>1 DEF Counting, Announcing, Typed, Become
<1>19. CASE new = s /\ ~same
  <2>1. Owes(w, s)'
    BY <1>2, <1>6, <1>18, <1>19 DEF Owes
  <2>2. QED
    BY <1>15, <1>17, <2>1 DEF Due
<1>20. CASE new # s \/ same
  <2>1. Those(item', s) = Those(item, s)
    <3>1. CASE same
      BY <1>2, <3>1
    <3>2. CASE new # s
      <4>1. \A i \in Items : item'[i] = item[i] \/ (i = o.at /\ item'[i] = new)
        BY <1>2, <1>5
      <4>2. item[o.at] # s
        BY <1>2, <1>5, <3>2 DEF Counting, Announcing, Faithful, Stored, Terminal
      <4>3. QED
        BY <3>2, <4>1, <4>2 DEF Those
    <3>3. QED
      BY <1>20, <3>1, <3>2
  <2>2. \A v \in Workers : Owes(v, s) => Owes(v, s)'
    BY <1>2, <1>6, <1>16, <1>18 DEF Owes, o
  <2>3. QED
    BY <1>15, <1>16, <1>17, <2>1, <2>2 DEF Due, Counting
<1>21. QED
  BY <1>19, <1>20

\* The commit of the counts after an item.
LEMMA CountingCounts ==
    ASSUME Counting, [Next]_vars, NEW s \in Terminal, NEW w \in Workers, CountItem(w)
    PROVE  AllBooked(s)' /\ Tally(s)' <= Cardinality(Those(item', s)) /\ Due(s)'
<1> DEFINE o == task[w]
           new == StatusFor(results[o.at])
           ds == Delta(o.item[o.at], new, "completed")
           de == Delta(o.item[o.at], new, "failed")
           d == Delta(o.item[o.at], new, s)
           t == [o EXCEPT !.pc = "store", !.at = @ + 1, !.success = @ + ds, !.error = @ + de]
<1>1. Become(w, t)
  BY DEF CountItem
<1>2. /\ o.pc = "count" /\ results' = results /\ UNCHANGED <<item, faults>>
      /\ success' = IF ds = 0 THEN success ELSE o.success + ds
      /\ error' = IF de = 0 THEN error ELSE o.error + de
  BY DEF CountItem, At
<1>3. /\ o \in Task /\ o.at \in Items /\ Copy(o, s) \in Int
      /\ Booked(o, s, item, results) /\ Sound(o, item, results)
  BY <1>2, Numbers DEF Counting, Announcing, AllBooked, AllSound
<1>4. new \in Terminal
  BY DEF StatusFor, Terminal
<1>5. o.item[o.at] = "queued" /\ results[o.at] # "missing" /\ item[o.at] = new
  <2>1. results[o.at] # "missing" /\ o.item[o.at] # new
    BY <1>2, <1>3 DEF Booked
  <2>2. o.at < Reach(o)
    BY <1>2, <1>3 DEF Reach, Items
  <2>3. item[o.at] = new
    BY <1>3, <2>1, <2>2 DEF Sound
  <2>4. QED
    BY <1>3, <2>1, <2>3 DEF Sound
<1>6. d = IF new = s THEN 1 ELSE 0
  BY <1>5 DEF Delta, Terminal
<1>7. Tally(s)' = IF d = 0 THEN Tally(s) ELSE Copy(o, s) + d
  BY <1>2 DEF Tally, Copy, Terminal
<1>8. Copy(t, s) = Copy(o, s) + d /\ t.pc = "store" /\ t.at = o.at + 1 /\ t.item = o.item
      /\ Seen(t, s) = Seen(o, s)
  <2> HIDE DEF o, new
  <2> QED  BY <1>3 DEF Task, Copy, Seen, Terminal
<1> HIDE DEF o, t, d
<1>9. Reach(t) = Reach(o)
  BY <1>2, <1>8 DEF Reach
<1>10. \A i \in Items : i < o.at + 1 <=> i < o.at \/ i = o.at
  BY <1>3 DEF Items
<1>11. /\ Passed(t, s, results) = Passed(o, s, results)
       /\ Credit(t, s, results) = IF new = s THEN Credit(o, s, results) \union {o.at}
                                  ELSE Credit(o, s, results)
  BY <1>3, <1>5, <1>8, <1>9, <1>10 DEF Passed, Credit, Gives
<1>12. /\ Credit(o, s, results) \in SUBSET Items /\ Credit(t, s, results) \in SUBSET Items
       /\ o.at \notin Credit(o, s, results)
  BY <1>3, <1>5 DEF Credit, Terminal, Items
<1>13. Copy(t, s) <= Cardinality(Credit(t, s, results))
  <2>1. Copy(o, s) <= Cardinality(Credit(o, s, results)) /\ Cardinality(Credit(o, s, results)) \in Nat
    BY <1>2, <1>3, <1>12, Cards DEF Booked
  <2>2. Cardinality(Credit(o, s, results) \union {o.at}) = Cardinality(Credit(o, s, results)) + 1
    BY <1>3, <1>12, Cards
  <2>3. CASE new = s
    BY <1>3, <1>6, <1>8, <1>11, <2>1, <2>2, <2>3
  <2>4. CASE new # s
    BY <1>3, <1>6, <1>8, <1>11, <2>1, <2>4
  <2>5. QED
    BY <2>3, <2>4
<1>14. Booked(t, s, item', results')
  BY <1>2, <1>3, <1>8, <1>11, <1>13 DEF Booked
<1>15. AllBooked(s)'
  BY <1>1, <1>14, BecomeBooked
<1>16. Credit(t, s, results) \subseteq Those(item, s)
  <2>1. ASSUME NEW i \in Items, i < o.at + 1, Gives(results, i, s) PROVE item[i] = s
    BY <1>2, <1>3, <2>1 DEF Sound, Reach, Gives
  <2>2. ASSUME NEW i \in Items, o.item[i] = s PROVE item[i] = s
    BY <1>3, <2>2 DEF Sound, Terminal
  <2>3. QED
    BY <1>8, <2>1, <2>2 DEF Credit, Those
<1>17. Tally(s)' <= Cardinality(Those(item', s))
  <2>1. Those(item, s) \in SUBSET Items /\ Cardinality(Those(item, s)) \in Nat
    BY Cards DEF Those
  <2>2. Cardinality(Credit(t, s, results)) <= Cardinality(Those(item, s))
        /\ Cardinality(Credit(t, s, results)) \in Nat
    BY <1>12, <1>16, <2>1, Cards
  <2>3. Copy(t, s) <= Cardinality(Those(item, s))
    BY <1>3, <1>6, <1>8, <1>13, <2>1, <2>2
  <2>4. Tally(s) <= Cardinality(Those(item, s))
    BY DEF Counting
  <2>5. QED
    BY <1>2, <1>7, <1>8, <2>3, <2>4
<1>18. \A v \in Workers : task'[v] = IF v = w THEN t ELSE task[v]
  BY <1>1 DEF Counting, Announcing, Typed, Become
<1>19. CASE new = s
  <2>1. Tally(s)' = Copy(t, s)
    BY <1>6, <1>7, <1>8, <1>19
  <2>2. Owes(w, s)'
    BY <1>8, <1>18, <2>1 DEF Owes
  <2>3. QED
    BY <1>15, <1>17, <2>2 DEF Due
<1>20. CASE new # s
  <2>1. Tally(s)' = Tally(s) /\ Copy(t, s) = Copy(o, s)
    BY <1>3, <1>6, <1>7, <1>8, <1>20
  <2>2. \A v \in Workers : Owes(v, s) => Owes(v, s)'
    BY <1>2, <1>8, <1>18, <1>20, <2>1 DEF Owes, o
  <2>3. NotCut' => NotCut
    BY <1>2 DEF NotCut
  <2>4. QED
    BY <1>2, <1>15, <1>17, <2>1, <2>2, <2>3 DEF Due, Counting
<1>21. QED
  BY <1>19, <1>20

\* The final counts: the session's own tally, which by then is exact.
LEMMA CountingFinishes ==
    ASSUME Counting, [Next]_vars, NEW s \in Terminal, NEW w \in Workers, Finish(w)
    PROVE  AllBooked(s)' /\ Tally(s)' <= Cardinality(Those(item', s)) /\ Due(s)'
<1> DEFINE o == task[w]
           t == [o EXCEPT !.pc = "event"]
<1>1. /\ Become(w, t) /\ o.pc = "store" /\ o.at = N + 1
      /\ results' = results /\ UNCHANGED <<item, faults>>
  BY DEF Finish, At
<1>2. Tally(s)' = IF Copy(o, s) = Seen(o, s) THEN Tally(s) ELSE Seen(o, s)
  BY DEF Finish, Tally, Copy, Seen, Terminal
<1>3. /\ o \in Task /\ Copy(o, s) \in Int /\ Seen(o, s) \in Nat
      /\ Booked(o, s, item, results) /\ Sound(o, item, results)
  BY Numbers DEF Counting, Announcing, AllBooked, AllSound
<1> HIDE DEF o
<1>4. /\ t.pc = "event" /\ Copy(t, s) = Copy(o, s) /\ Seen(t, s) = Seen(o, s)
      /\ t.at = o.at /\ t.item = o.item
  BY <1>3 DEF Task, Copy, Seen
<1> HIDE DEF t
<1>5. Reach(t) = N + 1 /\ Reach(o) = N + 1
  BY <1>1, <1>4 DEF Reach
<1>6. Credit(t, s, results) = Credit(o, s, results) /\ Passed(t, s, results) = Passed(o, s, results)
  BY <1>4, <1>5 DEF Credit, Passed
<1>7. Booked(t, s, item', results')
  BY <1>1, <1>3, <1>4, <1>6 DEF Booked
<1>8. AllBooked(s)'
  BY <1>1, <1>7, BecomeBooked
<1>9. Passed(o, s, results) = Those(item, s)
  <2>1. \A i \in Items : i < N + 1
    BY FetchAssumption DEF Items
  <2>2. \A i \in Items : Gives(results, i, s) => item[i] = s
    BY <1>3, <1>5, <2>1 DEF Sound, Gives
  <2>3. \A i \in Items : item[i] = s => Gives(results, i, s)
    BY DEF Counting, Announcing, Faithful, Stored, Gives, Terminal
  <2>4. QED
    BY <1>5, <2>1, <2>2, <2>3 DEF Passed, Those
<1>10. Seen(o, s) = Cardinality(Those(item, s))
  BY <1>3, <1>9 DEF Booked
<1>11. Tally(s) <= Cardinality(Those(item, s)) /\ Tally(s) \in Int
  BY Numbers DEF Counting, Announcing
<1>12. Tally(s)' <= Cardinality(Those(item', s))
  BY <1>1, <1>2, <1>3, <1>10, <1>11
<1>13. \A v \in Workers : task'[v] = IF v = w THEN t ELSE task[v]
  BY <1>1 DEF Counting, Announcing, Typed, Become
<1>14. CASE Copy(o, s) # Seen(o, s)
  BY <1>1, <1>2, <1>8, <1>10, <1>12, <1>14 DEF Due
<1>15. CASE Copy(o, s) = Seen(o, s)
  <2>1. Tally(s)' = Tally(s)
    BY <1>2, <1>15
  <2>2. \A v \in Workers : v # w /\ Owes(v, s) => Owes(v, s)'
    BY <1>1, <1>13, <2>1 DEF Owes
  <2>3. Owes(w, s) => Tally(s) = Cardinality(Those(item, s))
    BY <1>1, <1>10, <1>15 DEF Owes, o
  <2>4. NotCut' => NotCut
    BY <1>1 DEF NotCut
  <2>5. QED
    BY <1>1, <1>8, <1>12, <2>1, <2>2, <2>3, <2>4 DEF Due, Counting
<1>16. QED
  BY <1>14, <1>15

\* Every step keeps the books.
LEMMA CountingStep == Counting /\ [Next]_vars => Counting'
<1> SUFFICES ASSUME Counting, [Next]_vars PROVE Counting'
  OBVIOUS
<1>1. Announcing'
  BY AnnouncingStep DEF Counting
<1>2. ASSUME NEW s \in Terminal
      PROVE  AllBooked(s)' /\ Tally(s)' <= Cardinality(Those(item', s)) /\ Due(s)'
  <2>1. CASE Send \/ UNCHANGED vars
    <3>1. UNCHANGED <<task, item, success, error, faults>> /\ results' = results
      BY <2>1 DEF Send, vars, row
    <3>2. AllBooked(s)'
      BY <3>1 DEF Counting, AllBooked
    <3>3. (NotCut' => NotCut) /\ \A w \in Workers : Owes(w, s) => Owes(w, s)'
      BY <3>1 DEF NotCut, Owes, Tally
    <3>4. QED
      BY <3>1, <3>2, <3>3, DueStays
  <2>2. QED
    BY <2>1, StepCases, CountingLoads, CountingDrops, CountingPasses, CountingStores,
       CountingCounts, CountingFinishes
<1>3. QED
  BY <1>1, <1>2 DEF Counting

\* success_count and error_count never run ahead of the items, and once no fetch is
\* queued or running they are exact unless a task was cut short: for any number of
\* items, workers, redeliveries and retries, although every session writes the counts
\* back as absolute values computed from the row it loaded first.
THEOREM CountsAreRight == Spec => []CountsFollowItems
<1>1. Init => Counting
  <2> SUFFICES ASSUME Init PROVE Counting
    OBVIOUS
  <2>1. Announcing
    <3>1. AllSound /\ AnnouncedIsStored
      BY IdleSound DEF Init, AllSound, AnnouncedIsStored, AllStored
    <3>2. QED
      BY <3>1, TypedInit, FaithfulInit DEF Announcing
  <2>2. ASSUME NEW s \in Terminal
        PROVE  AllBooked(s) /\ Tally(s) = Cardinality(Those(item, s)) /\ Tally(s) = 0
    <3>1. AllBooked(s)
      BY IdleBooked DEF Init, AllBooked
    <3>2. Those(item, s) = {} /\ Tally(s) = 0
      BY DEF Init, Those, Tally, Terminal
    <3>3. QED
      BY <3>1, <3>2, FS_EmptySet
  <2>3. QED
    BY <2>1, <2>2 DEF Counting, Due
<1>2. Counting => CountsFollowItems
  <2> SUFFICES ASSUME Counting PROVE CountsFollowItems
    OBVIOUS
  <2>1. /\ Those(item, "completed") = With("completed") /\ Those(item, "failed") = With("failed")
        /\ Tally("completed") = success /\ Tally("failed") = error
        /\ "completed" \in Terminal /\ "failed" \in Terminal
    BY DEF Those, With, Tally, Terminal
  <2>2. Quiescent => \A w \in Workers, s \in Terminal : ~Owes(w, s)
    BY DEF Quiescent, At, Owes
  <2>3. QED
    BY <2>1, <2>2 DEF Counting, Due, NotCut, CountsFollowItems
<1>3. QED
  BY <1>1, <1>2, CountingStep, PTL DEF Spec
=============================================================================
