---------------------------- MODULE BatchFetch ----------------------------
(***************************************************************************)
(* batch_fetch, item by item: the tasks that store the results of one      *)
(* completed batch job and keep its success and error counts, each in a    *)
(* session of its own.  BatchService commits an item, then the job's       *)
(* counts, then the next item; a session computes the counts from the row  *)
(* it loaded first and writes them back as absolute values.                *)
(***************************************************************************)
EXTENDS Integers, FiniteSets

CONSTANTS
    N,            \* the number of items of the job (request_count)
    Workers,      \* Celery workers
    MaxSends,     \* bound: fetch tasks enqueued (polls, operators)
    MaxRetries,   \* max_retries of batch.fetch (5)
    Faults,       \* the kinds of faults that may happen
    MaxFaults     \* bound: how many of each kind

FaultKinds == {"transient", "permanent", "crash", "abort"}

ASSUME FetchAssumption ==
    /\ N \in Nat \ {0}
    /\ MaxSends \in Nat
    /\ MaxRetries \in Nat
    /\ Faults \subseteq FaultKinds
    /\ MaxFaults \in Nat

VARIABLES
    results,      \* what the provider has for each item (external)
    item,         \* batch_items.status, by sequence_index
    success,      \* batch_jobs.success_count
    error,        \* batch_jobs.error_count
    announced,    \* the job has a FETCH_COMPLETED event
    waiting,      \* fetch messages in the queue, by number of retries
    sent,         \* fetch messages enqueued so far
    task,         \* what each worker is doing
    faults        \* how many faults of each kind have happened

row == <<item, success, error, announced>>
vars == <<results, row, waiting, sent, task, faults>>

Items == 1..N
Result == {"success", "error", "missing"}
ItemStatus == {"queued", "completed", "failed"}
Terminal == {"completed", "failed"}

\* Mutant of StatusFor: every row counts as a success.
StatusForAny(r) == "completed"

\* The status batch_fetch gives an item for a result row.
StatusFor(r) == IF r = "success" THEN "completed" ELSE "failed"

\* A fetch task: its place, its retries, the session's copy of the counts and of
\* the items, the next item and the successes and errors seen so far.
Task == [pc : {"idle", "items", "call", "store", "count", "event"},
         retries : 0..MaxRetries, success : Int, error : Int,
         item : [Items -> ItemStatus], at : 1..(N + 1), ok : 0..N, bad : 0..N]

Idle == [pc |-> "idle", retries |-> 0, success |-> 0, error |-> 0,
         item |-> [i \in Items |-> "queued"], at |-> 1, ok |-> 0, bad |-> 0]

At(w, pc) == task[w].pc = pc
Become(w, t) == task' = [task EXCEPT ![w] = t]

Enqueue(r) == waiting' = [waiting EXCEPT ![r] = @ + 1]
Fault(kind) ==
    /\ kind \in Faults
    /\ faults[kind] < MaxFaults
    /\ faults' = [faults EXCEPT ![kind] = @ + 1]

Init ==
    /\ results \in [Items -> Result]
    /\ item = [i \in Items |-> "queued"]
    /\ success = 0
    /\ error = 0
    /\ announced = FALSE
    /\ waiting = [r \in 0..MaxRetries |-> 0]
    /\ sent = 0
    /\ task = [w \in Workers |-> Idle]
    /\ faults = [k \in FaultKinds |-> 0]

-----------------------------------------------------------------------------
\* batch_fetch.delay: by a poll, by a second poll, or by hand.
Send ==
    /\ sent < MaxSends
    /\ sent' = sent + 1
    /\ Enqueue(0)
    /\ UNCHANGED <<results, row, task, faults>>

\* get_batch_job: the session's copy of the counts.
LoadJob(w, r) ==
    /\ At(w, "idle")
    /\ waiting[r] > 0
    /\ waiting' = [waiting EXCEPT ![r] = @ - 1]
    /\ Become(w, [Idle EXCEPT !.pc = "items", !.retries = r,
                              !.success = success, !.error = error])
    /\ UNCHANGED <<results, row, sent, faults>>

\* get_batch_items: done if every item has its result.
LoadItems(w) ==
    /\ At(w, "items")
    /\ Become(w, IF \A i \in Items : item[i] \in Terminal
                   THEN Idle
                   ELSE [task[w] EXCEPT !.pc = "call", !.item = item])
    /\ UNCHANGED <<results, row, waiting, sent, faults>>

\* provider.fetch_results answers.
Call(w) ==
    /\ At(w, "call")
    /\ Become(w, [task[w] EXCEPT !.pc = "store"])
    /\ UNCHANGED <<results, row, waiting, sent, faults>>

\* ProviderTransientError: retried until max_retries.
CallTransient(w) ==
    /\ At(w, "call")
    /\ Fault("transient")
    /\ IF task[w].retries < MaxRetries
         THEN Enqueue(task[w].retries + 1)
         ELSE UNCHANGED waiting
    /\ Become(w, Idle)
    /\ UNCHANGED <<results, row, sent>>

\* ProviderPermanentError: the task returns.
CallPermanent(w) ==
    /\ At(w, "call")
    /\ Fault("permanent")
    /\ Become(w, Idle)
    /\ UNCHANGED <<results, row, waiting, sent>>

\* update_batch_item for the item in hand, up to its commit: an UPDATE only if the
\* status differs from the session's copy; the counts follow if it does.
StoreItem(w) ==
    LET t == task[w]
        new == StatusFor(results[t.at])
    IN
    /\ At(w, "store")
    /\ t.at <= N
    /\ results[t.at] # "missing"
    /\ item' = IF t.item[t.at] = new THEN item ELSE [item EXCEPT ![t.at] = new]
    /\ Become(w, [t EXCEPT !.pc = IF t.item[t.at] = new THEN "store" ELSE "count",
                           !.at = IF t.item[t.at] = new THEN @ + 1 ELSE @,
                           !.ok = IF new = "completed" THEN @ + 1 ELSE @,
                           !.bad = IF new = "failed" THEN @ + 1 ELSE @])
    /\ UNCHANGED <<results, success, error, announced, waiting, sent, faults>>

\* An item the results leave out is left as it is.
PassItem(w) ==
    /\ At(w, "store")
    /\ task[w].at <= N
    /\ results[task[w].at] = "missing"
    /\ Become(w, [task[w] EXCEPT !.at = @ + 1])
    /\ UNCHANGED <<results, row, waiting, sent, faults>>

Delta(old, new, s) == (IF new = s THEN 1 ELSE 0) - (IF old = s THEN 1 ELSE 0)

\* _update_job_counts_from_item_status_change: the session's counts, changed by the
\* item, are written as they are; a count that does not change is not written.
CountItem(w) ==
    LET t == task[w]
        new == StatusFor(results[t.at])
        ds == Delta(t.item[t.at], new, "completed")
        de == Delta(t.item[t.at], new, "failed")
    IN
    /\ At(w, "count")
    /\ success' = IF ds = 0 THEN success ELSE t.success + ds
    /\ error' = IF de = 0 THEN error ELSE t.error + de
    /\ Become(w, [t EXCEPT !.pc = "store", !.at = @ + 1,
                           !.success = @ + ds, !.error = @ + de])
    /\ UNCHANGED <<results, item, announced, waiting, sent, faults>>

\* Mutant of Finish: leaves the last item out.
FinishEarly(w) ==
    LET t == task[w] IN
    /\ At(w, "store")
    /\ t.at >= N
    /\ success' = IF t.success = t.ok THEN success ELSE t.ok
    /\ error' = IF t.error = t.bad THEN error ELSE t.bad
    /\ Become(w, [t EXCEPT !.pc = "event"])
    /\ UNCHANGED <<results, item, announced, waiting, sent, faults>>

\* Mutant of Finish: relies on the counts kept item by item.
FinishUncounted(w) ==
    /\ At(w, "store")
    /\ task[w].at = N + 1
    /\ Become(w, [task[w] EXCEPT !.pc = "event"])
    /\ UNCHANGED <<results, row, waiting, sent, faults>>

\* The final update_batch_job: absolute counts, where the session's differ.
Finish(w) ==
    LET t == task[w] IN
    /\ At(w, "store")
    /\ t.at = N + 1
    /\ success' = IF t.success = t.ok THEN success ELSE t.ok
    /\ error' = IF t.error = t.bad THEN error ELSE t.bad
    /\ Become(w, [t EXCEPT !.pc = "event"])
    /\ UNCHANGED <<results, item, announced, waiting, sent, faults>>

\* The FETCH_COMPLETED event.
Announce(w) ==
    /\ At(w, "event")
    /\ announced' = TRUE
    /\ Become(w, Idle)
    /\ UNCHANGED <<results, item, success, error, waiting, sent, faults>>

\* Mutant of Crash: the message was acknowledged when it was received.
CrashAckedEarly(w) ==
    /\ ~At(w, "idle")
    /\ Fault("crash")
    /\ Become(w, Idle)
    /\ UNCHANGED <<results, row, waiting, sent>>

\* The worker dies and its message is delivered again.
Crash(w) ==
    /\ ~At(w, "idle")
    /\ Fault("crash")
    /\ Enqueue(task[w].retries)
    /\ Become(w, Idle)
    /\ UNCHANGED <<results, row, sent>>

\* An unexpected exception ends the task; its message is acknowledged.
Abort(w) ==
    /\ ~At(w, "idle")
    /\ Fault("abort")
    /\ Become(w, Idle)
    /\ UNCHANGED <<results, row, waiting, sent>>

-----------------------------------------------------------------------------
\* What a worker does next, faults aside.
Progress(w) ==
    \/ \E r \in 0..MaxRetries : LoadJob(w, r)
    \/ LoadItems(w) \/ Call(w) \/ StoreItem(w) \/ PassItem(w) \/ CountItem(w)
    \/ Finish(w) \/ Announce(w)

Next ==
    \/ Send
    \/ \E w \in Workers :
          \/ Progress(w) \/ CallTransient(w) \/ CallPermanent(w)
          \/ Crash(w) \/ Abort(w)

Spec == Init /\ [][Next]_vars

\* Workers run the tasks they are given.
FairSpec == Spec /\ \A w \in Workers : WF_vars(Progress(w))

-----------------------------------------------------------------------------
With(s) == {i \in Items : item[i] = s}

\* The counts, queues and sessions have their types: no task runs without a message
\* and none goes past the last item.
TypeOK ==
    /\ results \in [Items -> Result]
    /\ item \in [Items -> ItemStatus]
    /\ success \in Int
    /\ error \in Int
    /\ announced \in BOOLEAN
    /\ waiting \in [0..MaxRetries -> Nat]
    /\ sent \in 0..MaxSends
    /\ task \in [Workers -> Task]
    /\ faults \in [FaultKinds -> 0..MaxFaults]

Quiescent == (\A w \in Workers : At(w, "idle")) /\ (\A r \in 0..MaxRetries : waiting[r] = 0)

\* "Running the same task multiple times should not corrupt state": whatever tasks and
\* crashes interleave, success_count and error_count never run ahead of the items that have
\* completed and failed, and when no fetch is queued or running they are those of the items,
\* unless a task was cut short between the commit of an item and that of the counts.
CountsFollowItems ==
    LET completed == Cardinality(With("completed"))
        failed == Cardinality(With("failed"))
    IN /\ success <= completed /\ error <= failed
       /\ Quiescent /\ faults["crash"] = 0 /\ faults["abort"] = 0 =>
              success = completed /\ error = failed

AllStored == \A i \in Items : results[i] # "missing" => item[i] = StatusFor(results[i])

\* FETCH_COMPLETED is announced only when every result the provider has is stored.
AnnouncedIsStored == announced => AllStored

\* A fetch task that was enqueued eventually stores every result the provider has,
\* in spite of crashes and of transient errors its retries outlast; only an
\* unexpected or a permanent error ends a task for good.
ResultsAreStored ==
    (sent > 0) ~> \/ AllStored
                  \/ faults["abort"] + faults["permanent"] > 0
                  \/ faults["transient"] > MaxRetries

\* Fetching does what BatchResults promises: an item takes the provider's result
\* once, and never loses or changes it, however often the task runs.
Promise == INSTANCE BatchResults WITH N <- N, results <- results, item <- item
ImplementsPromise == Promise!Spec
=============================================================================
