-------------------------- MODULE BatchLifecycle --------------------------
(***************************************************************************)
(* The life of batch jobs: the HTTP routes that create and cancel them     *)
(* (api/v1/routes/batch.py), the Celery tasks that submit, poll, fetch and *)
(* retry them (celery/tasks/batch_tasks.py) over BatchService, and the     *)
(* provider that runs the batches.                                         *)
(*                                                                         *)
(* Every database commit, provider call and broker operation is a step of  *)
(* its own.  Between two steps of one process any other process may run;   *)
(* what a process keeps across its steps is its SQLAlchemy session, whose  *)
(* identity map returns the row as it was first loaded (expire_on_commit   *)
(* is off) and whose UPDATE has no condition but the primary key.          *)
(***************************************************************************)
EXTENDS BatchProviders, Naturals, FiniteSets

CONSTANTS
    UserJobs,      \* jobs the API creates (created_by is a user)
    RetryJobs,     \* jobs batch_retry_failed creates (created_by is NULL)
    Retried,       \* bound: the jobs an operator runs batch_retry_failed on
    Batches,       \* batches the providers create: bounds the submissions
    Workers,       \* Celery worker threads or processes
    Handlers,      \* API requests in flight
    Provider,      \* the provider of each job
    MaxRetries,    \* max_retries of batch.submit and batch.fetch (5)
    MaxCopies,     \* bound: copies of one message the broker tells apart
    Faults,        \* the kinds of faults that may happen
    MaxFaults,     \* bound: how many of them
    NoJob, NoBatch

Jobs == UserJobs \union RetryJobs
Procs == Workers \union Handlers

FaultKinds == Failures \union
    {"lost_reply", "abort", "crash", "redeliver", "slow_poll", "partial"}

ASSUME ConstantsAssumption ==
    /\ UserJobs \intersect RetryJobs = {}
    /\ Workers \intersect Handlers = {}
    /\ Retried \subseteq Jobs
    /\ NoJob \notin Jobs
    /\ NoBatch \notin Batches
    /\ Provider \in [Jobs -> Providers]
    /\ MaxRetries \in Nat
    /\ MaxCopies \in Nat \ {0}
    /\ Faults \subseteq FaultKinds
    /\ MaxFaults \in Nat

VARIABLES
    status,     \* batch_jobs.status, "absent" before the row exists
    pbid,       \* batch_jobs.provider_batch_id
    items,      \* the item statuses that occur among the job's batch_items
    logged,     \* new_status of the job's STATUS_CHANGE events
    queue,      \* the broker: how many copies of each message wait
    owner,      \* the job a provider batch was submitted for (external)
    raw,        \* the state of each batch at its provider (external)
    asked,      \* batches the provider was asked to cancel (external)
    pollLock,   \* the Redis key batch_poll:lock exists
    proc,       \* what each worker and request handler is doing
    faults      \* how many faults have happened

db == <<status, pbid, items, logged>>
provider == <<owner, raw, asked>>
vars == <<db, queue, provider, pollLock, proc, faults>>

-----------------------------------------------------------------------------
RowStatus == JobStatus \union {"absent"}
Pollable == {"submitted", "in_progress"}
\* The statuses cancel_batch_job refuses to cancel.
Settled == {"completed", "failed", "cancelled"}
ItemStatus == {"queued", "completed", "failed"}

Msg == [task : {"submit", "fetch", "retry"}, job : Jobs, retries : 0..MaxRetries]
NoMsg == [task |-> "none", job |-> NoJob, retries |-> 0]

Task(t, j) == [task |-> t, job |-> j, retries |-> 0]

\* A process between two steps: where it is, the message it has not yet
\* acknowledged, the job in hand, the jobs a poll has left, its session's copy
\* of status and provider_batch_id, the status it is about to write or log, and
\* where it goes after the event is logged.
PC == {"idle", "items", "retry_submit", "submit_call", "submit_commit",
       "submit_failed", "poll", "poll_write", "cancel", "fetch_call",
       "fetch_store", "log"}

Session == [pc : PC, msg : Msg \union {NoMsg}, job : Jobs \union {NoJob},
            todo : SUBSET Jobs, seen : [Jobs -> RowStatus],
            bid : [Jobs -> Batches \union {NoBatch}],
            fresh : RowStatus, next : {"idle", "items", "poll"}]

Idle == [pc |-> "idle", msg |-> NoMsg, job |-> NoJob, todo |-> {},
         seen |-> [j \in Jobs |-> "absent"], bid |-> [j \in Jobs |-> NoBatch],
         fresh |-> "absent", next |-> "idle"]

At(p, pc) == proc[p].pc = pc
Become(p, session) == proc' = [proc EXCEPT ![p] = session]

\* A session that has just loaded job j while executing message m.
Loaded(j, m) ==
    [Idle EXCEPT !.msg = m, !.job = j,
                 !.seen = [Idle.seen EXCEPT ![j] = status[j]],
                 !.bid = [Idle.bid EXCEPT ![j] = pbid[j]]]

\* The broker delivers at least once; copies beyond MaxCopies coalesce.
Put(q, m) == [q EXCEPT ![m] = IF @ < MaxCopies THEN @ + 1 ELSE @]
Take(m) == [queue EXCEPT ![m] = @ - 1]
Waiting(m) == queue[m] > 0

\* self.retry: a new message, or MaxRetriesExceeded and no message at all.
RetryTask(m) ==
    IF m.retries < MaxRetries
      THEN Put(queue, [m EXCEPT !.retries = @ + 1])
      ELSE queue

Fault(kind) == kind \in Faults /\ faults < MaxFaults /\ faults' = faults + 1

Free == {b \in Batches : owner[b] = NoJob}

\* The provider accepts the items of job j as batch b.
Accept(j, b) ==
    /\ owner' = [owner EXCEPT ![b] = j]
    /\ raw' = [raw EXCEPT ![b] = InitialRaw(Provider[j])]
    /\ asked' = asked

-----------------------------------------------------------------------------
Init ==
    /\ status = [j \in Jobs |-> "absent"]
    /\ pbid = [j \in Jobs |-> NoBatch]
    /\ items = [j \in Jobs |-> {}]
    /\ logged = [j \in Jobs |-> {}]
    /\ queue = [m \in Msg |-> 0]
    /\ owner = [b \in Batches |-> NoJob]
    /\ raw = [b \in Batches |-> "none"]
    /\ asked = {}
    /\ pollLock = FALSE
    /\ proc = [p \in Procs |-> Idle]
    /\ faults = 0

-----------------------------------------------------------------------------
(* Creation: POST /batch and batch_retry_failed.                           *)

\* BatchService.create_batch_job: the row is committed, its event comes later.
InsertJob(p, j, m) ==
    /\ status[j] = "absent"
    /\ status' = [status EXCEPT ![j] = "created"]
    /\ Become(p, [Idle EXCEPT !.pc = "log", !.msg = m, !.job = j,
                              !.fresh = "created", !.next = "items"])
    /\ UNCHANGED <<pbid, items, logged, provider, pollLock, faults>>

\* POST /batch up to the commit of the job row.
CreateJob(h, j) ==
    /\ At(h, "idle")
    /\ InsertJob(h, j, NoMsg)
    /\ UNCHANGED queue

\* batch_retry_failed up to the commit of the new job's row.
RetryCreate(w, m, j) ==
    /\ At(w, "idle")
    /\ m.task = "retry"
    /\ Waiting(m)
    /\ "failed" \in items[m.job]
    /\ InsertJob(w, j, m)
    /\ queue' = Take(m)

\* BatchService.create_batch_items; the route answers, the retry task goes on.
CreateItems(p) ==
    /\ At(p, "items")
    /\ items' = [items EXCEPT ![proc[p].job] = {"queued"}]
    /\ Become(p, IF p \in Handlers
                   THEN Idle
                   ELSE [proc[p] EXCEPT !.pc = "retry_submit"])
    /\ UNCHANGED <<status, pbid, logged, queue, provider, pollLock, faults>>

\* batch_retry_failed enqueues the submission of the job it has created.
RetrySubmit(w) ==
    /\ At(w, "retry_submit")
    /\ queue' = Put(queue, Task("submit", proc[w].job))
    /\ Become(w, Idle)
    /\ UNCHANGED <<db, provider, pollLock, faults>>

\* batch_retry_failed finds no failed item.
RetrySkip(w, m) ==
    /\ At(w, "idle")
    /\ m.task = "retry"
    /\ Waiting(m)
    /\ "failed" \notin items[m.job]
    /\ queue' = Take(m)
    /\ UNCHANGED <<db, provider, pollLock, proc, faults>>

\* An operator runs batch_retry_failed.delay(job_id).
RetryRequest(j) ==
    /\ status[j] # "absent"
    /\ ~Waiting(Task("retry", j))
    /\ queue' = Put(queue, Task("retry", j))
    /\ UNCHANGED <<db, provider, pollLock, proc, faults>>

\* _create_status_change_event, a commit after the one of the status itself.
LogEvent(p) ==
    /\ At(p, "log")
    /\ logged' = [logged EXCEPT ![proc[p].job] = @ \union {proc[p].fresh}]
    /\ Become(p, IF proc[p].next = "idle"
                   THEN Idle
                   ELSE [proc[p] EXCEPT !.pc = proc[p].next])
    /\ UNCHANGED <<status, pbid, items, queue, provider, pollLock, faults>>

-----------------------------------------------------------------------------
(* Submission.                                                             *)

\* Mutant of Dispatch: selects the jobs that have been submitted.
DispatchSubmitted(w, S) ==
    /\ At(w, "idle")
    /\ S # {}
    /\ \A j \in S : status[j] = "submitted"
    /\ queue' = [m \in Msg |-> IF m.task = "submit" /\ m.retries = 0 /\ m.job \in S
                                 THEN Put(queue, m)[m]
                                 ELSE queue[m]]
    /\ UNCHANGED <<db, provider, pollLock, proc, faults>>

\* batch_dispatch: a submit task for each job selected in CREATED for which
\* delay() succeeds.  The lock keeps a second dispatch out; enqueueing is all
\* that happens under it.
Dispatch(w, S) ==
    /\ At(w, "idle")
    /\ S # {}
    /\ \A j \in S : status[j] = "created"
    /\ queue' = [m \in Msg |-> IF m.task = "submit" /\ m.retries = 0 /\ m.job \in S
                                 THEN Put(queue, m)[m]
                                 ELSE queue[m]]
    /\ UNCHANGED <<db, provider, pollLock, proc, faults>>

\* Mutant of SubmitLoad: does not look at the status.
SubmitLoadUnchecked(w, m) ==
    /\ At(w, "idle")
    /\ m.task = "submit"
    /\ Waiting(m)
    /\ items[m.job] # {}
    /\ queue' = Take(m)
    /\ Become(w, [Loaded(m.job, m) EXCEPT !.pc = "submit_call"])
    /\ UNCHANGED <<db, provider, pollLock, faults>>

\* batch_submit loads a CREATED job and its items.
SubmitLoad(w, m) ==
    /\ At(w, "idle")
    /\ m.task = "submit"
    /\ Waiting(m)
    /\ status[m.job] = "created"
    /\ items[m.job] # {}
    /\ queue' = Take(m)
    /\ Become(w, [Loaded(m.job, m) EXCEPT !.pc = "submit_call"])
    /\ UNCHANGED <<db, provider, pollLock, faults>>

\* The early returns of batch_submit: already submitted, or no items yet.
SubmitSkip(w, m) ==
    /\ At(w, "idle")
    /\ m.task = "submit"
    /\ Waiting(m)
    /\ status[m.job] # "created" \/ items[m.job] = {}
    /\ queue' = Take(m)
    /\ UNCHANGED <<db, provider, pollLock, proc, faults>>

\* provider.submit returns the id of a new batch.
SubmitAccepted(w, b) ==
    /\ At(w, "submit_call")
    /\ b \in Free
    /\ Accept(proc[w].job, b)
    /\ Become(w, [proc[w] EXCEPT !.pc = "submit_commit",
                                 !.bid = [@ EXCEPT ![proc[w].job] = b]])
    /\ UNCHANGED <<db, queue, pollLock, faults>>

\* provider.submit fails with failure e.  b is NoBatch unless the provider accepted
\* the batch all the same and only the reply was lost.
SubmitFails(w, e, b) ==
    /\ \/ b = NoBatch /\ Fault(e) /\ UNCHANGED provider
       \/ b \in Free /\ e \in Ambiguous /\ Fault("lost_reply") /\ Accept(proc[w].job, b)
    /\ UNCHANGED <<db, pollLock>>

\* ProviderTransientError: self.retry.
SubmitTransient(w, b) ==
    /\ At(w, "submit_call")
    /\ \E e \in SubmitRetryable(Provider[proc[w].job]) : SubmitFails(w, e, b)
    /\ queue' = RetryTask(proc[w].msg)
    /\ Become(w, Idle)

\* ProviderPermanentError: the job is marked failed next.
SubmitPermanent(w, b) ==
    /\ At(w, "submit_call")
    /\ \E e \in Failures \ SubmitRetryable(Provider[proc[w].job]) : SubmitFails(w, e, b)
    /\ Become(w, [proc[w] EXCEPT !.pc = "submit_failed"])
    /\ UNCHANGED queue

\* Mutant of SubmitCommit: the batch id is not part of the update.
SubmitCommitWithoutId(w) ==
    LET s == proc[w] IN
    /\ At(w, "submit_commit")
    /\ status' = [status EXCEPT ![s.job] = "submitted"]
    /\ Become(w, [s EXCEPT !.pc = "log", !.fresh = "submitted"])
    /\ UNCHANGED <<pbid, items, logged, queue, provider, pollLock, faults>>

\* update_batch_job in batch_submit: status and provider_batch_id together.
SubmitCommit(w) ==
    LET s == proc[w] IN
    /\ At(w, "submit_commit")
    /\ status' = [status EXCEPT ![s.job] = "submitted"]
    /\ pbid' = [pbid EXCEPT ![s.job] = s.bid[s.job]]
    /\ Become(w, [s EXCEPT !.pc = "log", !.fresh = "submitted"])
    /\ UNCHANGED <<items, logged, queue, provider, pollLock, faults>>

\* _mark_failed: a session of its own, whatever the status is by now; an event
\* only if the status changes.
SubmitMarkFailed(w) ==
    LET s == proc[w] IN
    /\ At(w, "submit_failed")
    /\ status' = [status EXCEPT ![s.job] = "failed"]
    /\ Become(w, IF status[s.job] = "failed"
                   THEN Idle
                   ELSE [s EXCEPT !.pc = "log", !.fresh = "failed"])
    /\ UNCHANGED <<pbid, items, logged, queue, provider, pollLock, faults>>

-----------------------------------------------------------------------------
(* Polling.                                                                *)

\* Mutant of StartPoll: does not look at the lock.
StartPollUnlocked(w) ==
    LET found == {j \in Jobs : status[j] \in Pollable} IN
    /\ At(w, "idle")
    /\ found # {}
    /\ pollLock' = TRUE
    /\ Become(w, [Idle EXCEPT !.pc = "poll", !.todo = found,
                    !.seen = [j \in Jobs |-> IF j \in found THEN status[j] ELSE "absent"],
                    !.bid = [j \in Jobs |-> IF j \in found THEN pbid[j] ELSE NoBatch]])
    /\ UNCHANGED <<db, queue, provider, faults>>

\* batch_poll takes the lock and loads the jobs to poll.  A poll that finds
\* none releases the lock at once and is left out.
StartPoll(w) ==
    LET found == {j \in Jobs : status[j] \in Pollable} IN
    /\ At(w, "idle")
    /\ ~pollLock
    /\ found # {}
    /\ pollLock' = TRUE
    /\ Become(w, [Idle EXCEPT !.pc = "poll", !.todo = found,
                    !.seen = [j \in Jobs |-> IF j \in found THEN status[j] ELSE "absent"],
                    !.bid = [j \in Jobs |-> IF j \in found THEN pbid[j] ELSE NoBatch]])
    /\ UNCHANGED <<db, queue, provider, faults>>

Polled(w, j) == Normalize(Provider[j], raw[proc[w].bid[j]])

\* The provider's status is the one loaded, or none that BatchJobStatus knows
\* (a ValueError that is logged and skipped).
PollUnchanged(w, j) ==
    /\ At(w, "poll")
    /\ j \in proc[w].todo
    /\ Polled(w, j) \notin JobStatus \ {proc[w].seen[j]}
    /\ Become(w, [proc[w] EXCEPT !.todo = @ \ {j}])
    /\ UNCHANGED <<db, queue, provider, pollLock, faults>>

\* poll_status raises ProviderTransientError: the next job.
PollTransient(w, j) ==
    /\ At(w, "poll")
    /\ j \in proc[w].todo
    /\ \E e \in Failures \ PollFatal(Provider[j]) : Fault(e)
    /\ Become(w, [proc[w] EXCEPT !.todo = @ \ {j}])
    /\ UNCHANGED <<db, queue, provider, pollLock>>

\* A new status: for COMPLETED the fetch task is enqueued here, before the
\* status is written.
PollChanged(w, j) ==
    LET new == Polled(w, j) IN
    /\ At(w, "poll")
    /\ j \in proc[w].todo
    /\ new \in JobStatus \ {proc[w].seen[j]}
    /\ queue' = IF new = "completed" THEN Put(queue, Task("fetch", j)) ELSE queue
    /\ Become(w, [proc[w] EXCEPT !.pc = "poll_write", !.job = j, !.fresh = new,
                                 !.todo = @ \ {j}])
    /\ UNCHANGED <<db, provider, pollLock, faults>>

\* poll_status raises ProviderPermanentError: the job is to fail.
PollPermanent(w, j) ==
    /\ At(w, "poll")
    /\ j \in proc[w].todo
    /\ \E e \in PollFatal(Provider[j]) : Fault(e)
    /\ Become(w, [proc[w] EXCEPT !.pc = "poll_write", !.job = j, !.fresh = "failed",
                                 !.todo = @ \ {j}])
    /\ UNCHANGED <<db, queue, provider, pollLock>>

\* update_batch_job in batch_poll.
PollWrite(w) ==
    LET s == proc[w] IN
    /\ At(w, "poll_write")
    /\ status' = [status EXCEPT ![s.job] = s.fresh]
    /\ Become(w, [s EXCEPT !.pc = "log", !.next = "poll"])
    /\ UNCHANGED <<pbid, items, logged, queue, provider, pollLock, faults>>

\* The end of batch_poll deletes the lock, whoever holds it by now.
EndPoll(w) ==
    /\ At(w, "poll")
    /\ proc[w].todo = {}
    /\ pollLock' = FALSE
    /\ Become(w, Idle)
    /\ UNCHANGED <<db, queue, provider, faults>>

Polling(p) ==
    \/ proc[p].pc \in {"poll", "poll_write"}
    \/ At(p, "log") /\ proc[p].next = "poll"

\* Mutant of LockExpires: a lock without a TTL (a slow poll aside).
LockNeverExpires ==
    /\ pollLock
    /\ pollLock' = FALSE
    /\ (\E w \in Workers : Polling(w)) /\ Fault("slow_poll")
    /\ UNCHANGED <<db, queue, provider, proc>>

\* The lock's TTL of 300 s: always for a lock whose poller is gone, and for a
\* poll that takes longer than that.
LockExpires ==
    /\ pollLock
    /\ pollLock' = FALSE
    /\ \/ ~(\E w \in Workers : Polling(w)) /\ UNCHANGED faults
       \/ (\E w \in Workers : Polling(w)) /\ Fault("slow_poll")
    /\ UNCHANGED <<db, queue, provider, proc>>

-----------------------------------------------------------------------------
(* Cancellation: POST /batch/{job_id}/cancel.                              *)

\* The job is the user's own, its id known from the answer to the creation, and
\* not settled; EXPIRED is not among the statuses that are refused.
CancelLoad(h, j) ==
    /\ At(h, "idle")
    /\ j \in UserJobs
    /\ items[j] # {}
    /\ status[j] \notin Settled
    /\ Become(h, [Loaded(j, NoMsg) EXCEPT !.pc = "cancel"])
    /\ UNCHANGED <<db, queue, provider, pollLock, faults>>

\* Mutant of CancelWrite: no status-change event.
CancelWriteUnlogged(h) ==
    LET s == proc[h] IN
    /\ At(h, "cancel")
    /\ status' = [status EXCEPT ![s.job] = "cancelled"]
    /\ Become(h, Idle)
    /\ UNCHANGED <<pbid, items, logged, queue, provider, pollLock, faults>>

\* The provider is asked only if the session's copy says the job is with it and
\* an adapter can be made (without a configuration); its failure is swallowed.
\* CANCELLED is written whatever the status is by now.
CancelWrite(h) ==
    LET s == proc[h]
        reaches == s.seen[s.job] \in Pollable /\ CreateProvider({}) = "instance"
    IN
    /\ At(h, "cancel")
    /\ asked' = IF reaches THEN asked \union {s.bid[s.job]} ELSE asked
    /\ status' = [status EXCEPT ![s.job] = "cancelled"]
    /\ Become(h, [s EXCEPT !.pc = "log", !.fresh = "cancelled"])
    /\ UNCHANGED <<pbid, items, logged, queue, owner, raw, pollLock, faults>>

-----------------------------------------------------------------------------
(* Fetching.                                                               *)

\* batch_fetch loads a COMPLETED job that has items without a result.
FetchLoad(w, m) ==
    /\ At(w, "idle")
    /\ m.task = "fetch"
    /\ Waiting(m)
    /\ status[m.job] = "completed"
    /\ "queued" \in items[m.job]
    /\ queue' = Take(m)
    /\ Become(w, [Loaded(m.job, m) EXCEPT !.pc = "fetch_call"])
    /\ UNCHANGED <<db, provider, pollLock, faults>>

\* The early returns of batch_fetch: not completed, or already fetched.
FetchSkip(w, m) ==
    /\ At(w, "idle")
    /\ m.task = "fetch"
    /\ Waiting(m)
    /\ status[m.job] # "completed" \/ "queued" \notin items[m.job]
    /\ queue' = Take(m)
    /\ UNCHANGED <<db, provider, pollLock, proc, faults>>

\* provider.fetch_results: results, or ProviderPermanentError for a batch that
\* is not ready, which ends the task.
FetchCall(w) ==
    LET s == proc[w] IN
    /\ At(w, "fetch_call")
    /\ Become(w, IF FetchReady(Provider[s.job], raw[s.bid[s.job]])
                   THEN [s EXCEPT !.pc = "fetch_store"]
                   ELSE Idle)
    /\ UNCHANGED <<db, queue, provider, pollLock, faults>>

\* fetch_results fails with failure e: the task is retried, or it ends.
FetchError(w, e) ==
    LET s == proc[w] IN
    /\ At(w, "fetch_call")
    /\ Fault(e)
    /\ queue' = IF e \in FetchRetryable(Provider[s.job]) THEN RetryTask(s.msg) ELSE queue
    /\ Become(w, Idle)
    /\ UNCHANGED <<db, provider, pollLock>>

\* The results are stored item by item (see BatchFetch).  R is what the results
\* say, K the statuses of items they leave out.  The results of a batch do not
\* change: what a job with a single batch has stored is found again.
FetchStore(w, R, K) ==
    LET j == proc[w].job IN
    /\ At(w, "fetch_store")
    /\ K \subseteq items[j]
    /\ R \union K # {}
    /\ \/ \E b \in Batches : owner[b] = j /\ b # proc[w].bid[j]
       \/ items[j] \ {"queued"} \subseteq R \union K
    /\ IF K = {} THEN UNCHANGED faults ELSE Fault("partial")
    /\ items' = [items EXCEPT ![j] = R \union K]
    /\ Become(w, Idle)
    /\ UNCHANGED <<status, pbid, logged, queue, provider, pollLock>>

-----------------------------------------------------------------------------
(* The environment.                                                        *)

\* A batch not in a final state moves on at its provider.
ProviderStep(b, r) ==
    /\ owner[b] # NoJob
    /\ raw[b] \in Pending(Provider[owner[b]])
    /\ r \in RawStates(Provider[owner[b]]) \ {raw[b]}
    /\ raw' = [raw EXCEPT ![b] = r]
    /\ UNCHANGED <<db, queue, owner, asked, pollLock, proc, faults>>

\* Mutant of Crash: the message was acknowledged when it was received.
CrashAckedEarly(p) ==
    /\ ~At(p, "idle")
    /\ Fault("crash")
    /\ Become(p, Idle)
    /\ UNCHANGED <<db, queue, provider, pollLock>>

\* A worker or the API process dies.  acks_late and reject_on_worker_lost return
\* the worker's message to the broker; the poll lock stays.
Crash(p) ==
    /\ ~At(p, "idle")
    /\ Fault("crash")
    /\ queue' = IF proc[p].msg = NoMsg THEN queue ELSE Put(queue, proc[p].msg)
    /\ Become(p, Idle)
    /\ UNCHANGED <<db, provider, pollLock>>

\* An unexpected exception (a database error): the task returns an error and its
\* message is acknowledged, the request ends with status 500, a poll gives the
\* lock back.
Abort(p) ==
    /\ ~At(p, "idle")
    /\ Fault("abort")
    /\ pollLock' = IF Polling(p) THEN FALSE ELSE pollLock
    /\ Become(p, Idle)
    /\ UNCHANGED <<db, queue, provider>>

\* The broker's visibility timeout (one hour): a message still being executed is
\* delivered again.
Redeliver(w) ==
    /\ proc[w].msg # NoMsg
    /\ Fault("redeliver")
    /\ queue' = Put(queue, proc[w].msg)
    /\ UNCHANGED <<db, provider, pollLock, proc>>

-----------------------------------------------------------------------------
Create ==
    \/ \E h \in Handlers, j \in UserJobs : CreateJob(h, j)
    \/ \E w \in Workers, m \in Msg, j \in RetryJobs : RetryCreate(w, m, j)
    \/ \E p \in Procs : CreateItems(p) \/ LogEvent(p)
    \/ \E w \in Workers, m \in Msg : RetrySkip(w, m)
    \/ \E w \in Workers : RetrySubmit(w)
    \/ \E j \in Retried : RetryRequest(j)

Submit ==
    \/ \E w \in Workers, S \in SUBSET Jobs : Dispatch(w, S)
    \/ \E w \in Workers, m \in Msg : SubmitLoad(w, m) \/ SubmitSkip(w, m)
    \/ \E w \in Workers, b \in Batches : SubmitAccepted(w, b)
    \/ \E w \in Workers, b \in Batches \union {NoBatch} :
          SubmitTransient(w, b) \/ SubmitPermanent(w, b)
    \/ \E w \in Workers : SubmitCommit(w) \/ SubmitMarkFailed(w)

Poll ==
    \/ \E w \in Workers : StartPoll(w) \/ PollWrite(w) \/ EndPoll(w)
    \/ \E w \in Workers, j \in Jobs :
          \/ PollUnchanged(w, j) \/ PollTransient(w, j)
          \/ PollChanged(w, j) \/ PollPermanent(w, j)
    \/ LockExpires

Cancel ==
    \E h \in Handlers : CancelWrite(h) \/ \E j \in UserJobs : CancelLoad(h, j)

Fetch ==
    \/ \E w \in Workers, m \in Msg : FetchLoad(w, m) \/ FetchSkip(w, m)
    \/ \E w \in Workers : FetchCall(w)
    \/ \E w \in Workers, e \in Failures : FetchError(w, e)
    \/ \E w \in Workers, R \in SUBSET {"completed", "failed"}, K \in SUBSET ItemStatus :
          FetchStore(w, R, K)

Environment ==
    \/ \E b \in Batches, r \in UNION {RawStates(p) : p \in Providers} : ProviderStep(b, r)
    \/ \E p \in Procs : Crash(p) \/ Abort(p)
    \/ \E w \in Workers : Redeliver(w)

Next == Create \/ Submit \/ Poll \/ Cancel \/ Fetch \/ Environment

Spec == Init /\ [][Next]_vars

\* What a process does next, faults aside, once it has begun.
Progress(p) ==
    \/ CreateItems(p) \/ LogEvent(p) \/ RetrySubmit(p) \/ CancelWrite(p)
    \/ \E b \in Batches : SubmitAccepted(p, b)
    \/ SubmitCommit(p) \/ SubmitMarkFailed(p)
    \/ \E j \in Jobs : PollUnchanged(p, j) \/ PollChanged(p, j)
    \/ PollWrite(p) \/ EndPoll(p)
    \/ FetchCall(p)
    \/ \E R \in SUBSET {"completed", "failed"} : FetchStore(p, R, {})

\* A worker takes message m off the broker's queue.
Deliver(w, m) ==
    \/ SubmitLoad(w, m) \/ SubmitSkip(w, m) \/ FetchLoad(w, m) \/ FetchSkip(w, m)
    \/ RetrySkip(w, m) \/ \E j \in RetryJobs : RetryCreate(w, m, j)

\* Processes do not stop in the middle of a task; the queue is first in first out,
\* so a message is taken as long as workers keep becoming idle; beat keeps sending
\* dispatch and poll; Redis expires the lock; providers finish their batches.
Fairness ==
    /\ \A p \in Procs : WF_vars(Progress(p))
    /\ \A m \in Msg : SF_vars(\E w \in Workers : Deliver(w, m))
    /\ \A j \in Jobs : SF_vars(\E w \in Workers : Dispatch(w, {j}))
    /\ SF_vars(\E w \in Workers : StartPoll(w))
    /\ WF_vars(LockExpires)
    /\ \A b \in Batches :
          WF_vars(\E r \in UNION {Final(p) : p \in Providers} : ProviderStep(b, r))

FairSpec == Spec /\ Fairness

-----------------------------------------------------------------------------
(* Properties.                                                             *)

\* Every variable has its type; a session's fields are those of the rows it
\* loaded.
TypeOK ==
    /\ status \in [Jobs -> RowStatus]
    /\ pbid \in [Jobs -> Batches \union {NoBatch}]
    /\ items \in [Jobs -> SUBSET ItemStatus]
    /\ logged \in [Jobs -> SUBSET RowStatus]
    /\ queue \in [Msg -> Nat]
    /\ owner \in [Batches -> Jobs \union {NoJob}]
    /\ \A b \in Batches : raw[b] \in IF owner[b] = NoJob THEN {"none"}
                                     ELSE RawStates(Provider[owner[b]])
    /\ DOMAIN raw = Batches
    /\ asked \in SUBSET (Batches \union {NoBatch})
    /\ pollLock \in BOOLEAN
    /\ proc \in [Procs -> Session]
    /\ faults \in Nat

\* A job that batch_poll will ask the provider about has a provider_batch_id, and
\* the batch it names was submitted for this very job: whatever the order of
\* submissions, failures and late writes, the poller never asks about nothing or
\* about another job's batch.
PollableHasBatch ==
    \A j \in Jobs : status[j] \in Pollable =>
        pbid[j] \in Batches /\ owner[pbid[j]] = j

\* A job is COMPLETED only if the provider really completed a batch submitted for
\* it: no stale poll, retry or cancellation makes a job look complete.
CompletedIsReal ==
    \A j \in Jobs : status[j] = "completed" =>
        \E b \in Batches : owner[b] = j /\ Normalize(Provider[j], raw[b]) = "completed"

\* A process that saw a job settled when it loaded it never changes its status:
\* a settled job is overwritten only by a process whose copy is older.
SettledOverwrittenOnlyByStaleSession ==
    [][\A j \in Jobs : status[j] \in Settled /\ status'[j] # status[j] =>
          \E p \in Procs : proc[p].job = j /\ proc[p].seen[j] \in RowStatus \ Settled
                           /\ proc[p].pc \in {"submit_commit", "submit_failed",
                                              "poll_write", "cancel"}]_vars

\* The batches of a job at its provider.
BatchesOf(j) == {b \in Batches : owner[b] = j}

\* batch_submit is called "idempotent" by batch_dispatch: however often it runs,
\* a job is submitted to its provider at most once.
AtMostOneBatch == \A j \in Jobs : Cardinality(BatchesOf(j)) <= 1

\* Once nobody is about to log an event, the timeline of a job contains its status.
TimelineComplete ==
    \A j \in Jobs :
        \/ status[j] = "absent"
        \/ status[j] \in logged[j]
        \/ \E p \in Procs : At(p, "log") /\ proc[p].job = j /\ proc[p].fresh = status[j]

\* Every job that has its items is eventually handed to the provider (or failed or
\* cancelled): batch_dispatch makes up for lost and exhausted submit tasks.
JobIsSubmitted ==
    \A j \in Jobs : items[j] # {} /\ status[j] = "created" ~> status[j] # "created"

\* Every job that has its items is eventually settled for good.
JobSettles == \A j \in Jobs : items[j] # {} ~> [](status[j] \in Settled)

\* Every completed job eventually has a result for each item, unless a late
\* cancellation takes it out of COMPLETED.
ResultsArrive ==
    \A j \in Jobs : status[j] = "completed" ~>
        "queued" \notin items[j] \/ status[j] # "completed"

\* The lock keeps a second batch_poll out while one is running.
OnePoller == \A v, w \in Workers : Polling(v) /\ Polling(w) => v = w

\* A cancellation of a job that is with its provider reaches the provider.
CancelReachesProvider ==
    \A h \in Handlers : At(h, "log") /\ proc[h].fresh = "cancelled"
                        /\ proc[h].seen[proc[h].job] \in Pollable
                        => proc[h].bid[proc[h].job] \in asked
=============================================================================
