# Verification of inference_core

TLA+ specifications of the `inference_core` backend template: a FastAPI application and Celery workers around a SQL
database, Redis and LLM providers. Line numbers refer to `src/`. `PROJECT.json` maps every definition to the lines it
models and lists runs, mutants, hazards, findings and theorems.

## The system and its parts

A FastAPI process answers requests; Celery workers run background tasks; both share a SQL database, Redis and the
providers' APIs. Every request and every task is a coroutine that interleaves with others at each `await`, so what is
hard is what is read before one `await` and used after another.

| part | state | operations | what makes it correct | modelled by |
|---|---|---|---|---|
| batch jobs (routes/batch, batch_tasks, batch_service, llm/batch) | job, item and event rows; task messages; Redis locks; the provider's batches | create, dispatch, submit, poll, cancel, fetch, retry | a job has one batch, settles, and gets its results; counts and timeline agree with the items | `BatchLifecycle`, `BatchFetch`, `BatchResults`, `BatchProviders` |
| refresh sessions (routes/auth, refresh_session_store) | one Redis hash per token; cookies | login, refresh, logout | a retired token is dead for good; one session per login; every session expires | `RefreshSessions` |
| configuration cache (llm_config_service) | override and preference rows; two kinds of Redis keys with a TTL | read, change, invalidate | a change is visible at once, and after a bounded time when something goes wrong | `ConfigCache` |
| configuration merge (llm_config_service, routes/config) | override rows, allowlist, preferences | create, update, delete; three layers merged | precedence of the layers, whatever the order of the rows | `ConfigLayers`, `AgentSettings` |
| agent instances (user_agent_instance_service) | rows per user | create, update, delete, set default | one default; an instance runs everywhere with its own settings | `AgentInstances`, `AgentSettings` |
| agent runs (agents_service, graph_builder, middleware) | attributes of the shared middleware, log rows, the stream and its caller | run, stream, cancel, fall back | each answer is logged once, runs keep apart, cancellation is prompt, runs end | `AgentRuns`, `AgentSettings` |
| IMAP polling (email_tasks, imap_service) | processed UIDs, failure counter, cooldown | poll, callback, mark, forget | no mail left behind, none handled twice, a dead server is left alone | `MailPolling` |
| e-mail sending (email_tasks, email_service, e-mail tools) | tasks, SMTP sessions | send with retries | every further copy is explained by a loss | `EmailSending` |
| accounts (auth_service, security) | users, tokens | register, verify, sign in, reset, change | a replaced password stays replaced | `Accounts` |
| agent memory (agent_memory_service, memory tools) | entries by namespace | save, update, recall, delete, list, purge | what the user has deleted is gone | `AgentMemory` |
| agent snapshots (agent_snapshot_service) | files | record, match, replay | a replay is a whole response to such a request | `SnapshotReplay` |
| vector stores (vector_store_service, qdrant_provider) | collections, caches per process | ensure, ingest, list, delete | a page is the slice asked for | `VectorStore` |
| usage and pricing (usage_logging, cost_tracking, llm/config) | log rows, snapshots of prices | normalise, price, log, synchronise | each token is charged once, at prices on record | `UsagePricing` |
| life cycle (celery_main, async_utils, lifecycle, connection, redis_client) | singletons per process and event loop | start, stop, fork | resources belong to the loop that uses them and are closed | `EventLoops` |
| encryption, PII, parameter policy, chat adapters | none | pure functions on texts and tables | | not modelled, see below |
| observability, configuration, demonstration tools, front end, migrations, deployment | outputs and constants | | | not modelled: nothing reads the state back, or there is none |

They interact through the database and Redis: the routes write rows the tasks read, the tasks enqueue each
other, and the agents read the configuration through the cache. Agent runs call memory, usage logging and the
configuration directly; `AgentRuns` has these calls as its steps, `AgentSettings` the configuration they lead to.

## Batch jobs

### How the code works

`POST /batch` commits a `batch_jobs` row (CREATED), its first event and its items, in three transactions.
`batch_dispatch` (beat, every few seconds, under a Redis lock) enqueues `batch_submit` for CREATED jobs.
`batch_submit` loads the job, calls the provider and commits SUBMITTED with the batch id. `batch_poll` (beat,
under another Redis lock with a TTL of 300 s) loads all SUBMITTED and IN_PROGRESS jobs at once, asks the provider
about one after the other, enqueues `batch_fetch` when a batch is complete and then commits the new status.
`batch_fetch` downloads the results and stores them item by item. `POST /batch/{id}/cancel` writes CANCELLED.
`batch_retry_failed`, run by hand, makes a new job of the failed items of another.

Celery runs with `task_acks_late` and `task_reject_on_worker_lost`, Redis as the broker with a visibility timeout
of one hour. The worker of the deployment is a thread pool of 20 (docker/docker-compose.base.yml:63) that runs all
coroutines on one event loop, so tasks interleave at their awaits, and several workers may be started besides.

### `BatchProviders`

The three adapters as data: how raw provider states are normalised (`OpenAIMapping`, `GeminiMapping`,
`ClaudeMapping`, `Normalize`), which failures each of `submit`, `poll_status` and `fetch_results` calls transient
and which permanent, and which states `fetch_results` accepts. A failure is named by the keyword the adapter looks
for in the error text: `timeout`, `rate_limit`, `network`, `server`, `rejected`, `unknown`. (A text that says "timed
out" contains none of them and is an unknown failure.) The providers themselves are external: a batch starts in its
initial state, moves among the states of its provider and stays in a final one.

### `BatchLifecycle`

| state | in the code |
|---|---|
| `status`, `pbid`, `items`, `logged` | `batch_jobs.status`, `.provider_batch_id`, the statuses among `batch_items`, the STATUS_CHANGE events |
| `queue` | messages of `batch.submit`, `batch.fetch`, `batch.retry_failed` by number of retries |
| `owner`, `raw`, `asked` | the provider: batches, their states, which it was asked to cancel (external) |
| `pollLock` | the Redis key `batch_poll:lock` |
| `proc` | per worker and per request: where it is between two awaits, the unacknowledged message, and its session's copies of the rows it loaded |
| `faults` | number of faults so far |

One action per commit, provider call or broker operation: `CreateJob`, `LogEvent`, `CreateItems`; `Dispatch`;
`SubmitLoad`/`SubmitSkip`, `SubmitAccepted`/`SubmitTransient`/`SubmitPermanent`, `SubmitCommit`, `SubmitMarkFailed`;
`StartPoll`, `PollUnchanged`/`PollChanged`/`PollTransient`/`PollPermanent`, `PollWrite`, `EndPoll`, `LockExpires`;
`CancelLoad`, `CancelWrite`; `FetchLoad`/`FetchSkip`, `FetchCall`, `FetchError`, `FetchStore`; `RetryRequest`,
`RetryCreate`, `RetrySkip`, `RetrySubmit`. The environment: `ProviderStep`, `Crash`, `Abort` (an unexpected
exception), `Redeliver` (visibility timeout). A session keeps the row as first loaded: `expire_on_commit` is off and
every UPDATE is keyed by the primary key alone, so a late writer overwrites whatever happened meanwhile.

Abstractions: an item's content is not modelled and `items` is the set of statuses that occur (the item-wise account
is in `BatchFetch`); a poll that finds no job is left out (it takes and releases the lock); `_mark_failed`, a load and
a write in a session of its own, is one step; the ORM sees no change when a value is assigned that the row already
has. Metrics, logging and request validation are left out. Datetimes are taken as timezone-aware: with SQLite they
come back naive and the subtraction in `batch_poll` that computes a duration raises, which the model does not show.

### `BatchFetch` and `BatchResults`

`BatchFetch` takes `batch_fetch` of one completed job apart: `LoadJob`, `LoadItems`, `Call` (`CallTransient`,
`CallPermanent`), then for each item in order `StoreItem` or `PassItem` and `CountItem`, then `Finish` and
`Announce`; any number of tasks run at once, each with its own copies of counts and items, and any of them may crash
and be redelivered. `BatchResults` is the promise: an item takes its provider result once and keeps it.

### Runs

| run | instance | shows |
|---|---|---|
| `batch_races` | one Claude job, two workers, one request, two batches, one retry, one fault of any kind but a slow poll | no row points at a batch of another job or at none while it is polled; COMPLETED is real; one poller; only stale sessions unsettle a job |
| `batch_one_worker` | one OpenAI job and one retry job, one worker, two faults, no retries left | submitted at most once, timeline complete |
| `batch_live` | one Claude job, one worker; timeout, crash or redelivery | every job is submitted, settles for good, gets its results |
| `fetch` | three items, two workers, two messages, a fault of each kind | counts never ahead of the items and exact at rest unless a task crashed; announcement true; refinement of `BatchResults`; results eventually stored |
| `v_double_submit` | two workers, no fault | **violated**: a job is submitted twice although `batch_submit` is called idempotent |
| `v_lost_fetch` | two workers, no fault | **violated**: the fetch task overtakes the commit of COMPLETED, and the results never arrive |
| `v_cancel_unheard` | one worker, no fault | **violated**: cancellation never reaches the provider |

Bounds. Two batches let a job be submitted twice; two workers are enough for every pair of tasks to overlap, a
third adds nothing the pairwise races do not show; one copy of each message suffices since a second copy is
what `Redeliver` and `Dispatch` bring back once the first is taken; two retries (0 and 1) reach both sides of
`max_retries`. Three items distinguish first, middle and last. Deadlock is not checked: once all jobs are settled and
the provider is done, the system rests (idle polls are left out). Workers and batches are interchangeable, so
`batch_races`, which has no liveness property, uses their permutations as symmetry.

Limits of what holds, found on the way and reflected in the properties' hypotheses:

* a poll that outlives its lock's TTL is joined by a second one, and deletes the lock of the other when it ends, so
  `OnePoller` is checked without slow polls (`batch_one_worker` has them and only one worker);
* a late commit of `batch_submit` or `batch_poll` overwrites a cancellation; `SettledOverwrittenOnlyByStaleSession`
  says exactly that only such late commits do;
* EXPIRED is not among the statuses that cannot be cancelled; Gemini's PAUSED and CANCELLING are reported as failed
  and cancelled while the batch may still go on; a partially succeeded Gemini batch is COMPLETED for `batch_poll`
  and refused by `fetch_results`, so that its results never arrive (the instances have OpenAI and Claude jobs);
* a 429 during `fetch_results` of OpenAI is permanent, unlike docs/providers/openai-batch-provider.md:143 has it;
* a crash between the commit of an item and that of the counts leaves the counts behind for good:
  `CountsFollowItems` says that counts are never ahead of the items, and exact at rest unless there was a crash.

### Fairness

`FairSpec` assumes that a process that has begun a step goes on (`Progress`, weak), that the broker's first-in
first-out queue gives every message its turn when workers become idle (`Deliver`, strong, since workers are
busy in between), that beat keeps sending `batch_dispatch` and `batch_poll` (strong, for the same reason), that
Redis expires the lock, and that a provider finishes a batch (all providers bound a batch's life to 24 h or so).
No fairness is assumed of users, operators or faults.

### Proofs

`BatchLifecycleProofs` proves, for any number of jobs, workers, requests, batches, retries and faults: `TypeCorrect`,
`PolledJobsHaveTheirBatch`, `CompletionIsReal` and `OnlyStaleSessionsUnsettle`, and three theorems whose hypotheses
exclude the faults (or the second worker) that break the property. None of the properties is inductive:
what a session will write is as much part of the argument as what the rows hold. The inductive invariant `IInv` is
`RowsOK` (types), `RowsTrue` (a row that is pollable names a batch of its job, a row that is completed has a
completed batch) and `SessionsOK`: every session is well typed and `Good`, that is, the batch id it carries
belongs to its job, and a COMPLETED it is about to write was seen at the provider. It holds across provider steps because
completed raw states are final (`PendingIsNotCompleted`), and across faults because losing a session loses only
what it carries. The step lemma is split by variable group (`DatabaseStep`, `ProviderOKStep`, `RestStep`,
`TrueStep`, `SessionsStep`).

* `TimelinesAreComplete` (no `crash`, no `abort`): `TimelineComplete` is inductive relative to `IInv`. The commit of a
  status and that of its event are two steps, and in between the writer itself is the witness.
* `LockExcludesPollers` (no `slow_poll`): `LockHeld` says that whoever polls holds the lock, alone. `EndPoll` deletes the
  lock without asking whose it is, which is harmless because nobody else can hold it; the lock's TTL only ends
  the lock of a worker that died.
* `OneWorkerSubmitsOnce` (one worker, no `crash`, `abort` or `lost_reply`): `OneSubmission` says that a job with a batch has left
  CREATED or the worker is about to commit that, and that a worker about to call the provider has a job
  without a batch. `v_double_submit` shows that the hypothesis of one worker is needed.

`BatchFetchProofs` proves `TypeCorrect` (the tallies stay within the items gone through, whence the types),
`FetchImplementsPromise` (the refinement; `Faithful`: an item that is not queued has the status of its result),
`AnnouncementIsTrue` (`Announcing`: items before a task's position are stored, whoever stored them) and `CountsAreRight`. The
counts of concurrent sessions overwrite each other, so the invariant of the last (`Counting`) follows each session's
copy: it never stands for more items than the session has loaded or gone through (`Booked`), and as long as no task was
cut short a count that is behind is owed by a session that will write it again (`Due`). The assumptions
are those named `ConstantsAssumption` and `FetchAssumption`.

Only model-checked: the liveness properties, and the violations.

## Refresh sessions

`login` creates a refresh token and registers it (`RefreshSessionStore.add`: `hset`, then `expire`); `refresh_tokens`
checks that the presented token is registered (`exists`), revokes it, registers a new one and replaces the cookie;
`logout` revokes the presented token and clears the cookie. The store swallows every Redis error; `exists` then
says no, and the refresh is refused.

`RefreshSessions` has one action per Redis call: `Login`, `AddHset`, `AddExpire`, `Answer`; `Refresh`, `Exists`,
`Rotate`; `Logout`, `Revoke`, `Clear`; `Die` (the request is lost), `Evict` (the key's TTL) and `Expire` (the token's
own). `key` is the state of each token's hash, `cookie` what each browser holds, `request` what each request
has read. `retired`, `cut` and `overlap` are history: tokens an undisturbed request was to revoke, tokens whose
registration a fault cut short, browsers that had two requests at once. `introspect` and the access tokens, which are
not registered anywhere, change nothing and are left out.

`sessions` (two browsers, two requests, three tokens, one fault) checks:

* `RetiredStaysDead`: the token of an answered refresh or logout that met no fault is never accepted again;
* `SessionsExpire`: a session without a TTL is being registered or was cut short;
* `CookieIsGood`: a browser that sends one request at a time and meets no fault holds a registered cookie until it expires;
* `OneSessionPerLogin`: a login whose browser does not overlap its requests has one live session.

The last two need their hypotheses: two refreshes with the same cookie both pass `exists` before either revokes, and
one login then has two live sessions; and a request that dies between the revocation and the answer leaves
the browser with a dead cookie. Three tokens let a session be rotated twice or two browsers log in and one refresh.

`RefreshSessionsProofs` proves `TypeCorrect` and the four properties (`RetirementIsFinal`, `SessionsGetTheirTTL`,
`CookiesStayGood`, `RotationKeepsOneSession`) for any number of tokens, browsers, requests and faults. The inductive invariant adds to the two properties that a token being registered is
fresh (`Fresh`: nobody presents it or has it as a cookie, so no one else can touch its key), that tokens are presented
only after they were handed out (`HandedAfter`) and that an undisturbed request past its revocation has a dead old
token (`Dead`). For the other two there is `Calm`: no two browsers have a token in common (`Owned`), a browser
without overlap has one request at a time (`OneByOne`), tokens descend from logins (`Lineage`); the request of an
undisturbed browser presents its cookie, which is good until it is revoked, and then has a good token for the answer
(`RequestsGood`); and of the tokens of one login only one is registered, about to be registered or about to be exchanged
(`OneCurrent`), so that a rotation exchanges the one for the other.

## Configuration cache

`LLMConfigService` caches the admin overrides in one key and each user's resolved configuration in another, both for
`CACHE_TTL_SECONDS`. Writers commit and then delete the keys, with `scan_iter` for those of all users; every
Redis error is swallowed, and one at the first deletion skips the rest.

`ConfigCache` has one action per query and per Redis call: `Read`, `GetAdmin`, `ReadAdmin`, `SetAdmin`, `ReadPrefs`,
`SetResolved`; `ChangeAdmin`, `DeleteAdmin`, `Scan`, `DeleteKeys`; `ChangePref`, `DeleteUser`; `Lapse` (an override
reaches `expires_at`, which invalidates nothing), `Die` and `Tick`. The contents of overrides and preferences are version
numbers: a cached value is stale exactly if its version is not the row's. Time is in ticks, and a request is
taken to be shorter than a tick: `Tick` waits until no request is in flight. `excused` is history: a
read has overlapped a write, an override has lapsed or an invalidation was not carried out.

`MCRedis` puts this module and `MailPolling` below side by side, for they share no key: a behaviour is one of one part,
chosen in `RedisInit`. The run `redis` has 5.4 million states. Its part about configurations (two users, two requests,
TTL of two ticks, two changes of the overrides, one of each user's preferences, one fault) checks:

* `FreshUnlessExcused`: docs/dynamic-configuration.md:25 ("Cache is automatically invalidated") holds while nothing is excused;
* `OverridesWithinTwoTTLs`: whatever happens, a change of the overrides is visible after twice the TTL. Once is not
  enough: a stale key of the overrides can feed a user's key just before it expires, although that document
  speaks of one TTL of 60 seconds;
* `PreferencesWithinTTL`: a user's own change is visible after the TTL, because preferences are not cached by themselves.

A TTL of two ticks is the least that has a key that is neither new nor about to expire. Two requests suffice for
a reader and a writer to overlap at every step.

`ConfigCacheProofs` proves `TypeCorrect` and the three properties for any number of users and requests, any TTL and any
number of changes and faults. The invariant: `AdminAges` and `PrefAges` bound, for each stale key, what is left of its TTL
by the age of the change (a key filled from the database by `TTL`, one filled from another key by `2 * TTL`) and
say how old what a request holds may be; `Orderly` says that while nothing is excused, whatever is stale is about to
be deleted by an invalidation under way.

## IMAP polling

`poll_imap` (celery/tasks/email_tasks.py) runs every minute for each mailbox: it asks `_imap_in_cooldown`, fetches the newest
`limit` unseen mails, drops those whose UID is in the Redis set of processed ones, sends a callback task for each of the
others and records the result in the circuit breaker (`imap:failcount`, `imap:cooldown`). Mails stay unseen on the
server; the callback marks a mail when it has handled it. Nothing keeps two polls of a mailbox from
overlapping.

`MailPolling` has one action per visit of the server, Redis call and `send_task`: `Begin`, `Fetch`, `Filter`, `Dispatch`;
`ClearCount` and `Close` for `_imap_record_success`, `Count` and `Open` for `_imap_record_failure`; `ServerFails` (with
`_is_imap_retryable_error`: a transient failure is counted, any other fails the task), `Broken` (any other exception), `PollDies`;
`CooldownExpires` and `CountExpires` for the TTLs of the breaker's keys; `Take`, `Mark` and `FailCallback` for the callback,
`Forget` for `clear_processed_uids` and the TTL of the processed UIDs; `Arrive` and `See` for the mailbox. A mail is its
UID, and UIDs grow. The counter is kept up to the threshold, beyond which the code does not tell values apart.
`CountExpires` takes the cooldown to be shorter than the five minutes of the counter, as its default is.

Histories: `repeatable` (mails found unmarked by a poll while their callback waited or ran, whose callback failed or whose
mark was forgotten), `mixed` (results of overlapping polls were recorded, or a fault hit the recording), `lapsed` (a
cooldown ran out and no success came since), and in each poll `owes`, the window at the moment it looked.

The part of `redis` about polling (two polls at once, a window of one mail, a threshold of two, two mails, failures of the
server without a bound and one fault of any other kind) checks:

* `HandledOnce`: a mail is handled once unless it is `repeatable`. The overlap is real: `get_processed_uids` is
  one read, and the mark comes only when a callback has finished;
* `PollCatchesUp`: when a poll without a fault comes to record its success, each mail of the window it saw waits for its callback, is
  being handled, is marked or is `repeatable`;
* `BreakerHolds`: at the threshold the cooldown is open, about to be opened or has run out, unless the results of polls mixed;
* `HealthyIsClosed`: a clear counter has no cooldown beside it, unless the results mixed.

The window of one and two mails are enough for a mail to be pushed out of the window. It is then not found
again, since the newer one stays unseen although it was handled: `PollCatchesUp` therefore speaks of the window.
Two polls are enough for each recorded result to fall between the two steps of another. There is no
fairness and no liveness property: the state space leaves no room for the check.

`MailPollingProofs` proves `TypeCorrect` and the four properties for any number of polls, mails and faults and any
limit and threshold. The invariant adds `Tracked` (a mail that was handled and is not `repeatable` is marked and has no callback
waiting or running, and no poll about to send one), `Breaker` (both properties, with the polls that are between the two
steps), `CatchesUp` (what a poll still owes at each of its places) and `Emptied` (polls past `Dispatch` have no mails left).

Left out: the gauge of the last success, which nothing reads back; the parsing of messages; `poll_all_imap`, which only
starts polls; the folder operations of `ImapService`, which keep no state.

## Agent runs

`AgentService.arun_agent_steps` streams a LangGraph graph. The graph runs one node at a time: `before_agent` of the
middleware, then rounds of the model node, `after_model` and the tools, then `after_agent`. Around the model call are
`MemoryMiddleware` (which puts memories into the prompt and, if its handler fails, calls it again without them), the
model fallbacks and, innermost, `CostTrackingMiddleware`, which writes the usage log. These objects belong to the
agent and not to the run, and keep attributes between their hooks (`_cached_memory_context`, `_ctx`). With an Agent Server the
same graph is one compiled object for all requests, and the backend only reads its events (`stream_remote`, `run_remote`).

| state of `AgentRuns` | in the code |
|---|---|
| `served` | whether the graph is the Agent Server's |
| `run` | per run: the node it is in, the model in use, whether the memory middleware is in its second call, whose memories are in the prompt, what the caller has read, asked and stopped |
| `ctx`, `cached` | `CostTrackingMiddleware._ctx` and `MemoryMiddleware._cached_memory_context`: the run they come from |
| `logs`, `usage` | rows of `llm_request_logs` per run; the runs whose tokens were counted in a run's state |
| `faults`, `lossy`, `mixed` | bound on failures of the database and of the server's API; history for the excuses |

Actions: `Begin`, `Recall`, `EnterModel`/`RecursionLimit`, `StartCall`/`Interrupt`, `Token`, `Fail`, `Complete`,
`Persist` (inside the model node), `AfterModel`, `Tools`, `Analyse`; of the caller `Consume`, `DrainTimeout`,
`ConsumeRemote`; of the user `Request`. A run of a local graph goes on when its caller has read the event it sent, so a
cancellation is noticed between nodes or tokens; the stream is then drained, and a callback (`on_chat_model_start`,
`on_llm_new_token`) interrupts calls that would begin. The runs of one `AgentService` follow one another; the server's
overlap at every step.

`agents` (two runs, one fallback, two model nodes locally and one on the server, an analysis of four calls, one
fault; 1.8 million states) checks:

* `AnswersAreLogged`: each answer of a model is in the log once, however the run is cancelled. Excused are runs that
  the database failed or that were killed between the answer and its row, and runs that met another one's `_ctx`;
* `RunsAreIsolated`: the runs of an `AgentService` see their own memories only, and count their own tokens, except after a
  log that failed while `_ctx` still named the answer of a run killed before `after_model`;
* `CancelIsPrompt`: after a request to cancel a local run makes at most the calls of the node it is in, each model twice
  because of the second call of the memory middleware, or the analysis, and at most one round of tools;
* `RunsEnd`: every run that has begun ends.

`v_late_call` (one local run, one fallback, no fault) shows that `CancelIsPrompt` is as much as the code gives:
`NoCallAfterCancel`, that no model or tool call begins once the user has asked to cancel, is violated. It is what
docs/agents-service.md:173-175 ("evaluated after streaming chunks and before model or tool calls"),
agents/middleware/model_fallback.py:38-40 ("no new paid model call begins after cancellation was requested") and
agents_service.py:423 say. `set_cancel_check`, which would give the callback to the middleware, has no caller, so
`cancel_check` stays None in every middleware, and the request is only noticed with the next event of the stream.

Two runs are the least that can meet, one fallback reaches both sides of the chain, and two model nodes give a round
with tools and one behind it. `RunsEnd` assumes weak fairness of the graph's next step and of the caller of
a local run: a coroutine that can go on does, providers' clients have timeouts, and `async for` reads what is sent. Nothing is
assumed of users, of `Token`, `DrainTimeout` or of the caller of a run on the server. Deadlock is not checked: runs end.

`AgentRunsProofs` proves `TypeCorrect`, `AnswersLogged`, `RunsIsolated` and `CancelPrompt` for any number of runs,
fallbacks, steps and faults (`AgentRunsAssumption`: these are naturals, the server's limit is at most the local one, and `None`
is no run). The three properties are not inductive. `IInv` adds `Alone`: two active runs are on the server and have met,
so a step of one run cannot disturb what is claimed of another that has not met it (`StepInv`, used for every action); for each
run, how rows follow answers and answers follow steps (`CountsOK`), what `_ctx` is when `after_model` reads it (`CtxOK`),
whose memories the middleware may hold (`CachedOK`), and, for promptness, that the calls made since the request and those
the node may still begin are together at most two per model (`LateOK`, `Remaining`): each call started uses one
up, no failure or second handler call adds any, and the event at the end of the node stops the run. `RunsEnd` is a
liveness property and stays with TLC.

`RunsAreIsolated` is about an `AgentService`. On the server it does not hold: overlapping runs share both attributes, and
a request that turns the session context off returns from `before_agent` before the cached memories are reset
(agents/middleware/memory.py:275-288), so that the memories of another user's earlier run can be put into its prompt, which
agents/middleware/_runtime_context.py:4-6 sets out to prevent. Other divergences met here: docs/agents-service.md:82 says that the repeated
tool error guard is applied automatically, and nothing adds it; its streak counts over the whole thread
(repeated_tool_error_guard.py:63-127); a remote run can only be cancelled once its first event has named it.

## The services around the agents

Ten small modules, each a part of its own with its own variables, which do not share state in one operation. `MCServices`
puts them side by side: a behaviour is one of one part, chosen in `Init`, so that one run checks all of them with one
instance and one symmetry. `services` has 1.1 million states. Its parts say for each property what excuses it; each
excuse is a way in which the code really falls short.

| module | code | state | actions |
|---|---|---|---|
| `Accounts` | services/auth_service.py, routes/auth.py | user rows, mailed tokens, access tokens, requests between load and commit | `Register`, `CreateUser`, `SendVerificationEmail`, `SignIn`, `ForgotPassword`, `RequestVerificationEmail`, `ResetPassword`, `VerifyEmail`, `ChangePassword`, `UpdateProfile`, `SetActive`, `CommitCall`, expiry |
| `AgentInstances` | user_agent_instance_service.py, routes/agent_instances.py | instance rows with subagents, transactions with the rows they saw and hold | `CreateInstance`, `UpdateInstance`, `DeleteInstance`, `BeginClear`, `ClearUserDefaults`, `CommitRequest`, `Rollback` |
| `AgentMemory` | agent_memory_service.py, tools/memory_tools.py | entries of the store by namespace and key, a listing, a bulk deletion and a purge under way | `SaveMemory`, `UpdateMemory`, `DeleteMemory`, `BeginBulkDelete`, `BulkDelete`, `ListMemories`, `DeleteEntry`, `BeginPurge`, `PurgeSearch`, `PurgeDelete` |
| `AgentSettings` | agents_service.py, graph_builder.py, middleware/instance_config.py, subagent_config.py | the layers of settings, the lists of subagents, what was built | `RunHere`, `RunThere`, `RunBundle` |
| `ConfigLayers` | llm_config_service.py, routes/config.py | override rows, allowlist, preferences | `CreateOverride`, `UpdateOverride`, `DeleteOverride`, `AllowOverride`, `SetPreference`, `DeletePreference` |
| `EmailSending` | email_tasks.py, email_service.py, tools/email_tools.py | where each mail is, copies per recipient | `SendEmail`, `SendWithTool`, `RunTask`, `FailsEarly`, `LogIn`, `SendMessage`, `Quit`, `AnswerLost`, `WorkerDies` |
| `EventLoops` | database/sql/connection.py, core/redis_client.py, core/lifecycle.py, celery_main.py, async_utils.py, the MCP managers | engine, session maker and clients of a process, pools by loop, jobs | start and shutdown of each kind of process, `TakeEngine`, `MakeMaker`, `OpenSession`, `Execute`, `GetRedis`, `GetTools`, `GetToolsForProfile`, `EndJob` |
| `UsagePricing` | llm/usage_logging.py, cost_tracking.py, llm/config.py | snapshots of prices, open inserts, the cache of ids, log rows | `Finalize`, `SelectSnapshot`, `InsertSnapshot`, `CommitSnapshot`, `WriteRow`, `SyncNext`, `SyncEnd` |
| `SnapshotReplay` | agent_snapshot_service.py, agents_service.py | snapshot files, runs that stream, write or replay | `StartRun`, `Replay`, `Chunk`, `EndRun`, `LoseRun`, `WriteSnapshot` |
| `VectorStore` | vector_store_service.py, qdrant_provider.py, vector_tasks.py, routes/vector.py | collections, the dimension and retrievers each process knows, requests between two calls of Qdrant | `Ingest`, `Ensure`, `GetRetriever`, `LookFor`, `CreateCollection`, `Upsert`, `DeleteCollection`, `DropCollection`, `ListDocuments`, `Scroll`, `Listed` |

What the run checks, and where it ends:

* `PasswordsStayReplaced` (two accounts, two requests, two passwords, the template's settings and strict ones): a replaced
  password never comes back, since the ORM writes only the columns a request changed. `AccountsProofs` proves it
  (`ReplacedForGood`) for any accounts, addresses and requests, from `AccountsAssumption` (bounds are naturals, `Nobody` is neither
  account nor row). The invariant says that rows, tokens and requests refer to registered accounts and to passwords
  already numbered (`CallsOK`, `RowsOK`, `TokensOK`), and (`FreshOK`) that a password about to be stored is neither in force
  nor replaced nor about to be stored by another request; `MergedRow` is what the commit writes.
* `OneDefault` (two instances, two requests at a time, four in all): one default per user unless two requests that set it
  overlapped, and then only until one sets it alone. The UPDATE of `_clear_user_defaults` cannot see the row that the other
  transaction is about to make the default, no constraint forbids the second default, and `get_default_instance`
  (`scalar_one_or_none`) then raises. An empty list cannot clear the subagents (line 331), and the route's docstring speaks of
  a soft delete where the row is deleted.
* `ForgottenIsGone` (a hybrid and a shared agent, two ids, two saves, batches of one): what the user deletes from a listing, or had
  when a purge began that ran to its end, is recalled by no agent again, whatever agents save meanwhile and whichever single
  deletions fail. A purge may stop after any batch (`_MAX_PURGE_BATCHES`, line 1106, is some number), and then promises
  nothing. The agents' own tools promise less: `delete_memory` without a category deletes in the semantic namespace
  only, whatever its docstring (line 714) says; an update with another category makes a second entry; `delete_user_memories`
  deletes at most as many entries as one search returns. A `dedicated` agent's entries lie beneath the namespaces of
  agents that share theirs (lines 117-137), so a search by prefix shows them to those.
* `PageIsExact` (two processes, one collection, three documents, scrolls of two, three requests): a page scrolled together from
  batches is the slice that the in-memory provider gives, if nobody writes meanwhile, and has no document twice even then.
  Documents are numbered in the order in which Qdrant scrolls, which is its own whatever `order_by` says; a filter makes
  a smaller collection of the one it is applied to, so `ListDocuments` has none; the total is a count of its own that
  nothing ties to the page.
  Two processes that create a collection at once make one request fail; a probe that failed leaves a collection with the
  configured dimension, which then refuses every document.
* `CopiesAreExplained` (one mail, three recipients, three retries, two losses): each copy beyond the first has its lost answer or
  dead worker; success means that somebody got the mail. That some recipients were refused, which `send_message` returns,
  is not looked at.
* `LayersAreHonoured` (two models, two override rows, two preferences): later layers win, and in a layer the more specific
  choice, in whatever order rows are read; a model that the admin has disabled is nobody's default, unless a global row
  `models`, which replaces the list of models, is in force: `get_resolved_config` (lines 546-554) then does not look at
  `disabled_models`, and a disabled model that is named there stays on offer and can be a default. It does not hold for `max_tokens` of one model (`get_effective_model_params` ignores
  the preference, and lets it suppress the general one), for defaults where two preferences name one parameter, and for
  two global rows of one key: their NULL `scope_key` escapes the unique constraint, and the lowest priority wins, where the
  column says "higher wins" (database/sql/models/llm_config.py:90). A bulk update that is answered with 400 has committed its valid part.
* `ServerRunsTheInstance` and `HierarchyIsBuilt` (three models, one of which cannot be created, three agents, two
  subagents; every combination of the layers' models, of memory switches and prompts, and of lists of subagents): an
  instance runs on the server with what it has in the backend, and both builders of the hierarchy end and reach the same
  agents. The constant `Settings` is the set of layers and lists that are tried: `MCServices` gives those combinations, and the
  theorems are about any. Not so: an empty prompt; recall that only the instance turns on; the memory switches of a run
  that `AgentService` sends (only the bundle tells them); memory switches that only the admin or the user's preferences set,
  which nobody tells the server; and subagents (`SubagentsExcused`): the list of subagents that the admin or the user
  gives the agent; the model that they give to a subagent's base agent, which the backend applies (`BasePrimary`,
  lines 2883-2888) and the metadata leaves out (lines 1613, 2929), unless the subagent has a model of its own; an agent
  that lists itself; a subagent that the agent does not list or whose model cannot be created; two subagents with the
  same base agent, since `subagent_configs` is keyed by it (line 1621). Model parameters, memory tools, allowed tools, MCP profile and response format are not forwarded at all. In the
  backend a nested deep subagent of an instance always fails: it is called with its own id in `_visited_agents` (line 2873),
  which it takes for recursion (lines 2827-2835); so nested instances are left out of the model.
* `SessionsStayOnTheirLoop` and `ClosedAtShutdown` (two jobs, four loops, four engines, every kind of process). A session
  takes a connection at the first statement of each transaction and gives it back to its engine's pool at the end
  (`Execute`, any number of times), also when `get_engine` has forgotten that engine for another loop in between. No session
  has a pool with connections of another loop, unless two loops were in `get_session_maker` at once (two threads that see
  each other's globals) or a worker goes on with what it inherited. A shutdown is three steps, database, MCP and Redis, and
  `worker_shutdown` may time out before each ("cut", of which nothing is promised). When all three are done no client is
  cached, and each pool that keeps connections is of one of three kinds (`Reachable`): its disposal failed, it was
  inherited (`dispose_current_engine` does not forget the session maker), or `get_engine` forgot its engine while a job was
  using it. The last is a leak: `dispose(close=False)` (connection.py:116) gives that engine a new pool, its sessions fill
  it, and `close_database` closes only the engine of the day. Races in `get_session_maker` add no other kind.
* `LogsArePriced` (two loggers, three tariffs, four usages, the synchronisation at the start): each token is charged once, at
  its own price or that of the dimension containing it, unless the tokens are themselves estimated or the call is
  `Mischarged`, and the row's snapshot is committed and has its prices. `TrueCost` is the reference, token by token.
  `Mischarged` says where the code charges otherwise: tokens read from a cache that has a price, reported under a name
  that is not an alias of it; and audio tokens with a price, for which `_resolve_parent_dimension` (usage_logging.py:76-91) finds no
  parent, so that within the input or output count they are charged twice, and of a count in each the second replaces the
  first (cost_tracking.py:873-883). The flag `cost_estimated` is no excuse here, and is no use: `_extract_usage_fragment` puts
  `total_tokens` into every usage, `compute_cost` (lines 172-184) takes it for a dimension without a price, and so the flag
  is set on every row with tokens, although the column says "True if some tokens were unpriced"
  (database/sql/models/llm_request_log.py:58). `compute_hash` leaves tiers and `billed_separately` out, so that two tariffs that
  differ in these alone share a snapshot; a rollback of `sync_pricing_snapshots` (line 629) discards the snapshots added
  before it, which it still counts.
* `ReplaysAreFaithful` (two agents, two prompts, four texts, two runs, two files): a replay is the whole response of a run that ended
  by itself, to the same request or, in the semantic mode, a similar one. A torn file is skipped, a cancelled run leaves
  none. A context with an object of an unknown kind is serialised with its address: such a request may find any of
  the snapshots that are otherwise the same, or none (`Exact`). The semantic mode compares neither prompt nor response format; the fingerprint leaves out tools and middleware.

Two requests, jobs, loggers or runs at a time are enough for every pair of steps to interleave; two ids and two names let
constraints refuse. Ids, names and requests are interchangeable, and the properties do not tell them apart, so their
permutations are the symmetry. No liveness is checked here, and parts may stop when their bounds are used up, so
deadlock is not checked.

### Proofs

`ServicesProofs` proves the properties of the other nine parts for every value of their constants. Bounds such as `MaxSaves`
or `MaxEngines` are any naturals; the assumptions otherwise say that "nothing" values are none of the values they stand
beside, that agents, subagents and override rows are finitely many, and that prices, usages and settings have their types.

| theorem | property | what the inductive invariant adds |
|---|---|---|
| `DefaultIsUnique` | `OneDefault` | `InstancesIInv`: a request that sets the default and has met no other such request has seen, or already holds, every default there is (`AloneOK`); one that does not set it cannot turn a row into a default (`RequestOK`) |
| `ForgottenStaysGone` | `ForgottenIsGone` | `MemoryIInv`: revisions are numbered by the saves, and one revision is not in two places (`Numbered`), so a deletion by place removes it; what a purge found is, if it is still there, in a category the purge has yet to finish (`PurgeIsRight`) |
| `ReplaysFit` | `ReplaysAreFaithful` | `ReplayIInv`: files and writes under way hold whole responses |
| `CopiesHaveReasons` | `CopiesAreExplained` | `EmailIInv`: only between the acceptance and the end of an attempt may a recipient have one copy more than attempts were repeated (`MailOK`) |
| `LogRowsArePriced` | `LogsArePriced` | `UsageIInv`: a logger carries the row it made at the start and writes it only once its snapshot is committed (`LoggerOK`); the arithmetic is the lemma `CostIsTrue`: `compute_cost` of the normalised usage is the cost token by token, for all prices and counts of a call that is not mischarged; `PartIsCharged` and `AudioIsCharged` say of each extra that what stays in its core count is what has no price of its own |
| `SessionsKeepToTheirLoop`, `ShutdownCloses` | `SessionsStayOnTheirLoop`, `ClosedAtShutdown` | `LoopsIInv`: until two loops race in `get_session_maker`, the maker is the engine's or the orphan's, its pool is of the engine's loop, and a job inside `get_session_maker` is alone there (`Orderly`); and, after races too, the maker, the jobs and the connections are those of the engine, of an abandoned one or of an inherited one (`Accounted`), and the clients are closed one after the other (`ClientsClosed`) |
| `LayersKeepTheirOrder` | `LayersAreHonoured` | `ConfigIInv`: the unique constraint, one row per slot that names a model; the rest are lemmas about the last row by descending priority (`LastIsHighest`) |
| `PagesAreExact` | `PageIsExact` | `VectorIInv`: a page under way is what the documents before the next offset contribute to it (`ScrollOK`), stated with the rank of a document in its collection; `SliceIsPage`, `BatchIsSection` and `PageGrows` say that sections by rank join into the slice |
| `InstanceRunsAsWanted` | `ServerRunsTheInstance` | `SettingsIInv`: what was built is what one of the three ways builds; `SameModels`, `SameSubagents`, `SameSwitches` and `SamePrompt` compare them |
| `HierarchiesAreBuilt` | `HierarchyIsBuilt` | the same invariant; a shortest path to an agent repeats nobody and meets no agent that was visited on the way, so both builders keep it (`ShortestIsBuilt`), and in a tree there is only one path (`TreesAreBuiltAlike`) |

The attempt to prove `ServerRunsTheInstance` for all layers showed the excuse about the admin's and the user's memory
switches, which the earlier instance did not try; `MemoryCases` now has them.

## Proofs and what is left to TLC

Each proof module EXTENDS the module it is about. `BatchLifecycleProofs`, `BatchFetchProofs`, `RefreshSessionsProofs`,
`ConfigCacheProofs`, `MailPollingProofs`, `AgentRunsProofs`, `AccountsProofs` and `ServicesProofs` hold the theorems listed in `PROJECT.json`; the arguments are
described with the parts.

Liveness, anything with ENABLED, and what recursive definitions compute for every input stay with TLC: they are out
of the reach of the installed provers. Every safety property that a passing run checks is stated by a theorem; `OnePoller`,
`AtMostOneBatch` and `TimelineComplete` under the hypotheses on faults and workers under which the runs check them.
The liveness properties (`JobIsSubmitted`, `JobSettles`, `ResultsArrive`, `ResultsAreStored`, `RunsEnd`) and the four violations are
TLC's.

Some hazards are excused by the property that is about them, because the code really meets them: what the property
then says is that nothing else goes wrong. `PROJECT.json` notes this with each such hazard: jobs without items, a death
between a status and its event, polls that outlive their lock, overlapping or faulty refreshes and invalidations, mails
that are found again or pushed out of the window, mixed results of polls, two requests that set the default, two global
rows of one key, subagents the server is not told about, two loops inside `get_session_maker`, and calls that are mischarged.

## Not modelled

* Tool-call limits, switching of models after a tool and the guard against repeated errors (agents/middleware): each acts on the
  messages of one thread inside one run, and LangGraph keeps their state.
* Checkpoints, interrupts for approval and structured responses of agent runs: LangGraph's.
* Payload formats and result parsing of the batch providers, the chat model adapters, think tags, message
  serialisation, prompt texts: conversions of text without state.
* The parameter policy (llm/param_policy.py) and the construction of clients (llm/models.py): tables and glue.
* Encryption, PII detection: functions of texts whose correctness is about strings.
* Similarity search and embeddings: reads and a library.
* The last-success gauge of IMAP polling, metrics, logs, health probes: outputs that nothing reads back.
* Configuration from the environment, demonstration tools, front end, migrations, scripts, deployment.
