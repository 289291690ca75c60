---------------------------- MODULE MailPolling ----------------------------
(***************************************************************************)
(* Polling of one IMAP mailbox (celery/tasks/email_tasks.py): poll_imap    *)
(* over ImapService.fetch_unseen_emails, the processed UIDs and the        *)
(* circuit breaker in Redis, and the callback tasks that handle a mail and *)
(* mark it.  Several polls of the mailbox may run at once; every Redis     *)
(* call, every send_task and every visit of the server is a step.  Mails   *)
(* stay unseen on the server until the user reads them.  A mail is its     *)
(* UID, and UIDs grow.                                                     *)
(***************************************************************************)
EXTENDS Naturals, FiniteSets

CONSTANTS
    Polls,        \* polls of the mailbox that may run at the same time
    Limit,        \* limit: mails fetched in one poll
    Threshold,    \* IMAP_CB_FAIL_THRESHOLD
    MaxMail,      \* bound: mails that arrive
    MaxPollFaults \* bound: failures but those of the server, and marks forgotten

ASSUME MailAssumption ==
    /\ Limit \in Nat \ {0}
    /\ Threshold \in Nat \ {0}
    /\ MaxMail \in Nat
    /\ MaxPollFaults \in Nat

VARIABLES
    arrived,      \* the mails 1..arrived have arrived
    seen,         \* mails the user has read
    processed,    \* the Redis set imap:processed
    queue,        \* mails with a callback task that waits
    handling,     \* mails with a callback task that runs
    handled,      \* how often a callback has handled each mail: 0, 1 or more
    failcount,    \* the key imap:failcount, up to Threshold; 0 if it is not there
    cooldown,     \* whether the key imap:cooldown is there
    poll,         \* what each poll is doing
    pollFaults,   \* how many of those faults there have been
    repeatable,   \* history: mails that may be handled again, see HandledOnce
    mixed,        \* history: a success and a failure were recorded by polls that
                  \* overlapped, or a fault hit the breaker
    lapsed        \* history: a cooldown ran out, and no success was recorded since

server == <<arrived, seen>>
callbacks == <<queue, handling, handled>>
breaker == <<failcount, cooldown>>
history == <<mixed, lapsed>>
pollVars == <<server, processed, callbacks, breaker, poll, pollFaults, repeatable, history>>

Mail == 1..MaxMail
Places == {"idle", "fetch", "filter", "dispatch", "clear", "close", "count", "open"}

\* A poll: its place, the mails it has fetched and not yet dealt with, and the mails
\* that were in the window when it looked (history; none after a fault).
Poll == [pc : Places, mails : SUBSET Mail, owes : SUBSET Mail]
PollIdle == [pc |-> "idle", mails |-> {}, owes |-> {}]

PollAt(p, pc) == poll[p].pc = pc
PollBecome(p, pc, mails, owes) ==
    poll' = [poll EXCEPT ![p] = [pc |-> pc, mails |-> mails, owes |-> owes]]
PollGoto(p, pc) == PollBecome(p, pc, {}, {})
PollDone(p) == PollGoto(p, "idle")

\* The mails left to dispatch; when there are none the poll has succeeded.
Left(p, mails, owes) == PollBecome(p, IF mails = {} THEN "clear" ELSE "dispatch", mails, owes)

PollFault == pollFaults < MaxPollFaults /\ pollFaults' = pollFaults + 1

\* Another poll is recording its result.
Recording(p) == \E q \in Polls \ {p} : poll[q].pc \in {"clear", "close", "count", "open"}

\* The newest unseen mails.
Unseen == (1..arrived) \ seen
Window == {u \in Unseen : Cardinality({v \in Unseen : v > u}) < Limit}

PollInit ==
    /\ arrived = 0
    /\ seen = {}
    /\ processed = {}
    /\ queue = {}
    /\ handling = {}
    /\ handled = [u \in Mail |-> 0]
    /\ failcount = 0
    /\ cooldown = FALSE
    /\ poll = [p \in Polls |-> PollIdle]
    /\ pollFaults = 0
    /\ repeatable = {}
    /\ mixed = FALSE
    /\ lapsed = FALSE

-----------------------------------------------------------------------------
(* poll_imap.                                                              *)

\* _imap_in_cooldown says no; an error counts as no.
NotInCooldown == IF cooldown THEN PollFault ELSE UNCHANGED pollFaults

\* A poll starts.
Begin(p) ==
    /\ PollAt(p, "idle")
    /\ NotInCooldown
    /\ PollGoto(p, "fetch")
    /\ UNCHANGED <<server, processed, callbacks, breaker, repeatable, history>>

\* Mutant of Fetch: the oldest unseen mails.
FetchOldest(p) ==
    /\ PollAt(p, "fetch")
    /\ PollBecome(p, "filter", {u \in Unseen : Cardinality({v \in Unseen : v < u}) < Limit}, Window)
    /\ UNCHANGED <<server, processed, callbacks, breaker, pollFaults, repeatable, history>>

\* fetch_unseen_emails; a mail that cannot be fetched or parsed is left out.
Fetch(p) ==
    /\ PollAt(p, "fetch")
    /\ \/ PollBecome(p, "filter", Window, Window) /\ UNCHANGED pollFaults
       \/ PollFault /\ \E u \in Window : PollBecome(p, "filter", Window \ {u}, {})
    /\ UNCHANGED <<server, processed, callbacks, breaker, repeatable, history>>

\* How a visit of the server fails.  ImapConnection.connect reports every error of the
\* protocol while it logs in as failed authentication, a lost connection, too.
ServerErrors == {"no_connection", "timeout", "lost_after_login",
                 "lost_during_login", "credentials", "no_password"}

\* _is_imap_retryable_error: whatever mentions authentication or configuration is not.
Retryable(e) == e \notin {"lost_during_login", "credentials", "no_password"}

\* The visit fails: a failure to be counted, or one that fails the task.
ServerFails(p) ==
    /\ PollAt(p, "fetch")
    /\ \E e \in ServerErrors : IF Retryable(e) THEN PollGoto(p, "count") ELSE PollDone(p)
    /\ UNCHANGED <<server, processed, callbacks, breaker, pollFaults, repeatable, history>>

\* Any other exception fails the task and records nothing.
Broken(p) ==
    /\ poll[p].pc \in {"fetch", "filter"}
    /\ PollFault
    /\ PollDone(p)
    /\ UNCHANGED <<server, processed, callbacks, breaker, repeatable, history>>

\* Mutant of Filter: without Redis, nothing has been processed.
FilterOpen(p) ==
    /\ PollAt(p, "filter")
    /\ \/ Left(p, poll[p].mails \ processed, poll[p].owes) /\ UNCHANGED pollFaults
       \/ PollFault /\ Left(p, poll[p].mails, {})
    /\ UNCHANGED <<server, processed, callbacks, breaker, repeatable, history>>

\* get_processed_uids.  An error that reads "connection refused" or "timed out" is
\* taken for an outage of the mail server.
Filter(p) ==
    /\ PollAt(p, "filter")
    /\ \/ Left(p, poll[p].mails \ processed, poll[p].owes) /\ UNCHANGED pollFaults
       \/ PollFault /\ PollGoto(p, "count")
    /\ UNCHANGED <<server, processed, callbacks, breaker, repeatable, history>>

\* send_task for the first mail; if it fails the mail is left to the next poll.
Dispatch(p) ==
    \E u \in poll[p].mails :
        /\ PollAt(p, "dispatch")
        /\ \A v \in poll[p].mails : u <= v
        /\ \/ /\ queue' = queue \union {u}
              /\ Left(p, poll[p].mails \ {u}, poll[p].owes)
              /\ repeatable' = repeatable \union ({u} \intersect (queue \union handling))
              /\ UNCHANGED pollFaults
           \/ /\ PollFault
              /\ Left(p, poll[p].mails \ {u}, {})
              /\ UNCHANGED <<queue, repeatable>>
        /\ UNCHANGED <<server, processed, handling, handled, breaker, history>>

-----------------------------------------------------------------------------
(* The circuit breaker.  An error ends the bookkeeping and is swallowed.   *)

\* _imap_record_success: the counter.
ClearCount(p) ==
    /\ PollAt(p, "clear")
    /\ \/ /\ failcount' = 0
          /\ PollGoto(p, "close")
          /\ mixed' = (mixed \/ Recording(p))
          /\ lapsed' = FALSE
          /\ UNCHANGED pollFaults
       \/ PollFault /\ PollDone(p) /\ mixed' = TRUE /\ UNCHANGED <<failcount, lapsed>>
    /\ UNCHANGED <<server, processed, callbacks, cooldown, repeatable>>

\* Mutant of Close: the cooldown is left to its TTL.
CloseNothing(p) ==
    /\ PollAt(p, "close")
    /\ PollDone(p)
    /\ UNCHANGED <<server, processed, callbacks, breaker, pollFaults, repeatable, history>>

\* _imap_record_success: the cooldown.
Close(p) ==
    /\ PollAt(p, "close")
    /\ \/ /\ cooldown' = FALSE
          /\ mixed' = (mixed \/ Recording(p))
          /\ UNCHANGED pollFaults
       \/ PollFault /\ mixed' = TRUE /\ UNCHANGED cooldown
    /\ PollDone(p)
    /\ UNCHANGED <<server, processed, callbacks, failcount, repeatable, lapsed>>

\* Mutant of Count: one failure more.
CountMore(p) ==
    /\ PollAt(p, "count")
    /\ failcount' = IF failcount < Threshold THEN failcount + 1 ELSE failcount
    /\ IF failcount = Threshold THEN PollGoto(p, "open") ELSE PollDone(p)
    /\ mixed' = (mixed \/ Recording(p))
    /\ UNCHANGED <<server, processed, callbacks, cooldown, pollFaults, repeatable, lapsed>>

\* _imap_record_failure: the counter.
Count(p) ==
    /\ PollAt(p, "count")
    /\ \/ /\ failcount' = IF failcount < Threshold THEN failcount + 1 ELSE failcount
          /\ IF failcount' = Threshold THEN PollGoto(p, "open") ELSE PollDone(p)
          /\ mixed' = (mixed \/ Recording(p))
          /\ UNCHANGED pollFaults
       \/ PollFault /\ PollDone(p) /\ mixed' = TRUE /\ UNCHANGED failcount
    /\ UNCHANGED <<server, processed, callbacks, cooldown, repeatable, lapsed>>

\* _imap_record_failure: the cooldown.
Open(p) ==
    /\ PollAt(p, "open")
    /\ \/ /\ cooldown' = TRUE
          /\ lapsed' = FALSE
          /\ mixed' = (mixed \/ Recording(p))
          /\ UNCHANGED pollFaults
       \/ PollFault /\ mixed' = TRUE /\ UNCHANGED <<cooldown, lapsed>>
    /\ PollDone(p)
    /\ UNCHANGED <<server, processed, callbacks, failcount, repeatable>>

\* The worker is killed.
PollDies(p) ==
    /\ ~PollAt(p, "idle")
    /\ PollFault
    /\ PollDone(p)
    /\ mixed' = (mixed \/ poll[p].pc \in {"clear", "close", "count", "open"})
    /\ UNCHANGED <<server, processed, callbacks, breaker, repeatable, lapsed>>

\* Redis drops the cooldown after IMAP_CB_COOLDOWN_SECONDS.
CooldownExpires ==
    /\ cooldown
    /\ cooldown' = FALSE
    /\ lapsed' = TRUE
    /\ UNCHANGED <<server, processed, callbacks, failcount, poll, pollFaults, repeatable, mixed>>

\* Redis drops the counter five minutes after the last failure, when the cooldown is
\* over, too (IMAP_CB_COOLDOWN_SECONDS is taken to be less than that).
CountExpires ==
    /\ failcount > 0
    /\ ~cooldown
    /\ \A p \in Polls : ~PollAt(p, "open")
    /\ failcount' = 0
    /\ UNCHANGED <<server, processed, callbacks, cooldown, poll, pollFaults, repeatable, history>>

-----------------------------------------------------------------------------
(* The callbacks and the marks.                                            *)

\* A callback task starts.
Take(u) ==
    /\ u \in queue
    /\ u \notin handling
    /\ queue' = queue \ {u}
    /\ handling' = handling \union {u}
    /\ UNCHANGED <<server, processed, handled, breaker, poll, pollFaults, repeatable, history>>

\* It handles the mail and marks it with mark_email_as_processed.
Mark(u) ==
    /\ u \in handling
    /\ handling' = handling \ {u}
    /\ handled' = [handled EXCEPT ![u] = IF @ = 0 THEN 1 ELSE 2]
    /\ processed' = processed \union {u}
    /\ repeatable' = IF \E p \in Polls : PollAt(p, "dispatch") /\ u \in poll[p].mails
                    THEN repeatable \union {u}
                    ELSE repeatable
    /\ UNCHANGED <<server, queue, breaker, poll, pollFaults, history>>

\* It fails, possibly after it has handled the mail.
FailCallback(u) ==
    /\ u \in handling
    /\ PollFault
    /\ handling' = handling \ {u}
    /\ \/ handled' = [handled EXCEPT ![u] = IF @ = 0 THEN 1 ELSE 2]
       \/ UNCHANGED handled
    /\ repeatable' = repeatable \union {u}
    /\ UNCHANGED <<server, processed, queue, breaker, poll, history>>

\* clear_processed_uids, or Redis drops the set processed_ttl_seconds after the last
\* mark.
Forget(us) ==
    /\ us # {}
    /\ PollFault
    /\ processed' = processed \ us
    /\ repeatable' = repeatable \union us
    /\ UNCHANGED <<server, callbacks, breaker, poll, history>>

\* A mail arrives.
Arrive ==
    /\ arrived < MaxMail
    /\ arrived' = arrived + 1
    /\ UNCHANGED <<seen, processed, callbacks, breaker, poll, pollFaults, repeatable, history>>

\* The user reads a mail.
See(u) ==
    /\ u \in Unseen
    /\ seen' = seen \union {u}
    /\ UNCHANGED <<arrived, processed, callbacks, breaker, poll, pollFaults, repeatable, history>>

-----------------------------------------------------------------------------
Progress(p) ==
    \/ Fetch(p) \/ ServerFails(p) \/ Broken(p) \/ Filter(p) \/ Dispatch(p)
    \/ ClearCount(p) \/ Close(p) \/ Count(p) \/ Open(p)

PollNext ==
    \/ \E p \in Polls : Begin(p) \/ Progress(p) \/ PollDies(p)
    \/ \E u \in Mail : Take(u) \/ Mark(u) \/ FailCallback(u) \/ See(u)
    \/ \E us \in {processed} \union {{u} : u \in processed} : Forget(us)
    \/ CooldownExpires \/ CountExpires
    \/ Arrive

PollSpec == PollInit /\ [][PollNext]_pollVars

-----------------------------------------------------------------------------
\* Every variable has its type.
PollTypeOK ==
    /\ arrived \in 0..MaxMail
    /\ seen \subseteq Mail
    /\ processed \subseteq Mail
    /\ queue \subseteq Mail
    /\ handling \subseteq Mail
    /\ handled \in [Mail -> 0..2]
    /\ failcount \in 0..Threshold
    /\ cooldown \in BOOLEAN
    /\ poll \in [Polls -> Poll]
    /\ pollFaults \in 0..MaxPollFaults
    /\ repeatable \subseteq Mail
    /\ mixed \in BOOLEAN
    /\ lapsed \in BOOLEAN

\* The processed UIDs "prevent duplicate callback dispatches": a mail is handled once,
\* unless a poll found it unmarked while its callback was waiting or running, its
\* callback failed, or its mark was forgotten.
HandledOnce == \A u \in Mail : handled[u] > 1 => u \in repeatable

\* A server that keeps failing is left alone: once the counter has reached the
\* threshold the cooldown is open, or about to be opened or cleared, or it has run
\* out, unless polls with different results overlapped.
BreakerHolds ==
    failcount = Threshold /\ ~mixed =>
        cooldown \/ lapsed \/ \E p \in Polls : PollAt(p, "open")

\* A healthy poll clears the breaker: nothing keeps the next poll off a mailbox whose
\* counter is clear and whose polls are over.
HealthyIsClosed ==
    cooldown /\ failcount = 0 /\ ~mixed => \E p \in Polls : PollAt(p, "close")

\* A poll that goes well catches up: every mail that was among the newest unseen ones
\* when it looked waits for its callback, is being handled or is marked, unless its
\* callback failed or its mark was forgotten since.  (A mail that has been pushed out
\* of that window is not found again: the newer ones stay unseen, too.)
PollCatchesUp ==
    \A p \in Polls : PollAt(p, "clear") =>
        poll[p].owes \subseteq queue \union handling \union processed \union repeatable
=============================================================================
