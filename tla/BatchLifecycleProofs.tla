----------------------- MODULE BatchLifecycleProofs -----------------------
(***************************************************************************)
(* Theorems about BatchLifecycle, for any number of jobs, workers, request *)
(* handlers, batches, retries and faults.                                  *)
(***************************************************************************)
EXTENDS BatchLifecycle, FiniteSetTheorems, TLAPS

-----------------------------------------------------------------------------
(* The providers.                                                          *)

\* A batch that is still moving is never reported as completed.
LEMMA PendingIsNotCompleted ==
    ASSUME NEW p \in Providers, NEW r \in Pending(p)
    PROVE  Normalize(p, r) # "completed"
<1>1. CASE p = "openai"
  BY <1>1 DEF Pending, Normalize, Mapped, StatusMapping, OpenAIMapping
<1>2. CASE p = "gemini"
  BY <1>2 DEF Pending, Normalize, Mapped, StatusMapping, GeminiMapping
<1>3. CASE p = "claude"
  BY <1>3 DEF Pending, Normalize, Mapped, StatusMapping, ClaudeMapping
<1>4. QED
  BY <1>1, <1>2, <1>3 DEF Providers

\* A batch starts in a state in which it is still moving.
LEMMA InitialIsPending ==
    ASSUME NEW p \in Providers
    PROVE  InitialRaw(p) \in Pending(p) /\ InitialRaw(p) \in RawStates(p)
BY DEF Providers, InitialRaw, Pending, RawStates

-----------------------------------------------------------------------------
(* The inductive invariant.                                                *)

\* The types of everything but proc.
RowsOK ==
    /\ status \in [Jobs -> RowStatus]
    /\ pbid \in [Jobs -> Batches \union {NoBatch}]
    /\ items \in [Jobs -> SUBSET ItemStatus]
    /\ logged \in [Jobs -> SUBSET RowStatus]
    /\ queue \in [Msg -> Nat]
    /\ owner \in [Batches -> Jobs \union {NoJob}]
    /\ \A b \in Batches : raw[b] \in IF owner[b] = NoJob THEN {"none"}
                                     ELSE RawStates(Provider[owner[b]])
    /\ DOMAIN raw = Batches
    /\ asked \in SUBSET (Batches \union {NoBatch})
    /\ pollLock \in BOOLEAN
    /\ faults \in Nat

Mine(b, j, own) == b \in Batches /\ own[b] = j

\* Some batch of job j is complete at its provider.
Done(j, own, rw) == \E b \in Batches : own[b] = j /\ Normalize(Provider[j], rw[b]) = "completed"

\* What a session's copies are good for at each step: the batch about to be
\* committed was created for the job; the jobs a poll has left were pollable when
\* loaded and have had a batch ever since; a completion about to be written is
\* real; whoever is about to write a status saw one that was not settled.
Good(s, pb, own, rw) ==
    /\ s.pc \notin {"idle", "poll"} => s.job \in Jobs
    /\ s.pc = "submit_commit" => Mine(s.bid[s.job], s.job, own)
    /\ \A j \in s.todo : Mine(s.bid[j], j, own) /\ pb[j] \in Batches /\ s.seen[j] \in Pollable
    /\ s.pc = "poll_write" => /\ pb[s.job] \in Batches
                              /\ s.seen[s.job] \in Pollable
                              /\ s.fresh = "completed" => Done(s.job, own, rw)
    /\ s.pc \in {"submit_call", "submit_commit", "submit_failed"} => s.seen[s.job] = "created"
    /\ s.pc = "cancel" => s.seen[s.job] \in RowStatus \ Settled

RowsTrue ==
    /\ PollableHasBatch
    /\ CompletedIsReal
    /\ \A j \in Jobs : pbid[j] \in Batches => owner[pbid[j]] = j

SessionsOK ==
    /\ proc \in [Procs -> Session]
    /\ \A p \in Procs : Good(proc[p], pbid, owner, raw)

IInv == RowsOK /\ RowsTrue /\ SessionsOK

\* A worker or handler without work relies on nothing.
LEMMA IdleOK == Idle \in Session /\ \A pb, own, rw : Good(Idle, pb, own, rw)
<1>1. Idle \in Session
  BY DEF Idle, Session, PC, RowStatus
<1>2. QED
  BY <1>1 DEF Idle, Good

\* The invariant holds before any job exists.
LEMMA InitIInv == Init => IInv
<1> SUFFICES ASSUME Init PROVE IInv
  OBVIOUS
<1>1. RowsOK
  <2>1. /\ status \in [Jobs -> RowStatus]
        /\ pbid \in [Jobs -> Batches \union {NoBatch}]
        /\ items \in [Jobs -> SUBSET ItemStatus]
        /\ logged \in [Jobs -> SUBSET RowStatus]
        /\ queue \in [Msg -> Nat]
        /\ faults \in Nat
    BY DEF Init, RowStatus
  <2>2. /\ owner \in [Batches -> Jobs \union {NoJob}]
        /\ \A b \in Batches : raw[b] \in IF owner[b] = NoJob THEN {"none"}
                                         ELSE RawStates(Provider[owner[b]])
        /\ DOMAIN raw = Batches
        /\ asked \in SUBSET (Batches \union {NoBatch})
    BY DEF Init
  <2>3. pollLock \in BOOLEAN
    BY DEF Init
  <2>4. QED
    BY <2>1, <2>2, <2>3 DEF RowsOK
<1>2. RowsTrue
  BY ConstantsAssumption DEF Init, RowsTrue, PollableHasBatch, CompletedIsReal, Pollable
<1>3. SessionsOK
  BY IdleOK DEF Init, SessionsOK
<1>4. QED
  BY <1>1, <1>2, <1>3 DEF IInv

-----------------------------------------------------------------------------
(* What no step takes back.                                                *)

\* Batches stay with their job, a job that has a batch keeps having one, and a
\* batch that is complete stays complete.
Kept ==
    /\ \A b \in Batches : owner[b] # NoJob => owner'[b] = owner[b]
    /\ \A j \in Jobs : pbid[j] \in Batches => pbid'[j] \in Batches
    /\ \A j \in Jobs : Done(j, owner, raw) => Done(j, owner', raw')

\* A batch the provider accepts is a new one: the others stay as they are.
LEMMA AcceptKeeps ==
    ASSUME IInv, NEW j \in Jobs, NEW b \in Free, Accept(j, b), UNCHANGED pbid
    PROVE  Kept
<1>1. b \in Batches /\ owner[b] = NoJob
  BY DEF Free
<1>2. \A c \in Batches : owner[c] # NoJob => owner'[c] = owner[c] /\ raw'[c] = raw[c]
  BY <1>1 DEF Accept, IInv, RowsOK
<1>3. ASSUME NEW k \in Jobs, Done(k, owner, raw)
      PROVE  Done(k, owner', raw')
  BY <1>2, <1>3, ConstantsAssumption DEF Done
<1>4. QED
  BY <1>2, <1>3 DEF Kept

\* A batch that moves on was pending, so no completed one is lost.
LEMMA ProviderKeeps ==
    ASSUME IInv, NEW b \in Batches, NEW r, ProviderStep(b, r)
    PROVE  Kept
<1>1. /\ owner[b] \in Jobs
      /\ raw[b] \in Pending(Provider[owner[b]])
      /\ raw' = [raw EXCEPT ![b] = r]
      /\ UNCHANGED <<owner, pbid>>
  BY DEF ProviderStep, IInv, RowsOK, db
<1>2. Provider[owner[b]] \in Providers
  BY <1>1, ConstantsAssumption
<1>3. Normalize(Provider[owner[b]], raw[b]) # "completed"
  BY <1>1, <1>2, PendingIsNotCompleted
<1>4. \A c \in Batches : c # b => raw'[c] = raw[c]
  BY <1>1 DEF IInv, RowsOK
<1>5. ASSUME NEW j \in Jobs, Done(j, owner, raw)
      PROVE  Done(j, owner', raw')
  BY <1>1, <1>3, <1>4, <1>5 DEF Done
<1>6. QED
  BY <1>1, <1>5 DEF Kept

\* The steps that touch neither provider_batch_id nor the batches.
Elsewhere == UNCHANGED <<pbid, owner, raw>>

\* A step that touches neither rows' batch ids nor batches takes nothing back.
LEMMA ElsewhereKeeps == Elsewhere => Kept
BY DEF Elsewhere, Kept, Done

\* Every step is one of the actions.
LEMMA StepCases ==
    ASSUME Next
    PROVE  \/ \E h \in Procs, j \in Jobs : CreateJob(h, j) \/ CancelLoad(h, j)
           \/ \E w \in Procs, m \in Msg, j \in Jobs : RetryCreate(w, m, j)
           \/ \E p \in Procs :
                 \/ CreateItems(p) \/ LogEvent(p) \/ Crash(p) \/ Abort(p)
                 \/ RetrySubmit(p) \/ SubmitCommit(p) \/ SubmitMarkFailed(p)
                 \/ (p \in Workers /\ StartPoll(p)) \/ PollWrite(p) \/ EndPoll(p) \/ CancelWrite(p)
                 \/ FetchCall(p) \/ Redeliver(p)
           \/ \E w \in Procs, m \in Msg :
                 \/ RetrySkip(w, m) \/ (w \in Workers /\ SubmitLoad(w, m)) \/ SubmitSkip(w, m)
                 \/ FetchLoad(w, m) \/ FetchSkip(w, m)
           \/ \E j \in Jobs : RetryRequest(j)
           \/ \E w \in Procs, S \in SUBSET Jobs : Dispatch(w, S)
           \/ \E w \in Procs, b \in Batches : SubmitAccepted(w, b)
           \/ \E w \in Procs, b \in Batches \union {NoBatch} :
                 SubmitTransient(w, b) \/ SubmitPermanent(w, b)
           \/ \E w \in Procs, j \in Jobs :
                 \/ PollUnchanged(w, j) \/ PollTransient(w, j)
                 \/ PollChanged(w, j) \/ PollPermanent(w, j)
           \/ LockExpires
           \/ \E w \in Procs, e \in Failures : FetchError(w, e)
           \/ \E w \in Procs, R \in SUBSET {"completed", "failed"},
                K \in SUBSET ItemStatus : FetchStore(w, R, K)
           \/ \E b \in Batches, r \in UNION {RawStates(p) : p \in Providers} :
                 ProviderStep(b, r)
<1>0. /\ Workers \subseteq Procs /\ Handlers \subseteq Procs
      /\ UserJobs \subseteq Jobs /\ RetryJobs \subseteq Jobs /\ Retried \subseteq Jobs
  BY ConstantsAssumption DEF Procs, Jobs
<1>1. CASE Create
  BY <1>0, <1>1 DEF Create
<1>2. CASE Submit
  BY <1>0, <1>2 DEF Submit
<1>3. CASE Poll
  BY <1>0, <1>3 DEF Poll
<1>4. CASE Cancel
  BY <1>0, <1>4 DEF Cancel
<1>5. CASE Fetch
  BY <1>0, <1>5 DEF Fetch
<1>6. CASE Environment
  BY <1>0, <1>6 DEF Environment
<1>7. QED
  BY <1>1, <1>2, <1>3, <1>4, <1>5, <1>6 DEF Next

\* The job in hand exists wherever a process writes about it.
LEMMA JobInHand ==
    ASSUME IInv, NEW p \in Procs
    PROVE  /\ proc[p] \in Session
           /\ Good(proc[p], pbid, owner, raw)
           /\ proc[p].pc \notin {"idle", "poll"} => proc[p].job \in Jobs
BY DEF IInv, SessionsOK, Good

\* No step takes back what Kept says.
LEMMA KeptStep == IInv /\ Next => Kept
<1> SUFFICES ASSUME IInv, Next PROVE Kept
  OBVIOUS
<1>1. ASSUME NEW w \in Procs, SubmitCommit(w)
      PROVE  Kept
  <2>1. /\ proc[w].job \in Jobs
        /\ Mine(proc[w].bid[proc[w].job], proc[w].job, owner)
    BY <1>1, JobInHand DEF SubmitCommit, At, Good
  <2>2. /\ pbid' = [pbid EXCEPT ![proc[w].job] = proc[w].bid[proc[w].job]]
        /\ UNCHANGED <<owner, raw>>
    BY <1>1 DEF SubmitCommit, provider
  <2>3. QED
    BY <2>1, <2>2 DEF Kept, Mine, Done, IInv, RowsOK
<1>2. ASSUME NEW w \in Procs, NEW b \in Batches, SubmitAccepted(w, b)
      PROVE  Kept
  BY <1>2, AcceptKeeps, JobInHand DEF SubmitAccepted, At, db
<1>3. ASSUME NEW w \in Procs, NEW b, SubmitTransient(w, b) \/ SubmitPermanent(w, b)
      PROVE  Kept
  <2>1. \E kind : SubmitFails(w, kind, b)
    BY <1>3 DEF SubmitTransient, SubmitPermanent
  <2>2. Elsewhere \/ (b \in Free /\ Accept(proc[w].job, b) /\ UNCHANGED pbid)
    BY <2>1 DEF SubmitFails, Elsewhere, provider, db
  <2>3. proc[w].job \in Jobs
    BY <1>3, JobInHand DEF SubmitTransient, SubmitPermanent, At
  <2>4. QED
    BY <2>2, <2>3, AcceptKeeps, ElsewhereKeeps
<1>4. ASSUME NEW b \in Batches, NEW r, ProviderStep(b, r)
      PROVE  Kept
  BY <1>4, ProviderKeeps
<1>5. CASE Elsewhere
  BY <1>5, ElsewhereKeeps
<1>6. ASSUME NEW p \in Procs,
             \/ CreateItems(p) \/ LogEvent(p) \/ Crash(p) \/ Abort(p)
             \/ RetrySubmit(p) \/ SubmitMarkFailed(p)
             \/ StartPoll(p) \/ PollWrite(p) \/ EndPoll(p) \/ CancelWrite(p)
             \/ FetchCall(p) \/ Redeliver(p)
      PROVE  Elsewhere
  BY <1>6 DEF Elsewhere, db, provider, CreateItems, LogEvent, Crash, Abort, RetrySubmit,
       SubmitMarkFailed, StartPoll, PollWrite, EndPoll, CancelWrite, FetchCall, Redeliver
<1>7. ASSUME NEW w \in Procs, NEW j \in Jobs,
             \/ CreateJob(w, j) \/ CancelLoad(w, j) \/ PollUnchanged(w, j)
             \/ PollTransient(w, j) \/ PollChanged(w, j) \/ PollPermanent(w, j)
      PROVE  Elsewhere
  BY <1>7 DEF Elsewhere, db, provider, CreateJob, InsertJob, CancelLoad, PollUnchanged,
       PollTransient, PollChanged, PollPermanent
<1>8. ASSUME NEW w \in Procs, NEW m \in Msg,
             \/ RetrySkip(w, m) \/ SubmitLoad(w, m) \/ SubmitSkip(w, m)
             \/ FetchLoad(w, m) \/ FetchSkip(w, m)
             \/ \E j \in Jobs : RetryCreate(w, m, j)
      PROVE  Elsewhere
  BY <1>8 DEF Elsewhere, db, provider, RetrySkip, SubmitLoad, SubmitSkip, FetchLoad,
       FetchSkip, RetryCreate, InsertJob
<1>9. ASSUME NEW w \in Procs,
             \/ \E e \in Failures : FetchError(w, e)
             \/ \E R \in SUBSET {"completed", "failed"}, K \in SUBSET ItemStatus :
                   FetchStore(w, R, K)
             \/ \E S \in SUBSET Jobs : Dispatch(w, S)
      PROVE  Elsewhere
  BY <1>9 DEF Elsewhere, db, provider, FetchError, FetchStore, Dispatch
<1>10. CASE LockExpires \/ \E j \in Jobs : RetryRequest(j)
  BY <1>5, <1>10 DEF Elsewhere, db, provider, RetryRequest, LockExpires
<1>11. QED
  BY <1>1, <1>2, <1>3, <1>4, <1>5, <1>6, <1>7, <1>8, <1>9, <1>10, StepCases, Zenon

-----------------------------------------------------------------------------
(* Types.                                                                  *)

\* Sending, taking and retrying a message leaves counts of messages.
LEMMA QueueTyped ==
    ASSUME queue \in [Msg -> Nat], NEW m
    PROVE  /\ Put(queue, m) \in [Msg -> Nat]
           /\ RetryTask(m) \in [Msg -> Nat]
           /\ Waiting(m) => Take(m) \in [Msg -> Nat]
<1>1. ASSUME NEW k PROVE Put(queue, k) \in [Msg -> Nat]
  <2> DEFINE n == IF queue[k] < MaxCopies THEN queue[k] + 1 ELSE queue[k]
  <2>1. k \in Msg => n \in Nat
    OBVIOUS
  <2>2. Put(queue, k) = [queue EXCEPT ![k] = n]
    BY DEF Put
  <2> HIDE DEF n
  <2>3. QED
    BY <2>1, <2>2
<1>2. RetryTask(m) \in [Msg -> Nat]
  BY <1>1 DEF RetryTask
<1>3. Waiting(m) => Take(m) \in [Msg -> Nat]
  <2> DEFINE n == queue[m] - 1
  <2>1. Waiting(m) /\ m \in Msg => n \in Nat
    BY DEF Waiting
  <2>2. Take(m) = [queue EXCEPT ![m] = n]
    BY DEF Take
  <2> HIDE DEF n
  <2>3. QED
    BY <2>1, <2>2
<1>4. QED
  BY <1>1, <1>2, <1>3

\* The part of RowsOK that is about the provider.
ProviderOK ==
    /\ owner \in [Batches -> Jobs \union {NoJob}]
    /\ \A b \in Batches : raw[b] \in IF owner[b] = NoJob THEN {"none"}
                                     ELSE RawStates(Provider[owner[b]])
    /\ DOMAIN raw = Batches
    /\ asked \in SUBSET (Batches \union {NoBatch})

\* The part of RowsOK that is about the database.
DatabaseOK ==
    /\ status \in [Jobs -> RowStatus]
    /\ pbid \in [Jobs -> Batches \union {NoBatch}]
    /\ items \in [Jobs -> SUBSET ItemStatus]
    /\ logged \in [Jobs -> SUBSET RowStatus]

\* The rest of RowsOK.
RestOK == queue \in [Msg -> Nat] /\ pollLock \in BOOLEAN /\ faults \in Nat

\* RowsOK is the conjunction of its three parts, before and after a step.
LEMMA RowsParts == /\ RowsOK <=> DatabaseOK /\ ProviderOK /\ RestOK
                   /\ RowsOK' <=> DatabaseOK' /\ ProviderOK' /\ RestOK'
BY DEF RowsOK, DatabaseOK, ProviderOK, RestOK

\* The database keeps its types.
LEMMA DatabaseStep == IInv /\ Next => DatabaseOK'
<1> SUFFICES ASSUME IInv, Next PROVE DatabaseOK'
  OBVIOUS
<1>0. DatabaseOK
  BY RowsParts DEF IInv
<1>1. CASE UNCHANGED db
  BY <1>0, <1>1 DEF DatabaseOK, db
<1>2. ASSUME NEW p \in Procs, CreateItems(p)
      PROVE  DatabaseOK'
  BY <1>0, <1>2 DEF CreateItems, DatabaseOK, ItemStatus
<1>3. ASSUME NEW p \in Procs, LogEvent(p)
      PROVE  DatabaseOK'
  <2>1. proc[p].fresh \in RowStatus
    BY JobInHand DEF Session
  <2>2. QED
    BY <1>0, <1>3, <2>1 DEF LogEvent, DatabaseOK
<1>4. ASSUME NEW p \in Procs, SubmitCommit(p)
      PROVE  DatabaseOK'
  <2>1. proc[p].bid[proc[p].job] \in Batches
    BY <1>4, JobInHand DEF SubmitCommit, At, Good, Mine
  <2>2. QED
    BY <1>0, <1>4, <2>1 DEF SubmitCommit, DatabaseOK, RowStatus, JobStatus
<1>5. ASSUME NEW p \in Procs, SubmitMarkFailed(p) \/ CancelWrite(p)
      PROVE  DatabaseOK'
  BY <1>0, <1>5 DEF SubmitMarkFailed, CancelWrite, DatabaseOK, RowStatus, JobStatus
<1>6. ASSUME NEW p \in Procs, PollWrite(p)
      PROVE  DatabaseOK'
  <2>1. proc[p].fresh \in RowStatus
    BY JobInHand DEF Session
  <2>2. QED
    BY <1>0, <1>6, <2>1 DEF PollWrite, DatabaseOK
<1>7. ASSUME NEW w \in Procs, NEW R \in SUBSET {"completed", "failed"},
             NEW K \in SUBSET ItemStatus, FetchStore(w, R, K)
      PROVE  DatabaseOK'
  <2>1. R \union K \in SUBSET ItemStatus
    BY DEF ItemStatus
  <2>2. QED
    BY <1>0, <1>7, <2>1 DEF FetchStore, DatabaseOK
<1>8. ASSUME NEW p, NEW j \in Jobs, NEW m, InsertJob(p, j, m)
      PROVE  DatabaseOK'
  BY <1>0, <1>8 DEF InsertJob, DatabaseOK, RowStatus, JobStatus
<1>9. ASSUME NEW w \in Procs, NEW j \in Jobs,
             CreateJob(w, j) \/ \E m \in Msg : RetryCreate(w, m, j)
      PROVE  DatabaseOK'
  BY <1>8, <1>9 DEF CreateJob, RetryCreate
<1>10. ASSUME NEW p \in Procs,
             \/ Crash(p) \/ Abort(p) \/ RetrySubmit(p) \/ StartPoll(p) \/ EndPoll(p)
             \/ FetchCall(p) \/ Redeliver(p)
      PROVE  UNCHANGED db
  BY <1>10 DEF Crash, Abort, RetrySubmit, StartPoll, EndPoll, FetchCall, Redeliver
<1>11. ASSUME NEW w \in Procs, NEW j \in Jobs,
             \/ CancelLoad(w, j) \/ PollUnchanged(w, j)
             \/ PollTransient(w, j) \/ PollChanged(w, j) \/ PollPermanent(w, j)
      PROVE  UNCHANGED db
  BY <1>11 DEF CancelLoad, PollUnchanged, PollTransient, PollChanged, PollPermanent
<1>12. ASSUME NEW w \in Procs, NEW m \in Msg,
             \/ RetrySkip(w, m) \/ SubmitLoad(w, m) \/ SubmitSkip(w, m)
             \/ FetchLoad(w, m) \/ FetchSkip(w, m)
      PROVE  UNCHANGED db
  BY <1>12 DEF RetrySkip, SubmitLoad, SubmitSkip, FetchLoad, FetchSkip
<1>13. ASSUME NEW w \in Procs,
             \/ \E e \in Failures : FetchError(w, e)
             \/ \E S \in SUBSET Jobs : Dispatch(w, S)
             \/ \E b \in Batches : SubmitAccepted(w, b)
             \/ \E b \in Batches \union {NoBatch} :
                   SubmitTransient(w, b) \/ SubmitPermanent(w, b)
      PROVE  UNCHANGED db
  BY <1>13, ZenonT(30) DEF FetchError, Dispatch, SubmitAccepted, SubmitTransient, SubmitPermanent,
       SubmitFails
<1>14. CASE \/ LockExpires
            \/ \E j \in Jobs : RetryRequest(j)
            \/ \E b \in Batches, r \in UNION {RawStates(p) : p \in Providers} :
                  ProviderStep(b, r)
  BY <1>1, <1>14 DEF RetryRequest, LockExpires, ProviderStep
<1>15. QED
  BY <1>1, <1>2, <1>3, <1>4, <1>5, <1>6, <1>7, <1>9, <1>10, <1>11, <1>12, <1>13, <1>14,
     StepCases, Zenon

\* The provider's state keeps its type.
LEMMA ProviderOKStep == IInv /\ Next => ProviderOK'
<1> SUFFICES ASSUME IInv, Next PROVE ProviderOK'
  OBVIOUS
<1>0. ProviderOK
  BY RowsParts DEF IInv
<1>1. CASE UNCHANGED provider
  BY <1>0, <1>1 DEF ProviderOK, provider
<1>2. ASSUME NEW j \in Jobs, NEW b \in Free, Accept(j, b)
      PROVE  ProviderOK'
  <2>1. InitialRaw(Provider[j]) \in RawStates(Provider[j])
    BY ConstantsAssumption, InitialIsPending
  <2>2. b \in Batches /\ j # NoJob
    BY ConstantsAssumption DEF Free
  <2>3. QED
    BY <1>0, <1>2, <2>1, <2>2 DEF Accept, ProviderOK
<1>3. ASSUME NEW b \in Batches, NEW r, ProviderStep(b, r)
      PROVE  ProviderOK'
  BY <1>0, <1>3 DEF ProviderStep, ProviderOK
<1>4. ASSUME NEW p \in Procs, CancelWrite(p)
      PROVE  ProviderOK'
  <2>1. proc[p].bid[proc[p].job] \in Batches \union {NoBatch}
    BY <1>4, JobInHand DEF CancelWrite, At, Session
  <2>2. QED
    BY <1>0, <1>4, <2>1 DEF CancelWrite, ProviderOK
<1>5. ASSUME NEW w \in Procs,
             \/ \E b \in Batches : SubmitAccepted(w, b)
             \/ \E b \in Batches \union {NoBatch} :
                   SubmitTransient(w, b) \/ SubmitPermanent(w, b)
      PROVE  ProviderOK'
  <2>1. proc[w].pc = "submit_call"
    BY <1>5, ZenonT(30) DEF SubmitAccepted, SubmitTransient, SubmitPermanent, SubmitFails, At
  <2>2. proc[w].job \in Jobs
    BY <2>1, JobInHand
  <2>3. UNCHANGED provider \/ \E b \in Free : Accept(proc[w].job, b)
    BY <1>5, ZenonT(30) DEF SubmitAccepted, SubmitTransient, SubmitPermanent, SubmitFails
  <2>4. QED
    BY <1>1, <1>2, <2>2, <2>3
<1>6. ASSUME NEW p \in Procs,
             \/ CreateItems(p) \/ LogEvent(p) \/ Crash(p) \/ Abort(p)
             \/ RetrySubmit(p) \/ SubmitCommit(p) \/ SubmitMarkFailed(p)
             \/ StartPoll(p) \/ PollWrite(p) \/ EndPoll(p)
             \/ FetchCall(p) \/ Redeliver(p)
      PROVE  UNCHANGED provider
  BY <1>6 DEF CreateItems, LogEvent, Crash, Abort, RetrySubmit, SubmitCommit,
       SubmitMarkFailed, StartPoll, PollWrite, EndPoll, FetchCall, Redeliver
<1>7. ASSUME NEW w \in Procs, NEW j \in Jobs,
             \/ CreateJob(w, j) \/ CancelLoad(w, j) \/ PollUnchanged(w, j)
             \/ PollTransient(w, j) \/ PollChanged(w, j) \/ PollPermanent(w, j)
      PROVE  UNCHANGED provider
  BY <1>7 DEF CreateJob, InsertJob, CancelLoad, PollUnchanged, PollTransient, PollChanged,
       PollPermanent
<1>8. ASSUME NEW w \in Procs, NEW m \in Msg,
             \/ RetrySkip(w, m) \/ SubmitLoad(w, m) \/ SubmitSkip(w, m)
             \/ FetchLoad(w, m) \/ FetchSkip(w, m)
             \/ \E j \in Jobs : RetryCreate(w, m, j)
      PROVE  UNCHANGED provider
  BY <1>8 DEF RetrySkip, SubmitLoad, SubmitSkip, FetchLoad, FetchSkip, RetryCreate, InsertJob
<1>9. ASSUME NEW w \in Procs,
             \/ \E e \in Failures : FetchError(w, e)
             \/ \E R \in SUBSET {"completed", "failed"}, K \in SUBSET ItemStatus :
                   FetchStore(w, R, K)
             \/ \E S \in SUBSET Jobs : Dispatch(w, S)
      PROVE  UNCHANGED provider
  BY <1>9 DEF FetchError, FetchStore, Dispatch
<1>10. CASE LockExpires \/ \E j \in Jobs : RetryRequest(j)
  BY <1>1, <1>10 DEF RetryRequest, LockExpires
<1>11. QED
  BY <1>1, <1>3, <1>4, <1>5, <1>6, <1>7, <1>8, <1>9, <1>10, StepCases, Zenon

\* Counting a fault keeps the count a number.
LEMMA FaultTyped == \A kind : faults \in Nat /\ Fault(kind) => faults' \in Nat
BY DEF Fault

\* The queue, the lock and the fault counter keep their types.
LEMMA RestStep == IInv /\ Next => RestOK'
<1> SUFFICES ASSUME IInv, Next PROVE RestOK'
  OBVIOUS
<1>0. queue \in [Msg -> Nat] /\ pollLock \in BOOLEAN /\ faults \in Nat
  BY RowsParts DEF IInv, RestOK
<1> DEFINE Q(m) == /\ Put(queue, m) \in [Msg -> Nat]
                   /\ RetryTask(m) \in [Msg -> Nat]
                   /\ Waiting(m) => Take(m) \in [Msg -> Nat]
<1>1. \A m : Q(m)
  BY <1>0, QueueTyped
<1>2. ASSUME NEW p \in Procs,
             \/ CreateItems(p) \/ LogEvent(p) \/ Crash(p) \/ Abort(p)
             \/ RetrySubmit(p) \/ SubmitCommit(p) \/ SubmitMarkFailed(p)
             \/ StartPoll(p) \/ PollWrite(p) \/ EndPoll(p) \/ CancelWrite(p)
             \/ FetchCall(p) \/ Redeliver(p)
      PROVE  RestOK'
  <2>1. queue' \in [Msg -> Nat]
    BY <1>0, <1>1, <1>2 DEF CreateItems, LogEvent, Crash, Abort, RetrySubmit, SubmitCommit,
       SubmitMarkFailed, StartPoll, PollWrite, EndPoll, CancelWrite, FetchCall, Redeliver
  <2>2. pollLock' \in BOOLEAN
    BY <1>0, <1>2 DEF CreateItems, LogEvent, Crash, Abort, RetrySubmit, SubmitCommit,
       SubmitMarkFailed, StartPoll, PollWrite, EndPoll, CancelWrite, FetchCall, Redeliver
  <2>3. faults' \in Nat
    BY <1>0, <1>2, FaultTyped DEF CreateItems, LogEvent, Crash, Abort, RetrySubmit,
       SubmitCommit, SubmitMarkFailed, StartPoll, PollWrite, EndPoll, CancelWrite,
       FetchCall, Redeliver
  <2>4. QED
    BY <2>1, <2>2, <2>3 DEF RestOK
<1>3. ASSUME NEW w \in Procs, NEW j \in Jobs,
             \/ CreateJob(w, j) \/ CancelLoad(w, j) \/ PollUnchanged(w, j)
             \/ PollTransient(w, j) \/ PollChanged(w, j) \/ PollPermanent(w, j)
      PROVE  RestOK'
  <2>1. queue' \in [Msg -> Nat]
    BY <1>0, <1>1, <1>3 DEF CreateJob, CancelLoad, PollUnchanged, PollTransient, PollChanged,
       PollPermanent
  <2>2. UNCHANGED pollLock
    BY <1>3 DEF CreateJob, InsertJob, CancelLoad, PollUnchanged, PollTransient, PollChanged,
       PollPermanent
  <2>3. faults' \in Nat
    BY <1>0, <1>3, FaultTyped DEF CreateJob, InsertJob, CancelLoad, PollUnchanged,
       PollTransient, PollChanged, PollPermanent
  <2>4. QED
    BY <1>0, <2>1, <2>2, <2>3 DEF RestOK
<1>4. ASSUME NEW w \in Procs, NEW m \in Msg,
             \/ RetrySkip(w, m) \/ SubmitLoad(w, m) \/ SubmitSkip(w, m)
             \/ FetchLoad(w, m) \/ FetchSkip(w, m)
             \/ \E j \in Jobs : RetryCreate(w, m, j)
      PROVE  RestOK'
  <2>1. queue' = Take(m) /\ Waiting(m) /\ UNCHANGED <<pollLock, faults>>
    BY <1>4 DEF RetrySkip, SubmitLoad, SubmitSkip, FetchLoad, FetchSkip, RetryCreate,
       InsertJob
  <2>2. QED
    BY <1>0, <1>1, <2>1 DEF RestOK
<1>5. ASSUME NEW w \in Procs, NEW S \in SUBSET Jobs, Dispatch(w, S)
      PROVE  RestOK'
  <2>1. \A m \in Msg : Put(queue, m)[m] \in Nat /\ queue[m] \in Nat
    BY <1>0, <1>1
  <2>2. queue' \in [Msg -> Nat]
    BY <1>5, <2>1 DEF Dispatch
  <2>3. QED
    BY <1>0, <1>5, <2>2 DEF Dispatch, RestOK
<1>6. ASSUME NEW w \in Procs,
             \/ \E b \in Batches : SubmitAccepted(w, b)
             \/ \E b \in Batches \union {NoBatch} :
                   SubmitTransient(w, b) \/ SubmitPermanent(w, b)
      PROVE  RestOK'
  <2>1. queue' \in [Msg -> Nat] /\ UNCHANGED pollLock
    BY <1>0, <1>1, <1>6 DEF SubmitAccepted, SubmitTransient, SubmitPermanent, SubmitFails
  <2>2. faults' \in Nat
    BY <1>0, <1>6, FaultTyped DEF SubmitAccepted, SubmitTransient, SubmitPermanent, SubmitFails
  <2>3. QED
    BY <1>0, <2>1, <2>2 DEF RestOK
<1>7. ASSUME NEW w \in Procs,
             \/ \E e \in Failures : FetchError(w, e)
             \/ \E R \in SUBSET {"completed", "failed"}, K \in SUBSET ItemStatus :
                   FetchStore(w, R, K)
      PROVE  RestOK'
  <2>1. queue' \in [Msg -> Nat] /\ UNCHANGED pollLock
    BY <1>0, <1>1, <1>7 DEF FetchError, FetchStore
  <2>2. faults' \in Nat
    BY <1>0, <1>7, FaultTyped DEF FetchError, FetchStore
  <2>3. QED
    BY <1>0, <2>1, <2>2 DEF RestOK
<1>8. CASE LockExpires
  BY <1>0, <1>8, FaultTyped DEF LockExpires, RestOK
<1>9. CASE \E j \in Jobs : RetryRequest(j)
  BY <1>0, <1>1, <1>9 DEF RetryRequest, RestOK
<1>10. CASE \E b \in Batches, r \in UNION {RawStates(p) : p \in Providers} :
              ProviderStep(b, r)
  BY <1>0, <1>10 DEF ProviderStep, RestOK
<1>11. QED
  BY <1>2, <1>3, <1>4, <1>5, <1>6, <1>7, <1>8, <1>9, <1>10, StepCases, Zenon

-----------------------------------------------------------------------------
(* What the rows say is true.                                              *)

\* Facts about a row hold on as long as the row stays.
LEMMA TrueStable ==
    ASSUME RowsTrue, Kept, RowsOK, UNCHANGED <<status, pbid>>
    PROVE  RowsTrue'
<1>1. NoJob \notin Jobs
  BY ConstantsAssumption
<1>2. \A j \in Jobs : pbid[j] \in Batches => owner'[pbid[j]] = j
  BY <1>1 DEF RowsTrue, Kept
<1>3. PollableHasBatch'
  BY <1>2 DEF RowsTrue, PollableHasBatch
<1>4. CompletedIsReal'
  BY DEF RowsTrue, CompletedIsReal, Kept, Done
<1>5. QED
  BY <1>2, <1>3, <1>4 DEF RowsTrue

\* A status may be written for job j if what it says is true.
LEMMA TrueWrite ==
    ASSUME RowsTrue, Kept, RowsOK, NEW j \in Jobs, NEW v,
           status' = [status EXCEPT ![j] = v],
           UNCHANGED pbid,
           v \in Pollable => pbid[j] \in Batches,
           v = "completed" => Done(j, owner', raw')
    PROVE  RowsTrue'
<1>1. NoJob \notin Jobs
  BY ConstantsAssumption
<1>2. \A k \in Jobs : pbid[k] \in Batches => owner'[pbid[k]] = k
  BY <1>1 DEF RowsTrue, Kept
<1>3. \A k \in Jobs : status'[k] = IF k = j THEN v ELSE status[k]
  BY DEF RowsOK
<1>4. PollableHasBatch'
  BY <1>2, <1>3 DEF RowsTrue, PollableHasBatch
<1>5. CompletedIsReal'
  BY <1>3 DEF RowsTrue, CompletedIsReal, Kept, Done
<1>6. QED
  BY <1>2, <1>4, <1>5 DEF RowsTrue

\* No step makes a row say something untrue.
LEMMA TrueStep == IInv /\ Next => RowsTrue'
<1> SUFFICES ASSUME IInv, Next PROVE RowsTrue'
  OBVIOUS
<1>0. RowsTrue /\ Kept /\ RowsOK
  BY KeptStep DEF IInv
<1>1. CASE UNCHANGED <<status, pbid>>
  BY <1>0, <1>1, TrueStable
<1>2. ASSUME NEW p \in Procs, SubmitCommit(p)
      PROVE  RowsTrue'
  <2> DEFINE j == proc[p].job
             b == proc[p].bid[j]
  <2>1. j \in Jobs /\ b \in Batches /\ owner[b] = j
    BY <1>2, JobInHand DEF SubmitCommit, At, Good, Mine
  <2>2. /\ status' = [status EXCEPT ![j] = "submitted"]
        /\ pbid' = [pbid EXCEPT ![j] = b]
        /\ UNCHANGED <<owner, raw>>
    BY <1>2 DEF SubmitCommit, provider
  <2> HIDE DEF b, j
  <2>3. \A k \in Jobs : /\ status'[k] = IF k = j THEN "submitted" ELSE status[k]
                        /\ pbid'[k] = IF k = j THEN b ELSE pbid[k]
    BY <1>0, <2>2 DEF RowsOK
  <2>4. PollableHasBatch' /\ CompletedIsReal'
    BY <1>0, <2>1, <2>2, <2>3 DEF RowsTrue, PollableHasBatch, CompletedIsReal
  <2>5. \A k \in Jobs : pbid'[k] \in Batches => owner'[pbid'[k]] = k
    BY <1>0, <2>1, <2>2, <2>3 DEF RowsTrue
  <2>6. QED
    BY <2>4, <2>5 DEF RowsTrue
<1>3. ASSUME NEW p \in Procs, SubmitMarkFailed(p) \/ CancelWrite(p)
      PROVE  RowsTrue'
  <2>1. proc[p].job \in Jobs
    BY <1>3, JobInHand DEF SubmitMarkFailed, CancelWrite, At
  <2>2. PICK v \in {"failed", "cancelled"} : status' = [status EXCEPT ![proc[p].job] = v]
    BY <1>3 DEF SubmitMarkFailed, CancelWrite
  <2>3. UNCHANGED pbid
    BY <1>3 DEF SubmitMarkFailed, CancelWrite
  <2>4. v \notin Pollable /\ v # "completed"
    BY DEF Pollable
  <2>5. QED
    BY <1>0, <2>1, <2>2, <2>3, <2>4, TrueWrite
<1>4. ASSUME NEW p \in Procs, PollWrite(p)
      PROVE  RowsTrue'
  <2> DEFINE j == proc[p].job
             v == proc[p].fresh
  <2>1. /\ j \in Jobs
        /\ pbid[j] \in Batches
        /\ v = "completed" => Done(j, owner, raw)
    BY <1>4, JobInHand DEF PollWrite, At, Good
  <2>2. status' = [status EXCEPT ![j] = v] /\ UNCHANGED <<pbid, owner, raw>>
    BY <1>4 DEF PollWrite, provider
  <2>3. v = "completed" => Done(j, owner', raw')
    BY <2>1, <2>2
  <2> HIDE DEF v, j
  <2>4. QED
    BY <1>0, <2>1, <2>2, <2>3, TrueWrite
<1>5. ASSUME NEW p, NEW j \in Jobs, NEW m, InsertJob(p, j, m)
      PROVE  RowsTrue'
  <2>1. status' = [status EXCEPT ![j] = "created"] /\ UNCHANGED pbid
    BY <1>5 DEF InsertJob
  <2>2. "created" \notin Pollable
    BY DEF Pollable
  <2>3. QED
    BY <1>0, <2>1, <2>2, TrueWrite
<1>6. ASSUME NEW w \in Procs, NEW j \in Jobs,
             CreateJob(w, j) \/ \E m \in Msg : RetryCreate(w, m, j)
      PROVE  RowsTrue'
  BY <1>5, <1>6 DEF CreateJob, RetryCreate
<1>7. ASSUME NEW p \in Procs,
             \/ CreateItems(p) \/ LogEvent(p) \/ Crash(p) \/ Abort(p) \/ RetrySubmit(p)
             \/ StartPoll(p) \/ EndPoll(p) \/ FetchCall(p) \/ Redeliver(p)
      PROVE  UNCHANGED <<status, pbid>>
  BY <1>7 DEF CreateItems, LogEvent, Crash, Abort, RetrySubmit, StartPoll, EndPoll, FetchCall,
       Redeliver, db
<1>8. ASSUME NEW w \in Procs, NEW j \in Jobs,
             \/ CancelLoad(w, j) \/ PollUnchanged(w, j)
             \/ PollTransient(w, j) \/ PollChanged(w, j) \/ PollPermanent(w, j)
      PROVE  UNCHANGED <<status, pbid>>
  BY <1>8 DEF CancelLoad, PollUnchanged, PollTransient, PollChanged, PollPermanent, db
<1>9. ASSUME NEW w \in Procs, NEW m \in Msg,
             \/ RetrySkip(w, m) \/ SubmitLoad(w, m) \/ SubmitSkip(w, m)
             \/ FetchLoad(w, m) \/ FetchSkip(w, m)
      PROVE  UNCHANGED <<status, pbid>>
  BY <1>9 DEF RetrySkip, SubmitLoad, SubmitSkip, FetchLoad, FetchSkip, db
<1>10. ASSUME NEW w \in Procs,
             \/ \E e \in Failures : FetchError(w, e)
             \/ \E R \in SUBSET {"completed", "failed"}, K \in SUBSET ItemStatus :
                   FetchStore(w, R, K)
             \/ \E S \in SUBSET Jobs : Dispatch(w, S)
             \/ \E b \in Batches : SubmitAccepted(w, b)
             \/ \E b \in Batches \union {NoBatch} :
                   SubmitTransient(w, b) \/ SubmitPermanent(w, b)
      PROVE  UNCHANGED <<status, pbid>>
  BY <1>10, ZenonT(30) DEF FetchError, FetchStore, Dispatch, SubmitAccepted, SubmitTransient,
       SubmitPermanent, SubmitFails, db
<1>11. CASE \/ LockExpires
            \/ \E j \in Jobs : RetryRequest(j)
            \/ \E b \in Batches, r \in UNION {RawStates(p) : p \in Providers} :
                  ProviderStep(b, r)
  BY <1>1, <1>11 DEF RetryRequest, LockExpires, ProviderStep, db
<1>12. QED
  BY <1>1, <1>2, <1>3, <1>4, <1>6, <1>7, <1>8, <1>9, <1>10, <1>11, StepCases, Zenon

-----------------------------------------------------------------------------
(* What the sessions remember stays good.                                  *)

\* Other processes' steps do not spoil what a session relies on.
LEMMA GoodStable ==
    ASSUME Kept, NEW s \in Session, Good(s, pbid, owner, raw)
    PROVE  Good(s, pbid', owner', raw')
<1>1. NoJob \notin Jobs
  BY ConstantsAssumption
<1>2. \A b, j : j \in Jobs /\ Mine(b, j, owner) => Mine(b, j, owner')
  BY <1>1 DEF Kept, Mine
<1>3. s.todo \subseteq Jobs
  BY DEF Session
<1>4. QED
  BY <1>2, <1>3 DEF Good, Kept

\* A process may take up any session that is good after the step.
LEMMA BecomeGood ==
    ASSUME SessionsOK, Kept, NEW p \in Procs, NEW s \in Session,
           Good(s, pbid', owner', raw'), Become(p, s)
    PROVE  SessionsOK'
<1>1. proc' \in [Procs -> Session]
  BY DEF SessionsOK, Become
<1>2. \A q \in Procs : proc'[q] = IF q = p THEN s ELSE proc[q]
  BY DEF SessionsOK, Become
<1>3. ASSUME NEW q \in Procs PROVE Good(proc'[q], pbid', owner', raw')
  <2>1. proc[q] \in Session /\ Good(proc[q], pbid, owner, raw)
    BY DEF SessionsOK
  <2>2. QED
    BY <1>2, <2>1, GoodStable
<1>4. QED
  BY <1>1, <1>3 DEF SessionsOK

\* A step that leaves the processes alone.
LEMMA SameSessions ==
    ASSUME SessionsOK, Kept, UNCHANGED proc
    PROVE  SessionsOK'
<1>1. \A q \in Procs : Good(proc[q], pbid', owner', raw')
  BY GoodStable DEF SessionsOK
<1>2. QED
  BY <1>1 DEF SessionsOK

\* A freshly loaded session is a session, and a good one to go on from.
LEMMA LoadedOK ==
    ASSUME IInv, NEW j \in Jobs, NEW m \in Msg \union {NoMsg}, NEW pc \in PC,
           pc \in {"submit_call", "cancel", "fetch_call"},
           pc = "submit_call" => status[j] = "created",
           pc = "cancel" => status[j] \notin Settled
    PROVE  LET t == [Loaded(j, m) EXCEPT !.pc = pc]
           IN  t \in Session /\ Good(t, pbid, owner, raw)
<1> DEFINE t == [Loaded(j, m) EXCEPT !.pc = pc]
<1>1. status[j] \in RowStatus /\ pbid[j] \in Batches \union {NoBatch}
  BY DEF IInv, RowsOK
<1> DEFINE sn == [Idle.seen EXCEPT ![j] = status[j]]
           bd == [Idle.bid EXCEPT ![j] = pbid[j]]
<1>2. /\ sn \in [Jobs -> RowStatus] /\ sn[j] = status[j]
      /\ bd \in [Jobs -> Batches \union {NoBatch}]
  BY <1>1, IdleOK DEF Session
<1>3. t = [[Idle EXCEPT !.msg = m, !.job = j, !.seen = sn, !.bid = bd] EXCEPT !.pc = pc]
  BY DEF Loaded
<1>0. Idle.todo = {}
  BY DEF Idle
<1> HIDE DEF sn, bd
<1>4. t \in Session
  BY <1>2, <1>3, IdleOK DEF Session
<1>5. t.pc = pc /\ t.job = j /\ t.todo = {} /\ t.seen[j] = status[j]
  BY <1>0, <1>2, <1>3, IdleOK DEF Session
<1> HIDE DEF t
<1>6. Good(t, pbid, owner, raw)
  BY <1>1, <1>5 DEF Good
<1>7. QED
  BY <1>4, <1>6 DEF t

\* The session s, gone on to a place that asks for no more than it already has.
GoneOn(s, t) ==
    /\ t \in Session
    /\ t.pc \in {"log", "items", "poll", "retry_submit", "fetch_store", "submit_failed"}
    /\ t.pc = "poll" \/ s.pc \notin {"idle", "poll"}
    /\ t.pc = "submit_failed" => s.pc = "submit_call"
    /\ t.job = s.job /\ t.todo = s.todo /\ t.seen = s.seen /\ t.bid = s.bid

\* Going on keeps a session good.
LEMMA GoOn ==
    ASSUME IInv, Kept, NEW p \in Procs, NEW t, GoneOn(proc[p], t), Become(p, t)
    PROVE  SessionsOK'
<1> DEFINE s == proc[p]
<1>1. s \in Session /\ Good(s, pbid', owner', raw')
  BY JobInHand, GoodStable
<1>2. s.pc \notin {"idle", "poll"} => s.job \in Jobs
  BY JobInHand
<1>3. s.pc = "submit_call" => s.seen[s.job] = "created"
  BY JobInHand DEF Good
<1>4. GoneOn(s, t)
  OBVIOUS
<1> HIDE DEF s
<1>5. Good(t, pbid', owner', raw')
  BY <1>1, <1>2, <1>3, <1>4 DEF Good, GoneOn
<1>6. t \in Session
  BY <1>4 DEF GoneOn
<1>7. QED
  BY <1>5, <1>6, BecomeGood DEF IInv

\* Every step leaves every session good.
LEMMA SessionsStep == IInv /\ Next => SessionsOK'
<1> SUFFICES ASSUME IInv, Next PROVE SessionsOK'
  OBVIOUS
<1>0. SessionsOK /\ Kept /\ RowsOK
  BY KeptStep DEF IInv
<1>1. CASE UNCHANGED proc
  BY <1>0, <1>1, SameSessions
<1>2. ASSUME NEW p \in Procs, Become(p, Idle)
      PROVE  SessionsOK'
  BY <1>0, <1>2, IdleOK, BecomeGood
<1>3. ASSUME NEW p \in Procs, NEW t, GoneOn(proc[p], t), Become(p, t)
      PROVE  SessionsOK'
  BY <1>0, <1>3, GoOn
<1>4. \A p \in Procs : proc[p] \in Session
  BY JobInHand
<1>5. ASSUME NEW p \in Procs, CreateItems(p)
      PROVE  SessionsOK'
  <2> DEFINE t == [proc[p] EXCEPT !.pc = "retry_submit"]
  <2>1. proc[p] \in Session /\ proc[p].pc = "items"
    BY <1>4, <1>5 DEF CreateItems, At
  <2>2. GoneOn(proc[p], t)
    BY <2>1 DEF GoneOn, Session, PC
  <2>3. Become(p, Idle) \/ Become(p, t)
    BY <1>5 DEF CreateItems
  <2> HIDE DEF t
  <2>4. QED
    BY <1>2, <1>3, <2>2, <2>3
<1>6. ASSUME NEW p \in Procs, LogEvent(p)
      PROVE  SessionsOK'
  <2> DEFINE t == [proc[p] EXCEPT !.pc = proc[p].next]
  <2>1. proc[p] \in Session /\ proc[p].pc = "log"
    BY <1>4, <1>6 DEF LogEvent, At
  <2>2. proc[p].next # "idle" => GoneOn(proc[p], t)
    BY <2>1 DEF GoneOn, Session, PC
  <2>3. Become(p, Idle) \/ (proc[p].next # "idle" /\ Become(p, t))
    BY <1>6 DEF LogEvent
  <2> HIDE DEF t
  <2>4. QED
    BY <1>2, <1>3, <2>2, <2>3
<1>7. ASSUME NEW p \in Procs, FetchCall(p)
      PROVE  SessionsOK'
  <2> DEFINE t == [proc[p] EXCEPT !.pc = "fetch_store"]
  <2>1. proc[p] \in Session /\ proc[p].pc = "fetch_call"
    BY <1>4, <1>7 DEF FetchCall, At
  <2>2. GoneOn(proc[p], t)
    BY <2>1 DEF GoneOn, Session, PC
  <2>3. Become(p, Idle) \/ Become(p, t)
    BY <1>7 DEF FetchCall
  <2> HIDE DEF t
  <2>4. QED
    BY <1>2, <1>3, <2>2, <2>3
<1>8. ASSUME NEW p \in Procs, SubmitCommit(p) \/ SubmitMarkFailed(p) \/ CancelWrite(p)
      PROVE  SessionsOK'
  <2>1. /\ proc[p] \in Session
        /\ proc[p].pc \in {"submit_commit", "submit_failed", "cancel"}
    BY <1>4, <1>8 DEF SubmitCommit, SubmitMarkFailed, CancelWrite, At
  <2>2. ASSUME NEW f \in {"submitted", "failed", "cancelled"},
               Become(p, [proc[p] EXCEPT !.pc = "log", !.fresh = f])
        PROVE  SessionsOK'
    <3> DEFINE t == [proc[p] EXCEPT !.pc = "log", !.fresh = f]
    <3>1. GoneOn(proc[p], t)
      BY <2>1 DEF GoneOn, Session, PC, RowStatus, JobStatus
    <3>2. Become(p, t)
      BY <2>2
    <3> HIDE DEF t
    <3>3. QED
      BY <1>3, <3>1, <3>2
  <2>3. \/ Become(p, Idle)
        \/ \E f \in {"submitted", "failed", "cancelled"} :
              Become(p, [proc[p] EXCEPT !.pc = "log", !.fresh = f])
    BY <1>8 DEF SubmitCommit, SubmitMarkFailed, CancelWrite
  <2>4. QED
    BY <1>2, <2>2, <2>3
<1>9. ASSUME NEW p \in Procs, PollWrite(p)
      PROVE  SessionsOK'
  <2> DEFINE t == [proc[p] EXCEPT !.pc = "log", !.next = "poll"]
  <2>1. proc[p] \in Session /\ proc[p].pc = "poll_write"
    BY <1>4, <1>9 DEF PollWrite, At
  <2>2. GoneOn(proc[p], t)
    BY <2>1 DEF GoneOn, Session, PC
  <2>3. Become(p, t)
    BY <1>9 DEF PollWrite
  <2> HIDE DEF t
  <2>4. QED
    BY <1>3, <2>2, <2>3
<1>10. ASSUME NEW w \in Procs, NEW b,
             SubmitTransient(w, b) \/ SubmitPermanent(w, b)
      PROVE  SessionsOK'
  <2> DEFINE t == [proc[w] EXCEPT !.pc = "submit_failed"]
  <2>1. proc[w] \in Session /\ proc[w].pc = "submit_call"
    BY <1>4, <1>10 DEF SubmitTransient, SubmitPermanent, SubmitFails, At
  <2>2. GoneOn(proc[w], t)
    BY <2>1 DEF GoneOn, Session, PC
  <2>3. Become(w, Idle) \/ Become(w, t)
    BY <1>10 DEF SubmitTransient, SubmitPermanent, SubmitFails
  <2> HIDE DEF t
  <2>4. QED
    BY <1>2, <1>3, <2>2, <2>3
<1>11. ASSUME NEW w \in Procs, NEW b \in Batches, SubmitAccepted(w, b)
       PROVE  SessionsOK'
  <2> DEFINE s == proc[w]
             bd == [s.bid EXCEPT ![s.job] = b]
             t == [s EXCEPT !.pc = "submit_commit", !.bid = bd]
  <2>1. /\ s \in Session /\ s.job \in Jobs /\ s.seen[s.job] = "created"
        /\ Good(s, pbid', owner', raw')
    BY <1>0, <1>11, JobInHand, GoodStable DEF SubmitAccepted, At, Good
  <2>2. Become(w, t) /\ Mine(b, s.job, owner')
    BY <1>0, <1>11 DEF SubmitAccepted, Mine, Accept, RowsOK
  <2> HIDE DEF s
  <2>3. bd \in [Jobs -> Batches \union {NoBatch}]
        /\ \A j \in Jobs : bd[j] = IF j = s.job THEN b ELSE s.bid[j]
    BY <2>1 DEF Session
  <2> HIDE DEF bd
  <2>4. /\ t \in Session /\ t.todo \subseteq Jobs
        /\ t.pc = "submit_commit" /\ t.job = s.job /\ t.todo = s.todo
        /\ t.seen = s.seen /\ t.bid = bd
    BY <2>1, <2>3 DEF Session, PC
  <2> HIDE DEF t
  <2>5. Good(t, pbid', owner', raw')
    BY <2>1, <2>2, <2>3, <2>4 DEF Good
  <2>6. QED
    BY <1>0, <2>2, <2>4, <2>5, BecomeGood
<1>12. ASSUME NEW w \in Procs, NEW m \in Msg, SubmitLoad(w, m) \/ FetchLoad(w, m)
       PROVE  SessionsOK'
  <2>1. m.job \in Jobs
    BY DEF Msg
  <2>2. PICK pc \in {"submit_call", "fetch_call"} :
           /\ Become(w, [Loaded(m.job, m) EXCEPT !.pc = pc])
           /\ pc = "submit_call" => status[m.job] = "created"
    BY <1>12 DEF SubmitLoad, FetchLoad
  <2> DEFINE t == [Loaded(m.job, m) EXCEPT !.pc = pc]
  <2>3. pc \in PC
    BY DEF PC
  <2>4. t \in Session /\ Good(t, pbid, owner, raw)
    BY <2>1, <2>2, <2>3, LoadedOK
  <2>5. Become(w, t)
    BY <2>2
  <2> HIDE DEF t
  <2>6. QED
    BY <1>0, <2>4, <2>5, GoodStable, BecomeGood
<1>13. ASSUME NEW w \in Procs, NEW j \in Jobs, CancelLoad(w, j)
       PROVE  SessionsOK'
  <2> DEFINE t == [Loaded(j, NoMsg) EXCEPT !.pc = "cancel"]
  <2>1. status[j] \notin Settled /\ Become(w, t)
    BY <1>13 DEF CancelLoad
  <2>2. "cancel" \in PC
    BY DEF PC
  <2>3. t \in Session /\ Good(t, pbid, owner, raw)
    BY <2>1, <2>2, LoadedOK
  <2> HIDE DEF t
  <2>4. QED
    BY <1>0, <2>1, <2>3, GoodStable, BecomeGood
<1>14. ASSUME NEW p \in Procs, NEW j \in Jobs, NEW m \in Msg \union {NoMsg}, InsertJob(p, j, m)
       PROVE  SessionsOK'
  <2> DEFINE t == [Idle EXCEPT !.pc = "log", !.msg = m, !.job = j, !.fresh = "created",
                               !.next = "items"]
  <2>1. Become(p, t)
    BY <1>14 DEF InsertJob
  <2>2. Idle.todo = {}
    BY DEF Idle
  <2>3. t \in Session /\ t.pc = "log" /\ t.job = j /\ t.todo = {}
    BY <2>2, IdleOK DEF Session, PC, RowStatus, JobStatus
  <2> HIDE DEF t
  <2>4. Good(t, pbid', owner', raw')
    BY <2>3 DEF Good
  <2>5. QED
    BY <1>0, <2>1, <2>3, <2>4, BecomeGood
<1>15. ASSUME NEW w \in Procs, NEW j \in Jobs,
              CreateJob(w, j) \/ \E m \in Msg : RetryCreate(w, m, j)
       PROVE  SessionsOK'
  BY <1>14, <1>15 DEF CreateJob, RetryCreate
<1>16. ASSUME NEW w \in Procs, StartPoll(w)
       PROVE  SessionsOK'
  <2> DEFINE found == {j \in Jobs : status[j] \in Pollable}
             sn == [j \in Jobs |-> IF j \in found THEN status[j] ELSE "absent"]
             bd == [j \in Jobs |-> IF j \in found THEN pbid[j] ELSE NoBatch]
             t == [Idle EXCEPT !.pc = "poll", !.todo = found, !.seen = sn, !.bid = bd]
  <2>1. Become(w, t)
    BY <1>16 DEF StartPoll
  <2>2. \A j \in found : Mine(pbid[j], j, owner) /\ status[j] \in Pollable
    BY DEF IInv, RowsTrue, PollableHasBatch, Mine
  <2>3. /\ found \subseteq Jobs
        /\ sn \in [Jobs -> RowStatus] /\ bd \in [Jobs -> Batches \union {NoBatch}]
        /\ \A j \in found : sn[j] = status[j] /\ bd[j] = pbid[j]
    BY <1>0 DEF RowsOK, RowStatus
  <2> HIDE DEF found, sn, bd
  <2>4. t \in Session /\ t.pc = "poll" /\ t.todo = found /\ t.seen = sn /\ t.bid = bd
    BY <2>3, IdleOK DEF Session, PC
  <2> HIDE DEF t
  <2>5. Good(t, pbid, owner, raw)
    BY <2>2, <2>3, <2>4 DEF Good, Mine
  <2>6. QED
    BY <1>0, <2>1, <2>4, <2>5, GoodStable, BecomeGood
<1>17. ASSUME NEW w \in Procs, NEW j \in Jobs, PollUnchanged(w, j) \/ PollTransient(w, j)
       PROVE  SessionsOK'
  <2> DEFINE s == proc[w]
             t == [s EXCEPT !.todo = @ \ {j}]
  <2>1. s \in Session /\ Good(s, pbid', owner', raw')
    BY <1>0, JobInHand, GoodStable
  <2>2. Become(w, t) /\ s.pc = "poll"
    BY <1>17 DEF PollUnchanged, PollTransient, At
  <2> HIDE DEF s
  <2>3. /\ t \in Session /\ t.pc = s.pc /\ t.todo \subseteq s.todo
        /\ t.seen = s.seen /\ t.bid = s.bid
    BY <2>1 DEF Session
  <2> HIDE DEF t
  <2>4. Good(t, pbid', owner', raw')
    BY <2>1, <2>2, <2>3 DEF Good
  <2>5. QED
    BY <1>0, <2>2, <2>3, <2>4, BecomeGood
<1>18. ASSUME NEW w \in Procs, NEW j \in Jobs, PollChanged(w, j) \/ PollPermanent(w, j)
       PROVE  SessionsOK'
  <2> DEFINE s == proc[w]
  <2>1. s \in Session /\ Good(s, pbid, owner, raw) /\ j \in s.todo
    BY <1>18, JobInHand DEF PollChanged, PollPermanent
  <2>2. PICK v \in RowStatus :
           /\ Become(w, [s EXCEPT !.pc = "poll_write", !.job = j, !.fresh = v,
                                  !.todo = @ \ {j}])
           /\ v = "completed" => Normalize(Provider[j], raw[s.bid[j]]) = "completed"
    <3>1. CASE PollChanged(w, j)
      BY <3>1 DEF PollChanged, Polled, RowStatus
    <3>2. CASE PollPermanent(w, j)
      BY <3>2 DEF PollPermanent, RowStatus, JobStatus
    <3>3. QED
      BY <1>18, <3>1, <3>2
  <2> DEFINE t == [s EXCEPT !.pc = "poll_write", !.job = j, !.fresh = v, !.todo = @ \ {j}]
  <2>3. Become(w, t)
    BY <2>2
  <2>4. v = "completed" => Done(j, owner, raw)
    BY <2>1, <2>2 DEF Good, Mine, Done
  <2> HIDE DEF s
  <2>5. /\ t \in Session /\ t.pc = "poll_write" /\ t.job = j /\ t.todo \subseteq s.todo
        /\ t.seen = s.seen /\ t.bid = s.bid /\ t.fresh = v
    BY <2>1 DEF Session, PC
  <2> HIDE DEF t
  <2>6. Good(t, pbid, owner, raw)
    BY <2>1, <2>4, <2>5 DEF Good
  <2>7. QED
    BY <1>0, <2>3, <2>5, <2>6, GoodStable, BecomeGood
<1>19. ASSUME NEW p \in Procs,
              \/ Crash(p) \/ Abort(p) \/ RetrySubmit(p) \/ EndPoll(p)
              \/ \E e \in Failures : FetchError(p, e)
              \/ \E R \in SUBSET {"completed", "failed"}, K \in SUBSET ItemStatus :
                    FetchStore(p, R, K)
       PROVE  SessionsOK'
  BY <1>2, <1>19 DEF Crash, Abort, RetrySubmit, EndPoll, FetchError, FetchStore
<1>20. ASSUME NEW w \in Procs,
              \/ Redeliver(w)
              \/ \E m \in Msg : RetrySkip(w, m) \/ SubmitSkip(w, m) \/ FetchSkip(w, m)
              \/ \E S \in SUBSET Jobs : Dispatch(w, S)
       PROVE  UNCHANGED proc
  BY <1>20 DEF Redeliver, RetrySkip, SubmitSkip, FetchSkip, Dispatch
<1>21. CASE \/ LockExpires
            \/ \E j \in Jobs : RetryRequest(j)
            \/ \E b \in Batches, r \in UNION {RawStates(p) : p \in Providers} :
                  ProviderStep(b, r)
  BY <1>1, <1>21 DEF RetryRequest, LockExpires, ProviderStep
<1>22. QED
  BY <1>1, <1>5, <1>6, <1>7, <1>8, <1>9, <1>10, <1>11, <1>12, <1>13, <1>15, <1>16, <1>17,
     <1>18, <1>19, <1>20, <1>21, StepCases, Zenon

-----------------------------------------------------------------------------
(* The theorems.                                                           *)

\* The invariant is inductive.
LEMMA IInvStep == IInv /\ [Next]_vars => IInv'
<1> SUFFICES ASSUME IInv, [Next]_vars PROVE IInv'
  OBVIOUS
<1>1. CASE Next
  <2>1. RowsOK'
    BY <1>1, DatabaseStep, ProviderOKStep, RestStep, RowsParts
  <2>2. QED
    BY <1>1, <2>1, TrueStep, SessionsStep DEF IInv
<1>2. CASE UNCHANGED vars
  BY <1>2 DEF vars, db, provider, IInv, RowsOK, RowsTrue, PollableHasBatch, CompletedIsReal,
       SessionsOK
<1>3. QED
  BY <1>1, <1>2

\* The invariant holds in every reachable state.
LEMMA Invariance == Spec => []IInv
<1>1. QED
  BY InitIInv, IInvStep, PTL DEF Spec

\* Rows, messages, batches and sessions always have their types, whatever raw
\* states the providers report: an unknown one never reaches the status column.
THEOREM TypeCorrect == Spec => []TypeOK
<1>1. IInv => TypeOK
  BY DEF IInv, RowsOK, SessionsOK, TypeOK
<1>2. QED
  BY <1>1, Invariance, PTL

\* batch_poll never asks a provider about nothing or about another job's batch:
\* a SUBMITTED or IN_PROGRESS job always names a batch created for it, however
\* submissions, lost replies, failures and late writes interleave.
THEOREM PolledJobsHaveTheirBatch == Spec => []PollableHasBatch
<1>1. IInv => PollableHasBatch
  BY DEF IInv, RowsTrue
<1>2. QED
  BY <1>1, Invariance, PTL

\* A COMPLETED job has a batch the provider completed: no stale poll, retry or
\* late write makes a job look complete.
THEOREM CompletionIsReal == Spec => []CompletedIsReal
<1>1. IInv => CompletedIsReal
  BY DEF IInv, RowsTrue
<1>2. QED
  BY <1>1, Invariance, PTL

\* A settled job is overwritten only by a process that loaded it before it was
\* settled: the early returns of the tasks and of the cancel route see to it.
THEOREM OnlyStaleSessionsUnsettle == Spec => SettledOverwrittenOnlyByStaleSession
<1> DEFINE Stale(j) ==
      \E p \in Procs : proc[p].job = j /\ proc[p].seen[j] \in RowStatus \ Settled
                       /\ proc[p].pc \in {"submit_commit", "submit_failed",
                                          "poll_write", "cancel"}
           Fine == \A j \in Jobs : status[j] \in Settled /\ status'[j] # status[j] => Stale(j)
<1>1. IInv /\ [Next]_vars => Fine
  <2> SUFFICES ASSUME IInv, [Next]_vars, NEW j \in Jobs, status[j] \in Settled,
                      status'[j] # status[j]
               PROVE  Stale(j)
    OBVIOUS
  <2>0. status \in [Jobs -> RowStatus] /\ "absent" \notin Settled
    BY DEF IInv, RowsOK, Settled
  <2>1. status' # status /\ Next
    BY DEF vars, db
  <2>2. ASSUME NEW p \in Procs,
               SubmitCommit(p) \/ SubmitMarkFailed(p) \/ PollWrite(p) \/ CancelWrite(p)
        PROVE  Stale(j)
    <3>1. /\ proc[p].pc \in {"submit_commit", "submit_failed", "poll_write", "cancel"}
          /\ \A k \in Jobs : k # proc[p].job => status'[k] = status[k]
      BY <2>0, <2>2 DEF SubmitCommit, SubmitMarkFailed, PollWrite, CancelWrite, At
    <3>2. proc[p].job = j
      BY <3>1
    <3>3. proc[p].seen[j] \in {"created"} \union Pollable \union (RowStatus \ Settled)
      BY <3>1, <3>2, JobInHand DEF Good
    <3>4. {"created"} \union Pollable \subseteq RowStatus \ Settled
      BY DEF Pollable, RowStatus, JobStatus, Settled
    <3>5. QED
      BY <3>1, <3>2, <3>3, <3>4
  <2>3. ASSUME NEW w \in Procs, NEW k \in Jobs,
               CreateJob(w, k) \/ \E m \in Msg : RetryCreate(w, m, k)
        PROVE  FALSE
    <3>1. status[k] = "absent" /\ status' = [status EXCEPT ![k] = "created"]
      BY <2>3 DEF CreateJob, RetryCreate, InsertJob
    <3>2. QED
      BY <2>0, <3>1
  <2>4. ASSUME NEW p \in Procs,
               \/ CreateItems(p) \/ LogEvent(p) \/ Crash(p) \/ Abort(p) \/ RetrySubmit(p)
               \/ StartPoll(p) \/ EndPoll(p) \/ FetchCall(p) \/ Redeliver(p)
        PROVE  FALSE
    BY <2>1, <2>4 DEF CreateItems, LogEvent, Crash, Abort, RetrySubmit, StartPoll, EndPoll,
         FetchCall, Redeliver, db
  <2>5. ASSUME NEW w \in Procs, NEW k \in Jobs,
               \/ CancelLoad(w, k) \/ PollUnchanged(w, k)
               \/ PollTransient(w, k) \/ PollChanged(w, k) \/ PollPermanent(w, k)
        PROVE  FALSE
    BY <2>1, <2>5 DEF CancelLoad, PollUnchanged, PollTransient, PollChanged, PollPermanent, db
  <2>6. ASSUME NEW w \in Procs, NEW m \in Msg,
               \/ RetrySkip(w, m) \/ SubmitLoad(w, m) \/ SubmitSkip(w, m)
               \/ FetchLoad(w, m) \/ FetchSkip(w, m)
        PROVE  FALSE
    BY <2>1, <2>6 DEF RetrySkip, SubmitLoad, SubmitSkip, FetchLoad, FetchSkip, db
  <2>7. ASSUME NEW w \in Procs,
               \/ \E e \in Failures : FetchError(w, e)
               \/ \E R \in SUBSET {"completed", "failed"}, K \in SUBSET ItemStatus :
                     FetchStore(w, R, K)
               \/ \E S \in SUBSET Jobs : Dispatch(w, S)
               \/ \E b \in Batches : SubmitAccepted(w, b)
               \/ \E b \in Batches \union {NoBatch} :
                     SubmitTransient(w, b) \/ SubmitPermanent(w, b)
        PROVE  FALSE
    BY <2>1, <2>7, ZenonT(30) DEF FetchError, FetchStore, Dispatch, SubmitAccepted, SubmitTransient,
         SubmitPermanent, SubmitFails, db
  <2>8. ~(\/ LockExpires
          \/ \E k \in Jobs : RetryRequest(k)
          \/ \E b \in Batches, r \in UNION {RawStates(p) : p \in Providers} :
                ProviderStep(b, r))
    BY <2>1 DEF RetryRequest, LockExpires, ProviderStep, db
  <2>9. QED
    BY <2>1, <2>2, <2>3, <2>4, <2>5, <2>6, <2>7, <2>8, StepCases, Zenon
<1>2. QED
  BY <1>1, Invariance, PTL DEF Spec, SettledOverwrittenOnlyByStaleSession

-----------------------------------------------------------------------------
(* What a step means for statuses, events, batches and the poll lock.      *)

\* No process moves, nothing is written; the lock may expire.
Quiet ==
    /\ UNCHANGED <<status, logged, owner, proc>>
    /\ UNCHANGED pollLock \/ LockExpires

\* No process but p moves.
Acts(p) == \A q \in Procs : q # p => proc'[q] = proc[q]

\* Process p stops: the end of a task or request, or a fault.
Ends(p) ==
    /\ proc'[p] = Idle
    /\ proc[p].pc \in {"log", "submit_commit"} => "crash" \in Faults \/ "abort" \in Faults
    /\ UNCHANGED pollLock \/ (Polling(p) /\ pollLock' = FALSE)
    /\ UNCHANGED owner \/ "lost_reply" \in Faults
    /\ UNCHANGED <<status, logged>>

\* Process p inserts the row of job j.
Inserts(p, j) ==
    /\ status[j] = "absent" /\ status' = [status EXCEPT ![j] = "created"]
    /\ proc[p].pc = "idle"
    /\ proc'[p].pc = "log" /\ proc'[p].job = j
    /\ proc'[p].fresh = "created" /\ proc'[p].next = "items"
    /\ UNCHANGED <<logged, owner, pollLock>>

\* Process p logs the event of the status it has written.
Logs(p) ==
    /\ proc[p].pc = "log"
    /\ logged' = [logged EXCEPT ![proc[p].job] = @ \union {proc[p].fresh}]
    /\ \/ proc'[p] = Idle /\ proc[p].next = "idle"
       \/ proc'[p].pc = proc[p].next /\ proc'[p].next = proc[p].next
    /\ UNCHANGED <<status, owner, pollLock>>

\* Process p writes v as the status of the job in hand.
Writes(p, v) ==
    /\ proc[p].pc \in {"submit_commit", "submit_failed", "poll_write", "cancel"}
    /\ v = IF proc[p].pc = "poll_write" THEN proc[p].fresh ELSE proc'[p].fresh
    /\ proc[p].pc # "poll_write" => v \in {"submitted", "failed", "cancelled"}
    /\ status' = [status EXCEPT ![proc[p].job] = v]
    /\ proc'[p].pc = "log" /\ proc'[p].job = proc[p].job /\ proc'[p].fresh = v
    /\ proc'[p].next = IF proc[p].pc = "poll_write" THEN "poll" ELSE proc[p].next
    /\ UNCHANGED <<logged, owner, pollLock>>

\* Process p starts a poll.
Polls(p) ==
    /\ p \in Workers
    /\ proc[p].pc = "idle" /\ proc'[p].pc = "poll"
    /\ ~pollLock /\ pollLock' = TRUE
    /\ UNCHANGED <<status, logged, owner>>

\* Process p has its batch b accepted.
Places(p, b) ==
    /\ proc[p].pc = "submit_call" /\ proc'[p].pc = "submit_commit"
    /\ proc'[p].job = proc[p].job /\ proc'[p].next = proc[p].next
    /\ owner[b] = NoJob /\ owner' = [owner EXCEPT ![b] = proc[p].job]
    /\ UNCHANGED <<status, logged, pollLock>>

\* Process p goes on to its next step and writes nothing.
Walks(p) ==
    /\ \/ /\ proc[p].pc = "idle" /\ proc'[p].next = "idle"
          /\ \/ /\ p \in Workers /\ proc'[p].pc = "submit_call"
                /\ proc'[p].job \in Jobs /\ status[proc'[p].job] = "created"
             \/ proc'[p].pc \in {"cancel", "fetch_call"}
       \/ /\ proc'[p].next = proc[p].next
          /\ <<proc[p].pc, proc'[p].pc>> \in
                {<<"items", "retry_submit">>, <<"submit_call", "submit_failed">>,
                 <<"poll", "poll">>, <<"poll", "poll_write">>, <<"fetch_call", "fetch_store">>}
    /\ proc'[p].pc = "poll_write" => proc'[p].fresh \notin {"created", "absent"}
    /\ UNCHANGED owner \/ "lost_reply" \in Faults
    /\ UNCHANGED <<status, logged, pollLock>>

Effect ==
    \/ Quiet
    \/ \E p \in Procs :
          /\ Acts(p)
          /\ \/ Ends(p) \/ Logs(p) \/ Polls(p) \/ Walks(p)
             \/ \E j \in Jobs : Inserts(p, j)
             \/ \E v \in RowStatus : Writes(p, v)
             \/ \E b \in Batches : Places(p, b)

\* No adapter reports a batch at its provider as CREATED.
LEMMA NeverCreated ==
    ASSUME NEW p \in Providers, NEW r \in RawStates(p)
    PROVE  Normalize(p, r) # "created"
<1>1. CASE p = "openai"
  BY <1>1 DEF RawStates, Pending, Final, Normalize, Mapped, StatusMapping, OpenAIMapping
<1>2. CASE p = "gemini"
  BY <1>2 DEF RawStates, Pending, Final, Normalize, Mapped, StatusMapping, GeminiMapping
<1>3. CASE p = "claude"
  BY <1>3 DEF RawStates, Pending, Final, Normalize, Mapped, StatusMapping, ClaudeMapping
<1>4. QED
  BY <1>1, <1>2, <1>3 DEF Providers

\* The process that takes up a session is the only one to move.
LEMMA BecomeActs ==
    ASSUME IInv, NEW p \in Procs, NEW s, Become(p, s)
    PROVE  proc'[p] = s /\ Acts(p)
BY DEF IInv, SessionsOK, Become, Acts

\* Loading a job leaves a session that logs nothing and polls nothing.
LEMMA LoadedFields ==
    ASSUME NEW j \in Jobs, NEW m, NEW pc \in PC
    PROVE  LET t == [Loaded(j, m) EXCEPT !.pc = pc]
           IN  t.pc = pc /\ t.job = j /\ t.next = "idle"
BY DEF Loaded, Idle

\* Every step has one of these effects.
LEMMA Effects == IInv /\ Next => Effect
<1> SUFFICES ASSUME IInv, Next PROVE Effect
  OBVIOUS
<1>0. /\ \A p \in Procs : proc[p] \in Session
      /\ status \in [Jobs -> RowStatus]
      /\ "log" \in PC /\ "submit_call" \in PC /\ "cancel" \in PC /\ "fetch_call" \in PC
  BY JobInHand DEF IInv, RowsOK, PC
<1>1. CASE Quiet
  BY <1>1 DEF Effect
<1>2. ASSUME NEW w \in Procs,
             \/ Redeliver(w)
             \/ \E m \in Msg : RetrySkip(w, m) \/ SubmitSkip(w, m) \/ FetchSkip(w, m)
             \/ \E S \in SUBSET Jobs : Dispatch(w, S)
      PROVE  Quiet
  BY <1>2 DEF Redeliver, RetrySkip, SubmitSkip, FetchSkip, Dispatch, Quiet, db, provider
<1>3. CASE \/ LockExpires
           \/ \E j \in Jobs : RetryRequest(j)
           \/ \E b \in Batches, r \in UNION {RawStates(p) : p \in Providers} :
                 ProviderStep(b, r)
  <2>1. Quiet
    BY <1>3 DEF RetryRequest, LockExpires, ProviderStep, Quiet, db, provider
  <2>2. QED
    BY <1>1, <2>1
<1>4. ASSUME NEW p \in Procs, Acts(p), Ends(p)
      PROVE  Effect
  BY <1>4 DEF Effect
<1>5. ASSUME NEW p \in Procs, Acts(p), Walks(p)
      PROVE  Effect
  BY <1>5 DEF Effect
<1>6. ASSUME NEW p \in Procs, Crash(p)
      PROVE  Effect
  <2>1. Become(p, Idle) /\ "crash" \in Faults /\ UNCHANGED <<status, logged, owner, pollLock>>
    BY <1>6 DEF Crash, Fault, db, provider
  <2>2. QED
    BY <1>4, <2>1, BecomeActs DEF Ends
<1>7. ASSUME NEW p \in Procs, Abort(p)
      PROVE  Effect
  <2>1. /\ Become(p, Idle) /\ "abort" \in Faults /\ UNCHANGED <<status, logged, owner>>
        /\ UNCHANGED pollLock \/ (Polling(p) /\ pollLock' = FALSE)
    BY <1>7 DEF Abort, Fault, db, provider
  <2>2. proc'[p] = Idle /\ Acts(p)
    BY <2>1, BecomeActs
  <2>3. Ends(p)
    BY <2>1, <2>2, Zenon DEF Ends
  <2>4. QED
    BY <1>4, <2>2, <2>3
<1>8. ASSUME NEW p \in Procs,
             \/ RetrySubmit(p) \/ EndPoll(p)
             \/ \E e \in Failures : FetchError(p, e)
             \/ \E R \in SUBSET {"completed", "failed"}, K \in SUBSET ItemStatus :
                   FetchStore(p, R, K)
      PROVE  Effect
  <2>1. Become(p, Idle) /\ proc[p].pc \in {"retry_submit", "poll", "fetch_call", "fetch_store"}
    BY <1>8 DEF RetrySubmit, EndPoll, FetchError, FetchStore, At
  <2>2. UNCHANGED <<status, logged, owner>>
    BY <1>8 DEF RetrySubmit, EndPoll, FetchError, FetchStore, db, provider
  <2>3. UNCHANGED pollLock \/ (Polling(p) /\ pollLock' = FALSE)
    BY <1>8 DEF RetrySubmit, EndPoll, FetchError, FetchStore, Polling, At
  <2>4. QED
    BY <1>4, <2>1, <2>2, <2>3, BecomeActs DEF Ends
<1>9. ASSUME NEW p \in Procs, CreateItems(p)
      PROVE  Effect
  <2> DEFINE t == [proc[p] EXCEPT !.pc = "retry_submit"]
  <2>1. proc[p].pc = "items" /\ UNCHANGED <<status, logged, owner, pollLock>>
    BY <1>9 DEF CreateItems, At, provider
  <2>2. Become(p, Idle) \/ Become(p, t)
    BY <1>9 DEF CreateItems
  <2>3. t.pc = "retry_submit" /\ t.next = proc[p].next
    BY <1>0 DEF Session
  <2> HIDE DEF t
  <2>4. CASE Become(p, Idle)
    BY <1>4, <2>1, <2>4, BecomeActs DEF Ends
  <2>5. CASE Become(p, t)
    BY <1>5, <2>1, <2>3, <2>5, BecomeActs DEF Walks
  <2>6. QED
    BY <2>2, <2>4, <2>5
<1>10. ASSUME NEW p \in Procs, FetchCall(p)
       PROVE  Effect
  <2> DEFINE t == [proc[p] EXCEPT !.pc = "fetch_store"]
  <2>1. proc[p].pc = "fetch_call" /\ UNCHANGED <<status, logged, owner, pollLock>>
    BY <1>10 DEF FetchCall, At, db, provider
  <2>2. Become(p, Idle) \/ Become(p, t)
    BY <1>10 DEF FetchCall
  <2>3. t.pc = "fetch_store" /\ t.next = proc[p].next
    BY <1>0 DEF Session
  <2> HIDE DEF t
  <2>4. CASE Become(p, Idle)
    BY <1>4, <2>1, <2>4, BecomeActs DEF Ends
  <2>5. CASE Become(p, t)
    BY <1>5, <2>1, <2>3, <2>5, BecomeActs DEF Walks
  <2>6. QED
    BY <2>2, <2>4, <2>5
<1>11. ASSUME NEW p \in Procs, LogEvent(p)
       PROVE  Effect
  <2> DEFINE t == [proc[p] EXCEPT !.pc = proc[p].next]
  <2>1. /\ proc[p].pc = "log" /\ UNCHANGED <<status, owner, pollLock>>
        /\ logged' = [logged EXCEPT ![proc[p].job] = @ \union {proc[p].fresh}]
    BY <1>11 DEF LogEvent, At, provider
  <2>2. (proc[p].next = "idle" /\ Become(p, Idle)) \/ Become(p, t)
    BY <1>11 DEF LogEvent
  <2>3. t.pc = proc[p].next /\ t.next = proc[p].next
    BY <1>0 DEF Session
  <2> HIDE DEF t
  <2>4. Acts(p) /\ ((proc'[p] = Idle /\ proc[p].next = "idle") \/ proc'[p] = t)
    BY <2>2, BecomeActs
  <2>5. Logs(p)
    BY <2>1, <2>3, <2>4 DEF Logs
  <2>6. QED
    BY <2>4, <2>5 DEF Effect
<1>12. ASSUME NEW p \in Procs, NEW v \in {"submitted", "failed", "cancelled"},
              proc[p].pc \in {"submit_commit", "submit_failed", "cancel"},
              status' = [status EXCEPT ![proc[p].job] = v],
              Become(p, [proc[p] EXCEPT !.pc = "log", !.fresh = v]),
              UNCHANGED <<logged, owner, pollLock>>
       PROVE  Effect
  <2> DEFINE t == [proc[p] EXCEPT !.pc = "log", !.fresh = v]
  <2>1. t.pc = "log" /\ t.job = proc[p].job /\ t.fresh = v /\ t.next = proc[p].next
    BY <1>0 DEF Session
  <2>2. Become(p, t) /\ v \in RowStatus
    BY <1>12 DEF RowStatus, JobStatus
  <2> HIDE DEF t
  <2>3. proc'[p] = t /\ Acts(p)
    BY <2>2, BecomeActs
  <2>4. Writes(p, v)
    BY <1>12, <2>1, <2>3 DEF Writes
  <2>5. QED
    BY <2>2, <2>3, <2>4 DEF Effect
<1>13. ASSUME NEW p \in Procs, SubmitCommit(p) \/ CancelWrite(p)
       PROVE  Effect
  <2>1. CASE SubmitCommit(p)
    <3>1. /\ proc[p].pc = "submit_commit" /\ UNCHANGED <<logged, owner, pollLock>>
          /\ status' = [status EXCEPT ![proc[p].job] = "submitted"]
          /\ Become(p, [proc[p] EXCEPT !.pc = "log", !.fresh = "submitted"])
      BY <2>1 DEF SubmitCommit, At, provider
    <3>2. QED
      BY <1>12, <3>1
  <2>2. CASE CancelWrite(p)
    <3>1. /\ proc[p].pc = "cancel" /\ UNCHANGED <<logged, owner, pollLock>>
          /\ status' = [status EXCEPT ![proc[p].job] = "cancelled"]
          /\ Become(p, [proc[p] EXCEPT !.pc = "log", !.fresh = "cancelled"])
      BY <2>2 DEF CancelWrite, At
    <3>2. QED
      BY <1>12, <3>1
  <2>3. QED
    BY <1>13, <2>1, <2>2
<1>14. ASSUME NEW p \in Procs, SubmitMarkFailed(p)
       PROVE  Effect
  <2>1. /\ proc[p].pc = "submit_failed" /\ UNCHANGED <<logged, owner, pollLock>>
        /\ status' = [status EXCEPT ![proc[p].job] = "failed"]
    BY <1>14 DEF SubmitMarkFailed, At, provider
  <2>2. \/ status[proc[p].job] = "failed" /\ Become(p, Idle)
        \/ Become(p, [proc[p] EXCEPT !.pc = "log", !.fresh = "failed"])
    BY <1>14 DEF SubmitMarkFailed
  <2>3. CASE status[proc[p].job] = "failed" /\ Become(p, Idle)
    <3>1. UNCHANGED status
      BY <1>0, <2>1, <2>3
    <3>2. QED
      BY <1>4, <2>1, <2>3, <3>1, BecomeActs DEF Ends
  <2>4. QED
    BY <1>12, <2>1, <2>2, <2>3
<1>15. ASSUME NEW p \in Procs, PollWrite(p)
       PROVE  Effect
  <2> DEFINE t == [proc[p] EXCEPT !.pc = "log", !.next = "poll"]
  <2>1. /\ proc[p].pc = "poll_write" /\ UNCHANGED <<logged, owner, pollLock>>
        /\ status' = [status EXCEPT ![proc[p].job] = proc[p].fresh]
        /\ Become(p, t)
    BY <1>15 DEF PollWrite, At, provider
  <2>2. /\ t.pc = "log" /\ t.job = proc[p].job /\ t.fresh = proc[p].fresh /\ t.next = "poll"
        /\ proc[p].fresh \in RowStatus
    BY <1>0 DEF Session
  <2> HIDE DEF t
  <2>3. proc'[p] = t /\ Acts(p)
    BY <2>1, BecomeActs
  <2>4. Writes(p, proc[p].fresh)
    BY <2>1, <2>2, <2>3 DEF Writes
  <2>5. QED
    BY <2>2, <2>3, <2>4 DEF Effect
<1>16. ASSUME NEW p \in Procs, NEW j \in Jobs, NEW m, InsertJob(p, j, m), At(p, "idle")
       PROVE  Effect
  <2> DEFINE t == [Idle EXCEPT !.pc = "log", !.msg = m, !.job = j, !.fresh = "created",
                               !.next = "items"]
  <2>1. /\ status[j] = "absent" /\ status' = [status EXCEPT ![j] = "created"]
        /\ Become(p, t) /\ UNCHANGED <<logged, owner, pollLock>> /\ proc[p].pc = "idle"
    BY <1>16 DEF InsertJob, provider, At
  <2>2. t.pc = "log" /\ t.job = j /\ t.fresh = "created" /\ t.next = "items"
    BY DEF Idle
  <2> HIDE DEF t
  <2>3. proc'[p] = t /\ Acts(p)
    BY <2>1, BecomeActs
  <2>4. Inserts(p, j)
    BY <2>1, <2>2, <2>3 DEF Inserts
  <2>5. QED
    BY <2>3, <2>4 DEF Effect
<1>17. ASSUME NEW w \in Procs, NEW j \in Jobs,
              CreateJob(w, j) \/ \E m \in Msg : RetryCreate(w, m, j)
       PROVE  Effect
  BY <1>16, <1>17 DEF CreateJob, RetryCreate
<1>18. ASSUME NEW w \in Procs, w \in Workers, StartPoll(w)
       PROVE  Effect
  <2>1. PICK s, b, f : Become(w, [Idle EXCEPT !.pc = "poll", !.todo = f, !.seen = s, !.bid = b])
    BY <1>18 DEF StartPoll
  <2> DEFINE t == [Idle EXCEPT !.pc = "poll", !.todo = f, !.seen = s, !.bid = b]
  <2>2. t.pc = "poll" /\ Become(w, t)
    BY <2>1 DEF Idle
  <2>3. /\ proc[w].pc = "idle" /\ ~pollLock /\ pollLock' = TRUE
        /\ UNCHANGED <<status, logged, owner>>
    BY <1>18 DEF StartPoll, At, db, provider
  <2> HIDE DEF t
  <2>4. Acts(w) /\ Polls(w)
    BY <1>18, <2>2, <2>3, BecomeActs DEF Polls
  <2>5. QED
    BY <2>4 DEF Effect
<1>19. ASSUME NEW w \in Procs, NEW j \in Jobs, PollUnchanged(w, j) \/ PollTransient(w, j)
       PROVE  Effect
  <2> DEFINE t == [proc[w] EXCEPT !.todo = @ \ {j}]
  <2>1. proc[w].pc = "poll" /\ Become(w, t)
    BY <1>19 DEF PollUnchanged, PollTransient, At
  <2>2. UNCHANGED <<status, logged, owner, pollLock>>
    BY <1>19 DEF PollUnchanged, PollTransient, db, provider
  <2>3. t.pc = proc[w].pc /\ t.next = proc[w].next
    BY <1>0 DEF Session
  <2> HIDE DEF t
  <2>4. QED
    BY <1>5, <2>1, <2>2, <2>3, BecomeActs DEF Walks
<1>20. ASSUME NEW w \in Procs, NEW j \in Jobs, PollChanged(w, j) \/ PollPermanent(w, j)
       PROVE  Effect
  <2>1. /\ proc[w].pc = "poll" /\ j \in proc[w].todo
        /\ UNCHANGED <<status, logged, owner, pollLock>>
    BY <1>20 DEF PollChanged, PollPermanent, At, db, provider
  <2>2. PICK v : /\ Become(w, [proc[w] EXCEPT !.pc = "poll_write", !.job = j, !.fresh = v,
                                              !.todo = @ \ {j}])
                 /\ v = "failed" \/ (v \in JobStatus /\ v = Polled(w, j))
    BY <1>20 DEF PollChanged, PollPermanent
  <2>3. Polled(w, j) # "created"
    <3>1. Mine(proc[w].bid[j], j, owner)
      BY <2>1, JobInHand DEF Good
    <3>2. raw[proc[w].bid[j]] \in RawStates(Provider[j]) /\ Provider[j] \in Providers
      BY <3>1, ConstantsAssumption DEF Mine, IInv, RowsOK
    <3>3. QED
      BY <3>2, NeverCreated DEF Polled
  <2> DEFINE t == [proc[w] EXCEPT !.pc = "poll_write", !.job = j, !.fresh = v, !.todo = @ \ {j}]
  <2>4. t.pc = "poll_write" /\ t.fresh = v /\ t.next = proc[w].next
    BY <1>0 DEF Session
  <2>5. Become(w, t)
    BY <2>2
  <2>6. v \notin {"created", "absent"}
    BY <2>2, <2>3 DEF JobStatus
  <2> HIDE DEF t
  <2>7. proc'[w] = t /\ Acts(w)
    BY <2>5, BecomeActs
  <2>8. QED
    BY <1>5, <2>1, <2>4, <2>6, <2>7 DEF Walks
<1>21. ASSUME NEW w \in Procs, NEW j \in Jobs, CancelLoad(w, j)
       PROVE  Effect
  <2> DEFINE t == [Loaded(j, NoMsg) EXCEPT !.pc = "cancel"]
  <2>1. /\ proc[w].pc = "idle" /\ Become(w, t) /\ UNCHANGED <<status, logged, owner, pollLock>>
    BY <1>21 DEF CancelLoad, At, db, provider
  <2>2. t.pc = "cancel" /\ t.next = "idle"
    BY <1>0, LoadedFields
  <2> HIDE DEF t
  <2>3. QED
    BY <1>5, <2>1, <2>2, BecomeActs DEF Walks
<1>22. ASSUME NEW w \in Procs, NEW m \in Msg, FetchLoad(w, m)
       PROVE  Effect
  <2> DEFINE t == [Loaded(m.job, m) EXCEPT !.pc = "fetch_call"]
  <2>1. /\ proc[w].pc = "idle" /\ Become(w, t) /\ UNCHANGED <<status, logged, owner, pollLock>>
    BY <1>22 DEF FetchLoad, At, db, provider
  <2>2. m.job \in Jobs
    BY DEF Msg
  <2>3. t.pc = "fetch_call" /\ t.next = "idle"
    BY <1>0, <2>2, LoadedFields
  <2> HIDE DEF t
  <2>4. QED
    BY <1>5, <2>1, <2>3, BecomeActs DEF Walks
<1>23. ASSUME NEW w \in Procs, NEW m \in Msg, w \in Workers, SubmitLoad(w, m)
       PROVE  Effect
  <2> DEFINE t == [Loaded(m.job, m) EXCEPT !.pc = "submit_call"]
  <2>1. /\ proc[w].pc = "idle" /\ Become(w, t) /\ UNCHANGED <<status, logged, owner, pollLock>>
        /\ status[m.job] = "created"
    BY <1>23 DEF SubmitLoad, At, db, provider
  <2>2. m.job \in Jobs
    BY DEF Msg
  <2>3. t.pc = "submit_call" /\ t.next = "idle" /\ t.job = m.job
    BY <1>0, <2>2, LoadedFields
  <2> HIDE DEF t
  <2>4. proc'[w] = t /\ Acts(w)
    BY <2>1, BecomeActs
  <2>5. QED
    BY <1>5, <1>23, <2>1, <2>2, <2>3, <2>4 DEF Walks
<1>24. ASSUME NEW w \in Procs, NEW b \in Batches, SubmitAccepted(w, b)
       PROVE  Effect
  <2>1. PICK x : Become(w, [proc[w] EXCEPT !.pc = "submit_commit", !.bid = x])
    BY <1>24 DEF SubmitAccepted
  <2> DEFINE t == [proc[w] EXCEPT !.pc = "submit_commit", !.bid = x]
  <2>2. t.pc = "submit_commit" /\ t.job = proc[w].job /\ t.next = proc[w].next
    BY <1>0 DEF Session
  <2>3. Become(w, t)
    BY <2>1
  <2>4. /\ proc[w].pc = "submit_call" /\ owner[b] = NoJob
        /\ owner' = [owner EXCEPT ![b] = proc[w].job]
        /\ UNCHANGED <<status, logged, pollLock>>
    BY <1>24 DEF SubmitAccepted, Accept, Free, At, db
  <2> HIDE DEF t
  <2>5. proc'[w] = t /\ Acts(w)
    BY <2>3, BecomeActs
  <2>6. Places(w, b)
    BY <2>2, <2>4, <2>5 DEF Places
  <2>7. QED
    BY <2>5, <2>6 DEF Effect
<1>25. ASSUME NEW w \in Procs, NEW b, SubmitTransient(w, b) \/ SubmitPermanent(w, b)
       PROVE  Effect
  <2> DEFINE t == [proc[w] EXCEPT !.pc = "submit_failed"]
  <2>1. Become(w, Idle) \/ Become(w, t)
    BY <1>25 DEF SubmitTransient, SubmitPermanent
  <2>2. PICK e : SubmitFails(w, e, b)
    BY <1>25 DEF SubmitTransient, SubmitPermanent
  <2>3. proc[w].pc = "submit_call"
    BY <1>25 DEF SubmitTransient, SubmitPermanent, At
  <2>4. /\ UNCHANGED <<status, logged, pollLock>>
        /\ UNCHANGED owner \/ "lost_reply" \in Faults
    BY <2>2 DEF SubmitFails, Fault, db, provider
  <2>5. t.pc = "submit_failed" /\ t.next = proc[w].next
    BY <1>0 DEF Session
  <2> HIDE DEF t
  <2>6. CASE Become(w, Idle)
    BY <1>4, <2>3, <2>4, <2>6, BecomeActs DEF Ends
  <2>7. CASE Become(w, t)
    BY <1>5, <2>3, <2>4, <2>5, <2>7, BecomeActs DEF Walks
  <2>8. QED
    BY <2>1, <2>6, <2>7
<1>26. QED
  BY <1>1, <1>2, <1>3, <1>6, <1>7, <1>8, <1>9, <1>10, <1>11, <1>13, <1>14, <1>15, <1>17, <1>18,
     <1>19, <1>20, <1>21, <1>22, <1>23, <1>24, <1>25, StepCases, Zenon

-----------------------------------------------------------------------------
(* The timeline.                                                           *)

\* Whoever writes a status goes on to log it, and only a fault stops him.
LEMMA TimelineStep ==
    ASSUME "crash" \notin Faults, "abort" \notin Faults, IInv, TimelineComplete, [Next]_vars
    PROVE  TimelineComplete'
<1> SUFFICES ASSUME NEW j \in Jobs, status'[j] # "absent", status'[j] \notin logged'[j]
             PROVE  \E p \in Procs : /\ proc'[p].pc = "log" /\ proc'[p].job = j
                                     /\ proc'[p].fresh = status'[j]
  BY DEF TimelineComplete, At
<1>0. /\ status \in [Jobs -> RowStatus] /\ logged \in [Jobs -> SUBSET RowStatus]
      /\ \A p \in Procs : proc[p].pc \notin {"idle", "poll"} => proc[p].job \in Jobs
  BY JobInHand DEF IInv, RowsOK
<1>1. CASE UNCHANGED <<status, logged>> /\ \A q \in Procs : proc[q].pc = "log" => proc'[q] = proc[q]
  BY <1>1 DEF TimelineComplete, At
<1>2. ASSUME NEW p \in Procs, Acts(p), UNCHANGED <<status, logged>>, proc[p].pc # "log"
      PROVE  \A q \in Procs : proc[q].pc = "log" => proc'[q] = proc[q]
  BY <1>2 DEF Acts
<1>3. CASE Quiet
  BY <1>1, <1>3 DEF Quiet
<1>4. ASSUME NEW p \in Procs, Acts(p), Ends(p) \/ Polls(p) \/ Walks(p) \/ \E b \in Batches : Places(p, b)
      PROVE  UNCHANGED <<status, logged>> /\ \A q \in Procs : proc[q].pc = "log" => proc'[q] = proc[q]
  <2>1. UNCHANGED <<status, logged>>
    BY <1>4 DEF Ends, Polls, Walks, Places
  <2>2. proc[p].pc # "log"
    BY <1>4 DEF Ends, Polls, Walks, Places
  <2>3. QED
    BY <1>2, <1>4, <2>1, <2>2
<1>5. ASSUME NEW p \in Procs, Acts(p), NEW k \in Jobs, Inserts(p, k)
      PROVE  \E q \in Procs : proc'[q].pc = "log" /\ proc'[q].job = j /\ proc'[q].fresh = status'[j]
  <2>1. CASE j = k
    BY <1>0, <1>5, <2>1 DEF Inserts
  <2>2. CASE j # k
    <3>1. status'[j] = status[j] /\ logged'[j] = logged[j] /\ proc[p].pc # "log"
      BY <1>0, <1>5, <2>2 DEF Inserts
    <3>2. QED
      BY <1>5, <3>1 DEF TimelineComplete, At, Acts
  <2>3. QED
    BY <2>1, <2>2
<1>6. ASSUME NEW p \in Procs, Acts(p), NEW v \in RowStatus, Writes(p, v)
      PROVE  \E q \in Procs : proc'[q].pc = "log" /\ proc'[q].job = j /\ proc'[q].fresh = status'[j]
  <2>0. /\ status' = [status EXCEPT ![proc[p].job] = v] /\ UNCHANGED logged
        /\ proc'[p].pc = "log" /\ proc'[p].job = proc[p].job /\ proc'[p].fresh = v
        /\ proc[p].pc # "log"
    BY <1>6 DEF Writes
  <2>1. CASE j = proc[p].job
    BY <1>0, <2>0, <2>1
  <2>2. CASE j # proc[p].job
    <3>1. status'[j] = status[j] /\ logged'[j] = logged[j]
      BY <1>0, <2>0, <2>2
    <3>2. QED
      BY <1>6, <2>0, <3>1 DEF TimelineComplete, At, Acts
  <2>3. QED
    BY <2>1, <2>2
<1>7. ASSUME NEW p \in Procs, Acts(p), Logs(p)
      PROVE  \E q \in Procs : proc'[q].pc = "log" /\ proc'[q].job = j /\ proc'[q].fresh = status'[j]
  <2>1. /\ UNCHANGED status /\ proc[p].job \in Jobs
        /\ logged' = [logged EXCEPT ![proc[p].job] = logged[proc[p].job] \union {proc[p].fresh}]
    BY <1>0, <1>7 DEF Logs
  <2>2. /\ logged[j] \subseteq logged'[j]
        /\ j = proc[p].job => proc[p].fresh \in logged'[j]
    BY <1>0, <2>1
  <2>3. PICK q \in Procs : proc[q].pc = "log" /\ proc[q].job = j /\ proc[q].fresh = status[j]
    BY <2>1, <2>2 DEF TimelineComplete, At
  <2>4. q # p
    BY <2>1, <2>2, <2>3
  <2>5. QED
    BY <1>7, <2>1, <2>3, <2>4 DEF Acts
<1>8. CASE Next
  <2>1. Effect
    BY <1>8, Effects
  <2>2. QED
    BY <1>1, <1>3, <1>4, <1>5, <1>6, <1>7, <2>1 DEF Effect
<1>9. CASE UNCHANGED vars
  BY <1>1, <1>9 DEF vars, db
<1>10. QED
  BY <1>8, <1>9

\* The timeline of a job: as long as no process dies or fails between the two
\* commits of update_batch_job and _create_status_change_event, the status of a job
\* is in its timeline or its event is about to be written, however many processes
\* write about the same job at once.
THEOREM TimelinesAreComplete ==
    ASSUME "crash" \notin Faults, "abort" \notin Faults
    PROVE  Spec => []TimelineComplete
<1>1. Init => TimelineComplete
  BY DEF Init, TimelineComplete
<1>2. IInv /\ TimelineComplete /\ [Next]_vars => TimelineComplete'
  BY TimelineStep
<1>3. QED
  BY <1>1, <1>2, Invariance, PTL DEF Spec

-----------------------------------------------------------------------------
(* The poll lock.                                                          *)

\* Whoever polls holds the lock, alone.  Only a poll comes back to polling after an
\* event is logged.
LockHeld ==
    /\ \A p, q \in Procs : Polling(p) /\ Polling(q) => p = q
    /\ \A p \in Procs : Polling(p) => pollLock /\ p \in Workers
    /\ \A p \in Procs : proc[p].pc \in {"submit_call", "submit_commit", "submit_failed", "cancel"}
                        => proc[p].next = "idle"

\* A step that starts no poll and leaves the lock alone keeps LockHeld.
LEMMA LockStays ==
    ASSUME LockHeld, UNCHANGED pollLock, NEW p \in Procs, Acts(p), Polling(p)' => Polling(p),
           proc'[p].pc \in {"submit_call", "submit_commit", "submit_failed", "cancel"}
               => proc'[p].next = "idle"
    PROVE  LockHeld'
<1>1. \A q \in Procs : Polling(q)' => Polling(q)
  BY DEF Acts, Polling, At
<1>2. QED
  BY <1>1 DEF LockHeld, Acts

\* The lock is given back by its holder, or expires when nobody polls.
LEMMA LockStep ==
    ASSUME "slow_poll" \notin Faults, IInv, LockHeld, [Next]_vars
    PROVE  LockHeld'
<1>1. CASE UNCHANGED <<proc, pollLock>>
  BY <1>1 DEF LockHeld, Polling, At
<1>2. CASE Quiet
  <2>1. CASE LockExpires
    <3>1. UNCHANGED proc /\ ~(\E w \in Workers : Polling(w))
      BY <2>1 DEF LockExpires, Fault
    <3>2. \A p \in Procs : ~Polling(p)
      BY <3>1 DEF LockHeld
    <3>3. \A p \in Procs : ~Polling(p)'
      BY <3>1, <3>2 DEF Polling, At
    <3>4. QED
      BY <3>1, <3>3 DEF LockHeld
  <2>2. QED
    BY <1>1, <1>2, <2>1 DEF Quiet
<1>3. ASSUME NEW p \in Procs, Acts(p), Ends(p)
      PROVE  LockHeld'
  <2>1. ~Polling(p)' /\ proc'[p].pc = "idle"
    BY <1>3 DEF Ends, Polling, At, Idle
  <2>2. CASE UNCHANGED pollLock
    BY <1>3, <2>1, <2>2, LockStays
  <2>3. CASE Polling(p)
    <3>1. \A q \in Procs : ~Polling(q)'
      BY <1>3, <2>1, <2>3 DEF LockHeld, Acts, Polling, At
    <3>2. QED
      BY <1>3, <2>1, <3>1 DEF LockHeld, Acts
  <2>4. QED
    BY <1>3, <2>2, <2>3 DEF Ends
<1>4. ASSUME NEW p \in Procs, Acts(p), Polls(p)
      PROVE  LockHeld'
  <2>1. /\ \A q \in Procs : q # p => ~Polling(q)'
        /\ p \in Workers /\ proc'[p].pc = "poll"
    BY <1>4 DEF Polls, LockHeld, Acts, Polling, At
  <2>2. pollLock'
    BY <1>4 DEF Polls
  <2>3. QED
    BY <1>4, <2>1, <2>2 DEF LockHeld, Acts
<1>5. ASSUME NEW p \in Procs, Acts(p),
             \/ Logs(p) \/ Walks(p) \/ \E j \in Jobs : Inserts(p, j)
             \/ \E v \in RowStatus : Writes(p, v)
             \/ \E b \in Batches : Places(p, b)
      PROVE  LockHeld'
  <2>0. UNCHANGED pollLock
    BY <1>5 DEF Logs, Walks, Inserts, Writes, Places
  <2>1. proc[p].next \in {"idle", "items", "poll"}
    BY JobInHand DEF Session
  <2>2. CASE Logs(p)
    <3>1. Polling(p)' => Polling(p)
      BY <2>1, <2>2 DEF Logs, Polling, At, Idle
    <3>2. proc'[p].pc \notin {"submit_call", "submit_commit", "submit_failed", "cancel"}
      BY <2>1, <2>2 DEF Logs, Idle
    <3>3. QED
      BY <1>5, <2>0, <3>1, <3>2, LockStays
  <2>3. CASE Walks(p)
    <3>1. Polling(p)' => Polling(p)
      BY <2>3 DEF Walks, Polling, At
    <3>2. proc'[p].pc \in {"submit_call", "submit_commit", "submit_failed", "cancel"}
          => proc'[p].next = "idle"
      BY <2>3 DEF Walks, LockHeld
    <3>3. QED
      BY <1>5, <2>0, <3>1, <3>2, LockStays
  <2>4. CASE \E j \in Jobs : Inserts(p, j)
    <3>1. proc'[p].pc = "log" /\ proc'[p].next = "items"
      BY <2>4 DEF Inserts
    <3>2. ~Polling(p)'
      BY <3>1 DEF Polling, At
    <3>3. QED
      BY <1>5, <2>0, <3>1, <3>2, LockStays
  <2>5. CASE \E v \in RowStatus : Writes(p, v)
    <3>1. /\ proc'[p].pc = "log"
          /\ proc'[p].next = "poll" => proc[p].pc = "poll_write"
      BY <2>5 DEF Writes, LockHeld
    <3>2. Polling(p)' => Polling(p)
      BY <3>1 DEF Polling, At
    <3>3. QED
      BY <1>5, <2>0, <3>1, <3>2, LockStays
  <2>6. CASE \E b \in Batches : Places(p, b)
    <3>1. proc'[p].pc = "submit_commit" /\ proc'[p].next = "idle"
      BY <2>6 DEF Places, LockHeld
    <3>2. ~Polling(p)'
      BY <3>1 DEF Polling, At
    <3>3. QED
      BY <1>5, <2>0, <3>1, <3>2, LockStays
  <2>7. QED
    BY <1>5, <2>2, <2>3, <2>4, <2>5, <2>6
<1>6. CASE Next
  <2>1. Effect
    BY <1>6, Effects
  <2>2. QED
    BY <1>2, <1>3, <1>4, <1>5, <2>1 DEF Effect
<1>7. CASE UNCHANGED vars
  BY <1>1, <1>7 DEF vars
<1>8. QED
  BY <1>6, <1>7

\* The lock of batch_poll: as long as no poll outlives the lock's TTL, two workers
\* never poll at the same time, although the end of a poll deletes the lock without
\* asking whose it is, a failing poll gives it back and a crashed one leaves it.
THEOREM LockExcludesPollers ==
    ASSUME "slow_poll" \notin Faults
    PROVE  Spec => []OnePoller
<1>1. Init => LockHeld
  BY DEF Init, LockHeld, Polling, At, Idle
<1>2. IInv /\ LockHeld /\ [Next]_vars => LockHeld'
  BY LockStep
<1>3. LockHeld => OnePoller
  BY DEF LockHeld, OnePoller, Procs
<1>4. QED
  BY <1>1, <1>2, <1>3, Invariance, PTL DEF Spec

-----------------------------------------------------------------------------
(* One submission.                                                         *)

\* A job with a batch has left CREATED, or the worker that placed the batch is about
\* to say so; a worker about to place one has a job without.
OneSubmission ==
    /\ \A a, b \in Batches : owner[a] \in Jobs /\ owner[a] = owner[b] => a = b
    /\ \A b \in Batches : owner[b] \in Jobs =>
          /\ status[owner[b]] # "absent"
          /\ \/ status[owner[b]] # "created"
             \/ \E p \in Procs : proc[p].pc = "submit_commit" /\ proc[p].job = owner[b]
    /\ \A p \in Procs : proc[p].pc \in {"submit_call", "submit_commit"} =>
          /\ p \in Workers
          /\ status[proc[p].job] # "absent"
          /\ proc[p].pc = "submit_call" => \A b \in Batches : owner[b] # proc[p].job
    /\ \A p \in Procs : proc[p].pc = "poll_write" => proc[p].fresh \notin {"created", "absent"}

\* The single worker submits a job, commits and only then looks at the next message.
LEMMA SubmissionStep ==
    ASSUME NEW worker, Workers = {worker},
           "crash" \notin Faults, "abort" \notin Faults, "lost_reply" \notin Faults,
           IInv, OneSubmission, [Next]_vars
    PROVE  OneSubmission'
<1>0. /\ status \in [Jobs -> RowStatus] /\ owner \in [Batches -> Jobs \union {NoJob}]
      /\ \A p \in Procs : proc[p].pc \notin {"idle", "poll"} => proc[p].job \in Jobs
      /\ NoJob \notin Jobs
  BY JobInHand, ConstantsAssumption DEF IInv, RowsOK
<1>1. CASE UNCHANGED <<status, owner, proc>>
  BY <1>1 DEF OneSubmission
<1>2. ASSUME NEW p \in Procs, Acts(p), UNCHANGED <<status, owner>>, proc[p].pc # "submit_commit",
             proc'[p].pc \notin {"submit_call", "submit_commit"},
             proc'[p].pc = "poll_write" => proc'[p].fresh \notin {"created", "absent"}
      PROVE  OneSubmission'
  BY <1>2 DEF OneSubmission, Acts
<1>3. CASE Quiet
  BY <1>1, <1>3 DEF Quiet
<1>4. ASSUME NEW p \in Procs, Acts(p), Ends(p)
      PROVE  OneSubmission'
  <2>1. UNCHANGED <<status, owner>> /\ proc[p].pc # "submit_commit" /\ proc'[p].pc = "idle"
    BY <1>4 DEF Ends, Idle
  <2>2. QED
    BY <1>2, <1>4, <2>1
<1>5. ASSUME NEW p \in Procs, Acts(p), Polls(p)
      PROVE  OneSubmission'
  <2>1. UNCHANGED <<status, owner>> /\ proc[p].pc = "idle" /\ proc'[p].pc = "poll"
    BY <1>5 DEF Polls
  <2>2. QED
    BY <1>2, <1>5, <2>1
<1>6. ASSUME NEW p \in Procs, Acts(p), Logs(p)
      PROVE  OneSubmission'
  <2>1. proc[p].next \in {"idle", "items", "poll"}
    BY JobInHand DEF Session
  <2>2. UNCHANGED <<status, owner>> /\ proc[p].pc = "log" /\ proc'[p].pc \in {"idle", "items", "poll"}
    BY <1>6, <2>1 DEF Logs, Idle
  <2>3. QED
    BY <1>2, <1>6, <2>2
<1>7. ASSUME NEW p \in Procs, Acts(p), Walks(p)
      PROVE  OneSubmission'
  <2>1. UNCHANGED <<status, owner>> /\ proc[p].pc # "submit_commit" /\ proc'[p].pc # "submit_commit"
        /\ (proc'[p].pc = "poll_write" => proc'[p].fresh \notin {"created", "absent"})
    BY <1>7 DEF Walks
  <2>2. CASE proc'[p].pc # "submit_call"
    BY <1>2, <1>7, <2>1, <2>2
  <2>3. CASE proc'[p].pc = "submit_call"
    <3>1. p \in Workers /\ proc[p].pc = "idle" /\ proc'[p].job \in Jobs /\ status[proc'[p].job] = "created"
      BY <1>7, <2>3 DEF Walks
    <3>2. \A q \in Procs : proc[q].pc # "submit_commit"
      BY <3>1 DEF OneSubmission
    <3>3. \A b \in Batches : owner[b] # proc'[p].job
      BY <3>1, <3>2 DEF OneSubmission
    <3>4. QED
      BY <1>7, <2>1, <2>3, <3>1, <3>2, <3>3 DEF OneSubmission, Acts
  <2>4. QED
    BY <2>2, <2>3
<1>8. ASSUME NEW p \in Procs, Acts(p), NEW j \in Jobs, Inserts(p, j)
      PROVE  OneSubmission'
  <2>1. /\ status[j] = "absent" /\ proc[p].pc = "idle" /\ proc'[p].pc = "log" /\ UNCHANGED owner
        /\ \A k \in Jobs : status'[k] = IF k = j THEN "created" ELSE status[k]
    BY <1>0, <1>8 DEF Inserts
  <2>2. \A b \in Batches : owner[b] # j
    BY <2>1 DEF OneSubmission
  <2>3. \A q \in Procs : proc[q].pc \in {"submit_call", "submit_commit"} => proc[q].job \in Jobs \ {j}
    BY <1>0, <2>1 DEF OneSubmission
  <2>4. QED
    BY <1>0, <1>8, <2>1, <2>2, <2>3 DEF OneSubmission, Acts
<1>9. ASSUME NEW p \in Procs, Acts(p), NEW v \in RowStatus, Writes(p, v)
      PROVE  OneSubmission'
  <2>1. /\ proc[p].pc \in {"submit_commit", "submit_failed", "poll_write", "cancel"}
        /\ proc'[p].pc = "log" /\ UNCHANGED owner /\ v \notin {"created", "absent"}
    BY <1>9 DEF Writes, OneSubmission
  <2>2. /\ proc[p].job \in Jobs
        /\ \A k \in Jobs : status'[k] = IF k = proc[p].job THEN v ELSE status[k]
    BY <1>0, <1>9, <2>1 DEF Writes
  <2>3. \A q \in Procs : q # p => proc'[q] = proc[q]
    BY <1>9 DEF Acts
  <2>4. ASSUME NEW b \in Batches, owner[b] \in Jobs
        PROVE  /\ status'[owner[b]] # "absent"
               /\ \/ status'[owner[b]] # "created"
                  \/ \E q \in Procs : proc'[q].pc = "submit_commit" /\ proc'[q].job = owner[b]
    <3>1. CASE owner[b] = proc[p].job
      BY <2>1, <2>2, <3>1
    <3>2. CASE owner[b] # proc[p].job
      BY <2>2, <2>3, <2>4, <3>2 DEF OneSubmission
    <3>3. QED
      BY <3>1, <3>2
  <2>5. ASSUME NEW q \in Procs, proc'[q].pc \in {"submit_call", "submit_commit"}
        PROVE  /\ q \in Workers
               /\ status'[proc'[q].job] # "absent"
               /\ proc'[q].pc = "submit_call" => \A b \in Batches : owner[b] # proc'[q].job
    <3>1. q # p /\ proc'[q] = proc[q] /\ proc[q].job \in Jobs
      BY <1>0, <2>1, <2>3, <2>5
    <3>2. QED
      BY <2>1, <2>2, <2>5, <3>1 DEF OneSubmission
  <2>6. \A q \in Procs : proc'[q].pc = "poll_write" => proc'[q].fresh \notin {"created", "absent"}
    BY <2>1, <2>3 DEF OneSubmission
  <2>7. QED
    BY <2>1, <2>4, <2>5, <2>6 DEF OneSubmission
<1>10. ASSUME NEW p \in Procs, Acts(p), NEW b \in Batches, Places(p, b)
       PROVE  OneSubmission'
  <2>1. /\ proc[p].pc = "submit_call" /\ proc'[p].pc = "submit_commit" /\ proc'[p].job = proc[p].job
        /\ UNCHANGED status /\ owner[b] = NoJob
        /\ \A c \in Batches : owner'[c] = IF c = b THEN proc[p].job ELSE owner[c]
    BY <1>0, <1>10 DEF Places
  <2>2. /\ p \in Workers /\ proc[p].job \in Jobs /\ status[proc[p].job] # "absent"
        /\ \A c \in Batches : owner[c] # proc[p].job
    BY <1>0, <2>1 DEF OneSubmission
  <2>3. \A q \in Procs : q # p => proc[q].pc \notin {"submit_call", "submit_commit"} /\ proc'[q] = proc[q]
    BY <1>10, <2>2 DEF OneSubmission, Acts
  <2>4. QED
    BY <2>1, <2>2, <2>3 DEF OneSubmission
<1>11. CASE Next
  <2>1. Effect
    BY <1>11, Effects
  <2>2. QED
    BY <1>3, <1>4, <1>5, <1>6, <1>7, <1>8, <1>9, <1>10, <2>1 DEF Effect
<1>12. CASE UNCHANGED vars
  BY <1>1, <1>12 DEF vars, db, provider
<1>13. QED
  BY <1>11, <1>12

\* batch_submit is idempotent for one worker: as long as it is not killed or
\* interrupted by an error between the provider's answer and the commit, and no answer
\* is lost, a job is given to its provider at most once, whatever is redelivered,
\* retried or dispatched again and whatever is cancelled meanwhile.  (The run
\* v_double_submit shows that two workers are enough to break it.)
THEOREM OneWorkerSubmitsOnce ==
    ASSUME NEW worker, Workers = {worker},
           "crash" \notin Faults, "abort" \notin Faults, "lost_reply" \notin Faults
    PROVE  Spec => []AtMostOneBatch
<1>1. Init => OneSubmission
  BY ConstantsAssumption DEF Init, OneSubmission, Idle
<1>2. IInv /\ OneSubmission /\ [Next]_vars => OneSubmission'
  BY SubmissionStep
<1>3. OneSubmission => AtMostOneBatch
  <2> SUFFICES ASSUME OneSubmission, NEW j \in Jobs
               PROVE  Cardinality(BatchesOf(j)) <= 1
    BY DEF AtMostOneBatch
  <2>1. CASE BatchesOf(j) = {}
    BY <2>1, FS_EmptySet
  <2>2. ASSUME NEW b \in BatchesOf(j) PROVE Cardinality(BatchesOf(j)) <= 1
    <3>1. BatchesOf(j) = {b}
      BY <2>2 DEF BatchesOf, OneSubmission
    <3>2. Cardinality({b}) = 1
      BY FS_Singleton, Zenon
    <3>3. QED
      BY <3>1, <3>2
  <2>3. QED
    BY <2>1, <2>2
<1>4. QED
  BY <1>1, <1>2, <1>3, Invariance, PTL DEF Spec
=============================================================================
