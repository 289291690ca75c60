-------------------------- MODULE AgentRunsProofs --------------------------
(***************************************************************************)
(* Proofs about AgentRuns, for any number of runs, fallbacks, steps and    *)
(* faults.                                                                 *)
(***************************************************************************)
EXTENDS AgentRuns, TLAPS

\* Only runs on the server are active together, and they have met.
Alone == \A r, s \in Active : r # s => served /\ r \in mixed /\ s \in mixed

\* Answers by steps, rows by answers: a row is written in the model node and, at most, a
\* second one behind it.
CountsOK(r) ==
    /\ r \notin Active => ~run[r].event /\ ~run[r].stopped
    /\ At(r, "idle") => run[r].answers = 0
    /\ r \in Active => run[r].answers <= run[r].steps
    /\ At(r, "start") \/ At(r, "call") => run[r].answers < run[r].steps
    /\ logs[r] <= 2 * run[r].answers
    /\ At(r, "persist") => logs[r] + 2 <= 2 * run[r].answers
    /\ At(r, "after") => logs[r] + 1 <= 2 * run[r].answers
    /\ run[r].owed => At(r, "after")

\* The context of the middleware when after_model reads it.
CtxOK(r) == At(r, "after") /\ r \notin mixed => ctx = IF run[r].owed THEN None ELSE r

\* The memories in the middleware while a local run is active.
CachedOK(r) == ~served /\ r \in Active => cached \in {r, None}

\* Calls that the node of r may still begin: of the fallbacks, and in the second call of
\* the memory middleware.
Remaining(r) ==
    (IF At(r, "start") THEN 1 ELSE 0) + (Fallbacks - run[r].attempt)
      + (IF Second(r) THEN Fallbacks + 1 ELSE 0)

\* What a cancelled local run has done since, by where it is.
LateOK(r) ==
    ~served /\ r \in Active =>
        /\ ~run[r].requested => run[r].late = 0 /\ run[r].lateTools = 0
        /\ (At(r, "start") \/ At(r, "call")) /\ ~run[r].stopped =>
              run[r].late + Remaining(r) <= 2 * (Fallbacks + 1)
        /\ ~At(r, "start") /\ ~At(r, "call") /\ ~At(r, "persist")
           /\ ~run[r].stopped /\ ~run[r].event => run[r].late = 0
        /\ run[r].lateTools = 1 => \/ At(r, "model") /\ (run[r].event \/ run[r].stopped)
                                   \/ At(r, "start") /\ run[r].stopped

\* What AnswersAreLogged, RunsAreIsolated and CancelIsPrompt say of one run.
Logged(r) ==
    r \notin lossy \union mixed =>
        logs[r] + (IF At(r, "persist") \/ run[r].owed THEN 1 ELSE 0) = run[r].answers

Isolated(r) == ~served => /\ run[r].memory \in {r, None}
                          /\ r \notin mixed => usage[r] \subseteq {r}

Prompt(r) == ~served => /\ run[r].late <= IF 2 * (Fallbacks + 1) > Analysis
                                          THEN 2 * (Fallbacks + 1) ELSE Analysis
                        /\ run[r].lateTools <= 1

RunOK(r) ==
    /\ CountsOK(r)
    /\ CtxOK(r)
    /\ CachedOK(r)
    /\ LateOK(r)
    /\ Logged(r)
    /\ Isolated(r)
    /\ Prompt(r)

IInv == TypeOK /\ Alone /\ \A r \in Runs : RunOK(r)

-----------------------------------------------------------------------------
(* A step of one run.                                                      *)

\* What a step of r leaves alone, and that no other run is active without having met r.
Frame(r) ==
    /\ served' = served
    /\ run' = [run EXCEPT ![r] = run'[r]]
    /\ \A s \in Runs \ {r} : /\ logs'[s] = logs[s]
                             /\ usage'[s] = usage[s]
                             /\ s \in lossy => s \in lossy'
    /\ mixed \subseteq mixed'
    /\ \A s \in Active \ {r} : served /\ r \in mixed' /\ s \in mixed'

\* Such a step preserves the invariant if it does so for r itself: the context and the
\* memories in the middleware are a matter of the runs that are active.
LEMMA StepInv ==
    ASSUME IInv, NEW r \in Runs, Frame(r), TypeOK', RunOK(r)'
    PROVE  IInv'
  <1>1. ASSUME NEW s \in Runs, s # r
        PROVE  /\ run'[s] = run[s]
               /\ s \in Active' <=> s \in Active
               /\ s \in Active => served /\ s \in mixed'
    BY <1>1 DEF Frame, Active, IInv, TypeOK
  <1>2. Alone'
    BY <1>1 DEF Alone, Frame, Active, IInv
  <1>3. ASSUME NEW s \in Runs, s # r
        PROVE  RunOK(s)'
    <2> USE <1>1, <1>3
    <2>1. RunOK(s)
      BY DEF IInv
    <2>2. CountsOK(s)'
      BY <2>1 DEF RunOK, CountsOK, At, Frame
    <2>3. CtxOK(s)' /\ CachedOK(s)'
      BY <2>1 DEF RunOK, CtxOK, CachedOK, At, Frame, Active
    <2>4. LateOK(s)'
      BY <2>1 DEF RunOK, LateOK, At, Frame, Remaining, Second
    <2>5. Logged(s)'
      BY <2>1 DEF RunOK, Logged, At, Frame
    <2>6. Isolated(s)' /\ Prompt(s)'
      BY <2>1 DEF RunOK, Isolated, Prompt, Frame
    <2> QED
      BY <2>2, <2>3, <2>4, <2>5, <2>6 DEF RunOK
  <1> QED
    BY <1>2, <1>3 DEF IInv

\* It holds at the start.
LEMMA InitInv == Init => IInv
  BY AgentRunsAssumption
  DEF Init, IInv, TypeOK, Alone, Active, RunOK, CountsOK, CtxOK, CachedOK, LateOK, Logged,
      Isolated, Prompt, At, NotBegun, Run, Places

\* An active run has met those that are active with it.
LEMMA ActiveMet ==
    ASSUME IInv, NEW r \in Runs, r \in Active
    PROVE  \A s \in Active \ {r} : served /\ r \in mixed /\ s \in mixed
  BY DEF IInv, Alone

\* Two records agree in what counts answers, and in what a request to cancel is about.
SameCounts(m, n) == m.answers = n.answers /\ m.owed = n.owed
SameCancel(m, n) == /\ m.requested = n.requested /\ m.stopped = n.stopped
                    /\ m.late = n.late /\ m.lateTools = n.lateTools

\* The types of the fields that arithmetic is done with.
LEMMA Fields ==
    ASSUME IInv, NEW r \in Runs
    PROVE  /\ run[r].steps \in Nat /\ run[r].answers \in Nat /\ logs[r] \in Nat
           /\ run[r].late \in Nat /\ run[r].lateTools \in Nat
           /\ run[r].attempt \in Nat /\ run[r].attempt <= Fallbacks
  BY AgentRunsAssumption DEF IInv, TypeOK, Run

\* The empty record of a run is one.
LEMMA NotBegunRun == NotBegun \in Run
  BY AgentRunsAssumption DEF NotBegun, Run, Places

\* The attempts with which the model node begins or goes on are records of a run.
LEMMA InjectedRun ==
    ASSUME IInv, NEW r \in Runs, NEW attempt \in 0..Fallbacks
    PROVE  Injected(r, attempt) \in Run
  <1> DEFINE guarded == served \/ cached # None
  <1>1. guarded \in BOOLEAN /\ cached \in Runs \union {None} /\ run[r] \in Run
    BY DEF IInv, TypeOK
  <1>2. Injected(r, attempt) = [run[r] EXCEPT !.pc = "start", !.attempt = attempt, !.again = FALSE,
                                              !.memory = cached, !.guarded = guarded]
    BY DEF Injected
  <1> HIDE DEF guarded
  <1> QED
    BY <1>1, <1>2, ZenonT(60) DEF Run, Places

\* The record m of r says that the run is over, n calls later.
Over(m, r, n) ==
    /\ m \in Run
    /\ m.pc = "done" /\ m.answers = run[r].answers
    /\ m.late = run[r].late + n /\ m.lateTools = run[r].lateTools
    /\ m.memory = None /\ ~m.owed /\ ~m.event /\ ~m.stopped

\* The record with which runs end says so.
LEMMA EndedOver == ASSUME IInv, NEW r \in Runs PROVE Over(Ended(r), r, 0)
  <1>1. run[r] \in Run
    BY DEF IInv, TypeOK
  <1>2. Ended(r) \in Run
    BY <1>1, NotBegunRun DEF Ended, Run, Places
  <1>3. /\ Ended(r).pc = "done" /\ Ended(r).answers = run[r].answers
        /\ Ended(r).late = run[r].late /\ Ended(r).lateTools = run[r].lateTools
        /\ Ended(r).memory = None /\ ~Ended(r).owed /\ ~Ended(r).event /\ ~Ended(r).stopped
    BY DEF Ended, NotBegun
  <1> QED
    BY <1>2, <1>3, Fields DEF Over

\* The end of a run, whoever brings it about.
LEMMA EndInv ==
    ASSUME IInv, NEW r \in Runs, r \in Active,
           run' = [run EXCEPT ![r] = run'[r]],
           NEW n \in Nat, Over(run'[r], r, n),
           ~served => n = 0 \/ (run[r].late = 0 /\ n = Analysis),
           lossy \subseteq lossy', lossy' \subseteq Runs,
           At(r, "persist") \/ run[r].owed => r \in lossy',
           UNCHANGED <<served, ctx, cached, logs, usage, mixed>>,
           faults' \in 0..MaxFaults
    PROVE  IInv'
  <1>1. run[r] \in Run /\ RunOK(r)
    BY DEF IInv, TypeOK
  <1>2. TypeOK'
    BY DEF IInv, TypeOK, Over
  <1>3. Frame(r)
    BY ActiveMet DEF Frame, IInv, TypeOK
  <1>4. r \notin Active'
    BY DEF Active, Over
  <1>5. CountsOK(r)'
    BY <1>1, <1>4 DEF RunOK, CountsOK, At, Over
  <1>6. CtxOK(r)' /\ CachedOK(r)' /\ LateOK(r)'
    BY <1>4 DEF CtxOK, CachedOK, LateOK, At, Over
  <1>7. Logged(r)'
    BY <1>1 DEF RunOK, Logged, At, Over
  <1>8. Isolated(r)'
    BY <1>1 DEF RunOK, Isolated, Over
  <1>9. Prompt(r)'
    BY <1>1, Fields, AgentRunsAssumption DEF RunOK, Prompt, Over
  <1> QED
    BY <1>2, <1>3, <1>5, <1>6, <1>7, <1>8, <1>9, StepInv DEF RunOK

\* A step of the graph or of the caller that leaves r active and changes nothing but its
\* record and, by recalling r's own, the memories in the middleware.
LEMMA QuietStep ==
    ASSUME IInv, NEW r \in Runs, r \in Active,
           run' = [run EXCEPT ![r] = run'[r]], run'[r] \in Run,
           cached' \in {cached, r}, UNCHANGED faults \/ faults' \in 0..MaxFaults,
           UNCHANGED <<served, ctx, logs, usage, lossy, mixed>>,
           run'[r].memory \in {run[r].memory, cached, None},
           At(r, "after")' => At(r, "after") /\ run'[r].owed = run[r].owed,
           CountsOK(r)', LateOK(r)', Logged(r)', Prompt(r)'
    PROVE  IInv'
  <1>1. run[r] \in Run /\ RunOK(r)
    BY DEF IInv, TypeOK
  <1>2. TypeOK'
    BY DEF IInv, TypeOK
  <1>3. Frame(r)
    BY ActiveMet DEF Frame, IInv, TypeOK
  <1>4. CtxOK(r)'
    BY <1>1 DEF RunOK, CtxOK, At
  <1>5. CachedOK(r)' /\ Isolated(r)'
    BY <1>1 DEF RunOK, CachedOK, Isolated
  <1> QED
    BY <1>2, <1>3, <1>4, <1>5, StepInv DEF RunOK

-----------------------------------------------------------------------------
(* The actions.                                                            *)

\* A new run finds no memories in an AgentService, and its record is empty.
LEMMA BeginInv == ASSUME IInv, NEW r \in Runs, Begin(r) PROVE IInv'
  <1>1. run[r] \in Run /\ RunOK(r) /\ run[r].pc = "idle" /\ r \notin Active
    BY DEF IInv, TypeOK, Begin, At, Active
  <1>2. PICK graceful \in {TRUE, served}, off \in {FALSE, served} :
          /\ run' = [run EXCEPT ![r] = [NotBegun EXCEPT !.graceful = graceful,
                                           !.pc = IF off THEN "model" ELSE "recall"]]
          /\ cached' = IF off THEN cached ELSE None
          /\ mixed' = mixed \union (IF Active # {} THEN Active \union {r} ELSE {})
                            \union (IF off /\ cached # None THEN {r} ELSE {})
    BY DEF Begin
  <1>3. /\ run'[r].pc \in {"model", "recall"} /\ run'[r].answers = 0 /\ run'[r].steps = 0
        /\ run'[r].memory = None /\ ~run'[r].owed /\ ~run'[r].event /\ ~run'[r].stopped
        /\ run'[r].late = 0 /\ run'[r].lateTools = 0
    BY <1>2 DEF IInv, TypeOK, NotBegun
  <1>4. run'[r] \in Run
    BY <1>2, NotBegunRun DEF IInv, TypeOK, Run, Places
  <1>5. TypeOK'
    BY <1>2, <1>4 DEF IInv, TypeOK, Begin, Active
  <1>6. Frame(r)
    BY <1>2 DEF Frame, Begin, IInv, TypeOK
  <1>7. CountsOK(r)'
    BY <1>1, <1>3 DEF RunOK, CountsOK, At, Begin, Active
  <1>8. CtxOK(r)' /\ CachedOK(r)' /\ LateOK(r)'
    <2>1. served \in BOOLEAN
      BY DEF IInv, TypeOK
    <2>2. ~served => ~off
      BY <2>1, <1>2
    <2>3. ~served => cached' = None
      BY <2>2, <1>2
    <2> QED
      BY <2>3, <1>3 DEF CtxOK, CachedOK, LateOK, At, Begin
  <1>9. Logged(r)' /\ Isolated(r)' /\ Prompt(r)'
    <2>1. mixed \subseteq mixed' /\ UNCHANGED <<served, logs, usage, lossy>>
      BY <1>2 DEF Begin
    <2>2. Logged(r)'
      BY <2>1, <1>1, <1>3 DEF RunOK, Logged, CountsOK, At, IInv, TypeOK
    <2>3. Isolated(r)' /\ Prompt(r)'
      BY <2>1, <1>1, <1>3, AgentRunsAssumption DEF RunOK, Isolated, Prompt
    <2> QED
      BY <2>2, <2>3
  <1> QED
    BY <1>5, <1>6, <1>7, <1>8, <1>9, StepInv DEF RunOK

\* Recalled memories are the run's own.
LEMMA RecallInv == ASSUME IInv, NEW r \in Runs, Recall(r) PROVE IInv'
  <1>1. run[r] \in Run /\ RunOK(r) /\ run[r].pc = "recall" /\ r \in Active
    BY DEF IInv, TypeOK, Recall, At, Active
  <1>2. run' = [run EXCEPT ![r] = [run[r] EXCEPT !.pc = "model", !.event = ~served /\ ~run[r].stopped]]
    BY DEF Recall, NodeEnds
  <1>3. /\ run'[r].pc = "model" /\ run'[r].event \in BOOLEAN
        /\ run'[r].event <=> ~served /\ ~run[r].stopped
        /\ \A f \in DOMAIN run[r] \ {"pc", "event"} : run'[r][f] = run[r][f]
    BY <1>1, <1>2 DEF IInv, TypeOK, Run
  <1>4. run'[r] \in Run
    BY <1>1, <1>2 DEF IInv, TypeOK, Run, Places
  <1>5. CountsOK(r)' /\ Logged(r)'
    BY <1>1, <1>3 DEF RunOK, CountsOK, Logged, Recall, Active, At, Run
  <1>6. LateOK(r)'
    BY <1>1, <1>3 DEF RunOK, LateOK, Recall, At, Run
  <1>7. Prompt(r)' /\ run'[r].memory = run[r].memory
    BY <1>1, <1>3 DEF RunOK, Prompt, Recall, Run
  <1> QED
    BY <1>1, <1>2, <1>3, <1>4, <1>5, <1>6, <1>7, QuietStep DEF Recall, At

\* The node begins with all its calls ahead and, unless the stream was stopped, none made
\* since a request to cancel.
LEMMA EnterModelInv == ASSUME IInv, NEW r \in Runs, EnterModel(r) PROVE IInv'
  <1>1. /\ run[r] \in Run /\ RunOK(r) /\ run[r].pc = "model" /\ r \in Active
        /\ run[r].steps < Limit /\ Limit <= MaxSteps /\ Limit \in Nat
        /\ served \/ ~run[r].event
    BY AgentRunsAssumption DEF IInv, TypeOK, EnterModel, Turn, At, Active, Limit
  <1> DEFINE begun == Injected(r, 0)
  <1>2. begun \in Run /\ begun.steps = run[r].steps
    <2>1. 0 \in 0..Fallbacks
      BY AgentRunsAssumption
    <2>2. begun \in Run
      BY <2>1, InjectedRun
    <2> QED
      BY <1>1, <2>2 DEF Injected, Run
  <1>3. /\ begun.pc = "start" /\ begun.attempt = 0 /\ begun.again = FALSE /\ begun.memory = cached
        /\ SameCounts(begun, run[r]) /\ SameCancel(begun, run[r]) /\ begun.event = run[r].event
    BY <1>1 DEF Injected, Run, SameCounts, SameCancel
  <1>4. /\ run' = [run EXCEPT ![r] = run'[r]]
        /\ run'[r] = [begun EXCEPT !.steps = begun.steps + 1]
    BY DEF EnterModel, IInv, TypeOK
  <1> HIDE DEF begun
  <1>5. /\ run'[r].pc = "start" /\ run'[r].attempt = 0 /\ run'[r].again = FALSE
        /\ run'[r].memory = cached /\ run'[r].steps = run[r].steps + 1
        /\ SameCounts(run'[r], run[r]) /\ SameCancel(run'[r], run[r])
        /\ run'[r].event = run[r].event
    BY <1>1, <1>2, <1>3, <1>4 DEF SameCounts, SameCancel, Run
  <1>6. run'[r] \in Run
    <2>1. begun.steps + 1 \in 0..MaxSteps
      BY <1>1, <1>2, Fields, AgentRunsAssumption
    <2> QED
      BY <2>1, <1>2, <1>4 DEF Run
  <1>7. UNCHANGED <<served, ctx, cached, logs, usage, faults, lossy, mixed>>
    BY DEF EnterModel
  <1>8. CountsOK(r)' /\ Logged(r)'
    BY <1>1, <1>5, <1>7, Fields DEF RunOK, CountsOK, Logged, Active, At, SameCounts
  <1>9. LateOK(r)'
    <2>1. Remaining(r)' <= 2 * (Fallbacks + 1) /\ Remaining(r)' \in Nat
      BY <1>5, AgentRunsAssumption DEF Remaining, At
    <2> QED
      BY <1>1, <1>5, <1>7, <2>1, Fields, AgentRunsAssumption DEF RunOK, LateOK, At, SameCancel
  <1>10. Prompt(r)'
    BY <1>1, <1>5, <1>7 DEF RunOK, Prompt, SameCancel
  <1> QED
    BY <1>1, <1>4, <1>5, <1>6, <1>7, <1>8, <1>9, <1>10, QuietStep DEF At

\* A call that begins is one fewer that may.
LEMMA StartCallInv == ASSUME IInv, NEW r \in Runs, StartCall(r) PROVE IInv'
  <1>1. run[r] \in Run /\ RunOK(r) /\ run[r].pc = "start" /\ r \in Active /\ ~run[r].stopped
    BY DEF IInv, TypeOK, StartCall, At, Active
  <1>2. Late(r) \in {0, 1} /\ (~run[r].requested => Late(r) = 0)
    BY DEF Late
  <1>3. /\ run' = [run EXCEPT ![r] = run'[r]]
        /\ run'[r] = [run[r] EXCEPT !.pc = "call", !.late = run[r].late + Late(r)]
    BY <1>1 DEF StartCall, Go, IInv, TypeOK, Run
  <1>4. /\ run'[r].pc = "call" /\ run'[r].late = run[r].late + Late(r)
        /\ SameCounts(run'[r], run[r]) /\ run'[r].steps = run[r].steps
        /\ run'[r].requested = run[r].requested /\ run'[r].stopped = run[r].stopped
        /\ run'[r].lateTools = run[r].lateTools /\ run'[r].event = run[r].event
        /\ run'[r].memory = run[r].memory
    BY <1>1, <1>3 DEF SameCounts, Run
  <1>5. UNCHANGED <<served, ctx, cached, logs, usage, faults, lossy, mixed>>
    BY DEF StartCall
  <1>6. run'[r] \in Run
    <2>1. run[r].late + Late(r) \in Nat
      BY <1>2, Fields
    <2> QED
      BY <1>1, <1>3, <2>1 DEF Run, Places
  <1>7. CountsOK(r)' /\ Logged(r)'
    BY <1>1, <1>4, <1>5, Fields DEF RunOK, CountsOK, Logged, Active, At, SameCounts
  <1>8. Remaining(r)' + 1 = Remaining(r) /\ Remaining(r)' \in Nat
    BY <1>1, <1>3, AgentRunsAssumption DEF Remaining, Second, At, Run
  <1>9. LateOK(r)'
    BY <1>1, <1>2, <1>4, <1>5, <1>8, Fields, AgentRunsAssumption DEF RunOK, LateOK, At
  <1>10. Prompt(r)'
    <2>1. ~served => run'[r].late <= 2 * (Fallbacks + 1)
      BY <1>1, <1>2, <1>4, <1>8, Fields, AgentRunsAssumption DEF RunOK, LateOK, At
    <2> QED
      BY <1>1, <1>2, <1>4, <1>5, <2>1, Fields, AgentRunsAssumption DEF RunOK, Prompt
  <1> QED
    BY <1>1, <1>3, <1>4, <1>5, <1>6, <1>7, <1>9, <1>10, QuietStep DEF At

\* A token makes an event of a call.
LEMMA TokenInv == ASSUME IInv, NEW r \in Runs, Token(r) PROVE IInv'
  <1>1. run[r] \in Run /\ RunOK(r) /\ run[r].pc = "call" /\ r \in Active
    BY DEF IInv, TypeOK, Token, At, Active
  <1>2. /\ run' = [run EXCEPT ![r] = run'[r]]
        /\ run'[r] = [run[r] EXCEPT !.event = TRUE]
        /\ UNCHANGED <<served, ctx, cached, logs, usage, faults, lossy, mixed>>
    BY <1>1 DEF Token, IInv, TypeOK, Run
  <1>3. /\ run'[r].pc = "call" /\ SameCounts(run'[r], run[r]) /\ SameCancel(run'[r], run[r])
        /\ run'[r].steps = run[r].steps /\ run'[r].memory = run[r].memory
    BY <1>1, <1>2 DEF SameCounts, SameCancel, Run
  <1>4. run'[r] \in Run
    BY <1>1, <1>2 DEF Run
  <1>5. CountsOK(r)' /\ Logged(r)'
    BY <1>1, <1>2, <1>3, Fields DEF RunOK, CountsOK, Logged, Active, At, SameCounts
  <1>6. LateOK(r)'
    <2>1. Remaining(r)' = Remaining(r)
      BY <1>1, <1>2 DEF Remaining, Second, At, Run
    <2> QED
      BY <1>1, <1>2, <1>3, <2>1 DEF RunOK, LateOK, At, SameCancel
  <1>7. Prompt(r)'
    BY <1>1, <1>2, <1>3 DEF RunOK, Prompt, SameCancel
  <1> QED
    BY <1>1, <1>2, <1>3, <1>4, <1>5, <1>6, <1>7, QuietStep DEF At

\* An answer waits for its log.
LEMMA CompleteInv == ASSUME IInv, NEW r \in Runs, Complete(r) PROVE IInv'
  <1>1. run[r] \in Run /\ RunOK(r) /\ run[r].pc = "call" /\ r \in Active
    BY DEF IInv, TypeOK, Complete, At, Active
  <1>2. PICK answer \in {"tool", "final"} :
          run' = [run EXCEPT ![r] = [Go(r, "persist") EXCEPT !.answers = @ + 1,
                                                            !.answer = answer]]
    BY DEF Complete
  <1>3. /\ run' = [run EXCEPT ![r] = run'[r]]
        /\ run'[r] = [run[r] EXCEPT !.pc = "persist", !.answers = run[r].answers + 1,
                                    !.answer = answer]
    BY <1>1, <1>2 DEF Complete, Go, IInv, TypeOK, Run
  <1>4. /\ run'[r].pc = "persist" /\ run'[r].answers = run[r].answers + 1
        /\ run'[r].steps = run[r].steps /\ run'[r].owed = run[r].owed
        /\ run'[r].event = run[r].event
        /\ SameCancel(run'[r], run[r]) /\ run'[r].memory = run[r].memory
    BY <1>1, <1>3 DEF SameCancel, Run
  <1>5. UNCHANGED <<served, ctx, cached, logs, usage, faults, lossy, mixed>>
    BY DEF Complete
  <1>6. run[r].answers < run[r].steps /\ ~run[r].owed
    BY <1>1 DEF RunOK, CountsOK, At
  <1>7. run'[r] \in Run
    <2>1. run[r].answers + 1 \in 0..MaxSteps
      BY <1>1, <1>6, AgentRunsAssumption DEF Run
    <2> QED
      BY <1>1, <1>3, <2>1 DEF Run, Places
  <1>8. CountsOK(r)'
    BY <1>1, <1>4, <1>5, <1>6, Fields DEF RunOK, CountsOK, Active, At
  <1>9. Logged(r)'
    BY <1>1, <1>4, <1>5, <1>6, Fields DEF RunOK, Logged, At
  <1>10. LateOK(r)' /\ Prompt(r)'
    BY <1>1, <1>4, <1>5 DEF RunOK, LateOK, Prompt, At, SameCancel
  <1> QED
    BY <1>1, <1>3, <1>4, <1>5, <1>7, <1>8, <1>9, <1>10, QuietStep DEF At

\* A cancelled run goes through the tools once: the event that the node sends stops it.
LEMMA ToolsInv == ASSUME IInv, NEW r \in Runs, Tools(r) PROVE IInv'
  <1>1. run[r] \in Run /\ RunOK(r) /\ run[r].pc = "tools" /\ r \in Active
        /\ (served \/ ~run[r].event)
    BY DEF IInv, TypeOK, Tools, Turn, At, Active
  <1>2. Late(r) \in {0, 1} /\ (~run[r].requested => Late(r) = 0)
    BY DEF Late
  <1> DEFINE sent == ~served /\ ~run[r].stopped
  <1>3. /\ run' = [run EXCEPT ![r] = run'[r]]
        /\ run'[r] = [run[r] EXCEPT !.pc = "model", !.event = sent,
                                    !.lateTools = run[r].lateTools + Late(r)]
    BY <1>1 DEF Tools, NodeEnds, IInv, TypeOK, Run
  <1>4. /\ run'[r].pc = "model" /\ run'[r].lateTools = run[r].lateTools + Late(r)
        /\ run'[r].event = sent /\ run'[r].late = run[r].late
        /\ SameCounts(run'[r], run[r]) /\ run'[r].steps = run[r].steps
        /\ run'[r].requested = run[r].requested /\ run'[r].stopped = run[r].stopped
        /\ run'[r].memory = run[r].memory
    BY <1>1, <1>3 DEF SameCounts, Run
  <1>5. UNCHANGED <<served, ctx, cached, logs, usage, faults, lossy, mixed>>
    BY DEF Tools
  <1>6. sent \in BOOLEAN
    OBVIOUS
  <1>7. ~served /\ ~sent => run[r].stopped
    OBVIOUS
  <1> HIDE DEF sent
  <1>8. run'[r] \in Run
    <2>1. run[r].lateTools + Late(r) \in Nat
      BY <1>2, Fields
    <2> QED
      BY <1>1, <1>3, <1>6, <2>1 DEF Run, Places
  <1>9. CountsOK(r)' /\ Logged(r)'
    BY <1>1, <1>4, <1>5, Fields DEF RunOK, CountsOK, Logged, Active, At, SameCounts
  <1>10. ~served => run[r].lateTools = 0
    BY <1>1, Fields DEF RunOK, LateOK, Prompt, At
  <1>11. LateOK(r)'
    BY <1>1, <1>2, <1>4, <1>5, <1>7, <1>10 DEF RunOK, LateOK, At
  <1>12. Prompt(r)'
    BY <1>1, <1>2, <1>4, <1>5, <1>10 DEF RunOK, Prompt
  <1> QED
    BY <1>1, <1>3, <1>4, <1>5, <1>8, <1>9, <1>11, <1>12, QuietStep DEF At

\* A model node that goes on with another attempt, with no more calls ahead than before.
LEMMA RetryInv ==
    ASSUME IInv, NEW r \in Runs, At(r, "start") \/ At(r, "call"),
           run' = [run EXCEPT ![r] = run'[r]], run'[r] \in Run,
           UNCHANGED <<served, ctx, cached, logs, usage, faults, lossy, mixed>>,
           run'[r].pc = "start", run'[r].steps = run[r].steps, run'[r].event = run[r].event,
           SameCounts(run'[r], run[r]), SameCancel(run'[r], run[r]),
           run'[r].memory \in {run[r].memory, cached, None},
           ~served /\ ~run[r].stopped => Remaining(r)' <= Remaining(r)
    PROVE  IInv'
  <1>1. RunOK(r) /\ r \in Active
    BY DEF IInv, At, Active
  <1>2. Remaining(r) \in Nat /\ Remaining(r)' \in Nat
    <2>1. run[r].attempt \in 0..Fallbacks /\ run'[r].attempt \in 0..Fallbacks
      BY Fields, AgentRunsAssumption DEF Run
    <2> QED
      BY <2>1, AgentRunsAssumption DEF Remaining
  <1>3. CountsOK(r)' /\ Logged(r)'
    BY <1>1, Fields DEF RunOK, CountsOK, Logged, Active, At, SameCounts
  <1>4. LateOK(r)'
    BY <1>1, <1>2, Fields, AgentRunsAssumption DEF RunOK, LateOK, At, SameCancel
  <1>5. Prompt(r)'
    BY <1>1 DEF RunOK, Prompt, SameCancel
  <1> QED
    BY <1>1, <1>3, <1>4, <1>5, QuietStep DEF At

\* The second call of the memory middleware, in the record m, keeps the counts and is the last.
Called(m, r, attempt) ==
    /\ m \in Run /\ m.pc = "start" /\ m.attempt = attempt /\ m.again = TRUE
    /\ m.memory = None /\ m.steps = run[r].steps /\ m.event = run[r].event
    /\ SameCounts(m, run[r]) /\ SameCancel(m, run[r])

\* That is what Again does.
LEMMA AgainCalled ==
    ASSUME IInv, NEW r \in Runs, NEW attempt \in 0..Fallbacks
    PROVE  Called(Again(r, attempt), r, attempt)
  <1>1. run[r] \in Run
    BY DEF IInv, TypeOK
  <1>2. Again(r, attempt) \in Run
    BY <1>1 DEF Again, Run, Places
  <1>3. /\ Again(r, attempt).pc = "start" /\ Again(r, attempt).attempt = attempt
        /\ Again(r, attempt).again = TRUE /\ Again(r, attempt).memory = None
        /\ Again(r, attempt).steps = run[r].steps /\ Again(r, attempt).event = run[r].event
        /\ SameCounts(Again(r, attempt), run[r]) /\ SameCancel(Again(r, attempt), run[r])
    BY <1>1 DEF Again, Run, SameCounts, SameCancel
  <1> QED
    BY <1>2, <1>3 DEF Called

\* An interrupted call is the last, but for the second call of the memory middleware.
LEMMA InterruptInv == ASSUME IInv, NEW r \in Runs, Interrupt(r) PROVE IInv'
  <1>1. /\ run[r] \in Run /\ RunOK(r) /\ run[r].stopped /\ r \in Active
        /\ At(r, "start") \/ At(r, "call")
    BY DEF IInv, TypeOK, Interrupt, At, Active
  <1>2. UNCHANGED <<served, ctx, cached, logs, usage, faults, lossy, mixed>>
    BY DEF Interrupt
  <1>3. run' = [run EXCEPT ![r] = run'[r]] /\ run'[r] = IF Second(r) THEN Again(r, 0) ELSE Ended(r)
    BY DEF Interrupt, IInv, TypeOK
  <1>4. CASE Second(r)
    <2>1. 0 \in 0..Fallbacks
      BY AgentRunsAssumption
    <2>2. Called(run'[r], r, 0)
      BY <1>3, <1>4, <2>1, AgainCalled
    <2> QED
      BY <1>1, <1>2, <1>3, <2>2, RetryInv DEF Called
  <1>5. CASE ~Second(r)
    <2>1. Over(run'[r], r, 0)
      BY <1>3, <1>5, EndedOver
    <2>2. ~At(r, "persist") /\ ~run[r].owed
      BY <1>1 DEF RunOK, CountsOK, At
    <2> QED
      BY <1>1, <1>2, <1>3, <2>1, <2>2, EndInv DEF IInv, TypeOK
  <1> QED
    BY <1>4, <1>5

\* A failed call is followed by the next attempt, or is the end.
LEMMA FailInv == ASSUME IInv, NEW r \in Runs, Fail(r) PROVE IInv'
  <1>1. run[r] \in Run /\ RunOK(r) /\ r \in Active /\ run[r].pc = "call"
    BY DEF IInv, TypeOK, Fail, At, Active
  <1>2. UNCHANGED <<served, ctx, cached, logs, usage, faults, lossy, mixed>>
    BY DEF Fail
  <1>3. /\ run' = [run EXCEPT ![r] = run'[r]]
        /\ run'[r] = IF served THEN FailedThere(r) ELSE FailedHere(r)
    BY DEF Fail, IInv, TypeOK
  <1>4. run[r].attempt \in 0..Fallbacks /\ (More(r) => run[r].attempt + 1 \in 0..Fallbacks)
        /\ 0 \in 0..Fallbacks
    BY <1>1, AgentRunsAssumption DEF More, Run
  <1>5. CASE run'[r] = Ended(r)
    <2>1. Over(run'[r], r, 0)
      BY <1>5, EndedOver
    <2>2. ~At(r, "persist") /\ ~run[r].owed
      BY <1>1 DEF RunOK, CountsOK, At
    <2> QED
      BY <1>1, <1>2, <1>3, <2>1, <2>2, EndInv DEF IInv, TypeOK
  <1>6. CASE served /\ run'[r] = Again(r, run[r].attempt)
    <2>1. Called(run'[r], r, run[r].attempt)
      BY <1>4, <1>6, AgainCalled
    <2> QED
      BY <1>1, <1>2, <1>3, <1>6, <2>1, RetryInv DEF At, Called
  <1>7. CASE served /\ More(r) /\ run'[r] = Injected(r, run[r].attempt + 1)
    <2> DEFINE m == Injected(r, run[r].attempt + 1)
    <2>1. m \in Run
      BY <1>4, <1>7, InjectedRun
    <2>2. /\ m.pc = "start" /\ m.memory = cached /\ m.steps = run[r].steps
          /\ m.event = run[r].event /\ SameCounts(m, run[r]) /\ SameCancel(m, run[r])
      BY <1>1 DEF Injected, Run, SameCounts, SameCancel
    <2> HIDE DEF m
    <2>3. run'[r] = m
      BY <1>7 DEF m
    <2> QED
      BY <1>1, <1>2, <1>3, <1>7, <2>1, <2>2, <2>3, RetryInv DEF At
  <1>8. CASE ~served /\ More(r) /\ run'[r] = [Go(r, "start") EXCEPT !.attempt = @ + 1]
    <2>1. run'[r] = [run[r] EXCEPT !.pc = "start", !.attempt = run[r].attempt + 1]
      BY <1>1, <1>8 DEF Go, Run
    <2>2. run'[r] \in Run
      BY <1>1, <1>4, <1>8, <2>1 DEF Run, Places
    <2>3. /\ run'[r].pc = "start" /\ run'[r].attempt = run[r].attempt + 1
          /\ run'[r].memory = run[r].memory /\ run'[r].steps = run[r].steps
          /\ run'[r].event = run[r].event /\ run'[r].guarded = run[r].guarded
          /\ run'[r].again = run[r].again
          /\ SameCounts(run'[r], run[r]) /\ SameCancel(run'[r], run[r])
      BY <1>1, <2>1 DEF Run, SameCounts, SameCancel
    <2>4. Remaining(r)' <= Remaining(r)
      BY <1>1, <2>3, Fields, AgentRunsAssumption DEF Remaining, Second, At
    <2> QED
      BY <1>1, <1>2, <1>3, <2>2, <2>3, <2>4, RetryInv DEF At
  <1>9. CASE ~served /\ ~More(r) /\ Second(r) /\ run'[r] = Again(r, 0)
    <2>1. Called(run'[r], r, 0)
      BY <1>4, <1>9, AgainCalled
    <2>2. Remaining(r)' <= Remaining(r)
      BY <1>1, <1>9, <2>1, Fields, AgentRunsAssumption DEF Remaining, Second, At, Called
    <2> QED
      BY <1>1, <1>2, <1>3, <2>1, <2>2, RetryInv DEF At, Called
  <1> QED
    BY <1>3, <1>5, <1>6, <1>7, <1>8, <1>9 DEF FailedThere, FailedHere

\* The end of a node in the record m: an event is sent unless the stream is stopped.
Sent(m, r, pc) ==
    /\ m \in Run /\ m.pc = pc /\ m.event = (~served /\ ~run[r].stopped)
    /\ m.steps = run[r].steps /\ m.answers = run[r].answers /\ m.memory = run[r].memory
    /\ SameCancel(m, run[r])

\* That is what NodeEnds does, also when whether a log is owed changes.
LEMMA NodeEndsSent ==
    ASSUME IInv, NEW r \in Runs, NEW pc \in Places
    PROVE  /\ Sent(NodeEnds(r, pc), r, pc) /\ NodeEnds(r, pc).owed = run[r].owed
           /\ \A owed \in BOOLEAN :
                LET m == [NodeEnds(r, pc) EXCEPT !.owed = owed]
                IN  Sent(m, r, pc) /\ m.owed = owed
  <1> DEFINE sent == ~served /\ ~run[r].stopped
             m == NodeEnds(r, pc)
  <1>1. run[r] \in Run /\ sent \in BOOLEAN
    BY DEF IInv, TypeOK
  <1>2. m = [run[r] EXCEPT !.pc = pc, !.event = sent]
    BY DEF NodeEnds
  <1> HIDE DEF sent, m
  <1>3. m \in Run
    BY <1>1, <1>2 DEF Run
  <1>4. /\ m.pc = pc /\ m.event = sent /\ m.steps = run[r].steps
        /\ m.answers = run[r].answers /\ m.memory = run[r].memory
        /\ SameCancel(m, run[r]) /\ m.owed = run[r].owed
    BY <1>1, <1>2 DEF Run, SameCancel
  <1>5. Sent(m, r, pc)
    BY <1>3, <1>4 DEF Sent, sent
  <1>6. ASSUME NEW owed \in BOOLEAN
        PROVE  Sent([m EXCEPT !.owed = owed], r, pc) /\ [m EXCEPT !.owed = owed].owed = owed
    <2>1. [m EXCEPT !.owed = owed] \in Run
      BY <1>3 DEF Run
    <2>2. LET n == [m EXCEPT !.owed = owed]
          IN  /\ n.pc = m.pc /\ n.event = m.event /\ n.steps = m.steps
              /\ n.answers = m.answers /\ n.memory = m.memory
              /\ SameCancel(n, m) /\ n.owed = owed
      BY <1>3 DEF Run, SameCancel
    <2> QED
      BY <2>1, <2>2, <1>5 DEF Sent, SameCancel
  <1> QED
    BY <1>4, <1>5, <1>6 DEF m

\* The log of an answer is written, or owed to after_model, which then finds no context
\* unless a killed run left one.
LEMMA PersistInv == ASSUME IInv, NEW r \in Runs, Persist(r) PROVE IInv'
  <1>1. run[r] \in Run /\ RunOK(r) /\ r \in Active /\ run[r].pc = "persist"
    BY DEF IInv, TypeOK, Persist, At, Active
  <1>2. UNCHANGED <<served, cached, usage>> /\ "after" \in Places
    BY DEF Persist, Places
  <1>3. /\ ~run[r].owed /\ logs[r] + 2 <= 2 * run[r].answers
        /\ run[r].answers <= run[r].steps /\ run[r].steps <= MaxSteps
        /\ r \notin lossy \union mixed => logs[r] + 1 = run[r].answers
    BY <1>1, Fields, AgentRunsAssumption DEF RunOK, CountsOK, Logged, At, Run
  <1>4. ASSUME Sent(run'[r], r, "after"), run' = [run EXCEPT ![r] = run'[r]],
               NEW n \in {0, 1}, logs' = [logs EXCEPT ![r] = @ + n],
               run'[r].owed \in BOOLEAN,
               lossy \subseteq lossy', lossy' \subseteq Runs,
               mixed \subseteq mixed', mixed' \subseteq Runs, faults' \in 0..MaxFaults,
               ctx' \in {ctx, r},
               r \notin mixed' => ctx' = IF run'[r].owed THEN None ELSE r,
               r \notin lossy' => n = IF run'[r].owed THEN 0 ELSE 1
        PROVE  IInv'
    <2> USE <1>4
    <2>1. logs'[r] = logs[r] + n
      BY DEF IInv, TypeOK
    <2>2. TypeOK'
      <3>1. logs[r] + n \in 0..(2 * MaxSteps)
        BY <1>3, Fields, AgentRunsAssumption
      <3> QED
        BY <1>2, <3>1 DEF IInv, TypeOK, Sent
    <2>3. Frame(r)
      BY <1>1, <1>2, ActiveMet DEF Frame, IInv, TypeOK
    <2>4. CountsOK(r)'
      BY <1>1, <1>3, <2>1, Fields DEF CountsOK, At, Active, Sent
    <2>5. Logged(r)'
      BY <1>1, <1>3, <2>1, Fields DEF Logged, At, Sent
    <2>6. CtxOK(r)' /\ CachedOK(r)'
      BY <1>1, <1>2 DEF RunOK, CtxOK, CachedOK, At, Sent
    <2>7. LateOK(r)'
      BY <1>1, <1>2 DEF RunOK, LateOK, At, Sent, SameCancel
    <2>8. Isolated(r)' /\ Prompt(r)'
      BY <1>1, <1>2 DEF RunOK, Isolated, Prompt, Sent, SameCancel
    <2> QED
      BY <2>2, <2>3, <2>4, <2>5, <2>6, <2>7, <2>8, StepInv DEF RunOK
  <1>5. CASE /\ run' = [run EXCEPT ![r] = NodeEnds(r, "after")]
             /\ WriteLog(r, 1)
             /\ ctx' = r
             /\ UNCHANGED <<faults, lossy, mixed>>
    <2>1. run' = [run EXCEPT ![r] = run'[r]] /\ run'[r] = NodeEnds(r, "after")
      BY <1>5 DEF IInv, TypeOK
    <2>2. Sent(run'[r], r, "after") /\ run'[r].owed = run[r].owed
      BY <1>2, <2>1, NodeEndsSent
    <2>3. run'[r].owed = FALSE
      BY <2>2, <1>1, <1>3 DEF Run
    <2> QED
      BY <1>4, <1>5, <2>1, <2>2, <2>3 DEF IInv, TypeOK, WriteLog
  <1>6. CASE /\ Fault
             /\ run' = [run EXCEPT ![r] = [NodeEnds(r, "after") EXCEPT !.owed = TRUE]]
             /\ \E written \in {0, 1} :
                   /\ WriteLog(r, written)
                   /\ lossy' = IF written = 1 THEN lossy \union {r} ELSE lossy
             /\ mixed' = IF ctx # None THEN mixed \union {r} ELSE mixed
             /\ UNCHANGED ctx
    <2>1. /\ run' = [run EXCEPT ![r] = run'[r]]
          /\ run'[r] = [NodeEnds(r, "after") EXCEPT !.owed = TRUE]
      BY <1>6 DEF IInv, TypeOK
    <2>2. Sent(run'[r], r, "after") /\ run'[r].owed = TRUE
      BY <1>2, <2>1, NodeEndsSent
    <2>3. PICK written \in {0, 1} :
                   /\ WriteLog(r, written)
                   /\ lossy' = IF written = 1 THEN lossy \union {r} ELSE lossy
      BY <1>6
    <2>4. faults' \in 0..MaxFaults
      BY <1>6, AgentRunsAssumption DEF Fault, IInv, TypeOK
    <2> QED
      BY <1>4, <1>6, <2>1, <2>2, <2>3, <2>4 DEF IInv, TypeOK, WriteLog
  <1> QED
    BY <1>5, <1>6 DEF Persist

\* after_model writes the log that is owed, and counts the run's own tokens.
LEMMA AfterModelInv == ASSUME IInv, NEW r \in Runs, AfterModel(r) PROVE IInv'
  <1>1. run[r] \in Run /\ RunOK(r) /\ r \in Active /\ run[r].pc = "after"
    BY DEF IInv, TypeOK, AfterModel, Turn, At, Active
  <1>2. /\ UNCHANGED <<served, cached, mixed>> /\ ctx' = None
        /\ usage' = [usage EXCEPT ![r] = @ \union {IF ctx = None THEN r ELSE ctx}]
    BY DEF AfterModel
  <1>3. /\ logs[r] + 1 <= 2 * run[r].answers
        /\ run[r].answers <= run[r].steps /\ run[r].steps <= MaxSteps
        /\ r \notin lossy \union mixed =>
             logs[r] + (IF run[r].owed THEN 1 ELSE 0) = run[r].answers
        /\ r \notin mixed => ctx = IF run[r].owed THEN None ELSE r
    BY <1>1, Fields, AgentRunsAssumption DEF RunOK, CountsOK, Logged, CtxOK, At, Run
  <1>4. PICK n \in {0, 1} :
          /\ logs' = [logs EXCEPT ![r] = @ + n]
          /\ lossy \subseteq lossy' /\ lossy' \subseteq Runs /\ faults' \in 0..MaxFaults
          /\ r \notin lossy' => n = IF ctx = None THEN 1 ELSE 0
    <2>1. CASE ctx # None /\ UNCHANGED <<logs, faults, lossy>>
      <3>1. logs' = [logs EXCEPT ![r] = logs[r] + 0]
        BY <2>1, Fields DEF IInv, TypeOK
      <3> QED
        BY <2>1, <3>1 DEF IInv, TypeOK
    <2>2. CASE ctx = None /\ WriteLog(r, 1) /\ UNCHANGED <<faults, lossy>>
      BY <2>2 DEF IInv, TypeOK, WriteLog
    <2>3. CASE ctx = None /\ Fault /\ lossy' = lossy \union {r} /\ UNCHANGED logs
      <3>1. logs' = [logs EXCEPT ![r] = logs[r] + 0]
        BY <2>3, Fields DEF IInv, TypeOK
      <3>2. faults' \in 0..MaxFaults
        BY <2>3, AgentRunsAssumption DEF IInv, TypeOK, Fault
      <3> QED
        BY <2>3, <3>1, <3>2 DEF IInv, TypeOK
    <2> QED
      BY <2>1, <2>2, <2>3 DEF AfterModel
  <1> DEFINE pc == IF run[r].answer = "tool" THEN "tools" ELSE "analyse"
  <1>5. pc \in {"tools", "analyse"} /\ pc \in Places
    BY DEF Places
  <1>6. /\ run' = [run EXCEPT ![r] = run'[r]]
        /\ run'[r] = [NodeEnds(r, pc) EXCEPT !.owed = FALSE]
    BY DEF AfterModel, IInv, TypeOK
  <1> HIDE DEF pc
  <1>7. Sent(run'[r], r, pc) /\ run'[r].owed = FALSE
    BY <1>5, <1>6, NodeEndsSent
  <1>8. logs'[r] = logs[r] + n
    BY <1>4 DEF IInv, TypeOK
  <1>9. TypeOK'
    <2>1. logs[r] + n \in 0..(2 * MaxSteps)
      BY <1>3, Fields, AgentRunsAssumption
    <2>2. (IF ctx = None THEN r ELSE ctx) \in Runs
      BY DEF IInv, TypeOK
    <2>3. usage' \in [Runs -> SUBSET Runs]
      BY <1>2, <2>2 DEF IInv, TypeOK
    <2> QED
      BY <1>2, <1>4, <1>6, <1>7, <2>1, <2>3 DEF IInv, TypeOK, Sent
  <1>10. Frame(r)
    BY <1>1, <1>2, <1>4, <1>6, ActiveMet DEF Frame, IInv, TypeOK
  <1>11. CountsOK(r)'
    BY <1>1, <1>3, <1>5, <1>7, <1>8, Fields DEF CountsOK, At, Active, Sent
  <1>12. Logged(r)'
    <2>1. r \notin lossy' \union mixed => n = IF run[r].owed THEN 1 ELSE 0
      BY <1>3, <1>4, AgentRunsAssumption
    <2>2. r \notin lossy' \union mixed => logs[r] + n = run[r].answers
      BY <1>3, <1>4, <2>1, Fields
    <2> QED
      BY <1>2, <1>4, <1>5, <1>7, <1>8, <2>2, Fields DEF Logged, At, Sent
  <1>13. CtxOK(r)' /\ CachedOK(r)'
    BY <1>1, <1>2, <1>5, <1>7 DEF RunOK, CtxOK, CachedOK, At, Sent
  <1>14. LateOK(r)'
    BY <1>1, <1>2, <1>5, <1>7 DEF RunOK, LateOK, At, Sent, SameCancel
  <1>15. Isolated(r)' /\ Prompt(r)'
    <2>1. r \notin mixed /\ ~served => usage'[r] \subseteq {r}
      BY <1>1, <1>2, <1>3 DEF RunOK, Isolated, IInv, TypeOK
    <2> QED
      BY <1>1, <1>2, <1>7, <2>1 DEF RunOK, Isolated, Prompt, Sent, SameCancel
  <1> QED
    BY <1>9, <1>10, <1>11, <1>12, <1>13, <1>14, <1>15, StepInv DEF RunOK

\* A run at its recursion limit ends, with nothing to log.
LEMMA RecursionLimitInv == ASSUME IInv, NEW r \in Runs, RecursionLimit(r) PROVE IInv'
  <1>1. RunOK(r) /\ r \in Active /\ run[r].pc = "model"
    BY DEF IInv, RecursionLimit, Turn, At, Active
  <1>2. /\ run' = [run EXCEPT ![r] = run'[r]] /\ run'[r] = Ended(r)
        /\ UNCHANGED <<served, ctx, cached, logs, usage, faults, lossy, mixed>>
    BY DEF RecursionLimit, IInv, TypeOK
  <1>3. ~At(r, "persist") /\ ~run[r].owed /\ Over(run'[r], r, 0)
    BY <1>1, <1>2, EndedOver DEF RunOK, CountsOK, At
  <1> QED
    BY <1>1, <1>2, <1>3, EndInv DEF IInv, TypeOK

\* The analysis makes its calls in a run that was not stopped, and whose events were read
\* until there: then it has made none since the request to cancel.
LEMMA AnalyseInv == ASSUME IInv, NEW r \in Runs, Analyse(r) PROVE IInv'
  <1>1. /\ run[r] \in Run /\ RunOK(r) /\ r \in Active /\ run[r].pc = "analyse"
        /\ served \/ ~run[r].event
    BY DEF IInv, TypeOK, Analyse, Turn, At, Active
  <1>2. PICK calls \in AnalysisCalls(r) :
          run' = [run EXCEPT ![r] = [Ended(r) EXCEPT !.late = @ + calls * Late(r)]]
    BY DEF Analyse
  <1>3. UNCHANGED <<served, ctx, cached, logs, usage, faults, lossy, mixed>>
    BY DEF Analyse
  <1>4. calls \in Nat /\ Late(r) \in {0, 1} /\ (run[r].stopped => calls = 0)
        /\ calls \in {0, Analysis}
    BY <1>2, AgentRunsAssumption DEF AnalysisCalls, Late
  <1> DEFINE n == calls * Late(r)
  <1>5. n \in Nat /\ n \in {0, Analysis} /\ (run[r].stopped => n = 0)
    BY <1>4, AgentRunsAssumption
  <1> DEFINE last == Ended(r)
  <1>6. run' = [run EXCEPT ![r] = run'[r]] /\ run'[r] = [last EXCEPT !.late = last.late + n]
    BY <1>2 DEF IInv, TypeOK
  <1>7. Over(last, r, 0)
    BY EndedOver
  <1> HIDE DEF n, last
  <1>8. Over(run'[r], r, n)
    <2>1. last.late = run[r].late
      BY <1>7, Fields DEF Over
    <2>2. run'[r] \in Run
      <3>1. last.late + n \in Nat
        BY <1>5, <2>1, Fields
      <3> QED
        BY <1>6, <1>7, <3>1 DEF Over, Run
    <2>3. run'[r].late = run[r].late + n
      BY <1>6, <1>7, <2>1 DEF Over, Run
    <2>4. /\ run'[r].pc = last.pc /\ run'[r].answers = last.answers
          /\ run'[r].lateTools = last.lateTools /\ run'[r].memory = last.memory
          /\ run'[r].owed = last.owed /\ run'[r].event = last.event
          /\ run'[r].stopped = last.stopped
      BY <1>6, <1>7 DEF Over, Run
    <2> QED
      BY <1>7, <2>2, <2>3, <2>4 DEF Over
  <1>9. ~served => n = 0 \/ (run[r].late = 0 /\ n = Analysis)
    BY <1>1, <1>5 DEF RunOK, LateOK, At
  <1>10. ~At(r, "persist") /\ ~run[r].owed
    BY <1>1 DEF RunOK, CountsOK, At
  <1> QED
    BY <1>1, <1>3, <1>5, <1>6, <1>8, <1>9, <1>10, EndInv DEF IInv, TypeOK

\* When a user asks to cancel, nothing has been done since.
LEMMA RequestInv == ASSUME IInv, NEW r \in Runs, Request(r) PROVE IInv'
  <1>1. run[r] \in Run /\ RunOK(r) /\ r \in Active /\ ~run[r].requested
    BY DEF IInv, TypeOK, Request
  <1>2. /\ run' = [run EXCEPT ![r] = run'[r]] /\ run'[r] = [run[r] EXCEPT !.requested = TRUE]
    BY DEF Request, IInv, TypeOK
  <1>3. UNCHANGED <<served, ctx, cached, logs, usage, faults, lossy, mixed>>
    BY DEF Request
  <1>4. run'[r] \in Run
    BY <1>1, <1>2 DEF Run
  <1>5. /\ run'[r].pc = run[r].pc /\ run'[r].steps = run[r].steps
        /\ SameCounts(run'[r], run[r]) /\ run'[r].event = run[r].event
        /\ run'[r].stopped = run[r].stopped /\ run'[r].memory = run[r].memory
        /\ run'[r].late = run[r].late /\ run'[r].lateTools = run[r].lateTools
        /\ run'[r].attempt = run[r].attempt /\ run'[r].guarded = run[r].guarded
        /\ run'[r].again = run[r].again /\ run'[r].requested = TRUE
    BY <1>1, <1>2 DEF Run, SameCounts
  <1>6. CountsOK(r)' /\ Logged(r)'
    BY <1>1, <1>3, <1>5 DEF RunOK, CountsOK, Logged, Active, At, SameCounts
  <1>7. LateOK(r)'
    <2>1. Remaining(r)' \in Nat /\ Remaining(r)' <= 2 * (Fallbacks + 1)
      BY <1>5, Fields, AgentRunsAssumption DEF Remaining
    <2>2. ~served => run[r].late = 0 /\ run[r].lateTools = 0
      BY <1>1 DEF RunOK, LateOK
    <2> QED
      BY <1>3, <1>5, <2>1, <2>2 DEF LateOK
  <1>8. Prompt(r)'
    BY <1>1, <1>3, <1>5 DEF RunOK, Prompt
  <1> QED
    BY <1>1, <1>2, <1>3, <1>4, <1>5, <1>6, <1>7, <1>8, QuietStep DEF At, SameCounts

\* A run is killed: its log may be lost.
LEMMA KillInv ==
    ASSUME IInv, NEW r \in Runs, r \in Active, Kill(r),
           UNCHANGED <<served, ctx, cached, logs, usage, faults, mixed>>
    PROVE  IInv'
  <1>1. run' = [run EXCEPT ![r] = run'[r]] /\ run'[r] = Ended(r)
    BY DEF Kill, IInv, TypeOK
  <1>2. Over(run'[r], r, 0)
    BY <1>1, EndedOver
  <1>3. /\ lossy \subseteq lossy' /\ lossy' \subseteq Runs
        /\ At(r, "persist") \/ run[r].owed => r \in lossy'
    BY DEF Kill, IInv, TypeOK
  <1> QED
    BY <1>1, <1>2, <1>3, EndInv DEF IInv, TypeOK

\* An event that is read stops a cancelled run, or ends it.
LEMMA ConsumeInv == ASSUME IInv, NEW r \in Runs, Consume(r) PROVE IInv'
  <1>1. run[r] \in Run /\ RunOK(r) /\ ~served /\ run[r].event
    BY DEF IInv, TypeOK, Consume
  <1>2. r \in Active
    BY <1>1 DEF RunOK, CountsOK
  <1>3. UNCHANGED <<served, ctx, cached, logs, usage, faults, mixed>>
    BY DEF Consume
  <1>4. ASSUME NEW stopped \in BOOLEAN, UNCHANGED lossy,
               run' = [run EXCEPT ![r] = run'[r]],
               run'[r] = [run[r] EXCEPT !.event = FALSE, !.stopped = stopped],
               IF run[r].requested THEN stopped = TRUE ELSE stopped = run[r].stopped
        PROVE  IInv'
    <2>1. run'[r] \in Run
      <3> DEFINE m == [run[r] EXCEPT !.event = FALSE]
      <3>1. m \in Run
        BY <1>1 DEF Run
      <3>2. run'[r] = [m EXCEPT !.stopped = stopped]
        BY <1>4
      <3> HIDE DEF m
      <3> QED
        BY <3>1, <3>2 DEF Run
    <2>2. /\ run'[r].pc = run[r].pc /\ run'[r].steps = run[r].steps
          /\ SameCounts(run'[r], run[r]) /\ run'[r].event = FALSE
          /\ run'[r].stopped = stopped /\ run'[r].memory = run[r].memory
          /\ run'[r].late = run[r].late /\ run'[r].lateTools = run[r].lateTools
          /\ run'[r].attempt = run[r].attempt /\ run'[r].guarded = run[r].guarded
          /\ run'[r].again = run[r].again /\ run'[r].requested = run[r].requested
      BY <1>1, <1>4 DEF Run, SameCounts
    <2>3. CountsOK(r)' /\ Logged(r)'
      BY <1>1, <1>2, <1>3, <1>4, <2>2 DEF RunOK, CountsOK, Logged, Active, At, SameCounts
    <2>4. LateOK(r)'
      <3>1. Remaining(r)' = Remaining(r)
        BY <2>2 DEF Remaining, Second, At
      <3>2. CASE run[r].requested
        BY <1>1, <1>2, <1>3, <1>4, <2>2, <3>2 DEF RunOK, LateOK, At
      <3>3. CASE ~run[r].requested
        BY <1>1, <1>2, <1>3, <1>4, <2>2, <3>1, <3>3 DEF RunOK, LateOK, At
      <3> QED
        BY <3>2, <3>3
    <2>5. Prompt(r)'
      BY <1>1, <1>3, <2>2 DEF RunOK, Prompt
    <2> QED
      BY <1>2, <1>3, <1>4, <2>1, <2>2, <2>3, <2>4, <2>5, QuietStep DEF At, SameCounts
  <1>5. CASE ~run[r].requested /\ run' = [run EXCEPT ![r].event = FALSE] /\ UNCHANGED lossy
    <2>1. /\ run' = [run EXCEPT ![r] = run'[r]]
          /\ run'[r] = [run[r] EXCEPT !.event = FALSE, !.stopped = run[r].stopped]
      BY <1>1, <1>5 DEF IInv, TypeOK, Run
    <2>2. run[r].stopped \in BOOLEAN
      BY <1>1 DEF Run
    <2> QED
      BY <1>4, <1>5, <2>1, <2>2
  <1>6. CASE /\ run[r].requested
             /\ run' = [run EXCEPT ![r].event = FALSE, ![r].stopped = TRUE]
             /\ UNCHANGED lossy
    <2>1. /\ run' = [run EXCEPT ![r] = run'[r]]
          /\ run'[r] = [run[r] EXCEPT !.event = FALSE, !.stopped = TRUE]
      BY <1>1, <1>6 DEF IInv, TypeOK, Run
    <2> QED
      BY <1>4, <1>6, <2>1
  <1>7. CASE Kill(r)
    BY <1>2, <1>3, <1>7, KillInv
  <1> QED
    BY <1>5, <1>6, <1>7 DEF Consume

\* The caller of a run on the server learns its name, has it cancelled, or leaves it.
LEMMA ConsumeRemoteInv == ASSUME IInv, NEW r \in Runs, ConsumeRemote(r) PROVE IInv'
  <1>1. run[r] \in Run /\ RunOK(r) /\ served /\ r \in Active
    BY DEF IInv, TypeOK, ConsumeRemote
  <1>2. UNCHANGED <<served, ctx, cached, logs, usage, mixed>>
    BY DEF ConsumeRemote
  <1>3. ASSUME UNCHANGED lossy, run' = [run EXCEPT ![r] = run'[r]],
               run'[r] = [run[r] EXCEPT !.known = TRUE] \/ run'[r] = [run[r] EXCEPT !.left = TRUE],
               UNCHANGED faults \/ faults' \in 0..MaxFaults
        PROVE  IInv'
    <2>1. run'[r] \in Run
      BY <1>1, <1>3, ZenonT(60) DEF Run
    <2>2. /\ run'[r].pc = run[r].pc /\ run'[r].steps = run[r].steps
          /\ SameCounts(run'[r], run[r]) /\ run'[r].event = run[r].event
          /\ run'[r].stopped = run[r].stopped /\ run'[r].memory = run[r].memory
      BY <1>1, <1>3 DEF Run, SameCounts
    <2>3. CountsOK(r)' /\ Logged(r)'
      BY <1>1, <1>2, <1>3, <2>2 DEF RunOK, CountsOK, Logged, Active, At, SameCounts
    <2>4. LateOK(r)' /\ Prompt(r)'
      BY <1>1, <1>2 DEF LateOK, Prompt
    <2> QED
      BY <1>1, <1>2, <1>3, <2>1, <2>2, <2>3, <2>4, QuietStep DEF At, SameCounts
  <1>4. CASE run' = [run EXCEPT ![r].known = TRUE] /\ UNCHANGED <<faults, lossy>>
    <2>1. run' = [run EXCEPT ![r] = run'[r]] /\ run'[r] = [run[r] EXCEPT !.known = TRUE]
      BY <1>4 DEF IInv, TypeOK
    <2> QED
      BY <1>3, <1>4, <2>1
  <1>5. CASE Kill(r) /\ UNCHANGED faults
    BY <1>1, <1>2, <1>5, KillInv
  <1>6. CASE /\ run[r].known => Fault
             /\ ~run[r].known => UNCHANGED faults
             /\ run' = [run EXCEPT ![r].left = TRUE]
             /\ UNCHANGED lossy
    <2>1. run' = [run EXCEPT ![r] = run'[r]] /\ run'[r] = [run[r] EXCEPT !.left = TRUE]
      BY <1>6 DEF IInv, TypeOK
    <2>2. UNCHANGED faults \/ faults' \in 0..MaxFaults
      BY <1>6, AgentRunsAssumption DEF Fault, IInv, TypeOK
    <2> QED
      BY <1>3, <1>6, <2>1, <2>2
  <1> QED
    BY <1>4, <1>5, <1>6 DEF ConsumeRemote

\* Every step preserves the invariant.
LEMMA NextInv == IInv /\ [Next]_vars => IInv'
  <1> SUFFICES ASSUME IInv, [Next]_vars
               PROVE  IInv'
    OBVIOUS
  <1>1. ASSUME NEW r \in Runs, Begin(r) \/ Token(r) \/ Request(r) \/ Consume(r) \/ ConsumeRemote(r)
        PROVE  IInv'
    BY <1>1, BeginInv, TokenInv, RequestInv, ConsumeInv, ConsumeRemoteInv
  <1>2. ASSUME NEW r \in Runs, DrainTimeout(r)
        PROVE  IInv'
    BY <1>2, KillInv DEF DrainTimeout
  <1>3. ASSUME NEW r \in Runs, Step(r)
        PROVE  IInv'
    BY <1>3, RecallInv, EnterModelInv, RecursionLimitInv, StartCallInv, InterruptInv, FailInv,
       CompleteInv, PersistInv, AfterModelInv, ToolsInv, AnalyseInv DEF Step
  <1>4. CASE UNCHANGED vars
    <2>1. TypeOK' /\ Alone' /\ \A r \in Runs : RunOK(r)'
      BY <1>4 DEF IInv, vars, TypeOK, Alone, Active, RunOK, CountsOK, CtxOK, CachedOK, LateOK,
                  Logged, Isolated, Prompt, At, Remaining, Second
    <2> QED
      BY <2>1 DEF IInv
  <1> QED
    BY <1>1, <1>2, <1>3, <1>4 DEF Next

-----------------------------------------------------------------------------

\* The variables always have their types; in particular no run has more answers than its
\* recursion limit, and no more than two rows for an answer.
THEOREM TypeCorrect == Spec => []TypeOK
  <1>1. IInv => TypeOK
    BY DEF IInv
  <1> QED
    BY <1>1, InitInv, NextInv, PTL DEF Spec

\* Every answer of a model is logged once, unless the database failed, the run was killed
\* before the log was written, or it met the context of another run.
THEOREM AnswersLogged == Spec => []AnswersAreLogged
  <1>1. IInv => AnswersAreLogged
    BY DEF IInv, RunOK, Logged, AnswersAreLogged
  <1> QED
    BY <1>1, InitInv, NextInv, PTL DEF Spec

\* However many runs an AgentService has had, a run sees its own memories and counts its own
\* tokens.
THEOREM RunsIsolated == Spec => []RunsAreIsolated
  <1>1. IInv => RunsAreIsolated
    BY DEF IInv, RunOK, Isolated, RunsAreIsolated
  <1> QED
    BY <1>1, InitInv, NextInv, PTL DEF Spec

\* A cancelled local run makes at most the calls of one node and one round of tools, for any
\* number of fallback models and steps.
THEOREM CancelPrompt == Spec => []CancelIsPrompt
  <1>1. IInv => CancelIsPrompt
    BY DEF IInv, RunOK, Prompt, CancelIsPrompt
  <1> QED
    BY <1>1, InitInv, NextInv, PTL DEF Spec
=============================================================================
