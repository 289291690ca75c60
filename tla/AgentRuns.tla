------------------------------ MODULE AgentRuns ------------------------------
(***************************************************************************)
(* Runs of one agent: AgentService.arun_agent_steps over the local graph   *)
(* or, when the graph is the Agent Server's, stream_remote and run_remote; *)
(* the middleware around the model (MemoryMiddleware, model fallback,      *)
(* CostTrackingMiddleware) with the attributes its objects keep between    *)
(* hooks; usage logging; and cancellation.  The graph runs one node at a   *)
(* time and sends an event after each.  A local graph goes on when its     *)
(* caller has read the event; the runs of one AgentService follow one      *)
(* another, the server's overlap.  A request to the model is a call.       *)
(***************************************************************************)
EXTENDS Naturals, FiniteSets

CONSTANTS
    Runs,
    Fallbacks,    \* number of fallback models
    MaxSteps,     \* recursion limit: model nodes that a local run may execute,
    ServerSteps,  \* and that a run on the server may
    Analysis,     \* model calls the analysis after a run may make: 4 in the code
    MaxFaults,    \* bound: failures of the database and of the server's API
    None

ASSUME AgentRunsAssumption ==
    /\ Fallbacks \in Nat
    /\ MaxSteps \in Nat
    /\ ServerSteps \in 0..MaxSteps
    /\ Analysis \in Nat
    /\ MaxFaults \in Nat
    /\ None \notin Runs

VARIABLES
    served,       \* whether the graph is the Agent Server's
    run,          \* what each run is doing
    ctx,          \* CostTrackingMiddleware._ctx: the run whose log it names, or None
    cached,       \* MemoryMiddleware._cached_memory_context: whose memories, or None
    logs,         \* rows of llm_request_logs for each run's answers
    usage,        \* for each run, the runs whose tokens its state has counted
    faults,       \* how often the database or the server's API has failed
    lossy,        \* history: runs whose log the database or a kill may have spoilt
    mixed         \* history: runs that met what another run left in the objects

vars == <<served, run, ctx, cached, logs, usage, faults, lossy, mixed>>

Places == {"idle", "recall", "model", "start", "call", "persist", "after", "tools",
           "analyse", "done"}

\* A run: its place; the model in use (0: the primary); whether MemoryMiddleware has called
\* its handler a second time, and has put something in the prompt; whose memories that is;
\* the model nodes begun; the answers got; the last one, and whether writing its log failed;
\* whether an event waits for the caller; the caller's graceful_cancel; whether it knows the
\* server's run id; whether a user has asked to cancel and the stream has been stopped;
\* whether the caller has left a run that goes on; and, history, the calls and the tool
\* nodes begun after a user asked to cancel.
Run == [pc : Places, attempt : 0..Fallbacks, again : BOOLEAN, guarded : BOOLEAN,
        memory : Runs \union {None}, steps : 0..MaxSteps, answers : 0..MaxSteps,
        answer : {"none", "tool", "final"}, owed : BOOLEAN, event : BOOLEAN,
        graceful : BOOLEAN, known : BOOLEAN,
        requested : BOOLEAN, stopped : BOOLEAN,
        left : BOOLEAN, late : Nat, lateTools : Nat]

NotBegun == [pc |-> "idle", attempt |-> 0, again |-> FALSE, guarded |-> FALSE,
             memory |-> None, steps |-> 0, answers |-> 0, answer |-> "none", owed |-> FALSE,
             event |-> FALSE, graceful |-> TRUE, known |-> FALSE, requested |-> FALSE,
             stopped |-> FALSE, left |-> FALSE, late |-> 0, lateTools |-> 0]

TypeOK ==
    /\ served \in BOOLEAN
    /\ run \in [Runs -> Run]
    /\ ctx \in Runs \union {None}
    /\ cached \in Runs \union {None}
    /\ logs \in [Runs -> 0..(2 * MaxSteps)]
    /\ usage \in [Runs -> SUBSET Runs]
    /\ faults \in 0..MaxFaults
    /\ lossy \subseteq Runs
    /\ mixed \subseteq Runs

Init ==
    /\ served \in BOOLEAN
    /\ run = [r \in Runs |-> NotBegun]
    /\ ctx = None
    /\ cached = None
    /\ logs = [r \in Runs |-> 0]
    /\ usage = [r \in Runs |-> {}]
    /\ faults = 0
    /\ lossy = {}
    /\ mixed = {}

At(r, pc) == run[r].pc = pc
Active == {r \in Runs : run[r].pc \notin {"idle", "done"}}
Fault == faults < MaxFaults /\ faults' = faults + 1

\* The node at pc may run: the events of a local run are read one by one until the stream
\* is drained.
Turn(r, pc) == At(r, pc) /\ (served \/ ~run[r].event)

Limit == IF served THEN ServerSteps ELSE MaxSteps

\* One more after a request to cancel, in a local run.
Late(r) == IF run[r].requested /\ ~served THEN 1 ELSE 0

\* The run r goes to pc; at the end of a node it sends an event.
Go(r, pc) == [run[r] EXCEPT !.pc = pc]
NodeEnds(r, pc) == [run[r] EXCEPT !.pc = pc, !.event = ~served /\ ~run[r].stopped]

\* The end of a run, with an answer, an error or a cancellation.
Ended(r) == [NotBegun EXCEPT !.pc = "done", !.answers = run[r].answers, !.late = run[r].late,
                             !.lateTools = run[r].lateTools]

\* The local stream is closed, or the server's run cancelled, wherever it is.
Kill(r) ==
    /\ run' = [run EXCEPT ![r] = Ended(r)]
    /\ lossy' = IF At(r, "persist") \/ run[r].owed
                THEN lossy \union {r} ELSE lossy

-----------------------------------------------------------------------------
(* Before the model.                                                       *)

\* Mutant of Begin: the memories of the run before are kept.
BeginKeepsMemories(r) ==
    /\ At(r, "idle")
    /\ ~served /\ Active = {}
    /\ run' = [run EXCEPT ![r] = [NotBegun EXCEPT !.pc = "recall"]]
    /\ UNCHANGED <<served, ctx, cached, logs, usage, faults, lossy, mixed>>

\* before_agent of MemoryMiddleware forgets the memories of the run before, unless the
\* request to the server turns the session context off.  CostTrackingMiddleware's keeps the
\* context that it finds.
Begin(r) ==
    /\ At(r, "idle")
    /\ served \/ Active = {}
    /\ \E graceful \in {TRUE, served}, off \in {FALSE, served} :
          /\ run' = [run EXCEPT ![r] = [NotBegun EXCEPT !.graceful = graceful,
                                           !.pc = IF off THEN "model" ELSE "recall"]]
          /\ cached' = IF off THEN cached ELSE None
          /\ mixed' = mixed \union (IF Active # {} THEN Active \union {r} ELSE {})
                            \union (IF off /\ cached # None THEN {r} ELSE {})
    /\ UNCHANGED <<served, ctx, logs, usage, faults, lossy>>

\* Memories are found, or none are (or the search fails).
Recall(r) ==
    /\ At(r, "recall")
    /\ cached' \in {cached, r}
    /\ run' = [run EXCEPT ![r] = NodeEnds(r, "model")]
    /\ UNCHANGED <<served, ctx, logs, usage, faults, lossy, mixed>>

-----------------------------------------------------------------------------
(* The model node.  Locally MemoryMiddleware is around the fallbacks, on   *)
(* the server the fallbacks are around it; CostTrackingMiddleware is       *)
(* innermost.                                                              *)

\* The attempt with what MemoryMiddleware puts in the prompt: the memories and, on the
\* server, the instructions for the memory tools.
Injected(r, attempt) ==
    [run[r] EXCEPT !.pc = "start", !.attempt = attempt, !.again = FALSE,
                   !.memory = cached, !.guarded = served \/ cached # None]

\* MemoryMiddleware's handler called again, without what was put in the prompt.
Again(r, attempt) ==
    [run[r] EXCEPT !.pc = "start", !.attempt = attempt, !.again = TRUE, !.memory = None]

\* The fallbacks have another model; MemoryMiddleware has its second call left.
More(r) == run[r].attempt < Fallbacks
Second(r) == run[r].guarded /\ ~run[r].again

EnterModel(r) ==
    /\ Turn(r, "model")
    /\ run[r].steps < Limit
    /\ run' = [run EXCEPT ![r] = [Injected(r, 0) EXCEPT !.steps = @ + 1]]
    /\ UNCHANGED <<served, ctx, cached, logs, usage, faults, lossy, mixed>>

RecursionLimit(r) ==
    /\ Turn(r, "model")
    /\ run[r].steps = Limit
    /\ run' = [run EXCEPT ![r] = Ended(r)]
    /\ UNCHANGED <<served, ctx, cached, logs, usage, faults, lossy, mixed>>

\* Mutant of StartCall: a stopped stream starts calls.
StartCallUnchecked(r) ==
    /\ At(r, "start")
    /\ run' = [run EXCEPT ![r] = [Go(r, "call") EXCEPT !.late = @ + Late(r)]]
    /\ UNCHANGED <<served, ctx, cached, logs, usage, faults, lossy, mixed>>

\* on_chat_model_start lets the call begin unless the stream has been stopped.
StartCall(r) ==
    /\ At(r, "start")
    /\ ~run[r].stopped
    /\ run' = [run EXCEPT ![r] = [Go(r, "call") EXCEPT !.late = @ + Late(r)]]
    /\ UNCHANGED <<served, ctx, cached, logs, usage, faults, lossy, mixed>>

\* A GraphInterrupt raised by on_chat_model_start or on_llm_new_token: the fallbacks let it
\* pass, MemoryMiddleware takes it for a failure once, and it ends the graph.
Interrupt(r) ==
    /\ At(r, "start") \/ At(r, "call")
    /\ run[r].stopped
    /\ run' = [run EXCEPT ![r] = IF Second(r) THEN Again(r, 0) ELSE Ended(r)]
    /\ UNCHANGED <<served, ctx, cached, logs, usage, faults, lossy, mixed>>

\* A token reaches the caller of a local run.
Token(r) ==
    /\ At(r, "call")
    /\ ~served /\ ~run[r].event /\ ~run[r].stopped
    /\ run' = [run EXCEPT ![r].event = TRUE]
    /\ UNCHANGED <<served, ctx, cached, logs, usage, faults, lossy, mixed>>

\* Mutant of Fail: MemoryMiddleware calls its handler again and again.
FailForEver(r) ==
    /\ At(r, "call")
    /\ run' = [run EXCEPT ![r] = IF run[r].guarded THEN Again(r, 0) ELSE Ended(r)]
    /\ UNCHANGED <<served, ctx, cached, logs, usage, faults, lossy, mixed>>

\* Where a failed call leads in the stack of the server and in the local one.
FailedThere(r) == IF Second(r) THEN Again(r, run[r].attempt)
                  ELSE IF More(r) THEN Injected(r, run[r].attempt + 1) ELSE Ended(r)
FailedHere(r) == IF More(r) THEN [Go(r, "start") EXCEPT !.attempt = @ + 1]
                 ELSE IF Second(r) THEN Again(r, 0) ELSE Ended(r)

\* The provider fails.
Fail(r) ==
    /\ At(r, "call")
    /\ run' = [run EXCEPT ![r] = IF served THEN FailedThere(r) ELSE FailedHere(r)]
    /\ UNCHANGED <<served, ctx, cached, logs, usage, faults, lossy, mixed>>

\* The model answers with tool calls or with its last word.
Complete(r) ==
    /\ At(r, "call")
    /\ \E answer \in {"tool", "final"} :
          run' = [run EXCEPT ![r] = [Go(r, "persist") EXCEPT !.answers = @ + 1,
                                                            !.answer = answer]]
    /\ UNCHANGED <<served, ctx, cached, logs, usage, faults, lossy, mixed>>

-----------------------------------------------------------------------------
(* Usage.                                                                  *)

\* UsageSession.finalize commits a row, or n rows.
WriteLog(r, n) == logs' = [logs EXCEPT ![r] = @ + n]

\* Mutant of Persist: logging is left to after_model.
PersistLater(r) ==
    /\ At(r, "persist")
    /\ run' = [run EXCEPT ![r] = NodeEnds(r, "after")]
    /\ UNCHANGED <<served, ctx, cached, logs, usage, faults, lossy, mixed>>

\* _apersist_from_response, inside the model node: the log is written and named in _ctx;
\* when the database fails, before or after its commit, _ctx stays as it is.
Persist(r) ==
    /\ At(r, "persist")
    /\ \/ /\ run' = [run EXCEPT ![r] = NodeEnds(r, "after")]
          /\ WriteLog(r, 1)
          /\ ctx' = r
          /\ UNCHANGED <<faults, lossy, mixed>>
       \/ /\ Fault
          /\ run' = [run EXCEPT ![r] = [NodeEnds(r, "after") EXCEPT !.owed = TRUE]]
          /\ \E written \in {0, 1} :
                /\ WriteLog(r, written)
                /\ lossy' = IF written = 1 THEN lossy \union {r} ELSE lossy
          /\ mixed' = IF ctx # None THEN mixed \union {r} ELSE mixed
          /\ UNCHANGED ctx
    /\ UNCHANGED <<served, cached, usage>>

\* after_model counts the tokens that _ctx names; if it names none, the answer's, and
\* writes the log.
AfterModel(r) ==
    /\ Turn(r, "after")
    /\ usage' = [usage EXCEPT ![r] = @ \union {IF ctx = None THEN r ELSE ctx}]
    /\ \/ ctx # None /\ UNCHANGED <<logs, faults, lossy>>
       \/ /\ ctx = None
          /\ \/ WriteLog(r, 1) /\ UNCHANGED <<faults, lossy>>
             \/ Fault /\ lossy' = lossy \union {r} /\ UNCHANGED logs
    /\ ctx' = None
    /\ run' = [run EXCEPT ![r] = [NodeEnds(r, IF @.answer = "tool" THEN "tools" ELSE "analyse")
                                 EXCEPT !.owed = FALSE]]
    /\ UNCHANGED <<served, cached, mixed>>

-----------------------------------------------------------------------------
(* After the model.                                                        *)

\* The tools run; what they raise becomes their answer.
Tools(r) ==
    /\ Turn(r, "tools")
    /\ run' = [run EXCEPT ![r] = [NodeEnds(r, "model") EXCEPT !.lateTools = @ + Late(r)]]
    /\ UNCHANGED <<served, ctx, cached, logs, usage, faults, lossy, mixed>>

\* The calls with which MemoryMiddleware may look for things to remember; a stopped stream
\* lets none begin.
AnalysisCalls(r) == IF run[r].stopped THEN {0} ELSE {0, Analysis}

\* aafter_agent of MemoryMiddleware; then the graph ends.
Analyse(r) ==
    /\ Turn(r, "analyse")
    /\ \E calls \in AnalysisCalls(r) :
          run' = [run EXCEPT ![r] = [Ended(r) EXCEPT !.late = @ + calls * Late(r)]]
    /\ UNCHANGED <<served, ctx, cached, logs, usage, faults, lossy, mixed>>

-----------------------------------------------------------------------------
(* The caller and the user.                                                *)

\* A user asks to cancel: cancel_check is true from now on.
Request(r) ==
    /\ r \in Active
    /\ ~run[r].left /\ ~run[r].requested
    /\ run' = [run EXCEPT ![r].requested = TRUE]
    /\ UNCHANGED <<served, ctx, cached, logs, usage, faults, lossy, mixed>>

\* The caller of a local run reads an event and looks whether it is cancelled; it then
\* stops the stream and drains it, or closes it at once.
Consume(r) ==
    /\ ~served
    /\ run[r].event
    /\ \/ /\ ~run[r].requested
          /\ run' = [run EXCEPT ![r].event = FALSE]
          /\ UNCHANGED lossy
       \/ /\ run[r].requested /\ run[r].graceful
          /\ run' = [run EXCEPT ![r].event = FALSE, ![r].stopped = TRUE]
          /\ UNCHANGED lossy
       \/ run[r].requested /\ ~run[r].graceful /\ Kill(r)
    /\ UNCHANGED <<served, ctx, cached, logs, usage, faults, mixed>>

\* The drain takes too long.
DrainTimeout(r) ==
    /\ r \in Active
    /\ run[r].stopped
    /\ Kill(r)
    /\ UNCHANGED <<served, ctx, cached, logs, usage, faults, mixed>>

\* The caller of a run on the server reads an event, the first of which names the run.  If
\* the run is cancelled it leaves, after asking the server to stop a run it can name;
\* that the server cannot be asked is ignored.  (A caller without callbacks waits in
\* run_remote and never looks.)
ConsumeRemote(r) ==
    /\ served
    /\ r \in Active
    /\ ~run[r].left
    /\ \/ /\ ~run[r].requested /\ ~run[r].known
          /\ run' = [run EXCEPT ![r].known = TRUE]
          /\ UNCHANGED <<faults, lossy>>
       \/ run[r].requested /\ run[r].known /\ Kill(r) /\ UNCHANGED faults
       \/ /\ run[r].requested
          /\ run[r].known => Fault
          /\ ~run[r].known => UNCHANGED faults
          /\ run' = [run EXCEPT ![r].left = TRUE]
          /\ UNCHANGED lossy
    /\ UNCHANGED <<served, ctx, cached, logs, usage, mixed>>

\* Steps of the graph.
Step(r) ==
    \/ Recall(r) \/ EnterModel(r) \/ RecursionLimit(r) \/ StartCall(r) \/ Interrupt(r)
    \/ Fail(r) \/ Complete(r) \/ Persist(r) \/ AfterModel(r) \/ Tools(r) \/ Analyse(r)

Next ==
    \E r \in Runs :
        \/ Begin(r) \/ Step(r) \/ Token(r)
        \/ Request(r) \/ Consume(r) \/ DrainTimeout(r) \/ ConsumeRemote(r)

\* The graph goes on, and the caller of a local run reads what it sends.  That providers
\* answer or fail in the end is what their clients' timeouts are for.
Fairness == \A r \in Runs : WF_vars(Step(r)) /\ WF_vars(Consume(r))

Spec == Init /\ [][Next]_vars /\ Fairness

-----------------------------------------------------------------------------
(* Properties.                                                             *)

\* Every answer that a model gave, which was paid for, is in llm_request_logs once, however
\* the run is cancelled: wrap_model_call writes the log before the node ends and after_model
\* writes it only if that failed.  Excused are runs the database failed, or that were killed
\* before their log was written, or that met another run's _ctx.
AnswersAreLogged ==
    \A r \in Runs \ (lossy \union mixed) :
        logs[r] + (IF At(r, "persist") \/ run[r].owed THEN 1 ELSE 0) = run[r].answers

\* The runs of one AgentService keep apart although they share the middleware objects: a
\* prompt has the memories of its own run, and the tokens counted are the run's own, unless
\* a log failed while _ctx still named the answer of a run killed before after_model.
RunsAreIsolated ==
    ~served => \A r \in Runs : /\ run[r].memory \in {r, None}
                               /\ r \notin mixed => usage[r] \subseteq {r}

\* After a user asked to cancel, a local run makes at most the calls of the node it is in
\* (each model twice, or the analysis) and runs at most one round of tools, draining included.
CancelIsPrompt ==
    ~served => \A r \in Runs : /\ run[r].late <= IF 2 * (Fallbacks + 1) > Analysis
                                                 THEN 2 * (Fallbacks + 1) ELSE Analysis
                               /\ run[r].lateTools <= 1

\* What the repository says of cancel_check (see docs/agents-service.md and set_cancel_check):
\* it is looked at before model and tool calls, so that none begins once a user has asked to
\* cancel.  No caller of the service hands it to the middleware, and the run finds out with
\* the next event only.
NoCallAfterCancel == ~served => \A r \in Runs : run[r].late = 0 /\ run[r].lateTools = 0

\* Runs that have begun end, whatever fails and whenever they are cancelled.
RunsEnd == []<>(Active = {})
=============================================================================
