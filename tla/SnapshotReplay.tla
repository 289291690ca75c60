--------------------------- MODULE SnapshotReplay ---------------------------
(***************************************************************************)
(* Snapshots of local agent runs: the capture and the replay of            *)
(* services/agents_service.py with the store and the matcher of            *)
(* services/agent_snapshot_service.py.  A run that finds a snapshot of an  *)
(* equal or similar request answers with its response and does not call    *)
(* the model.  Runs write and read the directory of snapshots at the same  *)
(* time; a file is torn until its write has ended.  A response is the      *)
(* number of the stream's chunks that went into it.                        *)
(***************************************************************************)
EXTENDS Naturals, FiniteSets

CONSTANTS
    LocalRuns,     \* runs that may be in progress at the same time
    LocalAgents,   \* agents, each with its model
    Prompts,       \* system prompts, with response formats
    Texts,         \* user inputs, with contexts
    Normal,        \* Normal[t]: t in lower case with single spaces
    Volatile,      \* texts with an object in their context that serialises with its address
    Score,         \* Score[t, u]: similarity of two normalised texts
    MinScore,      \* agent_snapshot_replay_min_score
    Chunks,        \* chunks of a whole stream
    MaxFiles       \* bound: snapshots ever written

ASSUME SnapshotReplayAssumption == Chunks \in Nat /\ MaxFiles \in Nat

VARIABLES
    mode,          \* agent_snapshot_replay_match_mode: exact or not
    files,         \* the snapshots in the directory
    written,       \* how many there have been
    local          \* what each run is doing

replayVars == <<mode, files, written, local>>

AgentRequest == [agent : LocalAgents, prompt : Prompts, text : Texts]
Snapshot == [request : AgentRequest, response : 0..Chunks, at : 1..MaxFiles]
LocalRun == [pc : {"idle"}] \union [pc : {"stream"}, request : AgentRequest, got : 0..Chunks]
            \union [pc : {"write"}, file : Snapshot]
            \union [pc : {"replay"}, request : AgentRequest, file : Snapshot]
NoRun == [pc |-> "idle"]

ReplayTypeOK ==
    /\ mode \in {"exact", "exact_or_semantic"}
    /\ files \subseteq Snapshot
    /\ written \in 0..MaxFiles
    /\ local \in [LocalRuns -> LocalRun]

ReplayInit ==
    /\ mode \in {"exact", "exact_or_semantic"}
    /\ files = {}
    /\ written = 0
    /\ local = [r \in LocalRuns |-> NoRun]

-----------------------------------------------------------------------------
(* The matcher.                                                            *)

\* iter_snapshots: a torn file does not parse and is skipped.
Candidates(q) == {f \in files : f.request.agent = q.agent}

Newest(fs) == {f \in fs : \A g \in fs : g.at <= f.at}

\* build_snapshot_fingerprint: agent, model, prompt, response format, normalised input and
\* serialised context; not the tools, the middleware or the instance.
Fingerprint(q) == <<q.agent, q.prompt, Normal[q.text]>>

\* The snapshots that an exact match may find.  serialize_snapshot_value gives a value of a
\* kind it does not know as its repr, whose address is mostly another one in every run.
SameAs(q) == {f \in Candidates(q) : Fingerprint(f.request) = Fingerprint(q)}
Exact(q) == IF q.text \in Volatile THEN SUBSET SameAs(q) ELSE {SameAs(q)}

ScoreOf(f, q) == Score[Normal[f.request.text], Normal[q.text]]
Similar(q) == {f \in Candidates(q) : ScoreOf(f, q) >= MinScore}

\* The best score, the newest of equals; the prompt is not compared.
Best(q) == Newest({f \in Similar(q) : \A g \in Similar(q) : ScoreOf(g, q) <= ScoreOf(f, q)})

\* find_best_match: the semantic search may fail, and finds nothing then.
Matches(q) ==
    UNION {IF same # {} THEN {Newest(same)}
           ELSE IF mode = "exact" THEN {{}} ELSE {Best(q), {}} : same \in Exact(q)}

-----------------------------------------------------------------------------
(* Runs.                                                                   *)

Change(r, to) == local' = [local EXCEPT ![r] = to]

\* A request is answered by _maybe_replay_snapshot or goes to the model.
StartRun(r, q) ==
    /\ local[r] = NoRun
    /\ \E m \in Matches(q) :
          \/ m = {} /\ Change(r, [pc |-> "stream", request |-> q, got |-> 0])
          \/ \E f \in m : Change(r, [pc |-> "replay", request |-> q, file |-> f])
    /\ UNCHANGED <<mode, files, written>>

\* The trace goes to the callbacks, whose errors are swallowed, and the response is returned.
Replay(r) ==
    /\ local[r].pc = "replay"
    /\ Change(r, NoRun)
    /\ UNCHANGED <<mode, files, written>>

Chunk(r) ==
    /\ local[r].pc = "stream" /\ local[r].got < Chunks
    /\ local' = [local EXCEPT ![r].got = @ + 1]
    /\ UNCHANGED <<mode, files, written>>

\* _save_agent_run_snapshot: the snapshot is dated, then written.
Save(r) ==
    /\ written < MaxFiles
    /\ written' = written + 1
    /\ Change(r, [pc |-> "write", file |-> [request |-> local[r].request,
                                            response |-> local[r].got, at |-> written']])

EndRun(r) ==
    /\ local[r].pc = "stream" /\ local[r].got = Chunks
    /\ Save(r)
    /\ UNCHANGED <<mode, files>>

\* Mutant of LoseRun: a cancelled run saves what it has.
LoseRunSaved(r) ==
    /\ local[r].pc = "stream"
    /\ Save(r)
    /\ UNCHANGED <<mode, files>>

\* AgentCancelled, or an error of the stream, is raised past the saving.
LoseRun(r) ==
    /\ local[r].pc = "stream"
    /\ Change(r, NoRun)
    /\ UNCHANGED <<mode, files, written>>

\* The write ends, or it fails or its process dies and the file stays torn.
WriteSnapshot(r) ==
    /\ local[r].pc = "write"
    /\ files' \in {files, files \union {local[r].file}}
    /\ Change(r, NoRun)
    /\ UNCHANGED <<mode, written>>

ReplayNext ==
    \E r \in LocalRuns : \/ \E q \in AgentRequest : StartRun(r, q)
                         \/ Replay(r) \/ Chunk(r) \/ EndRun(r) \/ LoseRun(r) \/ WriteSnapshot(r)

ReplaySpec == ReplayInit /\ [][ReplayNext]_replayVars

-----------------------------------------------------------------------------
(* Properties.                                                             *)

\* A replay gives the whole response of a run of the same agent that ended by itself, to the
\* same prompt and text but for case and spaces, or, where similar ones are asked for, to a text
\* that is similar enough (find_best_match; a run that was cancelled or failed leaves no
\* snapshot).
ReplaysAreFaithful ==
    \A r \in LocalRuns : local[r].pc = "replay" =>
        LET asked == local[r].request
            given == local[r].file
        IN /\ given.response = Chunks
           /\ given.request.agent = asked.agent
           /\ \/ /\ given.request.prompt = asked.prompt
                 /\ Normal[given.request.text] = Normal[asked.text]
              \/ mode # "exact" /\ ScoreOf(given, asked) >= MinScore
=============================================================================
