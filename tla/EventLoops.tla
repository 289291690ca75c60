----------------------------- MODULE EventLoops -----------------------------
(***************************************************************************)
(* One process, its event loops and what it keeps per process: the         *)
(* database engine and session maker of database/sql/connection.py, the    *)
(* Redis clients of core/redis_client.py and the MCP clients, from the     *)
(* start (core/lifecycle.py, celery/celery_main.py) to the shutdown.       *)
(* celery/async_utils.py decides on which loop a job runs.  Code between   *)
(* two awaits is one step of its loop; threads with different loops        *)
(* interleave at every access to the globals.  Loops and engines are       *)
(* numbered as they are made; loop 1 is the first of the process.          *)
(***************************************************************************)
EXTENDS Naturals, FiniteSets

CONSTANTS
    Jobs,        \* handlers, tasks and threads that use the database
    MaxLoops,    \* bound: loops ever made
    MaxEngines   \* bound: engines ever made

\* A worker needs a loop beside the first, and there may be an engine to inherit.
ASSUME EventLoopsAssumption == MaxLoops \in Nat \ {0, 1} /\ MaxEngines \in Nat \ {0}

VARIABLES
    kind,        \* what the process is: API, prefork or threads worker, or no worker
    phase,       \* where its life has got to
    loops,       \* loops made
    engines,     \* engines made
    engine,      \* _engine, 0 for None
    engineLoop,  \* _engine_loop, 0 for None
    maker,       \* the engine that _async_session_maker is bound to, 0 for None
    pool,        \* for each engine, the loops whose connections its pool keeps
    redis,       \* a Redis client is cached
    mcp,         \* _mcp_tool_manager: none, with a client, or initialised without one
    agentMcp,    \* _agent_mcp_manager keeps a client for a profile
    job,         \* what each job is doing
    orphaned,    \* history: an inherited session maker or pool has outlived its engine
    abandoned,   \* history: engines that get_engine forgot while a job was using them
    raced        \* history: jobs of two loops were in get_session_maker together

clients == <<redis, mcp, agentMcp>>
loopVars == <<kind, phase, loops, engines, engine, engineLoop, maker, pool, clients, job,
              orphaned, abandoned, raced>>

Kinds == {"api", "prefork", "threads", "none"}
Loop == 1..MaxLoops
Engine == 1..MaxEngines
NoJob == [pc |-> "idle", loop |-> 0, engine |-> 0]
Job == [pc : {"idle", "engine", "maker", "return", "session"}, loop : 0..MaxLoops,
        engine : 0..MaxEngines]

LoopsTypeOK ==
    /\ kind \in Kinds
    /\ phase \in {"boot", "up", "mcp", "redis", "down", "cut"}
    /\ loops \in 0..MaxLoops /\ engines \in 0..MaxEngines
    /\ engine \in 0..MaxEngines /\ engineLoop \in 0..MaxLoops /\ maker \in 0..MaxEngines
    /\ pool \in [Engine -> SUBSET Loop]
    /\ redis \in BOOLEAN /\ mcp \in {"none", "client", "broken"} /\ agentMcp \in BOOLEAN
    /\ job \in [Jobs -> Job]
    /\ orphaned \in BOOLEAN /\ abandoned \subseteq Engine /\ raced \in BOOLEAN

\* A worker process is forked from one, or is one, that may have used the database on its
\* first loop: through the engine alone, or through sessions.
LoopsInit ==
    /\ kind \in Kinds
    /\ phase = "boot"
    /\ loops = 1
    /\ \E used \in IF kind \in {"prefork", "threads"} THEN {"no", "engine", "sessions"} ELSE {"no"} :
          /\ engines = IF used = "no" THEN 0 ELSE 1
          /\ engine = engines /\ engineLoop = engines
          /\ maker = IF used = "sessions" THEN 1 ELSE 0
          /\ pool = [e \in Engine |-> IF e = engines THEN {1} ELSE {}]
    /\ redis \in BOOLEAN /\ mcp = "none" /\ agentMcp = FALSE
    /\ job = [j \in Jobs |-> NoJob]
    /\ orphaned = FALSE /\ abandoned = {} /\ raced = FALSE

-----------------------------------------------------------------------------
(* The globals.                                                            *)

\* Mutant of GetEngine: an engine of another loop is kept.
GetEngineAnyLoop(l) ==
    IF engine # 0
    THEN UNCHANGED <<engine, engineLoop, maker, engines, pool>>
    ELSE /\ engines < MaxEngines
         /\ engines' = engines + 1 /\ engine' = engines' /\ engineLoop' = l
         /\ UNCHANGED <<maker, pool>>

\* get_engine on loop l: an engine of another loop is forgotten, with the session maker; its
\* pool is replaced by an empty one, and the connections are left to themselves.
GetEngine(l) ==
    IF engine # 0 /\ engineLoop = l
    THEN UNCHANGED <<engine, engineLoop, maker, engines, pool>>
    ELSE /\ engines < MaxEngines
         /\ engines' = engines + 1 /\ engine' = engines' /\ engineLoop' = l
         /\ IF engine # 0 THEN /\ maker' = 0
                               /\ pool' = [pool EXCEPT ![engine] = {}]
                          ELSE UNCHANGED <<maker, pool>>

\* dispose_current_engine, which leaves the session maker alone.  An error of dispose is
\* swallowed, and the pool stays as it is.
DisposeCurrentEngine ==
    /\ engine' = 0 /\ engineLoop' = 0
    /\ pool' \in IF engine # 0 THEN {pool, [pool EXCEPT ![engine] = {}]} ELSE {pool}
    /\ orphaned' = (maker # 0 \/ pool' = pool)
    /\ UNCHANGED <<maker, engines>>

\* Mutant of CloseDatabase: the engine is forgotten before it is disposed of.
CloseDatabaseForgets ==
    /\ engine' = 0 /\ engineLoop' = 0 /\ maker' = 0
    /\ UNCHANGED <<pool, engines>>

\* close_database; an error of dispose leaves everything as it is.
CloseDatabase ==
    \/ /\ engine' = 0 /\ engineLoop' = 0 /\ maker' = 0
       /\ pool' = IF engine # 0 THEN [pool EXCEPT ![engine] = {}] ELSE pool
       /\ UNCHANGED engines
    \/ engine # 0 /\ UNCHANGED <<engine, engineLoop, maker, pool, engines>>

\* close_resource goes through each cached client and what hangs on it, once, and goes on
\* after errors; then the caches are emptied.
CloseRedis == redis' = FALSE
CloseMcp == mcp' = "none" /\ agentMcp' = FALSE

-----------------------------------------------------------------------------
(* The life of the process.                                                *)

\* init_resources on the server's loop: create_tables takes a connection, the prices are
\* synchronised in a session, and a Redis client is cached, whether or not it answers.
InitResources ==
    /\ kind = "api" /\ phase = "boot"
    /\ engines' = 1 /\ engine' = 1 /\ engineLoop' = 1 /\ maker' = 1
    /\ pool' = [pool EXCEPT ![1] = {1}]
    /\ redis' = TRUE
    /\ phase' = "up"
    /\ UNCHANGED <<kind, loops, mcp, agentMcp, job, orphaned, abandoned, raced>>

\* The Redis clients are reset, a loop is made, and an inherited engine is disposed of on it.
WorkerLoopIsMade ==
    /\ phase = "boot"
    /\ loops' = loops + 1
    /\ CloseRedis /\ UNCHANGED <<mcp, agentMcp>>
    /\ IF engine # 0 THEN DisposeCurrentEngine
                     ELSE UNCHANGED <<engine, engineLoop, pool, orphaned, maker, engines>>
    /\ phase' = "up"
    /\ UNCHANGED <<kind, job, abandoned, raced>>

\* worker_process_init, after the fork.
WorkerProcessInit == kind = "prefork" /\ WorkerLoopIsMade

\* worker_init: the loop runs in a thread of its own.
WorkerInit == kind = "threads" /\ WorkerLoopIsMade

\* A script, a notebook or a task called directly has no worker loop.
NoInit ==
    /\ kind = "none" /\ phase = "boot"
    /\ phase' = "up"
    /\ UNCHANGED <<kind, loops, engines, engine, engineLoop, maker, pool, clients, job, orphaned,
                   abandoned, raced>>

NoJobs == \A j \in Jobs : job[j] = NoJob

\* A shutdown awaits the closing of the database, when no job is left, of the MCP clients and
\* of the Redis clients, one after the other; an error of one does not stop the next.
DatabaseIsClosed ==
    /\ phase = "up" /\ NoJobs
    /\ CloseDatabase
    /\ phase' = "mcp"
    /\ UNCHANGED <<kind, loops, clients, job, orphaned, abandoned, raced>>
McpIsClosed ==
    /\ phase = "mcp"
    /\ CloseMcp
    /\ phase' = "redis"
    /\ UNCHANGED <<kind, loops, engines, engine, engineLoop, maker, pool, redis, job, orphaned,
                   abandoned, raced>>
RedisIsClosed ==
    /\ phase = "redis"
    /\ CloseRedis
    /\ phase' = "down"
    /\ UNCHANGED <<kind, loops, engines, engine, engineLoop, maker, pool, mcp, agentMcp, job,
                   orphaned, abandoned, raced>>
Closing == DatabaseIsClosed \/ McpIsClosed \/ RedisIsClosed

ShutdownResources == kind = "api" /\ Closing
WorkerProcessShutdown == kind = "prefork" /\ Closing
WorkerShutdown == kind = "threads" /\ Closing

\* worker_shutdown waits ten seconds for all of the closing on the loop, and stops the loop
\* wherever that has got to.
WorkerShutdownTimesOut ==
    /\ kind = "threads" /\ phase \in {"up", "mcp", "redis"}
    /\ phase' = "cut"
    /\ job' = [j \in Jobs |-> NoJob]
    /\ UNCHANGED <<kind, loops, engines, engine, engineLoop, maker, pool, clients, orphaned,
                   abandoned, raced>>

\* notebook_utils, before another loop is used: everything is forgotten.
ResetForNewLoop ==
    /\ kind = "none" /\ phase = "up" /\ NoJobs
    /\ engine' = 0 /\ engineLoop' = 0 /\ maker' = 0
    /\ UNCHANGED <<kind, phase, loops, engines, pool, clients, job, orphaned, abandoned, raced>>

-----------------------------------------------------------------------------
(* Jobs.                                                                   *)

JobAt(j, pc) == phase = "up" /\ job[j].pc = pc
InMaker(j) == job[j].pc \in {"maker", "return"}

\* Between two awaits a loop runs one job.
Runs(j) == \A k \in Jobs \ {j} : job[k].loop = job[j].loop => ~InMaker(k)

WorkerLoop == loops

\* run_in_worker_loop and run_async_safely: the worker's loop, if there is one.
OnWorkerLoop(j) ==
    /\ kind \in {"prefork", "threads"}
    /\ JobAt(j, "idle")
    /\ job' = [job EXCEPT ![j] = [NoJob EXCEPT !.pc = "engine", !.loop = WorkerLoop]]
    /\ UNCHANGED <<kind, phase, loops, engines, engine, engineLoop, maker, pool, clients, orphaned,
                   abandoned, raced>>

\* A handler of the API on the server's loop.
OnServerLoop(j) ==
    /\ kind = "api"
    /\ JobAt(j, "idle")
    /\ job' = [job EXCEPT ![j] = [NoJob EXCEPT !.pc = "engine", !.loop = 1]]
    /\ UNCHANGED <<kind, phase, loops, engines, engine, engineLoop, maker, pool, clients, orphaned,
                   abandoned, raced>>

\* Without a worker's loop run_in_worker_loop makes a loop, and run_async_safely a thread
\* with a loop.
OnTemporaryLoop(j) ==
    /\ kind \in {"api", "none"}
    /\ JobAt(j, "idle")
    /\ loops < MaxLoops
    /\ loops' = loops + 1
    /\ job' = [job EXCEPT ![j] = [NoJob EXCEPT !.pc = "engine", !.loop = loops']]
    /\ UNCHANGED <<kind, phase, engines, engine, engineLoop, maker, pool, clients, orphaned,
                   abandoned, raced>>

\* get_session_maker: get_engine,
TakeEngine(j) ==
    /\ JobAt(j, "engine") /\ Runs(j)
    /\ GetEngine(job[j].loop)
    /\ job' = [job EXCEPT ![j].pc = "maker", ![j].engine = engine']
    /\ raced' = (raced \/ \E k \in Jobs \ {j} : InMaker(k))
    /\ abandoned' = IF engine \notin {0, engine'} /\ \E k \in Jobs : job[k].engine = engine
                    THEN abandoned \union {engine} ELSE abandoned
    /\ UNCHANGED <<kind, phase, loops, clients, orphaned>>

\* then a maker, if there is none,
MakeMaker(j) ==
    /\ JobAt(j, "maker")
    /\ maker' = IF maker = 0 THEN job[j].engine ELSE maker
    /\ job' = [job EXCEPT ![j].pc = "return"]
    /\ UNCHANGED <<kind, phase, loops, engines, engine, engineLoop, pool, clients, orphaned,
                   abandoned, raced>>

\* then the global is read again: None, if another thread has changed loops, is a TypeError.
\* The session has no connection yet.
OpenSession(j) ==
    /\ JobAt(j, "return")
    /\ job' = [job EXCEPT ![j] = IF maker = 0 THEN NoJob
                                ELSE [@ EXCEPT !.pc = "session", !.engine = maker]]
    /\ UNCHANGED <<kind, phase, loops, engines, engine, engineLoop, maker, pool, clients, orphaned,
                   abandoned, raced>>

\* The first statement of a transaction takes a connection from the pool that the session's
\* engine has then, and the end of the transaction leaves it there; also if get_engine has
\* forgotten the engine meanwhile.
Execute(j) ==
    /\ JobAt(j, "session")
    /\ pool' = [pool EXCEPT ![job[j].engine] = @ \union {job[j].loop}]
    /\ UNCHANGED <<kind, phase, loops, engines, engine, engineLoop, maker, clients, job, orphaned,
                   abandoned, raced>>

\* get_redis and get_sync_redis cache a client, for whichever loop asks first.
GetRedis(j) ==
    /\ JobAt(j, "session")
    /\ redis' = TRUE
    /\ UNCHANGED <<kind, phase, loops, engines, engine, engineLoop, maker, pool, mcp, agentMcp, job,
                   orphaned, abandoned, raced>>

\* get_tools of MCPToolManager: the first call initialises the manager, and an error leaves it
\* without a client for good.
GetTools(j) ==
    /\ JobAt(j, "session")
    /\ mcp' \in IF mcp = "none" THEN {"client", "broken"} ELSE {mcp}
    /\ UNCHANGED <<kind, phase, loops, engines, engine, engineLoop, maker, pool, redis, agentMcp,
                   job, orphaned, abandoned, raced>>

\* get_tools_for_profile: a client that fails is closed and forgotten, and made anew next time.
GetToolsForProfile(j) ==
    /\ JobAt(j, "session")
    /\ agentMcp' \in BOOLEAN
    /\ UNCHANGED <<kind, phase, loops, engines, engine, engineLoop, maker, pool, redis, mcp, job,
                   orphaned, abandoned, raced>>

\* The session is closed, after a result, an error, a timeout or a cancellation; a temporary
\* loop is closed after it.
EndJob(j) ==
    /\ JobAt(j, "session")
    /\ job' = [job EXCEPT ![j] = NoJob]
    /\ UNCHANGED <<kind, phase, loops, engines, engine, engineLoop, maker, pool, clients, orphaned,
                   abandoned, raced>>

LoopsNext ==
    \/ InitResources \/ WorkerProcessInit \/ WorkerInit \/ NoInit
    \/ ShutdownResources \/ WorkerProcessShutdown \/ WorkerShutdown \/ WorkerShutdownTimesOut
    \/ ResetForNewLoop
    \/ \E j \in Jobs : \/ OnWorkerLoop(j) \/ OnServerLoop(j) \/ OnTemporaryLoop(j)
                       \/ TakeEngine(j) \/ MakeMaker(j) \/ OpenSession(j) \/ Execute(j)
                       \/ GetRedis(j) \/ GetTools(j) \/ GetToolsForProfile(j)
                       \/ EndJob(j)

LoopsSpec == LoopsInit /\ [][LoopsNext]_loopVars

-----------------------------------------------------------------------------
(* Properties.                                                             *)

\* A session never shares a pool with connections of another loop (get_engine compares the
\* loops), unless two loops were inside get_session_maker at once, or a worker whose inherited
\* engine could not be disposed of goes on with the session maker it inherited too.
SessionsStayOnTheirLoop ==
    \A j \in Jobs : job[j].pc = "session" =>
        \/ pool[job[j].engine] \subseteq {job[j].loop}
        \/ raced
        \/ orphaned /\ job[j].engine = 1

\* What close_database gets hold of, or cannot: the engine, those that get_engine forgot while
\* a job was using them, and what a worker has inherited.
Reachable == {engine} \union abandoned \union (IF orphaned THEN {1} ELSE {})

\* After an orderly shutdown no client is cached, whatever failed before, and no pool keeps a
\* connection, but for the engine that could not be disposed of; an inherited one, whose pool
\* or session maker was left over (dispose_current_engine does not forget the maker); and
\* those that get_engine forgot under a job, which may go on to fill them.
ClosedAtShutdown ==
    phase = "down" =>
        /\ ~redis /\ mcp = "none" /\ ~agentMcp
        /\ \A e \in Engine : pool[e] # {} => e \in Reachable
=============================================================================
