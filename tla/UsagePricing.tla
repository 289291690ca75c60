---------------------------- MODULE UsagePricing ----------------------------
(***************************************************************************)
(* What a model call costs and how it is logged: llm/usage_logging.py,     *)
(* fed by agents/middleware/cost_tracking.py, with the prices of           *)
(* llm/config.py and the snapshots of prices that the log rows point to.   *)
(* Loggers interleave between the statements of their sessions, together   *)
(* with sync_pricing_snapshots of a process that starts.  Tokens and       *)
(* prices are small numbers; rounding is left out.                         *)
(***************************************************************************)
EXTENDS Integers, FiniteSets

CONSTANTS
    Loggers,     \* calls of finalize that may be in progress at the same time
    Prices,      \* pricing configurations, see Pricing
    Breakdowns,  \* what calls really consumed, see Breakdown
    MaxLogs      \* bound: log rows ever written

VARIABLES
    snapshots,   \* hashes of the committed rows of llm_pricing_snapshots
    pending,     \* hashes inserted by a transaction that is open, with whose it is
    cache,       \* _PRICING_SNAPSHOT_CACHE: the hashes whose id is known
    logs,        \* rows of llm_request_logs
    logger,      \* what each call of finalize is doing
    sync         \* the pricings that sync_pricing_snapshots has still to go through

usageVars == <<snapshots, pending, cache, logs, logger, sync>>

\* Dimensions of the normalised usage; cached is one provider's name for cache_read, and the
\* total is in every usage.
Extras == {"cache_read", "cache_write", "reasoning", "audio"}
UsageKeys == Extras \union {"input", "output", "cached", "total"}

\* A price per dimension (-1 for an extra without one), the priced extras billed in addition
\* to their parent, whether cached is an alias of cache_read, and the last token count of the
\* first context tier, after which the second tier doubles the price.
Pricing == {p \in [price : [Extras \union {"input", "output"} -> Int], separate : SUBSET Extras,
                   alias : BOOLEAN, tier : Nat] : \A e \in p.separate : p.price[e] >= 0}

\* What the tokens of a call really were, and the provider's name for those read from a
\* cache: none when it reports no usage at all.
Breakdown == [fresh : Nat, cache_read : Nat, cache_write : Nat, audioIn : Nat,
              plain : Nat, reasoning : Nat, audioOut : Nat,
              key : {"cache_read", "cached", "none"}]

ASSUME UsagePricingAssumption == Prices \subseteq Pricing /\ Breakdowns \subseteq Breakdown

\* compute_hash covers the prices and neither the tiers nor what is billed separately.
Hash(p) == p.price

LogRow == [pricing : Prices, of : Breakdowns, cost : Nat, estimated : BOOLEAN,
           guessed : BOOLEAN]
IdleLogger == [pc |-> "idle"]

-----------------------------------------------------------------------------
(* Pure functions.                                                         *)

\* The usage_metadata of a call: core counts that contain their parts, but for those that the
\* provider bills on top, and the parts.
Within(e, tokens, p) == IF e \in p.separate THEN 0 ELSE tokens
InputTokens(b, p) == b.fresh + Within("cache_read", b.cache_read, p)
                     + Within("cache_write", b.cache_write, p) + Within("audio", b.audioIn, p)
OutputTokens(b, p) == b.plain + Within("reasoning", b.reasoning, p)
                      + Within("audio", b.audioOut, p)

\* _extract_usage_fragment: details of the output replace those of the input with their name.
Reported(b, p) ==
    [k \in UsageKeys |->
       CASE k = "input" -> InputTokens(b, p)
         [] k = "output" -> OutputTokens(b, p)
         [] k = "total" -> InputTokens(b, p) + OutputTokens(b, p)
         [] k \in {"cache_read", "cached"} -> IF b.key = k THEN b.cache_read ELSE 0
         [] k = "audio" -> IF b.audioOut > 0 THEN b.audioOut ELSE b.audioIn
         [] k = "cache_write" -> b.cache_write
         [] k = "reasoning" -> b.reasoning]

\* _estimate_token_usage counts the texts of the messages, with an overhead for each.
Guessed(b) ==
    LET input == b.fresh + b.cache_read + b.cache_write + 1
    IN [k \in UsageKeys |-> CASE k = "input" -> input
                             [] k = "output" -> b.plain
                             [] k = "total" -> input + b.plain
                             [] OTHER -> 0]

Usage(b, p) == IF b.key = "none" THEN Guessed(b) ELSE Reported(b, p)

\* UsageNormalizer.normalize_usage: the aliased key is renamed, and one that is there under
\* its own name replaces it.
Normalized(u, p) ==
    IF p.alias THEN [u EXCEPT !["cache_read"] = IF @ # 0 THEN @ ELSE u["cached"],
                              !["cached"] = 0]
    ELSE u

Priced(p) == {e \in Extras : p.price[e] >= 0}

\* _resolve_parent_dimension goes by the words in the name, and finds none in audio.
ParentDimension(e) == CASE e \in {"cache_read", "cache_write"} -> "input"
                        [] e = "reasoning" -> "output"
                        [] e = "audio" -> "none"

\* An amount for each extra, added up.
OverExtras(amount(_)) ==
    amount("cache_read") + amount("cache_write") + amount("reasoning") + amount("audio")

\* Mutant of Deduction: extras that are billed separately are deducted too.
DeductionOfAll(core, u, p) ==
    OverExtras(LAMBDA e : IF e \in Priced(p) /\ ParentDimension(e) = core THEN u[e] ELSE 0)

\* Tokens of a core dimension that an extra of its own accounts for.
Deduction(core, u, p) ==
    OverExtras(LAMBDA e : IF e \in Priced(p) \ p.separate /\ ParentDimension(e) = core THEN u[e]
                          ELSE 0)

Billable(core, u, p) == IF Deduction(core, u, p) > u[core] THEN 0 ELSE u[core] - Deduction(core, u, p)

\* _get_context_multiplier, with the tiers of a pricing.
Multiplier(u, p) == IF u["input"] + u["output"] <= p.tier THEN 1 ELSE 2

ComputeCost(u, p) ==
    Multiplier(u, p) * (Billable("input", u, p) * p.price["input"]
                        + Billable("output", u, p) * p.price["output"]
                        + OverExtras(LAMBDA e : IF e \in Priced(p) THEN u[e] * p.price[e] ELSE 0))

\* A count of tokens that nothing prices makes the cost an estimate; the total is one of them.
CostEstimated(u, p) == \E k \in UsageKeys \ (Priced(p) \union {"input", "output"}) : u[k] > 0

-----------------------------------------------------------------------------
(* finalize: the snapshot of the pricing, then the row.                    *)

UsageInit ==
    /\ snapshots = {} /\ pending = {} /\ cache = {} /\ logs = {}
    /\ logger = [l \in Loggers |-> IdleLogger]
    /\ sync = Prices

AtStep(l, pc) == logger[l].pc = pc
GoTo(l, pc) == logger' = [logger EXCEPT ![l].pc = pc]
QuitLogging(l) == logger' = [logger EXCEPT ![l] = IdleLogger]

\* A call has been answered; its usage is normalised and priced.
Finalize(l) ==
    /\ AtStep(l, "idle")
    /\ Cardinality(logs) < MaxLogs
    /\ \E p \in Prices, b \in Breakdowns :
          LET u == Normalized(Usage(b, p), p)
          IN logger' = [logger EXCEPT ![l] =
                          [pc |-> IF Hash(p) \in cache THEN "write" ELSE "select", pricing |-> p,
                           row |-> [pricing |-> p, of |-> b, cost |-> ComputeCost(u, p),
                                    estimated |-> CostEstimated(u, p),
                                    guessed |-> b.key = "none"]]]
    /\ UNCHANGED <<snapshots, pending, cache, logs, sync>>

HashOf(l) == Hash(logger[l].pricing)
Remember(l) == cache' = cache \union {HashOf(l)}

\* The row of the snapshot is there, and its id is remembered, or it has to be inserted.
SelectSnapshot(l) ==
    /\ AtStep(l, "select")
    /\ IF HashOf(l) \in snapshots THEN Remember(l) /\ GoTo(l, "write")
                                  ELSE UNCHANGED cache /\ GoTo(l, "insert")
    /\ UNCHANGED <<snapshots, pending, logs, sync>>

\* The unique index makes the insert wait for another's open transaction.  If that commits
\* this one is rolled back, and the other's row is selected.
InsertSnapshot(l) ==
    /\ AtStep(l, "insert")
    /\ \A q \in pending : q.hash # HashOf(l)
    /\ IF HashOf(l) \in snapshots
       THEN Remember(l) /\ GoTo(l, "write") /\ UNCHANGED pending
       ELSE /\ pending' = pending \union {[hash |-> HashOf(l), by |-> l]}
            /\ GoTo(l, "commit") /\ UNCHANGED cache
    /\ UNCHANGED <<snapshots, logs, sync>>

\* The commit, then the id is remembered; or the commit fails and nothing is logged.
CommitSnapshot(l) ==
    /\ AtStep(l, "commit")
    /\ pending' = {q \in pending : q.by # l}
    /\ \/ /\ snapshots' = snapshots \union {HashOf(l)}
          /\ Remember(l)
          /\ GoTo(l, "write")
       \/ UNCHANGED <<snapshots, cache>> /\ QuitLogging(l)
    /\ UNCHANGED <<logs, sync>>

\* The row is committed; an error is swallowed (fail_open), or reaches a caller that goes on.
WriteRow(l) ==
    /\ AtStep(l, "write")
    /\ logs' \in {logs, logs \union {logger[l].row}}
    /\ QuitLogging(l)
    /\ UNCHANGED <<snapshots, pending, cache, sync>>

-----------------------------------------------------------------------------
(* sync_pricing_snapshots: one transaction over all pricings.              *)

Ours == {q \in pending : q.by = "sync"}

SyncNext(p) ==
    /\ p \in sync
    /\ sync' = sync \ {p}
    /\ \A q \in pending \ Ours : q.hash # Hash(p)
    /\ \/ /\ Hash(p) \notin snapshots
          /\ pending' = pending \union {[hash |-> Hash(p), by |-> "sync"]}
       \/ Hash(p) \in snapshots /\ UNCHANGED pending
       \* The row came between the select and the insert: a rollback of all that went before.
       \/ Hash(p) \in snapshots /\ pending' = pending \ Ours
    /\ UNCHANGED <<snapshots, cache, logs, logger>>

\* The last commit, or an error at any point.
SyncEnd ==
    /\ Ours # {}
    /\ \/ sync = {} /\ snapshots' = snapshots \union {q.hash : q \in Ours}
       \/ UNCHANGED snapshots
    /\ pending' = pending \ Ours
    /\ sync' = {}
    /\ UNCHANGED <<cache, logs, logger>>

UsageNext ==
    \/ \E l \in Loggers : \/ Finalize(l) \/ SelectSnapshot(l) \/ InsertSnapshot(l)
                          \/ CommitSnapshot(l) \/ WriteRow(l)
    \/ \E p \in Prices : SyncNext(p)
    \/ SyncEnd

UsageSpec == UsageInit /\ [][UsageNext]_usageVars

UsageTypeOK ==
    /\ snapshots \subseteq {Hash(p) : p \in Prices}
    /\ pending \subseteq [hash : {Hash(p) : p \in Prices}, by : Loggers \union {"sync"}]
    /\ cache \subseteq {Hash(p) : p \in Prices}
    /\ logs \subseteq LogRow
    /\ sync \subseteq Prices

-----------------------------------------------------------------------------
(* Properties.                                                             *)

\* What each token of a call costs, one by one: an extra at its own price if it has one, and
\* otherwise at that of the core dimension which contains it.
TrueCost(b, p) ==
    LET each(e, tokens, core) == tokens * (IF p.price[e] >= 0 THEN p.price[e] ELSE p.price[core])
    IN Multiplier(Reported(b, p), p)
       * (b.fresh * p.price["input"] + b.plain * p.price["output"]
          + each("cache_read", b.cache_read, "input") + each("cache_write", b.cache_write, "input")
          + each("reasoning", b.reasoning, "output")
          + each("audio", b.audioIn, "input") + each("audio", b.audioOut, "output"))

\* Where the charge is another.  Tokens read from a cache that has a price are reported under a
\* name that is not an alias of it, and cost what fresh ones do, or nothing.  Audio tokens
\* have a price and no parent: within a core count they are charged twice, and of two such
\* counts in one usage only one is there.
Mischarged(b, p) ==
    \/ b.key = "cached" /\ ~p.alias /\ p.price["cache_read"] >= 0 /\ b.cache_read > 0
    \/ /\ p.price["audio"] >= 0
       /\ IF "audio" \in p.separate THEN b.audioIn > 0 /\ b.audioOut > 0
                                     ELSE b.audioIn > 0 \/ b.audioOut > 0

\* A log row charges every token exactly once, unless its details say that the tokens are
\* estimated or it is one that is mischarged, whatever the row itself says of its cost; and it
\* points to a committed snapshot of the very prices it was charged by, whatever loggers and
\* synchronisations run into each other.
LogsArePriced ==
    \A r \in logs : /\ \/ r.guessed \/ Mischarged(r.of, r.pricing)
                       \/ r.cost = TrueCost(r.of, r.pricing)
                    /\ Hash(r.pricing) \in snapshots
=============================================================================
