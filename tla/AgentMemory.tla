---------------------------- MODULE AgentMemory ----------------------------
(***************************************************************************)
(* The long-term memory of one user: AgentMemoryStoreService and the tools *)
(* that agents are given over it, and the functions with which the user's  *)
(* application lists, counts and purges the same store.  The store is      *)
(* LangGraph's: put replaces, delete is silent about an entry that is not  *)
(* there, search takes a prefix of the namespace.  Contents are revisions; *)
(* of their types, and of how a search ranks what it finds, only the       *)
(* choice is left that they make.                                          *)
(***************************************************************************)
EXTENDS Naturals, FiniteSets

CONSTANTS
    MemoryAgents,  \* agents that work for the user
    Scope,         \* the memory scope each is configured with
    Keys,          \* ids of entries
    PurgeBatch,    \* _PURGE_BATCH_SIZE
    SearchLimit,   \* entries a search returns when no limit is given
    MaxSaves,      \* bound: saves ever made
    NoAgent        \* no third component in a namespace; no operation

MemoryCategories == {"semantic", "episodic", "procedural"}

ASSUME AgentMemoryAssumption ==
    /\ Scope \in [MemoryAgents -> {"hybrid", "shared", "dedicated"}]
    /\ PurgeBatch \in Nat \ {0}
    /\ SearchLimit \in Nat \ {0}
    /\ MaxSaves \in Nat
    /\ NoAgent \notin MemoryAgents

VARIABLES
    memories,      \* entries of the store, at most one for a key in a namespace
    listing,       \* the page of entries that the user's application shows
    bulk,          \* an agent's delete_user_memories in progress, or NoAgent
    purge,         \* a purge in progress, or NoAgent
    saves,         \* how many saves have been made
    forgotten      \* history: revisions the user had deleted

memoryVars == <<memories, listing, bulk, purge, saves, forgotten>>

Namespace == [category : MemoryCategories, agent : MemoryAgents \union {NoAgent}]
Place == [ns : Namespace, key : Keys]
Entry == [at : Place, revision : 1..MaxSaves]

MemoryTypeOK ==
    /\ memories \subseteq Entry
    /\ \A m, n \in memories : m.at = n.at => m = n
    /\ listing \subseteq Entry
    /\ bulk = NoAgent \/ bulk \in [ns : Namespace, batch : SUBSET Keys]
    /\ purge = NoAgent \/ purge \in [categories : SUBSET MemoryCategories,
                                     batch : SUBSET Place, progressed : BOOLEAN,
                                     began : SUBSET (1..MaxSaves)]
    /\ saves \in 0..MaxSaves
    /\ forgotten \subseteq 1..MaxSaves

MemoryInit ==
    /\ memories = {} /\ listing = {}
    /\ bulk = NoAgent
    /\ purge = NoAgent
    /\ saves = 0
    /\ forgotten = {}

\* MemoryNamespaceBuilder.namespace_for.
NamespaceFor(a, category) ==
    [category |-> category,
     agent |-> IF Scope[a] = "dedicated" \/ (Scope[a] = "hybrid" /\ category # "semantic")
               THEN a ELSE NoAgent]

\* A namespace is a prefix of the namespaces of its category's agents.
Beneath(ns, place) == /\ place.ns.category = ns.category
                      /\ ns.agent \in {NoAgent, place.ns.agent}

Search(ns) == {m \in memories : Beneath(ns, m.at)}
Without(places) == {m \in memories : m.at \notin places}
Revisions(entries) == {m.revision : m \in entries}

-----------------------------------------------------------------------------
(* The tools of an agent.                                                  *)

\* save_memory; the category is the type's, or any other with which the model overrides it.
Put(a, key, category) ==
    LET place == [ns |-> NamespaceFor(a, category), key |-> key]
    IN /\ saves < MaxSaves
       /\ saves' = saves + 1
       /\ memories' = Without({place}) \union
                        {[at |-> place, revision |-> saves + 1]}

Used == {m.at.key : m \in memories}

SaveMemory(a) ==
    /\ \E key \in Keys \ Used, category \in MemoryCategories : Put(a, key, category)
    /\ UNCHANGED <<listing, bulk, purge, forgotten>>

\* The same put with an id: in the namespace that the new type (or "general") has.  With an id
\* that is not there it is a save.
UpdateMemory(a) ==
    /\ \E key \in Used, category \in MemoryCategories : Put(a, key, category)
    /\ UNCHANGED <<listing, bulk, purge, forgotten>>

\* delete_memory without a category: the store accepts the first delete of the loop, the one
\* in the semantic namespace, and the tool reports success.
DeleteMemory(a) ==
    /\ \E key \in Used :
          memories' = Without({[ns |-> NamespaceFor(a, "semantic"), key |-> key]})
    /\ UNCHANGED <<listing, bulk, purge, saves, forgotten>>

\* delete_user_memories, for each category it is about: one search in the category's
\* namespace, for a type or for all, that returns no more than the store's own limit, ...
BeginBulkDelete(a) ==
    /\ bulk = NoAgent
    /\ \E category \in MemoryCategories :
          LET ns == NamespaceFor(a, category)
          IN \E batch \in SUBSET Search(ns) :
                /\ Cardinality(batch) <= SearchLimit
                /\ bulk' = [ns |-> ns, batch |-> {m.at.key : m \in batch}]
    /\ UNCHANGED <<memories, listing, purge, saves, forgotten>>

\* ... whose results are deleted in that namespace, wherever they were found.
BulkDelete ==
    /\ bulk # NoAgent
    /\ \/ /\ bulk.batch = {}
          /\ bulk' = NoAgent
          /\ UNCHANGED memories
       \/ \E key \in bulk.batch :
             /\ bulk' = [bulk EXCEPT !.batch = @ \ {key}]
             /\ memories' \in {memories, Without({[ns |-> bulk.ns, key |-> key]})}
    /\ UNCHANGED <<listing, purge, saves, forgotten>>

-----------------------------------------------------------------------------
(* The user's view.                                                        *)

\* list_user_memories: a page (of one entry) of what is beneath the user's prefix.
ListMemories ==
    /\ \E m \in memories : listing' = {m}
    /\ UNCHANGED <<memories, bulk, purge, saves, forgotten>>

\* delete_user_memory_entry: by the namespace and the key that the listing gave.
DeleteEntry ==
    /\ \E m \in listing :
          /\ memories' = Without({m.at})
          /\ listing' = listing \ {m}
          /\ forgotten' = forgotten \union {m.revision}
    /\ UNCHANGED <<bulk, purge, saves>>

\* purge_user_memories of a category or of everything.
BeginPurge ==
    /\ purge = NoAgent
    /\ \E categories \in {MemoryCategories} \union {{c} : c \in MemoryCategories} :
          purge' = [categories |-> categories, batch |-> {}, progressed |-> TRUE,
                    began |-> Revisions({m \in memories : m.at.ns.category \in categories})]
    /\ UNCHANGED <<memories, listing, bulk, saves, forgotten>>

\* Mutant of InPurge: the agents' own namespaces are not searched.
InPurgeExact == {m \in memories : m.at.ns.category \in purge.categories /\ m.at.ns.agent = NoAgent}

\* What the search of the purge finds: its prefix is the user's, or the category's.
InPurge == {m \in memories : m.at.ns.category \in purge.categories}

\* The next batch, or the end of the loop: nothing is found, no delete of a batch worked, or it
\* was the last of _MAX_PURGE_BATCHES, however many these are.
PurgeSearch ==
    /\ purge # NoAgent
    /\ purge.batch = {}
    /\ \/ /\ purge.progressed
          /\ InPurge # {}
          /\ \E batch \in SUBSET InPurge :
                /\ Cardinality(batch) = IF Cardinality(InPurge) < PurgeBatch
                                        THEN Cardinality(InPurge) ELSE PurgeBatch
                /\ purge' = [purge EXCEPT !.batch = {m.at : m \in batch},
                                          !.progressed = FALSE]
          /\ UNCHANGED forgotten
       \/ /\ purge.progressed
          /\ InPurge = {}
          /\ purge' = NoAgent
          /\ forgotten' = forgotten \union purge.began
       \/ /\ purge' = NoAgent
          /\ UNCHANGED forgotten
    /\ UNCHANGED <<memories, listing, bulk, saves>>

\* One entry, in its own namespace; a delete that fails is logged.
PurgeDelete ==
    /\ purge # NoAgent
    /\ \E place \in purge.batch :
          \/ /\ purge' = [purge EXCEPT !.batch = @ \ {place}, !.progressed = TRUE]
             /\ memories' = Without({place})
          \/ /\ purge' = [purge EXCEPT !.batch = @ \ {place}]
             /\ UNCHANGED memories
    /\ UNCHANGED <<listing, bulk, saves, forgotten>>

MemoryNext ==
    \/ \E a \in MemoryAgents : \/ SaveMemory(a) \/ UpdateMemory(a)
                               \/ DeleteMemory(a) \/ BeginBulkDelete(a)
    \/ BulkDelete \/ ListMemories \/ DeleteEntry
    \/ BeginPurge \/ PurgeSearch \/ PurgeDelete

MemorySpec == MemoryInit /\ [][MemoryNext]_memoryVars

\* What recall_memories may give an agent, whatever it asks for and however it is ranked.
Recallable(a) == UNION {Search(NamespaceFor(a, c)) : c \in MemoryCategories}

-----------------------------------------------------------------------------
(* Properties.                                                             *)

\* What the user deletes from a listing, or had when a purge began that ran to its end, no agent
\* recalls and no new listing shows any more, whatever agents save, update and delete meanwhile.
ForgottenIsGone ==
    /\ Revisions(memories) \intersect forgotten = {}
    /\ \A a \in MemoryAgents : Revisions(Recallable(a)) \intersect forgotten = {}
=============================================================================
