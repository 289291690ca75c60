----------------------------- MODULE VectorStore -----------------------------
(***************************************************************************)
(* Collections of embedded documents: VectorStoreService over Qdrant, from *)
(* the routes of api/v1/routes/vector.py and the tasks of vector_tasks.py, *)
(* in several processes.  Every call of Qdrant is a step; requests         *)
(* interleave between them.  A document is its id; ids are ordered as      *)
(* Qdrant scrolls them.                                                    *)
(***************************************************************************)
EXTENDS Integers, FiniteSets, Sequences

CONSTANTS
    Processes,     \* API and worker processes
    Collections,
    MaxDoc,        \* documents have the ids 1..MaxDoc
    Queries,       \* requests in progress at the same time
    MaxQueries,    \* bound: requests ever begun
    ScrollBatch,   \* points that one scroll returns at most: 100 in the code
    Pages          \* offsets and limits that are asked for

ASSUME VectorStoreAssumption ==
    /\ MaxDoc \in Nat
    /\ ScrollBatch \in Nat \ {0}
    /\ Pages \subseteq [offset : Nat, limit : Nat \ {0}]

Docs == 1..MaxDoc

VARIABLES
    collection,    \* for each collection whether it exists, the dimension of its
                   \* vectors, and its documents
    dimension,     \* what each process believes the embeddings' dimension to be
    retrievers,    \* collections each process has a cached retriever for
    query,         \* what each request is doing
    asked          \* how many requests have begun

vectorVars == <<collection, dimension, retrievers, query, asked>>

\* "true" is the dimension of the embeddings, "assumed" the configured one.
Dimension == {"true", "assumed"}
Missing == [exists |-> FALSE, dimension |-> "true", docs |-> {}]

\* A request: its place; its process; what it is for; its collection; how many times it
\* will still look for the collection; the documents to ingest; the page wanted, the
\* points passed, the id the scroll continues at (0: the start) and the page so far; and
\* whether the collection stayed as it was since the scroll began.
Purposes == {"ingest", "ensure", "retriever", "list", "delete"}
IdleQuery == [pc |-> "idle", process |-> CHOOSE p \in Processes : TRUE, for |-> "ensure",
              of |-> CHOOSE k \in Collections : TRUE, looks |-> 0, docs |-> {},
              want |-> CHOOSE w \in Pages : TRUE, passed |-> 0, from |-> 0,
              page |-> << >>, steady |-> TRUE]
Query == [pc : {"idle", "look", "create", "upsert", "scroll", "listed", "drop"},
          process : Processes, for : Purposes, of : Collections, looks : 0..2,
          docs : SUBSET Docs, want : Pages, passed : Nat, from : 0..MaxDoc,
          page : Seq(Docs), steady : BOOLEAN]

VectorTypeOK ==
    /\ collection \in [Collections -> [exists : BOOLEAN, dimension : Dimension,
                                       docs : SUBSET Docs]]
    /\ dimension \in [Processes -> Dimension \union {"unknown"}]
    /\ retrievers \in [Processes -> SUBSET Collections]
    /\ query \in [Queries -> Query]
    /\ asked \in 0..MaxQueries

VectorInit ==
    /\ collection = [k \in Collections |-> Missing]
    /\ dimension = [p \in Processes |-> "unknown"]
    /\ retrievers = [p \in Processes |-> {}]
    /\ query = [q \in Queries |-> IdleQuery]
    /\ asked = 0

Done(q) == query' = [query EXCEPT ![q] = IdleQuery]

\* A step that changes the documents of k disturbs the pages being listed.
Disturb(k, next) ==
    query' = [r \in Queries |->
                [next[r] EXCEPT !.steady =
                    @ /\ (next[r].of = k => next[r].pc \notin {"scroll", "listed"})]]

Ask(q, request) ==
    /\ query[q].pc = "idle"
    /\ asked < MaxQueries
    /\ asked' = asked + 1
    /\ query' = [query EXCEPT ![q] = request]

-----------------------------------------------------------------------------
(* Ingestion.                                                              *)

\* add_texts of the service, which looks for the collection before add_texts of the provider
\* does again; without texts it refuses.  The ensure route looks once.
AddTexts(p, k, docs) == [IdleQuery EXCEPT !.pc = "look", !.process = p, !.for = "ingest",
                             !.of = k, !.looks = 2, !.docs = docs]

Ingest(q) ==
    /\ \E p \in Processes, k \in Collections, docs \in (SUBSET Docs) \ {{}} :
          Ask(q, AddTexts(p, k, docs))
    /\ UNCHANGED <<collection, dimension, retrievers>>

Ensure(q) ==
    /\ \E p \in Processes, k \in Collections :
          Ask(q, [IdleQuery EXCEPT !.pc = "look", !.process = p, !.of = k, !.looks = 1])
    /\ UNCHANGED <<collection, dimension, retrievers>>

\* A cached retriever is answered at once; as_retriever looks for its collection.
GetRetriever(q) ==
    /\ \E p \in Processes, k \in Collections :
          /\ k \notin retrievers[p]
          /\ Ask(q, [IdleQuery EXCEPT !.pc = "look", !.process = p, !.for = "retriever",
                         !.of = k, !.looks = 1])
    /\ UNCHANGED <<collection, dimension, retrievers>>

\* The collection is there: look again, store the documents, cache the retriever or answer.
Found(q) ==
    LET f == query[q]
    IN /\ query' = [query EXCEPT ![q] = IF f.looks > 1 THEN [f EXCEPT !.pc = "look", !.looks = @ - 1]
                                        ELSE IF f.for = "ingest" THEN [f EXCEPT !.pc = "upsert"]
                                        ELSE IdleQuery]
       /\ retrievers' = IF f.for = "retriever"
                        THEN [retrievers EXCEPT ![f.process] = @ \union {f.of}]
                        ELSE retrievers

\* ensure_collection: get_collection, and for a missing collection the dimension: the one
\* the process remembers, or a probe; when the probe fails the local backend remembers the
\* configured one, the remote backend fails the request.
LookFor(q) ==
    /\ query[q].pc = "look"
    /\ LET f == query[q]
       IN \/ collection[f.of].exists /\ Found(q) /\ UNCHANGED dimension
          \/ /\ ~collection[f.of].exists
             /\ \E d \in IF dimension[f.process] = "unknown" THEN Dimension
                         ELSE {dimension[f.process]} :
                   dimension' = [dimension EXCEPT ![f.process] = d]
             /\ query' = [query EXCEPT ![q].pc = "create"]
             /\ UNCHANGED retrievers
          \/ /\ ~collection[f.of].exists /\ dimension[f.process] = "unknown"
             /\ Done(q)
             /\ UNCHANGED <<dimension, retrievers>>
    /\ UNCHANGED <<collection, asked>>

\* create_collection refuses a collection that somebody else has created, and that fails
\* the request.
CreateCollection(q) ==
    /\ query[q].pc = "create"
    /\ LET f == query[q]
       IN \/ /\ ~collection[f.of].exists
             /\ collection' = [collection EXCEPT ![f.of] =
                                 [Missing EXCEPT !.exists = TRUE,
                                                 !.dimension = dimension[f.process]]]
             /\ Found(q)
          \/ collection[f.of].exists /\ Done(q) /\ UNCHANGED <<collection, retrievers>>
    /\ UNCHANGED <<dimension, asked>>

\* The texts are embedded and stored, all of them or, if the embedding fails, the
\* collection has gone or its vectors have another dimension, none.
Upsert(q) ==
    /\ query[q].pc = "upsert"
    /\ LET f == query[q]
           k == f.of
       IN \/ /\ collection[k].exists /\ collection[k].dimension = "true"
             /\ collection' = [collection EXCEPT ![k].docs = @ \union f.docs]
             /\ Disturb(k, [query EXCEPT ![q] = IdleQuery])
          \/ Done(q) /\ UNCHANGED collection
    /\ UNCHANGED <<dimension, retrievers, asked>>

-----------------------------------------------------------------------------
(* Deletion of a collection: the cached retrievers first.                  *)

DeleteCollection(q) ==
    /\ \E p \in Processes, k \in Collections :
          /\ Ask(q, [IdleQuery EXCEPT !.pc = "drop", !.process = p, !.for = "delete",
                         !.of = k])
          /\ retrievers' = [retrievers EXCEPT ![p] = @ \ {k}]
    /\ UNCHANGED <<collection, dimension>>

DropCollection(q) ==
    /\ query[q].pc = "drop"
    /\ LET k == query[q].of
       IN /\ collection' = [collection EXCEPT ![k] = Missing]
          /\ Disturb(k, [query EXCEPT ![q] = IdleQuery])
    /\ UNCHANGED <<dimension, retrievers, asked>>

-----------------------------------------------------------------------------
(* list_documents.                                                         *)

ListDocuments(q) ==
    /\ \E p \in Processes, k \in Collections, want \in Pages :
          /\ collection[k].exists
          /\ Ask(q, [IdleQuery EXCEPT !.pc = "scroll", !.process = p, !.for = "list",
                         !.of = k, !.want = want])
    /\ UNCHANGED <<collection, dimension, retrievers>>

\* The n documents of a set with the lowest ids, and those ids in order.
Lowest(docs, n) == {d \in docs : Cardinality({e \in docs : e < d}) < n}
InOrder(docs) == [i \in 1..Cardinality(docs) |->
                    CHOOSE d \in docs : Cardinality({e \in docs : e < d}) = i - 1]

LesserOf(a, b) == IF a < b THEN a ELSE b

\* Mutant of NewOnPage: the points before the offset are counted from the batch alone.
NewOnPageOfBatch(f, batch) ==
    Lowest({d \in batch : Cardinality({e \in batch : e < d}) >= f.want.offset},
           f.want.limit - Len(f.page))

\* Of the points of a batch, those at or after the offset, as long as the page has room.
NewOnPage(f, batch) ==
    Lowest({d \in batch : f.passed + Cardinality({e \in batch : e < d}) >= f.want.offset},
           f.want.limit - Len(f.page))

\* One round of the loop: the next points, as many as the page still needs and at most a
\* batch; the page ends when it is full, enough points have passed, there are none or
\* none are left, or the collection has gone.
Scroll(q) ==
    /\ query[q].pc = "scroll"
    /\ LET f == query[q]
           ahead == {d \in collection[f.of].docs : d >= f.from}
           size == LesserOf(ScrollBatch, f.want.offset + f.want.limit - f.passed)
           batch == Lowest(ahead, size)
           page == f.page \o InOrder(NewOnPage(f, batch))
           passed == f.passed + Cardinality(batch)
           left == ahead \ batch
           more == /\ Len(page) < f.want.limit
                   /\ passed < f.want.offset + f.want.limit
                   /\ left # {}
       IN query' = [query EXCEPT ![q] =
                      [f EXCEPT !.page = page, !.passed = passed,
                                !.pc = IF more THEN "scroll" ELSE "listed",
                                !.from = IF more THEN CHOOSE d \in left : \A e \in left : d <= e
                                         ELSE 0]]
    /\ UNCHANGED <<collection, dimension, retrievers, asked>>

Listed(q) ==
    /\ query[q].pc = "listed"
    /\ Done(q)
    /\ UNCHANGED <<collection, dimension, retrievers, asked>>

VectorNext ==
    \E q \in Queries :
        \/ Ingest(q) \/ Ensure(q) \/ GetRetriever(q) \/ LookFor(q) \/ CreateCollection(q)
        \/ Upsert(q) \/ DeleteCollection(q) \/ DropCollection(q)
        \/ ListDocuments(q) \/ Scroll(q) \/ Listed(q)

VectorSpec == VectorInit /\ [][VectorNext]_vectorVars

-----------------------------------------------------------------------------
(* Properties.                                                             *)

\* The page that the in-memory provider's list_documents cuts out.
Slice(docs, want) ==
    SubSeq(InOrder(docs), want.offset + 1, LesserOf(want.offset + want.limit, Cardinality(docs)))

\* A page gathered scroll by scroll is the slice the in-memory provider would answer when
\* nobody changed the collection meanwhile, and has no document twice even then
\* (QdrantProvider.list_documents).
PageIsExact ==
    \A q \in Queries :
        LET f == query[q]
        IN f.pc = "listed" =>
             /\ \A i, j \in DOMAIN f.page : i < j => f.page[i] < f.page[j]
             /\ f.steady => f.page = Slice(collection[f.of].docs, f.want)
=============================================================================
