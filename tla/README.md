# RAGX in TLA+

This directory is a verification project for RAGX, the retrieval-augmented
generation service under `src/ragx`: TLA+ modules of its stateful parts, TLC
configurations that check them on small instances, and proofs that TLAPS checks.
Every definition translates the Python source; `PROJECT.json` gives, for each, the
lines it stands for. Paths below are relative to `src/ragx`.

## 1. Inventory

| Component | State it keeps | Operations | Hard behaviour | Modelled by |
|---|---|---|---|---|
| Ingestion pipeline (`ingestion/pipeline.py`) | tasks row (status, attempts), checkpoints, atoms, chunks, vectors, graph | `run_stage`, five stages, `IngestionPipeline.run` | crash between a stage's writes and its checkpoint, retry budget, replay | `IngestContract`, `IngestPipeline`, `IngestPipelineProofs` |
| Submission (`ingestion/dedup.py`, `POST /v1/documents`) | documents, tasks | `submit_ingest` | check-then-act between awaits, failure between row and queue | `IngestSystem`, `IngestSystemProofs` |
| In-process queue (`ingestion/queue.py`) | one asyncio queue per knowledge base | `enqueue`, worker loop | fairness over a snapshot of the queues, loss with the process | `InProcessQueue`, `IngestSystem` |
| Redis Streams queue (`ingestion/queue_redis.py`) | streams, consumer group, pending entries; `_known_kbs` and readers per process | `enqueue`, `consume`, coordinator, readers, acknowledge, dead-letter | delivery across processes and crashes, discovery of streams, trimming | `RedisStreamsQueue`, `IngestSystem` |
| Consumers (`ingestion/worker.py`, `api/app.py`) | none of their own | look the task up, run the pipeline | which database they look in | `IngestSystem` |
| Chunk governance (`api/routes/ingest.py`, `ingestion/reindex.py`) | chunks row (version), vector | PUT, PATCH | optimistic lock over awaits, partial failure | `ChunkGovernance` |
| Semantic cache (`llm/semantic_cache.py`, `plugins/cache_*.py`) | epochs, exact entries, vector entries | `lookup`, `store`, `invalidate_kb` | epoch read before use, swallowed failures | `SemanticCache` |
| Query service (`retrieval/pipeline.py`, `api/routes/chat.py`, `search.py`) | RAG traces | `query`, `search` | races with edits and invalidation; fallback from agentic to standard | `GovernedRetrieval`, `GovernedRetrievalProofs`, `QueryService`, `QueryServiceProofs` |
| LLM router, breaker, ledger (`llm/`) | breaker window and state per target, cost records, semaphores | `chat`, `structured` | retries, fallback, probes, budget | `CircuitBreaker`, `LLMRouter`, `LLMRouterProofs` |
| Hybrid retrieval (`retrieval/hybrid.py`, `assembler.py`, `router.py`) | none | recall, fuse, rerank, assemble, choose a mode | any subset of routes failing, fusion of partial lists, budgets | `HybridRetrieval` |
| Vector stores (`plugins/vector_*.py`) | chunks with vectors and metadata | upsert, delete, search with a filter | three translations of one filter | `VectorFilters`, `ChunkGovernance` |
| Agentic workflow (`agentic/`) | state of one query; an executor and its usage counter shared by all | plan, execute in parallel, synthesize, verify, degrade | partial failure, shared counter, degradation | `AgenticWorkflow` |
| Knowledge graph (`kg/`, `plugins/graph_*.py`) | entities and relations with the documents that mention them; a pickle file | build, merge, delete by document, rebuild | read-merge-upsert over awaits, reference counts, torn file | `KnowledgeGraph`, `KnowledgeGraphProofs` |
| Rate limiter (`api/middleware/ratelimit.py`) | token buckets, in the process or in Redis | `acquire`, `add_tokens` | refill, expiry, Redis restarting | `RateLimiter`, `RateLimiterProofs` |
| Quota (`api/middleware/quota.py`) | usage per tenant and month | add and compare | counted before compared, month boundary | `TenantQuota` |
| Gateway (`api/app.py`, `api/middleware/`) | audit rows | the middlewares in their order around a route; lifespan | order, requests in flight when the process ends | `Gateway`, `GatewayProofs` |
| MCP (`mcp/`, `api/routes/mcp.py`) | sessions, their queues and servers | connect, message, deliver, close; stdio loop | life of a session, answers through a stream that may close | `McpSessions` |
| Plugin registry (`spi/registry.py`) | factories, instances in order of creation | discover, resolve, startup, shutdown | one hook of several failing, lazy instances | `PluginRegistry` |
| Errors (`core/exceptions.py`, `api/errors.py`) | none | code and status of an exception | which class a failure reaches the client as | `HttpErrors` |
| Chunker, parsers, processors, embedders, LLM clients, object stores | none of interest | text segmentation, I/O | return or raise | not modelled (section 7) |
| Metrics, evaluation, settings, ids, prompts | measurements, declarations | | | not modelled (section 7) |

How they interact. `POST /v1/documents` runs `submit_ingest`, which writes a
document row and a task row and enqueues the task id. A consumer, in the API
process (`auto_consume`) or in the worker process, is called by the queue with the
id, looks the task up and awaits the pipeline. The pipeline writes the metadata
store, the vector store and the graph. A query reads the vector store, builds a
prompt and asks the router, which consults the semantic cache first and writes the
answer through; the cache's vector tier lives in the retrieval vector store. An
agentic query runs several such retrievals and model calls at a time and falls back
to the standard path when it cannot finish. The graph stage of a task and an
incremental reindex given a graph store work on one graph. Every HTTP request passes the audit,
IP, authentication, quota, rate-limit and trace middlewares, in this order, before
its route; MCP messages are requests too, answered through another one's stream.
`PUT /v1/chunks/{id}` rewrites the chunk's row and vector and bumps the cache epoch.
Everything in one process shares one event loop: state changes only between two
awaits, so an action of a model is what the code does between two awaits that
matter. Processes share Redis, and a database only if it is a file they share.

What makes each component correct, and what can go wrong, is the list of hazards in
`PROJECT.json`; every property below answers one or more of them.

## 2. Modules

    IngestContract  <-- implements --  IngestPipeline  <-- EXTENDS -- IngestPipelineProofs
                                              ^-- EXTENDS -- MCIngestPipeline
    IngestSystem  -- INSTANCE --> InProcessQueue, RedisStreamsQueue
        ^-- EXTENDS -- MCIngestSystem, IngestSystemProofs
    GovernedRetrieval  -- INSTANCE --> ChunkGovernance, SemanticCache
        ^-- EXTENDS -- MCGovernedRetrieval, GovernedRetrievalProofs
    LLMRouter  -- INSTANCE --> CircuitBreaker
        ^-- EXTENDS -- MCLLMRouter, LLMRouterProofs
    QueryService  -- EXTENDS --> AgenticWorkflow  --> HybridRetrieval --> VectorFilters
        ^                                         \-> HttpErrors
        |-- EXTENDS -- MCQueryService, QueryServiceProofs
    KnowledgeGraph  <-- EXTENDS -- MCKnowledgeGraph, KnowledgeGraphProofs
    Gateway  -- EXTENDS --> RateLimiter, TenantQuota, McpSessions, PluginRegistry, HttpErrors
        ^-- EXTENDS -- MCGateway, GatewayProofs -- EXTENDS --> RateLimiterProofs

**IngestPipeline** is the life of one task. `Skip`, `Begin`, `Write`,
`SaveCheckpoint`, `Retry` and `Fail` are `run_stage`: look for a checkpoint, mark
the row, let the stage function write its rows one at a time, save the checkpoint,
or count an attempt. `After` is the sequence in `IngestionPipeline.run`.
`Interrupt` is the end of the process, a cancelled worker, or a database error in
`run_stage`'s own calls, at any point; `Start` hands the stored task to a new run
whatever its status says, as the consumers do. `Produced` and `MayWrite` are the
five stage functions reduced to ids: atoms are stable, chunk ids are fresh in every
execution. `Doomed` names the two inputs on which the code raises on every attempt.

**IngestContract** is what a poller of `GET /v1/tasks/{id}` may rely on: stages
complete in order, a completed stage stays completed, done means that everything
wanted has completed.

**InProcessQueue** and **RedisStreamsQueue** are the two drivers. The in-process
worker chooses its next task without an await, so `Wake` and `TaskDone` scan all
queues in one step. In `RedisStreamsQueue`, Redis is what `xadd`, `xreadgroup` and
`xack` are used for: a log per knowledge base, a cursor of the group, pending and
acknowledged entries, and trimming by MAXLEN, which may drop the oldest entries or
not.

**IngestSystem** composes them with `submit_ingest` (`Check`, `SaveDoc`, `SaveTask`,
`Enqueue`, `EnqueueFails`: one action per await) and the consumer call (`LookUp`,
`RunSucceeds`, `RunFails`). A deployment says which driver is used, which processes
serve uploads and which consume, and whose database each of them opens. `Crash`
takes a process with its requests, consumer calls, in-process queue and in-memory
database; it may start again.

**ChunkGovernance** is PUT and PATCH on one chunk, one action per await, with the
ingest task's own upsert (`EmbedStage`). `home` is false when the chunk belongs to
another knowledge base than the application's vector store; the store then ignores
the delete and refuses the upsert. `ReindexFails` is the embedder or the store
raising after the row was saved.

**SemanticCache** has the steps of `lookup`, `store` and `invalidate_kb` for both
exact backends. Redis failures are swallowed by `RedisCache` and appear as the
value it returns instead. An answer is identified with its prompt.
**GovernedRetrieval** runs queries (`Retrieve`, `LookupEpoch`, `LookupExact`,
`LookupNear`, `Generate`, `StoreExact`, `StoreNear`) against the edits. A query
whose model call fails has no further effect and is not an extra action. The
cache is consulted only for requests that say `cacheable`. In this commit the query
service leaves the flag unset, so its queries take `Uncached`; the flag is set by
callers of the router, such as its tests. A query of the model may have it or not,
and what is said of the cache is said of those that have it.

**CircuitBreaker** is the breaker of one target, as operators on its record:
`IsOpen` and `Asked` are the answer and the side effect of `is_open`, `AfterSuccess`
and `AfterFailure` the two record functions. **LLMRouter** runs `chat` and `structured`
for concurrent requests. `Lookup`, `Gate`, `OverCap` and `Recheck` come before the list of
targets is built (`Lists`); `GoTo` is one turn of the loop over it, up to the wait
for the provider's semaphore; `Acquire`, `Succeed`, `Store`, `Retry` and `GiveUp` are
the body under the semaphore. `Cancel` is a client that goes away or an exception the
loop does not catch. The cache is reduced to who stored an answer, and the ledger to
the sum for one capped knowledge base. A list consists of entries (`Entry`), each of which
names a target (`TargetOf`): `RoleConfig` has a primary and free lists of fallbacks and
candidates, and nothing keeps a target from being listed again. Samples and requests carry history
(`by`, `admitted`, `given`, `waved`, `crowded`) that no guard reads.

**VectorFilters** is `FilterExpr` with its validation and what the three stores make of
it, as predicates on a chunk: `Predicate` (SQL), `BuildEsFilter`, `BuildQdrantFilter`. The stores
differ on rows without the field and on negation, and the model keeps the differences.

**HybridRetrieval** has no state: the four recall routes as ranked sequences of chunks
or a failure, reciprocal-rank and weighted fusion, rerank, the assembler that packs
chunks into a token budget, and the choice of mode, each an operator on chunks whose
similarity, keyword match and entity mentions are constants. Scores are multiplied by a
common multiple of their denominators (`Scale`), so that they stay whole numbers.

**AgenticWorkflow** is `_run_graph` for concurrent queries: intent, plan (repaired and cut
to `MaxTasks`), the sub-tasks of `ParallelExecutor` (recall, rewrite once, answer; each may
raise on its own), synthesis, verifier, and the two ways to degrade. `usage` is the
counter of the one executor that all queries share. **QueryService** puts the chat and search
routes around it: the mode decision, the standard path with its own failures, the
fallback from a degraded agentic query, and the traces each of them saves. A deployment
(`dep`) says which store, routes, fusion and reranker are wired and whether there is a model.

**KnowledgeGraph** has a job per document that goes through `build_for_chunks`: extraction
with its fallbacks, the confidence filter, the merge of each entity against what the
store returned, ids of relations, and the upserts at the end, each a step of its own.
`store` is `"nx"`, whose calls run under a lock and end by writing the file (`Dump`), or
`"neo4j"`, a transaction per statement, any of which may fail: each entity and each
relation of an upsert, and the four statements of a deletion (`DeleteNeo4j`, `DetachNeo4j`,
`UnlinkNeo4j`, `PruneNeo4j`), are steps of their own. NetworkX holds the graph twice, and so does the
model: `nodes` and `edges` are the graph that is traversed, `entities` and `relations` the
dictionaries beside it, which `upsert_relations` and `delete_by_doc` do not change alike.
What `neighbors` follows (`Edges`) are the edges of the one store and the relations of the other.
The relation statements of one upsert may run in any order, and relations of
one build with the same ends are one. The attributes that networkx keeps on nodes and edges,
which grow stale, are left out: nothing reads them. Deletions,
`delete_chunk_from_graph` and the rebuild of a reindex interleave with builds; they are modelled
as the operations the library offers, since in this commit the PUT route calls
`incremental_reindex` without a graph store. `Crash`
may come while the file is written; `Load` then finds it torn and starts from an empty
graph, as the code does.

**RateLimiter** is the token bucket, once in the process and once as the Lua scripts with
their expiry, cached digests and failing calls; **TenantQuota** the monthly counters;
**McpSessions** the JSON-RPC dispatch, the SSE sessions and the stdio loop; **PluginRegistry**
discovery, resolution and hooks. **Gateway** sends requests through them: one action per
middleware, since each is a task of its own, then the route, then back through quota and
audit. `Start`, `Stop` and `Crash` are the application's lifespan. A scenario fixes the settings, which
requests come together and which events of the environment (`time`, `month`,
`outage`, `end`, `failing hooks`, `charges`) may happen in it, which keeps unrelated events from
multiplying.

**HttpErrors** is the table of exception codes and their HTTP statuses, used by both.

Definitions named `Mutant...` are plausible bugs beside the definition they would
replace; nothing in a specification uses them. `PROJECT.json` lists, for every
property of a passing run, a mutation of the code's model that violates it.

## 3. Runs

| Run | Question | Bounds |
|---|---|---|
| `pipeline` | Do done, checkpoints, attempts and completed stages mean what they say, whatever is interrupted? Does the pipeline implement the contract? | seven configurations, at most 2 atoms and 2 chunks, 2 attempts, 3 runs of the task |
| `system` | What does a 202 guarantee; is a task run twice; are knowledge bases served fairly; do queues drain? | 4 uploads in 2 knowledge bases, 2 processes, 1 process death, MAXLEN 1, four deployments |
| `governance` | Can retrieval or the cache serve superseded text? | 2 edits (each PUT or PATCH), the embedding stage, 2 queries, 1 failing Redis call |
| `router` | Are permits, breaker samples, errors and the budget accounted for when requests overlap, retry, fall back and are cancelled? | 3 requests in three mixes, 2 targets on a provider each, lists of up to 3 entries, 1 permit, breaker opening on 2 failures, 2 seconds |
| `query` | What do answers cite, what does verified mean, whose usage is counted, what do traces say, and does every query end? | 2 requests in five workloads, 4 chunks in 2 knowledge bases, four deployments over 3 stores, plans of up to 2 tasks |
| `graph` | Do entities, relations and documents stay connected under concurrent builds, deletions and reindexing? | 2 documents with 3 chunks, 5 names, five wirings (three of networkx, two of Neo4j), 1 process death, 1 rerun of each graph stage |
| `gateway` | Do limits and quotas hold, is every request audited and answered, do sessions and plugins follow their owners? | up to 3 requests in a scenario, 2 tenants beside the default one, 1 session, 3 time units, 2 months, 2 starts |
| `replay` | violated: "idempotent replay" | as `pipeline` |
| `stream_readers` | violated: new streams are picked up by the coordinator | one process |
| `pending` | violated: a failed entry is reclaimed | one process |
| `optimistic_lock` | violated: two edits of one version, at most one succeeds | as `governance` |
| `invalidation` | violated: invalidated entries are unreachable | as `governance`, no failing Redis call |

Why the bounds are enough. Two attempts distinguish retrying from giving up, and
three runs let an interrupted replay be replayed. The configurations are those
on which a run takes another course: with and without processing and graph, with
nothing to chunk, and the two inputs on which processing or chunking always raises.
MAXLEN 1 makes trimming happen with two uploads. Four uploads give one knowledge
base three tasks, which is more than the two a neighbour may be overtaken by. One
crash is enough to restart every process once and lose every kind of state. Two
edits show every interleaving of a pair, and a second query reads what a first one
cached. One permit per provider makes requests wait for each other, and one second of
window and of opening lets a breaker open, become half open and open again in two.
`MCAlike` makes one pair of prompts similar enough for the vector tier, so
that it has hits that are not exact. Two queries are enough for one to reset or add to the
counter of the other, and the two chunks of `k1` do not fit a context together with a cached
answer, so that the assembler drops some. In the graph, two documents name one
entity in two ways and share another, so that merges, reference counts and
relations across documents all occur; the second chunk of `d1` meets the entity of the first.
What the small extractor finds is the same relation in both documents, so that one document's
deletion leaves an edge of networkx to the other. One request of the router lists its first
target again as its last fallback.
At the gateway a burst of two requests and a cap of two bytes are passed by the third request or
byte, and three time units refill and expire a bucket.

What the passing runs show.

* `DoneMeansIndexed`: however often a task is interrupted and replayed, when it says
  done every chunk row of the document has a vector, including rows a crashed
  execution left behind. `CheckpointedIsStored` and `CompletedStageIsFrozen` are why:
  a checkpoint never precedes its rows, and never changes.
* `RetryBudget`, `RunEnds`: retrying ends, although attempts are never reset.
* `SequentialUploadsAreDeduplicated` is what the unlocked check still guarantees:
  only overlapping uploads can both be stored. `RejectedOnlyForATwin` is the tenant
  boundary.
* `AcceptedIsHeld`, `AtMostOneCall`, `AckedIsDone`: delivery is at most once, an
  accepted task is never silently forgotten by Redis except by trimming, and with one
  shared database an acknowledged task is done. With a database per process the last
  one is false (the worker looks tasks up in its own in-memory database and
  acknowledges what it does not find), which is why the property names the condition.
* `RoundRobin`: at most two tasks of each other knowledge base come first.
* `InProcessTaskIsRun`, `ReadStreamsDrain`: the liveness the loops are for.
* `NeverServesSuperseded`, `AnsweredFromTheRow`: deleting the vector before saving the
  row makes failed edits harmless, and a query's answer is one to what the row said
  when it retrieved, as long as writers of the chunk do not overlap.
  `RefusedLeavesNoTrace`, `EditsKeepTheChunkSearchable` hold without that condition.
* `ExactHitsOutliveNoInvalidation`: reading the epoch before the await is safe for
  the exact tier. With Redis it takes a second invalidation, because INCR starts from 0
  while an unset epoch reads as 1; the `invalidation` run shows the consequence.

* `SlotsAreReturned`: a fallback, a failure, a cancelled client and a failing cache write
  all give the permit back, so with finite retries every request ends (`RequestsEnd`).
* `OpenTargetsGetNoNewRequests`: the strategies and the loop never admit a request to a
  target that is open then. Requests admitted earlier may still call it, since the check
  comes before the wait for the semaphore. `OneSamplePerRequest`: attempts are not samples; a
  window has at most one for each entry of a request's list that names the target, so two of one
  request where its role lists the target twice.
* `LoneCallsOvershootOnce` is what is left of "daily cost cap": one call beyond it if calls
  do not overlap. With overlapping calls each of those in flight may exceed it.
* `FailedMeansAllFailed`: 6001 under the priority strategy is raised only after every
  entry of the list had a call fail on that request.

* `StandardAnswersAreGrounded`: failing routes, fallback and fusion never let an answer cite
  another knowledge base, a cached answer or more than the budget, and no store returns a
  chunk that contradicts a filter, except Qdrant, which reads `ne` in an or-group as `eq`.
* `AgenticAnswersAreVerified`: an agentic answer either says that nothing was found or
  passed the verifier and rests on sub-tasks that had data, whichever others failed.
* `LoneUsageIsOwn` is what the shared counter still guarantees: queries that execute alone
  report their own usage. `TracesAreHonest`: the trace under a request's id agrees with what
  the client was told, although a degraded query saves two. `QueriesEnd`: no failure hangs one.
* `BuiltMeansPresent`: what a build merged is stored, lists its document and can be found,
  whatever happens to other documents, and survives a restart unless the file is missing or
  torn. `DeletedIsForgotten`: a deleted document is in no entity's and no relation's list, provided
  that no build had read the graph before the deletion (`mixed`), since its batch would bring
  the reference back. Its edges are another matter: networkx keeps them, and what holds is that
  an edge joins entities which other documents list. Entities and relations without any
  document exist only between two statements of a Neo4j deletion, or after one failed there,
  until the next deletion of whatever document collects them.
  `RelationsJoinEntities`: each relation has its edge, and no two entities share an id; that edges
  lead to entities of the store holds for Neo4j without condition and for networkx unless `mixed`.
* `BucketsHold`: a bucket never lets through more than its burst and the refill since it came
  into being, through charges, expiry and Redis restarting. `QuotaHolds`: adding before
  comparing is safe for the cap, at the price of refused uploads that count.
* `AuditIsComplete`: one row for every answered request, with the status its client got; a row is
  shown to its tenant only. `SessionsAnswerOnce`: one answer per message, never another
  session's, and never beyond the access list of the key that opened the session (the run opens
  one session, so that no answer goes to another's is the theorem's part).
  `PluginsFollowTheApp`: a raising hook does not keep the others from theirs.
  `RequestsAreAnswered`: refusals, failures and closed streams leave nobody waiting.

What the router's code does against its comments, seen while modelling it and stated
here without a run: a half-open breaker lets every call pass, not "a single probe"
(`llm/circuit.py:40`); a failed probe reopens it only if the window still holds
`min_samples`, and once it is half open, the success of a call admitted before
it opened closes it; an
over-cap request with a cached answer is let through the gate and asks the model
(`llm/router.py:337-341`); structured calls are never charged; an open target raises 6002
although later targets of the list may be healthy.

In the same way, without a run, from the other parts:

* Graph. With networkx two chunks of one build that name the same new entity raise KeyError
  (`plugins/graph_nx.py:117`) and fail the task. With Neo4j merging by name or
  description never finds a match, MERGE keeps the stored id, and relations between entities
  that are already stored are dropped silently. A relation is dropped too when the stored
  entity has a longer name. `delete_chunk_from_graph` never lowers a count with networkx. When a
  document is deleted, networkx pops a relation that nobody lists from its dictionary but
  leaves its edge between two entities that stay (`plugins/graph_nx.py:158-165`); `neighbors` and
  `topics` walk the graph and still follow it, until one of the entities goes. Where `mixed`, an edge
  may also lead to a node without an entity, which `neighbors` passes over in its result but walks
  through. A reindex deletes the graph of the whole document and rebuilds that of one chunk. All knowledge
  bases share one `persist_path`.
* Retrieval. The fused hits come in the order in which the routes first named them, not by
  score, and are then cut, although `tests/unit/retrieval/test_hybrid.py:46` says that a chunk
  hit by both routes ranks above single-route hits. The keyword score of the SQLite store
  inverts the ranking in weighted fusion. `ne` excludes rows without the field in SQLite and
  includes them elsewhere. Qdrant compares the members of `in` as strings, so numbers never
  match. Entries of the semantic cache are excluded from standard queries but not from
  `/v1/search` or the agentic executor. The graph routes search with a null vector of
  length 8, which a store of another dimension refuses. A first chunk larger than
  the budget leaves an empty context with which the model is still asked.
* Traces. A client's `X-Trace-Id` becomes the id of its trace (`middleware/trace.py:18-20`), and MCP
  queries use one id per knowledge base (`mcp/server.py:330`), so that traces of such queries
  replace each other. The ids of the model are unique: the clause of `TracesAreHonest` that a
  request's trace is its own presupposes it.
* Agentic. Sub-tasks retrieve from the default knowledge base whatever the request names.
  Without a model the chat route answers 500 although the docstring says it degrades.
* Gateway. The token quota only warns, although the docstring of `quota.py` says 1004.
  Bodies without Content-Length count as 0. Two uploads that together exceed the cap may both be
  refused. After a Redis restart the cached digests fail and the limiter lets everything
  pass for the life of the process. Trace is the innermost middleware, so refused requests have
  no trace id; the rows of those refused by authentication, quota or limit are
  therefore outside the clause of `AuditIsComplete` about tenants. A request whose exception
  nobody handles has no audit row, among them one with a JWT whose header is no object or whose
  `exp` is no number (`middleware/auth.py:84`, `:98`), and an MCP message whose body is no object and
  whose query names no session (`routes/mcp.py:72`). The stdio server never
  runs the lifespan, so `ragx_list_kbs` always fails there. Sessions are never
  removed. Instances resolved after startup never get their startup hook.

The five violations are disagreements between the code and its own comments or tests;
`PROJECT.json` quotes both under "findings".

CHECK_DEADLOCK is FALSE in every configuration: the systems stop when all uploads,
runs, edits, queries and requests allowed by the bounds are over.

## 4. Fairness

`IngestPipeline.FairSpec` has weak fairness on `Progress`: the event loop schedules
a run that can go on, backoff sleeps are finite, and stage functions return or raise
(model calls run under `asyncio.wait_for`). Nothing forces `Start` or forbids
`Interrupt`. `IngestSystem.FairSpec` has weak fairness on a process's startup
call, its coordinator (a loop with a 0.5 s sleep), its readers, its consumer calls and the
in-process worker. Uploads and crashes are not fair. `LLMRouter.FairSpec`
has weak fairness on the steps of each request: provider calls run under
`asyncio.wait_for`, backoff sleeps are finite, and the loop schedules a request that
can go on. Nothing forces `Cancel` or a tick. `QueryService.Spec` has weak fairness on the
steps of each query, for the same reason: embeddings, searches and model calls return or raise.
`Gateway.Spec` has weak fairness on some request taking its next step, and on a stream
sending what is queued; since each request takes finitely many steps, fairness per request
would say no more. Clock, clients, Redis and restarts are promised nothing. The
safety of `GovernedRetrieval` and `KnowledgeGraph` needs no fairness.

## 5. Proofs

`IngestPipelineProofs` proves, for every set of atoms, every choice of
configurations, and every `MaxAttempts` and `MaxRuns`:

| Theorem | Statement |
|---|---|
| `TypeCorrect` | `Spec => []TypeOK` |
| `BudgetHolds` | `Spec => []RetryBudget` |
| `CheckpointsAreBacked` | `Spec => []CheckpointedIsStored` |
| `DoneIsIndexed` | `Spec => []DoneMeansIndexed` |
| `FrozenStages` | `Spec => CompletedStageIsFrozen` |
| `RunsComeToTheirEnd` | `Spec => RunAdvances` |
| `Refinement` | `Spec => ImplementsContract` |

They rest on `ConstantsAssumption` only: `MaxAttempts` is a positive number, `MaxRuns`
a number, configurations are well formed, each document has finitely many atoms, and atom ids
are not chunk ids.

The invariants are not inductive. `IInv` adds what the code relies on without saying
so: `WorkOK`, that a stage function at work has written or still holds all it
returned; `Position`, that a run in a later stage has the earlier ones behind it
in the database and not merely in memory; and `Durable`, that the tables agree with
each other when nobody runs, in particular that an embedding checkpoint implies a chunking
checkpoint. The last is the point of the argument: a replay skips the chunker only if
it has a checkpoint, so no chunk row can appear after the vectors were declared
complete. There is one lemma per action. `Refinement` uses `IInv` for the two
steps that need it, completing a stage (everything wanted before it has completed)
and finishing. `RunsComeToTheirEnd` adds `Finite`: what a stage still has to do is a
finite set, so that doing one more of it makes it smaller.

`LLMRouterProofs` proves, for all finite sets of requests and entries, every mix of
requests and every setting of the breaker (`RouterAssumption`):

| Theorem | Statement |
|---|---|
| `TypeCorrect` | `Spec => []TypeOK` |
| `PermitsBalance` | `Spec => []SlotsAreReturned` |
| `OpenIsRespected` | `Spec => []OpenTargetsGetNoNewRequests` |
| `SamplesCountRequests` | `Spec => []OneSamplePerRequest` |
| `OvershootIsOneCall` | `Spec => []LoneCallsOvershootOnce` |
| `AllTargetsHadFailed` | `Spec => []FailedMeansAllFailed` |
| `RequestsComeToTheirEnd` | `Spec => RequestsAdvance` |
| `PermitsAreWithCalls` | `Spec => []WaitsAreForCalls` |

The types alone are not inductive: a permit could be returned to a provider that has
all of them, unless permits are accounted for. `IInv` therefore joins the types,
`SlotsAreReturned`, `Going` (a request past the gate is at a target) and `Admissions`
(none was admitted in the future). `BreakerStep` says what any of the breaker's
functions may do to it, and composes; two lemmas, `GoToSafe` for steps that choose a
target and `MoveKeeps` for those that keep it, carry all actions. `SamplesCountRequests`,
`OvershootIsOneCall` and `AllTargetsHadFailed` need `TraceInv` on top of it, what a request has
left behind: it has been sampled or has failed only at entries of its list that it is past.
`RouterAssumption` says that no entry occurs twice, which is what an entry is, a place of one list; it
does not say that targets differ. While calls are lone, what the ledger holds was at most the cap when the last of them was let through.
`PermitsAreWithCalls` is the accounting of permits read as freedom from deadlock: a request
waits for a permit only while a call under way holds one.

`GovernedRetrievalProofs`, for every set of editors, queries and knowledge bases, both
caches, and any number of failing Redis calls (`RetrievalAssumption`):

| Theorem | Statement |
|---|---|
| `GovernedInvariant` | `Spec => []IInv` |
| `SupersededIsNeverServed` | `Spec => []NeverServesSuperseded` |
| `RefusalsLeaveNoTrace` | `Spec => []RefusedLeavesNoTrace` |
| `EditedStaysSearchable` | `Spec => []EditsKeepTheChunkSearchable` |
| `AnswersComeFromTheRow` | `Spec => []AnsweredFromTheRow` |
| `ExactHitsAreCurrent` | `Spec => []ExactHitsOutliveNoInvalidation` |

What the properties say of the row and the vector holds because of what the handlers hold
in local variables between two awaits, which the properties do not mention. `Alone` says it
for writers that do not overlap: the copy an editor works on is the row's, and from the
delete to the upsert there is no vector. `Marks` says of overlapping ones that no copy which
is still to be written carries the mark of a refused edit. `Missing` names who is
to blame if the chunk has no vector. For the cache, `Epochs` relates the epoch a lookup
remembers to the counter: it is never ahead of it, and no older than the last invalidation the
lookup knew of, except for the first, since INCR of an unset counter gives the 1 that its
absence is read as. `Fresh` keeps a query's source apart from its answer.

`IngestSystemProofs`, for every set of processes, finite set of knowledge bases, set of
uploads, every deployment, `MaxLen` and `MaxCrashes` (`SystemAssumption`):

| Theorem | Statement |
|---|---|
| `RejectionsHaveATwin` | `Spec => []RejectedOnlyForATwin` |
| `SequentialUploads` | `Spec => []SequentialUploadsAreDeduplicated` |
| `CalledAtMostOnce` | `Spec => []AtMostOneCall` |
| `AcceptedTasksAreHeld` | `Spec => []AcceptedIsHeld` |
| `AckedTasksAreDone` | `Spec => []AckedIsDone` |
| `TurnsAreBounded` | `Spec => []RoundRobin` |

There are four invariants, each inductive on top of those before it. `SubmitInv`: a row is
in the database its request writes to, and a request that passed the check has none of the
requests that were over when it began beside it. `QueueInv`: where a task is. Its core is
`Streamed`, the position of the consumer group in a log: nothing behind it was handed out, and
whatever is before it is pending, acknowledged, or was dropped by MAXLEN unread; with
`CalledOnce`, a call is counted once per delivery. `TaskInv`: a task that returned or is
acknowledged is done, in one shared table. `TurnInv`: the bound of `RoundRobin` is not
inductive, since it does not say where in its pass the worker is. `Waits` counts the
turns to the place of a knowledge base in the rest of this pass, or in the next
if this one is past it, and that sum with the turns already passed stays below twice the number
of other knowledge bases.

`RateLimiterProofs` has the lemmas about the buckets, for every capacity, rate and cost.
`BucketsHold` counts requests and the scripts count tokens; `LimiterInv` ties them: the cost
of what a bucket let through and the tokens left in it are at most its burst and what was
refilled until its last refill. A bucket that expired returns full, and that is sound only because
its time to live is long enough to fill it (`Expired`).
`GatewayProofs` builds on it, for any finite set of requests, every set of tenants,
keys, sessions and scenarios, and every limit (`GatewayConstants`):

| Theorem | Statement |
|---|---|
| `GatewayInvariant` | `Spec => []GatewayInv` |
| `BucketsAlwaysHold` | `Spec => []BucketsHold` |
| `UploadsStayWithinTheCap` | `Spec => []QuotaHolds` |
| `EveryAnswerLeavesItsRow` | `Spec => []AuditIsComplete` |
| `EveryMessageIsAnsweredOnce` | `Spec => []SessionsAnswerOnce` |
| `InstancesFollowTheApp` | `Spec => []PluginsFollowTheApp` |

`Callers` says that a request past authentication is known by its own credential's tenant
and access list, also when a row, a charge or a session is written on its behalf later.
`Charges` is the argument for the cap: every byte of the usage belongs to at most one
upload, granted or still between adding and reading, so that one which reads a usage within
the cap leaves room for those granted before. `Trail` says which requests have a row and which
lost theirs, to the ring of the in-memory store or with the process; `Talks` that every message
a session took up is seen, queued or with its tool, and that a session has one opener.
`PluginsFollowTheApp` is inductive once instances have a type (`PluginInv`); the work is in
`ResolveAllKeeps`, for every configuration and wherever a factory fails in it: what was cached
stays in its place, nothing is made twice, and without a failure nothing is missing.
`GatewayConstants` says that scenarios are well formed: identities have a tenant, sizes
are numbers, and no two requests open one session, as session ids are fresh (uuid4).

`KnowledgeGraphProofs`, for any documents, chunks, extractions and wirings, and any number of
reruns (`GraphConstants`):

| Theorem | Statement |
|---|---|
| `KnowledgeGraphInvariant` | `Spec => []KGInv` |
| `BuiltDocumentsArePresent` | `Spec => []BuiltMeansPresent` |
| `DeletedDocumentsAreForgotten` | `Spec => []DeletedIsForgotten` |
| `RelationsAlwaysJoinEntities` | `Spec => []RelationsJoinEntities` |

Memory and file are two graphs about which `KGInv` says the same (`GraphInv`), so that
writing the file and restarting from it carry it over. What makes it inductive is about the
jobs: whatever a batch holds was copied from the graph or got an id that nobody has
(`OneNorm`: one id, one name); a deleted document is in nobody's batch unless a
deletion overlapped a build (`NotHeld`); and what a relation will join is stored, or in the
batch that is upserted before it (`LinksAreKnown`). Of the graph itself `EdgesFit` says that edges join
nodes and every relation has its edge, which lets a deletion be argued node by node;
`ReferencedOrLeft` that what no document lists is the leaving of a deletion under way or failed.

`QueryServiceProofs`, for any requests and workloads, any finite set of chunks and entities,
any texts and plans, every deployment and every limit (`FilterConstants`,
`RetrievalConstants`, `CacheIsNotExtracted`, `DeploymentsConstant`, `WorkflowConstants`,
`WorkloadsConstant`):

| Theorem | Statement |
|---|---|
| `QueryInvariant` | `Spec => []QInv` |
| `AnswersAreGrounded` | `Spec => []StandardAnswersAreGrounded` |
| `AgenticAnswersPassed` | `Spec => []AgenticAnswersAreVerified` |
| `LoneBudgetsAreOwn` | `Spec => []LoneUsageIsOwn` |
| `StoredTracesAreHonest` | `Spec => []TracesAreHonest` |
| `QueriesComeToTheirEnd` | `Spec => QueriesAdvance` |

What a client is told was decided steps before, by what its request and its run of the workflow
held in between. `AgentInv` follows a run: what its sub-tasks have left behind when a stage
begins, so that a synthesis can only cite what a task that answered was shown, and a
verified answer has a sub-task with data. `UsageInv` says who counts: while a query executes
that no other has overlapped, nobody else executes, and the shared counter is the usage of its
own sub-answers. `AnswerInv` carries the workflow's result to the request until
its trace is written, `TraceInv` the request's result to the trace, across the fallback, where
an inner and an outer service both write one. `GroundInv` is about citations and rests on
lemmas about retrieval: a ranking has every row at one place; fusion, rerank and the packing of
the context add no chunk that no route returned and none twice, and stay within the token budget; no
graph route returns an entry of the cache; and what passes a store's translation of a filter
does not contradict the filter. The flattened citations, defined by recursion, are reasoned
about by the least place where a claim would fail, not by an induction theorem.
`CacheIsNotExtracted` is the one assumption about data: the semantic cache writes its entries to
the vector store only, so no entity was extracted from one. Without it a graph route, which
takes no filter, could return them.

All of these invariants were checked by TLC on the instances of section 3 before they were
proved. The proofs changed the models where a definition could not be reasoned about or was
wrong: sets that the proofs sum or count over are assumed finite; scripts write their keys
with `Put`; upserts, fresh ids and the hits that fusion and the assembler keep (`Kept`,
`Picked`, `Fill`) are stated by what they return rather than how; the token count and the
resolution of a configuration are recursive functions; and the session dispatch answered a line
that is not JSON both as a parse error and as a message without a method, of which the code does
the first only.

Three theorems are about termination. They prove the half of `RunEnds`, `RequestsEnd` and
`QueriesEnd` that is about the code rather than its scheduler: in an order in which nothing descends
for ever, each step goes down, by one lemma per action.

* `RunAdvances`: `run_stage` calls itself and a replay walks through old stages again, yet each
  step ends the run, takes it to a later stage, spends an attempt that is left, or leaves
  its stage less to do.
* `RequestsAdvance`: each step of a request takes it to a later place, to fewer targets, to a
  further attempt that its retries allow, or on within the attempt.
* `QueriesAdvance`: each step takes one query to a later phase, its workflow to a later stage or
  one sub-task on, and a sub-task is rewritten once. The fallback does not lead back to the workflow,
  and queries whose executors share a counter do not move each other's tasks.

The proof modules define these properties and `WaitsAreForCalls`. TLC checked the first three on the
instances of section 3, and refuted them where a retry starts over, a failed target is kept
or a rewrite is not counted, before they were proved. What they leave to `RunEnds`,
`RequestsEnd` and `QueriesEnd` is that a step is possible until the end and is taken, which is about
ENABLED and fairness.

Only model-checked: liveness (`RunEnds`, `InProcessTaskIsRun`, `ReadStreamsDrain`,
`RequestsEnd`, `QueriesEnd`, `RequestsAreAnswered`), which is out of the prover's reach. Every
safety and action property that a passing run checks is a theorem. The type invariants of the
router and of the other modules are parts of the invariants above and are not checked by a run
of their own.

## 6. Plan

1. Done: `IngestContract`, `IngestPipeline` with proofs, both queues and
   `IngestSystem`, `ChunkGovernance`, `SemanticCache`, `GovernedRetrieval`.
2. Done: `CircuitBreaker` and `LLMRouter` with proofs.
3. Done: `VectorFilters`, `HybridRetrieval`, `AgenticWorkflow`, `QueryService`.
4. Done: `KnowledgeGraph`.
5. Done: `RateLimiter`, `TenantQuota`, `McpSessions`, `PluginRegistry`, `Gateway`.
6. Done: proofs of the safety invariants of `LLMRouter`, `GovernedRetrieval`, `IngestSystem`,
   `Gateway`, `KnowledgeGraph` and `QueryService`.
7. Done: proofs that runs, requests and queries advance to their ends.

## 7. Not modelled, and why

* The chunker turns text into text without state or failure; the pipeline model takes its
  output as given, with and without chunks. Whether its boundaries are right is a matter of
  texts, which a model would have to spell out.
* Parsers, processors, embedders, model clients and object stores are I/O adapters: in the
  models they are calls that return or raise. The creation of indexes and the conversion of rows
  in the Elasticsearch and Qdrant stores belong here too.
* `kg/topics.py` (called by its test only), `dual_level_retrieve`, the capability and profile
  validators and `resolve_default` of the registry, `effective_kb_config`, `save_api_key`, and
  `get_many`, `set_many` and `delete` of the exact caches have no caller in the application.
* Metrics, spans and the evaluation harness do not influence control; the traces of queries do
  reach clients and are modelled. Settings are declarations; their values appear as
  constants and deployments. Batching and fallback texts of descriptions change texts only.
* Formatting, prompts and token counting do not appear in a property. Confidences, weights and
  descriptions in the graph only grow and decide nothing that a property tells apart.
* Redis entries without a task id and knowledge-base ids containing a colon are left out of
  `RedisStreamsQueue`; ids that differ in punctuation only, which share a table, out of
  `VectorFilters`. Two processes whose clocks differ are left out of `RateLimiter`.
* Time-to-live expiry is an action that may happen at any moment for the exact tier; the
  vector tier does not honour it.
