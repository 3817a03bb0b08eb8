# ECI in TLA+

Specifications of the Enterprise Code Intelligence platform: what the concurrent and
fault-prone parts of its ingestion pipeline and of its retrieval side do, what they promise,
and where the two differ. Modules are translated
from the source; the documents (in Italian) are used only for the promises.

    tlc -workers 2 -config IngestionRuntime_pool.cfg MCIngestionRuntime.tla
    tlapm IngestionRuntimeProofs.tla

## 1. The system

A file command goes through these parts, each a separate process with several replicas:

    eci.ingestion.file.v1 -> ingestion worker (Rust) -> PostgreSQL rows + outbox
      -> Debezium CDC -> outbox.event.{CodeNode, CodeRelation, CodeChunk, CodeEmbedding}
      -> sink-graph (Neo4j) | sink-search (OpenSearch)
       | embedding-worker (PostgreSQL again, outbox CodeEmbedding) -> sink-vector (Qdrant)

and is read back under the authority of a token, which every hop checks again:

    client -> Envoy + api-gateway (authorize, SSE) -> retrieval engine (interceptors, OPA,
      scope) -> Neo4j | Qdrant | OpenSearch | reranker
    summarization (RAPTOR) -> semantic cache (Redis) | LLM gateway -> models

beside which stand the orchestrator (a bounded agent) and the verification service. Operators
run `gds-impact`, `reconcile`, `gc-postgres` and `migrate-neo4j`.

| Component | State it keeps | Operations | Interacts through | What makes it correct |
| --- | --- | --- | --- | --- |
| Consumer group (`libs/go/eci/resilience`, `run.go`, main loops) | committed offsets, reader position, retry counter in a header | fetch, process, retry or dead-letter, commit, recreate the reader | Kafka topics main, retry, DLQ | nothing lost, dead-lettering only after the budget, every event ends |
| Sinks (sink-graph, sink-vector, sink-search) | markers in `processed_events`, the store | check the marker, write, mark | the group; PostgreSQL and one store each | a marker means the write happened; invalid events never written; order per entity |
| Ingestion runtime (Rust) | rebalance epoch, paused assignment, retry buffer, offsets | poll, buffer or seek back, process in a task, commit, dead-letter, back off, drain | Kafka, MinIO, PostgreSQL | no record skipped, one command id applied once and in order, liveness |
| Ingestion persistence | receipts, canonical tables, outbox | one transaction per command under an advisory lock | PostgreSQL, CDC | receipt, rows and outbox together |
| Canonical store and embedding worker | `code_node`, `code_chunk`, `code_embedding`, outbox | replace a file, store an embedding, purge | CDC, foreign keys | rows are those of the last parse; references hold; every row is known to its consumers |
| Neo4j partitions | generation per partition | merge node or relation and bump | sink-graph, gds-impact | any change of the topology changes the generation |
| gds-impact | captured generation, projections in the GDS catalog, scores | capture, discover, project, compute, write back, drop | Neo4j | visible scores belong to one current graph |
| reconcile, gc-postgres | the snapshot of one run | check each row against a view, republish what is missing; purge markers and outbox | outbox, stores | a republished row reaches its view; a purge loses nothing |
| api-gateway (`authn`, `edge`) | slots of the SSE gate, in total and by caller | authorize, admit, read the body, open the call, copy its events, give up | Envoy headers, gRPC stream | a slot is given back exactly once; nothing outside the token is sent; a stream that ends as complete is whole |
| authorization (`secctx`, `authz`, `accessscope`, `securityfilter`) | none | extract, decide, normalize, filter | gRPC metadata, OPA, query parameters | one authority from the token to the query |
| retrieval-engine | request-scoped: a walk, two legs, a ranking | impact stream, hybrid and full-text search, node and neighbours, packing | Neo4j, Qdrant, OpenSearch, reranker | replies stay in scope while the graph moves; no candidate is lost to an unauthorized one |
| summarization, semantic-cache | cache entries by hash, logic and scope | summarize bottom up, get, put, expire | Redis, models | a hit is never stale and never of another reader's view |
| llm-gateway | a circuit breaker per route | allow, send, copy, report | HTTP upstreams | one probe at a time; no circuit stays half-open |
| orchestrator, verification | agent state, audit chain | see the source | HTTP, gRPC | bounded number of calls; chains unbroken (not modelled) |
| libraries, migrations, contracts, deployment, tests | — | — | — | not modelled: see section 7 |

The behaviours that are hard: a rebalance while a blocking transaction runs, two replicas
with the same message, a commit that lands after its deadline, two databases that no
transaction spans, a retry topic beside the main topic, a job that reads a graph in many
transactions while it changes, garbage collection of the markers that make redelivery
harmless, a walk or a search over stores that disagree about who may see a node, deadlines
that meet a stream half way, and a cache shared by readers who see different parts of one
thing. `PROJECT.json` lists each at its line.

## 2. Modules

| Module | Models |
| --- | --- |
| `AtLeastOnce` | the promise: a broker owes a set of events and forgets only what is done |
| `ConsumerGroup` | fetch, process, retry, dead-letter and commit of the Go consumers |
| `SinkConsumer` (extends `ConsumerGroup`) | `ProcessMessage` of the three sinks: marker, write, marker |
| `GraphPartition` | the Cypher of sink-graph that bumps partition generations |
| `GdsImpact` (extends `GraphPartition`) | `tools/gds-impact` against sink-graph's writes |
| `IngestionRuntime` | `services/ingestion/src/runtime.rs` and the receipt transaction of `persist.rs` |
| `CanonicalStore` | the tables of PostgreSQL and their writers: the transaction of `persist.rs`, the embedding worker's, `gc-postgres`; the sinks and the topics in outline |
| `Reconcile` (extends `CanonicalStore`) | `tools/reconcile` with its three targets, beside the pipeline |
| `AccessScope` | tokens, security contexts, the policy decision and access scopes, as operators |
| `ImpactAnalysis` (extends `AccessScope`) | the streamed reverse walk of the retrieval engine, over a graph that sink-graph writes |
| `EdgeGateway` (extends `ImpactAnalysis`) | `api-gateway/internal/edge`: authorization, admission and the SSE copy loop, composed with the walk |
| `Packing` | the context packer, as operators |
| `RetrievalQueries` (extends `AccessScope`, `Packing`) | the unary RPCs of the retrieval engine, one step per store |
| `LlmGateway` | `ServeHTTP` and the circuit breakers |
| `SemanticCache` (extends `AccessScope`) | `Get`, `Put` and expiry |
| `Summaries` (extends `SemanticCache`, `LlmGateway`) | `RaptorSummarizer.summarize`, composed with the cache and the gateway |
| `MC*` | instances for TLC |
| `*Proofs` | theorems, checked by TLAPS |

### Correspondence with the code

**ConsumerGroup.** A message is a `<<partition, offset>>`; `committed[p]` is the last
committed offset (Kafka stores it plus one). `Fetch` is `FetchMessage`; `ProcessOk`,
`ProcessFails` and `ProcessUnavailable` are the three outcomes of the callback, the last one
being the error `ShouldRetry` turns away; `PublishRetry` and `PublishDLQ` are the branches of
`WithRetryAndDLQ`; `Commit` is `CommitMessages`; `OnError` is the main loop, which recreates
its reader (`RecreateReader = TRUE`, the embedding worker) or keeps it (`FALSE`, the sinks).
The broker accepts a late commit of a member that lost the partition, as kafka-go sends it
in the reader's new generation.

**SinkConsumer.** `stage` says where `ProcessMessage` stands: marker lookup, write to the
store, insert of the marker, three transactions of two databases. `Write` replaces what the
store holds for the aggregate, since all three sinks write by deterministic id. The history
variable `applied` says what ever reached the store, and `disturbed` which events failed once,
lost their marker, or were in the hands of a replica when its partitions moved: only for these
may an older state remain. `unpublished` holds the messages the publication of whose copy failed, the
only ones a kept reader may skip (`SkipsOnlyUnpublished`, finding 1). Replicas are interchangeable, so TLC explores them up to symmetry.

**GraphPartition / GdsImpact.** Nodes carry a scope, relations carry a weight, and
`gen[s]` is the `GdsPartition` node. `MergeCodeNode` bumps the old and the new scope of a
node that moves, `MergeCodeRelation` the scope of an internal edge. A job goes through
`Capture`, `DiscoverLevel`, `ProjectReverse`, `ProjectUndirected`, `Compute`,
`WriteBack` or `RejectStale`, and `Drop`, with `QueryFails` and `Crash` at every step. A score is
its *basis*, everything that was read to compute it, and the job that wrote it, since the community ids of
two executions do not compare. Two jobs that overlap at one generation overwrite each other node by node;
`OneExecutionPrevails` says that one of them holds all the nodes both scored. It does not say that a community
stays whole: the nodes only the earlier job scored keep its community, which may lack members the later one
took over. The code does that (`writeback.go` sets one property per node) and no document promises more.

**IngestionRuntime.** A record is `[ref |-> <<partition, offset>>, epoch |-> e]`
(`BufferedMessage`). `epoch[w]` is the counter `pre_rebalance` increments, written here as the
broker generation the worker last saw, which changes at the same moments. `pc[w]` is where
the loop stands: `idle` (top of `'consume`), `check` (head of the inner loop), `process`
(inside the `select!`), `commit`, `publish`, `retry` (the arms of `match action`), `backoff`
(`poll_during_backoff`), `drain` (`await_task_with_deadline`) and `down`. `stage[w]` is where
the spawned `process_message` stands. `Buffer`, `Rewind` and `RewindFails` are
`buffer_or_rewind_polled_message`; `Abandon` is the three places that find
`record_is_owned` false. A commit that outlives its deadline stays in `late` until
`LateCommit` sends it. The transaction that takes the advisory lock of the command id,
reads the receipt, writes rows, outbox and receipt, is one action, `ApplyCommand`: nothing it
does is visible before it commits, and the lock orders two of them.

**CanonicalStore.** `Persist(f)` is `persist_parsed_file_in_transaction` applied to the next
command of a file: upsert of the nodes, DELETE and INSERT of the chunks, one outbox row each;
`PersistRefused` is the same transaction when the DELETE meets an embedded chunk
(`code_embedding.chunk_id REFERENCES code_chunk(id)`). Surrogate keys are named by what was
inserted, so that replacing a chunk gives it a new id, as the code does. `StoreEmbedding`,
`EmbedderSkips` and `EmbeddingRefused` are the outcomes of `storeEmbedding`: stored, marker
already there, constraint violated. `SinkApplies`, `SinkSkips`, `SinkFails` are those of the
sinks' `ProcessMessage`. Topics are sets of messages with a retry counter: order, offsets and
replicas are the matter of `ConsumerGroup` and `SinkConsumer` and are left out here, and so is
the loss that `sink_reader_kept` shows. `lost` remembers the documents a view lost by itself.

**Reconcile.** `StartJob` is `target.SourceRows`, `CheckMatches` and `CheckFails` are
`target.Check`, `Republish` is `republishOne` with the row as it is in its own transaction, and
`RowErrored` every path that ends in `Report.Errored`. A republished event has the target as its
origin and a number of its own, which is the new `event_id` of the outbox row: no marker
knows it. `Labelled` says which of the payloads a target rebuilds carry the security labels.

**AccessScope.** `Authenticate` is the gateway's: a token whose signature and issuer an
external verifier accepts, and whose claims `ValidateClaims` passes, becomes a
`SecurityContext` with sorted lists. `Enforce` is the pair of interceptors, with an OPA answer
that may deny, be malformed or not come; `HasScope` and `EffectiveRepos` are the limits and the
narrowing of `accessscope` and `securityfilter`. The two ends do not agree on the limits (256
values at the gateway, 128 in a scope, none of them empty there), so both stand as constants
and the instances hold callers between them.

**ImpactAnalysis / EdgeGateway.** A call has a walk `walk[c]` (`runBFS`): `Open`, `Accepts` and
`Handle` are the interceptors and the handler, `FetchLevel` one Cypher query, `EmitNode` and
`EmitProgress` one `stream.Send` each, which waits when `Window` events are unread. `st[c]` is where
the engine stands and `phase[c]` where the gateway's handler stands; `Admit` and `RefuseStream`
are `acquire`, `Return` the deferred release on every path out, `ContextEnds` the deadline or the
client's departure, `CancelCall` the engine noticing. How a response ended is what the client can tell:
refused with a status, complete, or broken. `sink-graph` moves nodes and adds relations in between.

**RetrievalQueries / Packing.** One call at a time, since calls share nothing: `Receive` is
what every RPC checks first, then one action per store in the code's order (`EmbedQuery`,
`VectorSearch`, `GraphTraversal`, `RecheckAuthorized`, `HydrateNames`, `HydrateSourceText`,
`CallReranker`, `ReadImpact`), any of which may fail and between any of which a node may move.
A vector or a text hit carries the label the store knows, which may be old. Scores are exact integers, over a common
multiple of the denominators. `checked` and `lost` are history. In `Packing` a section is the set of
the positions it takes of the sorted candidates; the loop that adds a fragment while it fits is
`Fitting`, and the two ends `UOrder` fills in turn are a map from places to positions.

**LlmGateway.** `Allows`, `Failure`, `Success` are the breaker's operations, atomic as under
its mutex; a request is `upstream` between `client.Do` and its answer and `copying` while the
body is copied. `Cool` is the passage of `OpenDuration`. Unless `Outlives`, a circuit cools
only when the requests sent before it opened have ended, since their time-out (15 s by
default) is shorter than `OpenDuration` (30 s).

**SemanticCache / Summaries.** `redis` maps a key to a value; `Put` may answer an error after
the write. `Start` is `summarize` up to its loop. It takes the nodes in an order of `Postorders`, that is
any with each node once and after its children; the code's depth-first visit gives one of them, and
nothing that is checked depends on which. Each node is then `PassOver`, if the reader does not see it, or
`LookUp`, and on a miss `AskModel`, `Generated`, `Store`. A source is the set of nodes it textually
encloses and a summary the set of the sources it was made from, which is what leaks or goes
stale. `MerkleAssumption` is what the ingestion guarantees of its hashes; levels are those of the
code's `IntEnum`. The code leaves the model's port open
(`SummaryModel`); here it is a route of the LLM gateway.

Faulty variants (`AbandonPaused`, `NoForeignKey`, ...) stand before the definition they
spoil; they belong to no specification and are there to show that a property can fail.

## 3. Runs

| Run | Question | Instance | Result |
| --- | --- | --- | --- |
| `ingestion_pool` | is a record ever skipped? applied twice, or out of order? is each handled in the end? | 2 fair workers, 2 partitions with a duplicate and an unusable command, buffer 1, 1 fault | holds |
| `group_recreate` | does the group lose, dead-letter too early, or never end an event? | 2 fair replicas, 2 events, 2 faults | holds |
| `sink_replicas` | do markers ever lie? what may the kept reader skip? is the newest state what remains? is the sink a consumer group? | 2 replicas, 2 states of one aggregate, an invalid event, 1 fault, marker GC | holds; order for undisturbed events, and only failed publications are skipped |
| `sink_reader_kept` | is an event lost when a publication fails? | 1 replica, reader kept | **violated**: it is |
| `gds_jobs` | can a stale score be visible? do overlapping jobs mix their scores on the nodes they share? is a projection dropped? do generations fence the topology? | 2 overlapping jobs of one scope that share 2 of 4 nodes, 2 scopes, relations changing | holds |
| `reconcile_store` | what do the tables hold, and who knows of it? | 1 file, 2 entities, 2 versions, 2 faults | holds |
| `reconcile_repair` | does a republished row arrive? does every chunk get its embedding? | qdrant and opensearch jobs, fair consumers, 1 fault, 1 purge, 1 loss | holds |
| `reconcile_reingest` | can a file be ingested again? | 2 versions | **violated**: not once a chunk is embedded |
| `reconcile_neo4j` | does a republished node arrive? | neo4j job, 1 loss | **violated**: it has no labels |
| `impact_stream` | does the gate leak slots? does a client get a node its token does not allow, or a cut walk that looks whole? does an admitted request end? | 3 requests, gate of 2 and 1 per caller, 4 nodes, 1 write of sink-graph, a forged and two refused credentials | holds |
| `retrieval_calls` | is a reply in scope? the best of what is in scope? told when degraded? | 5 nodes in two domains and repositories, a cycle, 1 move, 13 queries, 4 callers | holds |
| `summaries` | may a summary tell what its reader may not see, or be stale? does a probe get lost? | 2 summarizers, 3 nodes in 3 versions, 3 runs, 1 route | holds |

### Bounds

`MaxFaults` counts the moves of the environment (crashes, rebalances, lost answers, failed
publications, redeliveries); one fault already puts two replicas on one message, two allow a
fault in the recovery from a fault. Two replicas are enough for every race modelled: a third
one would repeat the role of the zombie. `BufferLimit = 1` (64 in the code) makes the limit
reachable with two partitions. `MaxGen` bounds the generations of a scope: with one, a
partition that a job captured at generation 0 can change once, which is what makes the job stale, and two jobs can hold
different generations. The four nodes of `gds_jobs` are the fewest of which two jobs with different entries share two,
and sharing two is what lets their scores mix. `MaxWeight` bounds the weights that differ. `MaxRetries = 1` leaves one retry and one dead letter.
`MaxPurges`, `MaxLosses` and `MaxRepublish` of one let each meddle once with a message in flight.

`MaxChanges = 1`: one move of a node, at any step of any call, is what makes the label under which a
part was read differ from the label at the end. Three requests over a gate of two, one per caller,
meet both limits (two of them are one caller's); `max_nodes = 2` falls within the second level of one walk and the
depth limit ends the other, and `Window = 1` blocks the engine on every second event. `MaxRuns = 3` lets a summary be stored, found by another
reader or version, and asked for again after expiry; `Threshold = 1` lets one failure open the circuit.
`Budget` has quotas that cut each section and quotas that do not. `ScopeMaxValues = 2` and `GatewayMaxValues = 3` stand for 128 and 256.
The proofs lift all of these bounds from the properties they state.

### Fairness

A replica that runs keeps running its loop: weak fairness of `Cycle(w)` and `Loop(w)`,
faults aside. The ingestion liveness also needs strong fairness of `JoinGeneration(w)`: a
rebalance callback runs inside a poll, the loop polls beside every command and every
back-off, so that a worker that keeps retrying polls infinitely often although it is not
polling all the time. `Reconcile` assumes only that consumers keep consuming: weak fairness of a
delivery, of whichever message. `EdgeFairSpec` assumes that the handler of a request and the
engine's goroutine keep running (their reads and writes return once the context has ended), and not that
clients leave or deadlines pass in time: `AdmittedEnds` holds because walks end and a cancelled
call is given up. `FairSpec` of `Summaries` assumes that a request to the gateway ends, which its
`context.WithTimeout` sees to. Nothing is assumed of the environment: late commits, rebalances and
crashes may happen or not.

Runs set `CHECK_DEADLOCK FALSE` because a group that has drained its topics, and a job that
has finished, really stop.

## 4. Proofs

All theorems hold for every value of the constants that satisfies the `ASSUME` of the module:
any number of workers, partitions, events, jobs, nodes, and any bound on faults.

* `ConsumerGroupProofs`: `GroupTypeCorrect`, `NoEventIsLost`, `DeadLetterBudget`,
  `GroupKeepsPromise` (for the loop that recreates its reader). The inductive invariant says
  that what a reader has passed is committed, discharged, or in the hands of a replica.
* `SinkConsumerProofs`: `SinkRefinesGroup`, from which `GroupTypeCorrect` and `DeadLetterBudget`
  hold of the sinks; `NoFalseCompletion` and `NoFalseSuccess`, from one invariant on the stages of
  `ProcessMessage` (past the write, `applied` holds the event); `SinkSkipsOnlyUnpublished`,
  what the reader a sink keeps still guarantees: with `SkipInv`, a message that is neither handled nor
  the victim of a failed publication is the one the owner of its partition holds, or lies before none that
  any replica holds, so that no commit passes it; `OrderKeptWithoutFailures` for the loop the sinks
  have. Its invariant,
  `CalmInv`, speaks of the states where nothing was disturbed: a primary log is its backlog followed by
  copies of it, a reader is at most one message ahead of what is marked, the replica that holds that
  message owns its partition, nobody else completes it, and an event is written when all before it in
  its partition are marked, so that the store holds it or a later state of its aggregate.
* `GdsImpactProofs`: `TypeCorrect`, `GenerationFencesTopology`, `VisibleScoresAreFresh`,
  `ExecutionsDoNotMix`, `RedeliveryIsQuiet`, `ReportedGraphsAreDropped`. The invariant says that
  while the generation of a scope is the one a job captured, what the job has read agrees with
  the graph; `TogetherInv` follows what a later execution writes over the targets of an earlier one;
  `DropInv` says that a job has no reported graph before its projections.
* `IngestionRuntimeProofs`: `RuntimeTypeCorrect`, `NoRecordLost`,
  `AppliedExactlyOnce`, `AppliedInTheOrderSent`, `RuntimeKeepsPromise`. `NothingSkipped` is not inductive. The
  invariant `SafetyInv` adds, per worker (`ClientOK`): epochs never run ahead of the
  generation, the records a buffer still owns are a suffix of it, and owned records of one
  partition are in hand in offset order; and, over all workers: a command is started only when
  every earlier record of its partition is handled (`PrefixInv`, which a zombie worker keeps
  because handled is for ever), every outcome is justified by a receipt or by the command
  itself (`ResultInv`, `DlqInv`), a delayed commit covers handled records only (`LateInv`), and
  each outbox row was written when all before it was handled (`OutboxInv`). `AppliedInOrder`
  follows: if a later command had been applied first, the earlier one would be handled, and a
  handled command is never applied again.

* `ReconcileProofs`: `StoreTypeCorrect`, `RowsAccounted`, `ReferencesKept`, and, for the targets
  whose events carry labels, `RepairReachesView`. `EveryRowAccounted` alone is not inductive: a
  message leaves a topic as a duplicate, and only `MarkedMeansHeld` says that the row is then
  held. Every step is shown to satisfy `StepOK` (rows that are held stay held; a message leaves
  only when its event is held, dead-lettered or has no labels), from which the invariant
  follows once. `RepairReachesView` adds that a republished event has a number no marker and
  no message has (`Numbered`), so that no marker discards it, and that a lost document
  is not in its view (`LostIsLost`). `LastParseOnly`: only `Persist` writes the rows of an entity, and
  it replaces all of them. `DeadLettersHideNothing`: `LetterInv` adds that no row the store knows or a
  message names is one that a command still to be applied will insert, so that the row of a
  dead-lettered chunk cannot come back without a vector.

* `EdgeGatewayProofs`: `SlotsAreExact` and `NothingOutsideTheToken`. The first needs only that a
  holder's key is one of the keys (`GateInv`: the context of an authorized request was built from a
  presented credential that verifies); each step then moves at most one request in or out
  of the holders, and the counters with it (`AdmitCounts`, `ReleaseCounts`). The second (`ScopeInv`)
  follows the authority down: the scope of a running walk is the context of its request, the rows
  of a level and the events sent were read under labels that scope allows, and a step of sink-graph
  changes labels but no row and no event already read. `CompleteIsWhole` and `StableIsExact` come from
  `StreamsInv`: what was sent is the walk so far (`Whole`: no node twice, the counters are those of the events,
  a node in sight was sent), and while the graph is the one the walk began on the levels are those of a
  breadth-first search of it (`Exact`); a level that `max_nodes` cut ends the walk and is told.
* `SummariesProofs`: `HalfOpenIsOneRequest`, `SummariesUseTheGateway`, `CacheStaysInScope`,
  `SummariesAreExact`.
  `OneProbe` is not inductive; `ProbeOfCooled` adds that the flag is up only while a circuit is cooled,
  so that a late report cannot find it up. The summaries are clients of the gateway, step by step, and
  inherit it. For the cache, `ReaderInv` follows one run: everything it sees is authorized, what it
  calls complete has all its children complete, and every source in its text is in its scope; what it
  stores under a key with its scope is then in that scope, and a hit is too (`RunsInv`, `CacheInScope`).
  That a summary is exact rests on `HashTells`: two nodes of any two hierarchies, readers and runs whose
  effective hashes are equal may be read to the same sources. It is shown by induction on the level: a
  complete node's hash is its Merkle hash; a restricted one's lists its children, which of them are hidden
  and the hashes of the others. So `CacheTells`, that every value of the cache is what the reader of some
  node with the hash of its key may read, makes a hit right for whoever finds it. `ExactInv` follows one
  run: what is done has its children done first (`Climbs`), its summary is exact (`TellsExactly`), and what
  is ahead ends with the root, so that nothing seen is left out (`Ahead`).
* `RetrievalQueriesProofs`: `AnswersStayInScope`, `BestAreAnswered`, `DegradedIsGraphLeg`,
  `GraphLegsAreNearest`, `ContextsAreBestAtEnds`, for every graph, index, caller, request and move of a node. `CallInv` gives the
  types of the state in each phase; `AnswerInv` says that what the candidates and the reply tell is in
  scope and that from the re-check on their nodes were in scope as it was made. `LegsInv` and `RankInv`
  say that the candidates are the fused legs best first, and from the re-check on the first
  `top_k` of the authorized ones: nothing inductive can say it shorter, since the reply only keeps the
  cut list. `BetterScores` is the arithmetic at the heart: a node met no later than another in both legs,
  and earlier in one, has the greater sum of contributions, over all their occurrences. `NearInv` needs
  `LeastIsTrail`: a shortest walk to a node repeats no relation, so that the trails of the Cypher query,
  which forbid a relation twice, find every node at its breadth-first distance.
  What the packer does is a function of the reply, so its theorem needs no invariant but that the reply's
  nodes are distinct: `PackIs` is about any candidates, costs and budget. `TokensAre` shows that the cost
  a section adds up is the number of its tokens, `FittingIs` that it takes the candidates up to the first
  that does not fit, and `UOrderIs` that the order maps the places from the two ends inwards.

Refinement proofs map each step to a step of `AtLeastOnce` or a stutter; the refinement of
`SinkConsumer` is by shared variables.

Assumptions. Besides types and finiteness, the theorems rest on what the code or its surroundings
establish: `BacklogAssumption` (a row is published once before any redelivery, and the key of a
message is its aggregate), `CommandAssumption` (two files name no entity in common),
`MerkleAssumption`, and `ScaleAssumption` (scores are fractions over a common multiple of their
denominators, that is exact; the code adds floating-point numbers, where two sums within
rounding of each other may come out equal or swapped). Some theorems have a hypothesis on the loop or the
targets, since the code has both: `GroupKeepsPromise` and `NoEventIsLost` are of the loop that
recreates its reader, `OrderKeptWithoutFailures` of the one that does not, `RepairReachesView` of the
qdrant and opensearch targets.

Recursive functions (`LegScore`, `Cost`, the levels of a breadth-first search, `Reach` in a hierarchy) are reasoned about by induction on
a set of naturals (`NatSetInduction`), since the induction theorems that take an operator cannot be
instantiated. Operators of the community modules that pass an operator to a fold or to a sort
(`FoldLeft`, `SelectSeq`, `SetToSortSeq`, `MapThenSumSet`) are out of the provers' reach; the modules
use none where a proof must look inside.

Model-checked only: everything temporal beyond refinement (`EventuallyHandled`,
`EventuallyEmbedded`, `AdmittedEnds`, `ProbeResolves`), since liveness is out of the prover's reach.

## 5. Findings

1. A sink keeps its reader after an uncommitted failure: `FetchAndProcess` returns an error,
   the loop logs it and fetches the next message, whose commit passes the failed one
   (`sink_reader_kept`). Only a message the publication of whose copy failed is lost that way
   (`SinkSkipsOnlyUnpublished`). The embedding worker recreates its reader and is not affected.
2. The retry topic breaks the order per entity the architecture document promises
   (`docs/ADD_Enterprise_Code_Intelligence_consolidato.md`, line 227): a failed older state is
   copied to the retry topic, the loop goes on with the newer one, and the copy overwrites it.
   Checking `PerEntityOrder` in place of `OrderWithoutFailures` on `MCShortBacklog` shows it.
3. A GDS projection whose creation succeeds but whose result cannot be read is never dropped,
   although `run.go` says that a drop is attempted even then: `createProjections` returns an
   empty struct. `DropAttempted` is stated for the graphs the struct names.
4. A file whose chunks have embeddings cannot be ingested again: the foreign key of
   `code_embedding` refuses the DELETE of its chunks (`reconcile_reingest`).
5. A chunk republished for the search index is dead-lettered by the embedding worker, which
   reads the same topic and already has its embedding, although SPEC-037 calls a republication
   idempotent along the whole pipeline. `DeadLetterHarmless` says that such a dead letter
   hides no missing vector.
6. A node republished by the neo4j target is discarded by sink-graph for want of labels
   (`reconcile_neo4j`).

### Observations

Differences met while modelling that no run states as a violation, because no document
contradicts the code plainly or the case needs an unusual configuration:

* `authorize` accepts tokens with no repositories or groups, or with up to 256 of each; the engine
  refuses an empty list or more than 128 with PermissionDenied (the third request of `impact_stream`).
* A failure that a request reports after its circuit opened and cooled takes down the flag of the
  probe that is out, and a second probe may pass. It needs a request that outlives `OpenDuration`: a
  `Timeout` configured longer, or a client that does not read. SPEC-049 section 10.3 allows one
  half-open probe. A client's own cancellation counts as a failure of the upstream, a late success of an
  old request closes an open circuit early, and an alias "__default__" would share the default's breaker.
* A body cut off by the upstream ends normally for the gateway's client when it is chunked.
* `RRFFuse` says one contribution per list (`fuse.go:6`); a node with several chunks in Qdrant gets one
  per chunk. Hybrid search uses only the first repository of a request, full-text search all; an
  unspecified domain means code in the first and no filter in the second.
* `vector_leg_degraded` is also set when the vector leg succeeded and none of its hits survived.
* The limit of `ExpandNeighbors` counts paths, not nodes.
* A file ingested again leaves its old chunks in OpenSearch and their points in Qdrant: the sinks only
  upsert, by chunk id (`sink-search/internal/consumer/consumer.go:312`), while `persist.rs` inserts the new rows
  under new UUIDs. The source text of a node may then join chunks of two versions
  (`hydrateSourceText`); `AnsweredInScope` promises their labels and order, not their age.
* The reranker is sent node ids as the text to score. `Pack` has no caller outside its tests;
  `PackReply` composes it with the reranked reply, its declared input.

## 6. Plan

Done: the ingestion pipeline (`ConsumerGroup`, `SinkConsumer`, `IngestionRuntime`,
`CanonicalStore`), the jobs beside it (`GdsImpact`, `Reconcile`), the retrieval side
(`AccessScope`, `EdgeGateway`, `ImpactAnalysis`, `RetrievalQueries`, `Packing`) and the summaries
(`Summaries`, `SemanticCache`, `LlmGateway`).

Every safety property the passing runs check is proved. Next come relations in `CanonicalStore` and the
orchestrator's budgets.

## 7. Not modelled, and why

Parsing with tree-sitter, hashing, tokens of a tokenizer and the numeric scores of GDS are pure
functions whose results the properties do not read: they appear as sets (`Rejected`, `Unusable`),
as costs or as an opaque basis. Whether a source is usable is a constant of the command because
blobs are immutable and exist before the command is published (ADR-0023). In `IngestionRuntime` the
database accepts what the transaction writes; when a foreign key refuses it, which makes the command
retry for ever, is the matter of `CanonicalStore`. Relations and lineage rows are not modelled.
EnsureCollection and EnsureIndex at the start of a sink, where two replicas may race, stop the
process at worst and leave the restart to Kubernetes. The orchestrator is a sequential loop over
the calls modelled here, and the verification service a sequence of checks with an append-only
store. Verification of signatures and rotation of keys are an external verdict on a token. Health
probes, metrics, traces and lengths of back-offs are left out: no modelled state depends on them.
Generated code, contracts, deployment files, migrations and test fakes keep no state of their own.
