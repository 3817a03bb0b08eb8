--------------------------- MODULE CanonicalStore --------------------------
(***************************************************************************)
(* PostgreSQL, the source of truth, and everything that writes to it: the  *)
(* transaction that replaces a file's rows, the embedding worker, and the  *)
(* purge of completion markers. Every row written is announced through the *)
(* outbox in the same transaction; Debezium and Kafka carry the announced  *)
(* events to the consumers.                                                *)
(*                                                                         *)
(* A consumer here is the outline of ConsumerGroup and SinkConsumer:       *)
(* messages wait in a set and are taken in any order (what the order       *)
(* guarantees is the subject of SinkConsumer), a failure republishes the   *)
(* message with one more retry or dead-letters it.                         *)
(*                                                                         *)
(* A surrogate key is named by what was inserted: the chunk of an entity   *)
(* inserted by the n-th command of its file is [entity, index, serial n],  *)
(* an embedding carries the name of its chunk (UNIQUE allows one), and an  *)
(* outbox event the name of its row and of the write that published it.    *)
(***************************************************************************)
EXTENDS Naturals, Sequences, FiniteSets

CONSTANTS
  File,        \* source files
  Entity,      \* node ids
  Hash,        \* AST hashes
  NoHash,      \* there is no code_node row for the id
  Queue,       \* [File -> sequence of parsed commands], see Command
  MaxRetries,  \* retries before the dead-letter topic
  MaxFaults,   \* bound: failed steps and lost commits
  MaxPurges,   \* bound: runs of gc-postgres
  MaxLosses    \* bound: documents a view loses

(* What parsing one version of a file yields: the hash of each entity, and the
   indexes of its chunks. parsed_command_data_is_valid: every chunk belongs to
   a node of the command. *)
Command ==
  {cmd \in [ast : UNION {[S -> Hash] : S \in SUBSET Entity},
            chunks : SUBSET (Entity \X Nat)] :
     /\ DOMAIN cmd.ast # {}
     /\ \A ch \in cmd.chunks : ch[1] \in DOMAIN cmd.ast}

Number(f) == 1 .. Len(Queue[f])

ASSUME StoreAssumption ==
  /\ NoHash \notin Hash
  /\ MaxRetries \in Nat /\ MaxFaults \in Nat
  /\ MaxPurges \in Nat /\ MaxLosses \in Nat
  /\ DOMAIN Queue = File
  /\ \A f \in File : Len(Queue[f]) \in Nat

(* Node ids contain the path: two files have no entity in common. *)
ASSUME CommandAssumption ==
  /\ \A f \in File : \A n \in Number(f) :
       LET cmd == Queue[f][n]
       IN  /\ DOMAIN cmd.ast \subseteq Entity
           /\ \A e \in DOMAIN cmd.ast : cmd.ast[e] \in Hash
           /\ \A ch \in cmd.chunks :
                /\ ch \in Entity \X Nat
                /\ ch[1] \in DOMAIN cmd.ast
  /\ \A f, g \in File : \A m \in Number(f), n \in Number(g) :
       f # g => DOMAIN Queue[f][m].ast \cap DOMAIN Queue[g][n].ast = {}

Sink     == {"graph", "search", "vector"}
Consumer == Sink \cup {"embedder"}

VARIABLES
  applied,    \* [File -> commands whose transaction committed]
  outcome,    \* [File -> what the last transaction of the file ended with]
  node,       \* code_node: [Entity -> ast_hash, or NoHash]
  chunk,      \* code_chunk rows
  embedding,  \* chunks that have a code_embedding row
  marker,     \* processed_events rows <<consumer, event>>
  pending,    \* [Consumer -> messages published and not settled]
  dead,       \* [Consumer -> events in the dead-letter topic]
  view,       \* [Sink -> documents it holds]
  lost,       \* history: [Sink -> keys the view lost and nobody wrote since]
  budget      \* faults, purges and losses that may still happen

storeVars == <<applied, outcome, node, chunk, embedding, marker, pending, dead,
               view, lost, budget>>

NodeRow(e, h) == [entity |-> e, hash |-> h]
ChunkRow(e, i, n) == [entity |-> e, index |-> i, serial |-> n]
NodeRows == {NodeRow(e, node[e]) : e \in {x \in Entity : node[x] # NoHash}}

(* The document id a consumer derives from a row: the node id, the chunk id,
   the point id. *)
DocumentKey(c, row) == IF c = "graph" THEN row.entity ELSE row

(* The rows each consumer is told about. *)
SourceRows(c) ==
  CASE c = "graph" -> NodeRows
    [] c = "vector" -> embedding
    [] OTHER -> chunk

(* An outbox row, routed by Debezium: which row, written by whom. *)
Event(row, origin, n) == [row |-> row, origin |-> origin, n |-> n]
Fresh(events) == {[event |-> e, retries |-> 0] : e \in events}

(* sink-graph, sink-search and sink-vector discard an event without security
   labels. The rows written by persist.rs carry them; so do the payloads
   rebuilt for chunks and embeddings from code_node.provenance, but the
   payload neo4jtarget rebuilds has the path only. *)
Labelled(c, event) == ~(event.origin = "neo4j" /\ c = "graph")

StoreInit ==
  /\ applied = [f \in File |-> 0]
  /\ outcome = [f \in File |-> "none"]
  /\ node = [e \in Entity |-> NoHash]
  /\ chunk = {}
  /\ embedding = {}
  /\ marker = {}
  /\ pending = [c \in Consumer |-> {}]
  /\ dead = [c \in Consumer |-> {}]
  /\ view = [s \in Sink |-> {}]
  /\ lost = [s \in Sink |-> {}]
  /\ budget = [faults |-> MaxFaults, purges |-> MaxPurges, losses |-> MaxLosses]

Spend(what) ==
  /\ budget[what] > 0
  /\ budget' = [budget EXCEPT ![what] = @ - 1]

-----------------------------------------------------------------------------
(* persist_parsed_file_in_transaction *)

Turn(f) == applied[f] + 1
Waiting(f) == applied[f] < Len(Queue[f])
Touched(f) == DOMAIN Queue[f][Turn(f)].ast
NewNodes(f) == {NodeRow(e, Queue[f][Turn(f)].ast[e]) : e \in Touched(f)}
NewChunks(f) ==
  {ChunkRow(ch[1], ch[2], Turn(f)) : ch \in Queue[f][Turn(f)].chunks}
(* Faulty variant: an upsert by (entity, index) instead of a deletion. *)
OldChunksOfSameIndex(f) ==
  {r \in chunk : <<r.entity, r.index>> \in Queue[f][Turn(f)].chunks}
OldChunks(f) == {r \in chunk : r.entity \in Touched(f)}

(* Faulty variant: the reference is not declared. *)
NoForeignKey(f) == FALSE

(* code_embedding.chunk_id REFERENCES code_chunk(id), without a cascade: the
   DELETE of an embedded chunk fails. *)
DeleteViolatesForeignKey(f) == OldChunks(f) \cap embedding # {}

PublishFile(f) ==
  pending' = [pending EXCEPT
    !["graph"] = @ \cup Fresh({Event(r, "persist", Turn(f)) : r \in NewNodes(f)}),
    !["search"] = @ \cup Fresh({Event(r, "persist", Turn(f)) : r \in NewChunks(f)}),
    !["embedder"] = @ \cup Fresh({Event(r, "persist", Turn(f)) : r \in NewChunks(f)})]

(* Upsert the nodes, replace the chunks of the nodes the command contains,
   announce every row, record the receipt. *)
Persist(f) ==
  /\ Waiting(f)
  /\ ~DeleteViolatesForeignKey(f)
  /\ node' = [e \in Entity |->
                IF e \in Touched(f) THEN Queue[f][Turn(f)].ast[e] ELSE node[e]]
  /\ chunk' = (chunk \ OldChunks(f)) \cup NewChunks(f)
  /\ PublishFile(f)
  /\ applied' = [applied EXCEPT ![f] = @ + 1]
  /\ outcome' = [outcome EXCEPT ![f] = "applied"]
  /\ UNCHANGED <<embedding, marker, dead, view, lost, budget>>

(* The transaction rolls back with a database error, a transient one for the
   worker, which will try the same command again. *)
PersistRefused(f) ==
  /\ Waiting(f)
  /\ DeleteViolatesForeignKey(f)
  /\ outcome' = [outcome EXCEPT ![f] = "refused"]
  /\ UNCHANGED <<applied, node, chunk, embedding, marker, pending, dead, view,
                 lost, budget>>

-----------------------------------------------------------------------------
(* Consumers: what becomes of a message *)

Marked(c, event) == <<c, event>> \in marker
Mark(c, event) == marker' = marker \cup {<<c, event>>}

(* The offset is committed, or the commit is lost and the message comes back.
   `queues` is what the handler left in the topics. *)
SettleIn(queues, c, m) ==
  \/ /\ pending' = [queues EXCEPT ![c] = @ \ {m}]
     /\ UNCHANGED budget
  \/ /\ Spend("faults")
     /\ pending' = queues
Settle(c, m) == SettleIn(pending, c, m)

FailureCommittedIn(queues, c, m) ==
  /\ pending' = [queues EXCEPT ![c] = @ \ {m}]
  /\ UNCHANGED dead

(* WithRetryAndDLQ *)
RetryOrDeadLetterIn(queues, c, m) ==
  \/ /\ m.retries < MaxRetries
     /\ pending' = [queues EXCEPT
                      ![c] = (@ \ {m}) \cup {[m EXCEPT !.retries = @ + 1]}]
     /\ UNCHANGED dead
  \/ /\ m.retries = MaxRetries
     /\ pending' = [queues EXCEPT ![c] = @ \ {m}]
     /\ dead' = [dead EXCEPT ![c] = @ \cup {m.event}]
RetryOrDeadLetter(c, m) == RetryOrDeadLetterIn(pending, c, m)

(* Written by id: it replaces the document the view has under that id. *)
WriteDocument(s, row) ==
  /\ view' = [view EXCEPT ![s] =
       {d \in @ : DocumentKey(s, d) # DocumentKey(s, row)} \cup {row}]
  /\ lost' = [lost EXCEPT ![s] = @ \ {DocumentKey(s, row)}]

tables == <<applied, outcome, node, chunk, embedding>>

(* ProcessMessage of a sink. The steps between the marker's check and its
   insertion are those of SinkConsumer; here they are one. *)
SinkApplies(s, m) ==
  /\ m \in pending[s]
  /\ Labelled(s, m.event)
  /\ ~Marked(s, m.event)
  /\ WriteDocument(s, m.event.row)
  /\ Mark(s, m.event)
  /\ Settle(s, m)
  /\ UNCHANGED <<tables, dead>>

(* No labels, or a duplicate: nothing is written, the offset is committed. *)
SinkSkips(s, m) ==
  /\ m \in pending[s]
  /\ ~Labelled(s, m.event) \/ Marked(s, m.event)
  /\ Settle(s, m)
  /\ UNCHANGED <<tables, marker, dead, view, lost>>

(* The store or PostgreSQL does not answer, before or after the write. *)
SinkFails(s, m) ==
  /\ m \in pending[s]
  /\ Labelled(s, m.event)
  /\ ~Marked(s, m.event)
  /\ \/ WriteDocument(s, m.event.row)
     \/ UNCHANGED <<view, lost>>
  /\ RetryOrDeadLetter(s, m)
  /\ Spend("faults")
  /\ UNCHANGED <<tables, marker>>

-----------------------------------------------------------------------------
(* embedding-worker: marker, code_embedding row and outbox row in one
   transaction *)

(* Faulty variant: UNIQUE by entity instead of by chunk. *)
InsertOncePerEntity(row) ==
  row \in chunk /\ \A r \in embedding : r.entity # row.entity

(* INSERT INTO code_embedding: the chunk must exist (foreign key) and have no
   embedding of this model (UNIQUE). *)
InsertAccepted(row) == row \in chunk /\ row \notin embedding

Announced(row) ==
  [pending EXCEPT !["vector"] = @ \cup Fresh({Event(row, "embedder", 0)})]

(* Faulty variant: the outbox row left out. *)
StoreEmbeddingSilently(m) ==
  /\ m \in pending["embedder"]
  /\ ~Marked("embedder", m.event)
  /\ InsertAccepted(m.event.row)
  /\ embedding' = embedding \cup {m.event.row}
  /\ Mark("embedder", m.event)
  /\ Settle("embedder", m)
  /\ UNCHANGED <<applied, outcome, node, chunk, dead, view, lost>>

(* The transaction commits; its answer may be lost, which is an error. *)
StoreEmbedding(m) ==
  /\ m \in pending["embedder"]
  /\ ~Marked("embedder", m.event)
  /\ InsertAccepted(m.event.row)
  /\ embedding' = embedding \cup {m.event.row}
  /\ Mark("embedder", m.event)
  /\ \/ /\ SettleIn(Announced(m.event.row), "embedder", m)
        /\ UNCHANGED dead
     \/ /\ RetryOrDeadLetterIn(Announced(m.event.row), "embedder", m)
        /\ Spend("faults")
  /\ UNCHANGED <<applied, outcome, node, chunk, view, lost>>

EmbedderSkips(m) ==
  /\ m \in pending["embedder"]
  /\ Marked("embedder", m.event)
  /\ Settle("embedder", m)
  /\ UNCHANGED <<tables, marker, dead, view, lost>>

(* A constraint is violated and the transaction rolls back, the marker with
   it: an error like any other. *)
EmbeddingRefused(m) ==
  /\ m \in pending["embedder"]
  /\ ~Marked("embedder", m.event)
  /\ ~InsertAccepted(m.event.row)
  /\ RetryOrDeadLetter("embedder", m)
  /\ UNCHANGED <<tables, marker, view, lost, budget>>

(* PostgreSQL does not answer. When the embedding service does not, nothing
   happens at all: the error is not retryable, the reader is recreated and the
   message is fetched again. *)
EmbedderFails(m) ==
  /\ m \in pending["embedder"]
  /\ RetryOrDeadLetter("embedder", m)
  /\ Spend("faults")
  /\ UNCHANGED <<tables, marker, view, lost>>

-----------------------------------------------------------------------------
(* gc-postgres deletes the markers older than the retention. Rows of outbox
   are purged too: Debezium reads the log, nothing depends on them. *)
PurgeMarkers ==
  /\ \E old \in SUBSET marker :
       /\ old # {}
       /\ marker' = marker \ old
  /\ Spend("purges")
  /\ UNCHANGED <<tables, pending, dead, view, lost>>

(* A materialised view loses a document: a volume, a mistaken deletion. *)
LoseDocument(s, row) ==
  /\ row \in view[s]
  /\ view' = [view EXCEPT ![s] = @ \ {row}]
  /\ lost' = [lost EXCEPT ![s] = @ \cup {DocumentKey(s, row)}]
  /\ Spend("losses")
  /\ UNCHANGED <<tables, marker, pending, dead>>

Deliver ==
  \/ \E s \in Sink : \E m \in pending[s] :
       SinkApplies(s, m) \/ SinkSkips(s, m) \/ SinkFails(s, m)
  \/ \E m \in pending["embedder"] :
       \/ StoreEmbedding(m) \/ EmbedderSkips(m)
       \/ EmbeddingRefused(m) \/ EmbedderFails(m)

StoreNext ==
  \/ \E f \in File : Persist(f) \/ PersistRefused(f)
  \/ Deliver
  \/ PurgeMarkers
  \/ \E s \in Sink : \E row \in view[s] : LoseDocument(s, row)

-----------------------------------------------------------------------------
(* Properties *)

RowType(c) ==
  IF c = "graph" THEN [entity : Entity, hash : Hash]
  ELSE [entity : Entity, index : Nat, serial : Nat]
KeyType(c) == IF c = "graph" THEN Entity ELSE RowType(c)
Origin == {"persist", "embedder", "neo4j", "qdrant", "opensearch"}
EventType(c) == [row : RowType(c), origin : Origin, n : Nat]

(* The type invariant: in particular no command beyond the queue is applied, no
   message is retried more than MaxRetries times, every view holds documents of
   its own kind. *)
StoreTypeOK ==
  /\ applied \in [File -> Nat]
  /\ \A f \in File : applied[f] <= Len(Queue[f])
  /\ outcome \in [File -> {"none", "applied", "refused"}]
  /\ node \in [Entity -> Hash \cup {NoHash}]
  /\ chunk \subseteq RowType("search")
  /\ embedding \subseteq RowType("vector")
  /\ \A mk \in marker : mk[1] \in Consumer /\ mk[2] \in EventType(mk[1])
  /\ DOMAIN pending = Consumer /\ DOMAIN dead = Consumer
  /\ DOMAIN view = Sink /\ DOMAIN lost = Sink
  /\ \A c \in Consumer :
       /\ pending[c] \subseteq [event : EventType(c), retries : 0 .. MaxRetries]
       /\ dead[c] \subseteq EventType(c)
  /\ \A s \in Sink : view[s] \subseteq RowType(s) /\ lost[s] \subseteq KeyType(s)
  /\ budget \in [{"faults", "purges", "losses"} -> Nat]

Writers(f, e) == {n \in 1 .. applied[f] : e \in DOMAIN Queue[f][n].ast}
LastWriter(f, e) == CHOOSE n \in Writers(f, e) : \A m \in Writers(f, e) : m <= n

(* Whatever was interleaved with the transactions, the rows of an entity are
   those of the last applied command that contains it, complete and unmixed:
   its hash, and exactly its chunks (persist.rs replaces, never adds). *)
StoreIsLastParse ==
  \A f \in File : \A e \in Entity :
    Writers(f, e) # {} =>
      LET n == LastWriter(f, e)
      IN  /\ node[e] = Queue[f][n].ast[e]
          /\ {r \in chunk : r.entity = e} =
               {ChunkRow(ch[1], ch[2], n) :
                  ch \in {x \in Queue[f][n].chunks : x[1] = e}}

(* The references of the schema hold across the three writers of the tables:
   an embedding is of a chunk that exists, a chunk of a node that exists. *)
ReferencesHold ==
  /\ embedding \subseteq chunk
  /\ \A r \in chunk : node[r.entity] # NoHash

(* A row is accounted for by a consumer when the consumer holds it, is about to
   be told, or dead-lettered it. A document the view lost by itself is not the
   consumer's doing. *)
Holds(c, row) ==
  IF c = "embedder" THEN row \in embedding
  ELSE \/ \E d \in view[c] : DocumentKey(c, d) = DocumentKey(c, row)
       \/ DocumentKey(c, row) \in lost[c]
About(c, row, event) ==
  DocumentKey(c, event.row) = DocumentKey(c, row) /\ Labelled(c, event)
InFlight(c, row) == \E m \in pending[c] : About(c, row, m.event)
DeadLettered(c, row) == \E event \in dead[c] : About(c, row, event)
Accounted(c, row) == Holds(c, row) \/ InFlight(c, row) \/ DeadLettered(c, row)

(* Transactional outbox end to end: no row of PostgreSQL is unknown to a
   consumer that must know of it, through retries, duplicates, lost commits,
   purged markers and republications. *)
EveryRowAccounted ==
  \A c \in Consumer : \A row \in SourceRows(c) : Accounted(c, row)

(* Without a failure of the infrastructure the sinks dead-letter nothing, and
   the embedding worker only an event whose chunk was replaced meanwhile or
   already has its embedding: the dead-letter topic hides no missing vector. *)
DeadLetterHarmless ==
  budget.faults = MaxFaults =>
    /\ \A s \in Sink : dead[s] = {}
    /\ \A event \in dead["embedder"] :
         event.row \notin chunk \/ event.row \in embedding

(* docs/specs/SPEC-029, scenarios 2 and 3: a file that was persisted can be
   persisted again, the old chunks are deleted and the new ones inserted. *)
ReingestSucceeds == \A f \in File : outcome[f] # "refused"
=============================================================================
