------------------------------- MODULE Sinks -------------------------------
(***************************************************************************)
(* The five targets behind the `Sink` trait: how `write` cuts a batch into *)
(* requests and what the target makes of each operation.  OpenSearch and   *)
(* Elasticsearch order writes of one document by version and remember      *)
(* deletes; PostgreSQL compares versions but keeps nothing of a deleted    *)
(* row; Qdrant and Meilisearch keep whatever was written last.             *)
(*                                                                         *)
(* `store` is a function from places to entries, an entry that is not live *)
(* being a tombstone.  The targets themselves are external: their part is  *)
(* modelled from the requests the sinks send and the answers they read.    *)
(***************************************************************************)
EXTENDS Mapping

CONSTANT SameShard  \* whether every routing of an index hashes to one shard

ASSUME SameShardAssumption == SameShard \in BOOLEAN

\* Where an operation lands: routing only chooses the shard, and within a shard
\* a document is its id.
Place(op) == [index |-> op.index, id |-> op.id, shard |-> IF SameShard THEN Absent ELSE op.routing]

Live(store) == {p \in DOMAIN store : store[p].live}
Entry(op)   == [live |-> op.op = "upsert", v |-> op.v, doc |-> op.doc]
Without(store, ps) == Restrict(store, DOMAIN store \ ps)

----------------------------------------------------------------------------
(* One operation.                                                          *)

\* version_fields: external_gte, under which an equal version is accepted.
Takes(store, place, v) == place \in DOMAIN store => store[place].v <= v

ApplyVersioned(store, op) ==
  IF Takes(store, Place(op), op.v) THEN (Place(op) :> Entry(op)) @@ store ELSE store

\* TableShape::upsert_sql and the guarded DELETE.
ApplyTable(store, op) ==
  CASE ~Takes(store, Place(op), op.v) -> store
    [] op.op = "upsert"               -> (Place(op) :> Entry(op)) @@ store
    [] op.op = "delete"               -> Without(store, {Place(op)})

\* Run::Upsert and Run::Delete; Meilisearch's two endpoints.
ApplyLast(store, op) ==
  IF op.op = "upsert" THEN (Place(op) :> Entry(op)) @@ store ELSE Without(store, {Place(op)})

\* delete_children: the documents that name the parent, deleted at its version.
Cascade(store, op) ==
  LET children == {p \in Live(store) : /\ p.index = op.index
                                       /\ "rel" \in DOMAIN store[p].doc
                                       /\ store[p].doc["rel"].parent = op.id
                                       /\ Takes(store, p, op.v)}
  IN  [p \in DOMAIN store |-> IF p \in children THEN [live |-> FALSE, v |-> op.v, doc |-> Absent] ELSE store[p]]

\* What a truncate clears: for a join member only the documents of its relation.
Cleared(store, op) ==
  {p \in Live(store) : ~Has(op.only) \/ ("rel" \in DOMAIN store[p].doc /\ store[p].doc["rel"].name = op.only.name)}

\* truncate_at_version: one tombstone per document that came before.
TruncateVersioned(store, op) ==
  LET before == {p \in Cleared(store, op) : Takes(store, p, op.v)}
  IN  [p \in DOMAIN store |-> IF p \in before THEN [live |-> FALSE, v |-> op.v, doc |-> Absent] ELSE store[p]]

\* PostgreSQL: DELETE of the rows at or below the position.
TruncateTable(store, op) == Without(store, {p \in Cleared(store, op) : Takes(store, p, op.v)})

\* Qdrant: truncate_filter, the points at or below the position.
TruncatePoints(store, op) == Without(store, {p \in Cleared(store, op) : Takes(store, p, op.v)})

\* Meilisearch empties the index, whatever came later.
TruncateWhole(store, op) == Without(store, Cleared(store, op))

TruncateIndex(flavor, store, op) ==
  CASE flavor \in SearchEngines -> TruncateVersioned(store, op)
    [] flavor = "postgres"      -> TruncateTable(store, op)
    [] flavor = "qdrant"        -> TruncatePoints(store, op)
    [] flavor = "meilisearch"   -> TruncateWhole(store, op)

----------------------------------------------------------------------------
(* One request: its operations in order, the refused ones left out.        *)

Each(apply(_, _), store, ops, refused) ==
  FoldLeft(LAMBDA st, op : IF op \in refused THEN st ELSE apply(st, op), store, ops)

\* bulk_once: the answer names the refused items, the others are applied.
BulkOnce(store, ops, refused) == Each(ApplyVersioned, store, ops, refused)

\* write_once: one transaction, a savepoint under every operation.
WriteOnce(store, ops, refused) == Each(ApplyTable, store, ops, refused)

\* upsert_run: refused as a whole, the run is sent again point by point.
ApplyRun(store, ops, refused) == Each(ApplyLast, store, ops, refused)

\* wait_task: a task that fails has applied none of its documents.
Task(store, ops, refused) ==
  IF \E i \in DOMAIN ops : ops[i] \in refused THEN store ELSE Each(ApplyLast, store, ops, {})

Request(flavor, store, ops, refused) ==
  CASE Head(ops).op = "truncate" -> TruncateIndex(flavor, store, Head(ops))
    [] Head(ops).op = "children" -> Cascade(store, Head(ops))
    [] OTHER -> CASE flavor \in SearchEngines -> BulkOnce(store, ops, refused)
                  [] flavor = "postgres"      -> WriteOnce(store, ops, refused)
                  [] flavor = "qdrant"        -> ApplyRun(store, ops, refused)
                  [] flavor = "meilisearch"   -> Task(store, ops, refused)

----------------------------------------------------------------------------
(* write: the requests of a batch, in the order they are sent.             *)

Bulk(ops) == IF ops = <<>> THEN <<>> ELSE <<ops>>

\* The runs between cascades, each cascade on its own.
BulkRequests(batch) ==
  LET step(acc, op) == IF op.op = "children"
                       THEN [done |-> acc.done \o Bulk(acc.run) \o <<<<op>>>>, run |-> <<>>]
                       ELSE [acc EXCEPT !.run = Append(@, op)]
      end == FoldLeft(step, [done |-> <<>>, run |-> <<>>], batch)
  IN  end.done \o Bulk(end.run)

\* Run: consecutive operations of one kind against one collection.
RunRequests(batch) ==
  LET fits(run, op)  == run # <<>> /\ Last(run).op = op.op /\ Last(run).index = op.index
      step(acc, op)  == IF fits(acc.run, op) THEN [acc EXCEPT !.run = Append(@, op)]
                        ELSE [done |-> acc.done \o Bulk(acc.run), run |-> <<op>>]
      end == FoldLeft(step, [done |-> <<>>, run |-> <<>>], batch)
  IN  end.done \o Bulk(end.run)

\* Meilisearch: per index, the upserts and then the deletes.
IndexRequests(batch) ==
  LET of(index, kind) == SelectSeq(batch, LAMBDA op : op.index = index /\ op.op = kind)
      indexes == SetToSeq({batch[i].index : i \in DOMAIN batch})
  IN  FoldLeft(LAMBDA acc, i : acc \o Bulk(of(i, "upsert")) \o Bulk(of(i, "delete")), <<>>, indexes)

\* PostgreSQL writes the batch in one transaction.
WriteRequests(flavor, batch) ==
  CASE flavor \in SearchEngines -> BulkRequests(batch)
    [] flavor = "qdrant"        -> RunRequests(batch)
    [] flavor = "meilisearch"   -> IndexRequests(batch)
    [] flavor = "postgres"      -> Bulk(batch)

\* can_quarantine.
CanQuarantine(flavor) == flavor # "meilisearch"

\* get_documents: the live document under an id, or a hole.
GetDocument(store, key) ==
  IF ~Has(key) THEN Absent
  ELSE LET p == Place(key) IN IF p \in Live(store) THEN store[p].doc ELSE Absent
=============================================================================
