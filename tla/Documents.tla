----------------------------- MODULE Documents -----------------------------
(***************************************************************************)
(* From the tables to the target and back: rows change, the stream makes   *)
(* row changes of it, the engine turns each into document operations, the  *)
(* sink writes them in requests, what the target refuses is filed, and an  *)
(* operator may offer it again.  One pipeline, one writer; concurrent      *)
(* write requests and the load are the subject of SinkLoop and Pipeline.   *)
(*                                                                         *)
(* A scenario fixes the sections (table "t", and its join parent "p" where *)
(* there is one), the flavour of the target, whether the target refuses    *)
(* documents that hold the value BadC, what the column "c" may hold and    *)
(* how many changes the source commits.                                    *)
(***************************************************************************)
EXTENDS Sinks

CONSTANTS
  Scenarios,    \* records [sections, flavor, refuses, changes, cs]
  Keys, Bigs, Arrays,  \* what the columns "k", "big" and "arr" may hold
  BadC,         \* a value of "c" that a target's mapping may refuse
  MaxCrashes,   \* attempts that end without a shutdown
  MaxReplays    \* runs of `rejects --replay`

VARIABLES
  scenario,
  rows,      \* per table, the committed rows
  log,       \* the row changes the stream carries, each its own transaction
  next,      \* the next of them to be read
  buffer,    \* document operations not yet handed to the sink
  requests,  \* requests of the batch being written that are still to be sent
  batch,     \* the last version of that batch, 0 when nothing is being written
  refused,   \* its operations that the target refused
  acked,     \* the version the checkpoint holds
  store,     \* the target
  filed,     \* the reject store, by index and document id
  fixed,     \* whether the operator has corrected the target's mapping
  listing,   \* rejects a running replay still has to offer
  halted, crashes, replays

vars == <<scenario, rows, log, next, buffer, requests, batch, refused, acked,
          store, filed, fixed, listing, halted, crashes, replays>>

Tables  == DOMAIN scenario.sections
Sect(t) == scenario.sections[t]
Flavor  == scenario.flavor

\* What a table may hold: "big" varies only where an update can leave it out,
\* "arr" only where it is fanned out.  The columns a name renders from are never
\* NULL: the documented answer to that is a halt.
RowsOf(t) ==
  [k : {<<"num", n>> : n \in Keys}, c : scenario.cs,
   big : IF Sect(t).full THEN {<<"num", 1>>} ELSE Bigs,
   arr : IF ~Sect(t).fan_out THEN {Null} ELSE IF Sect(t).join = "element" THEN Arrays \ {Null} ELSE Arrays]

UniqueKey(t, new, others) == \A r \in others : Pk(Sect(t), r) # Pk(Sect(t), new)

\* The foreign key of a join child on its parent, in force after every change.
Named(r) == IF Sect("t").join = "element" THEN (IF r.arr = Null THEN {} ELSE r.arr[2]) ELSE {r.c}
Referenced(rs) == "p" \in DOMAIN rs => \A r \in rs["t"] : Named(r) \subseteq {q.k : q \in rs["p"]}

Logged(t, e) == Append(log, [e EXCEPT !.v = Len(log) + 1] @@ [table |-> t])

----------------------------------------------------------------------------
(* The source.                                                             *)

SourceStep(t, e, rs) ==
  /\ Referenced([rows EXCEPT ![t] = rs])
  /\ rows' = [rows EXCEPT ![t] = rs]
  /\ log' = Logged(t, e)
  /\ UNCHANGED <<scenario, next, buffer, requests, batch, refused, acked, store, filed,
                 fixed, listing, halted, crashes, replays>>

SourceInsert(t) ==
  \E r \in RowsOf(t) : /\ UniqueKey(t, r, rows[t])
                       /\ SourceStep(t, InsertChange(Sect(t), r, 0), rows[t] \cup {r})
SourceUpdate(t) ==
  /\ ~Sect(t).append_only
  /\ \E old \in rows[t], new \in RowsOf(t) :
        /\ new # old
        /\ UniqueKey(t, new, rows[t] \ {old})
        /\ SourceStep(t, UpdateChange(Sect(t), old, new, 0), (rows[t] \ {old}) \cup {new})
SourceDelete(t) ==
  /\ ~Sect(t).append_only
  /\ \E old \in rows[t] : SourceStep(t, DeleteChange(Sect(t), old, 0), rows[t] \ {old})
\* A truncate leaves nothing of a document that was never stored, so a refused
\* one comes back when it is replayed; the scenarios with refusals have none.
SourceTruncate(t) ==
  /\ ~scenario.refuses
  /\ SourceStep(t, Change("truncate", Absent, Absent, Absent, {}, Absent, 0), {})

----------------------------------------------------------------------------
(* The engine.                                                             *)

\* TableTruncated: the whole index, or the relation's documents in a join.
TruncateOp(t, v) ==
  [op |-> "truncate", index |-> Absent, id |-> Absent, routing |-> Absent, doc |-> Absent, v |-> v,
   only |-> IF Sect(t).join = "none" THEN Absent ELSE [name |-> Sect(t).name]]

\* fetch_completions, for one row.
Completion(e) == GetDocument(store, CompletionKey(Sect(e.table), e))

\* ChangeEvent::Row and ChangeEvent::TableTruncated.
Stream ==
  /\ ~halted /\ batch = 0 /\ listing = <<>>
  /\ next <= Len(log)
  /\ LET e   == log[next]
         ops == IF e.kind = "truncate" THEN <<TruncateOp(e.table, e.v)>>
                ELSE Materialize(Sect(e.table), e, Completion(e))
     IN  /\ halted' = Stops(ops)
         /\ buffer' = IF Stops(ops) THEN buffer ELSE buffer \o ops
         /\ next' = IF Stops(ops) THEN next ELSE next + 1
  /\ UNCHANGED <<scenario, rows, log, requests, batch, refused, acked, store, filed, fixed, listing, crashes, replays>>

\* SinkCommand::Write and SinkCommand::Truncate: what was buffered before a
\* truncate is written before it.
CutAtTruncates(ops) ==
  LET step(acc, op) == IF op.op = "truncate"
                       THEN [done |-> acc.done \o WriteRequests(Flavor, acc.run) \o <<<<op>>>>, run |-> <<>>]
                       ELSE [acc EXCEPT !.run = Append(@, op)]
      end == FoldLeft(step, [done |-> <<>>, run |-> <<>>], ops)
  IN  end.done \o WriteRequests(Flavor, end.run)

Flush ==
  /\ ~halted /\ batch = 0 /\ buffer # <<>>
  /\ requests' = CutAtTruncates(buffer)
  /\ batch' = Last(buffer).v
  /\ buffer' = <<>>
  /\ refused' = {}
  /\ UNCHANGED <<scenario, rows, log, next, acked, store, filed, fixed, listing, halted, crashes, replays>>

----------------------------------------------------------------------------
(* The sink.                                                               *)

\* What the target's mapping does not accept; a delete is never refused.
Refuses(op) ==
  /\ scenario.refuses /\ ~fixed /\ op.op = "upsert"
  /\ \E f \in DOMAIN op.doc : f \in {"c", "f"} /\ op.doc[f] = BadC

\* One request: applied, its refused items remembered by position.
Write ==
  /\ requests # <<>>
  /\ LET ops == Head(requests)
         no  == {ops[i] : i \in {j \in DOMAIN ops : Refuses(ops[j])}}
     IN  /\ store' = Request(Flavor, store, ops, no)
         /\ refused' = refused \cup no
  /\ requests' = Tail(requests)
  /\ UNCHANGED <<scenario, rows, log, next, buffer, batch, acked, filed, fixed, listing, halted, crashes, replays>>

\* retry_transient: the request was executed and its answer was lost.
WriteAnswerLost ==
  /\ requests # <<>>
  /\ crashes < MaxCrashes
  /\ LET ops == Head(requests) IN
     store' = Request(Flavor, store, ops, {ops[i] : i \in {j \in DOMAIN ops : Refuses(ops[j])}})
  /\ crashes' = crashes + 1
  /\ UNCHANGED <<scenario, rows, log, next, buffer, requests, batch, refused, acked, filed, fixed, listing, halted, replays>>

\* reject_doc_id: filed by index and document id, the newer refusal in place of
\* the older one.
RejectKey(op) == <<op.index, op.id>>
NewlyFiled == [key \in {RejectKey(op) : op \in refused} |->
                 CHOOSE op \in refused : RejectKey(op) = key /\ \A o \in refused : RejectKey(o) = key => o.v <= op.v]

\* Sink::quarantine, which has to succeed before the position may move.
Quarantine == filed' = NewlyFiled @@ filed

\* The batch is done: what it refused is filed, then its position is stored.  A
\* target that cannot file a refusal halts on it.
Ack ==
  /\ batch # 0 /\ requests = <<>>
  /\ IF refused # {} /\ ~CanQuarantine(Flavor)
     THEN /\ halted' = TRUE
          /\ UNCHANGED <<filed, acked>>
     ELSE /\ Quarantine
          /\ acked' = batch
          /\ UNCHANGED halted
  /\ batch' = 0 /\ refused' = {}
  /\ UNCHANGED <<scenario, rows, log, next, buffer, requests, store, fixed, listing, crashes, replays>>

\* The attempt ends anywhere, a request perhaps half of the batch in, and the
\* next one replays from the checkpoint.
Crash ==
  /\ crashes < MaxCrashes /\ ~halted
  /\ next > acked + 1 \/ buffer # <<>>
  /\ next' = acked + 1
  /\ buffer' = <<>> /\ requests' = <<>> /\ batch' = 0 /\ refused' = {}
  /\ crashes' = crashes + 1
  /\ UNCHANGED <<scenario, rows, log, acked, store, filed, fixed, listing, halted, replays>>

----------------------------------------------------------------------------
(* The operator.                                                           *)

FixMapping ==
  /\ scenario.refuses /\ ~fixed
  /\ fixed' = TRUE
  /\ UNCHANGED <<scenario, rows, log, next, buffer, requests, batch, refused, acked, store, filed, listing,
                 halted, crashes, replays>>

\* rejects --replay: the page is listed first.  The pipeline is stopped while
\* the page is worked through: a refusal filed meanwhile under a listed id would
\* be cleared with it.
ListRejects ==
  /\ replays < MaxReplays /\ listing = <<>> /\ DOMAIN filed # {}
  /\ batch = 0
  /\ Flavor \in SearchEngines
  /\ listing' = SetToSeq(DOMAIN filed)
  /\ replays' = replays + 1
  /\ UNCHANGED <<scenario, rows, log, next, buffer, requests, batch, refused, acked, store, filed, fixed, halted, crashes>>

\* Mutant: the record is cleared although the target refused it again.
ReplayRejectDropped ==
  /\ listing # <<>>
  /\ LET op == filed[Head(listing)] IN
     /\ store' = Request(Flavor, store, <<op>>, IF Refuses(op) THEN {op} ELSE {})
     /\ filed' = Without(filed, {Head(listing)})
  /\ listing' = Tail(listing)
  /\ UNCHANGED <<scenario, rows, log, next, buffer, requests, batch, refused, acked, fixed, halted, crashes, replays>>

\* One record of the page: written with the version it was refused at, and
\* cleared once the target no longer refuses it.
ReplayReject ==
  /\ listing # <<>>
  /\ LET op == filed[Head(listing)] IN
     /\ store' = Request(Flavor, store, <<op>>, IF Refuses(op) THEN {op} ELSE {})
     /\ filed' = IF Refuses(op) THEN filed ELSE Without(filed, {Head(listing)})
  /\ listing' = Tail(listing)
  /\ UNCHANGED <<scenario, rows, log, next, buffer, requests, batch, refused, acked, fixed, halted, crashes, replays>>

----------------------------------------------------------------------------

Init ==
  /\ scenario \in Scenarios
  /\ Accepted({scenario.sections[t] : t \in DOMAIN scenario.sections}, scenario.flavor)
  /\ rows = [t \in Tables |-> {}]
  /\ log = <<>> /\ next = 1 /\ buffer = <<>> /\ requests = <<>> /\ batch = 0
  /\ refused = {} /\ acked = 0 /\ store = <<>> /\ filed = <<>>
  /\ fixed = FALSE /\ listing = <<>> /\ halted = FALSE /\ crashes = 0 /\ replays = 0

\* The source commits before the stream starts: the engine would read the same
\* log if it committed later.
Source == /\ Len(log) < scenario.changes /\ next = 1
          /\ \E t \in Tables : SourceInsert(t) \/ SourceUpdate(t) \/ SourceDelete(t) \/ SourceTruncate(t)
Sink   == Write \/ WriteAnswerLost \/ Ack
Operator == FixMapping \/ ListRejects \/ ReplayReject

Next == Source \/ Stream \/ Flush \/ Sink \/ Crash \/ Operator

Spec == Init /\ [][Next]_vars

----------------------------------------------------------------------------
(* Properties.                                                             *)

\* What the tables say the target should hold, stated over the configuration
\* alone: no event, no before-image, no operation.
Kept(s, r) == ~Has(s.filter) \/ Loaded(Parse(Render(s.filter)).expr, r)

Elements(s, r) == IF s.fan_out /\ r.arr # Null THEN r.arr[2] ELSE {r.arr}

FieldValue(s, f, cells) ==
  CASE f \in s.constants -> <<"const", 0>>
    [] f = "rel"         -> [name |-> s.name,
                             parent |-> CASE s.join = "parent" -> Absent
                                          [] s.join = "child"  -> [k |-> cells.c]
                                          [] OTHER             -> [k |-> cells.arr]]
    [] OTHER -> LET c == CHOOSE d \in DOMAIN cells : TargetName(s, d) = f
                IN  IF c \in DOMAIN s.transform /\ cells[c] # Null
                    THEN ApplyOp(s.transform[c], cells[c]).value ELSE cells[c]

WantedDoc(s, cells) ==
  [f \in {TargetName(s, c) : c \in DOMAIN cells \ s.exclude} \cup s.constants
           \cup (IF s.join = "none" THEN {} ELSE {"rel"}) |-> FieldValue(s, f, cells)]

WantedId(s, r, cells) ==
  CASE s.fan_out /\ r.arr # Null -> [k |-> cells.k, arr |-> cells.arr]
    [] s.append_only             -> r
    [] s.id # {}                 -> Restrict(r, s.id)
    [] OTHER                     -> Restrict(r, s.key)

WantedRouting(s, cells) ==
  CASE s.join = "child"   -> [k |-> cells.c]
    [] s.join = "element" -> [k |-> cells.arr]
    [] OTHER              -> Restrict(cells, s.routing)

WantedOf(s, r) ==
  {LET cells == [r EXCEPT !.arr = e]
   IN  [place |-> Place([index |-> Restrict(r, s.index), id |-> WantedId(s, r, cells),
                         routing |-> WantedRouting(s, cells)]),
        doc |-> WantedDoc(s, cells)] : e \in Elements(s, r)}

Wanted == UNION {UNION {WantedOf(Sect(t), r) : r \in {q \in rows[t] : Kept(Sect(t), q)}} : t \in Tables}

\* A column that an update may leave out is completed from a copy that can be
\* stale (docs/sources/postgresql.md, and Pipeline), so it is compared apart.
CompletedField == TargetName(Sect("t"), "big")
Comparable(doc) == IF \A t \in Tables : Sect(t).full THEN doc ELSE Restrict(doc, DOMAIN doc \ {CompletedField})

Held == {[place |-> p, doc |-> Comparable(store[p].doc)] : p \in Live(store)}
WantedHeld == {[w EXCEPT !.doc = Comparable(@)] : w \in Wanted}

Drained == next > Len(log) /\ buffer = <<>> /\ batch = 0 /\ ~halted

\* Once the stream is drained, every document that the tables and the
\* configuration describe is in the target at the id, index and routing they
\* describe, whatever moved, entered the filter, was replayed after a crash or
\* was retried; or it is one the target refused, and its record is in the reject
\* store, current, until the target has taken it.
NoLostDocument ==
  Drained => \A w \in WantedHeld \ Held :
                LET key == <<w.place.index, w.place.id>>
                IN  key \in DOMAIN filed /\ Comparable(filed[key].doc) = w.doc

\* Once the stream is drained, the target holds no other document: nothing of a
\* row that was deleted, left the filter, or moved to another id, index, routing,
\* parent or array element.  Where the newest state was refused an older one may
\* stand.
NoStrayDocument ==
  Drained => \A w \in Held \ WantedHeld : <<w.place.index, w.place.id>> \in DOMAIN filed

\* docs/configuration.md: "A changed value moves the document: written under the
\* new routing first, deleted under the old second."  After both, the document is
\* under the new routing.
MovedDocumentIsKept == Drained => \A w \in WantedHeld : w.place \in Live(store)

\* A completed column went through its transform once, when it was first
\* written, however often the row is updated without it.
CompletedOnce ==
  "big" \in DOMAIN Sect("t").transform =>
    \A p \in Live(store) :
       CompletedField \in DOMAIN store[p].doc =>
         store[p].doc[CompletedField] \in {Null} \cup {ApplyOp(Sect("t").transform["big"], v).value : v \in Bigs \ {Null}}

\* A section the startup checks accepted never stops the pipeline on a row: the
\* change always carries what its ids, indexes and routings render from.
AcceptedNeverHalts == CanQuarantine(Flavor) => ~halted

\* What the load's query selects and what the engine keeps of the stream are
\* the same rows: the predicate means to the database, parsed, rendered and read
\* as SQL, what it means to the engine, for every row a table may hold.
FilterAgreesWithSql ==
  \A t \in Tables : Has(Sect(t).filter) =>
    \A r \in RowsOf(t) : Matches(Sect(t).filter, r) <=> Kept(Sect(t), r)
=============================================================================
