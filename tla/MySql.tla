------------------------------- MODULE MySql -------------------------------
(***************************************************************************)
(* A pipeline from MySQL or MariaDB: the servers and their binlogs, the    *)
(* stream decoded from them, the load beside it, and the attempts that     *)
(* resume from a stored position, on the same server or on another.        *)
(*                                                                         *)
(* Sources: crates/source-mysql/src/runner.rs, load.rs, catalog.rs,        *)
(* children.rs and gtid.rs, crates/core/src/children.rs, and attempt_mysql *)
(* in crates/bin/src/run.rs.  The engine and the sink are what SinkLoop    *)
(* and Pipeline show of them: each channel's operations reach the target   *)
(* in order, a position is acknowledged and a mark reported once           *)
(* everything ahead of it is written.                                      *)
(*                                                                         *)
(* One table of parents is indexed; rows of a second table are embedded in *)
(* their parents' documents.  Both servers hold the same data: a failover  *)
(* loses nothing.  A commit is visible when it is in the binlog.           *)
(***************************************************************************)
EXTENDS Target, Gtid, FiniteSetsExt

CONSTANTS
  Kids,         \* the rows that are embedded
  Setups,       \* what the source and the configuration may be
  Shapes(_),    \* the transactions committed under a setup
  MaxTxns,      \* bound: transactions committed under any setup
  QueueCap,     \* EVENT_CHANNEL_DEPTH
  FlushRows,    \* PENDING_FLUSH_ROWS
  FileSpan,     \* positions of one binlog file (2^32)
  Margin,       \* GENERATION_MARGIN
  BaselineRace  \* whether a commit may fall between the two reads of a first start

\* Ids are the primary keys of the parents, in their order.
ASSUME MySqlAssumption ==
  /\ Ids \subseteq Nat \ {0}
  /\ MaxTxns \in Nat
  /\ QueueCap \in Nat \ {0} /\ FlushRows \in Nat \ {0}
  /\ FileSpan \in Nat \ {0} /\ Margin \in Nat
  /\ BaselineRace \in BOOLEAN

Servers == {"A", "B"}

VARIABLES
  setup,     \* mariadb, gtids, tagged, embed, rows at first, the bounds txns, rotations and
             \* attempts, and second: the other server's file, 0 for none
  db,        \* the database
  server,    \* the server behind the address
  hist,      \* the transactions committed, oldest first, with their GTIDs
  binlog,    \* the events of each server's binlog
  head,      \* the file and position each server writes next
  mode,      \* "down", "first", "up" or "halted"
  attempts,  \* attempts so far
  run,       \* the stream of the attempt
  tracker,   \* the GTID tracker of the attempt
  load,      \* the load of the attempt
  events,    \* the stream's channel
  copies,    \* the load's channel
  cleared,   \* the engine's highest TRUNCATE beside the load, 0 for none
  acked,     \* the position acknowledged in this attempt, 0 for none
  loadDone,  \* the highest mark reported back
  target,    \* the documents
  ckpt,      \* the stored checkpoint
  progress,  \* the stored load progress
  began,     \* how many transactions the first position left to the load, -1 before it
  done,      \* the transactions acknowledged, in any attempt
  skipped    \* the rows that were left out because their layout is history

sourceVars == <<setup, db, server, hist, binlog, head>>
engineVars == <<cleared, acked, loadDone, target>>
ghostVars == <<began, done>>
vars == <<sourceVars, mode, attempts, run, tracker, load, events, copies, engineVars,
          ckpt, progress, ghostVars, skipped>>

----------------------------------------------------------------------------
(* The database.  A change is of the parents' table, of the embedded rows, *)
(* or of the junction of a many-to-many relation.                          *)

Change == [table : {"parent", "child", "junction"}, kind : {"upsert", "delete"},
           key : Ids \cup {0}, kid : Kids \cup {0}]
Truncates == [table |-> "parent", kind |-> "truncate", key |-> 0, kid |-> 0]
\* A statement the reader recognises as DDL, and one it does not.
Alters(seen) == [table |-> "parent", kind |-> IF seen THEN "alter" ELSE "alter_unseen", key |-> 0, kid |-> 0]
IsStatement(c) == c.kind \notin {"upsert", "delete"}

\* The database after a change by transaction t.
After(d, c, t) ==
  CASE c.kind = "truncate" -> [d EXCEPT !.parent = [k \in Ids |-> Absent]]
    [] c.kind \in {"alter", "alter_unseen"} -> [d EXCEPT !.layout = @ + 1]
    [] c.table = "parent" -> [d EXCEPT !.parent[c.key] = IF c.kind = "upsert" THEN t ELSE Absent]
    [] c.table = "child" ->
         [d EXCEPT !.child[c.kid] = IF c.kind = "upsert" THEN [of |-> c.key, val |-> t] ELSE Absent]
    [] c.table = "junction" ->
         [d EXCEPT !.links = IF c.kind = "upsert" THEN @ \cup {<<c.key, c.kid>>} ELSE @ \ {<<c.key, c.kid>>}]

AfterAll(d, changes, t) == FoldLeft(LAMBDA now, c : After(now, c, t), d, changes)

\* fetch_many: the rows embedded in a parent.
Collection(d, key) ==
  {<<kid, d.child[kid].val>> : kid \in {x \in Kids :
     d.child[x] # Absent /\ IF setup.embed = "through" THEN <<key, x>> \in d.links ELSE d.child[x].of = key}}

\* fetch_counts: how many there are, 0 where there is none.
Counted(d, key) == {<<"count", Cardinality(Collection(d, key))>>}

Embedded(d, key) == IF setup.embed = "aggregates" THEN Counted(d, key) ELSE Collection(d, key)

\* apply_collection and apply_count.
Document(row, kids) == [row |-> row, kids |-> kids]

\* refetch_parents: the document of a row as the database stands.
Wanted(key) == IF db.parent[key] = Absent THEN Absent ELSE Document(db.parent[key], Embedded(db, key))

\* The rows of a change before it, where the relation is read from them.
Was(d, c) == IF c.table = "child" /\ d.child[c.kid] # Absent THEN d.child[c.kid].of ELSE 0

----------------------------------------------------------------------------
(* The servers' binlogs (external).  A transaction is a group of events,   *)
(* opened by its GTID; each takes one position.                            *)

Coordinate(at) == at.file * FileSpan + at.pos

\* The file's first position.
Start == 1

Body(c, d) == IF IsStatement(c) THEN <<[type |-> "query", change |-> c]>>
              ELSE <<[type |-> "table_map", table |-> c.table, layout |-> d.layout],
                     [type |-> "rows", change |-> c, was |-> Was(d, c)]>>

\* The group of the t-th transaction.  MariaDB states no position inside it.
Group(t, changes) ==
  LET bodies == FlattenSeq([j \in DOMAIN changes |-> Body(changes[j], AfterAll(db, SubSeq(changes, 1, j - 1), t))])
  IN  <<[type |-> "gtid", txn |-> t]>>
      \o [i \in DOMAIN bodies |-> [txn |-> t] @@ bodies[i]]
      \o IF IsStatement(Last(changes)) THEN <<>> ELSE <<[type |-> "xid", txn |-> t]>>

Stated(e) == ~setup.mariadb \/ e.type \notin {"table_map", "rows"}

Placed(group, at) ==
  [i \in DOMAIN group |->
     [file |-> at.file, pos |-> at.pos + i, log_pos |-> IF Stated(group[i]) THEN at.pos + i ELSE 0] @@ group[i]]

\* The server numbers a transaction: MySQL with the lowest number it has not
\* used, MariaDB with the next of the domain.
Executed == {<<"A", 1>>, <<"A", 3>>} \cup {hist[t].gtid : t \in DOMAIN hist}
NextGtid ==
  <<server, IF setup.mariadb THEN Max({g[2] : g \in Executed}) + 1
            ELSE Min({n \in 1 .. MaxTxns + 3 : <<server, n>> \notin Executed})>>

\* A position in its normal form.
Intervals(S) ==
  LET starts == {n \in S : n - 1 \notin S}
      end(n) == Max({m \in S : n .. m \subseteq S /\ m >= n})
  IN  [i \in 1 .. Cardinality(starts) |->
         LET n == SetToSortSeq(starts, <)[i] IN <<n, end(n)>>]
PositionOfAll(gtids) ==
  IF setup.mariadb THEN (Domain :> CHOOSE g \in gtids : \A h \in gtids : h[2] <= g[2])
  ELSE [u \in {g[1] : g \in gtids} |-> Intervals({g[2] : g \in {h \in gtids : h[1] = u}})]

Commits ==
  /\ Len(hist) < setup.txns
  /\ mode = "first" => BaselineRace
  /\ \E changes \in Shapes(setup) :
       LET t == Len(hist) + 1
           group == Group(t, changes)
       IN  /\ AfterAll(db, changes, t) # db
           /\ db' = AfterAll(db, changes, t)
           /\ hist' = Append(hist, [changes |-> changes, gtid |-> NextGtid])
           /\ binlog' = [s \in Servers |-> binlog[s] \o Placed(group, head[s])]
           /\ head' = [s \in Servers |-> [head[s] EXCEPT !.pos = @ + Len(group)]]
  /\ UNCHANGED <<setup, server, mode, attempts, run, tracker, load, events, copies, engineVars,
                 ckpt, progress, ghostVars, skipped>>

\* The log is rotated, by its size or by hand (the bound counts the first server's).
LogRotates ==
  /\ server = "A" /\ head[server].file < 3 + setup.rotations
  /\ head[server].pos > Start
  /\ head' = [head EXCEPT ![server] = [file |-> @.file + 1, pos |-> Start]]
  /\ UNCHANGED <<setup, db, server, hist, binlog, mode, attempts, run, tracker, load, events, copies,
                 engineVars, ckpt, progress, ghostVars, skipped>>

----------------------------------------------------------------------------
(* The start of an attempt.                                                *)

NoCheckpoint == [file |-> 0, pos |-> 0, base |-> 0, gtid |-> None]
NoProgress == [stored |-> FALSE, after |-> 0, finished |-> FALSE]

\* StoredPosition::token.
StoredToken(c) == c.base + Coordinate(c)

\* Mutant: versions are numbered on as if the server were the same.
VersionBaseKept(base, stored, current) == base

\* version_base_for.
VersionBaseFor(base, stored, current) ==
  IF base + current >= stored THEN base ELSE stored + Margin

\* unfinished.
LoadPending == progress.stored /\ ~progress.finished

\* The stream as the source opens it.  It asks by GTID when the checkpoint has
\* a set and the server can use it, and by coordinate otherwise.
Opened(from, base, gtids) ==
  [file |-> from.file, pos |-> from.pos, from |-> Coordinate(from), gtids |-> gtids,
   sent |-> 0, in |-> 0, base |-> base, cache |-> 0, registered |-> {},
   held |-> <<>>, named |-> {}, through |-> {}, passed |-> {}, beat |-> 0]

Loads(pc, after) == [pc |-> pc, after |-> after, mark |-> 0, version |-> 0, key |-> 0, row |-> Absent]

\* A table an earlier run finished is passed over; one it began is carried on
\* behind the key it recorded.
LoadFrom(p) == Loads(IF p.finished THEN "clear" ELSE "position", p.after)

Attempt(from, base, gtids, baseline, loads) ==
  /\ mode' = "up"
  /\ run' = Opened(from, base, gtids)
  /\ tracker' = NewTracker(IF gtids # None THEN gtids ELSE baseline)
  /\ load' = IF loads THEN LoadFrom(progress) ELSE Loads("report", 0)
  /\ events' = <<>> /\ copies' = <<>>
  /\ cleared' = 0 /\ acked' = 0 /\ loadDone' = 0

\* attempt_mysql with a checkpoint: a server behind it is another history, which
\* only a GTID set can be resumed in, and in which versions start higher.
Resumes ==
  /\ mode = "down" /\ ckpt # NoCheckpoint
  /\ attempts < setup.attempts /\ attempts' = attempts + 1
  /\ LET base == VersionBaseFor(ckpt.base, StoredToken(ckpt), Coordinate(head[server]))
         usable == ckpt.gtid # None /\ setup.gtids
     IN  IF base # ckpt.base /\ ~usable
           THEN /\ mode' = "halted"
                /\ UNCHANGED <<run, tracker, load, events, copies, cleared, acked, loadDone>>
           ELSE Attempt(ckpt, base, IF usable THEN Parse(ckpt.gtid, setup.mariadb) ELSE None, None, LoadPending)
  /\ UNCHANGED <<sourceVars, target, ckpt, progress, ghostVars, skipped>>

\* A first start: what the server has executed is read, and after it the
\* coordinate, which is stored before the load reads anything.  Progress of an
\* earlier load without a checkpoint is discarded.
ReadsBaseline ==
  /\ mode = "down" /\ ckpt = NoCheckpoint
  /\ attempts < setup.attempts /\ attempts' = attempts + 1
  /\ mode' = "first"
  /\ progress' = NoProgress
  /\ tracker' = NewTracker(IF setup.gtids THEN PositionOfAll(Executed) ELSE None)
  /\ UNCHANGED <<sourceVars, run, load, events, copies, engineVars, ckpt, ghostVars, skipped>>

ReadsPosition ==
  /\ mode = "first"
  /\ Attempt(head[server], 0, None, tracker.position, TRUE)
  /\ ckpt' = head[server] @@ [base |-> 0, gtid |-> tracker.position]
  /\ began' = Len(hist)
  /\ UNCHANGED <<sourceVars, attempts, target, progress, done, skipped>>

\* What an attempt leaves behind in memory: nothing.
Idle ==
  /\ run' = Opened(NoCheckpoint, 0, None) /\ tracker' = NewTracker(None)
  /\ load' = Loads("report", 0)
  /\ events' = <<>> /\ copies' = <<>>
  /\ cleared' = 0 /\ acked' = 0 /\ loadDone' = 0

\* A crash, a stop, or a connection that breaks: what was not stored is gone.
\* An attempt does not end between the first position and the first chunk.
MayEnd == load.pc \in {"report", "finished"} \/ progress.stored
Ends ==
  /\ mode = "up" /\ MayEnd /\ attempts < setup.attempts
  /\ mode' = "down"
  /\ Idle
  /\ UNCHANGED <<sourceVars, attempts, target, ckpt, progress, ghostVars, skipped>>

\* The address moves to the other server, which has every transaction.
FailsOver ==
  /\ server = "A" /\ setup.second # 0 /\ began # -1
  /\ mode = "down" \/ (mode = "up" /\ MayEnd)
  /\ attempts < setup.attempts
  /\ server' = "B"
  /\ mode' = "down"
  /\ Idle
  /\ UNCHANGED <<setup, db, hist, binlog, head, attempts, target, ckpt, progress, ghostVars, skipped>>

----------------------------------------------------------------------------
(* The stream.                                                             *)

Log == binlog[server]

\* The server leaves out what the dump command said was consumed.
Sends(e) == IF run.gtids # None THEN ~Consumed(run.gtids, hist[e.txn].gtid, setup.mariadb)
            ELSE Coordinate(e) > run.from
ToSend == {i \in run.sent + 1 .. Len(Log) : Sends(Log[i])}
NextSent == Min(ToSend)
Serving == IF ToSend = {} THEN head[server].file ELSE Log[NextSent].file

Streams == mode = "up" /\ Len(events) < QueueCap

\* ROTATE: the server says which file follows, and opens every dump with it.  The
\* file the stream believes it is in already has moved nothing.
Rotate ==
  run' = IF Serving = run.file THEN [run EXCEPT !.in = Serving]
         ELSE [run EXCEPT !.in = Serving, !.file = Serving, !.pos = Start, !.registered = {}]

StreamRotates ==
  /\ Streams /\ run.in # Serving
  /\ Rotate
  /\ UNCHANGED <<sourceVars, mode, attempts, tracker, load, events, copies, engineVars,
                 ckpt, progress, ghostVars, skipped>>

\* end_pos: an event that states no position is counted from the one before it.
EndPos(e) == IF e.log_pos = 0 THEN run.pos + 1 ELSE e.log_pos

RowEvent(key, val, ver) == [ev |-> "row", op |-> [id |-> key, val |-> val, ver |-> ver]]
CommitEvent(ver, txns) == [ev |-> "commit", pos |-> ver, txns |-> txns]

\* A child row names the parent to read again: by its last image for an embedded
\* row, by both for an aggregate.  A row of a many-to-many relation's child table
\* names only itself.
Named(e) ==
  LET now == IF e.change.kind = "delete" /\ e.change.table = "child" THEN e.was ELSE e.change.key
  IN  (IF setup.embed = "aggregates" THEN {now, e.was} ELSE {now}) \ {0}
NamesThrough(e) == setup.embed = "through" /\ e.change.table = "child"

HeldChange(e) == [key |-> e.change.key, row |-> IF e.change.kind = "upsert" THEN e.txn ELSE Absent]

Held(r) == Len(r.held) + Cardinality(r.named) + Cardinality(r.through)

\* resolve_through and parents_through: the parents the junction knows now.
Linked(r) == {key \in Ids : \E kid \in r.through : <<key, kid>> \in db.links}

\* keys_needing_refetch: a parent whose own row is in the group is not read again,
\* and one that is gone emits nothing.
Refetched(r) ==
  LET covered == {r.held[i].key : i \in DOMAIN r.held}
  IN  {key \in (r.named \cup Linked(r)) \ covered : db.parent[key] # Absent}

\* flush_pending: what the group holds, each document with the rows embedded in
\* it now, all at one position.
Flushed(r, ver) ==
  [i \in DOMAIN r.held |->
     RowEvent(r.held[i].key,
              IF r.held[i].row = Absent THEN Absent ELSE Document(r.held[i].row, Embedded(db, r.held[i].key)), ver)]
  \o SetToSeq({RowEvent(key, Wanted(key), ver) : key \in Refetched(r)})

Emptied(r) == [r EXCEPT !.held = <<>>, !.named = {}, !.through = {}]

\* The next event of the dump, once the stream has been told its file.
Next1 == Log[NextSent]
Receives(type) == Streams /\ ToSend # {} /\ LET e == Next1 IN e.type = type /\ run.in = e.file
Moved == [run EXCEPT !.sent = NextSent, !.pos = EndPos(Next1)]
\* token_at: the coordinate in the attempt's generation.
TokenOf(r) == r.base + Coordinate(r)
Passed(r) == [r EXCEPT !.passed = @ \cup {Next1.txn}]
StreamUnchanged ==
  UNCHANGED <<sourceVars, mode, attempts, load, copies, engineVars, ckpt, progress, ghostVars>>

\* The GTID is noted at the position of the event, which a checkpoint of an
\* earlier group does not reach.  One the reader cannot decode ends the keeping.
StreamsGtid ==
  /\ Receives("gtid")
  /\ run' = Moved
  /\ tracker' = IF ~setup.gtids THEN tracker
                ELSE IF setup.tagged THEN MarkIncomplete(tracker)
                ELSE Record(tracker, TokenOf(Moved), hist[Next1.txn].gtid)
  /\ UNCHANGED <<events, skipped>>
  /\ StreamUnchanged

\* Mutant: a layout that disagrees with the cached one is not read again.
ResolvedOnce(e) == IF run.cache = 0 THEN db.layout ELSE run.cache

\* SchemaCache::get, and once more when the number of columns disagrees.
Resolved(e) == IF run.cache = e.layout THEN run.cache ELSE db.layout

\* TABLE_MAP: rows of a layout the catalog no longer has are left out.
StreamsTableMap ==
  /\ Receives("table_map")
  /\ run' = IF Next1.table # "parent" THEN [Moved EXCEPT !.registered = @ \cup {Next1.table}]
            ELSE [Moved EXCEPT !.cache = Resolved(Next1),
                               !.registered = IF Resolved(Next1) = Next1.layout THEN @ \cup {"parent"}
                                              ELSE @ \ {"parent"}]
  /\ UNCHANGED <<tracker, events, skipped>>
  /\ StreamUnchanged

\* A row of the embedded table names its parents, a row of a table that embeds is
\* held for the group's reads, any other goes out at its own position.
Collected(e, r) ==
  CASE NamesThrough(e)           -> [r EXCEPT !.through = @ \cup {e.change.kid}]
    [] e.change.table # "parent" -> [r EXCEPT !.named = @ \cup Named(e)]
    [] OTHER                     -> [r EXCEPT !.held = Append(@, HeldChange(e))]

StreamsRows ==
  /\ Receives("rows")
  /\ IF Next1.change.table \notin run.registered
       THEN /\ run' = Moved
            /\ skipped' = skipped \cup {<<Next1.txn, Next1.change.key>>}
            /\ UNCHANGED events
       ELSE LET r == Collected(Next1, Moved)
                full == setup.embed = "none" \/ Held(r) >= FlushRows
            IN  /\ run' = IF full THEN Emptied(r) ELSE r
                /\ events' = IF full THEN events \o Flushed(r, TokenOf(Moved)) ELSE events
                /\ UNCHANGED skipped
  /\ UNCHANGED tracker
  /\ StreamUnchanged

\* QUERY: a TRUNCATE is passed on, and a statement that is seen to change a layout
\* drops what is known of them.
StreamsQuery ==
  /\ Receives("query")
  /\ LET kind == Next1.change.kind IN
       /\ events' = IF kind = "truncate" THEN Append(events, [ev |-> "truncate", ver |-> TokenOf(Moved)]) ELSE events
       /\ run' = Passed(IF kind = "alter" THEN [Moved EXCEPT !.cache = 0, !.registered = {}] ELSE Moved)
  /\ UNCHANGED <<tracker, skipped>>
  /\ StreamUnchanged

Closing(r, ver) == Flushed(r, ver) \o <<CommitEvent(ver, r.passed)>>

\* XID: what is held is resolved, ahead of the boundary.
StreamsXid ==
  /\ Receives("xid")
  /\ events' = events \o Closing(Passed(Moved), TokenOf(Moved))
  /\ run' = Emptied(Passed(Moved))
  /\ UNCHANGED <<tracker, skipped>>
  /\ StreamUnchanged

\* Mutant: a heartbeat carries no data and is passed over.
HeartbeatEvent(r) == <<>>

\* The boundary a heartbeat stands for.
IdleEvent(r) == <<CommitEvent(TokenOf(r), r.passed)>>

\* HEARTBEAT, when there is nothing to send: only its position is of interest.  One
\* that would repeat the last is left out.
StreamsHeartbeat ==
  /\ Streams /\ ToSend = {} /\ run.in = Serving
  /\ LET r == [run EXCEPT !.pos = IF head[server].pos > @ THEN head[server].pos ELSE @]
     IN  /\ run.beat # TokenOf(r)
         /\ run' = [r EXCEPT !.beat = TokenOf(r)]
         /\ events' = events \o IdleEvent(r)
  /\ UNCHANGED <<tracker, skipped>>
  /\ StreamUnchanged

StreamStep ==
  \/ StreamRotates \/ StreamsGtid \/ StreamsTableMap \/ StreamsRows
  \/ StreamsQuery \/ StreamsXid \/ StreamsHeartbeat

----------------------------------------------------------------------------
(* The load beside it, a chunk of one row at a time in the order of the    *)
(* keys.                                                                   *)

LoadUnchanged ==
  UNCHANGED <<sourceVars, mode, attempts, run, tracker, events, engineVars, ckpt, ghostVars, skipped>>

\* The position is read ahead of the chunk and is the version of its rows.
LoadReadsPosition ==
  /\ mode = "up" /\ load.pc = "position"
  /\ load' = [load EXCEPT !.pc = "chunk", !.version = run.base + Coordinate(head[server])]
  /\ UNCHANGED <<copies, progress>>
  /\ LoadUnchanged

\* chunk_statement.
LoadReadsChunk ==
  /\ mode = "up" /\ load.pc = "chunk"
  /\ LET rest == {key \in Ids : key > load.after /\ db.parent[key] # Absent}
     IN  load' = [load EXCEPT !.pc = "attach", !.key = IF rest = {} THEN 0 ELSE Min(rest),
                              !.row = IF rest = {} THEN Absent ELSE db.parent[Min(rest)]]
  /\ UNCHANGED <<copies, progress>>
  /\ LoadUnchanged

\* attach_to_chunk is a read of its own; the rows, then the mark.
LoadSends ==
  /\ mode = "up" /\ load.pc = "attach"
  /\ load' = [load EXCEPT !.pc = "wait", !.mark = @ + 1]
  /\ copies' = copies
       \o (IF load.key = 0 THEN <<>>
           ELSE <<RowEvent(load.key, Document(load.row, Embedded(db, load.key)), load.version)>>)
       \o <<[ev |-> "mark", mark |-> load.mark + 1]>>
  /\ UNCHANGED progress
  /\ LoadUnchanged

ChunkIsWritten == loadDone >= load.mark

\* The mark is back: the progress document names the last key, or the end of a
\* table that had no further row.
LoadRecords ==
  /\ mode = "up" /\ load.pc = "wait" /\ ChunkIsWritten
  /\ progress' = [stored |-> TRUE, after |-> load.key, finished |-> load.key = 0]
  /\ load' = [load EXCEPT !.pc = IF load.key = 0 THEN "clear" ELSE "position", !.after = load.key]
  /\ UNCHANGED copies
  /\ LoadUnchanged

\* The progress document is removed, or its removal fails and is logged; the
\* engine is told that no copied row follows.
LoadFinishes ==
  /\ mode = "up" /\ load.pc \in {"clear", "report"}
  /\ progress' \in IF load.pc = "clear" THEN {NoProgress, progress} ELSE {progress}
  /\ copies' = Append(copies, [ev |-> "finished"])
  /\ load' = [load EXCEPT !.pc = "finished"]
  /\ LoadUnchanged

LoadStep == LoadReadsPosition \/ LoadReadsChunk \/ LoadSends \/ LoadRecords \/ LoadFinishes

----------------------------------------------------------------------------
(* The engine and the sink.                                                *)

\* A copied row that a TRUNCATE has cleared since is dropped.
Written(op) == IF op.val # Absent /\ cleared > op.ver THEN target ELSE Write(target, <<op>>, {1})

EngineTakesStreamed ==
  /\ mode = "up" /\ events # <<>>
  /\ LET e == Head(events) IN
       CASE e.ev = "row" ->
              /\ target' = Written(e.op)
              /\ UNCHANGED <<cleared, acked, done>>
         [] e.ev = "truncate" ->
              /\ target' = Truncate(target, e.ver, Ids)
              /\ cleared' = IF e.ver > cleared THEN e.ver ELSE cleared
              /\ UNCHANGED <<acked, done>>
         [] e.ev = "commit" ->
              /\ acked' = e.pos
              /\ done' = done \cup e.txns
              /\ UNCHANGED <<cleared, target>>
  /\ events' = Tail(events)
  /\ UNCHANGED <<sourceVars, mode, attempts, run, tracker, load, copies, loadDone, ckpt, progress, began, skipped>>

EngineTakesCopied ==
  /\ mode = "up" /\ copies # <<>>
  /\ LET e == Head(copies) IN
       /\ target' = IF e.ev = "row" THEN Written(e.op) ELSE target
       /\ cleared' = IF e.ev = "row" THEN cleared ELSE 0
       /\ loadDone' = IF e.ev = "mark" THEN e.mark ELSE loadDone
  /\ copies' = Tail(copies)
  /\ UNCHANGED <<sourceVars, mode, attempts, run, tracker, load, events, acked, ckpt, progress, ghostVars, skipped>>

\* The checkpoint task stores the acknowledged position, rendered with the GTIDs
\* that it covers.
StoresCheckpoint ==
  /\ mode = "up" /\ acked # 0 /\ acked # StoredToken(ckpt)
  /\ LET folded == Folded(tracker, acked, setup.mariadb)
     IN  /\ tracker' = folded
         /\ ckpt' = [file |-> (acked - run.base) \div FileSpan, pos |-> (acked - run.base) % FileSpan,
                     base |-> run.base, gtid |-> IF setup.gtids THEN PositionOf(folded) ELSE None]
  /\ UNCHANGED <<sourceVars, mode, attempts, run, load, events, copies, engineVars, progress, ghostVars, skipped>>

----------------------------------------------------------------------------
Init ==
  /\ setup \in Setups
  /\ db = [parent |-> [key \in Ids |-> IF key \in setup.rows THEN 0 ELSE Absent], child |-> [kid \in Kids |-> Absent], links |-> {}, layout |-> 1]
  /\ server = "A" /\ hist = <<>>
  /\ binlog = [s \in Servers |-> <<>>]
  /\ head = [s \in Servers |-> [file |-> IF s = "A" THEN 3 ELSE setup.second, pos |-> Start]]
  /\ mode = "down" /\ attempts = 0
  /\ run = Opened(NoCheckpoint, 0, None) /\ tracker = NewTracker(None)
  /\ load = Loads("report", 0)
  /\ events = <<>> /\ copies = <<>>
  /\ cleared = 0 /\ acked = 0 /\ loadDone = 0
  /\ target = [key \in Ids |-> NoDoc]
  /\ ckpt = NoCheckpoint /\ progress = NoProgress
  /\ began = -1 /\ done = {} /\ skipped = {}

Next ==
  \/ Commits \/ LogRotates \/ FailsOver
  \/ ReadsBaseline \/ ReadsPosition \/ Resumes \/ Ends
  \/ StreamStep \/ LoadStep
  \/ EngineTakesStreamed \/ EngineTakesCopied \/ StoresCheckpoint

Spec == Init /\ [][Next]_vars

----------------------------------------------------------------------------
(* Properties.                                                             *)

\* The server whose log the stored coordinate is a position of.
Home == IF setup.second # 0 /\ (ckpt.base > 0 \/ (setup.second > 3 /\ ckpt.file >= setup.second)) THEN "B" ELSE "A"

\* The transactions up to the stored coordinate.
UpToCoordinate ==
  LET log == binlog[Home]
      stored == Coordinate(ckpt)
  IN  DOMAIN hist \ {log[i].txn : i \in {j \in DOMAIN log : Coordinate(log[j]) > stored}}

\* What a restart from the stored position would not be sent again.
Claimed ==
  CASE ckpt = NoCheckpoint -> {}
    [] ckpt.gtid = None    -> UpToCoordinate
    [] OTHER               -> {t \in DOMAIN hist : Consumed(ckpt.gtid, hist[t].gtid, setup.mariadb)}

Delivered == IF began = -1 THEN {} ELSE done \cup 1 .. began

\* Everything committed has gone through every stage of this attempt.
Quiet ==
  /\ mode = "up" /\ ToSend = {} /\ run.in = Serving
  /\ events = <<>> /\ copies = <<>> /\ load.pc = "finished"

\* The last transaction that changed a row of the indexed table.
LastChange(key) ==
  Max({0} \cup {t \in DOMAIN hist : \E j \in DOMAIN hist[t].changes :
                  LET c == hist[t].changes[j] IN c.table = "parent" /\ c.key = key /\ ~IsStatement(c)})

\* The index agrees with the database once everything has gone through: across
\* restarts, replays, a failover to a server that numbers its log lower or
\* higher, and the load beside them.  A row is excused whose last change was
\* left out because its layout was history.
Converged ==
  Quiet => \A key \in Ids : <<LastChange(key), key>> \in skipped \/ target[key].val = Wanted(key)

\* A row is left out only if a DDL has followed it: "these rows predate a DDL that
\* has already committed" (runner.rs).
SkippedIsHistory ==
  \A s \in skipped : \E t \in DOMAIN hist : t > s[1] /\ hist[t].changes[1].kind \in {"alter", "alter_unseen"}

\* The GTID set of the checkpoint is in its normal form and is the transactions
\* up to its coordinate, on whichever server it was written, and no other.
GtidsMatchCoordinate ==
  ckpt.gtid # None =>
    ckpt.gtid = PositionOfAll({<<"A", 1>>, <<"A", 3>>} \cup {hist[t].gtid : t \in UpToCoordinate})

\* The pipeline implements AtLeastOnce: a restart leaves out only transactions the
\* target was given, by GTID or by coordinate, and never comes to ask again for
\* one it has left out.
Promise == INSTANCE AtLeastOnce WITH committed <- Len(hist), delivered <- Delivered, claimed <- Claimed
ImplementsAtLeastOnce == Promise!Spec

\* A source that has gone idle is claimed to its end: once its heartbeat is through
\* and the acknowledged position stored, no transaction is left to be sent again,
\* one without a closing XID included.
IdleIsClaimed ==
  Quiet /\ run.beat = TokenOf(run) /\ (acked = 0 \/ acked = StoredToken(ckpt)) => Claimed = DOMAIN hist
=============================================================================
