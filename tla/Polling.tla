------------------------------- MODULE Polling -------------------------------
(***************************************************************************)
(* A PostgreSQL source without logical replication: a task that polls each *)
(* table by its timestamp column, and beside it the initial load, which is *)
(* run again by every attempt because there is no position to resume from. *)
(*                                                                         *)
(* Sources: crates/source/src/poll.rs (stream), crates/bin/src/backfill.rs *)
(* (the ranges of the load), crates/bin/src/run.rs (attempt_postgres and   *)
(* with_bulk_load_settings), crates/engine/src/lib.rs (run).               *)
(*                                                                         *)
(* A polled row has no version: its write is taken whatever the index      *)
(* holds, and the store counts the version up by one.  A copied row        *)
(* carries the log position read before its range, and loses against a     *)
(* higher version.  One request is open at a time (write_concurrency = 1)  *)
(* and no request of an attempt lands after its end.  The timestamp column *)
(* rises with every change, as the mode requires.                          *)
(***************************************************************************)
EXTENDS Integers, SequencesExt

CONSTANTS
  Tables,       \* the tables of the source, in the order of the configuration
  Rows,         \* rows, each a pair of a table and a key
  Initial,      \* the rows that are there at the start, oldest first
  PageSize,     \* [source] poll_page_size
  Workers,      \* [source] load_workers
  RowsPerBoundary, \* ROWS_PER_BOUNDARY: copied rows between two boundaries
  BatchSize,    \* [engine] batch_size
  WalPerChange, \* how far a change, or the time between two attempts, moves the log, at least
  MaxChanges,   \* bound: changes of the tables
  MaxRestarts   \* bound: attempts after the first

Table == ToSet(Tables)

ASSUME PollingAssumption ==
  /\ Tables # <<>>
  /\ Rows \subseteq Table \X Nat /\ Initial \in Seq(Rows)
  /\ {PageSize, Workers, RowsPerBoundary, BatchSize} \subseteq Nat \ {0}
  /\ {WalPerChange, MaxChanges, MaxRestarts} \subseteq Nat

VARIABLES
  rows,      \* rows[r]: the stamp of its last change (0: no row), and whether it is marked deleted
  clock,     \* the newest stamp
  docs,      \* docs[r]: the stamp of the body (0: no document), and the stored version
  refresh,   \* refresh[t]: the refresh_interval of the table's index
  progress,  \* progress[t]: the stored load progress
  watermark, \* watermark[t]: the watermark of the polling task, 0 for none
  base,      \* base[t]: what it was when the attempt started
  poll,      \* the polling task
  load,      \* the load task
  saved,     \* BulkLoadSettings
  events,    \* the polling task's channel
  copyq,     \* the load's channel
  buffer,    \* txn_buffer
  commands,  \* the command channel
  loadDone,  \* the highest mark reported to the load
  missed,    \* rows whose last change nothing is going to bring to the index
  restarts   \* attempts after the first

tableVars == <<rows, clock>>
storeVars == <<docs, refresh, progress>>
pollVars == <<watermark, base, poll>>
loadVars == <<load, saved>>
sinkVars == <<commands, loadDone>>
vars == <<tableVars, storeVars, pollVars, loadVars, events, copyq, buffer, sinkVars, missed, restarts>>

TableOf(r) == r[1]
KeyOf(r) == r[2]
RowsOf(t) == {r \in Rows : TableOf(r) = t}
Stored(t) == {r \in RowsOf(t) : rows[r].stamp > 0}

\* The members of S, lowest rank first.
Ordered(S, Rank(_)) ==
  [i \in 1..Cardinality(S) |->
     CHOOSE x \in S : Cardinality({y \in S : Rank(y) < Rank(x)}) = i - 1]

-----------------------------------------------------------------------------
(* The ranges of the load.                                                 *)

Open == -1  \* a range without an end on this side

\* What key_bounds may answer: it cuts at sampled keys of the table, each once
\* and in order, at none when the table is small.
KeyBounds(t) ==
  {Ordered(s, LAMBDA k : k) : s \in SUBSET {KeyOf(r) : r \in Stored(t)}}

\* The ranges a list of boundaries cuts, open at both ends.
RangesFromBounds(bounds) ==
  [i \in 1..(Len(bounds) + 1) |->
     [from |-> IF i = 1 THEN Open ELSE bounds[i - 1],
      to   |-> IF i = Len(bounds) + 1 THEN Open ELSE bounds[i]]]

\* Mutant: the lower end does not belong to the range.
WithinExclusive(key, range) ==
  /\ range.from # Open => key > range.from
  /\ range.to # Open => key < range.to

\* KeyRange::predicate: closed below, open above.
Within(key, range) ==
  /\ range.from # Open => key >= range.from
  /\ range.to # Open => key < range.to

NoProgress == [bounds |-> <<>>, done |-> -1, finished |-> FALSE]

\* The row is in a range that the progress document says is written.
Claimed(r) ==
  LET p == progress[TableOf(r)]
  IN  p.finished \/ \E i \in 1..p.done : Within(KeyOf(r), RangesFromBounds(p.bounds)[i])

\* The load of this attempt has passed the row, or will never come to it.
Passed(r) ==
  \/ Claimed(r)
  \/ load.pc \in {"clear", "restore", "finished"}
  \/ /\ load.pc # "begin"
     /\ \/ \E i \in 1..(load.at - 1) : Tables[i] = TableOf(r)
        \/ /\ load.pc \in {"read", "wait"} /\ Tables[load.at] = TableOf(r)
           /\ \E i \in (1..load.upto) \ load.reading :
                Within(KeyOf(r), RangesFromBounds(progress[TableOf(r)].bounds)[i])

-----------------------------------------------------------------------------
(* The source.                                                             *)

\* Nothing brings this change: the polling task's watermark is still to be
\* read and will cover it while the load has passed the row, or a copy of the
\* row as it was is on its way and will be written over the polled one.
Escapes(r) ==
  \/ poll.pc = "start" /\ ~(\E i \in 1..(poll.at - 1) : Tables[i] = TableOf(r)) /\ Passed(r)
  \/ \E i \in DOMAIN copyq : copyq[i].kind = "row" /\ copyq[i].id = r

\* A transaction inserts, updates, marks or unmarks a row, with a new stamp.
Change(r, deleted) ==
  /\ clock < Len(Initial) + MaxChanges
  /\ deleted => rows[r].stamp > 0 /\ ~rows[r].deleted
  /\ clock' = clock + 1
  /\ rows' = [rows EXCEPT ![r] = [stamp |-> clock + 1, deleted |-> deleted]]
  /\ missed' = IF Escapes(r) THEN missed \cup {r} ELSE missed \ {r}
  /\ UNCHANGED <<storeVars, pollVars, loadVars, events, copyq, buffer, sinkVars, restarts>>

-----------------------------------------------------------------------------
(* The polling task.                                                       *)

Stamps(t) == {rows[r].stamp : r \in Stored(t)}

\* watermark_query: MAX over the column, none for an empty table.
WatermarkQuery(t) == IF Stored(t) = {} THEN 0 ELSE Max(Stamps(t))

\* page_query: the rows above the watermark, oldest first, up to a page.
PageQuery(t, last) ==
  LET newer == {r \in Stored(t) : rows[r].stamp > last}
      page  == Ordered(newer, LAMBDA r : rows[r].stamp)
  IN  SubSeq(page, 1, IF Len(page) < PageSize THEN Len(page) ELSE PageSize)

Unversioned == -1

\* A row event; a marked row is a delete, which is the write of no body.
RowEvent(r, ver) ==
  [kind |-> "row", id |-> r, val |-> IF rows[r].deleted THEN 0 ELSE rows[r].stamp, ver |-> ver]

Boundary == [kind |-> "boundary"]

\* plan_cycle: the changes of a page, and the watermark it leaves.
Changes(page) == [i \in DOMAIN page |-> RowEvent(page[i], Unversioned)]
Watermark(last, page) == Max({last} \cup {rows[page[i]].stamp : i \in DOMAIN page})

\* Where the next table's turn is, after the one at position i.
Following(i) == IF i = Len(Tables) THEN 1 ELSE i + 1

\* The task starts by reading the watermark of each table.
ReadWatermark ==
  /\ poll.pc = "start"
  /\ LET t == Tables[poll.at] IN
       /\ watermark' = [watermark EXCEPT ![t] = WatermarkQuery(t)]
       /\ base' = [base EXCEPT ![t] = WatermarkQuery(t)]
  /\ poll' = [poll EXCEPT !.at = Following(poll.at),
                          !.pc = IF poll.at = Len(Tables) THEN "poll" ELSE "start"]
  /\ UNCHANGED <<tableVars, storeVars, loadVars, events, copyq, buffer, sinkVars, missed, restarts>>

\* One table of a cycle; the last one ends the cycle with a boundary, when the
\* cycle sent anything.
PollTable ==
  /\ poll.pc = "poll"
  /\ LET t     == Tables[poll.at]
         page  == PageQuery(t, watermark[t])
         ends  == poll.at = Len(Tables)
         sent  == poll.sent \/ page # <<>>
     IN  /\ events' = events \o Changes(page) \o (IF ends /\ sent THEN <<Boundary>> ELSE <<>>)
         /\ watermark' = [watermark EXCEPT ![t] = Watermark(watermark[t], page)]
         /\ poll' = [poll EXCEPT !.at = Following(poll.at), !.sent = sent /\ ~ends]
  /\ UNCHANGED <<tableVars, storeVars, base, loadVars, copyq, buffer, sinkVars, missed, restarts>>

-----------------------------------------------------------------------------
(* The load, between suspending the refresh of the indices and putting it  *)
(* back.                                                                   *)

\* Mutant: whatever the index holds is put back.
SavedAsFound(setting) == setting

\* What begin_bulk_load sets aside: a refresh that is suspended already was
\* left so by a load that was interrupted, and stands for the default.
SavedSetting(setting) == IF setting = "suspended" THEN "default" ELSE setting

\* Every attempt loads: under polling resume_position knows no position to
\* resume at.  The settings of all indices are read, then suspended.
BeginLoad ==
  /\ load.pc = "begin"
  /\ load' = [load EXCEPT !.pc = "open"]
  /\ saved' = [t \in Table |-> SavedSetting(refresh[t])]
  /\ refresh' = [t \in Table |-> "suspended"]
  /\ UNCHANGED <<tableVars, docs, progress, pollVars, events, copyq, buffer, sinkVars, missed, restarts>>

\* The load goes on to the next table, or to clearing what it stored.
NextTable ==
  load' = [load EXCEPT !.at = Following(load.at), !.upto = 0, !.reading = {},
                       !.pc = IF load.at = Len(Tables) THEN "clear" ELSE "open"]

\* The wave of ranges after the first `done`, one per reader.
NextWave(bounds, done) ==
  LET last == Min({done + Workers, Len(bounds) + 1})
  IN  load' = [load EXCEPT !.pc = "read", !.upto = last, !.reading = (done + 1)..last]

\* A table is taken up where its progress document says; without one the cuts
\* are made and stored first.
OpenTable ==
  /\ load.pc = "open"
  /\ LET t == Tables[load.at] IN
       \/ /\ progress[t].finished
          /\ NextTable /\ UNCHANGED progress
       \/ /\ progress[t] # NoProgress /\ ~progress[t].finished
          /\ NextWave(progress[t].bounds, progress[t].done) /\ UNCHANGED progress
       \/ /\ progress[t] = NoProgress
          /\ \E bounds \in KeyBounds(t) :
               /\ progress' = [progress EXCEPT ![t] =
                                 [bounds |-> bounds, done |-> 0, finished |-> FALSE]]
               /\ NextWave(bounds, 0)
  /\ UNCHANGED <<tableVars, docs, refresh, pollVars, saved, events, copyq, buffer,
                 sinkVars, missed, restarts>>

\* pg_current_wal_lsn().
CurrentLsn == WalPerChange * (clock + restarts)

\* The rows a COPY of the range yields: marked ones are left out.
Copied(t, range) ==
  Ordered({r \in Stored(t) : ~rows[r].deleted /\ Within(KeyOf(r), range)}, KeyOf)

\* The rows of a range, with a boundary after every so many of them.
RowsAndBoundaries(ids) ==
  FlattenSeq([i \in DOMAIN ids |->
    <<RowEvent(ids[i], CurrentLsn)>>
    \o (IF i % RowsPerBoundary = 0 THEN <<Boundary>> ELSE <<>>)])

\* A reader copies one range of the wave; behind the last one goes the mark.
ReadRange ==
  /\ load.pc = "read"
  /\ \E i \in load.reading :
       LET t    == Tables[load.at]
           last == load.reading = {i}
       IN  /\ copyq' = copyq
                        \o RowsAndBoundaries(Copied(t, RangesFromBounds(progress[t].bounds)[i]))
                        \o (IF last THEN <<[kind |-> "mark", mark |-> load.mark + 1]>> ELSE <<>>)
           /\ load' = [load EXCEPT !.reading = @ \ {i},
                                   !.pc = IF last THEN "wait" ELSE "read",
                                   !.mark = IF last THEN @ + 1 ELSE @]
  /\ UNCHANGED <<tableVars, storeVars, pollVars, saved, events, buffer, sinkVars, missed, restarts>>

\* The wave is written: its progress is stored, and behind the last wave that
\* the table is finished.
StoreProgress ==
  /\ load.pc = "wait" /\ loadDone >= load.mark
  /\ LET t    == Tables[load.at]
         last == load.upto = Len(progress[t].bounds) + 1
     IN  /\ progress' = [progress EXCEPT ![t].done = load.upto, ![t].finished = last]
         /\ IF last THEN NextTable ELSE NextWave(progress[t].bounds, load.upto)
  /\ UNCHANGED <<tableVars, docs, refresh, pollVars, saved, events, copyq, buffer,
                 sinkVars, missed, restarts>>

\* The progress documents are removed; one whose removal fails stays.
ClearProgress ==
  /\ load.pc = "clear"
  /\ \E gone \in SUBSET Table :
       progress' = [t \in Table |-> IF t \in gone THEN NoProgress ELSE progress[t]]
  /\ load' = [load EXCEPT !.pc = "restore"]
  /\ UNCHANGED <<tableVars, docs, refresh, pollVars, saved, events, copyq, buffer,
                 sinkVars, missed, restarts>>

\* The refresh of the indices is put back.  A request for it that fails is
\* logged for the operator to repeat and is not modelled.
Restore ==
  /\ load.pc = "restore"
  /\ refresh' = saved
  /\ load' = [load EXCEPT !.pc = "finished"]
  /\ UNCHANGED <<tableVars, docs, progress, pollVars, saved, events, copyq, buffer,
                 sinkVars, missed, restarts>>

-----------------------------------------------------------------------------
(* The engine and the sink.                                                *)

\* Mutant: a boundary is always held.
AlwaysHolds(more) == TRUE

\* A boundary may be held while another event waits, and no longer.
MayHold(more) == more

\* The engine's handling of an event, with whether another one is waiting.
Handle(event, more) ==
  LET write(batch) == [kind |-> "write", ops |-> batch]
      flushed == IF buffer = <<>> THEN commands ELSE Append(commands, write(buffer))
  IN  \/ /\ event.kind = "row"
         /\ IF Len(buffer) + 1 >= BatchSize
              THEN buffer' = <<>> /\ commands' = Append(commands, write(Append(buffer, event)))
              ELSE buffer' = Append(buffer, event) /\ UNCHANGED commands
      \/ /\ event.kind = "boundary"
         /\ \/ MayHold(more) /\ UNCHANGED <<buffer, commands>>
            \/ buffer' = <<>> /\ commands' = flushed
      \/ /\ event.kind = "mark"
         /\ buffer' = <<>> /\ commands' = Append(flushed, event)

TakePolled ==
  /\ events # <<>>
  /\ events' = Tail(events)
  /\ Handle(Head(events), Len(events) > 1 \/ copyq # <<>>)
  /\ UNCHANGED <<tableVars, storeVars, pollVars, loadVars, copyq, loadDone, missed, restarts>>

TakeCopied ==
  /\ copyq # <<>>
  /\ copyq' = Tail(copyq)
  /\ Handle(Head(copyq), Len(copyq) > 1 \/ events # <<>>)
  /\ UNCHANGED <<tableVars, storeVars, pollVars, loadVars, events, loadDone, missed, restarts>>

\* What the store does with one write.
TakesOp(doc, op) == op.ver = Unversioned \/ op.ver >= doc.ver

Put(doc, op) ==
  IF TakesOp(doc, op)
    THEN [val |-> op.val, ver |-> IF op.ver = Unversioned THEN doc.ver + 1 ELSE op.ver]
    ELSE doc

\* The writes of a request that are executed, in order.
Bulk(ops) ==
  [r \in Rows |-> FoldLeft(LAMBDA doc, op : IF op.id = r THEN Put(doc, op) ELSE doc, docs[r], ops)]

\* The oldest command takes effect.
Execute ==
  /\ commands # <<>>
  /\ commands' = Tail(commands)
  /\ \/ /\ Head(commands).kind = "write"
        /\ docs' = Bulk(Head(commands).ops) /\ UNCHANGED loadDone
     \/ /\ Head(commands).kind = "mark"
        /\ loadDone' = Head(commands).mark /\ UNCHANGED docs
  /\ UNCHANGED <<tableVars, refresh, progress, pollVars, loadVars, events, copyq, buffer,
                 missed, restarts>>

-----------------------------------------------------------------------------
(* Attempts.                                                               *)

\* What the index should show of a row: nothing is said of a row that was
\* marked before the polling task's first watermark.
Shows(r) ==
  IF rows[r].deleted THEN rows[r].stamp > base[TableOf(r)] => docs[r].val = 0
  ELSE docs[r].val = rows[r].stamp

IdlePoll == [pc |-> "start", at |-> 1, sent |-> FALSE]
IdleLoad == [pc |-> "begin", at |-> 1, upto |-> 0, reading |-> {}, mark |-> 0]

\* An attempt ends anywhere, by an error, a crash or a stop, and another one
\* starts.  What the load will not read again stays as the index has it.
NewAttempt ==
  /\ restarts < MaxRestarts
  /\ restarts' = restarts + 1
  /\ poll' = IdlePoll /\ load' = IdleLoad
  /\ watermark' = [t \in Table |-> 0] /\ base' = [t \in Table |-> 0]
  /\ saved' = [t \in Table |-> "default"]
  /\ events' = <<>> /\ copyq' = <<>> /\ buffer' = <<>>
  /\ commands' = <<>> /\ loadDone' = 0
  /\ missed' = {r \in Rows : Claimed(r) /\ ~Shows(r)}
  /\ UNCHANGED <<tableVars, storeVars>>

-----------------------------------------------------------------------------
InitialStamp(r) == IF r \in ToSet(Initial) THEN CHOOSE i \in DOMAIN Initial : Initial[i] = r ELSE 0

Init ==
  /\ rows = [r \in Rows |-> [stamp |-> InitialStamp(r), deleted |-> FALSE]]
  /\ clock = Len(Initial)
  /\ docs = [r \in Rows |-> [val |-> 0, ver |-> 0]]
  /\ refresh = [t \in Table |-> "set"]
  /\ progress = [t \in Table |-> NoProgress]
  /\ watermark = [t \in Table |-> 0] /\ base = [t \in Table |-> 0]
  /\ poll = IdlePoll /\ load = IdleLoad
  /\ saved = [t \in Table |-> "default"]
  /\ events = <<>> /\ copyq = <<>> /\ buffer = <<>>
  /\ commands = <<>> /\ loadDone = 0
  /\ missed = {} /\ restarts = 0

PollStep == ReadWatermark \/ PollTable

LoadStep ==
  \/ BeginLoad \/ OpenTable \/ ReadRange \/ StoreProgress \/ ClearProgress \/ Restore

EngineStep == TakePolled \/ TakeCopied

Next ==
  \/ \E r \in Rows, deleted \in BOOLEAN : Change(r, deleted)
  \/ PollStep \/ LoadStep \/ EngineStep
  \/ Execute
  \/ NewAttempt

\* The runtime polls a task that can run, one cycle follows another, and the
\* retries of a request are bounded, so that it is executed.  The load, the
\* engine and the sink need one condition between them: each of their steps
\* uses up work that is there, and only a cycle brings more.
Fairness == WF_vars(PollStep) /\ WF_vars(LoadStep \/ EngineStep \/ Execute)

Spec == Init /\ [][Next]_vars /\ Fairness

-----------------------------------------------------------------------------
(* Properties.                                                             *)

\* Everything that was read has gone through, and there is nothing to read.
Drained ==
  /\ load.pc = "finished" /\ poll.pc = "poll" /\ ~poll.sent
  /\ events = <<>> /\ copyq = <<>> /\ buffer = <<>> /\ commands = <<>>
  /\ \A t \in Table : PageQuery(t, watermark[t]) = <<>>

\* Polling and the load together miss no row: once everything has gone through,
\* the index shows every row as it is and no row marked deleted since the
\* attempt started, whatever pages, ranges, waves, batches and restarts came in
\* between.  The rows in `missed` are excused: see Escapes and NewAttempt.
PolledIsApplied == Drained => \A r \in Rows \ missed : Shows(r)

\* Suspending the refresh of an index does not outlive the load that did it:
\* after a load that ended, no index is left without a refresh, even if an
\* earlier load was interrupted and left it so.
RefreshComesBack == load.pc = "finished" => \A t \in Table : refresh[t] # "suspended"

\* A backlog drains over the cycles: from some point on the index shows every
\* row that is not excused.
PollCatchesUp == <>[](\A r \in Rows \ missed : Shows(r))

=============================================================================
