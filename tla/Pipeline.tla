------------------------------ MODULE Pipeline ------------------------------
(***************************************************************************)
(* One pipeline: a PostgreSQL source with its replication slot, the change *)
(* stream and the initial load beside it, the engine task that merges the  *)
(* two into commands, and the sink side of Delivery.                       *)
(*                                                                         *)
(* Sources: crates/source/src/runner.rs (stream), crates/bin/src/          *)
(* backfill.rs (load), crates/engine/src/lib.rs (run), crates/bin/src/     *)
(* run.rs (attempt_postgres).                                              *)
(*                                                                         *)
(* The table has one row per id at most.  Transaction k's commit record    *)
(* starts at Ver(k), which pgoutput reports at BEGIN and the rows carry as *)
(* their version, and ends at End(k), the position its COMMIT carries and  *)
(* the write position the server reports afterwards.  The channels into    *)
(* the engine are fed asynchronously, so "an event is waiting" is a        *)
(* nondeterministic choice, and with it the preference for the stream and  *)
(* the rate limit of the load, which only decide what is waiting.          *)
(***************************************************************************)
EXTENDS Delivery

CONSTANTS
  TxnShapes,    \* the transactions the source may commit
  MaxTxns,      \* bound: transactions committed
  Waves,        \* the ranges of the load, wave by wave: a sequence of sets of ids
  BatchSize,    \* [engine] batch_size
  MaxRestarts,  \* bound: attempts after the first
  Null,         \* an unchanged TOASTed column that nothing completes
  SnapshotRace, \* whether a range's position may fall on or ahead of an unseen commit
  CrashBeforeProgress  \* whether an attempt may end before the load has stored anything

\* A row change of a transaction: an upsert of the whole row, an update whose
\* large column is unchanged and left out, a delete, or the table's TRUNCATE.
Change == [kind : {"upsert", "touch", "delete", "truncate"}, id : Ids]

ASSUME PipelineAssumption ==
  /\ TxnShapes \subseteq Seq(Change)
  /\ MaxTxns \in Nat /\ MaxRestarts \in Nat
  /\ Waves \in Seq(SUBSET Ids)
  /\ BatchSize \in Nat \ {0}
  /\ SnapshotRace \in BOOLEAN /\ CrashBeforeProgress \in BOOLEAN

VARIABLES
  wal,         \* the transactions committed, oldest first
  visible,     \* how many of them a new snapshot sees
  rows,        \* rows[k]: the table after k transactions (rows[0] at the start)
  slot,        \* the slot's confirmed position
  cur,         \* the next stream event: transaction, and 0 for BEGIN or its change
  buffer,      \* txn_buffer
  bufferPos,   \* the position on the last operation of txn_buffer, 0 for none
  txnOpen,     \* stream_txn_open
  pendingMark, \* pending_mark, 0 for none
  superseded,  \* superseded: the highest delete version per id, 0 for none
  cleared,     \* cleared: the highest truncate version, 0 for none
  loadRunning, \* LoadIntake::load_running
  copyq,       \* events of the load's channel not yet taken
  load,        \* the load task
  progress,    \* the stored load progress document
  orphans,     \* requests of a crashed attempt that may still reach the target
  applied,     \* operations that earlier attempts settled
  restarts,    \* crashes so far
  earlier,     \* the position earlier attempts left in the checkpoint document
  kept         \* the durable position a reconnect keeps until the attempt publishes one

engineVars == <<buffer, bufferPos, txnOpen, pendingMark, superseded, cleared, loadRunning>>
sourceVars == <<wal, visible, rows, slot>>
loadVars == <<load, progress>>
crashVars == <<orphans, applied, restarts, earlier, kept>>
taskVars == <<closed, accountVars, targetVars, ckptDocVars>>
vars == <<sent, taskVars, sourceVars, cur, engineVars, copyq, loadVars, crashVars>>

-----------------------------------------------------------------------------
(* The source database.                                                    *)

\* End(0) is where the slot was created.
Ver(k) == 2 * k
End(k) == 2 * k + 1

\* A row body: a stamp of the change that last wrote it, and one of the change
\* that last wrote its large column.
Body(c, big) == [c |-> c, big |-> big]

\* The bodies are the ones the transactions write: a row's own stamp, and the
\* large column's, which an update may take from another body or leave Null.
ASSUME BodiesAssumption ==
  /\ Body(<<0, 0>>, <<0, 0>>) \in Vals
  /\ \A v \in Vals : v = Body(v.c, v.big)
  /\ \A k \in 1 .. MaxTxns, t \in TxnShapes : \A j \in DOMAIN t :
       /\ Body(<<k, j>>, <<k, j>>) \in Vals /\ Body(<<k, j>>, Null) \in Vals
       /\ \A v \in Vals : Body(<<k, j>>, v.big) \in Vals

\* The body of id after the first j changes of transaction t (number k), given
\* the table before it.
Touched(before, t, k, j, id) ==
  LET S == {i \in 1 .. j : t[i].kind = "truncate" \/ t[i].id = id}
      W == {i \in S : t[i].kind # "touch"}
      Last(T) == CHOOSE i \in T : \A m \in T : m <= i
      base == IF W = {} THEN before[id]
              ELSE IF t[Last(W)].kind = "upsert" THEN Body(<<k, Last(W)>>, <<k, Last(W)>>)
              ELSE Absent
  IN  IF S = {} \/ base = Absent \/ t[Last(S)].kind # "touch" THEN base
      ELSE [base EXCEPT !.c = <<k, Last(S)>>]

Initial == [id \in Ids |-> Body(<<0, 0>>, <<0, 0>>)]

\* A transaction the table allows: an update finds its row.
Possible(t) ==
  \A j \in DOMAIN t :
    t[j].kind = "touch" => Touched(rows[Len(wal)], t, Len(wal) + 1, j - 1, t[j].id) # Absent

\* A commit is in the WAL and streamed from the moment it is written; a new
\* snapshot sees it only later (it is flushed, and in a synchronous cluster
\* waited for, before it becomes visible).
SourceCommits ==
  /\ Len(wal) < MaxTxns
  /\ visible = Len(wal)
  /\ \E t \in TxnShapes :
       /\ Possible(t)
       /\ wal' = Append(wal, t)
       /\ rows' = [k \in 0 .. Len(wal) + 1 |->
                     IF k <= Len(wal) THEN rows[k]
                     ELSE [id \in Ids |-> Touched(rows[Len(wal)], t, k, Len(t), id)]]
  /\ UNCHANGED <<sent, taskVars, visible, slot, cur, engineVars, copyq, loadVars, crashVars>>

BecomesVisible ==
  /\ visible < Len(wal)
  /\ visible' = visible + 1
  /\ UNCHANGED <<sent, taskVars, wal, rows, slot, cur, engineVars, copyq, loadVars, crashVars>>

\* The stored checkpoint, and the durable position: what this attempt stored and
\* published, and before that what the earlier ones left.  The first position an
\* attempt acknowledges is stored whatever the document holds, so it may go back.
Checkpoint == IF persisted # 0 THEN persisted ELSE earlier
SafePosition == IF durable # 0 THEN durable ELSE kept

\* Mutant: the confirmed position is not clamped to the durable one.
ConfirmSlotUnclamped ==
  /\ \E k \in cur.txn - 1 .. Len(wal) : End(k) > slot /\ slot' = End(k)
  /\ UNCHANGED <<sent, taskVars, wal, visible, rows, cur, engineVars, copyq, loadVars, crashVars>>

\* On a keepalive the source task confirms how far the server has sent, clamped
\* to the durable position.
ConfirmSlot ==
  /\ \E k \in cur.txn - 1 .. Len(wal) :
       LET safe == IF End(k) < SafePosition THEN End(k) ELSE SafePosition
       IN  safe > slot /\ slot' = safe
  /\ UNCHANGED <<sent, taskVars, wal, visible, rows, cur, engineVars, copyq, loadVars, crashVars>>

-----------------------------------------------------------------------------
(* The initial load: in each wave every range reads the current position,  *)
(* then copies its rows with that position as their version; the wave ends *)
(* with a mark, and its progress is stored once the mark is reported back. *)

AfterWave(n) == IF n = Len(Waves) THEN "finish" ELSE "read"

\* The ranges are cut and the progress document stored, or the stored one says
\* where to carry on.
StartTable ==
  /\ load.pc = "start"
  /\ progress' = [progress EXCEPT !.stored = TRUE]
  /\ load' = [load EXCEPT !.pc = IF progress.finished THEN "clear" ELSE AfterWave(progress.done),
                          !.wave = progress.done + 1]
  /\ UNCHANGED <<sent, taskVars, sourceVars, cur, engineVars, copyq, crashVars>>

\* pg_current_wal_lsn().  Under SnapshotRace the last commit may not be visible
\* yet, and the write position may be where the next commit record will start.
ReadPosition(id) ==
  /\ load.pc = "read"
  /\ id \in Waves[load.wave] /\ load.at[id] = 0
  /\ SnapshotRace \/ visible = Len(wal)
  /\ \E at \in {End(Len(wal))} \cup (IF SnapshotRace THEN {Ver(Len(wal) + 1)} ELSE {}) :
       load' = [load EXCEPT !.at[id] = at]
  /\ UNCHANGED <<sent, taskVars, sourceVars, cur, engineVars, copyq, progress, crashVars>>

\* A range's rows; every ROWS_PER_BOUNDARY rows a boundary follows.
CopyRange(id) ==
  /\ load.pc = "read"
  /\ id \in Waves[load.wave] /\ load.at[id] # 0 /\ id \notin load.copied
  /\ load' = [load EXCEPT !.copied = @ \cup {id}]
  /\ LET body == rows[visible][id]
         row  == [ev |-> "row", op |-> [id |-> id, val |-> body, ver |-> load.at[id]]]
     IN  copyq' \in IF body = Absent THEN {copyq}
                    ELSE {copyq \o <<row>>, copyq \o <<row, [ev |-> "boundary"]>>}
  /\ UNCHANGED <<sent, taskVars, sourceVars, cur, engineVars, progress, crashVars>>

SendMark ==
  /\ load.pc = "read"
  /\ load.copied = Waves[load.wave]
  /\ load' = [load EXCEPT !.pc = "wait", !.mark = @ + 1]
  /\ copyq' = Append(copyq, [ev |-> "mark", mark |-> load.mark + 1])
  /\ UNCHANGED <<sent, taskVars, sourceVars, cur, engineVars, progress, crashVars>>

\* Mutant: progress is stored without waiting for the mark to come back.
RecordProgressEarly ==
  /\ load.pc = "wait"
  /\ progress' = [progress EXCEPT !.done = load.wave]
  /\ load' = [load EXCEPT !.pc = AfterWave(load.wave),
                          !.wave = @ + 1,
                          !.at = [id \in Ids |-> 0],
                          !.copied = {}]
  /\ UNCHANGED <<sent, taskVars, sourceVars, cur, engineVars, copyq, crashVars>>

\* The wave's mark came back: the progress document claims the wave, and the
\* next wave begins or the table is finished.
RecordProgress ==
  /\ load.pc = "wait"
  /\ loadDone >= load.mark
  /\ progress' = [progress EXCEPT !.done = load.wave]
  /\ load' = [load EXCEPT !.pc = AfterWave(load.wave),
                          !.wave = @ + 1,
                          !.at = [id \in Ids |-> 0],
                          !.copied = {}]
  /\ UNCHANGED <<sent, taskVars, sourceVars, cur, engineVars, copyq, crashVars>>

FinishTable ==
  /\ load.pc = "finish"
  /\ progress' = [progress EXCEPT !.finished = TRUE]
  /\ load' = [load EXCEPT !.pc = "clear"]
  /\ UNCHANGED <<sent, taskVars, sourceVars, cur, engineVars, copyq, crashVars>>

\* Nothing is left to load, so the progress document is removed; a failure to
\* remove it is only logged.
NoProgress == [stored |-> FALSE, done |-> 0, finished |-> FALSE]

ClearProgress ==
  /\ load.pc = "clear"
  /\ progress' \in {NoProgress, progress}
  /\ load' = [load EXCEPT !.pc = "report"]
  /\ UNCHANGED <<sent, taskVars, sourceVars, cur, engineVars, copyq, crashVars>>

\* The engine is told that no copied row follows, loaded or skipped.
ReportLoaded ==
  /\ load.pc = "report"
  /\ copyq' = Append(copyq, [ev |-> "finished"])
  /\ load' = [load EXCEPT !.pc = "done"]
  /\ UNCHANGED <<sent, taskVars, sourceVars, cur, engineVars, progress, crashVars>>

-----------------------------------------------------------------------------
(* The engine task.                                                        *)

Batch(ops, pos) == [kind |-> "write", ops |-> ops, pos |-> pos]
Position(pos) == [kind |-> "position", ops |-> <<>>, pos |-> pos]
Mark(m) == [kind |-> "mark", ops |-> <<>>, pos |-> m]
Clear(ver) == [kind |-> "truncate", ops |-> <<>>, pos |-> ver]

Hand(cmds) == RoomFor(Len(cmds)) /\ sent' = sent \o cmds

Flushed == IF buffer = <<>> THEN <<>> ELSE <<Batch(buffer, bufferPos)>>

\* Mutant: a copied row that the stream has deleted since is not filtered.
DeadNever(op) == FALSE

\* A write the stream has already removed at a later position.
Dead(op) == op.val # Absent /\ (superseded[op.id] > op.ver \/ cleared > op.ver)

\* One row change, streamed or copied, as its document operation: dropped if it
\* is dead, remembered if it is a delete and a load is running, buffered, and
\* the buffer handed over as a piece once it reaches the batch size.
HandleRow(op) ==
  LET grown == IF Dead(op) THEN buffer ELSE Append(buffer, op)
      full  == Len(grown) >= BatchSize
  IN  /\ superseded' = IF loadRunning /\ op.val = Absent /\ op.ver > superseded[op.id]
                         THEN [superseded EXCEPT ![op.id] = op.ver] ELSE superseded
      /\ buffer' = IF full THEN <<>> ELSE grown
      /\ bufferPos' = IF full \/ ~Dead(op) THEN 0 ELSE bufferPos
      /\ Hand(IF full THEN <<Batch(grown, 0)>> ELSE <<>>)
      /\ UNCHANGED <<txnOpen, pendingMark, cleared, loadRunning>>

\* A COMMIT, a keepalive or, with position 0, a boundary of the load, which
\* carries no position and ends no transaction.  The position goes onto the last
\* buffered operation.
Stamp(pos) == IF pos > 0 THEN pos ELSE bufferPos
StaysOpen(pos) == txnOpen /\ pos = 0

\* Mutant: the position of a held buffer is passed on at once.
HoldCommitPublishing(pos) ==
  /\ buffer # <<>>
  /\ bufferPos' = Stamp(pos)
  /\ txnOpen' = StaysOpen(pos)
  /\ Hand(IF pos > 0 THEN <<Position(pos)>> ELSE <<>>)
  /\ UNCHANGED <<buffer, pendingMark, superseded, cleared, loadRunning>>

\* The buffer is held for company when another event is waiting.
HoldCommit(pos) ==
  /\ buffer # <<>>
  /\ bufferPos' = Stamp(pos)
  /\ txnOpen' = StaysOpen(pos)
  /\ Hand(<<>>)
  /\ UNCHANGED <<buffer, pendingMark, superseded, cleared, loadRunning>>

\* Mutant: an empty transaction or keepalive passes no position on.
FlushCommitSilent(pos) ==
  LET body == IF buffer # <<>> THEN <<Batch(buffer, Stamp(pos))>> ELSE <<>>
      held == IF StaysOpen(pos) \/ pendingMark = 0 THEN <<>> ELSE <<Mark(pendingMark)>>
  IN  /\ Hand(body \o held)
      /\ buffer' = <<>> /\ bufferPos' = 0
      /\ txnOpen' = StaysOpen(pos)
      /\ pendingMark' = IF StaysOpen(pos) THEN pendingMark ELSE 0
      /\ UNCHANGED <<superseded, cleared, loadRunning>>

\* Mutant: a mark that was held back is forgotten.
FlushCommitKeepsMark(pos) ==
  /\ Hand(IF buffer # <<>> THEN <<Batch(buffer, Stamp(pos))>>
          ELSE IF pos > 0 THEN <<Position(pos)>>
          ELSE <<>>)
  /\ buffer' = <<>> /\ bufferPos' = 0
  /\ txnOpen' = StaysOpen(pos)
  /\ UNCHANGED <<pendingMark, superseded, cleared, loadRunning>>

\* Nothing is waiting, or the buffer has been held for long enough: it is handed
\* over, and an empty one passes a stream position on.  A mark that was held
\* back follows once no transaction is open.
FlushCommit(pos) ==
  LET body == IF buffer # <<>> THEN <<Batch(buffer, Stamp(pos))>>
              ELSE IF pos > 0 THEN <<Position(pos)>>
              ELSE <<>>
      held == IF StaysOpen(pos) \/ pendingMark = 0 THEN <<>> ELSE <<Mark(pendingMark)>>
  IN  /\ Hand(body \o held)
      /\ buffer' = <<>> /\ bufferPos' = 0
      /\ txnOpen' = StaysOpen(pos)
      /\ pendingMark' = IF StaysOpen(pos) THEN pendingMark ELSE 0
      /\ UNCHANGED <<superseded, cleared, loadRunning>>

HandleCommit(pos) == HoldCommit(pos) \/ FlushCommit(pos)

\* A load mark closes the windows and goes out behind what is buffered, or
\* waits for the open transaction.
HandleMark(m) ==
  /\ superseded' = [id \in Ids |-> 0]
  /\ cleared' = 0
  /\ IF txnOpen
       THEN /\ pendingMark' = m
            /\ Hand(<<>>)
            /\ UNCHANGED <<buffer, bufferPos>>
       ELSE /\ Hand(Flushed \o <<Mark(m)>>)
            /\ buffer' = <<>> /\ bufferPos' = 0
            /\ UNCHANGED pendingMark
  /\ UNCHANGED <<txnOpen, loadRunning>>

HandleTruncate(ver) ==
  /\ Hand(Flushed \o <<Clear(ver)>>)
  /\ buffer' = <<>> /\ bufferPos' = 0
  /\ cleared' = IF loadRunning /\ ver > cleared THEN ver ELSE cleared
  /\ UNCHANGED <<txnOpen, pendingMark, superseded, loadRunning>>

HandleLoadFinished ==
  /\ superseded' = [id \in Ids |-> 0]
  /\ cleared' = 0
  /\ loadRunning' = FALSE
  /\ Hand(<<>>)
  /\ UNCHANGED <<buffer, bufferPos, txnOpen, pendingMark>>

-----------------------------------------------------------------------------
(* The events the engine takes from the stream.                            *)

Streaming == cur.txn <= Len(wal)
Txn == wal[cur.txn]

\* What the engine makes of change j of transaction t (number k).  The large
\* column of a "touch" did not travel; it is read back from the target's
\* document as it is now, whatever is still buffered or open.
OperationOf(t, k, j) ==
  LET c == t[j]
      stored == docs[c.id].val
  IN  [id  |-> c.id,
       ver |-> Ver(k),
       val |-> CASE c.kind = "upsert" -> Body(<<k, j>>, <<k, j>>)
                 [] c.kind = "touch"  -> Body(<<k, j>>, IF stored = Absent THEN Null ELSE stored.big)
                 [] OTHER             -> Absent]

TakeBegin ==
  /\ Streaming /\ cur.pos = 0
  /\ txnOpen' = TRUE
  /\ cur' = [cur EXCEPT !.pos = 1]
  /\ Hand(<<>>)
  /\ UNCHANGED <<taskVars, sourceVars, copyq, loadVars, crashVars,
                 buffer, bufferPos, pendingMark, superseded, cleared, loadRunning>>

TakeChange ==
  /\ Streaming /\ cur.pos \in DOMAIN Txn
  /\ IF Txn[cur.pos].kind = "truncate"
       THEN HandleTruncate(Ver(cur.txn))
       ELSE HandleRow(OperationOf(Txn, cur.txn, cur.pos))
  /\ cur' = [cur EXCEPT !.pos = @ + 1]
  /\ UNCHANGED <<taskVars, sourceVars, copyq, loadVars, crashVars>>

TakeCommit ==
  /\ Streaming /\ cur.pos = Len(Txn) + 1
  /\ HandleCommit(End(cur.txn))
  /\ cur' = [txn |-> cur.txn + 1, pos |-> 0]
  /\ UNCHANGED <<taskVars, sourceVars, copyq, loadVars, crashVars>>

\* Between transactions a keepalive publishes how far the server has sent.  One
\* that would only repeat a position already handed over is left out.
Published(pos) == \E i \in DOMAIN sent : CarriesPosition(sent[i]) /\ sent[i].pos = pos

BetweenTxns ==
  /\ cur.pos = 0
  /\ buffer # <<>> \/ ~Published(End(cur.txn - 1))
  /\ UNCHANGED <<taskVars, sourceVars, cur, copyq, loadVars, crashVars>>

TakeKeepalive == BetweenTxns /\ HandleCommit(End(cur.txn - 1))

\* The events the engine takes from the load's channel.
TakeCopied ==
  /\ copyq # <<>>
  /\ LET e == Head(copyq) IN
       CASE e.ev = "row"      -> HandleRow(e.op)
         [] e.ev = "boundary" -> HandleCommit(0)
         [] e.ev = "mark"     -> HandleMark(e.mark)
         [] e.ev = "finished" -> HandleLoadFinished
  /\ copyq' = Tail(copyq)
  /\ UNCHANGED <<taskVars, sourceVars, cur, loadVars, crashVars>>

EngineStep == TakeBegin \/ TakeChange \/ TakeCommit \/ TakeKeepalive \/ TakeCopied

\* A requested stop: the engine drops its buffer and closes the channel.
Shutdown ==
  /\ restarts < MaxRestarts
  /\ EngineCloses
  /\ UNCHANGED <<sourceVars, cur, engineVars, copyq, loadVars, crashVars>>

-----------------------------------------------------------------------------
(* The end of an attempt at any point, in a crash of the process, in a     *)
(* reconnect or after a stop, and the attempt that follows it.             *)

OpsSettled == {sent[s[1]].ops[s[2]] : s \in settled}

\* Mutant: a checkpoint is taken as proof that the load finished.
NeedsLoadByCheckpoint == Checkpoint = 0 \/ Checkpoint < slot

\* resume_position and unfinished: no usable checkpoint, or a load that stored
\* its progress and is not finished, means the load runs.
NeedsLoad ==
  \/ Checkpoint = 0 \/ Checkpoint < slot
  \/ progress.stored /\ ~progress.finished

FreshLoad(pc) ==
  [pc |-> pc, wave |-> 1, mark |-> 0, at |-> [id \in Ids |-> 0], copied |-> {}]

FreshEngine ==
  /\ buffer' = <<>> /\ bufferPos' = 0
  /\ txnOpen' = FALSE /\ pendingMark' = 0
  /\ superseded' = [id \in Ids |-> 0] /\ cleared' = 0
  /\ loadRunning' = TRUE
  /\ copyq' = <<>>

FreshTasks ==
  /\ sent' = <<>> /\ closed' = FALSE
  /\ finished' = 0 /\ settled' = {}
  /\ sink' \in StartOutcomes
  /\ acked' = 0 /\ loadDone' = 0
  /\ persisted' = 0 /\ durable' = 0
  /\ earlier' = Checkpoint
  /\ UNCHANGED docs

\* Mutant: the stream carries on at the server's write position.
ResumeAtHead == Len(wal) + 1

\* Mutant: the stream carries on ahead of the slot's position.
ResumeAtSlot == slot \div 2

\* The transaction the server sends first: the one behind the slot's position.
ResumeAt == (slot + 1) \div 2

\* The stream starts again behind the slot's position, and the load runs if it is
\* found to be needed.  A new process knows no durable position; a reconnect
\* keeps the one it has.
NewAttempt ==
  /\ restarts < MaxRestarts
  /\ CrashBeforeProgress \/ load.pc # "start"
  /\ restarts' = restarts + 1
  /\ orphans' = orphans \cup {sent[i].ops : i \in {n \in Window : Open(n)}}
  /\ applied' = applied \cup OpsSettled
  /\ FreshTasks
  /\ FreshEngine
  /\ kept' \in {0, SafePosition}
  /\ cur' = [txn |-> ResumeAt, pos |-> 0]
  /\ load' = FreshLoad(IF NeedsLoad THEN "start" ELSE "report")
  /\ UNCHANGED <<sourceVars, progress>>

\* A request the crash left behind reaches the target after all, or does not.
OrphanLands ==
  /\ \E ops \in orphans :
       /\ orphans' = orphans \ {ops}
       /\ \E S \in SUBSET DOMAIN ops : docs' = Write(docs, ops, S)
  /\ UNCHANGED <<channelVars, accountVars, settled, ckptDocVars, sourceVars, cur, engineVars, copyq,
                 loadVars, applied, restarts, earlier, kept>>

\* A request that may still be repeated after a later one has been executed.
Lingering(id) ==
  \/ Concurrency > 1 /\ \E i \in Window : Open(i) /\ \E k \in Positions(i) : sent[i].ops[k].id = id
  \/ \E ops \in orphans : \E k \in DOMAIN ops : ops[k].id = id

\* The target forgets a tombstone.  No request that a later one has overtaken
\* stays open for as long as the target keeps one.
TargetForgets ==
  /\ \E id \in Ids :
       /\ IsTombstone(docs[id])
       /\ ~Lingering(id)
       /\ docs' = Collect(docs, id)
  /\ UNCHANGED <<channelVars, accountVars, settled, ckptDocVars, sourceVars, cur, engineVars, copyq,
                 loadVars, crashVars>>

-----------------------------------------------------------------------------
\* The first attempt: the slot exists, nothing is streamed or loaded yet.
Init ==
  /\ DeliveryInit
  /\ wal = <<>> /\ visible = 0 /\ rows = [k \in 0 .. 0 |-> Initial]
  /\ slot = End(0)
  /\ cur = [txn |-> 1, pos |-> 0]
  /\ buffer = <<>> /\ bufferPos = 0
  /\ txnOpen = FALSE /\ pendingMark = 0
  /\ superseded = [id \in Ids |-> 0] /\ cleared = 0
  /\ loadRunning = TRUE
  /\ copyq = <<>>
  /\ load = FreshLoad("start")
  /\ progress = NoProgress
  /\ orphans = {} /\ applied = {} /\ restarts = 0
  /\ earlier = 0 /\ kept = 0

LoadStep ==
  \/ \E id \in Ids : ReadPosition(id) \/ CopyRange(id)
  \/ StartTable \/ SendMark \/ RecordProgress
  \/ FinishTable \/ ClearProgress \/ ReportLoaded

TasksStep ==
  /\ DeliveryStep
  /\ sink' = "halted" => restarts < MaxRestarts
  /\ UNCHANGED <<sourceVars, cur, engineVars, copyq, loadVars, crashVars>>

Next ==
  \/ SourceCommits \/ BecomesVisible \/ ConfirmSlot
  \/ LoadStep
  \/ EngineStep \/ Shutdown
  \/ TasksStep
  \/ NewAttempt \/ OrphanLands \/ TargetForgets

Spec == Init /\ [][Next]_vars

\* What goes on without outside help.  The source, the load and the engine tasks
\* are polled while they can run.  The server sends keepalives, and a buffer is
\* held for COALESCE_WINDOW at most, so one of them flushes it.  A request is
\* answered in the end, since its retries are bounded, and the checkpoint is
\* tried again every interval, so that one write of it goes through.
Sinking(A) == A /\ UNCHANGED <<sourceVars, cur, engineVars, copyq, loadVars, crashVars>>
AnswersOldest == Answer(Oldest, {})
Accounts == AccountWrite \/ AccountPosition \/ AccountMark \/ AccountTruncate
PersistsLatest == Persist /\ persisted' = acked

Fairness ==
  /\ WF_vars(TakeBegin \/ TakeChange \/ TakeCommit)
  /\ WF_vars(BetweenTxns /\ FlushCommit(End(cur.txn - 1)))
  /\ WF_vars(TakeCopied)
  /\ WF_vars(LoadStep)
  /\ WF_vars(BecomesVisible)
  /\ WF_vars(ConfirmSlot)
  /\ WF_vars(Sinking(AnswersOldest))
  /\ WF_vars(Sinking(Accounts))
  /\ WF_vars(Sinking(PersistsLatest))
  /\ WF_vars(Sinking(Publish))

FairSpec == Spec /\ Fairness

-----------------------------------------------------------------------------
(* Properties.                                                             *)

TypeOK ==
  /\ DeliveryTypeOK
  /\ wal \in Seq(TxnShapes) /\ visible \in 0 .. Len(wal)
  /\ rows \in [0 .. Len(wal) -> [Ids -> Vals \cup {Absent}]]
  /\ slot \in End(0) .. End(Len(wal)) /\ cur.txn \in 1 .. Len(wal) + 1
  /\ cur.pos \in 0 .. IF cur.txn <= Len(wal) THEN Len(wal[cur.txn]) + 1 ELSE 0
  /\ buffer \in Seq(Op) /\ Len(buffer) < BatchSize
  /\ bufferPos \in 0 .. End(Len(wal)) /\ (buffer = <<>> => bufferPos = 0)
  /\ txnOpen = (cur.pos > 0)
  /\ pendingMark \in 0 .. load.mark /\ (pendingMark > 0 => txnOpen \/ buffer # <<>>)
  /\ superseded \in [Ids -> Nat] /\ cleared \in Nat /\ loadRunning \in BOOLEAN
  /\ load.at \in [Ids -> Nat] /\ load.wave \in 1 .. Len(Waves) + 1
  /\ progress.done \in 0 .. Len(Waves)
  /\ orphans \subseteq Seq(Op) /\ applied \subseteq Op
  /\ earlier \in 0 .. End(Len(wal)) /\ kept \in 0 .. End(Len(wal))

\* Change j of transaction k is in the target: an operation of its version for
\* its id, with its stamp, was settled in this attempt or an earlier one.
InTarget(k, j) ==
  \E op \in applied \cup OpsSettled :
    /\ op.id = wal[k][j].id /\ op.ver = Ver(k)
    /\ IF wal[k][j].kind = "delete" THEN op.val = Absent
       ELSE op.val # Absent /\ op.val.c = <<k, j>>

Delivered(k) ==
  \A j \in DOMAIN wal[k] : wal[k][j].kind # "truncate" => InTarget(k, j)

\* End to end: no position that was acknowledged, persisted, or confirmed to the
\* source covers a transaction with a change missing from the target.
ConfirmedIsDelivered ==
  \A k \in 1 .. Len(wal) :
    End(k) <= acked \/ End(k) <= Checkpoint \/ End(k) <= slot => Delivered(k)

\* Everything the source committed has gone through every stage.
Quiet ==
  /\ ~Streaming /\ visible = Len(wal)
  /\ buffer = <<>> /\ copyq = <<>> /\ load.pc = "done"
  /\ sink # "halted" /\ finished = Len(sent)
  /\ orphans = {}

\* The table and the index agree once everything has gone through: no change
\* lost, no deleted or truncated row brought back by the load, a retry, a
\* replay or a tombstone that expired, no stale copy over a newer row.
Converges == Quiet => \A id \in Ids : docs[id].val = rows[Len(wal)][id]

\* The rows of a wave are in the target: each id is stored, or the stream has
\* removed it.
Loaded(w) ==
  \A id \in Waves[w] :
    \/ docs[id].ver > 0
    \/ \E k \in 1 .. Len(wal) : \E j \in DOMAIN wal[k] :
         wal[k][j].kind = "truncate" \/ wal[k][j] = [kind |-> "delete", id |-> id]

\* The progress document never claims a range whose rows are not in the target,
\* so that resuming after it loses nothing.
ClaimedIsLoaded == \A w \in 1 .. progress.done : Loaded(w)

\* An attempt that streams without a load, or whose load is over, has every row
\* of the table: "trusting the checkpoint alone is what silently skips a load".
LoadIsNotSkipped == load.pc \in {"report", "done"} => \A w \in DOMAIN Waves : Loaded(w)

\* The slot follows the source: what a transaction wrote is delivered, its
\* position persisted and confirmed, so that the server can recycle its WAL,
\* even when nothing follows it, unless the sink side stops.
SlotCatchesUp ==
  \A k \in 1 .. MaxTxns : (Len(wal) >= k) ~> (slot >= End(k) \/ sink # "running")

\* The load comes to an end beside the stream: no mark waits for ever behind an
\* open transaction, a held buffer or a full channel.
LoadEnds == <>(load.pc = "done" \/ sink # "running")

\* backfill.rs on the position a range reads first: "a change committed after this
\* point necessarily has a higher position, so it wins at the target whichever
\* order the two arrive in".  A row the stream has changed is what the last
\* change made it.
StreamedChangeWins ==
  Quiet => \A id \in Ids :
    (\E k \in 1 .. Len(wal) : \E j \in DOMAIN wal[k] : wal[k][j].id = id)
      => docs[id].val = rows[Len(wal)][id]
=============================================================================
