------------------------------ MODULE Sections ------------------------------
(***************************************************************************)
(* A table that joins and leaves a running pipeline.  A reload compares     *)
(* the configuration file with what is running and, for a section that is   *)
(* new, publishes the table, waits for the stream to pass that point,       *)
(* admits the table, adopts the rules and reads the rows beside the stream. *)
(* The streaming attempt may fail or halt meanwhile, the process may crash, *)
(* and an attempt that finds unfinished progress reads the same table       *)
(* itself.                                                                  *)
(*                                                                          *)
(* One table is modelled: the one that joins and leaves.  A value is the    *)
(* position of the change that wrote it, 0 the absence of a row.  What the  *)
(* sink and the checkpoint task promise is taken from Delivery: an          *)
(* operation is applied once its position is acknowledged.                  *)
(***************************************************************************)
EXTENDS Naturals, Sequences

CONSTANTS
    KeyCount,       \* the keys of the table are 1 .. KeyCount, in the order it is read
    Setups,         \* the deployments and histories to explore
    StaleProgress,  \* a section is removed while progress of its load is stored
    QueueDepth      \* the change channel

Keys == 1 .. KeyCount

Indexes == {"old", "fresh"}

VARIABLES
    setup,    \* the deployment and what is left of its budgets
    src,      \* the source: rows, log, and whether the table is published
    file,     \* the configuration file: the section, the index it names
    live,     \* the process: what its tasks share, and the reload's `current`
    attempt,  \* the streaming attempt
    store,    \* the checkpoint and the load progress, at the target
    target,   \* the documents of each index
    alias,    \* the index the readers' name points at
    reload,   \* the reload task
    loads,    \* the load an attempt runs, and the one a joining table gets
    said      \* what the operator knows: the table is synced, documents it left behind

sectionVars == <<setup, src, file, live, attempt, store, target, alias, reload, loads, said>>

Absent == [version |-> 0, value |-> 0]

NoProgress == [stored |-> FALSE, done |-> 0]

Finished == [stored |-> TRUE, done |-> KeyCount]

NoLoad == [at |-> "off", done |-> 0, version |-> 0, row |-> 0]

Mysql == setup.flavor = "mysql"

\* A versioned write: the newer of the two stands (external_gte).
Put(docs, k, version, value) ==
    IF version >= docs[k].version THEN [docs EXCEPT ![k] = [version |-> version, value |-> value]]
                                  ELSE docs

\* The keys whose document a section that leaves may leave behind for good: the
\* ones in the index, and the ones the stream has still to bring, or may bring
\* again in an attempt that resumes from the checkpoint.
Held == {k \in Keys : target[file.index][k].value # 0}

Behind ==
    {k \in Keys : \E i \in store.checkpoint + 1 .. Len(src.log) : src.log[i].key = k /\ src.log[i].put}

---------------------------------------------------------------------------
(* The source.                                                             *)

\* A transaction writes or deletes a row; PostgreSQL publishes the change if
\* the table is in the publication at that point of the log.
CommitsRow(k, put) ==
    /\ setup.changes > 0
    /\ put \/ src.rows[k] # 0
    /\ src' = [src EXCEPT
                !.log = Append(@, [key |-> k, put |-> put, published |-> Mysql \/ src.published]),
                !.rows[k] = IF put THEN Len(src.log) + 1 ELSE 0]
    /\ setup' = [setup EXCEPT !.changes = @ - 1]
    /\ UNCHANGED <<file, live, attempt, store, target, alias, reload, loads, said>>

\* A tombstone is forgotten once index.gc_deletes has passed.
TombstoneExpires(i, k) ==
    /\ setup.expires
    /\ target[i][k].value = 0 /\ target[i][k].version # 0
    /\ target' = [target EXCEPT ![i][k] = Absent]
    /\ UNCHANGED <<setup, src, file, live, attempt, store, alias, reload, loads, said>>

---------------------------------------------------------------------------
(* The streaming attempt.                                                  *)

\* The load an attempt begins with: one that an earlier attempt left
\* unfinished, if the configuration in force has the section.
Pending == live.rules /\ store.progress.stored /\ store.progress # Finished

\* A new attempt streams from the checkpoint and opens the load channel.  The
\* engine's window on copied rows is open until the load says it has finished,
\* which it says at once when there is nothing to load.
AttemptStarts ==
    /\ live.up /\ attempt.state = "none"
    /\ attempt' = [attempt EXCEPT !.state = "streaming", !.read = store.checkpoint,
                                  !.queue = <<>>, !.answered = FALSE, !.window = Pending,
                                  !.gone = [k \in Keys |-> 0]]
    /\ loads' = [loads EXCEPT !["attempt"] = IF Pending THEN [NoLoad EXCEPT !.at = "start"] ELSE NoLoad]
    /\ UNCHANGED <<setup, src, file, live, store, target, alias, reload, said>>

HasRoom == Len(attempt.queue) < QueueDepth

\* The source decodes the next transaction.  Rows of a table the shared set
\* does not admit are dropped here, with their boundary kept; what PostgreSQL
\* does not publish is not sent at all.
Decodes ==
    /\ attempt.state = "streaming"
    /\ attempt.read < Len(src.log)
    /\ HasRoom
    /\ LET at == attempt.read + 1
           entry == src.log[at]
           key == IF live.tables THEN entry.key ELSE 0
       IN attempt' = [attempt EXCEPT
             !.read = at,
             !.queue = IF entry.published
                       THEN Append(@, [at |-> at, key |-> key, put |-> entry.put])
                       ELSE @]
    /\ UNCHANGED <<setup, src, file, live, store, target, alias, reload, loads, said>>

\* The engine files the next change by the rules in force and its position is
\* acknowledged once the target has taken it, which replaces the one before: an
\* attempt that replays acknowledges less than the one it follows.  A row no rule knows is dropped.
\* While the window is open it remembers the keys the stream has removed.
Files ==
    /\ attempt.state \in {"streaming", "draining"}
    /\ attempt.queue # <<>>
    /\ LET change == Head(attempt.queue)
           filed == change.key # 0 /\ live.rules
       IN /\ attempt' = [attempt EXCEPT
                !.queue = Tail(@),
                !.acked = change.at, !.answered = TRUE,
                !.gone = IF filed /\ ~change.put /\ attempt.window
                         THEN [@ EXCEPT ![change.key] = change.at] ELSE @]
          /\ target' = IF filed
                THEN [target EXCEPT ![live.index] =
                        Put(@, change.key, change.at, IF change.put THEN change.at ELSE 0)]
                ELSE target
    /\ UNCHANGED <<setup, src, file, live, store, alias, reload, loads, said>>

\* The checkpoint task stores the position this attempt has acknowledged.
StoresCheckpoint ==
    /\ attempt.state # "none" /\ attempt.answered
    /\ attempt.acked > store.checkpoint
    /\ store' = [store EXCEPT !.checkpoint = attempt.acked]
    /\ UNCHANGED <<setup, src, file, live, attempt, target, alias, reload, loads, said>>

\* The stream fails: the load channel is withdrawn and the attempt's own load
\* abandoned, but the engine reads on while a joining table's load still holds
\* a sender of the copy channel.
StreamFails ==
    /\ setup.ends > 0
    /\ attempt.state = "streaming"
    /\ setup' = [setup EXCEPT !.ends = @ - 1]
    /\ attempt' = [attempt EXCEPT !.state = "draining"]
    /\ loads' = [loads EXCEPT !["attempt"] = NoLoad]
    /\ UNCHANGED <<src, file, live, store, target, alias, reload, said>>

AttemptEnds ==
    /\ attempt.state = "draining"
    /\ attempt.queue = <<>>
    /\ loads["join"].at = "off"
    /\ attempt' = [attempt EXCEPT !.state = "none"]
    /\ UNCHANGED <<setup, src, file, live, store, target, alias, reload, loads, said>>

\* The engine halts: the changes it had not filed are lost with it, and a load
\* finds its channel closed, which refuses the section that was joining.
EngineHalts ==
    /\ setup.ends > 0
    /\ attempt.state = "streaming"
    /\ setup' = [setup EXCEPT !.ends = @ - 1]
    /\ attempt' = [attempt EXCEPT !.state = "none", !.queue = <<>>]
    /\ loads' = [l \in DOMAIN loads |-> NoLoad]
    /\ reload' = [reload EXCEPT !.step = IF @ = "loading" THEN "idle" ELSE @]
    /\ UNCHANGED <<src, file, live, store, target, alias, said>>

---------------------------------------------------------------------------
(* The loads.                                                              *)

\* The progress is read first: what an earlier load of the table finished is
\* not read again.  PostgreSQL's loader stores its ranges before it reads one.
LoadBegins(l) ==
    /\ loads[l].at = "start"
    /\ LET finished == store.progress = Finished IN
       /\ loads' = [loads EXCEPT ![l] = [NoLoad EXCEPT !.at = IF finished THEN "clear" ELSE "position",
                                                        !.done = store.progress.done]]
       /\ store' = IF Mysql THEN store ELSE [store EXCEPT !.progress.stored = TRUE]
    /\ UNCHANGED <<setup, src, file, live, attempt, target, alias, reload, said>>

\* The position before the range is read is the version of its rows.
LoadReadsPosition(l) ==
    /\ loads[l].at = "position"
    /\ loads' = [loads EXCEPT ![l].at = "range", ![l].version = Len(src.log)]
    /\ UNCHANGED <<setup, src, file, live, attempt, store, target, alias, reload, said>>

LoadReadsRange(l) ==
    /\ loads[l].at = "range"
    /\ loads' = [loads EXCEPT ![l].at = "send", ![l].row = src.rows[loads[l].done + 1]]
    /\ UNCHANGED <<setup, src, file, live, attempt, store, target, alias, reload, said>>

\* A copied row older than what the stream has removed is dropped.
DeadNever(k, version) == FALSE

Dead(k, version) == attempt.gone[k] > version

\* The engine takes the rows of the range off the copy channel.
LoadIsFiled(l) ==
    /\ loads[l].at = "send"
    /\ LET k == loads[l].done + 1
           filed == live.rules /\ loads[l].row # 0 /\ ~Dead(k, loads[l].version)
       IN target' = IF filed
                THEN [target EXCEPT ![live.index] = Put(@, k, loads[l].version, loads[l].row)]
                ELSE target
    /\ loads' = [loads EXCEPT ![l].at = "mark"]
    /\ UNCHANGED <<setup, src, file, live, attempt, store, alias, reload, said>>

\* A mark that is written clears what the window held, whichever load sent it.
LoadIsMarked(l) ==
    /\ loads[l].at = "mark"
    /\ attempt' = [attempt EXCEPT !.gone = [k \in Keys |-> 0]]
    /\ loads' = [loads EXCEPT ![l].at = "record", ![l].done = @ + 1]
    /\ UNCHANGED <<setup, src, file, live, store, target, alias, reload, said>>

LoadRecords(l) ==
    /\ loads[l].at = "record"
    /\ store' = [store EXCEPT !.progress = [stored |-> TRUE, done |-> loads[l].done]]
    /\ loads' = [loads EXCEPT ![l].at = IF loads[l].done = KeyCount THEN "clear" ELSE "position"]
    /\ UNCHANGED <<setup, src, file, live, attempt, target, alias, reload, said>>

\* The end of a load: its progress is removed.  The attempt's load then closes
\* the engine's window; a joining table's load leaves it open, and is the point
\* where the reload says the table is synced and counts the section as running.
LoadEnds(l) ==
    /\ loads[l].at = "clear"
    /\ store' = [store EXCEPT !.progress = NoProgress]
    /\ loads' = [loads EXCEPT ![l] = NoLoad]
    /\ attempt' = IF l = "attempt"
                  THEN [attempt EXCEPT !.window = FALSE, !.gone = [k \in Keys |-> 0]]
                  ELSE attempt
    /\ reload' = IF l = "join" THEN [reload EXCEPT !.step = "idle"] ELSE reload
    /\ live' = IF l = "join" THEN [live EXCEPT !.current = TRUE] ELSE live
    /\ said' = [said EXCEPT !.synced = @ \/ live.rules]
    /\ UNCHANGED <<setup, src, file, target, alias>>

---------------------------------------------------------------------------
(* The reload.                                                             *)

EditsFile ==
    /\ setup.edits > 0
    /\ setup' = [setup EXCEPT !.edits = @ - 1]
    /\ file' = [file EXCEPT !.section = ~@]
    /\ UNCHANGED <<src, live, attempt, store, target, alias, reload, loads, said>>

\* SIGHUP: a generation the reload has not seen.  Signals coalesce.
Hangup ==
    /\ setup.signals > 0
    /\ live.up /\ ~reload.pending
    /\ setup' = [setup EXCEPT !.signals = @ - 1]
    /\ reload' = [reload EXCEPT !.pending = TRUE]
    /\ UNCHANGED <<src, file, live, attempt, store, target, alias, loads, said>>

\* The steps a changed section takes: classify, against what is running.
Edit == IF file.section = live.current THEN "idle"
        ELSE IF ~file.section THEN "drop"
        ELSE IF Mysql THEN "admit" ELSE "publish"

Reloads ==
    /\ live.up /\ reload.step = "idle" /\ reload.pending
    /\ Edit = "drop" => StaleProgress \/ (~store.progress.stored /\ loads["attempt"].at = "off")
    /\ reload' = [reload EXCEPT !.pending = FALSE, !.step = Edit]
    /\ UNCHANGED <<setup, src, file, live, attempt, store, target, alias, loads, said>>

\* A refusal leaves `current` without the section, so the next signal tries
\* again; what the section had already reached is not taken back.
Refuses ==
    /\ \/ reload.step = "publish"                                          \* not the owner
       \/ reload.step = "barrier" /\ attempt.acked < reload.position       \* BARRIER_TIMEOUT
       \/ reload.step = "load" /\ attempt.state # "streaming"              \* no load channel
    /\ reload' = [reload EXCEPT !.step = "idle"]
    /\ UNCHANGED <<setup, src, file, live, attempt, store, target, alias, loads, said>>

Publishes ==
    /\ reload.step = "publish"
    /\ src' = [src EXCEPT !.published = TRUE]
    /\ reload' = [reload EXCEPT !.step = "marker"]
    /\ UNCHANGED <<setup, file, live, attempt, store, target, alias, loads, said>>

\* A logical message gives the stream a position to acknowledge on a quiet
\* database.
EmitsMarker ==
    /\ reload.step = "marker"
    /\ src' = [src EXCEPT !.log = Append(@, [key |-> 0, put |-> TRUE, published |-> TRUE])]
    /\ reload' = [reload EXCEPT !.step = "position"]
    /\ UNCHANGED <<setup, file, live, attempt, store, target, alias, loads, said>>

ReadsBarrier ==
    /\ reload.step = "position"
    /\ reload' = [reload EXCEPT !.step = "barrier", !.position = Len(src.log)]
    /\ UNCHANGED <<setup, src, file, live, attempt, store, target, alias, loads, said>>

PassesBarrier ==
    /\ reload.step = "barrier"
    /\ attempt.acked >= reload.position
    /\ reload' = [reload EXCEPT !.step = "admit"]
    /\ UNCHANGED <<setup, src, file, live, attempt, store, target, alias, loads, said>>

\* The source begins to admit the table, then the engine to file its rows.
AdmitsNothing ==
    /\ reload.step = "admit"
    /\ reload' = [reload EXCEPT !.step = "adopt"]
    /\ UNCHANGED <<setup, src, file, live, attempt, store, target, alias, loads, said>>

Admits ==
    /\ reload.step = "admit"
    /\ live' = [live EXCEPT !.tables = TRUE]
    /\ reload' = [reload EXCEPT !.step = "adopt"]
    /\ UNCHANGED <<setup, src, file, attempt, store, target, alias, loads, said>>

Adopts ==
    /\ reload.step = "adopt"
    /\ live' = [live EXCEPT !.rules = TRUE]
    /\ reload' = [reload EXCEPT !.step = "load"]
    /\ UNCHANGED <<setup, src, file, attempt, store, target, alias, loads, said>>

\* The rows are read down the channel of the attempt that is streaming.
LoadStarts ==
    /\ reload.step = "load" /\ attempt.state = "streaming"
    /\ attempt' = [attempt EXCEPT !.window = TRUE]
    /\ loads' = [loads EXCEPT !["join"] = [NoLoad EXCEPT !.at = "start"]]
    /\ reload' = [reload EXCEPT !.step = "loading"]
    /\ UNCHANGED <<setup, src, file, live, store, target, alias, said>>

\* A section that is gone: the source stops admitting the table, the engine
\* forgets its rules, and it leaves the publication where the role may.  The
\* index and the load progress are left as they are.
Drops ==
    /\ reload.step = "drop"
    /\ live' = [live EXCEPT !.tables = FALSE]
    /\ said' = [synced |-> FALSE, strays |-> said.strays \cup Held \cup Behind]
    /\ reload' = [reload EXCEPT !.step = "forget"]
    /\ UNCHANGED <<setup, src, file, attempt, store, target, alias, loads>>

Forgets ==
    /\ reload.step = "forget"
    /\ live' = [live EXCEPT !.rules = FALSE, !.current = FALSE]
    /\ said' = [said EXCEPT !.strays = @ \cup Held]
    /\ reload' = [reload EXCEPT !.step = IF Mysql THEN "idle" ELSE "unpublish"]
    /\ UNCHANGED <<setup, src, file, attempt, store, target, alias, loads>>

Unpublishes(may) ==
    /\ reload.step = "unpublish"
    /\ src' = [src EXCEPT !.published = @ /\ ~may]
    /\ said' = [said EXCEPT !.strays = @ \cup Behind]
    /\ reload' = [reload EXCEPT !.step = "idle"]
    /\ UNCHANGED <<setup, file, live, attempt, store, target, alias, loads>>

---------------------------------------------------------------------------
(* The process.                                                            *)

Crashes ==
    /\ setup.crashes > 0 /\ live.up
    /\ setup' = [setup EXCEPT !.crashes = @ - 1]
    /\ live' = [live EXCEPT !.up = FALSE, !.tables = FALSE, !.rules = FALSE, !.current = FALSE]
    /\ attempt' = [attempt EXCEPT !.state = "none", !.queue = <<>>, !.acked = 0]
    /\ loads' = [l \in DOMAIN loads |-> NoLoad]
    /\ reload' = [step |-> "idle", pending |-> FALSE, position |-> 0]
    /\ UNCHANGED <<src, file, store, target, alias, said>>

\* A section is not removed while progress of its load is stored.
LeavesNoProgress == file.section \/ StaleProgress \/ ~store.progress.stored

\* A start builds everything from the file.  PostgreSQL refuses one whose
\* publication does not cover exactly the configured tables.
Boots ==
    /\ ~live.up
    /\ Mysql \/ src.published = file.section
    /\ LeavesNoProgress
    /\ live' = [up |-> TRUE, tables |-> file.section, rules |-> file.section,
                current |-> file.section, index |-> file.index]
    /\ said' = [synced |-> said.synced /\ file.section,
                strays |-> IF file.section THEN said.strays ELSE said.strays \cup Held]
    /\ UNCHANGED <<setup, src, file, attempt, store, target, alias, reload, loads>>

\* The operator aligns the publication with the file before a start.
AlignsPublication ==
    /\ ~live.up /\ ~Mysql /\ src.published # file.section
    /\ LeavesNoProgress
    /\ src' = [src EXCEPT !.published = file.section]
    /\ said' = [synced |-> FALSE, strays |-> said.strays \cup Held \cup Behind]
    /\ UNCHANGED <<setup, file, live, attempt, store, target, alias, reload, loads>>

---------------------------------------------------------------------------

InitOf(s) ==
    /\ setup = s
    /\ src = [rows |-> [k \in Keys |-> IF k = 1 THEN 1 ELSE 0], published |-> s.configured \/ s.flavor = "mysql",
              log |-> <<[key |-> 0, put |-> TRUE, published |-> TRUE]>>]
    /\ file = [section |-> s.configured, index |-> "old"]
    /\ live = [up |-> TRUE, tables |-> s.configured, rules |-> s.configured,
               current |-> s.configured, index |-> "old"]
    /\ attempt = [state |-> "none", read |-> 1, queue |-> <<>>, acked |-> 0, answered |-> FALSE, window |-> FALSE,
                  gone |-> [k \in Keys |-> 0]]
    /\ store = [checkpoint |-> 1, progress |-> NoProgress]
    /\ target = [i \in Indexes |-> [k \in Keys |->
                    IF i = "old" /\ k = 1 /\ s.configured THEN [version |-> 1, value |-> 1] ELSE Absent]]
    /\ alias = "old"
    /\ reload = [step |-> "idle", pending |-> FALSE, position |-> 0]
    /\ loads = [l \in {"attempt", "join"} |-> NoLoad]
    /\ said = [synced |-> s.configured, strays |-> {}]

Loading == \E l \in DOMAIN loads :
    \/ LoadBegins(l) \/ LoadReadsPosition(l) \/ LoadReadsRange(l)
    \/ LoadIsFiled(l) \/ LoadIsMarked(l) \/ LoadRecords(l) \/ LoadEnds(l)

Streaming ==
    \/ AttemptStarts \/ Decodes \/ Files \/ StoresCheckpoint
    \/ StreamFails \/ AttemptEnds \/ EngineHalts

Reloading ==
    \/ EditsFile \/ Hangup \/ Reloads \/ Refuses \/ Publishes \/ EmitsMarker
    \/ ReadsBarrier \/ PassesBarrier \/ Admits \/ Adopts \/ LoadStarts
    \/ Drops \/ Forgets \/ \E may \in BOOLEAN : Unpublishes(may)
=============================================================================
