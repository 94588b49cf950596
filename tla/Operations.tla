----------------------------- MODULE Operations -----------------------------
(***************************************************************************)
(* The commands an operator runs against a pipeline: a re-snapshot beside   *)
(* the running stream, `reconcile --delete`, and a rebuild of the index     *)
(* under a fresh name, with the alias moved onto it.  Each is a process of  *)
(* its own that shares the source, the target and the file with the         *)
(* pipeline of Sections.                                                    *)
(***************************************************************************)
EXTENDS Sections, FiniteSets

CONSTANTS
    ReinsertRace,   \* a key is inserted again while a reconcile holds it as an orphan
    LiveRebuild     \* a rebuild is started while the process is between attempts

Deployments == [flavor : {"postgres", "mysql"}, configured : BOOLEAN, expires : BOOLEAN, swaps : BOOLEAN,
                changes : Nat, edits : Nat, signals : Nat, ends : Nat, crashes : Nat,
                commands : SUBSET {"resnapshot", "reconcile", "reindex"}]

ASSUME OperationsAssumption ==
    /\ KeyCount \in Nat \ {0} /\ QueueDepth \in Nat \ {0}
    /\ \A s \in Setups : s \in Deployments
    /\ StaleProgress \in BOOLEAN /\ ReinsertRace \in BOOLEAN /\ LiveRebuild \in BOOLEAN

VARIABLE command    \* the command that runs

vars == <<sectionVars, command>>

NoCommand == [kind |-> "none", at |-> "off", done |-> 0, version |-> 0, row |-> 0,
              keys |-> {}, before |-> 0, checkpoint |-> 0, covered |-> FALSE]

Rows == {k \in Keys : src.rows[k] # 0}

Documents(i) == {k \in Keys : target[i][k].value # 0}

\* Changes to the table reach the stream and are not dropped by it; while a
\* command runs, `covered` says whether that has been so since it began.
Covered ==
    /\ Mysql \/ src.published
    /\ ~live.up \/ (live.tables /\ live.rules)

Runs(kind, at) ==
    /\ kind \in setup.commands
    /\ command.kind = "none"
    /\ file.section
    /\ setup' = [setup EXCEPT !.commands = @ \ {kind}]
    /\ command' = [NoCommand EXCEPT !.kind = kind, !.at = at, !.covered = Covered]
    /\ UNCHANGED <<src, file, live, attempt, store, target, alias, reload, loads, said>>

At(kind, at) == command.kind = kind /\ command.at = at

---------------------------------------------------------------------------
(* Reading the table again: the loader of a re-snapshot and of a rebuild.   *)

Resnapshots == Runs("resnapshot", "position")

\* The index the command's configuration names for the section.
Filled == IF command.kind = "reindex" THEN "fresh" ELSE file.index

ReadsPosition ==
    /\ command.at = "position"
    /\ command' = [command EXCEPT !.at = "range", !.version = Len(src.log)]
    /\ UNCHANGED sectionVars

ReadsRange ==
    /\ command.at = "range"
    /\ command' = [command EXCEPT !.at = "write", !.row = src.rows[command.done + 1]]
    /\ UNCHANGED sectionVars

\* The rows go through an engine of the command's own, with the versions of the
\* load and no progress document.
UnversionedCopy == Len(src.log) + 1

CopyVersion == command.version

WritesRange ==
    /\ command.at = "write"
    /\ LET k == command.done + 1
           last == k = KeyCount
       IN /\ target' = IF command.row = 0 THEN target
                       ELSE [target EXCEPT ![Filled] = Put(@, k, CopyVersion, command.row)]
          /\ command' = CASE ~last -> [command EXCEPT !.at = "position", !.done = k]
                          [] last /\ command.kind = "reindex" -> [command EXCEPT !.at = "verify"]
                          [] OTHER -> NoCommand
          /\ said' = IF last /\ command.kind = "resnapshot" /\ command.covered /\ Covered
                     THEN [said EXCEPT !.synced = TRUE] ELSE said
    /\ UNCHANGED <<setup, src, file, live, attempt, store, alias, reload, loads>>

---------------------------------------------------------------------------
(* reconcile --delete.                                                     *)

Reconciles == ~Mysql /\ Runs("reconcile", "scan")

\* A page of the index's keys.
ScansKeys ==
    /\ At("reconcile", "scan")
    /\ command' = [command EXCEPT !.at = "keys", !.keys = Documents(file.index)]
    /\ UNCHANGED sectionVars

\* The keys of the page the source still has.
ExistingKeys == command.keys \cap Rows

FindsOrphans ==
    /\ At("reconcile", "keys")
    /\ command' = [command EXCEPT !.at = "delete", !.keys = @ \ ExistingKeys]
    /\ UNCHANGED sectionVars

\* The orphans are deleted at the end of the scan, without a version: the
\* target numbers the tombstone itself.
DeletesOrphans ==
    /\ At("reconcile", "delete")
    /\ target' = [target EXCEPT ![file.index] = [k \in Keys |->
            IF k \in command.keys THEN [version |-> @[k].version + 1, value |-> 0] ELSE @[k]]]
    /\ said' = [said EXCEPT !.strays = @ \ (command.keys \ Behind)]
    /\ command' = NoCommand
    /\ UNCHANGED <<setup, src, file, live, attempt, store, alias, reload, loads>>

---------------------------------------------------------------------------
(* reindex.                                                                *)

Reindexes ==
    /\ LiveRebuild \/ ~live.up
    /\ Runs("reindex", "slot")

\* The stream has to be stopped: no reader on the slot, and a checkpoint that
\* does not move for two seconds.
StreamStopped == Mysql \/ attempt.state # "streaming"

FindsSlot ==
    /\ At("reindex", "slot")
    /\ command' = IF StreamStopped
                  THEN [command EXCEPT !.at = "again", !.checkpoint = store.checkpoint]
                  ELSE NoCommand
    /\ UNCHANGED sectionVars

ReadsCheckpointAgain ==
    /\ At("reindex", "again")
    /\ command' = IF store.checkpoint = command.checkpoint
                  THEN [command EXCEPT !.at = "count"] ELSE NoCommand
    /\ UNCHANGED sectionVars

CountsRows ==
    /\ At("reindex", "count")
    /\ command' = [command EXCEPT !.at = "position", !.before = Cardinality(Rows)]
    /\ UNCHANGED sectionVars

\* Whether the documents are explained by a source that went from `before` to
\* `after` while the load ran.
Explained(before, after, documents) ==
    \/ before <= documents /\ documents <= after
    \/ after <= documents /\ documents <= before

Verifies ==
    /\ At("reindex", "verify")
    /\ command' = IF Explained(command.before, Cardinality(Rows), Cardinality(Documents("fresh")))
                  THEN [command EXCEPT !.at = "switch"] ELSE NoCommand
    /\ UNCHANGED sectionVars

\* The readers' name moves onto the fresh index: an alias, or on Meilisearch a
\* swap of the two names' documents.
SwitchesAlias ==
    /\ At("reindex", "switch")
    /\ alias' = IF setup.swaps THEN alias ELSE "fresh"
    /\ target' = IF setup.swaps
                 THEN [target EXCEPT !["old"] = target["fresh"], !["fresh"] = target["old"]]
                 ELSE target
    /\ said' = [synced |-> said.synced \/ command.covered,
                strays |-> IF command.covered THEN {} ELSE Keys]
    /\ command' = [command EXCEPT !.at = "drop"]
    /\ UNCHANGED <<setup, src, file, live, attempt, store, reload, loads>>

\* --drop-old removes the documents from before the rebuild.
DropsOld(drop) ==
    /\ At("reindex", "drop")
    /\ LET previous == IF setup.swaps THEN "fresh" ELSE "old" IN
       target' = IF drop THEN [target EXCEPT ![previous] = [k \in Keys |-> Absent]] ELSE target
    /\ command' = NoCommand
    /\ UNCHANGED <<setup, src, file, live, attempt, store, alias, reload, loads, said>>

\* The step the command prints: the section names the fresh index.
Repoints ==
    /\ command.kind = "none"
    /\ file.index # alias /\ ~live.up
    /\ file' = [file EXCEPT !.index = alias]
    /\ UNCHANGED <<setup, src, live, attempt, store, target, alias, reload, loads, said, command>>

---------------------------------------------------------------------------

\* A key a reconcile is about to delete is not inserted meanwhile.
Reinserted(k, put) == put /\ At("reconcile", "delete") /\ k \in command.keys

Init == command = NoCommand /\ \E s \in Setups : InitOf(s)

\* The pipeline is started again when a rebuild is over and its index named.
Pipeline ==
    /\ \/ Streaming
       \/ Loading
       \/ Reloading
       \/ Crashes
       \/ command.kind # "reindex" /\ file.index = alias /\ Boots
       \/ AlignsPublication
       \/ \E k \in Keys, put \in BOOLEAN :
            (ReinsertRace \/ ~Reinserted(k, put)) /\ CommitsRow(k, put)
       \/ \E i \in Indexes, k \in Keys : TombstoneExpires(i, k)
    /\ command' = [command EXCEPT !.covered = @ /\ Covered']

Commands ==
    \/ Resnapshots \/ Reconciles \/ Reindexes
    \/ ReadsPosition \/ ReadsRange \/ WritesRange
    \/ ScansKeys \/ FindsOrphans \/ DeletesOrphans
    \/ FindsSlot \/ ReadsCheckpointAgain \/ CountsRows \/ Verifies
    \/ SwitchesAlias \/ (\E drop \in BOOLEAN : DropsOld(drop)) \/ Repoints

Next == Pipeline \/ Commands

Spec == Init /\ [][Next]_vars

---------------------------------------------------------------------------
(* Properties.                                                             *)

\* Nothing is on its way to the target.
Drained ==
    /\ live.up /\ attempt.state = "streaming"
    /\ attempt.read = Len(src.log) /\ attempt.queue = <<>>
    /\ \A l \in DOMAIN loads : loads[l].at = "off"
    /\ reload.step = "idle" /\ command.kind = "none"

\* Once a load, a re-snapshot or a rebuild has said that the table is synced,
\* and the stream is drained, every row is in the readers' index as it is: no
\* row falls between the load and the stream, whatever was refused, failed,
\* crashed, removed and added again on the way.
JoinedIsSynced ==
    Drained /\ said.synced => \A k \in Rows : target[alias][k].value = src.rows[k]

\* The only documents without a row are those the section held when it left and
\* no reconcile or rebuild has removed since: a copied or replayed row never
\* brings back a deleted one.
OnlyKnownStrays ==
    Drained /\ said.synced => Documents(alias) \ Rows \subseteq said.strays

\* The newest change to a key at or below a position.
Newest(k, position) ==
    LET at == {i \in 1 .. position : src.log[i].key = k}
    IN IF at = {} THEN 0 ELSE CHOOSE i \in at : \A j \in at : j <= i

DeletedSince(k, position) ==
    \E i \in position + 1 .. Len(src.log) : src.log[i].key = k /\ ~src.log[i].put

\* A reconnect keeps the acknowledged position and reads from the checkpoint, so
\* it may be filing again what was acknowledged before.
Replaying ==
    \/ attempt.read < attempt.acked
    \/ attempt.queue # <<>> /\ Head(attempt.queue).at <= attempt.acked

\* Read your writes: /synced answers yes for every position up to the
\* acknowledged one, and then, unless a reconnect is replaying, each key of a
\* synced table shows the newest change up to there or a later one.
SyncedIsApplied ==
    live.up /\ live.rules /\ said.synced /\ ~Replaying =>
        \A k \in Keys :
            LET i == Newest(k, attempt.acked)
                value == target[live.index][k].value
            IN i # 0 =>
                IF src.log[i].put
                THEN value >= i \/ (DeletedSince(k, i) /\ (value = 0 \/ k \in said.strays))
                ELSE value = 0 \/ value > i \/ k \in said.strays
=============================================================================
