--------------------------- MODULE OperationsProofs ---------------------------
(***************************************************************************)
(* A table that joins, leaves and rejoins a running pipeline, with the      *)
(* commands beside it: no row falls between a load and the stream, no       *)
(* deleted row comes back, and a position reported as synced is readable.   *)
(*                                                                          *)
(* A document is good (DocOK) when it shows the table as it was at some     *)
(* position of the log and every later change to its key is still to be     *)
(* filed.  The invariant says which documents are good at which moment of a *)
(* load, a command, a reload or a restart; that a good document stays good  *)
(* (Serves) is shown once for every step that touches it.                   *)
(***************************************************************************)
EXTENDS Operations, FiniteSetTheorems, TLAPS

(* The types.                                                              *)

Entry == [key : 0 .. KeyCount, put : BOOLEAN, published : BOOLEAN]
Change == [at : Nat, key : 0 .. KeyCount, put : BOOLEAN]
Document == [version : Nat, value : Nat]
Load == [at : {"off", "start", "position", "range", "send", "mark", "record", "clear"},
         done : Nat, version : Nat, row : Nat]
Ahead == {"marker", "position", "barrier", "admit", "adopt", "load", "loading"}
Steps == Ahead \cup {"idle", "publish", "drop", "forget", "unpublish"}

Sources == [rows : [Keys -> Nat], published : BOOLEAN, log : Seq(Entry)]
ConfigFiles == [section : BOOLEAN, index : Indexes]
Processes == [up : BOOLEAN, tables : BOOLEAN, rules : BOOLEAN, current : BOOLEAN, index : Indexes]
Attempts == [state : {"none", "streaming", "draining"}, read : Nat, queue : Seq(Change),
             acked : Nat, answered : BOOLEAN, window : BOOLEAN, gone : [Keys -> Nat]]
Stores == [checkpoint : Nat, progress : [stored : BOOLEAN, done : Nat]]
Targets == [Indexes -> [Keys -> Document]]
ReloadTasks == [step : Steps, pending : BOOLEAN, position : Nat]
Reports == [synced : BOOLEAN, strays : SUBSET Keys]
CommandStates ==
  [kind : {"none", "resnapshot", "reconcile", "reindex"},
   at : {"off", "position", "range", "write", "scan", "keys", "delete",
         "slot", "again", "count", "verify", "switch", "drop"},
   done : Nat, version : Nat, row : Nat, keys : SUBSET Keys,
   before : Nat, checkpoint : Nat, covered : BOOLEAN]

SectionTypes ==
  /\ setup \in Deployments /\ src \in Sources /\ file \in ConfigFiles /\ live \in Processes
  /\ attempt \in Attempts /\ store \in Stores /\ target \in Targets /\ alias \in Indexes
  /\ reload \in ReloadTasks /\ loads \in [{"attempt", "join"} -> Load] /\ said \in Reports

CommandType == command \in CommandStates

-----------------------------------------------------------------------------
(* What the table looked like, and what is still to come.                  *)

\* An attempt is streaming or draining.
Active == attempt.state # "none"
\* The last position of the source's log.
Last == Len(src.log)

\* The change at j is on the attempt's channel as one of k.
Queued(k, j) == \E x \in 1 .. Len(attempt.queue) : attempt.queue[x].at = j /\ attempt.queue[x].key = k

\* The change at j is not acknowledged, and this attempt or the next one files it.
InSent(k, j) ==
  /\ src.log[j].published
  /\ j > store.checkpoint /\ j > attempt.acked
  /\ Active => j > attempt.read \/ Queued(k, j)

\* Whatever happened to k after q is still to be filed.
Follows(k, q) == \A j \in q + 1 .. Last : src.log[j].key = k => InSent(k, j)

\* The row a key has before the first change.
Original(k) == IF k = 1 THEN 1 ELSE 0

\* At position q the row of k is `value`.
Shows(k, q, value) ==
  \/ \E i \in 1 .. q :
       /\ src.log[i].key = k /\ value = (IF src.log[i].put THEN i ELSE 0)
       /\ \A j \in i + 1 .. q : src.log[j].key # k
  \/ (\A j \in 1 .. q : src.log[j].key # k) /\ value = Original(k)

\* The document shows the row at q, or it is a known stray of a row that is gone,
\* and what comes after q is still to be filed over it.
Reflects(d, k, q) ==
  /\ d.version <= q + 1
  /\ Follows(k, q)
  /\ \/ Shows(k, q, d.value) /\ (d.value > d.version => Follows(k, d.version))
     \/ k \in said.strays /\ Shows(k, q, 0)

\* The document is good.
DocOK(d, k) == \E q \in 1 .. Last : Reflects(d, k, q)

\* The table is published, admitted by the source and filed by the engine.
InForce == src.published /\ (live.up => live.tables /\ live.rules)

\* A copy of k versioned v may be filed over the document d.
Read(d, k, v) == v <= Last /\ (IF d.version > v THEN DocOK(d, k) ELSE Follows(k, v))
\* The row was k's at v or later.
Taken(k, v, row) == \E q \in 1 .. Last : v <= q /\ Shows(k, q, row)

\* The document the readers see.
Seen(k) == target[alias][k]

-----------------------------------------------------------------------------
(* The invariant.                                                          *)

\* Positions of the attempt and the checkpoint lie in the log.
PositionsOK ==
  /\ Last >= 1 /\ attempt.acked <= Last /\ store.checkpoint <= Last /\ attempt.read <= Last
  /\ Active => live.up /\ attempt.read >= store.checkpoint
  /\ Active /\ attempt.answered => attempt.acked <= attempt.read
  /\ ~Active => attempt.queue = <<>>

\* A change on the channel, as it was read from the log.
Carried(change) ==
  /\ change.at \in 1 .. Last /\ change.at <= attempt.read /\ change.at > store.checkpoint
  /\ change.key \in {0, src.log[change.at].key}
  /\ change.put = src.log[change.at].put /\ src.log[change.at].published
  /\ attempt.answered => change.at > attempt.acked

\* The channel holds changes in the order of the log.
ChannelOK ==
  \A x \in 1 .. Len(attempt.queue) :
    /\ Carried(attempt.queue[x])
    /\ \A y \in x + 1 .. Len(attempt.queue) : attempt.queue[x].at < attempt.queue[y].at

\* The streaming attempt.
QueueOK == PositionsOK /\ ChannelOK

\* The rows are what the log leaves of them.
SourceOK == \A k \in Keys : Shows(k, Last, src.rows[k])

\* The stream has still to bring the put at i, or may bring it again.
Brings(k, i) == src.log[i].key = k /\ src.log[i].put /\ src.log[i].published /\ i > store.checkpoint

\* A put of k is still to be brought.
Awaited(k) == \E i \in 1 .. Last : Brings(k, i)

\* It brings the change at j after the one at i.
Succeeds(k, i, j) ==
  src.log[j].published /\ (Active /\ Queued(k, i) => j > attempt.read \/ Queued(k, j))

\* Nothing of k is missing behind a put that may still be filed.
Regular(k) ==
  \A i \in 1 .. Last : Brings(k, i) => \A j \in i + 1 .. Last : src.log[j].key = k => Succeeds(k, i, j)

\* What the stream may still file of k, also while the section is out, ends as the row does.
Orderly(k) ==
  /\ Regular(k)
  /\ ~src.published => ~Awaited(k)
  /\ live.up /\ ~live.tables => \A x \in 1 .. Len(attempt.queue) :
        attempt.queue[x].key = k => ~attempt.queue[x].put

\* Every key the operator was not told of is orderly.
StraysOK == \A k \in Keys \ said.strays : Orderly(k)

\* How far a reload is, against what the source and the engine have in force.
ControlOK ==
  /\ Mysql => src.published
  /\ live.up /\ (live.tables \/ live.rules) => src.published
  /\ live.up => live.index = alias /\ file.index = alias
  /\ live.rules => live.tables \/ reload.step = "forget"
  /\ ~live.up => reload.step = "idle" /\ ~live.tables /\ ~live.rules
  /\ reload.step \in Ahead => src.published
  /\ reload.step \in {"adopt", "load", "loading"} => live.tables
  /\ reload.step \in {"load", "loading"} => live.rules
  /\ reload.step \in {"drop", "forget", "unpublish"} => ~store.progress.stored /\ loads["attempt"].at = "off"
  /\ reload.step \in {"forget", "unpublish"} => ~live.tables
  /\ reload.step = "unpublish" => ~live.rules /\ ~Mysql
  /\ loads["join"].at # "off" <=> reload.step = "loading"
  /\ ~store.progress.stored => store.progress.done = 0
  /\ store.progress.done <= KeyCount

\* The file is not edited: a section that is in it stays in force.
StaticOK ==
  /\ setup.edits = 0
  /\ file.section =>
      /\ said.strays = {} /\ said.synced /\ reload.step = "idle"
      /\ live.up => live.current
      /\ command.kind # "none" => command.covered
  /\ ~file.section => command.kind = "none" /\ file.index = alias

\* A reconcile is running or may still be run.
Reconcilable == command.kind = "reconcile" \/ "reconcile" \in setup.commands

\* Rows are copied by a command, or the file is edited, but not both.
ApartOK ==
  \/ StaticOK
  \/ setup.commands \subseteq {"reconcile"} /\ command.kind \in {"none", "reconcile"} /\ file.index = alias

\* A load: the keys behind it are good, the row it holds may be filed.
LoadOK(l) ==
  LET it == loads[l] IN
  it.at # "off" =>
    /\ live.up /\ InForce /\ Active /\ (l = "attempt" => attempt.state = "streaming")
    /\ it.at = "start" => it.done = 0
    /\ it.at \in {"position", "range", "send", "mark"} => it.done < KeyCount
    /\ it.at = "record" => it.done <= KeyCount
    /\ it.at = "clear" => it.done = KeyCount
    /\ \A k \in 1 .. it.done : DocOK(Seen(k), k)
    /\ it.at \in {"range", "send"} => Read(Seen(it.done + 1), it.done + 1, it.version)
    /\ it.at = "send" => Taken(it.done + 1, it.version, it.row)
    /\ it.at = "mark" => DocOK(Seen(it.done + 1), it.done + 1)

\* The load of the attempt and that of the joining table.
LoadsOK == \A l \in {"attempt", "join"} : LoadOK(l)

\* A document that is there is a known stray, or good.
KnownOK == \A k \in Keys : Seen(k).value = 0 \/ k \in said.strays \/ (InForce /\ DocOK(Seen(k), k))

\* A table said to be synced is good, key by key.
SyncedOK == said.synced => InForce /\ \A k \in Keys : DocOK(Seen(k), k)

\* Stored progress of a load claims only keys that are good.
ProgressOK == store.progress.stored => InForce /\ \A k \in 1 .. store.progress.done : DocOK(Seen(k), k)

\* A version is a position of the log, but for the tombstone a reconcile leaves, which
\* is one further and of a row that is gone; the window remembers no more than was filed.
VersionsOK ==
  /\ \A k \in Keys :
      /\ Seen(k).version <= Last + 1
      /\ Seen(k).version = Last + 1 => Seen(k).value = 0 /\ src.rows[k] = 0
      /\ Reconcilable => Seen(k).version <= Last
      /\ Active => attempt.gone[k] <= Seen(k).version
      /\ Active => attempt.gone[k] <= Last

\* A re-snapshot fills the index the readers see.
Copying == command.kind = "resnapshot" /\ file.index = alias

\* The command that runs.
CommandOK ==
  /\ command.kind = "none" <=> command.at = "off"
  /\ command.kind = "resnapshot" => command.at \in {"position", "range", "write"}
  /\ command.kind = "reconcile" => command.at \in {"scan", "keys", "delete"} /\ ~Mysql
  /\ command.kind = "reindex" => command.at \in {"slot", "again", "count", "position", "range", "write", "verify", "switch", "drop"}
  /\ command.kind = "reindex" => ~live.up
  /\ command.kind \notin setup.commands
  /\ command.kind \in {"resnapshot", "reindex"} => file.section
  /\ command.at \in {"position", "range", "write"} => command.done < KeyCount
  /\ At("reconcile", "delete") => \A k \in command.keys : src.rows[k] = 0
  /\ Copying /\ command.at \in {"range", "write"} => Read(Seen(command.done + 1), command.done + 1, command.version)
  /\ Copying /\ command.at = "write" => Taken(command.done + 1, command.version, command.row)

\* The fresh index: empty before the rebuild, good as far as it has come, then the readers'.
FreshOK ==
  /\ "reindex" \in setup.commands => alias = "old" /\ file.index = "old" /\ \A k \in Keys : target["fresh"][k] = Absent
  /\ command.kind = "reindex" /\ command.at # "drop" =>
      /\ alias = "old" /\ file.index = "old"
      /\ command.at \in {"slot", "again", "count"} => command.done = 0
      /\ \A k \in Keys : target["fresh"][k].version <= Last
      /\ \A k \in Keys :
           IF k <= command.done \/ command.at \in {"verify", "switch"}
           THEN DocOK(target["fresh"][k], k) ELSE target["fresh"][k] = Absent
      /\ command.at \in {"range", "write"} => command.version <= Last /\ Follows(command.done + 1, command.version)
      /\ command.at = "write" => Taken(command.done + 1, command.version, command.row)
  /\ At("reindex", "drop") => alias = IF setup.swaps THEN "old" ELSE "fresh"

\* The provisos, once a deployment is chosen.
Provided == ~setup.expires /\ ~StaleProgress /\ ~ReinsertRace /\ ~LiveRebuild

OperationsInv ==
  /\ SectionTypes /\ CommandType /\ Provided /\ QueueOK /\ SourceOK /\ StraysOK /\ ControlOK /\ ApartOK
  /\ LoadsOK /\ KnownOK /\ SyncedOK /\ ProgressOK /\ VersionsOK /\ CommandOK /\ FreshOK

-----------------------------------------------------------------------------
(* Types are kept.                                                         *)

\* A load that is off is a load.
LEMMA NoLoadType == NoLoad \in Load
BY DEF NoLoad, Load

\* The steps of the streaming attempt.
LEMMA StreamingTypes ==
  ASSUME OperationsInv, Streaming PROVE SectionTypes'
<1>0. SectionTypes /\ KeyCount \in Nat \ {0} /\ QueueDepth \in Nat \ {0}
  BY OperationsAssumption DEF OperationsInv
<1>a. attempt \in Attempts /\ src \in Sources
  BY <1>0 DEF SectionTypes
<1>1. CASE AttemptStarts
  <2>1. Pending \in BOOLEAN
    BY <1>0 DEF Pending, SectionTypes, Processes, Stores
  <2>2. [k \in Keys |-> 0] \in [Keys -> Nat] /\ <<>> \in Seq(Change)
    OBVIOUS
  <2>3. attempt' \in Attempts
    BY <1>0, <1>1, <2>1, <2>2 DEF AttemptStarts, SectionTypes, Attempts, Stores
  <2>4. loads' \in [{"attempt", "join"} -> Load]
    BY <1>0, <1>1 DEF AttemptStarts, NoLoad, Load, SectionTypes
  <2> QED BY <1>0, <1>1, <2>3, <2>4 DEF AttemptStarts, SectionTypes
<1>2. CASE Decodes
  <2>1. attempt.read + 1 \in 1 .. Len(src.log)
    BY <1>a, <1>2 DEF Decodes, Sources, Attempts
  <2> DEFINE at == attempt.read + 1
             one == [at |-> at, key |-> IF live.tables THEN src.log[at].key ELSE 0, put |-> src.log[at].put]
  <2>3. at \in Nat /\ src.log[at] \in Entry
    BY <1>a, <2>1 DEF Sources
  <2>5. one \in Change
    BY <1>0, <2>3 DEF Entry, Change
  <2>6. attempt' = [attempt EXCEPT !.read = at, !.queue = IF src.log[at].published THEN Append(@, one) ELSE @]
    BY <1>2 DEF Decodes
  <2> HIDE DEF at, one
  <2>7. attempt.queue \in Seq(Change) /\ Append(attempt.queue, one) \in Seq(Change)
    BY <1>a, <2>5 DEF Attempts
  <2>8. attempt' \in Attempts
    BY <1>a, <2>3, <2>6, <2>7 DEF Attempts
  <2> QED BY <1>0, <1>2, <2>8 DEF Decodes, SectionTypes
<1>3. CASE Files
  <2>1. PICK head : head = Head(attempt.queue)
    OBVIOUS
  <2>2. head \in Change /\ Tail(attempt.queue) \in Seq(Change)
    BY <1>a, <1>3, <2>1 DEF Files, Attempts
  <2>3. attempt' \in Attempts
    BY <1>a, <1>3, <2>1, <2>2 DEF Files, Change, Attempts
  <2>4. target' \in Targets
    <3>1. CASE target' = target
      BY <3>1, <1>0 DEF SectionTypes
    <3>2. CASE head.key # 0 /\ target' = [target EXCEPT ![live.index] =
                        Put(target[live.index], head.key, head.at, IF head.put THEN head.at ELSE 0)]
      <4>1. head.key \in Keys /\ live.index \in Indexes /\ target \in Targets /\ head.at \in Nat
        BY <1>0, <2>2, <3>2 DEF Change, SectionTypes, Processes, Keys
      <4>2. Put(target[live.index], head.key, head.at, IF head.put THEN head.at ELSE 0) \in [Keys -> Document]
        BY <4>1 DEF Put, Targets, Document
      <4> QED BY <3>2, <4>1, <4>2 DEF Targets
    <3> QED BY <1>3, <2>1, <3>1, <3>2 DEF Files
  <2> QED BY <1>0, <1>3, <2>3, <2>4 DEF Files, SectionTypes
<1>4. CASE StoresCheckpoint
  <2>1. store' \in Stores
    BY <1>0, <1>4 DEF StoresCheckpoint, SectionTypes, Stores, Attempts
  <2> QED BY <1>0, <1>4, <2>1 DEF StoresCheckpoint, SectionTypes
<1>5. CASE StreamFails
  <2>1. setup' \in Deployments
    BY <1>0, <1>5 DEF StreamFails, SectionTypes, Deployments
  <2>2. attempt' \in Attempts
    BY <1>0, <1>5 DEF StreamFails, SectionTypes, Attempts
  <2>3. loads' \in [{"attempt", "join"} -> Load]
    BY <1>0, <1>5, NoLoadType DEF StreamFails, SectionTypes
  <2> QED BY <1>0, <1>5, <2>1, <2>2, <2>3 DEF StreamFails, SectionTypes
<1>6. CASE AttemptEnds
  <2>1. attempt' \in Attempts
    BY <1>0, <1>6 DEF AttemptEnds, SectionTypes, Attempts
  <2> QED BY <1>0, <1>6, <2>1 DEF AttemptEnds, SectionTypes
<1>7. CASE EngineHalts
  <2>1. setup' \in Deployments
    BY <1>0, <1>7 DEF EngineHalts, SectionTypes, Deployments
  <2>2. attempt' \in Attempts
    <3>1. <<>> \in Seq(Change)
      OBVIOUS
    <3> QED BY <1>0, <1>7, <3>1 DEF EngineHalts, SectionTypes, Attempts
  <2>3. loads' \in [{"attempt", "join"} -> Load]
    BY <1>0, <1>7, NoLoadType DEF EngineHalts, SectionTypes
  <2>4. reload' \in ReloadTasks
    BY <1>0, <1>7 DEF EngineHalts, SectionTypes, ReloadTasks, Steps
  <2> QED BY <1>0, <1>7, <2>1, <2>2, <2>3, <2>4 DEF EngineHalts, SectionTypes
<1> QED BY <1>1, <1>2, <1>3, <1>4, <1>5, <1>6, <1>7 DEF Streaming

\* What the types need of the loads and of the command that runs.
LEMMA LoadRanges ==
  ASSUME OperationsInv, NEW l \in {"attempt", "join"}
  PROVE  /\ loads[l] \in Load /\ DOMAIN loads = {"attempt", "join"}
         /\ loads[l].at \in {"position", "range", "send", "mark"} => loads[l].done + 1 \in Keys
<1>1. loads \in [{"attempt", "join"} -> Load] /\ KeyCount \in Nat
  BY OperationsAssumption DEF OperationsInv, SectionTypes
<1>2. loads[l].at \in {"position", "range", "send", "mark"} => loads[l].done < KeyCount
  BY DEF OperationsInv, LoadsOK, LoadOK
<1> QED BY <1>1, <1>2 DEF Load, Keys

\* A versioned write leaves indexes of documents.
LEMMA PutType ==
  ASSUME target \in Targets, NEW i \in Indexes, NEW k \in Keys, NEW version \in Nat, NEW value \in Nat
  PROVE  [target EXCEPT ![i] = Put(target[i], k, version, value)] \in Targets
<1>1. Put(target[i], k, version, value) \in [Keys -> Document]
  BY DEF Put, Targets, Document
<1> QED BY <1>1 DEF Targets

\* The steps of a load.
LEMMA LoadingTypes ==
  ASSUME OperationsInv, Loading PROVE SectionTypes'
<1>0. SectionTypes /\ KeyCount \in Nat \ {0}
  BY OperationsAssumption DEF OperationsInv, SectionTypes
<1>a. /\ attempt \in Attempts /\ src \in Sources /\ store \in Stores /\ target \in Targets
      /\ loads \in [{"attempt", "join"} -> Load] /\ said \in Reports /\ reload \in ReloadTasks
      /\ live \in Processes
  BY <1>0 DEF SectionTypes
<1>b. PICK l \in {"attempt", "join"} :
        \/ LoadBegins(l) \/ LoadReadsPosition(l) \/ LoadReadsRange(l)
        \/ LoadIsFiled(l) \/ LoadIsMarked(l) \/ LoadRecords(l) \/ LoadEnds(l)
  BY <1>a DEF Loading
<1>c. loads[l] \in Load
  BY <1>a
<1>d. [k \in Keys |-> 0] \in [Keys -> Nat]
  OBVIOUS
<1>1. CASE LoadBegins(l)
  <2>1. store' \in Stores
    BY <1>a, <1>1 DEF LoadBegins, Stores
  <2>2. loads' \in [{"attempt", "join"} -> Load]
    BY <1>a, <1>1 DEF LoadBegins, NoLoad, Load, Stores
  <2> QED BY <1>0, <1>1, <2>1, <2>2 DEF LoadBegins, SectionTypes
<1>2. CASE LoadReadsPosition(l)
  <2>1. Len(src.log) \in Nat
    BY <1>a DEF Sources
  <2>2. loads' \in [{"attempt", "join"} -> Load]
    BY <1>a, <1>c, <1>2, <2>1 DEF LoadReadsPosition, Load
  <2> QED BY <1>0, <1>2, <2>2 DEF LoadReadsPosition, SectionTypes
<1>3. CASE LoadReadsRange(l)
  <2>1. src.rows[loads[l].done + 1] \in Nat
    BY <1>a, <1>3, LoadRanges DEF LoadReadsRange, Sources
  <2>2. loads' \in [{"attempt", "join"} -> Load]
    BY <1>a, <1>c, <1>3, <2>1 DEF LoadReadsRange, Load
  <2> QED BY <1>0, <1>3, <2>2 DEF LoadReadsRange, SectionTypes
<1>4. CASE LoadIsFiled(l)
  <2>1. loads[l].done + 1 \in Keys /\ loads[l].version \in Nat /\ loads[l].row \in Nat /\ live.index \in Indexes
    BY <1>a, <1>4, LoadRanges DEF LoadIsFiled, Load, Processes
  <2>2. target' \in Targets
    BY <1>a, <1>4, <2>1, PutType DEF LoadIsFiled
  <2>3. loads' \in [{"attempt", "join"} -> Load]
    BY <1>a, <1>c, <1>4 DEF LoadIsFiled, Load
  <2> QED BY <1>0, <1>4, <2>2, <2>3 DEF LoadIsFiled, SectionTypes
<1>5. CASE LoadIsMarked(l)
  <2>1. attempt' \in Attempts
    BY <1>a, <1>d, <1>5 DEF LoadIsMarked, Attempts
  <2>2. loads' \in [{"attempt", "join"} -> Load]
    BY <1>a, <1>c, <1>5 DEF LoadIsMarked, Load
  <2> QED BY <1>0, <1>5, <2>1, <2>2 DEF LoadIsMarked, SectionTypes
<1>6. CASE LoadRecords(l)
  <2>1. store' \in Stores
    BY <1>a, <1>c, <1>6 DEF LoadRecords, Stores, Load
  <2>2. loads' \in [{"attempt", "join"} -> Load]
    BY <1>a, <1>c, <1>6 DEF LoadRecords, Load
  <2> QED BY <1>0, <1>6, <2>1, <2>2 DEF LoadRecords, SectionTypes
<1>7. CASE LoadEnds(l)
  <2>1. store' \in Stores
    BY <1>a, <1>7 DEF LoadEnds, Stores, NoProgress
  <2>2. loads' \in [{"attempt", "join"} -> Load]
    BY <1>a, <1>7, NoLoadType DEF LoadEnds
  <2>3. attempt' \in Attempts
    BY <1>a, <1>d, <1>7 DEF LoadEnds, Attempts
  <2>4. reload' \in ReloadTasks /\ live' \in Processes
    BY <1>a, <1>7 DEF LoadEnds, ReloadTasks, Processes, Steps
  <2>5. said' \in Reports
    BY <1>a, <1>7 DEF LoadEnds, Reports, Processes
  <2> QED BY <1>0, <1>7, <2>1, <2>2, <2>3, <2>4, <2>5 DEF LoadEnds, SectionTypes
<1> QED BY <1>b, <1>1, <1>2, <1>3, <1>4, <1>5, <1>6, <1>7

\* A budget that is spent.
LEMMA SpentType ==
  ASSUME setup \in Deployments
  PROVE  /\ setup.edits > 0 => [setup EXCEPT !.edits = @ - 1] \in Deployments
         /\ setup.signals > 0 => [setup EXCEPT !.signals = @ - 1] \in Deployments
         /\ setup.crashes > 0 => [setup EXCEPT !.crashes = @ - 1] \in Deployments
         /\ setup.changes > 0 => [setup EXCEPT !.changes = @ - 1] \in Deployments
<1>1. /\ setup.edits > 0 => setup.edits - 1 \in Nat
      /\ setup.signals > 0 => setup.signals - 1 \in Nat
      /\ setup.crashes > 0 => setup.crashes - 1 \in Nat
      /\ setup.changes > 0 => setup.changes - 1 \in Nat
  BY DEF Deployments
<1> QED BY <1>1 DEF Deployments

\* The steps of a reload.
LEMMA ReloadingTypes ==
  ASSUME OperationsInv, Reloading PROVE SectionTypes'
<1>0. SectionTypes
  BY DEF OperationsInv
<1>a. /\ src \in Sources /\ setup \in Deployments /\ file \in ConfigFiles /\ attempt \in Attempts
      /\ said \in Reports /\ reload \in ReloadTasks /\ live \in Processes
  BY <1>0 DEF SectionTypes
<1>1. CASE EditsFile
  <2>1. setup' \in Deployments
    BY <1>a, <1>1, SpentType DEF EditsFile
  <2>2. file' \in ConfigFiles
    BY <1>a, <1>1 DEF EditsFile, ConfigFiles
  <2> QED BY <1>0, <1>1, <2>1, <2>2 DEF EditsFile, SectionTypes
<1>2. CASE Hangup
  <2>1. setup' \in Deployments
    BY <1>a, <1>2, SpentType DEF Hangup
  <2>2. reload' \in ReloadTasks
    BY <1>a, <1>2 DEF Hangup, ReloadTasks
  <2> QED BY <1>0, <1>2, <2>1, <2>2 DEF Hangup, SectionTypes
<1>3. CASE Reloads
  <2>1. reload' \in ReloadTasks
    BY <1>a, <1>3 DEF Reloads, Edit, ReloadTasks, Steps, Ahead
  <2> QED BY <1>0, <1>3, <2>1 DEF Reloads, SectionTypes
<1>4. CASE Refuses
  <2>1. reload' \in ReloadTasks
    BY <1>a, <1>4 DEF Refuses, ReloadTasks, Steps
  <2> QED BY <1>0, <1>4, <2>1 DEF Refuses, SectionTypes
<1>5. CASE Publishes
  <2>1. reload' \in ReloadTasks /\ src' \in Sources
    BY <1>a, <1>5 DEF Publishes, ReloadTasks, Sources, Steps, Ahead
  <2> QED BY <1>0, <1>5, <2>1 DEF Publishes, SectionTypes
<1>6. CASE EmitsMarker
  <2>1. KeyCount \in Nat
    BY OperationsAssumption
  <2>2. [key |-> 0, put |-> TRUE, published |-> TRUE] \in Entry
    BY <2>1 DEF Entry
  <2>3. reload' \in ReloadTasks
    BY <1>a, <1>6 DEF EmitsMarker, ReloadTasks, Steps, Ahead
  <2>4. src.log \in Seq(Entry)
    BY <1>a DEF Sources
  <2>5. Append(src.log, [key |-> 0, put |-> TRUE, published |-> TRUE]) \in Seq(Entry)
    BY <2>2, <2>4
  <2>6. src' \in Sources
    BY <1>a, <1>6, <2>5 DEF EmitsMarker, Sources
  <2> QED BY <1>0, <1>6, <2>3, <2>6 DEF EmitsMarker, SectionTypes
<1>7. CASE ReadsBarrier
  <2>1. Len(src.log) \in Nat
    BY <1>a DEF Sources
  <2>2. reload' \in ReloadTasks
    BY <1>a, <1>7, <2>1 DEF ReadsBarrier, ReloadTasks, Steps, Ahead
  <2> QED BY <1>0, <1>7, <2>2 DEF ReadsBarrier, SectionTypes
<1>8. CASE PassesBarrier
  <2>1. reload' \in ReloadTasks
    BY <1>a, <1>8 DEF PassesBarrier, ReloadTasks, Steps, Ahead
  <2> QED BY <1>0, <1>8, <2>1 DEF PassesBarrier, SectionTypes
<1>9. CASE Admits
  <2>1. reload' \in ReloadTasks /\ live' \in Processes
    BY <1>a, <1>9 DEF Admits, ReloadTasks, Processes, Steps, Ahead
  <2> QED BY <1>0, <1>9, <2>1 DEF Admits, SectionTypes
<1>10. CASE Adopts
  <2>1. reload' \in ReloadTasks /\ live' \in Processes
    BY <1>a, <1>10 DEF Adopts, ReloadTasks, Processes, Steps, Ahead
  <2> QED BY <1>0, <1>10, <2>1 DEF Adopts, SectionTypes
<1>11. CASE LoadStarts
  <2>1. reload' \in ReloadTasks /\ attempt' \in Attempts
    BY <1>a, <1>11 DEF LoadStarts, ReloadTasks, Attempts, Steps, Ahead
  <2>2. [NoLoad EXCEPT !.at = "start"] \in Load
    BY DEF NoLoad, Load
  <2>3. loads' \in [{"attempt", "join"} -> Load]
    BY <1>0, <1>11, <2>2 DEF LoadStarts, SectionTypes
  <2> QED BY <1>0, <1>11, <2>1, <2>3 DEF LoadStarts, SectionTypes
<1>12. CASE Drops
  <2>1. reload' \in ReloadTasks /\ live' \in Processes
    BY <1>a, <1>12 DEF Drops, ReloadTasks, Processes, Steps
  <2>2. said' \in Reports
    BY <1>a, <1>12 DEF Drops, Reports, Held, Behind
  <2> QED BY <1>0, <1>12, <2>1, <2>2 DEF Drops, SectionTypes
<1>13. CASE Forgets
  <2>1. reload' \in ReloadTasks /\ live' \in Processes
    BY <1>a, <1>13 DEF Forgets, ReloadTasks, Processes, Steps
  <2>2. said' \in Reports
    BY <1>a, <1>13 DEF Forgets, Reports, Held
  <2> QED BY <1>0, <1>13, <2>1, <2>2 DEF Forgets, SectionTypes
<1>14. ASSUME NEW may \in BOOLEAN, Unpublishes(may) PROVE SectionTypes'
  <2>1. reload' \in ReloadTasks /\ src' \in Sources
    BY <1>a, <1>14 DEF Unpublishes, ReloadTasks, Sources, Steps
  <2>2. said' \in Reports
    BY <1>a, <1>14 DEF Unpublishes, Reports, Behind
  <2> QED BY <1>0, <1>14, <2>1, <2>2 DEF Unpublishes, SectionTypes
<1> QED BY <1>1, <1>2, <1>3, <1>4, <1>5, <1>6, <1>7, <1>8, <1>9, <1>10, <1>11, <1>12, <1>13, <1>14
       DEF Reloading

\* The process and the source.
LEMMA CommitTypes ==
  ASSUME OperationsInv, NEW k \in Keys, NEW put \in BOOLEAN, CommitsRow(k, put)
  PROVE  /\ SectionTypes'
         /\ [key |-> k, put |-> put, published |-> Mysql \/ src.published] \in Entry
<1>0. SectionTypes /\ src \in Sources /\ setup \in Deployments /\ KeyCount \in Nat
  BY OperationsAssumption DEF OperationsInv, SectionTypes
<1>1. (Mysql \/ src.published) \in BOOLEAN /\ k \in 0 .. KeyCount
  BY <1>0 DEF Mysql, Sources, Keys
<1>2. [key |-> k, put |-> put, published |-> Mysql \/ src.published] \in Entry
  BY <1>1 DEF Entry
<1>3. setup' \in Deployments
  BY <1>0, SpentType DEF CommitsRow
<1>4. src' \in Sources
  <2>1. src.log \in Seq(Entry) /\ src.rows \in [Keys -> Nat] /\ Len(src.log) \in Nat
    BY <1>0 DEF Sources
  <2>2. Append(src.log, [key |-> k, put |-> put, published |-> Mysql \/ src.published]) \in Seq(Entry)
    BY <1>2, <2>1
  <2>3. [src.rows EXCEPT ![k] = IF put THEN Len(src.log) + 1 ELSE 0] \in [Keys -> Nat]
    BY <2>1
  <2> QED BY <1>0, <2>2, <2>3 DEF CommitsRow, Sources
<1> QED BY <1>0, <1>2, <1>3, <1>4 DEF CommitsRow, SectionTypes

\* A crash, a start, and the publication aligned before one.
LEMMA ProcessTypes ==
  ASSUME OperationsInv, Crashes \/ Boots \/ AlignsPublication
  PROVE  SectionTypes'
<1>0. SectionTypes
  BY DEF OperationsInv
<1>a. /\ src \in Sources /\ setup \in Deployments /\ file \in ConfigFiles /\ attempt \in Attempts
      /\ said \in Reports /\ reload \in ReloadTasks /\ live \in Processes
  BY <1>0 DEF SectionTypes
<1>1. CASE Crashes
  <2>1. <<>> \in Seq(Change)
    OBVIOUS
  <2>2. setup' \in Deployments /\ live' \in Processes
    BY <1>a, <1>1, SpentType DEF Crashes, Processes
  <2>3. attempt' \in Attempts
    BY <1>a, <1>1, <2>1 DEF Crashes, Attempts
  <2>4. reload' \in ReloadTasks
    BY <1>1 DEF Crashes, ReloadTasks, Steps
  <2>5. loads' \in [{"attempt", "join"} -> Load]
    BY <1>0, <1>1, NoLoadType DEF Crashes, SectionTypes
  <2> QED BY <1>0, <1>1, <2>2, <2>3, <2>4, <2>5 DEF Crashes, SectionTypes
<1>2. CASE Boots
  <2>1. live' \in Processes /\ said' \in Reports
    BY <1>a, <1>2 DEF Boots, Processes, ConfigFiles, Reports, Held
  <2> QED BY <1>0, <1>2, <2>1 DEF Boots, SectionTypes
<1>3. CASE AlignsPublication
  <2>1. src' \in Sources /\ said' \in Reports
    BY <1>a, <1>3 DEF AlignsPublication, Sources, ConfigFiles, Reports, Held, Behind
  <2> QED BY <1>0, <1>3, <2>1 DEF AlignsPublication, SectionTypes
<1> QED BY <1>1, <1>2, <1>3

\* Without expiry a tombstone stays.
LEMMA NothingExpires ==
  ASSUME OperationsInv, NEW i \in Indexes, NEW k \in Keys
  PROVE  ~TombstoneExpires(i, k)
BY DEF OperationsInv, Provided, TombstoneExpires

\* The key a command reads or writes is one of the table.
LEMMA CommandRange ==
  ASSUME OperationsInv, command.at \in {"position", "range", "write"}
  PROVE  command.done + 1 \in Keys /\ command.done \in Nat
BY OperationsAssumption DEF OperationsInv, CommandOK, CommandType, CommandStates, Keys

\* The steps of the commands.
LEMMA CommandsTypes ==
  ASSUME OperationsInv, Commands PROVE SectionTypes' /\ CommandType'
<1>0. SectionTypes /\ CommandType /\ KeyCount \in Nat
  BY OperationsAssumption DEF OperationsInv
<1>a. /\ src \in Sources /\ setup \in Deployments /\ file \in ConfigFiles /\ target \in Targets
      /\ said \in Reports /\ command \in CommandStates /\ store \in Stores /\ alias \in Indexes
  BY <1>0 DEF SectionTypes, CommandType
<1>b. NoCommand \in CommandStates
  BY DEF NoCommand, CommandStates
<1>c. Covered \in BOOLEAN
  BY <1>0 DEF Covered, Mysql, SectionTypes, Sources, Processes
<1>d. UNCHANGED sectionVars => SectionTypes'
  BY <1>0 DEF sectionVars, SectionTypes
<1>e. Rows \subseteq Keys /\ \A i : Documents(i) \subseteq Keys
  BY DEF Rows, Documents
<1>1. ASSUME NEW kind \in {"resnapshot", "reconcile", "reindex"}, NEW at \in {"position", "scan", "slot"}, Runs(kind, at)
      PROVE  SectionTypes' /\ CommandType'
  <2>1. setup' \in Deployments
    BY <1>a, <1>1 DEF Runs, Deployments
  <2>2. command' \in CommandStates
    BY <1>c, <1>1 DEF Runs, NoCommand, CommandStates
  <2> QED BY <1>0, <1>1, <2>1, <2>2 DEF Runs, SectionTypes, CommandType
<1>2. CASE ReadsPosition
  <2>1. Len(src.log) \in Nat
    BY <1>a DEF Sources
  <2>2. command' \in CommandStates
    BY <1>a, <1>2, <2>1 DEF ReadsPosition, CommandStates
  <2> QED BY <1>d, <1>2, <2>2 DEF ReadsPosition, CommandType
<1>3. CASE ReadsRange
  <2>1. src.rows[command.done + 1] \in Nat
    BY <1>a, <1>3, CommandRange DEF ReadsRange, Sources
  <2>2. command' \in CommandStates
    BY <1>a, <1>3, <2>1 DEF ReadsRange, CommandStates
  <2> QED BY <1>d, <1>3, <2>2 DEF ReadsRange, CommandType
<1>4. CASE WritesRange
  <2>1. command.done + 1 \in Keys /\ command.version \in Nat /\ command.row \in Nat /\ Filled \in Indexes
    BY <1>a, <1>4, CommandRange DEF WritesRange, CommandStates, Filled, ConfigFiles, Indexes
  <2>2. target' \in Targets
    BY <1>a, <1>4, <2>1, PutType DEF WritesRange, CopyVersion
  <2>3. command' \in CommandStates
    <3>1. PICK next : next = command.done + 1
      OBVIOUS
    <3>2. next \in Nat
      BY <2>1, <3>1 DEF Keys
    <3>3. \/ command' = [command EXCEPT !.at = "position", !.done = next]
          \/ command' = [command EXCEPT !.at = "verify"]
          \/ command' = NoCommand
      BY <1>4, <3>1 DEF WritesRange
    <3>4. [command EXCEPT !.at = "position", !.done = next] \in CommandStates
      BY <1>a, <3>2 DEF CommandStates
    <3>5. [command EXCEPT !.at = "verify"] \in CommandStates
      BY <1>a DEF CommandStates
    <3> QED BY <1>b, <3>3, <3>4, <3>5
  <2>4. said' \in Reports
    BY <1>a, <1>4 DEF WritesRange, Reports
  <2> QED BY <1>0, <1>4, <2>2, <2>3, <2>4 DEF WritesRange, SectionTypes, CommandType
<1>5. CASE ScansKeys
  <2>1. command' \in CommandStates
    BY <1>a, <1>e, <1>5 DEF ScansKeys, CommandStates
  <2> QED BY <1>d, <1>5, <2>1 DEF ScansKeys, CommandType
<1>6. CASE FindsOrphans
  <2>1. command' \in CommandStates
    BY <1>a, <1>e, <1>6 DEF FindsOrphans, CommandStates
  <2> QED BY <1>d, <1>6, <2>1 DEF FindsOrphans, CommandType
<1>7. CASE DeletesOrphans
  <2>1. [k \in Keys |-> IF k \in command.keys
                        THEN [version |-> target[file.index][k].version + 1, value |-> 0]
                        ELSE target[file.index][k]] \in [Keys -> Document]
    BY <1>a DEF Targets, Document, ConfigFiles
  <2>2. target' \in Targets
    BY <1>a, <1>7, <2>1 DEF DeletesOrphans, Targets
  <2>3. said' \in Reports
    BY <1>a, <1>7 DEF DeletesOrphans, Reports
  <2> QED BY <1>0, <1>b, <1>7, <2>2, <2>3 DEF DeletesOrphans, SectionTypes, CommandType
<1>8. CASE FindsSlot \/ ReadsCheckpointAgain
  <2>1. command' \in CommandStates
    <3>1. CASE FindsSlot
      BY <1>a, <1>b, <3>1 DEF FindsSlot, CommandStates, Stores
    <3>2. CASE ReadsCheckpointAgain
      BY <1>a, <1>b, <3>2 DEF ReadsCheckpointAgain, CommandStates
    <3> QED BY <1>8, <3>1, <3>2
  <2> QED BY <1>d, <1>8, <2>1 DEF FindsSlot, ReadsCheckpointAgain, CommandType
<1>9. CASE CountsRows
  <2>1. IsFiniteSet(Rows)
    BY <1>0, <1>e, FS_Interval, FS_Subset, 1 \in Int, KeyCount \in Int DEF Keys
  <2>2. Cardinality(Rows) \in Nat
    BY <2>1, FS_CardinalityType
  <2>3. command' \in CommandStates
    BY <1>a, <1>9, <2>2 DEF CountsRows, CommandStates
  <2> QED BY <1>d, <1>9, <2>3 DEF CountsRows, CommandType
<1>10. CASE Verifies
  <2>1. command' \in CommandStates
    BY <1>a, <1>b, <1>10 DEF Verifies, CommandStates
  <2> QED BY <1>d, <1>10, <2>1 DEF Verifies, CommandType
<1>11. CASE SwitchesAlias
  <2>1. target' \in Targets /\ alias' \in Indexes
    BY <1>a, <1>11 DEF SwitchesAlias, Targets, Indexes
  <2>2. command' \in CommandStates
    BY <1>a, <1>11 DEF SwitchesAlias, CommandStates
  <2>3. said' \in Reports
    BY <1>a, <1>11 DEF SwitchesAlias, Reports, CommandStates
  <2> QED BY <1>0, <1>11, <2>1, <2>2, <2>3 DEF SwitchesAlias, SectionTypes, CommandType
<1>12. ASSUME NEW drop \in BOOLEAN, DropsOld(drop) PROVE SectionTypes' /\ CommandType'
  <2>1. [k \in Keys |-> Absent] \in [Keys -> Document]
    BY DEF Absent, Document
  <2>2. target' \in Targets
    BY <1>a, <1>12, <2>1 DEF DropsOld, Targets
  <2> QED BY <1>0, <1>b, <1>12, <2>2 DEF DropsOld, SectionTypes, CommandType
<1>13. CASE Repoints
  <2>1. file' \in ConfigFiles
    BY <1>a, <1>13 DEF Repoints, ConfigFiles
  <2> QED BY <1>0, <1>13, <2>1 DEF Repoints, SectionTypes, CommandType
<1> QED BY <1>1, <1>2, <1>3, <1>4, <1>5, <1>6, <1>7, <1>8, <1>9, <1>10, <1>11, <1>12, <1>13
       DEF Commands, Resnapshots, Reconciles, Reindexes

\* Every step keeps the types.
LEMMA TypesKept ==
  ASSUME OperationsInv, Next PROVE SectionTypes' /\ CommandType'
<1>0. command \in CommandStates /\ SectionTypes
  BY DEF OperationsInv, CommandType
<1>1. CASE Pipeline
  <2>1. SectionTypes'
    BY <1>1, StreamingTypes, LoadingTypes, ReloadingTypes, ProcessTypes, CommitTypes, NothingExpires DEF Pipeline
  <2>2. Covered' \in BOOLEAN
    BY <2>1 DEF Covered, Mysql, SectionTypes, Sources, Processes
  <2>3. (command.covered /\ Covered') \in BOOLEAN
    BY <1>0, <2>2, Zenon DEF CommandStates
  <2>a. PICK covered : covered = (command.covered /\ Covered')
    OBVIOUS
  <2>4. command' = [command EXCEPT !.covered = covered] /\ covered \in BOOLEAN
    BY <1>1, <2>3, <2>a, Zenon DEF Pipeline
  <2>5. command' \in CommandStates
    BY <1>0, <2>4 DEF CommandStates
  <2> QED BY <2>1, <2>5 DEF CommandType
<1>2. CASE Commands
  BY <1>2, CommandsTypes
<1> QED BY <1>1, <1>2 DEF Next

-----------------------------------------------------------------------------
(* What a step leaves of the log and of the changes in flight.             *)

LogKept ==
  /\ Last \in Nat /\ Last' \in Nat /\ Last <= Last'
  /\ \A j \in 1 .. Last : src'.log[j] = src.log[j]

Keeps(k) ==
  /\ LogKept
  /\ k \in said.strays => k \in said'.strays
  /\ \A j \in 1 .. Last : src.log[j].key = k /\ InSent(k, j) => InSent(k, j)'
  /\ \A j \in Last + 1 .. Last' : src'.log[j].key = k => InSent(k, j)'

\* What was still to be filed is so, or new, after a step that keeps it.
LEMMA FollowsKept ==
  ASSUME NEW k, NEW q \in Nat, Keeps(k), Follows(k, q)
  PROVE  Follows(k, q)'
<1>1. SUFFICES ASSUME NEW j \in q + 1 .. Last', src'.log[j].key = k PROVE InSent(k, j)'
  BY DEF Follows
<1>2. CASE j \in Last + 1 .. Last'
  BY <1>1, <1>2 DEF Keeps
<1>3. CASE j \in 1 .. Last
  <2>1. src.log[j].key = k /\ j \in q + 1 .. Last
    BY <1>1, <1>3 DEF Keeps, LogKept
  <2>2. InSent(k, j)
    BY <2>1 DEF Follows
  <2> QED BY <1>3, <2>1, <2>2 DEF Keeps
<1> QED BY <1>2, <1>3 DEF Keeps, LogKept

\* The past of the table does not change.
LEMMA ShowsKept ==
  ASSUME LogKept, NEW k, NEW q \in Nat, q <= Last, NEW x, Shows(k, q, x)
  PROVE  Shows(k, q, x)'
<1>1. \A j \in 1 .. q : src'.log[j] = src.log[j]
  BY DEF LogKept
<1>2. CASE (\A j \in 1 .. q : src.log[j].key # k) /\ x = Original(k)
  BY <1>1, <1>2 DEF Shows, Original
<1>3. ASSUME NEW i \in 1 .. q,
             src.log[i].key = k, x = (IF src.log[i].put THEN i ELSE 0),
             \A j \in i + 1 .. q : src.log[j].key # k
      PROVE  Shows(k, q, x)'
  <2>1. \A j \in i + 1 .. q : src'.log[j].key # k
    BY <1>1, <1>3
  <2> QED BY <1>1, <1>3, <2>1 DEF Shows
<1> QED BY <1>2, <1>3 DEF Shows

\* A good document that is not touched stays good.
LEMMA DocKept ==
  ASSUME NEW k, NEW d \in Document, Keeps(k), DocOK(d, k)
  PROVE  DocOK(d, k)'
<1>1. PICK q \in 1 .. Last : Reflects(d, k, q)
  BY DEF DocOK
<1>2. q \in Nat /\ q <= Last /\ q \in 1 .. Last' /\ LogKept /\ d.version \in Nat /\ d.value \in Nat
  BY DEF Keeps, LogKept, Document
<1>3. Follows(k, q)' /\ (d.value > d.version /\ Follows(k, d.version) => Follows(k, d.version)')
  BY <1>1, <1>2, FollowsKept DEF Reflects
<1>4. \A x : Shows(k, q, x) => Shows(k, q, x)'
  BY <1>2, ShowsKept
<1>5. Reflects(d, k, q)'
  BY <1>1, <1>3, <1>4 DEF Reflects, Keeps
<1> QED BY <1>2, <1>5 DEF DocOK

\* A copy that may be filed may still be filed.
LEMMA ReadKept ==
  ASSUME NEW k, NEW d \in Document, NEW v \in Nat, Keeps(k), Read(d, k, v)
  PROVE  Read(d, k, v)'
<1>1. v <= Last'
  BY DEF Read, Keeps, LogKept
<1>2. CASE d.version > v
  BY <1>1, <1>2, DocKept DEF Read
<1>3. CASE ~(d.version > v)
  BY <1>1, <1>3, FollowsKept DEF Read
<1> QED BY <1>2, <1>3

\* A row once read was the row then.
LEMMA TakenKept ==
  ASSUME NEW k, NEW v \in Nat, NEW row, LogKept, Taken(k, v, row)
  PROVE  Taken(k, v, row)'
<1>1. PICK q \in 1 .. Last : v <= q /\ Shows(k, q, row)
  BY DEF Taken
<1>2. q \in Nat /\ q <= Last /\ q \in 1 .. Last'
  BY DEF LogKept
<1>3. Shows(k, q, row)'
  BY <1>1, <1>2, ShowsKept
<1> QED BY <1>1, <1>2, <1>3 DEF Taken

\* The log and the channel, field by field.
LEMMA Fields ==
  ASSUME OperationsInv
  PROVE  /\ src.log \in Seq(Entry) /\ Last \in Nat /\ src.rows \in [Keys -> Nat]
         /\ \A j \in 1 .. Last : src.log[j] \in Entry
         /\ attempt.queue \in Seq(Change) /\ Len(attempt.queue) \in Nat
         /\ \A x \in 1 .. Len(attempt.queue) : attempt.queue[x] \in Change
         /\ attempt.read \in Nat /\ attempt.acked \in Nat /\ store.checkpoint \in Nat
         /\ KeyCount \in Nat \ {0}
<1>1. src \in Sources /\ attempt \in Attempts /\ store \in Stores
  BY DEF OperationsInv, SectionTypes
<1> QED BY <1>1, OperationsAssumption DEF Sources, Attempts, Stores, Last

\* A step that leaves the log, the position of the attempt and the checkpoint.
LEMMA SameKeeps ==
  ASSUME OperationsInv, NEW k, k \in said.strays => k \in said'.strays,
         src'.log = src.log, store'.checkpoint = store.checkpoint,
         attempt'.state = attempt.state, attempt'.read = attempt.read,
         attempt'.queue = attempt.queue, attempt'.acked = attempt.acked
  PROVE  Keeps(k)
<1>1. LogKept
  BY Fields DEF LogKept, Last
<1>2. \A j : InSent(k, j) => InSent(k, j)'
  BY DEF InSent, Active, Queued
<1> QED BY <1>1, <1>2, Fields DEF Keeps, Last

\* A commit, or the marker of a reload.
LEMMA AppendKeeps ==
  ASSUME OperationsInv, NEW k, NEW entry \in Entry, src'.log = Append(src.log, entry),
         entry.key = k => entry.published,
         UNCHANGED <<attempt, store, said>>
  PROVE  Keeps(k)
<1>1. /\ Last' = Last + 1 /\ src'.log[Last + 1] = entry
      /\ \A j \in 1 .. Last : src'.log[j] = src.log[j]
  BY Fields DEF Last
<1>0. Last \in Nat /\ attempt' = attempt /\ store' = store /\ said' = said
  BY Fields
<1>2. LogKept
  <2>1. Last' \in Nat /\ Last <= Last'
    BY <1>0, <1>1
  <2> QED BY <1>0, <1>1, <2>1 DEF LogKept
<1>3. \A j \in 1 .. Last : InSent(k, j) => InSent(k, j)'
  BY <1>0, <1>1 DEF InSent, Active, Queued
<1>4. /\ attempt.read <= Last /\ attempt.acked <= Last /\ store.checkpoint <= Last
      /\ attempt.read \in Nat /\ attempt.acked \in Nat /\ store.checkpoint \in Nat
  BY Fields DEF OperationsInv, QueueOK, PositionsOK
<1>5. PICK n : n = Last + 1
  OBVIOUS
<1>6. entry.key = k => InSent(k, n)'
  <2>1. entry.key = k => src'.log[n].published
    BY <1>1, <1>5
  <2>2. n > store'.checkpoint /\ n > attempt'.acked /\ n > attempt'.read
    BY <1>0, <1>4, <1>5
  <2> QED BY <2>1, <2>2 DEF InSent
<1>7. \A j \in Last + 1 .. Last' : j = n
  BY <1>0, <1>1, <1>5
<1> QED BY <1>0, <1>1, <1>2, <1>3, <1>5, <1>6, <1>7 DEF Keeps

\* The attempt loses nothing: what fails or halts before it is filed is read again.
LEMMA StreamingKeeps ==
  ASSUME OperationsInv, InForce, NEW k \in Keys, Streaming, ~Files
  PROVE  Keeps(k)
<1>1. LogKept /\ said' = said /\ src' = src
  BY Fields DEF LogKept, Last, Streaming, AttemptStarts, Decodes, StoresCheckpoint, StreamFails, AttemptEnds, EngineHalts
<1>2. SUFFICES ASSUME NEW j \in 1 .. Last, src.log[j].key = k, InSent(k, j) PROVE InSent(k, j)'
  BY <1>1, Fields DEF Keeps, Last
<1>a. attempt \in Attempts /\ store \in Stores /\ j \in Nat
  BY DEF OperationsInv, SectionTypes
<1>b. src.log[j].published /\ j > store.checkpoint /\ j > attempt.acked /\ (Active => j > attempt.read \/ Queued(k, j))
  BY <1>2 DEF InSent
<1>3. CASE AttemptStarts
  <2>1. attempt'.read = store.checkpoint /\ attempt'.acked = attempt.acked /\ store' = store
    BY <1>a, <1>3 DEF AttemptStarts, Attempts
  <2> QED BY <1>1, <1>b, <2>1 DEF InSent
<1>4. CASE Decodes
  <2>0. live.up /\ live.tables
    BY <1>4 DEF OperationsInv, QueueOK, PositionsOK, Active, Decodes, InForce
  <2> DEFINE one == [at |-> attempt.read + 1, key |-> src.log[attempt.read + 1].key, put |-> src.log[attempt.read + 1].put]
  <2>1. /\ attempt'.read = attempt.read + 1 /\ attempt'.acked = attempt.acked /\ attempt'.state = attempt.state
        /\ attempt'.queue = IF src.log[attempt.read + 1].published THEN Append(attempt.queue, one) ELSE attempt.queue
        /\ store' = store
    BY <1>a, <1>4, <2>0 DEF Decodes, Attempts
  <2>2. one.at = attempt.read + 1 /\ one.key = src.log[attempt.read + 1].key
    OBVIOUS
  <2> HIDE DEF one
  <2>3. CASE Queued(k, j)
    <3>1. PICK x \in 1 .. Len(attempt.queue) : attempt.queue[x].at = j /\ attempt.queue[x].key = k
      BY <2>3 DEF Queued
    <3>2. x \in 1 .. Len(attempt'.queue) /\ attempt'.queue[x] = attempt.queue[x]
      BY <2>1, Fields
    <3>3. Queued(k, j)'
      BY <3>1, <3>2 DEF Queued
    <3> QED BY <1>1, <1>b, <2>1, <3>3 DEF InSent, Active
  <2>4. CASE j = attempt.read + 1
    <3>1. attempt'.queue = Append(attempt.queue, one)
      BY <1>b, <2>1, <2>4
    <3>2. Len(attempt'.queue) = Len(attempt.queue) + 1 /\ attempt'.queue[Len(attempt.queue) + 1] = one
      BY <3>1, Fields
    <3>3. Len(attempt.queue) + 1 \in 1 .. Len(attempt'.queue)
      BY <3>2, Fields
    <3>4. Queued(k, j)'
      BY <1>2, <2>2, <2>4, <3>2, <3>3 DEF Queued
    <3> QED BY <1>1, <1>b, <2>1, <3>4 DEF InSent, Active
  <2>5. CASE j > attempt.read /\ j # attempt.read + 1
    BY <1>1, <1>a, <1>b, <2>1, <2>5, Fields DEF InSent, Active
  <2>6. Active
    BY <1>4 DEF Decodes, Active
  <2> QED BY <1>b, <2>3, <2>4, <2>5, <2>6
<1>5. CASE StoresCheckpoint
  <2>1. store'.checkpoint = attempt.acked /\ attempt' = attempt
    BY <1>a, <1>5 DEF StoresCheckpoint, Stores
  <2> QED BY <1>1, <1>b, <2>1 DEF InSent, Active, Queued
<1>6. CASE StreamFails
  <2>1. /\ attempt'.read = attempt.read /\ attempt'.acked = attempt.acked /\ attempt'.queue = attempt.queue
        /\ store' = store /\ Active
    BY <1>a, <1>6 DEF StreamFails, Attempts, Active
  <2> QED BY <1>1, <1>b, <2>1 DEF InSent, Active, Queued
<1>7. CASE AttemptEnds \/ EngineHalts
  <2>1. attempt'.acked = attempt.acked /\ attempt'.state = "none" /\ store' = store
    BY <1>a, <1>7 DEF AttemptEnds, EngineHalts, Attempts
  <2> QED BY <1>1, <1>b, <2>1 DEF InSent, Active
<1> QED BY <1>3, <1>4, <1>5, <1>6, <1>7 DEF Streaming

\* A load leaves the stream alone.
LEMMA LoadingKeeps ==
  ASSUME OperationsInv, NEW k, Loading
  PROVE  Keeps(k)
<1>0. attempt \in Attempts /\ store \in Stores /\ said \in Reports /\ loads \in [{"attempt", "join"} -> Load]
  BY DEF OperationsInv, SectionTypes
<1> USE DEF Loading, LoadBegins, LoadReadsPosition, LoadReadsRange, LoadIsFiled, LoadIsMarked, LoadRecords, LoadEnds
<1>1. src' = src
  OBVIOUS
<1>2. said'.strays = said.strays
  BY <1>0 DEF Reports
<1>3. store'.checkpoint = store.checkpoint
  BY <1>0 DEF Stores
<1>4. attempt' = attempt \/ \E window, gone : attempt' = [attempt EXCEPT !.window = window, !.gone = gone]
  <2>1. attempt' = attempt
        \/ attempt' = [attempt EXCEPT !.gone = [key \in Keys |-> 0]]
        \/ attempt' = [attempt EXCEPT !.window = FALSE, !.gone = [key \in Keys |-> 0]]
    OBVIOUS
  <2>2. attempt' = [attempt EXCEPT !.gone = [key \in Keys |-> 0]]
        => attempt' = [attempt EXCEPT !.window = attempt.window, !.gone = [key \in Keys |-> 0]]
    BY ONLY <1>0 DEF Attempts
  <2> QED BY ONLY <2>1, <2>2
<1>5. /\ attempt'.state = attempt.state /\ attempt'.read = attempt.read
      /\ attempt'.queue = attempt.queue /\ attempt'.acked = attempt.acked
  BY ONLY <1>0, <1>4 DEF Attempts
<1> QED BY ONLY OperationsInv, <1>1, <1>2, <1>3, <1>5, SameKeeps

\* A reload adds its marker to the log, or strays.
LEMMA ReloadingKeeps ==
  ASSUME OperationsInv, NEW k \in Keys, Reloading
  PROVE  Keeps(k)
<1>0. attempt \in Attempts /\ src \in Sources /\ KeyCount \in Nat
  BY OperationsAssumption DEF OperationsInv, SectionTypes
<1>1. CASE EmitsMarker
  <2>1. PICK entry : entry = [key |-> 0, put |-> TRUE, published |-> TRUE]
    OBVIOUS
  <2>2. entry \in Entry /\ entry.published
    BY <1>0, <2>1 DEF Entry
  <2>3. src'.log = Append(src.log, entry) /\ UNCHANGED <<attempt, store, said>>
    BY <1>0, <1>1, <2>1 DEF EmitsMarker, Sources
  <2> QED BY <2>2, <2>3, AppendKeeps
<1>2. CASE ~EmitsMarker
  <2> USE DEF Reloading, EditsFile, Hangup, Reloads, Refuses, Publishes, ReadsBarrier, PassesBarrier,
              Admits, Adopts, LoadStarts, Drops, Forgets, Unpublishes
  <2>1. src'.log = src.log
    BY <1>0, <1>2 DEF Sources
  <2>2. said.strays \subseteq said'.strays
    BY <1>2 DEF OperationsInv, SectionTypes, Reports
  <2>3. store' = store
    BY <1>2
  <2>4. attempt' = attempt \/ attempt' = [attempt EXCEPT !.window = TRUE]
    BY <1>2
  <2>5. /\ attempt'.state = attempt.state /\ attempt'.read = attempt.read
        /\ attempt'.queue = attempt.queue /\ attempt'.acked = attempt.acked
    BY ONLY <1>0, <2>4 DEF Attempts
  <2> QED BY ONLY OperationsInv, <2>1, <2>2, <2>3, <2>5, SameKeeps
<1> QED BY <1>1, <1>2

\* After a crash the next attempt reads on from the checkpoint.
LEMMA CrashKeeps ==
  ASSUME OperationsInv, NEW k \in Keys, Crashes
  PROVE  Keeps(k)
<1>1. LogKept /\ said' = said /\ src' = src /\ store' = store
  BY Fields DEF LogKept, Last, Crashes
<1>2. SUFFICES ASSUME NEW j \in 1 .. Last, src.log[j].key = k, InSent(k, j) PROVE InSent(k, j)'
  BY <1>1, Fields DEF Keeps, Last
<1>3. attempt'.state = "none" /\ attempt'.acked = 0
  BY DEF OperationsInv, SectionTypes, Attempts, Crashes
<1> QED BY <1>1, <1>2, <1>3, Fields DEF InSent, Active

\* A command leaves the stream alone; a reconcile takes strays away.
LEMMA CommandsKeep ==
  ASSUME OperationsInv, NEW k \in Keys, Commands, ~(DeletesOrphans /\ k \in command.keys)
  PROVE  Keeps(k)
<1>1. src' = src /\ store' = store /\ attempt' = attempt
  BY DEF Commands, Resnapshots, Reconciles, Reindexes, Runs, ReadsPosition, ReadsRange, WritesRange, ScansKeys,
         FindsOrphans, DeletesOrphans, FindsSlot, ReadsCheckpointAgain, CountsRows, Verifies, SwitchesAlias,
         DropsOld, Repoints, sectionVars
<1>2. k \in said.strays => k \in said'.strays
  <2>1. CASE SwitchesAlias
    <3>1. command.kind = "reindex"
      BY <2>1 DEF SwitchesAlias, At
    <3>2. said.strays = {}
      BY <3>1 DEF OperationsInv, ApartOK, StaticOK, CommandOK
    <3> QED BY <3>2
  <2>2. CASE DeletesOrphans
    <3>1. said'.strays = said.strays \ (command.keys \ Behind)
      BY <2>2 DEF OperationsInv, SectionTypes, Reports, DeletesOrphans
    <3> QED BY <2>2, <3>1
  <2>3. CASE WritesRange
    BY <2>3 DEF OperationsInv, SectionTypes, Reports, WritesRange
  <2>4. CASE ~SwitchesAlias /\ ~DeletesOrphans /\ ~WritesRange
    BY <2>4
       DEF Commands, Resnapshots, Reconciles, Reindexes, Runs, ReadsPosition, ReadsRange, ScansKeys,
           FindsOrphans, FindsSlot, ReadsCheckpointAgain, CountsRows, Verifies, DropsOld, Repoints, sectionVars
  <2> QED BY <2>1, <2>2, <2>3, <2>4
<1> QED BY <1>1, <1>2, SameKeeps

\* Whatever is not filed or deleted stays in flight while the table is served.
LEMMA StepKeeps ==
  ASSUME OperationsInv, Next, NEW k \in Keys,
         Streaming => InForce /\ ~Files,
         ~(DeletesOrphans /\ k \in command.keys),
         \A key \in Keys, put \in BOOLEAN : CommitsRow(key, put) => InForce
  PROVE  Keeps(k)
<1>1. CASE Boots \/ AlignsPublication
  <2>1. src'.log = src.log /\ store' = store /\ attempt' = attempt /\ said.strays \subseteq said'.strays
    BY <1>1 DEF OperationsInv, SectionTypes, Sources, Boots, AlignsPublication
  <2> QED BY <2>1, SameKeeps
<1>2. ASSUME NEW key \in Keys, NEW put \in BOOLEAN, CommitsRow(key, put) PROVE Keeps(k)
  <2>1. PICK entry : entry = [key |-> key, put |-> put, published |-> Mysql \/ src.published]
    OBVIOUS
  <2>2. entry \in Entry
    BY <1>2, <2>1, CommitTypes
  <2>3. src'.log = Append(src.log, entry) /\ UNCHANGED <<attempt, store, said>>
    BY <1>2, <2>1 DEF OperationsInv, SectionTypes, Sources, CommitsRow
  <2>4. entry.published
    BY <1>2, <2>1 DEF InForce
  <2> QED BY <2>2, <2>3, <2>4, AppendKeeps
<1> QED BY <1>1, <1>2, StreamingKeeps, LoadingKeeps, ReloadingKeeps, CrashKeeps, CommandsKeep, NothingExpires
       DEF Next, Pipeline
-----------------------------------------------------------------------------
(* The positions and the change channel.                                   *)

\* A step that leaves the attempt, apart from its window, and the checkpoint,
\* while the log may grow and the process start.
LEMMA QueueSame ==
  ASSUME OperationsInv, LogKept, live.up => live'.up,
         store'.checkpoint = store.checkpoint,
         attempt'.state = attempt.state, attempt'.read = attempt.read, attempt'.queue = attempt.queue,
         attempt'.acked = attempt.acked, attempt'.answered = attempt.answered
  PROVE  QueueOK'
<1>1. PositionsOK'
  <2>1. PositionsOK
    BY DEF OperationsInv, QueueOK
  <2> QED BY <2>1, Fields DEF PositionsOK, Active, LogKept
<1>2. ChannelOK'
  <2>1. ASSUME NEW change \in Change, Carried(change) PROVE Carried(change)'
    <3>1. change.at \in 1 .. Last /\ src'.log[change.at] = src.log[change.at]
      BY <2>1 DEF Carried, LogKept
    <3>2. change.at \in 1 .. Last'
      BY <3>1 DEF LogKept
    <3> QED BY <2>1, <3>1, <3>2 DEF Carried
  <2>2. ChannelOK
    BY DEF OperationsInv, QueueOK
  <2>3. ASSUME NEW x \in 1 .. Len(attempt.queue) PROVE Carried(attempt.queue[x])'
    <3>1. PICK change : change = attempt.queue[x]
      OBVIOUS
    <3>2. Carried(change)'
      BY <2>1, <2>2, <2>3, <3>1, Fields DEF ChannelOK
    <3> QED BY <3>1, <3>2
  <2> QED BY <2>2, <2>3 DEF ChannelOK
<1> QED BY <1>1, <1>2 DEF QueueOK

\* An attempt that starts, halts or crashes has nothing on its channel.
LEMMA QueueEmptied ==
  ASSUME OperationsInv, src'.log = src.log, store' = store, attempt'.queue = <<>>,
         attempt'.read \in {attempt.read, store.checkpoint},
         attempt'.acked \in {attempt.acked, 0},
         attempt'.state = "none" \/ (live'.up /\ attempt'.read = store.checkpoint /\ ~attempt'.answered)
  PROVE  QueueOK'
<1>1. PositionsOK
  BY DEF OperationsInv, QueueOK
<1>2. PositionsOK'
  BY <1>1, Fields DEF PositionsOK, Active, Last
<1>3. ChannelOK'
  BY DEF ChannelOK
<1> QED BY <1>2, <1>3 DEF QueueOK

\* The next entry goes to the end of the channel.
LEMMA DecodesQueue ==
  ASSUME OperationsInv, Decodes PROVE QueueOK'
<1>0. attempt \in Attempts /\ Active /\ live' = live /\ src' = src /\ store' = store
  BY DEF OperationsInv, SectionTypes, Decodes, Active
<1> DEFINE at == attempt.read + 1
           one == [at |-> at, key |-> IF live.tables THEN src.log[at].key ELSE 0, put |-> src.log[at].put]
<1>1. /\ attempt'.read = at /\ attempt'.acked = attempt.acked /\ attempt'.state = attempt.state
      /\ attempt'.answered = attempt.answered
      /\ attempt'.queue = IF src.log[at].published THEN Append(attempt.queue, one) ELSE attempt.queue
  BY <1>0 DEF Decodes, Attempts
<1>2. one.at = at /\ one.key \in {0, src.log[at].key} /\ one.put = src.log[at].put
  OBVIOUS
<1> HIDE DEF one
<1>3. at \in 1 .. Last /\ at > attempt.read /\ Last' = Last
  BY <1>0, Fields DEF Decodes, Last
<1>4. PositionsOK /\ ChannelOK
  BY DEF OperationsInv, QueueOK
<1>5. PositionsOK'
  BY <1>0, <1>1, <1>3, <1>4, Fields DEF PositionsOK, Active
<1>6. \A x \in 1 .. Len(attempt.queue) : Carried(attempt.queue[x])
  BY <1>4 DEF ChannelOK
<1>7. ASSUME NEW change, Carried(change) \/ (change = one /\ src.log[at].published) PROVE Carried(change)'
  <2>1. CASE Carried(change)
    BY <1>0, <1>1, <1>3, <2>1, Fields DEF Carried
  <2>2. CASE change = one /\ src.log[at].published
    <3>1. at > store.checkpoint /\ (attempt.answered => at > attempt.acked)
      BY <1>0, <1>3, <1>4, Fields DEF PositionsOK
    <3> QED BY <1>0, <1>1, <1>2, <1>3, <2>2, <3>1, Fields DEF Carried
  <2> QED BY <1>7, <2>1, <2>2
<1>8. CASE attempt'.queue = attempt.queue
  <2>1. ASSUME NEW x \in 1 .. Len(attempt.queue) PROVE Carried(attempt.queue[x])'
    <3>1. PICK change : change = attempt.queue[x]
      OBVIOUS
    <3> QED BY <1>6, <1>7, <1>8, <3>1
  <2> QED BY <1>4, <1>5, <1>8, <2>1 DEF ChannelOK, QueueOK
<1>9. CASE src.log[at].published /\ attempt'.queue = Append(attempt.queue, one)
  <2> DEFINE n == Len(attempt.queue)
  <2>1. /\ n \in Nat /\ Len(attempt'.queue) = n + 1 /\ attempt'.queue[n + 1] = one
        /\ \A x \in 1 .. n : attempt'.queue[x] = attempt.queue[x]
    BY <1>9, Fields
  <2> HIDE DEF n
  <2>2. \A x \in 1 .. n : attempt.queue[x].at < at
    <3>1. \A x \in 1 .. n : attempt.queue[x].at \in Nat /\ attempt.queue[x].at <= attempt.read
      BY <1>6, Fields DEF Carried, n
    <3> QED BY <1>3, <3>1, Fields
  <2>3. ASSUME NEW x \in 1 .. n + 1
        PROVE  /\ \E change : change = attempt'.queue[x] /\ Carried(change)'
               /\ \A y \in x + 1 .. n + 1 : attempt'.queue[x].at < attempt'.queue[y].at
    <3>1. PICK change : change = attempt'.queue[x]
      OBVIOUS
    <3>2. Carried(change) \/ change = one
      BY <1>6, <2>1, <3>1 DEF n
    <3>3. Carried(change)'
      BY <1>7, <1>9, <3>2
    <3>4. ASSUME NEW y \in x + 1 .. n + 1 PROVE attempt'.queue[x].at < attempt'.queue[y].at
      <4>1. CASE y = n + 1
        BY <1>2, <2>1, <2>2, <4>1
      <4>2. CASE y \in x + 1 .. n
        <5>1. attempt.queue[x].at < attempt.queue[y].at
          BY <1>4, <2>1, <4>2 DEF ChannelOK, n
        <5> QED BY <2>1, <4>2, <5>1
      <4> QED BY <2>1, <4>1, <4>2
    <3> QED BY <3>1, <3>3, <3>4
  <2>a. ASSUME NEW x \in 1 .. n + 1 PROVE Carried(attempt.queue[x])'
    <3>1. PICK change : change = attempt'.queue[x] /\ Carried(change)'
      BY <2>3
    <3> QED BY <3>1
  <2>4. ChannelOK'
    BY <2>1, <2>3, <2>a DEF ChannelOK
  <2> QED BY <1>5, <2>4 DEF QueueOK
<1> QED BY <1>1, <1>8, <1>9

\* What the engine takes off the channel.
LEMMA TakesHead ==
  ASSUME OperationsInv, Files
  PROVE  /\ Len(attempt.queue) >= 1 /\ Head(attempt.queue) = attempt.queue[1] /\ attempt.queue[1] \in Change
         /\ Carried(attempt.queue[1])
         /\ attempt'.queue \in Seq(Change) /\ Len(attempt'.queue) = Len(attempt.queue) - 1
         /\ \A x \in 1 .. Len(attempt'.queue) : attempt'.queue[x] = attempt.queue[x + 1]
         /\ attempt'.read = attempt.read /\ attempt'.state = attempt.state /\ Active
         /\ attempt'.acked = attempt.queue[1].at /\ attempt'.answered
         /\ src' = src /\ store' = store /\ live' = live /\ said' = said /\ alias' = alias
<1>0. attempt \in Attempts /\ attempt.queue \in Seq(Change) /\ attempt.queue # <<>>
  BY Fields DEF OperationsInv, SectionTypes, Files
<1>1. Len(attempt.queue) >= 1 /\ Head(attempt.queue) = attempt.queue[1] /\ attempt.queue[1] \in Change
  BY <1>0
<1>2. Carried(attempt.queue[1])
  BY <1>0, <1>1 DEF OperationsInv, QueueOK, ChannelOK
<1>3. /\ attempt'.queue = Tail(attempt.queue)
      /\ attempt'.read = attempt.read /\ attempt'.state = attempt.state /\ Active
      /\ attempt'.acked = Head(attempt.queue).at /\ attempt'.answered
  BY <1>0 DEF Files, Attempts, Active
<1>4. /\ attempt'.queue \in Seq(Change) /\ Len(attempt'.queue) = Len(attempt.queue) - 1
      /\ \A x \in 1 .. Len(attempt'.queue) : attempt'.queue[x] = attempt.queue[x + 1]
  BY <1>0, <1>3
<1>5. src' = src /\ store' = store /\ live' = live /\ said' = said /\ alias' = alias
  BY DEF Files
<1> QED BY <1>1, <1>2, <1>3, <1>4, <1>5

\* The first change leaves the channel.
LEMMA FilesQueue ==
  ASSUME OperationsInv, Files PROVE QueueOK'
<1>1. PositionsOK /\ ChannelOK
  BY DEF OperationsInv, QueueOK
<1>2. Last' = Last
  BY TakesHead DEF Last
<1>3. PositionsOK'
  BY <1>1, <1>2, TakesHead, Fields DEF PositionsOK, Active, Carried
<1>4. ASSUME NEW x \in 1 .. Len(attempt'.queue)
      PROVE  /\ \E change : change = attempt'.queue[x] /\ Carried(change)'
             /\ \A y \in x + 1 .. Len(attempt'.queue) : attempt'.queue[x].at < attempt'.queue[y].at
  <2>1. x + 1 \in 1 .. Len(attempt.queue) /\ attempt'.queue[x] = attempt.queue[x + 1]
    BY TakesHead, Fields
  <2>2. PICK change : change = attempt.queue[x + 1]
    OBVIOUS
  <2>3. Carried(change) /\ attempt.queue[1].at < change.at
    <3>1. Carried(attempt.queue[x + 1])
      BY <1>1, <2>1 DEF ChannelOK
    <3>2. 1 \in 1 .. Len(attempt.queue) /\ x + 1 \in 1 + 1 .. Len(attempt.queue)
      BY <2>1, Fields
    <3>3. attempt.queue[1].at < attempt.queue[x + 1].at
      BY <1>1, <3>2 DEF ChannelOK
    <3> QED BY <2>2, <3>1, <3>3
  <2>4. Carried(change)'
    BY <1>2, <2>3, TakesHead DEF Carried
  <2>5. ASSUME NEW y \in x + 1 .. Len(attempt'.queue) PROVE attempt'.queue[x].at < attempt'.queue[y].at
    <3>1. y + 1 \in (x + 1) + 1 .. Len(attempt.queue) /\ attempt'.queue[y] = attempt.queue[y + 1]
      BY <2>1, TakesHead, Fields
    <3> QED BY <1>1, <2>1, <3>1 DEF ChannelOK
  <2> QED BY <2>1, <2>2, <2>4, <2>5
<1>5. ASSUME NEW x \in 1 .. Len(attempt'.queue) PROVE Carried(attempt.queue[x])'
  <2>1. PICK change : change = attempt'.queue[x] /\ Carried(change)'
    BY <1>4
  <2> QED BY <2>1
<1>6. ChannelOK'
  BY <1>4, <1>5 DEF ChannelOK
<1> QED BY <1>3, <1>6 DEF QueueOK

\* The checkpoint moves to the acknowledged position, which the channel is past.
LEMMA StoresQueue ==
  ASSUME OperationsInv, StoresCheckpoint PROVE QueueOK'
<1>1. PositionsOK /\ ChannelOK
  BY DEF OperationsInv, QueueOK
<1>2. /\ attempt' = attempt /\ src' = src /\ live' = live
      /\ store'.checkpoint = attempt.acked /\ Active /\ attempt.answered
  BY DEF OperationsInv, SectionTypes, Stores, StoresCheckpoint, Active
<1>3. Last' = Last
  BY <1>2 DEF Last
<1>4. PositionsOK'
  BY <1>1, <1>2, <1>3 DEF PositionsOK, Active
<1>5. ASSUME NEW x \in 1 .. Len(attempt.queue) PROVE Carried(attempt.queue[x])'
  <2>1. PICK change : change = attempt.queue[x]
    OBVIOUS
  <2>2. Carried(change)
    BY <1>1, <1>5, <2>1 DEF ChannelOK
  <2>3. Carried(change)'
    BY <1>2, <1>3, <2>2 DEF Carried
  <2> QED BY <1>2, <2>1, <2>3
<1>6. ChannelOK'
  BY <1>1, <1>2, <1>5 DEF ChannelOK
<1> QED BY <1>4, <1>6 DEF QueueOK

\* What everything but the attempt and a crash leaves as it is.
LEMMA CalmSteps ==
  ASSUME OperationsInv, Next, ~Streaming, ~Crashes
  PROVE  /\ store'.checkpoint = store.checkpoint /\ (live.up => live'.up)
         /\ attempt'.state = attempt.state /\ attempt'.read = attempt.read /\ attempt'.queue = attempt.queue
         /\ attempt'.acked = attempt.acked /\ attempt'.answered = attempt.answered
         /\ \/ src'.log = src.log
            \/ EmitsMarker
            \/ \E k \in Keys, put \in BOOLEAN : CommitsRow(k, put) /\ (ReinsertRace \/ ~Reinserted(k, put))
<1>0. /\ attempt \in Attempts /\ store \in Stores /\ loads \in [{"attempt", "join"} -> Load]
      /\ live \in Processes /\ src \in Sources
  BY DEF OperationsInv, SectionTypes
<1> DEFINE Same == /\ attempt'.state = attempt.state /\ attempt'.read = attempt.read
                   /\ attempt'.queue = attempt.queue
                   /\ attempt'.acked = attempt.acked /\ attempt'.answered = attempt.answered
<1>1. CASE Loading
  <2> USE DEF Loading, LoadBegins, LoadReadsPosition, LoadReadsRange, LoadIsFiled, LoadIsMarked, LoadRecords,
              LoadEnds
  <2>1. src' = src
    BY <1>1
  <2>2. store'.checkpoint = store.checkpoint
    BY <1>0, <1>1 DEF Stores
  <2>3. live'.up = live.up
    BY <1>0, <1>1 DEF Processes
  <2>4. attempt' = attempt
        \/ attempt' = [attempt EXCEPT !.gone = [k \in Keys |-> 0]]
        \/ attempt' = [attempt EXCEPT !.window = FALSE, !.gone = [k \in Keys |-> 0]]
    BY <1>1
  <2>5. Same
    BY ONLY <1>0, <2>4 DEF Attempts
  <2> QED BY ONLY <2>1, <2>2, <2>3, <2>5
<1>2. CASE Reloading
  <2> USE DEF Reloading, EditsFile, Hangup, Reloads, Refuses, Publishes, ReadsBarrier, PassesBarrier,
              Admits, Adopts, LoadStarts, Drops, Forgets, Unpublishes
  <2>1. src'.log = src.log \/ EmitsMarker
    BY <1>0, <1>2 DEF Sources
  <2>2. store' = store
    BY <1>2 DEF EmitsMarker
  <2>3. live'.up = live.up
    BY <1>0, <1>2 DEF Processes, EmitsMarker
  <2>4. attempt' = attempt \/ attempt' = [attempt EXCEPT !.window = TRUE]
    BY <1>2 DEF EmitsMarker
  <2>5. Same
    BY ONLY <1>0, <2>4 DEF Attempts
  <2> QED BY ONLY <2>1, <2>2, <2>3, <2>5
<1>3. CASE Boots \/ AlignsPublication
  BY <1>0, <1>3 DEF Boots, AlignsPublication, Sources
<1>4. CASE Commands
  <2>1. src' = src /\ store' = store /\ attempt' = attempt /\ live' = live
    BY <1>4
       DEF Commands, Resnapshots, Reconciles, Reindexes, Runs, ReadsPosition, ReadsRange, WritesRange, ScansKeys,
           FindsOrphans, DeletesOrphans, FindsSlot, ReadsCheckpointAgain, CountsRows, Verifies, SwitchesAlias,
           DropsOld, Repoints, sectionVars
  <2> QED BY <2>1
<1>5. ASSUME NEW k \in Keys, NEW put \in BOOLEAN, CommitsRow(k, put)
      PROVE  store' = store /\ live' = live /\ attempt' = attempt
  BY <1>5 DEF CommitsRow
<1> QED BY <1>1, <1>2, <1>3, <1>4, <1>5, NothingExpires DEF Next, Pipeline

\* The log only grows.
LEMMA LogGrows ==
  ASSUME OperationsInv, Next
  PROVE  LogKept
<1>0. src.log \in Seq(Entry) /\ src \in Sources /\ Last \in Nat
  BY Fields DEF OperationsInv, SectionTypes
<1>1. src'.log = src.log \/ \E entry : src'.log = Append(src.log, entry)
  <2>1. CASE Streaming \/ Crashes
    BY <2>1 DEF Streaming, AttemptStarts, Decodes, Files, StoresCheckpoint, StreamFails, AttemptEnds, EngineHalts,
                Crashes
  <2>2. CASE EmitsMarker
    BY <1>0, <2>2 DEF EmitsMarker, Sources
  <2>3. ASSUME NEW k \in Keys, NEW put \in BOOLEAN, CommitsRow(k, put) PROVE \E entry : src'.log = Append(src.log, entry)
    BY <1>0, <2>3 DEF CommitsRow, Sources
  <2> QED BY <2>1, <2>2, <2>3, CalmSteps
<1> QED BY <1>0, <1>1 DEF LogKept, Last

\* Every step keeps the attempt in order.
LEMMA QueueKept ==
  ASSUME OperationsInv, Next PROVE QueueOK'
<1>0. attempt \in Attempts /\ store \in Stores
  BY DEF OperationsInv, SectionTypes
<1>1. CASE AttemptStarts
  <2>1. /\ attempt'.queue = <<>> /\ attempt'.read = store.checkpoint /\ attempt'.acked = attempt.acked
        /\ ~attempt'.answered /\ live'.up /\ src' = src /\ store' = store
    BY <1>0, <1>1 DEF AttemptStarts, Attempts
  <2> QED BY <2>1, QueueEmptied
<1>2. CASE AttemptEnds \/ EngineHalts \/ Crashes
  <2>1. /\ attempt'.queue = <<>> /\ attempt'.read = attempt.read /\ attempt'.acked \in {attempt.acked, 0}
        /\ attempt'.state = "none" /\ src' = src /\ store' = store
    BY <1>0, <1>2 DEF AttemptEnds, EngineHalts, Crashes, Attempts
  <2> QED BY <2>1, QueueEmptied
<1>3. CASE StreamFails
  <2>1. PositionsOK /\ ChannelOK
    BY DEF OperationsInv, QueueOK
  <2>2. /\ attempt'.queue = attempt.queue /\ attempt'.read = attempt.read /\ attempt'.acked = attempt.acked
        /\ attempt'.answered = attempt.answered /\ Active /\ attempt'.state = "draining"
        /\ src' = src /\ store' = store /\ live' = live
    BY <1>0, <1>3 DEF StreamFails, Attempts, Active
  <2>3. Last' = Last
    BY <2>2 DEF Last
  <2>4. PositionsOK'
    BY <2>1, <2>2, <2>3 DEF PositionsOK, Active
  <2>5. ChannelOK'
    BY <2>1, <2>2, <2>3 DEF ChannelOK, Carried
  <2> QED BY <2>4, <2>5 DEF QueueOK
<1>4. CASE ~Streaming /\ ~Crashes
  BY <1>4, CalmSteps, LogGrows, QueueSame
<1> QED BY <1>1, <1>2, <1>3, <1>4, DecodesQueue, FilesQueue, StoresQueue DEF Streaming
-----------------------------------------------------------------------------
(* The rows are what the log leaves.                                       *)

\* Only a commit and a marker change the rows or the log.
LEMMA SourceSteps ==
  ASSUME OperationsInv, Next
  PROVE  \/ src'.log = src.log /\ src'.rows = src.rows
         \/ EmitsMarker
         \/ \E k \in Keys, put \in BOOLEAN : CommitsRow(k, put) /\ (ReinsertRace \/ ~Reinserted(k, put))
<1>0. src \in Sources
  BY DEF OperationsInv, SectionTypes
<1>1. CASE Streaming \/ Crashes
  BY <1>1 DEF Streaming, AttemptStarts, Decodes, Files, StoresCheckpoint, StreamFails, AttemptEnds, EngineHalts,
              Crashes
<1>2. CASE Loading
  BY <1>2 DEF Loading, LoadBegins, LoadReadsPosition, LoadReadsRange, LoadIsFiled, LoadIsMarked, LoadRecords,
              LoadEnds
<1>3. CASE Reloading
  BY <1>0, <1>3 DEF Reloading, EditsFile, Hangup, Reloads, Refuses, Publishes, ReadsBarrier, PassesBarrier,
              Admits, Adopts, LoadStarts, Drops, Forgets, Unpublishes, Sources
<1>4. CASE Commands
  BY <1>4
     DEF Commands, Resnapshots, Reconciles, Reindexes, Runs, ReadsPosition, ReadsRange, WritesRange, ScansKeys,
         FindsOrphans, DeletesOrphans, FindsSlot, ReadsCheckpointAgain, CountsRows, Verifies, SwitchesAlias,
         DropsOld, Repoints, sectionVars
<1>5. CASE Boots \/ AlignsPublication
  BY <1>0, <1>5 DEF Boots, AlignsPublication, Sources
<1> QED BY <1>1, <1>2, <1>3, <1>4, <1>5, NothingExpires DEF Next, Pipeline

\* An entry of another key changes nothing; one of the key decides.
LEMMA ShowsNext ==
  ASSUME LogKept, Last' = Last + 1, NEW k, NEW x,
         \/ src'.log[Last + 1].key # k /\ Shows(k, Last, x)
         \/ src'.log[Last + 1].key = k /\ x = IF src'.log[Last + 1].put THEN Last + 1 ELSE 0
  PROVE  Shows(k, Last, x)'
<1>0. PICK n : n = Last + 1
  OBVIOUS
<1>1. Last \in Nat /\ n \in Nat /\ \A j \in 1 .. Last : src'.log[j] = src.log[j]
  BY <1>0 DEF LogKept
<1>2. Shows(k, n, x)'
  <2>1. CASE src'.log[n].key = k
    BY <1>0, <1>1, <2>1 DEF Shows
  <2>2. CASE src'.log[n].key # k /\ (\A j \in 1 .. Last : src.log[j].key # k) /\ x = Original(k)
    BY <1>0, <1>1, <2>2 DEF Shows, Original
  <2>3. ASSUME src'.log[n].key # k, NEW i \in 1 .. Last,
               src.log[i].key = k, x = (IF src.log[i].put THEN i ELSE 0),
               \A j \in i + 1 .. Last : src.log[j].key # k
        PROVE  Shows(k, n, x)'
    <3>1. i \in 1 .. n /\ src'.log[i] = src.log[i]
      BY <1>0, <1>1
    <3>2. \A j \in i + 1 .. n : src'.log[j].key # k
      BY <1>0, <1>1, <2>3
    <3> QED BY <2>3, <3>1, <3>2 DEF Shows
  <2> QED BY <1>0, <2>1, <2>2, <2>3 DEF Shows
<1> QED BY <1>0, <1>2

\* A commit changes the row and the log together.
LEMMA SourceKept ==
  ASSUME OperationsInv, Next PROVE SourceOK'
<1>0. /\ SourceOK /\ src \in Sources /\ src.log \in Seq(Entry) /\ src.rows \in [Keys -> Nat] /\ Last \in Nat
      /\ LogKept
  BY Fields, LogGrows DEF OperationsInv, SectionTypes
<1>1. CASE src'.log = src.log /\ src'.rows = src.rows
  BY <1>0, <1>1 DEF SourceOK, Shows, Original, Last
<1>2. CASE EmitsMarker
  <2>1. src'.rows = src.rows /\ src'.log = Append(src.log, [key |-> 0, put |-> TRUE, published |-> TRUE])
    BY <1>0, <1>2 DEF EmitsMarker, Sources
  <2>2. Last' = Last + 1 /\ src'.log[Last + 1].key = 0
    BY <1>0, <2>1 DEF Last
  <2>3. ASSUME NEW k \in Keys PROVE Shows(k, Last, src.rows[k])'
    <3>1. PICK x : x = src.rows[k]
      OBVIOUS
    <3>2. k # 0 /\ Shows(k, Last, x)
      BY <1>0, <3>1 DEF SourceOK, Keys
    <3>3. Shows(k, Last, x)'
      BY <1>0, <2>2, <3>2, ShowsNext
    <3> QED BY <2>1, <3>1, <3>3
  <2> QED BY <2>3 DEF SourceOK
<1>3. ASSUME NEW key \in Keys, NEW put \in BOOLEAN, CommitsRow(key, put) PROVE SourceOK'
  <2>1. PICK entry : entry = [key |-> key, put |-> put, published |-> Mysql \/ src.published]
    OBVIOUS
  <2>2. src'.log = Append(src.log, entry) /\ entry.key = key /\ entry.put = put
    BY <1>0, <1>3, <2>1 DEF CommitsRow, Sources
  <2>3. src'.rows = [src.rows EXCEPT ![key] = IF put THEN Last + 1 ELSE 0]
    BY <1>0, <1>3 DEF CommitsRow, Sources, Last
  <2>4. Last' = Last + 1 /\ src'.log[Last + 1] = entry
    BY <1>0, <2>2 DEF Last
  <2>5. ASSUME NEW k \in Keys PROVE Shows(k, Last, src.rows[k])'
    <3>1. PICK x : x = src'.rows[k]
      OBVIOUS
    <3>2. k # key => x = src.rows[k] /\ Shows(k, Last, x)
      BY <1>0, <2>3, <3>1 DEF SourceOK
    <3>3. k = key => x = IF put THEN Last + 1 ELSE 0
      BY <1>0, <2>3, <3>1
    <3>4. Shows(k, Last, x)'
      BY <1>0, <2>2, <2>4, <3>2, <3>3, ShowsNext
    <3> QED BY <3>1, <3>4
  <2> QED BY <2>5 DEF SourceOK
<1> QED BY <1>1, <1>2, <1>3, SourceSteps
-----------------------------------------------------------------------------
(* The keys no document was left behind for.                               *)

\* A step that leaves the log and the attempt.
LEMMA OrderlySame ==
  ASSUME OperationsInv, NEW k, Orderly(k),
         src'.log = src.log, store'.checkpoint = store.checkpoint,
         attempt'.state = attempt.state, attempt'.read = attempt.read, attempt'.queue = attempt.queue,
         src.published => src'.published,
         live'.up /\ ~live'.tables => (live.up /\ ~live.tables) \/ attempt.queue = <<>>
  PROVE  Orderly(k)'
<1>1. Regular(k)'
  BY DEF Orderly, Regular, Brings, Succeeds, Queued, Active, Last
<1>2. ~src'.published => ~Awaited(k)'
  BY DEF Orderly, Awaited, Brings, Last
<1> QED BY <1>1, <1>2 DEF Orderly

\* Nothing is to be brought of a key that is not behind.
LEMMA OrderlyFresh ==
  ASSUME OperationsInv, NEW k \in Keys, k \notin Behind,
         src'.log = src.log, store'.checkpoint = store.checkpoint, attempt' = attempt
  PROVE  Orderly(k)'
<1>1. \A i \in store.checkpoint + 1 .. Last : ~(src.log[i].key = k /\ src.log[i].put)
  BY DEF Behind, Last
<1>2. Last' = Last
  BY DEF Last
<1>3. Regular(k)'
  BY <1>1, <1>2, Fields DEF Regular, Brings
<1>4. ~Awaited(k)'
  BY <1>1, <1>2, Fields DEF Awaited, Brings
<1>5. ASSUME NEW x \in 1 .. Len(attempt.queue), attempt.queue[x].key = k PROVE ~attempt.queue[x].put
  <2>0. Carried(attempt.queue[x]) /\ k # 0
    BY <1>5 DEF OperationsInv, QueueOK, ChannelOK, Keys
  <2>1. PICK change : change = attempt.queue[x]
    OBVIOUS
  <2>2. change.at \in 1 .. Last /\ change.at > store.checkpoint /\ src.log[change.at].key = k
        /\ change.put = src.log[change.at].put
    BY <1>5, <2>0, <2>1 DEF Carried
  <2>3. change.at \in store.checkpoint + 1 .. Last
    BY <2>2, Fields
  <2> QED BY <1>1, <2>1, <2>2, <2>3
<1> QED BY <1>3, <1>4, <1>5 DEF Orderly

\* A new change of a key that is orderly is published when the table is.
LEMMA OrderlyAppend ==
  ASSUME OperationsInv, NEW k \in Keys, Orderly(k), NEW entry \in Entry, src'.log = Append(src.log, entry),
         src'.published = src.published, entry.key = k => entry.published = src.published,
         UNCHANGED <<attempt, store, live>>
  PROVE  Orderly(k)'
<1>0. attempt' = attempt /\ store' = store /\ live' = live /\ Last \in Nat
  BY Fields
<1>1. /\ Last' = Last + 1 /\ src'.log[Last + 1] = entry
      /\ \A j \in 1 .. Last : src'.log[j] = src.log[j]
  BY Fields DEF Last
<1>2. attempt.read <= Last /\ attempt.read \in Nat /\ store.checkpoint \in Nat
  BY Fields DEF OperationsInv, QueueOK, PositionsOK
<1>3. ASSUME NEW i \in 1 .. Last PROVE Brings(k, i)' = Brings(k, i)
  BY <1>0, <1>1 DEF Brings
<1>4. ASSUME NEW i \in 1 .. Last, NEW j \in 1 .. Last, Succeeds(k, i, j) PROVE Succeeds(k, i, j)'
  BY <1>0, <1>1, <1>4 DEF Succeeds, Active, Queued
<1>5. PICK n : n = Last + 1
  OBVIOUS
<1>6. ASSUME NEW i \in 1 .. Last, Brings(k, i), src'.log[n].key = k PROVE Succeeds(k, i, n)'
  <2>1. src.published
    BY <1>6 DEF Orderly, Awaited
  <2>2. src'.log[n].published
    BY <1>1, <1>5, <1>6, <2>1
  <2>3. n > attempt'.read
    BY ONLY <1>0, <1>2, <1>5
  <2> QED BY <2>2, <2>3 DEF Succeeds
<1>7. ASSUME NEW i \in 1 .. Last', Brings(k, i)', NEW j \in i + 1 .. Last', src'.log[j].key = k
      PROVE  Succeeds(k, i, j)'
  <2>1. i \in 1 .. Last
    BY ONLY <1>0, <1>1, <1>7
  <2>2. j \in i + 1 .. Last \/ j = n
    BY ONLY <1>0, <1>1, <1>5, <1>7, <2>1
  <2>3. Brings(k, i)
    BY <1>3, <1>7, <2>1
  <2>4. CASE j = n
    BY <1>6, <1>7, <2>1, <2>3, <2>4
  <2>5. CASE j \in i + 1 .. Last
    <3>1. j \in 1 .. Last
      BY ONLY <1>0, <2>1, <2>5
    <3>2. src.log[j].key = k
      BY <1>1, <1>7, <3>1
    <3>3. Succeeds(k, i, j)
      BY <2>1, <2>3, <2>5, <3>2 DEF Orderly, Regular
    <3> QED BY <1>4, <2>1, <3>1, <3>3
  <2> QED BY <2>2, <2>4, <2>5
<1>8. Regular(k)'
  BY <1>7 DEF Regular
<1>9. ~src'.published => ~Awaited(k)'
  <2>1. SUFFICES ASSUME ~src.published, NEW i \in 1 .. Last', Brings(k, i)'
                 PROVE  FALSE
    BY DEF Awaited
  <2>2. CASE i \in 1 .. Last
    BY <1>3, <2>1, <2>2 DEF Orderly, Awaited
  <2>3. CASE i = Last + 1
    BY <1>1, <2>1, <2>3 DEF Brings
  <2> QED BY <1>0, <1>1, <2>1, <2>2, <2>3
<1> QED BY <1>0, <1>8, <1>9 DEF Orderly

\* An attempt that starts or ends has nothing on its channel.
LEMMA OrderlyEmpty ==
  ASSUME OperationsInv, NEW k, Orderly(k), src' = src, store' = store, attempt'.queue = <<>>
  PROVE  Orderly(k)'
<1>1. \A i : ~Queued(k, i)'
  BY DEF Queued
<1>2. Regular(k)'
  BY <1>1 DEF Orderly, Regular, Brings, Succeeds, Last
<1>3. ~src'.published => ~Awaited(k)'
  BY DEF Orderly, Awaited, Brings, Last
<1> QED BY <1>2, <1>3 DEF Orderly

\* A failing attempt still holds its channel; a checkpoint leaves less to bring.
LEMMA OrderlyFailed ==
  ASSUME OperationsInv, NEW k, Orderly(k), StreamFails \/ StoresCheckpoint
  PROVE  Orderly(k)'
<1>1. /\ attempt'.queue = attempt.queue /\ attempt'.read = attempt.read /\ Active' = Active
      /\ src' = src /\ live' = live /\ Last' = Last
  BY DEF OperationsInv, SectionTypes, Attempts, StreamFails, StoresCheckpoint, Active, Last
<1>2. store'.checkpoint >= store.checkpoint /\ store'.checkpoint \in Nat /\ store.checkpoint \in Nat
  <2>1. CASE StreamFails
    BY <2>1, Fields DEF StreamFails
  <2>2. CASE StoresCheckpoint
    BY <2>2, Fields DEF StoresCheckpoint, OperationsInv, SectionTypes, Stores
  <2> QED BY <2>1, <2>2
<1>3. \A i \in 1 .. Last : Brings(k, i)' => Brings(k, i)
  BY <1>1, <1>2 DEF Brings
<1>4. Regular(k)'
  BY <1>1, <1>3 DEF Orderly, Regular, Succeeds, Queued
<1>5. ~src'.published => ~Awaited(k)'
  BY <1>1, <1>3 DEF Orderly, Awaited
<1> QED BY <1>1, <1>4, <1>5 DEF Orderly

\* The change that is filed leaves those behind it.
LEMMA OrderlyFiled ==
  ASSUME OperationsInv, NEW k, Orderly(k), Files
  PROVE  Orderly(k)'
<1> DEFINE queue == attempt.queue
           next == attempt'.queue
<1>1. /\ queue \in Seq(Change) /\ next \in Seq(Change) /\ Len(queue) \in Nat /\ Len(queue) >= 1
      /\ Len(next) = Len(queue) - 1 /\ \A x \in 1 .. Len(next) : next[x] = queue[x + 1]
      /\ attempt'.read = attempt.read /\ Active' = Active /\ src' = src /\ store' = store /\ live' = live
      /\ Last' = Last
  BY TakesHead, Fields DEF Active, Last
<1>2. \A x \in 1 .. Len(queue) : queue[x] \in Change /\ \A y \in x + 1 .. Len(queue) : queue[x].at < queue[y].at
  BY Fields DEF OperationsInv, QueueOK, ChannelOK
<1>a. \A x \in 1 .. Len(next) : x + 1 \in 1 .. Len(queue) /\ next[x] = queue[x + 1]
  BY <1>1
<1>b. \A x \in 1 .. Len(queue) : x = 1 \/ (x - 1 \in 1 .. Len(next) /\ next[x - 1] = queue[x])
  BY <1>1
<1> HIDE DEF queue, next
<1>3. \A i : Queued(k, i)' => Queued(k, i) /\ queue[1].at < i
  <2>1. SUFFICES ASSUME NEW i, NEW x \in 1 .. Len(next), next[x].at = i, next[x].key = k
                 PROVE  Queued(k, i) /\ queue[1].at < i
    BY DEF Queued, next
  <2>2. x + 1 \in 1 .. Len(queue) /\ queue[x + 1].at = i /\ queue[x + 1].key = k
    BY <1>a, <2>1
  <2>3. x + 1 \in 1 + 1 .. Len(queue) /\ 1 \in 1 .. Len(queue)
    BY ONLY <1>1, <2>1, <2>2
  <2> QED BY <1>2, <2>2, <2>3 DEF Queued, queue
<1>4. \A j : Queued(k, j) /\ j # queue[1].at => Queued(k, j)'
  BY <1>b DEF Queued, queue, next
<1>5. ASSUME NEW i \in 1 .. Last, NEW j \in i + 1 .. Last, Succeeds(k, i, j) PROVE Succeeds(k, i, j)'
  <2>1. SUFFICES ASSUME Active, Queued(k, i)' PROVE j > attempt.read \/ Queued(k, j)'
    BY <1>1, <1>5 DEF Succeeds
  <2>2. Queued(k, i) /\ queue[1].at < i
    BY <1>3, <2>1
  <2>3. queue[1].at \in Nat /\ i \in Nat /\ j > i
    BY <1>1, <1>2, Fields DEF Change
  <2>4. j # queue[1].at
    BY <2>2, <2>3
  <2> QED BY <1>4, <1>5, <2>1, <2>2, <2>4 DEF Succeeds
<1>6. Regular(k)'
  BY <1>1, <1>5 DEF Orderly, Regular, Brings
<1>7. ~src'.published => ~Awaited(k)'
  BY <1>1 DEF Orderly, Awaited, Brings
<1>8. live.up /\ ~live.tables => \A x \in 1 .. Len(next) : next[x].key = k => ~next[x].put
  BY <1>a DEF Orderly, queue
<1> QED BY <1>1, <1>6, <1>7, <1>8 DEF Orderly, next

\* What is decoded is brought, the rows of a table not admitted excepted.
LEMMA OrderlyDecoded ==
  ASSUME OperationsInv, NEW k \in Keys, Orderly(k), Decodes
  PROVE  Orderly(k)'
<1>0. attempt \in Attempts /\ Active /\ live.up /\ live' = live /\ src' = src /\ store' = store /\ Last' = Last
  BY DEF OperationsInv, SectionTypes, Decodes, Active, QueueOK, PositionsOK, Last
<1>a. PICK at : at = attempt.read + 1
  OBVIOUS
<1> DEFINE one == [at |-> at, key |-> IF live.tables THEN src.log[at].key ELSE 0, put |-> src.log[at].put]
           n == Len(attempt.queue)
<1>1. /\ attempt'.read = at /\ attempt'.state = attempt.state
      /\ attempt'.queue = IF src.log[at].published THEN Append(attempt.queue, one) ELSE attempt.queue
  BY <1>0, <1>a DEF Decodes, Attempts
<1>2. one.at = at /\ one.key = (IF live.tables THEN src.log[at].key ELSE 0)
  OBVIOUS
<1> HIDE DEF one
<1>3. at \in 1 .. Last /\ at \in Nat /\ attempt.read \in Nat /\ at = attempt.read + 1 /\ n \in Nat /\ k # 0
  BY <1>0, <1>a, Fields DEF Decodes, Last, Keys
<1>4. /\ \A x \in 1 .. n : x \in 1 .. Len(attempt'.queue) /\ attempt'.queue[x] = attempt.queue[x]
      /\ src.log[at].published => n + 1 \in 1 .. Len(attempt'.queue) /\ attempt'.queue[n + 1] = one
      /\ \A x \in 1 .. Len(attempt'.queue) : x \in 1 .. n \/ (src.log[at].published /\ attempt'.queue[x] = one)
  BY <1>1, Fields
<1>5. Active' = Active /\ \A i : Queued(k, i) => Queued(k, i)'
  BY <1>1, <1>4 DEF Queued, Active
<1>6. \A i : Queued(k, i)' => Queued(k, i) \/ (i = at /\ live.tables)
  BY <1>2, <1>3, <1>4 DEF Queued
<1>7. live.tables /\ src.log[at].key = k /\ src.log[at].published => Queued(k, at)'
  BY <1>2, <1>4 DEF Queued
<1>8. ASSUME NEW i \in 1 .. Last, Brings(k, i), NEW j \in i + 1 .. Last, src.log[j].key = k, Succeeds(k, i, j)
      PROVE  Succeeds(k, i, j)'
  <2>1. SUFFICES ASSUME Queued(k, i)' PROVE j > at \/ Queued(k, j)'
    BY <1>0, <1>1, <1>8 DEF Succeeds
  <2>2. CASE i = at
    BY <1>3, <1>8, <2>2
  <2>3. CASE Queued(k, i)
    <3>1. live.tables
      <4>1. SUFFICES ASSUME ~live.tables PROVE FALSE
        OBVIOUS
      <4>2. PICK x \in 1 .. n : attempt.queue[x].at = i /\ attempt.queue[x].key = k
        BY <2>3 DEF Queued
      <4>3. attempt.queue[x].put = src.log[i].put
        BY <4>2 DEF OperationsInv, QueueOK, ChannelOK, Carried
      <4> QED BY <1>0, <1>8, <4>1, <4>2, <4>3 DEF Orderly, Brings
    <3>2. j > attempt.read \/ Queued(k, j)
      BY <1>0, <1>8, <2>3 DEF Succeeds
    <3>3. j = at => Queued(k, j)'
      BY <1>7, <1>8, <3>1 DEF Succeeds
    <3>4. j \in Nat
      OBVIOUS
    <3> QED BY <1>3, <1>5, <3>2, <3>3, <3>4
  <2> QED BY <1>6, <2>1, <2>2, <2>3
<1>9. Regular(k)'
  BY <1>0, <1>8 DEF Orderly, Regular, Brings
<1>10. ~src'.published => ~Awaited(k)'
  BY <1>0 DEF Orderly, Awaited, Brings
<1>11. ~live.tables => \A x \in 1 .. Len(attempt'.queue) : attempt'.queue[x].key = k => ~attempt'.queue[x].put
  BY <1>0, <1>2, <1>3, <1>4 DEF Orderly
<1> QED BY <1>0, <1>9, <1>10, <1>11 DEF Orderly

\* A section that leaves makes a stray of every key that may not be orderly.
LEMMA StraysKept ==
  ASSUME OperationsInv, Next PROVE StraysOK'
<1>0. /\ src \in Sources /\ attempt \in Attempts /\ live \in Processes /\ said \in Reports
      /\ StraysOK /\ (Mysql => src.published) /\ (~Active => attempt.queue = <<>>) /\ (Active => live.up)
  BY DEF OperationsInv, SectionTypes, ControlOK, QueueOK, PositionsOK
<1> SUFFICES ASSUME NEW k \in Keys, k \notin said'.strays PROVE Orderly(k)'
  BY DEF StraysOK
<1>1. CASE k \notin said.strays
  <2>0. Orderly(k)
    BY <1>0, <1>1 DEF StraysOK
  <2>1. CASE AttemptStarts \/ AttemptEnds \/ EngineHalts \/ Crashes
    <3>1. src' = src /\ store' = store /\ attempt'.queue = <<>>
      BY <1>0, <2>1 DEF AttemptStarts, AttemptEnds, EngineHalts, Crashes, Attempts
    <3> QED BY <2>0, <3>1, OrderlyEmpty
  <2>2. CASE EmitsMarker
    <3>1. PICK entry : entry = [key |-> 0, put |-> TRUE, published |-> TRUE]
      OBVIOUS
    <3>2. entry \in Entry /\ entry.key # k
      BY <3>1, Fields DEF Entry, Keys
    <3>3. src'.log = Append(src.log, entry) /\ src'.published = src.published /\ UNCHANGED <<attempt, store, live>>
      BY <1>0, <2>2, <3>1 DEF EmitsMarker, Sources
    <3> QED BY <2>0, <3>2, <3>3, OrderlyAppend
  <2>3. ASSUME NEW key \in Keys, NEW put \in BOOLEAN, CommitsRow(key, put) PROVE Orderly(k)'
    <3>1. PICK entry : entry = [key |-> key, put |-> put, published |-> Mysql \/ src.published]
      OBVIOUS
    <3>2. entry \in Entry
      BY <2>3, <3>1, CommitTypes
    <3>3. src'.log = Append(src.log, entry) /\ src'.published = src.published /\ UNCHANGED <<attempt, store, live>>
      BY <1>0, <2>3, <3>1 DEF CommitsRow, Sources
    <3>4. entry.published = src.published
      <4>1. src.published \in BOOLEAN /\ Mysql \in BOOLEAN
        BY <1>0 DEF Sources, Mysql
      <4>2. (Mysql \/ src.published) = src.published
        BY <1>0, <4>1
      <4> QED BY <3>1, <4>2
    <3> QED BY <2>0, <3>2, <3>3, <3>4, OrderlyAppend
  <2>4. CASE Drops \/ AlignsPublication \/ \E may \in BOOLEAN : Unpublishes(may)
    <3>1. src'.log = src.log /\ store' = store /\ attempt' = attempt /\ k \notin Behind
      BY <1>0, <2>4 DEF Drops, AlignsPublication, Unpublishes, Sources, Reports
    <3> QED BY <3>1, OrderlyFresh
  <2>5. CASE /\ ~Streaming /\ ~Crashes /\ ~Drops /\ ~AlignsPublication
             /\ ~\E may \in BOOLEAN : Unpublishes(may)
             /\ src'.log = src.log
    <3>1. src.published => src'.published
      <4>1. CASE Loading
        BY <4>1 DEF Loading, LoadBegins, LoadReadsPosition, LoadReadsRange, LoadIsFiled, LoadIsMarked,
                    LoadRecords, LoadEnds
      <4>2. CASE Reloading
        BY <1>0, <2>5, <4>2
           DEF Reloading, EditsFile, Hangup, Reloads, Refuses, Publishes, EmitsMarker, ReadsBarrier,
               PassesBarrier, Admits, Adopts, LoadStarts, Forgets, Sources
      <4>3. CASE Commands
        BY <4>3
           DEF Commands, Resnapshots, Reconciles, Reindexes, Runs, ReadsPosition, ReadsRange, WritesRange,
               ScansKeys, FindsOrphans, DeletesOrphans, FindsSlot, ReadsCheckpointAgain, CountsRows, Verifies,
               SwitchesAlias, DropsOld, Repoints, sectionVars
      <4>4. CASE Boots
        BY <4>4 DEF Boots
      <4>5. ASSUME NEW key \in Keys, NEW put \in BOOLEAN, CommitsRow(key, put) PROVE src'.published = src.published
        BY <1>0, <4>5 DEF CommitsRow, Sources
      <4> QED BY <2>5, <4>1, <4>2, <4>3, <4>4, <4>5, NothingExpires DEF Next, Pipeline
    <3>2. live'.up /\ ~live'.tables => (live.up /\ ~live.tables) \/ attempt.queue = <<>>
      <4>1. CASE Loading
        BY <1>0, <4>1 DEF Loading, LoadBegins, LoadReadsPosition, LoadReadsRange, LoadIsFiled, LoadIsMarked,
                    LoadRecords, LoadEnds, Processes
      <4>2. CASE Reloading
        BY <1>0, <2>5, <4>2
           DEF Reloading, EditsFile, Hangup, Reloads, Refuses, Publishes, EmitsMarker, ReadsBarrier,
               PassesBarrier, Admits, Adopts, LoadStarts, Forgets, Processes
      <4>3. CASE Commands
        BY <4>3
           DEF Commands, Resnapshots, Reconciles, Reindexes, Runs, ReadsPosition, ReadsRange, WritesRange,
               ScansKeys, FindsOrphans, DeletesOrphans, FindsSlot, ReadsCheckpointAgain, CountsRows, Verifies,
               SwitchesAlias, DropsOld, Repoints, sectionVars
      <4>4. CASE Boots
        BY <1>0, <4>4 DEF Boots
      <4>5. ASSUME NEW key \in Keys, NEW put \in BOOLEAN, CommitsRow(key, put) PROVE live' = live
        BY <4>5 DEF CommitsRow
      <4> QED BY <2>5, <4>1, <4>2, <4>3, <4>4, <4>5, NothingExpires DEF Next, Pipeline
    <3> QED BY <2>0, <2>5, <3>1, <3>2, CalmSteps, OrderlySame
  <2> QED BY <2>0, <2>1, <2>2, <2>3, <2>4, <2>5, CalmSteps, OrderlyFailed, OrderlyFiled, OrderlyDecoded
         DEF Streaming
<1>2. CASE k \in said.strays
  <2>1. DeletesOrphans /\ k \notin Behind
    <3>1. CASE Streaming \/ Crashes \/ Boots \/ AlignsPublication
      BY <1>0, <1>2, <3>1 DEF Streaming, AttemptStarts, Decodes, Files, StoresCheckpoint, StreamFails, AttemptEnds,
              EngineHalts, Crashes, Boots, AlignsPublication, Reports
    <3>2. CASE Loading
      BY <1>0, <1>2, <3>2 DEF Loading, LoadBegins, LoadReadsPosition, LoadReadsRange, LoadIsFiled, LoadIsMarked,
              LoadRecords, LoadEnds, Reports
    <3>3. CASE Reloading
      BY <1>0, <1>2, <3>3 DEF Reloading, EditsFile, Hangup, Reloads, Refuses, Publishes, EmitsMarker, ReadsBarrier,
              PassesBarrier, Admits, Adopts, LoadStarts, Drops, Forgets, Unpublishes, Reports
    <3>4. CASE Commands
      <4>1. DeletesOrphans
        BY <1>2, <3>4, CommandsKeep DEF Keeps
      <4> QED BY <1>0, <1>2, <4>1 DEF DeletesOrphans, Reports
    <3>5. ASSUME NEW key \in Keys, NEW put \in BOOLEAN, CommitsRow(key, put) PROVE said' = said
      BY <3>5 DEF CommitsRow
    <3> QED BY <1>2, <3>1, <3>2, <3>3, <3>4, <3>5, NothingExpires DEF Next, Pipeline
  <2>2. src' = src /\ store' = store /\ attempt' = attempt
    BY <2>1 DEF DeletesOrphans
  <2> QED BY <2>1, <2>2, OrderlyFresh
<1> QED BY <1>1, <1>2
-----------------------------------------------------------------------------
(* The steps of the reload.                                                *)

\* The attempt, against the reload.
LEMMA StreamingControl ==
  ASSUME OperationsInv, Streaming PROVE ControlOK'
<1>0. /\ ControlOK /\ loads \in [{"attempt", "join"} -> Load] /\ reload \in ReloadTasks /\ setup \in Deployments
      /\ store \in Stores
  BY DEF OperationsInv, SectionTypes
<1>1. CASE AttemptStarts
  <2>1. loads'["join"] = loads["join"] /\ (~store.progress.stored => loads'["attempt"].at = "off")
    BY <1>0, <1>1 DEF AttemptStarts, Pending, NoLoad
  <2> QED BY <1>0, <1>1, <2>1 DEF AttemptStarts, ControlOK, Mysql
<1>2. CASE Decodes \/ Files \/ AttemptEnds
  BY <1>0, <1>2 DEF Decodes, Files, AttemptEnds, ControlOK, Mysql
<1>3. CASE StoresCheckpoint
  <2>1. store'.progress = store.progress
    BY <1>0, <1>3 DEF StoresCheckpoint, Stores
  <2> QED BY <1>0, <1>3, <2>1 DEF StoresCheckpoint, ControlOK, Mysql
<1>4. CASE StreamFails
  <2>1. loads'["join"] = loads["join"] /\ loads'["attempt"].at = "off" /\ setup'.flavor = setup.flavor
    BY <1>0, <1>4 DEF StreamFails, NoLoad, Deployments
  <2> QED BY <1>0, <1>4, <2>1 DEF StreamFails, ControlOK, Mysql
<1>5. CASE EngineHalts
  <2>1. /\ loads'["join"].at = "off" /\ loads'["attempt"].at = "off" /\ setup'.flavor = setup.flavor
        /\ reload'.step = IF reload.step = "loading" THEN "idle" ELSE reload.step
    BY <1>0, <1>5 DEF EngineHalts, NoLoad, Deployments, ReloadTasks
  <2> QED BY <1>0, <1>5, <2>1 DEF EngineHalts, ControlOK, Mysql, Ahead
<1> QED BY <1>1, <1>2, <1>3, <1>4, <1>5 DEF Streaming

\* A load that ends is the end of the reload.
LEMMA LoadingControl ==
  ASSUME OperationsInv, Loading PROVE ControlOK'
<1>0. /\ ControlOK /\ loads \in [{"attempt", "join"} -> Load] /\ reload \in ReloadTasks /\ setup \in Deployments
      /\ store \in Stores /\ live \in Processes /\ KeyCount \in Nat
  BY OperationsAssumption DEF OperationsInv, SectionTypes
<1>b. PICK l \in {"attempt", "join"} :
        \/ LoadBegins(l) \/ LoadReadsPosition(l) \/ LoadReadsRange(l)
        \/ LoadIsFiled(l) \/ LoadIsMarked(l) \/ LoadRecords(l) \/ LoadEnds(l)
  BY <1>0 DEF Loading
<1>1. CASE LoadBegins(l)
  <2>1. /\ store'.progress.done = store.progress.done
        /\ store'.progress.stored = (IF Mysql THEN store.progress.stored ELSE TRUE)
        /\ loads'[l].at \in {"clear", "position"} /\ \A m \in {"attempt", "join"} : m # l => loads'[m] = loads[m]
        /\ loads[l].at = "start"
    BY <1>0, <1>1 DEF LoadBegins, Stores, NoLoad
  <2> QED BY <1>0, <1>1, <2>1 DEF LoadBegins, ControlOK, Mysql
<1>2. CASE LoadReadsPosition(l) \/ LoadReadsRange(l) \/ LoadIsFiled(l) \/ LoadIsMarked(l)
  <2>1. /\ loads[l].at # "off" /\ loads'[l].at # "off"
        /\ \A m \in {"attempt", "join"} : m # l => loads'[m] = loads[m]
        /\ UNCHANGED <<setup, src, file, live, store, alias, reload>>
    BY <1>0, <1>2 DEF LoadReadsPosition, LoadReadsRange, LoadIsFiled, LoadIsMarked, Load
  <2> QED BY <1>0, <2>1 DEF ControlOK, Mysql
<1>3. CASE LoadRecords(l)
  <2>1. loads[l].done <= KeyCount
    BY <1>3 DEF OperationsInv, LoadsOK, LoadOK, LoadRecords
  <2>2. /\ store'.progress.done = loads[l].done /\ store'.progress.stored
        /\ loads[l].at # "off" /\ loads'[l].at # "off"
        /\ \A m \in {"attempt", "join"} : m # l => loads'[m] = loads[m]
    BY <1>0, <1>3 DEF LoadRecords, Stores, Load
  <2> QED BY <1>0, <1>3, <2>1, <2>2 DEF LoadRecords, ControlOK, Mysql
<1>4. CASE LoadEnds(l)
  <2>1. /\ store'.progress.done = 0 /\ ~store'.progress.stored
        /\ loads[l].at # "off" /\ loads'[l].at = "off"
        /\ \A m \in {"attempt", "join"} : m # l => loads'[m] = loads[m]
        /\ live'.up = live.up /\ live'.tables = live.tables /\ live'.rules = live.rules /\ live'.index = live.index
        /\ reload'.step = IF l = "join" THEN "idle" ELSE reload.step
    BY <1>0, <1>4 DEF LoadEnds, Stores, NoLoad, NoProgress, Processes, ReloadTasks
  <2> QED BY <1>0, <1>4, <2>1 DEF LoadEnds, ControlOK, Mysql, Ahead
<1> QED BY <1>b, <1>1, <1>2, <1>3, <1>4

\* The steps of a reload, in their order.
LEMMA ReloadingControl ==
  ASSUME OperationsInv, Reloading PROVE ControlOK'
<1>0. /\ ControlOK /\ loads \in [{"attempt", "join"} -> Load] /\ reload \in ReloadTasks /\ setup \in Deployments
      /\ store \in Stores /\ live \in Processes /\ src \in Sources /\ file \in ConfigFiles
      /\ live.up \in BOOLEAN /\ live.tables \in BOOLEAN /\ live.rules \in BOOLEAN
  BY DEF OperationsInv, SectionTypes, Processes
<1>1. CASE EditsFile \/ Hangup
  <2>1. setup'.flavor = setup.flavor /\ file'.index = file.index /\ reload'.step = reload.step
    BY <1>0, <1>1 DEF EditsFile, Hangup, Deployments, ConfigFiles, ReloadTasks
  <2> QED BY <1>0, <1>1, <2>1 DEF EditsFile, Hangup, ControlOK, Mysql
<1>2. CASE Reloads
  <2>1. /\ reload'.step = Edit /\ reload.step = "idle" /\ live.up
        /\ Edit = "drop" => ~store.progress.stored /\ loads["attempt"].at = "off"
    BY <1>0, <1>2 DEF Reloads, ReloadTasks, OperationsInv, Provided
  <2>2. Edit \in {"idle", "drop", "admit", "publish"} /\ (Edit = "admit" => Mysql)
    BY DEF Edit
  <2> QED BY <1>0, <1>2, <2>1, <2>2 DEF Reloads, ControlOK, Mysql, Ahead
<1>3. CASE Refuses \/ ReadsBarrier \/ PassesBarrier
  <2>1. reload'.step \in {"idle", "barrier", "admit"} /\ reload.step \in {"publish", "barrier", "load", "position"}
        /\ (reload'.step # "idle" => reload.step \in {"barrier", "position"})
    BY <1>0, <1>3 DEF Refuses, ReadsBarrier, PassesBarrier, ReloadTasks
  <2> QED BY <1>0, <1>3, <2>1 DEF Refuses, ReadsBarrier, PassesBarrier, ControlOK, Mysql, Ahead
<1>4. CASE Publishes \/ EmitsMarker
  <2>1. /\ reload'.step \in {"marker", "position"} /\ reload.step \in {"publish", "marker"}
        /\ src'.published
    BY <1>0, <1>4 DEF Publishes, EmitsMarker, ReloadTasks, Sources, ControlOK, Ahead
  <2> QED BY <1>0, <1>4, <2>1 DEF Publishes, EmitsMarker, ControlOK, Mysql, Ahead
<1>5. CASE Admits \/ Adopts
  <2>1. /\ reload'.step \in {"adopt", "load"} /\ reload.step \in {"admit", "adopt"}
        /\ live'.up = live.up /\ live'.index = live.index /\ live'.tables
        /\ (reload'.step = "load" => live'.rules)
    BY <1>0, <1>5 DEF Admits, Adopts, ReloadTasks, Processes, ControlOK
  <2> QED BY <1>0, <1>5, <2>1 DEF Admits, Adopts, ControlOK, Mysql, Ahead
<1>6. CASE LoadStarts
  <2>1. /\ reload'.step = "loading" /\ reload.step = "load"
        /\ loads'["join"].at # "off" /\ loads'["attempt"] = loads["attempt"]
    BY <1>0, <1>6 DEF LoadStarts, ReloadTasks, NoLoad
  <2> QED BY <1>0, <1>6, <2>1 DEF LoadStarts, ControlOK, Mysql, Ahead
<1>7. CASE Drops \/ Forgets
  <2>1. /\ reload'.step \in {"idle", "forget", "unpublish"} /\ reload.step \in {"drop", "forget"}
        /\ reload'.step = "forget" <=> reload.step = "drop"
        /\ live'.up = live.up /\ live'.index = live.index /\ ~live'.tables
        /\ (reload'.step = "unpublish" => ~Mysql)
        /\ (reload.step = "forget" => ~live'.rules) /\ (reload.step = "drop" => live'.rules = live.rules)
    BY <1>0, <1>7 DEF Drops, Forgets, ReloadTasks, Processes, ControlOK
  <2> QED BY <1>0, <1>7, <2>1 DEF Drops, Forgets, ControlOK, Mysql, Ahead
<1>8. ASSUME NEW may \in BOOLEAN, Unpublishes(may) PROVE ControlOK'
  <2>1. reload'.step = "idle" /\ reload.step = "unpublish" /\ src'.published = (src.published /\ ~may)
    BY <1>0, <1>8 DEF Unpublishes, ReloadTasks, Sources
  <2>2. ~Mysql
    BY <1>0, <1>8 DEF Unpublishes, ControlOK
  <2> QED BY <1>0, <1>8, <2>1, <2>2 DEF Unpublishes, ControlOK, Mysql, Ahead
<1> QED BY <1>1, <1>2, <1>3, <1>4, <1>5, <1>6, <1>7, <1>8 DEF Reloading

\* A start builds everything from the file.
LEMMA ProcessControl ==
  ASSUME OperationsInv, Crashes \/ (file.index = alias /\ Boots) \/ AlignsPublication PROVE ControlOK'
<1>0. /\ ControlOK /\ loads \in [{"attempt", "join"} -> Load] /\ reload \in ReloadTasks /\ setup \in Deployments
      /\ live \in Processes /\ src \in Sources
  BY DEF OperationsInv, SectionTypes
<1>1. CASE Crashes
  <2>1. /\ ~live'.up /\ ~live'.tables /\ ~live'.rules /\ reload'.step = "idle" /\ setup'.flavor = setup.flavor
        /\ \A l \in {"attempt", "join"} : loads'[l].at = "off"
    BY <1>0, <1>1 DEF Crashes, Deployments, Processes, NoLoad
  <2> QED BY <1>0, <1>1, <2>1 DEF Crashes, ControlOK, Mysql, Ahead
<1>2. CASE file.index = alias /\ Boots
  BY <1>0, <1>2 DEF Boots, ControlOK, Mysql, Ahead
<1>3. CASE AlignsPublication
  <2>1. src'.published = file.section /\ ~Mysql /\ ~live.up
    BY <1>0, <1>3 DEF AlignsPublication, Sources
  <2> QED BY <1>0, <1>3, <2>1 DEF AlignsPublication, ControlOK, Mysql, Ahead
<1> QED BY <1>1, <1>2, <1>3

\* A command leaves the reload alone; the alias moves with the process stopped.
LEMMA CommandsControl ==
  ASSUME OperationsInv, Commands PROVE ControlOK'
<1>0. ControlOK /\ setup \in Deployments
  BY DEF OperationsInv, SectionTypes
<1>1. CASE SwitchesAlias
  <2>1. ~live.up
    BY <1>1 DEF OperationsInv, CommandOK, SwitchesAlias, At
  <2> QED BY <1>0, <1>1, <2>1 DEF SwitchesAlias, ControlOK, Mysql
<1>2. CASE Repoints
  BY <1>0, <1>2 DEF Repoints, ControlOK, Mysql
<1>3. CASE ~SwitchesAlias /\ ~Repoints
  <2>1. UNCHANGED <<src, file, live, store, alias, reload, loads>> /\ setup'.flavor = setup.flavor
    BY <1>0, <1>3
       DEF Commands, Resnapshots, Reconciles, Reindexes, Runs, ReadsPosition, ReadsRange, WritesRange, ScansKeys,
           FindsOrphans, DeletesOrphans, FindsSlot, ReadsCheckpointAgain, CountsRows, Verifies, DropsOld,
           sectionVars, Deployments
  <2> QED BY <1>0, <2>1 DEF ControlOK, Mysql
<1> QED BY <1>1, <1>2, <1>3

\* Every step keeps the reload in step with what is in force.
LEMMA ControlKept ==
  ASSUME OperationsInv, Next PROVE ControlOK'
<1>1. ASSUME NEW k \in Keys, NEW put \in BOOLEAN, CommitsRow(k, put) PROVE ControlOK'
  <2>1. /\ setup'.flavor = setup.flavor /\ src'.published = src.published
        /\ UNCHANGED <<file, live, store, alias, reload, loads>>
    BY <1>1 DEF OperationsInv, SectionTypes, CommitsRow, Deployments, Sources
  <2> QED BY <2>1 DEF OperationsInv, ControlOK, Mysql
<1> QED BY <1>1, StreamingControl, LoadingControl, ReloadingControl, ProcessControl, CommandsControl, NothingExpires
       DEF Next, Pipeline

\* The provisos stay.
LEMMA ProvidedKept ==
  ASSUME OperationsInv, Next PROVE Provided'
<1>0. setup \in Deployments
  BY DEF OperationsInv, SectionTypes
<1>1. setup'.expires = setup.expires
  <2>1. CASE Streaming \/ Crashes
    BY <1>0, <2>1 DEF Streaming, AttemptStarts, Decodes, Files, StoresCheckpoint, StreamFails, AttemptEnds,
            EngineHalts, Crashes, Deployments
  <2>2. CASE Loading \/ Boots \/ AlignsPublication
    BY <2>2 DEF Loading, LoadBegins, LoadReadsPosition, LoadReadsRange, LoadIsFiled, LoadIsMarked,
            LoadRecords, LoadEnds, Boots, AlignsPublication
  <2>3. CASE Reloading
    BY <1>0, <2>3 DEF Reloading, EditsFile, Hangup, Reloads, Refuses, Publishes, EmitsMarker, ReadsBarrier,
            PassesBarrier, Admits, Adopts, LoadStarts, Drops, Forgets, Unpublishes, Deployments
  <2>4. CASE Commands
    BY <1>0, <2>4
       DEF Commands, Resnapshots, Reconciles, Reindexes, Runs, ReadsPosition, ReadsRange, WritesRange, ScansKeys,
           FindsOrphans, DeletesOrphans, FindsSlot, ReadsCheckpointAgain, CountsRows, Verifies, SwitchesAlias,
           DropsOld, Repoints, sectionVars, Deployments
  <2>5. ASSUME NEW k \in Keys, NEW put \in BOOLEAN, CommitsRow(k, put) PROVE setup'.expires = setup.expires
    BY <1>0, <2>5 DEF CommitsRow, Deployments
  <2> QED BY <2>1, <2>2, <2>3, <2>4, <2>5, NothingExpires DEF Next, Pipeline
<1> QED BY <1>1 DEF OperationsInv, Provided
-----------------------------------------------------------------------------
(* The command beside the pipeline.                                        *)

\* The pipeline leaves the command, and what the commands are about.
LEMMA PipelineFrame ==
  ASSUME OperationsInv, Pipeline
  PROVE  /\ command'.kind = command.kind /\ command'.at = command.at /\ command'.done = command.done
         /\ command'.version = command.version /\ command'.row = command.row /\ command'.keys = command.keys
         /\ command'.covered = (command.covered /\ Covered')
         /\ setup'.commands = setup.commands /\ setup'.swaps = setup.swaps
         /\ setup'.flavor = setup.flavor
         /\ alias' = alias /\ file'.index = file.index
<1>0. command \in CommandStates /\ setup \in Deployments /\ file \in ConfigFiles
  BY DEF OperationsInv, SectionTypes, CommandType
<1>1. command' = [command EXCEPT !.covered = command.covered /\ Covered']
  BY DEF Pipeline
<1>2. /\ command'.kind = command.kind /\ command'.at = command.at /\ command'.done = command.done
      /\ command'.version = command.version /\ command'.row = command.row /\ command'.keys = command.keys
  BY ONLY <1>0, <1>1 DEF CommandStates
<1>3. command'.covered = (command.covered /\ Covered')
  BY ONLY <1>0, <1>1, Zenon DEF CommandStates
<1> DEFINE Frame == /\ setup'.commands = setup.commands /\ setup'.swaps = setup.swaps
                    /\ setup'.flavor = setup.flavor /\ alias' = alias /\ file'.index = file.index
<1>4. Frame
  <2>1. CASE Streaming \/ Crashes
    BY <1>0, <2>1 DEF Streaming, AttemptStarts, Decodes, Files, StoresCheckpoint, StreamFails, AttemptEnds,
            EngineHalts, Crashes, Deployments
  <2>2. CASE Loading \/ Boots \/ AlignsPublication
    BY <2>2 DEF Loading, LoadBegins, LoadReadsPosition, LoadReadsRange, LoadIsFiled, LoadIsMarked,
            LoadRecords, LoadEnds, Boots, AlignsPublication
  <2>3. CASE Reloading
    BY <1>0, <2>3 DEF Reloading, EditsFile, Hangup, Reloads, Refuses, Publishes, EmitsMarker, ReadsBarrier,
            PassesBarrier, Admits, Adopts, LoadStarts, Drops, Forgets, Unpublishes, Deployments, ConfigFiles
  <2>4. ASSUME NEW k \in Keys, NEW put \in BOOLEAN, CommitsRow(k, put) PROVE Frame
    BY <1>0, <2>4 DEF CommitsRow, Deployments
  <2> QED BY <2>1, <2>2, <2>3, <2>4, NothingExpires DEF Pipeline
<1> QED BY <1>2, <1>3, <1>4

\* A file that is not edited keeps its section in force.
LEMMA StaticPipeline ==
  ASSUME OperationsInv, StaticOK, Pipeline, SyncedOK', ControlOK'
  PROVE  StaticOK'
<1>0. /\ setup \in Deployments /\ said \in Reports /\ reload \in ReloadTasks /\ live \in Processes
      /\ ControlOK /\ SyncedOK /\ ProgressOK
      /\ file \in ConfigFiles
  BY DEF OperationsInv, SectionTypes
<1> DEFINE Kept == file.section => said'.strays = {} /\ said'.synced /\ reload'.step = "idle" /\ (live'.up => live'.current)
           Stable == setup'.edits = 0 /\ file' = file /\ Kept
<1>1. CASE ~file.section
  <2>1. setup'.edits = 0 /\ file' = file
    <3>1. CASE Streaming \/ Crashes
      BY <1>0, <3>1 DEF StaticOK, Streaming, AttemptStarts, Decodes, Files, StoresCheckpoint, StreamFails,
              AttemptEnds, EngineHalts, Crashes, Deployments
    <3>2. CASE Loading \/ Boots \/ AlignsPublication
      BY <3>2 DEF StaticOK, Loading, LoadBegins, LoadReadsPosition, LoadReadsRange, LoadIsFiled, LoadIsMarked,
              LoadRecords, LoadEnds, Boots, AlignsPublication
    <3>3. CASE Reloading
      BY <1>0, <3>3 DEF StaticOK, Reloading, EditsFile, Hangup, Reloads, Refuses, Publishes, EmitsMarker,
              ReadsBarrier, PassesBarrier, Admits, Adopts, LoadStarts, Drops, Forgets, Unpublishes, Deployments
    <3>4. ASSUME NEW k \in Keys, NEW put \in BOOLEAN, CommitsRow(k, put) PROVE setup'.edits = 0 /\ file' = file
      BY <1>0, <3>4 DEF StaticOK, CommitsRow, Deployments
    <3> QED BY <3>1, <3>2, <3>3, <3>4, NothingExpires DEF Pipeline
  <2> QED BY <1>1, <2>1, PipelineFrame DEF StaticOK
<1>2. CASE file.section
  <2>0. /\ said.strays = {} /\ said.synced /\ reload.step = "idle" /\ (live.up => live.current) /\ setup.edits = 0
        /\ (command.kind # "none" => command.covered) /\ InForce
    BY <1>0, <1>2 DEF StaticOK, SyncedOK
  <2>1. Stable
    <3>1. CASE Streaming \/ Crashes
      <4> USE <3>1 DEF Streaming, AttemptStarts, Decodes, Files, StoresCheckpoint, StreamFails, AttemptEnds,
                       EngineHalts, Crashes
      <4>1. setup'.edits = 0 /\ file' = file /\ said' = said
        BY <1>0, <2>0 DEF Deployments
      <4>2. reload'.step = "idle"
        BY <1>0, <2>0 DEF ReloadTasks
      <4>3. live'.up => live'.current
        BY <1>0, <2>0 DEF Processes
      <4> QED BY <2>0, <4>1, <4>2, <4>3
    <3>2. CASE Loading
      BY <1>0, <2>0, <3>2 DEF Loading, LoadBegins, LoadReadsPosition, LoadReadsRange, LoadIsFiled, LoadIsMarked,
              LoadRecords, LoadEnds, Reports, ReloadTasks, Processes
    <3>3. CASE Boots
      BY <1>0, <1>2, <2>0, <3>3 DEF Boots, Reports
    <3>4. CASE AlignsPublication
      BY <1>2, <2>0, <3>4 DEF AlignsPublication, InForce
    <3>5. CASE Reloading
      <4>1. Hangup \/ Reloads
        BY <1>0, <2>0, <3>5 DEF Reloading, EditsFile, Refuses, Publishes, EmitsMarker, ReadsBarrier,
                PassesBarrier, Admits, Adopts, LoadStarts, Drops, Forgets, Unpublishes, Deployments
      <4>2. CASE Hangup
        BY <1>0, <2>0, <4>2 DEF Hangup, Deployments, ReloadTasks
      <4>3. CASE Reloads
        <5>1. file.section = live.current
          BY <1>0, <1>2, <2>0, <4>3 DEF Reloads, ConfigFiles, Processes
        <5> QED BY <1>0, <2>0, <4>3, <5>1 DEF Reloads, Edit, ReloadTasks
      <4> QED BY <4>1, <4>2, <4>3
    <3>6. ASSUME NEW k \in Keys, NEW put \in BOOLEAN, CommitsRow(k, put) PROVE Stable
      BY <1>0, <2>0, <3>6 DEF CommitsRow, Deployments
    <3> QED BY <3>1, <3>2, <3>3, <3>4, <3>5, <3>6, NothingExpires DEF Pipeline
  <2>2. Covered'
    BY <1>2, <2>1 DEF SyncedOK, InForce, Covered
  <2> QED BY <1>2, <2>0, <2>1, <2>2, PipelineFrame DEF StaticOK
<1> QED BY <1>1, <1>2

\* The same of the commands.
LEMMA StaticCommands ==
  ASSUME OperationsInv, StaticOK, Commands
  PROVE  StaticOK'
<1>0. /\ setup \in Deployments /\ said \in Reports /\ command \in CommandStates /\ file \in ConfigFiles
  BY DEF OperationsInv, SectionTypes, CommandType
<1>1. ASSUME NEW kind \in {"resnapshot", "reconcile", "reindex"}, NEW at \in {"position", "scan", "slot"}, Runs(kind, at)
      PROVE  StaticOK'
  <2>1. file.section /\ Covered
    BY <1>1 DEF Runs, OperationsInv, StaticOK, SyncedOK, InForce, Covered
  <2>2. command'.covered /\ setup'.edits = setup.edits
    BY <1>0, <1>1, <2>1 DEF Runs, NoCommand, Deployments
  <2> QED BY <1>1, <2>1, <2>2 DEF Runs, StaticOK
<1>2. CASE ReadsPosition \/ ReadsRange \/ ScansKeys \/ FindsOrphans \/ FindsSlot \/ ReadsCheckpointAgain
           \/ CountsRows \/ Verifies
  <2>1. UNCHANGED sectionVars
    BY <1>2 DEF ReadsPosition, ReadsRange, ScansKeys, FindsOrphans, FindsSlot, ReadsCheckpointAgain,
            CountsRows, Verifies
  <2>2. (command'.covered = command.covered /\ command'.kind = command.kind) \/ command'.kind = "none"
    <3>1. CASE ReadsPosition \/ ReadsRange
      BY <1>0, <3>1 DEF ReadsPosition, ReadsRange, CommandStates
    <3>2. CASE ScansKeys \/ FindsOrphans
      BY <1>0, <3>2 DEF ScansKeys, FindsOrphans, CommandStates
    <3>3. CASE FindsSlot
      BY <1>0, <3>3 DEF FindsSlot, NoCommand, CommandStates
    <3>a. CASE ReadsCheckpointAgain
      BY <1>0, <3>a DEF ReadsCheckpointAgain, NoCommand, CommandStates
    <3>4. CASE CountsRows
      BY <1>0, <3>4 DEF CountsRows, CommandStates
    <3>b. CASE Verifies
      <4>1. command' = [command EXCEPT !.at = "switch"] \/ command' = NoCommand
        BY <3>b DEF Verifies
      <4> QED BY <1>0, <4>1 DEF NoCommand, CommandStates
    <3> QED BY <1>2, <3>1, <3>2, <3>3, <3>a, <3>4, <3>b
  <2> QED BY <2>1, <2>2 DEF StaticOK, sectionVars
<1>3. CASE WritesRange
  <2>1. \/ command'.covered = command.covered /\ command'.kind = command.kind
        \/ command'.kind = "none"
    BY <1>0, <1>3 DEF WritesRange, CommandStates, NoCommand
  <2>2. said'.strays = said.strays /\ (said.synced => said'.synced)
    BY <1>0, <1>3 DEF WritesRange, Reports
  <2> QED BY <1>3, <2>1, <2>2 DEF StaticOK, WritesRange
<1>4. CASE DeletesOrphans \/ \E drop \in BOOLEAN : DropsOld(drop)
  <2>1. command'.kind = "none" /\ (said.strays = {} => said'.strays = {}) /\ said'.synced = said.synced
    BY <1>0, <1>4 DEF DeletesOrphans, DropsOld, NoCommand, Reports
  <2> QED BY <1>4, <2>1 DEF StaticOK, DeletesOrphans, DropsOld
<1>5. CASE SwitchesAlias
  <2>1. file.section /\ command.covered
    BY <1>5 DEF OperationsInv, CommandOK, SwitchesAlias, At, StaticOK
  <2>2. command'.covered /\ said'.strays = {} /\ said'.synced
    BY <1>0, <1>5, <2>1 DEF SwitchesAlias, CommandStates
  <2> QED BY <1>5, <2>1, <2>2 DEF StaticOK, SwitchesAlias
<1>6. CASE Repoints
  <2>1. file'.section = file.section
    BY <1>0, <1>6 DEF Repoints, ConfigFiles
  <2> QED BY <1>6, <2>1 DEF Repoints, StaticOK
<1> QED BY <1>1, <1>2, <1>3, <1>4, <1>5, <1>6 DEF Commands, Resnapshots, Reconciles, Reindexes

\* Copies and edits stay apart.
LEMMA ApartKept ==
  ASSUME OperationsInv, Next, SyncedOK', ControlOK'
  PROVE  ApartOK'
<1>1. CASE StaticOK
  BY <1>1, StaticPipeline, StaticCommands DEF Next, ApartOK
<1>2. CASE setup.commands \subseteq {"reconcile"} /\ command.kind \in {"none", "reconcile"} /\ file.index = alias
  <2>1. CASE Pipeline
    BY <1>2, <2>1, PipelineFrame DEF ApartOK
  <2>2. CASE Reconciles
    BY <1>2, <2>2 DEF OperationsInv, SectionTypes, Deployments, Reconciles, Runs, NoCommand, ApartOK
  <2>3. CASE Commands /\ ~Reconciles
    <3>1. CASE ScansKeys \/ FindsOrphans \/ DeletesOrphans
      <4>0. command \in CommandStates
        BY DEF OperationsInv, CommandType
      <4>1. UNCHANGED <<setup, file, alias>>
        BY <3>1 DEF ScansKeys, FindsOrphans, DeletesOrphans, sectionVars
      <4>2. command'.kind \in {"none", "reconcile"}
        <5>1. CASE ScansKeys \/ FindsOrphans
          BY <1>2, <4>0, <5>1 DEF ScansKeys, FindsOrphans, CommandStates
        <5>2. CASE DeletesOrphans
          BY <5>2 DEF DeletesOrphans, NoCommand
        <5> QED BY <3>1, <5>1, <5>2
      <4> QED BY <1>2, <4>1, <4>2 DEF ApartOK
    <3>2. command.at \notin {"position", "range", "write"} /\ command.kind # "reindex"
      BY <1>2 DEF OperationsInv, CommandOK
    <3> QED BY <1>2, <2>3, <3>1, <3>2
           DEF Commands, Resnapshots, Reindexes, Runs, ReadsPosition, ReadsRange, WritesRange,
               FindsSlot, ReadsCheckpointAgain, CountsRows, Verifies, SwitchesAlias, DropsOld, Repoints, At
  <2> QED BY <2>1, <2>2, <2>3 DEF Next
<1> QED BY <1>1, <1>2 DEF OperationsInv, ApartOK
-----------------------------------------------------------------------------
(* What the engine files off the stream.                                   *)

\* What stays on the channel comes after the change that is filed.
LEMMA MovesUp ==
  ASSUME OperationsInv, Files, NEW k, NEW j, Queued(k, j),
         attempt.queue[1].key = k => j # attempt.queue[1].at
  PROVE  Queued(k, j)' /\ attempt.queue[1].at < j
<1> DEFINE queue == attempt.queue
           next == attempt'.queue
<1>1. /\ queue \in Seq(Change) /\ next \in Seq(Change) /\ Len(queue) \in Nat /\ Len(queue) >= 1
      /\ Len(next) = Len(queue) - 1 /\ \A x \in 1 .. Len(next) : next[x] = queue[x + 1]
  BY TakesHead, Fields
<1>2. \A x \in 1 .. Len(queue) : \A y \in x + 1 .. Len(queue) : queue[x].at < queue[y].at
  BY DEF OperationsInv, QueueOK, ChannelOK
<1>3. PICK x \in 1 .. Len(queue) : queue[x].at = j /\ queue[x].key = k
  BY DEF Queued
<1> HIDE DEF queue, next
<1>4. x # 1
  BY <1>3 DEF queue
<1>5. x - 1 \in 1 .. Len(next) /\ next[x - 1] = queue[x] /\ x \in 1 + 1 .. Len(queue) /\ 1 \in 1 .. Len(queue)
  BY <1>1, <1>3, <1>4
<1>6. queue[1].at < j
  BY <1>2, <1>3, <1>5
<1>7. Queued(k, j)'
  BY <1>3, <1>5 DEF Queued, next
<1> QED BY <1>6, <1>7 DEF queue

\* A change still to come is one after the change that is filed.
LEMMA FiledRest ==
  ASSUME OperationsInv, Files, NEW k, NEW i \in Nat, InSent(k, i),
         attempt.queue[1].key = k => i # attempt.queue[1].at
  PROVE  InSent(k, i)'
<1> DEFINE head == attempt.queue[1]
<1>1. /\ src.log[i].published /\ i > store.checkpoint /\ i > attempt.acked
      /\ i > attempt.read \/ Queued(k, i)
  BY TakesHead DEF InSent
<1>2. head.at \in Nat /\ head.at <= attempt.read
  BY TakesHead DEF Carried, Change
<1>3. CASE i > attempt.read
  <2>1. i > head.at
    BY <1>2, <1>3, Fields
  <2> QED BY <1>1, <1>3, <2>1, TakesHead DEF InSent
<1>4. CASE Queued(k, i)
  BY <1>1, <1>4, MovesUp, TakesHead DEF InSent
<1> QED BY <1>1, <1>3, <1>4

\* A change of another key is filed.
LEMMA FiledKeeps ==
  ASSUME OperationsInv, Files, NEW k \in Keys, attempt.queue[1].key # k
  PROVE  Keeps(k)
<1>1. LogKept /\ Last' = Last
  BY TakesHead, Fields DEF LogKept, Last
<1>2. \A j \in 1 .. Last : InSent(k, j) => InSent(k, j)'
  BY FiledRest
<1> QED BY <1>1, <1>2, TakesHead, Fields DEF Keeps

\* What comes after the change that is filed is still to be filed.
LEMMA FiledFollows ==
  ASSUME OperationsInv, Files, NEW k, NEW q \in Nat, Follows(k, q),
         NEW p \in Nat, p >= q, attempt.queue[1].key = k => p >= attempt.queue[1].at
  PROVE  Follows(k, p)'
<1>1. SUFFICES ASSUME NEW j \in p + 1 .. Last', src'.log[j].key = k PROVE InSent(k, j)'
  BY DEF Follows
<1>2. j \in q + 1 .. Last /\ src.log[j].key = k /\ j \in Nat
  BY <1>1, TakesHead, Fields DEF Last
<1>3. attempt.queue[1].key = k => j # attempt.queue[1].at
  BY <1>1, TakesHead DEF Change
<1> QED BY <1>2, <1>3, FiledRest DEF Follows

\* The stream brings whatever comes after a put of a key that is no stray.
LEMMA RegularFollows ==
  ASSUME OperationsInv, Files, NEW k \in Keys \ said.strays, NEW head, head = attempt.queue[1],
         head.key = k, head.put
  PROVE  Follows(k, head.at)'
<1>1. Carried(head) /\ head \in Change /\ Active
  BY TakesHead
<1>2. head.at \in 1 .. Last /\ Brings(k, head.at)
  <2>1. k # 0
    BY Fields DEF Keys
  <2>2. head.at \in 1 .. Last /\ src.log[head.at].key = k /\ head.at > store.checkpoint
    BY <1>1, <2>1 DEF Carried
  <2>3. src.log[head.at].put /\ src.log[head.at].published
    BY <1>1 DEF Carried
  <2> QED BY <2>2, <2>3 DEF Brings
<1>3. SUFFICES ASSUME NEW j \in head.at + 1 .. Last', src'.log[j].key = k PROVE InSent(k, j)'
  BY DEF Follows
<1>a. head.at \in Nat /\ Last \in Nat /\ Last' = Last /\ src' = src
  BY <1>1, TakesHead, Fields DEF Last, Change
<1>4. j \in head.at + 1 .. Last /\ src.log[j].key = k /\ j \in Nat /\ j > head.at
  BY <1>3, <1>a
<1>5. Succeeds(k, head.at, j)
  BY <1>2, <1>4 DEF OperationsInv, StraysOK, Orderly, Regular
<1>6. Queued(k, head.at)
  <2>1. 1 \in 1 .. Len(attempt.queue)
    BY TakesHead, Fields
  <2> QED BY <2>1 DEF Queued
<1>7. src.log[j].published /\ (j > attempt.read \/ Queued(k, j))
  BY <1>1, <1>5, <1>6 DEF Succeeds
<1>8. j > store.checkpoint
  BY <1>1, <1>4, Fields DEF Carried, Change
<1>9. CASE j > attempt.read
  BY <1>4, <1>7, <1>8, <1>9, TakesHead DEF InSent
<1>10. CASE Queued(k, j)
  <2>1. Queued(k, j)'
    BY <1>4, <1>10, MovesUp
  <2> QED BY <1>4, <1>7, <1>8, <2>1, TakesHead DEF InSent
<1> QED BY <1>7, <1>9, <1>10

\* The document of the key that is filed.
LEMMA FiledDoc ==
  ASSUME OperationsInv, Files, NEW k \in Keys, NEW head, head = attempt.queue[1], head.key = k,
         NEW d \in Document, NEW new,
         new = IF head.at >= d.version THEN [version |-> head.at, value |-> IF head.put THEN head.at ELSE 0] ELSE d
  PROVE  /\ DocOK(d, k) => DocOK(new, k)'
         /\ \A v \in Nat : Read(d, k, v) => Read(new, k, v)'
         /\ k \notin said.strays /\ head.put /\ d.version <= head.at => DocOK(new, k)'
<1>0. /\ Carried(head) /\ head \in Change /\ Last' = Last /\ src' = src /\ said' = said
      /\ k # 0 /\ Last \in Nat
  BY TakesHead, Fields DEF Last, Keys
<1>1. PICK j : j = head.at
  OBVIOUS
<1>2. j \in 1 .. Last /\ j \in Nat /\ src.log[j].key = k /\ d.version \in Nat /\ d.value \in Nat
  BY <1>0, <1>1 DEF Carried, Change, Document
<1>3. PICK value : value = IF head.put THEN j ELSE 0
  OBVIOUS
<1>4. value = IF src.log[j].put THEN j ELSE 0
  BY <1>0, <1>1, <1>3 DEF Carried
<1>5. new = IF j >= d.version THEN [version |-> j, value |-> value] ELSE d
  BY <1>1, <1>3
<1>6. \A q \in Nat, p \in Nat : Follows(k, q) /\ p >= q /\ p >= j => Follows(k, p)'
  BY <1>1, FiledFollows
<1>7. \A q \in Nat : \A x : Shows(k, q, x) => Shows(k, q, x)'
  BY <1>0 DEF Shows, Original
<1>8. Shows(k, j, value)'
  <2>1. \A i \in j + 1 .. j : src.log[i].key # k
    BY <1>2
  <2>2. Shows(k, j, value)
    BY <1>2, <1>4, <2>1 DEF Shows
  <2> QED BY <1>2, <1>7, <2>2
\* The document that is filed is good once nothing older than it is to come.
<1>9. ASSUME d.version <= j, Follows(k, j)' PROVE DocOK(new, k)'
  <2>1. new.version = j /\ new.value = value /\ ~(value > j)
    BY <1>2, <1>4, <1>5, <1>9
  <2>2. Reflects(new, k, j)'
    BY <1>2, <1>8, <1>9, <2>1 DEF Reflects
  <2> QED BY <1>0, <1>2, <2>2 DEF DocOK
<1>10. ASSUME NEW q \in 1 .. Last, Reflects(d, k, q) PROVE DocOK(new, k)'
  <2>0. q \in Nat /\ q \in 1 .. Last' /\ d.version <= q + 1 /\ Follows(k, q)
    BY <1>0, <1>10 DEF Reflects
  <2>1. CASE j > q
    <3>1. Follows(k, j)'
      BY <1>2, <1>6, <2>0, <2>1
    <3>2. d.version <= j
      BY <1>2, <2>0, <2>1
    <3> QED BY <1>9, <3>1, <3>2
  <2>2. CASE j <= q /\ d.version > j
    <3>1. new = d /\ Follows(k, q)'
      BY <1>2, <1>5, <1>6, <2>0, <2>2
    <3>2. d.value > d.version /\ Follows(k, d.version) => Follows(k, d.version)'
      BY <1>2, <1>6, <2>2
    <3>3. Reflects(d, k, q)'
      BY <1>0, <1>7, <1>10, <2>0, <3>1, <3>2 DEF Reflects
    <3> QED BY <2>0, <3>1, <3>3 DEF DocOK
  <2>3. CASE j <= q /\ d.version <= j
    <3>0. /\ new.version = j /\ new.value = value /\ ~(value > j) /\ j <= q + 1
      BY <1>2, <1>4, <1>5, <2>0, <2>3
    <3>1. Follows(k, q)'
      BY <1>2, <1>6, <2>0, <2>3
    <3>2. CASE k \in said.strays /\ Shows(k, q, 0)
      <4>1. Shows(k, q, 0)' /\ k \in said'.strays
        BY <1>0, <1>7, <2>0, <3>2
      <4>2. Reflects(new, k, q)'
        BY <3>0, <3>1, <4>1 DEF Reflects
      <4> QED BY <2>0, <4>2 DEF DocOK
    <3>3. CASE d.value > d.version /\ Follows(k, d.version)
      BY <1>2, <1>6, <1>9, <2>3, <3>3
    <3>4. CASE Shows(k, q, d.value) /\ d.value # 0 /\ ~(d.value > d.version)
      <4>1. PICK i \in 1 .. q : /\ src.log[i].key = k /\ d.value = (IF src.log[i].put THEN i ELSE 0)
                                /\ \A y \in i + 1 .. q : src.log[y].key # k
        BY <1>2, <2>0, <2>3, <3>4 DEF Shows
      <4>2. i = d.value /\ src.log[i].put /\ j <= i
        BY <1>2, <2>3, <3>4, <4>1
      <4>3. i = j /\ value = j
        BY <1>2, <1>4, <2>3, <3>4, <4>2
      <4>4. Shows(k, q, j)'
        BY <1>7, <2>0, <3>4, <4>2, <4>3
      <4>5. Reflects(new, k, q)'
        BY <3>0, <3>1, <4>3, <4>4 DEF Reflects
      <4> QED BY <2>0, <4>5 DEF DocOK
    <3>5. CASE Shows(k, q, d.value) /\ d.value = 0 /\ k \notin said.strays
      <4>1. CASE head.put
        <5>1. Follows(k, j)'
          BY <1>1, <3>5, <4>1, RegularFollows
        <5> QED BY <1>9, <2>3, <5>1
      <4>2. CASE ~head.put
        <5>1. value = 0 /\ Shows(k, q, 0)'
          BY <1>3, <1>7, <2>0, <3>5, <4>2
        <5>2. Reflects(new, k, q)'
          BY <3>0, <3>1, <5>1 DEF Reflects
        <5> QED BY <2>0, <5>2 DEF DocOK
      <4> QED BY <4>1, <4>2
    <3> QED BY <1>10, <3>2, <3>3, <3>4, <3>5 DEF Reflects
  <2> QED BY <1>2, <2>0, <2>1, <2>2, <2>3
<1>11. DocOK(d, k) => DocOK(new, k)'
  BY <1>10 DEF DocOK
<1>12. ASSUME NEW v \in Nat, Read(d, k, v) PROVE Read(new, k, v)'
  <2>0. v <= Last' /\ new.version \in Nat
    BY <1>0, <1>2, <1>5, <1>12 DEF Read
  <2>1. CASE d.version > v
    <3>1. new.version > v
      BY <1>2, <1>5, <2>1
    <3> QED BY <1>11, <1>12, <2>0, <2>1, <3>1 DEF Read
  <2>2. CASE ~(d.version > v)
    <3>1. Follows(k, v)
      BY <1>12, <2>2 DEF Read
    <3>2. CASE j <= v
      <4>1. ~(new.version > v) /\ Follows(k, v)'
        BY <1>2, <1>5, <1>6, <2>2, <3>1, <3>2
      <4> QED BY <2>0, <4>1 DEF Read
    <3>3. CASE j > v
      <4>1. Follows(k, j)' /\ d.version <= j
        BY <1>2, <1>6, <2>2, <3>1, <3>3
      <4>2. DocOK(new, k)' /\ new.version > v
        BY <1>2, <1>5, <1>9, <3>3, <4>1
      <4> QED BY <2>0, <4>2 DEF Read
    <3> QED BY <1>2, <3>2, <3>3
  <2> QED BY <2>1, <2>2
<1>13. ASSUME k \notin said.strays, head.put, d.version <= head.at PROVE DocOK(new, k)'
  <2>1. Follows(k, j)'
    BY <1>1, <1>13, RegularFollows
  <2> QED BY <1>1, <1>9, <1>13, <2>1
<1> QED BY <1>11, <1>12, <1>13

-----------------------------------------------------------------------------
(* What a step leaves of the documents the readers see.                    *)

Serves(k) ==
  /\ LogKept
  /\ DocOK(Seen(k), k) => DocOK(Seen(k), k)'
  /\ \A v \in Nat : Read(Seen(k), k, v) => Read(Seen(k), k, v)'

\* Documents are documents.
LEMMA SeenTypes ==
  ASSUME OperationsInv
  PROVE  /\ \A i \in Indexes, k \in Keys : target[i][k] \in Document
         /\ alias \in Indexes /\ \A k \in Keys : Seen(k) \in Document
BY DEF OperationsInv, SectionTypes, Targets, Seen

\* A document that no step touches.
LEMMA SameServes ==
  ASSUME OperationsInv, NEW k \in Keys, Keeps(k), Seen(k)' = Seen(k)
  PROVE  Serves(k)
<1>1. PICK d \in Document : d = Seen(k)
  BY SeenTypes
<1>2. DocOK(d, k) => DocOK(d, k)'
  BY DocKept
<1>3. \A v \in Nat : Read(d, k, v) => Read(d, k, v)'
  BY ReadKept
<1>4. d = Seen(k)'
  BY <1>1
<1> QED BY <1>1, <1>2, <1>3, <1>4 DEF Serves, Keeps

\* A row read for a copy, and the document it meets.
LEMMA CopiedDoc ==
  ASSUME OperationsInv, NEW k \in Keys, NEW d \in Document, NEW v \in Nat, NEW row \in Nat,
         Read(d, k, v), Taken(k, v, row)
  PROVE  /\ d.version > v => DocOK(d, k)
         /\ d.version <= v => DocOK([version |-> v, value |-> row], k)
         /\ row = 0 /\ (d.value = 0 \/ k \in said.strays) => DocOK(d, k)
<1>0. d.version \in Nat /\ d.value \in Nat /\ Last \in Nat
  BY Fields DEF Document
<1>1. d.version > v => DocOK(d, k)
  BY DEF Read
<1>2. PICK q \in 1 .. Last : v <= q /\ Shows(k, q, row)
  BY DEF Taken
<1>3. ASSUME d.version <= v
      PROVE  Follows(k, v) /\ Follows(k, q) /\ d.version <= q + 1 /\ v <= q + 1
  <2>1. Follows(k, v)
    BY <1>0, <1>3 DEF Read
  <2>2. \A j \in q + 1 .. Last : j \in v + 1 .. Last
    BY <1>0, <1>2
  <2>3. Follows(k, q)
    BY <2>1, <2>2 DEF Follows
  <2> QED BY <1>0, <1>2, <1>3, <2>1, <2>3
<1>4. ASSUME d.version <= v PROVE DocOK([version |-> v, value |-> row], k)
  <2>1. Reflects([version |-> v, value |-> row], k, q)
    BY <1>2, <1>3, <1>4 DEF Reflects
  <2> QED BY <2>1 DEF DocOK
<1>5. ASSUME row = 0, d.value = 0 \/ k \in said.strays PROVE DocOK(d, k)
  <2>1. CASE d.version <= v
    <3>1. Reflects(d, k, q)
      BY <1>0, <1>2, <1>3, <1>5, <2>1 DEF Reflects
    <3> QED BY <3>1 DEF DocOK
  <2> QED BY <1>0, <1>1, <2>1
<1> QED BY <1>1, <1>4, <1>5

\* A copied row is filed.
LEMMA PutServes ==
  ASSUME OperationsInv, NEW k \in Keys, Keeps(k), NEW v \in Nat, NEW row \in Nat,
         Read(Seen(k), k, v), Taken(k, v, row),
         Seen(k)' = IF v >= Seen(k).version THEN [version |-> v, value |-> row] ELSE Seen(k)
  PROVE  Serves(k) /\ DocOK(Seen(k), k)'
<1>1. PICK d \in Document : d = Seen(k)
  BY SeenTypes
<1>2. d.version \in Nat
  BY DEF Document
<1>3. CASE d.version > v
  <2>1. Seen(k)' = Seen(k) /\ d = Seen(k)'
    BY <1>1, <1>2, <1>3
  <2>2. DocOK(d, k)'
    BY <1>1, <1>3, CopiedDoc, DocKept
  <2> QED BY <2>1, <2>2, SameServes
<1>4. CASE d.version <= v
  <2>1. PICK new : new = [version |-> v, value |-> row]
    OBVIOUS
  <2>2. new \in Document /\ new.version = v /\ new = Seen(k)'
    BY <1>1, <1>2, <1>4, <2>1 DEF Document
  <2>3. DocOK(new, k)'
    BY <1>1, <1>4, <2>1, <2>2, CopiedDoc, DocKept
  <2>4. ASSUME NEW w \in Nat, Read(d, k, w) PROVE Read(new, k, w)'
    <3>1. w <= Last' /\ LogKept
      BY <2>4 DEF Read, Keeps, LogKept
    <3>2. CASE v > w
      BY <2>2, <2>3, <3>1, <3>2 DEF Read
    <3>3. CASE ~(v > w)
      <4>1. Follows(k, w)
        BY <1>2, <1>4, <2>4, <3>3 DEF Read
      <4>2. Follows(k, w)'
        BY <4>1, FollowsKept
      <4> QED BY <2>2, <3>1, <3>3, <4>2 DEF Read
    <3> QED BY <3>2, <3>3
  <2> QED BY <1>1, <2>2, <2>3, <2>4 DEF Serves, Keeps
<1> QED BY <1>2, <1>3, <1>4

\* The engine files by the index of the process, which is the readers'.
LEMMA FilesSeen ==
  ASSUME OperationsInv, Files, NEW head, head = attempt.queue[1], NEW k \in Keys
  PROVE  /\ alias' = alias
         /\ (head.key # k \/ ~live.rules) => Seen(k)' = Seen(k)
         /\ head.key = k /\ live.rules =>
              Seen(k)' = IF head.at >= Seen(k).version
                         THEN [version |-> head.at, value |-> IF head.put THEN head.at ELSE 0] ELSE Seen(k)
<1>1. head = Head(attempt.queue) /\ alias' = alias /\ live.index = alias /\ alias \in Indexes /\ target \in Targets
      /\ live.up /\ k # 0
  BY TakesHead, Fields DEF OperationsInv, ControlOK, QueueOK, PositionsOK, SectionTypes, Keys
<1>2. CASE ~(head.key # 0 /\ live.rules)
  BY <1>1, <1>2 DEF Files, Seen
<1>3. CASE head.key # 0 /\ live.rules
  <2>1. target' = [target EXCEPT ![alias] = Put(target[alias], head.key, head.at, IF head.put THEN head.at ELSE 0)]
    BY <1>1, <1>3 DEF Files
  <2>2. target'[alias] = Put(target[alias], head.key, head.at, IF head.put THEN head.at ELSE 0)
    BY <1>1, <2>1 DEF Targets
  <2>3. target[alias] \in [Keys -> Document]
    BY <1>1 DEF Targets
  <2> QED BY <1>1, <1>3, <2>2, <2>3 DEF Put, Seen
<1> QED BY <1>2, <1>3

\* The engine files a change.
LEMMA FilesServes ==
  ASSUME OperationsInv, Files, live.rules, NEW k \in Keys
  PROVE  Serves(k)
<1>1. PICK head : head = attempt.queue[1]
  OBVIOUS
<1>2. CASE head.key # k
  BY <1>1, <1>2, FilesSeen, FiledKeeps, SameServes
<1>3. CASE head.key = k
  <2>1. PICK d \in Document : d = Seen(k)
    BY SeenTypes
  <2>2. PICK new : new = Seen(k)'
    OBVIOUS
  <2>3. new = IF head.at >= d.version THEN [version |-> head.at, value |-> IF head.put THEN head.at ELSE 0] ELSE d
    BY <1>1, <1>3, <2>1, <2>2, FilesSeen
  <2>4. (DocOK(d, k) => DocOK(new, k)') /\ \A v \in Nat : Read(d, k, v) => Read(new, k, v)'
    BY <1>1, <1>3, <2>3, FiledDoc
  <2>5. LogKept
    BY TakesHead, Fields DEF LogKept, Last
  <2> QED BY <2>1, <2>2, <2>4, <2>5 DEF Serves
<1> QED BY <1>2, <1>3

\* The load's row, as the engine files it.
LEMMA LoadSeen ==
  ASSUME OperationsInv, NEW l \in {"attempt", "join"}, LoadIsFiled(l), NEW k \in Keys
  PROVE  /\ alias' = alias /\ live.rules
         /\ k # loads[l].done + 1 => Seen(k)' = Seen(k)
         /\ k = loads[l].done + 1 =>
              IF loads[l].row # 0 /\ ~Dead(k, loads[l].version)
              THEN Seen(k)' = IF loads[l].version >= Seen(k).version
                              THEN [version |-> loads[l].version, value |-> loads[l].row] ELSE Seen(k)
              ELSE Seen(k)' = Seen(k)
<1>0. loads[l].at = "send" /\ LoadOK(l) /\ ControlOK
  BY DEF OperationsInv, LoadsOK, LoadIsFiled
<1>1. live.rules /\ live.index = alias /\ alias' = alias /\ alias \in Indexes /\ target \in Targets
  BY <1>0 DEF OperationsInv, SectionTypes, LoadOK, InForce, ControlOK, LoadIsFiled
<1>2. loads[l].done + 1 \in Keys /\ target[alias] \in [Keys -> Document]
  BY <1>0, <1>1, LoadRanges DEF Targets
<1>3. CASE loads[l].row # 0 /\ ~Dead(loads[l].done + 1, loads[l].version)
  <2>1. target'[alias] = Put(target[alias], loads[l].done + 1, loads[l].version, loads[l].row)
    BY <1>1, <1>3 DEF LoadIsFiled, Targets
  <2> QED BY <1>1, <1>2, <1>3, <2>1 DEF Put, Seen
<1>4. CASE ~(loads[l].row # 0 /\ ~Dead(loads[l].done + 1, loads[l].version))
  <2>1. target' = target
    BY <1>4 DEF LoadIsFiled
  <2> QED BY <1>1, <1>4, <2>1 DEF Seen
<1> QED BY <1>3, <1>4

\* The engine files a row of a load, which is good then.
LEMMA LoadServes ==
  ASSUME OperationsInv, NEW l \in {"attempt", "join"}, LoadIsFiled(l), NEW k \in Keys
  PROVE  Serves(k) /\ (k = loads[l].done + 1 => DocOK(Seen(k), k)')
<1>0. loads[l].at = "send" /\ LoadOK(l) /\ loads[l] \in Load
  BY LoadRanges DEF OperationsInv, LoadsOK, LoadIsFiled
<1>1. Keeps(k)
  BY LoadingKeeps, LoadRanges DEF Loading
<1>2. CASE k # loads[l].done + 1
  BY <1>1, <1>2, LoadSeen, SameServes
<1>3. CASE k = loads[l].done + 1
  <2>1. PICK v, row : v = loads[l].version /\ row = loads[l].row
    OBVIOUS
  <2>2. v \in Nat /\ row \in Nat /\ Read(Seen(k), k, v) /\ Taken(k, v, row)
    BY <1>0, <1>3, <2>1 DEF LoadOK, Load
  <2>3. CASE row # 0 /\ ~Dead(k, v)
    BY <1>1, <1>3, <2>1, <2>2, <2>3, LoadSeen, PutServes
  <2>4. CASE ~(row # 0 /\ ~Dead(k, v))
    <3>0. PICK d \in Document : d = Seen(k)
      BY SeenTypes
    <3>a. Read(d, k, v)
      BY <2>2, <3>0
    <3>1. d = Seen(k)'
      BY <1>3, <2>1, <2>4, <3>0, LoadSeen
    <3>2. DocOK(d, k)
      <4>1. CASE Dead(k, v)
        <5>1. live.up /\ Active
          BY <1>0 DEF LoadOK
        <5>2. attempt.gone[k] <= d.version /\ attempt.gone[k] > v
          BY <3>0, <4>1, <5>1 DEF OperationsInv, VersionsOK, Dead
        <5>3. attempt.gone[k] \in Nat /\ d.version \in Nat
          BY DEF OperationsInv, SectionTypes, Attempts, Document
        <5>4. d.version > v
          BY ONLY <2>2, <5>2, <5>3
        <5> QED BY <3>a, <5>4 DEF Read
      <4>2. CASE row = 0
        <5>1. d.value = 0 \/ k \in said.strays \/ DocOK(d, k)
          BY <3>0 DEF OperationsInv, KnownOK
        <5> QED BY <2>2, <3>a, <4>2, <5>1, CopiedDoc
      <4> QED BY <2>4, <4>1, <4>2
    <3>3. Serves(k)
      BY <1>1, <3>0, <3>1, SameServes
    <3> QED BY <3>0, <3>1, <3>2, <3>3 DEF Serves
  <2> QED BY <2>3, <2>4
<1> QED BY <1>2, <1>3

\* The command's row, where it fills the readers' index.
LEMMA WritesSeen ==
  ASSUME OperationsInv, WritesRange, NEW k \in Keys
  PROVE  /\ alias' = alias /\ src' = src /\ command.kind \in {"resnapshot", "reindex"}
         /\ ~(Copying /\ command.row # 0 /\ k = command.done + 1) => Seen(k)' = Seen(k)
         /\ Copying /\ command.row # 0 /\ k = command.done + 1 =>
              Seen(k)' = IF command.version >= Seen(k).version
                         THEN [version |-> command.version, value |-> command.row] ELSE Seen(k)
<1>0. /\ command.at = "write" /\ command.done + 1 \in Keys /\ command \in CommandStates /\ target \in Targets
      /\ file \in ConfigFiles /\ alias \in Indexes /\ alias' = alias /\ src' = src
      /\ command.kind \in {"resnapshot", "reindex"}
  BY CommandRange DEF OperationsInv, SectionTypes, CommandType, CommandOK, WritesRange, CommandStates
<1>2. target' = IF command.row = 0 THEN target
                ELSE [target EXCEPT ![Filled] = Put(target[Filled], command.done + 1, command.version, command.row)]
  BY DEF WritesRange, CopyVersion
<1>3. CASE command.kind = "reindex"
  <2>1. alias = "old" /\ Filled = "fresh"
    BY <1>0, <1>3 DEF OperationsInv, FreshOK, Filled
  <2>2. target'[alias] = target[alias]
    BY <1>0, <1>2, <2>1 DEF Targets
  <2> QED BY <1>0, <1>3, <2>2 DEF Seen, Copying
<1>4. CASE command.kind = "resnapshot" /\ file.index # alias
  <2>1. target'[alias] = target[alias]
    BY <1>0, <1>2, <1>4 DEF Targets, Filled, ConfigFiles
  <2> QED BY <1>0, <1>4, <2>1 DEF Seen, Copying
<1>5. CASE command.kind = "resnapshot" /\ file.index = alias
  <2>0. target[alias] \in [Keys -> Document]
    BY <1>0 DEF Targets
  <2>1. CASE command.row = 0 \/ k # command.done + 1
    <3>1. target'[alias][k] = target[alias][k]
      BY <1>0, <1>2, <1>5, <2>0, <2>1 DEF Targets, Filled, Put
    <3> QED BY <1>0, <2>1, <3>1 DEF Seen
  <2>2. CASE command.row # 0 /\ k = command.done + 1
    <3>1. target'[alias] = Put(target[alias], k, command.version, command.row)
      BY <1>0, <1>2, <1>5, <2>2 DEF Targets, Filled
    <3>2. Seen(k)' = IF command.version >= Seen(k).version
                     THEN [version |-> command.version, value |-> command.row] ELSE Seen(k)
      BY <1>0, <2>0, <3>1 DEF Put, Seen
    <3> QED BY <1>0, <1>5, <2>2, <3>2 DEF Copying
  <2> QED BY <2>1, <2>2
<1> QED BY <1>0, <1>3, <1>4, <1>5

\* A re-snapshot files a row.
LEMMA WritesServes ==
  ASSUME OperationsInv, WritesRange, NEW k \in Keys
  PROVE  Serves(k)
<1>1. Keeps(k)
  BY CommandsKeep DEF Commands, WritesRange, DeletesOrphans, At
<1>2. CASE ~(Copying /\ command.row # 0 /\ k = command.done + 1)
  BY <1>1, <1>2, WritesSeen, SameServes
<1>3. CASE Copying /\ command.row # 0 /\ k = command.done + 1
  <2>1. PICK v, row : v = command.version /\ row = command.row
    OBVIOUS
  <2>2. v \in Nat /\ row \in Nat /\ Read(Seen(k), k, v) /\ Taken(k, v, row)
    BY <1>3, <2>1 DEF OperationsInv, CommandType, CommandOK, CommandStates, WritesRange
  <2> QED BY <1>1, <1>3, <2>1, <2>2, WritesSeen, PutServes
<1> QED BY <1>2, <1>3

\* A reconcile deletes what the source does not have.
LEMMA DeletesSeen ==
  ASSUME OperationsInv, DeletesOrphans, NEW k \in Keys
  PROVE  /\ alias' = alias /\ src' = src /\ Last' = Last /\ attempt' = attempt /\ store' = store /\ live' = live
         /\ command.keys \in SUBSET Keys
         /\ k \in command.keys => src.rows[k] = 0
         /\ said'.strays = said.strays \ (command.keys \ Behind) /\ said'.synced = said.synced
         /\ file.index = alias /\ k \in command.keys => Seen(k)' = [version |-> Seen(k).version + 1, value |-> 0]
         /\ ~(file.index = alias /\ k \in command.keys) => Seen(k)' = Seen(k)
         /\ file.index # alias => said.strays = {}
<1>1. command \in CommandStates /\ target \in Targets /\ alias \in Indexes /\ file \in ConfigFiles /\ said \in Reports
  BY DEF OperationsInv, SectionTypes, CommandType
<1>2. /\ alias' = alias /\ src' = src /\ attempt' = attempt /\ store' = store /\ live' = live
      /\ command.kind = "reconcile" /\ command.at = "delete"
  BY DEF DeletesOrphans, At
<1>3. k \in command.keys => src.rows[k] = 0
  BY <1>2 DEF OperationsInv, CommandOK, At
<1>4. said'.strays = said.strays \ (command.keys \ Behind) /\ said'.synced = said.synced
  BY <1>1 DEF DeletesOrphans, Reports
<1>5. file.index # alias => said.strays = {}
  BY <1>2 DEF OperationsInv, ApartOK, StaticOK
<1>6. file.index = alias /\ k \in command.keys => Seen(k)' = [version |-> Seen(k).version + 1, value |-> 0]
  BY <1>1, <1>2 DEF DeletesOrphans, Targets, Seen
<1>7. ~(file.index = alias /\ k \in command.keys) => Seen(k)' = Seen(k)
  BY <1>1, <1>2 DEF DeletesOrphans, Targets, Seen
<1> QED BY <1>1, <1>2, <1>3, <1>4, <1>5, <1>6, <1>7 DEF Last, CommandStates

\* A reconcile deletes orphans.
LEMMA DeletesServes ==
  ASSUME OperationsInv, DeletesOrphans, NEW k \in Keys
  PROVE  Serves(k)
<1>1. CASE file.index # alias
  <2>1. Keeps(k)
    BY <1>1, DeletesSeen, SameKeeps
  <2> QED BY <1>1, <2>1, DeletesSeen, SameServes
<1>2. CASE file.index = alias /\ k \notin command.keys
  BY <1>2, CommandsKeep, DeletesSeen, SameServes DEF Commands
<1>3. CASE file.index = alias /\ k \in command.keys
  <2>1. PICK d \in Document : d = Seen(k)
    BY SeenTypes
  <2>2. PICK new : new = [version |-> d.version + 1, value |-> 0]
    OBVIOUS
  <2>3. PICK q : q = Last
    OBVIOUS
  <2>4. /\ new = Seen(k)' /\ new.version = d.version + 1 /\ new.value = 0 /\ d.version \in Nat
        /\ src' = src /\ Last' = Last /\ attempt' = attempt /\ store' = store
    BY <1>3, <2>1, <2>2, DeletesSeen DEF Document
  <2>5. q \in 1 .. Last' /\ q \in Nat /\ Shows(k, q, 0) /\ d.version <= q
    <3>1. q >= 1 /\ q \in Nat
      BY <2>3, Fields DEF OperationsInv, QueueOK, PositionsOK
    <3>2. Shows(k, q, src.rows[k]) /\ src.rows[k] = 0
      BY <1>3, <2>3, DeletesSeen DEF OperationsInv, SourceOK
    <3>3. d.version <= q
      BY <2>1, <2>3 DEF OperationsInv, VersionsOK, Reconcilable, DeletesOrphans, At
    <3> QED BY <2>3, <2>4, <3>1, <3>2, <3>3
  <2>6. Shows(k, q, 0)'
    BY <2>4, <2>5 DEF Shows, Original
  <2>7. Follows(k, q)'
    BY <2>3, <2>4, <2>5 DEF Follows
  <2>8. Reflects(new, k, q)'
    BY <2>4, <2>5, <2>6, <2>7 DEF Reflects
  <2>9. DocOK(new, k)'
    BY <2>5, <2>8 DEF DocOK
  <2>10. LogKept
    BY <2>4, Fields DEF LogKept, Last
  <2>11. ASSUME NEW v \in Nat, Read(d, k, v) PROVE Read(new, k, v)'
    <3>1. v <= Last'
      BY <2>4, <2>11 DEF Read
    <3>2. CASE new.version > v
      BY <2>9, <3>1, <3>2 DEF Read
    <3>3. CASE ~(new.version > v)
      <4>1. Follows(k, v)
        BY <2>4, <2>11, <3>3 DEF Read
      <4>2. Follows(k, v)'
        BY <2>4, <4>1 DEF Follows, InSent, Active, Queued
      <4> QED BY <3>1, <3>3, <4>2 DEF Read
    <3> QED BY <3>2, <3>3
  <2> QED BY <2>1, <2>4, <2>9, <2>10, <2>11 DEF Serves
<1> QED BY <1>1, <1>2, <1>3

\* Every other step leaves what the readers see, until the alias moves.
LEMMA OthersSeen ==
  ASSUME OperationsInv, Next, ~Files, ~WritesRange, ~DeletesOrphans, ~SwitchesAlias,
         \A l \in {"attempt", "join"} : ~LoadIsFiled(l), NEW k \in Keys
  PROVE  alias' = alias /\ Seen(k)' = Seen(k)
<1>0. alias \in Indexes /\ target \in Targets /\ DOMAIN loads = {"attempt", "join"}
  BY LoadRanges DEF OperationsInv, SectionTypes
<1>1. CASE Streaming \/ Crashes \/ Boots \/ AlignsPublication
  BY <1>1 DEF Streaming, AttemptStarts, Decodes, StoresCheckpoint, StreamFails, AttemptEnds, EngineHalts, Crashes,
              Boots, AlignsPublication, Seen
<1>2. CASE Loading
  BY <1>0, <1>2 DEF Loading, LoadBegins, LoadReadsPosition, LoadReadsRange, LoadIsMarked, LoadRecords, LoadEnds, Seen
<1>3. CASE Reloading
  BY <1>3 DEF Reloading, EditsFile, Hangup, Reloads, Refuses, Publishes, EmitsMarker, ReadsBarrier, PassesBarrier,
              Admits, Adopts, LoadStarts, Drops, Forgets, Unpublishes, Seen
<1>4. ASSUME NEW key \in Keys, NEW put \in BOOLEAN, CommitsRow(key, put) PROVE alias' = alias /\ Seen(k)' = Seen(k)
  BY <1>4 DEF CommitsRow, Seen
<1>5. ASSUME NEW drop \in BOOLEAN, DropsOld(drop) PROVE alias' = alias /\ Seen(k)' = Seen(k)
  <2>1. alias = IF setup.swaps THEN "old" ELSE "fresh"
    BY <1>5 DEF DropsOld, OperationsInv, FreshOK
  <2>2. \/ target' = target
        \/ target' = [target EXCEPT !["fresh"] = [key \in Keys |-> Absent]] /\ alias = "old"
        \/ target' = [target EXCEPT !["old"] = [key \in Keys |-> Absent]] /\ alias = "fresh"
    BY <1>5, <2>1 DEF DropsOld
  <2>3. target'[alias] = target[alias] /\ alias' = alias
    BY <1>0, <1>5, <2>2 DEF Targets, DropsOld
  <2> QED BY <2>3 DEF Seen
<1>6. CASE Commands /\ ~\E drop \in BOOLEAN : DropsOld(drop)
  BY <1>6 DEF Commands, Resnapshots, Reconciles, Reindexes, Runs, ReadsPosition, ReadsRange, ScansKeys, FindsOrphans,
              FindsSlot, ReadsCheckpointAgain, CountsRows, Verifies, Repoints, sectionVars, Seen
<1> QED BY <1>1, <1>2, <1>3, <1>4, <1>5, <1>6, NothingExpires DEF Next, Pipeline

\* Good documents stay good whatever happens while the table is served.
LEMMA ServesAll ==
  ASSUME OperationsInv, Next, InForce, ~SwitchesAlias, NEW k \in Keys
  PROVE  Serves(k)
<1>1. CASE Files
  <2>1. live.rules
    BY <1>1, TakesHead DEF InForce, OperationsInv, QueueOK, PositionsOK
  <2> QED BY <1>1, <2>1, FilesServes
<1>2. ASSUME NEW l \in {"attempt", "join"}, LoadIsFiled(l) PROVE Serves(k)
  BY <1>2, LoadServes
<1>3. CASE ~Files /\ ~WritesRange /\ ~DeletesOrphans /\ \A l \in {"attempt", "join"} : ~LoadIsFiled(l)
  <2>1. Keeps(k)
    BY <1>3, StepKeeps
  <2> QED BY <1>3, <2>1, OthersSeen, SameServes
<1> QED BY <1>1, <1>2, <1>3, WritesServes, DeletesServes

\* What is read of the log stays so.
LEMMA TakenStays ==
  ASSUME OperationsInv, Next, NEW k, NEW v \in Nat, NEW row, Taken(k, v, row)
  PROVE  Taken(k, v, row)'
BY LogGrows, TakenKept

-----------------------------------------------------------------------------
(* A table that goes out of force.                                         *)

\* The table stops being served in three ways.
LEMMA Leaving ==
  ASSUME OperationsInv, Next, InForce, ~InForce'
  PROVE  Drops \/ AlignsPublication \/ (Boots /\ ~file.section)
<1>0. /\ src \in Sources /\ live \in Processes /\ ControlOK /\ DOMAIN loads = {"attempt", "join"}
  BY LoadRanges DEF OperationsInv, SectionTypes
<1>1. CASE Streaming \/ Crashes
  BY <1>0, <1>1 DEF InForce, Streaming, AttemptStarts, Decodes, Files, StoresCheckpoint, StreamFails, AttemptEnds,
                    EngineHalts, Crashes, Processes
<1>2. CASE Loading
  <2>1. src' = src /\ (live' = live \/ live' = [live EXCEPT !.current = TRUE])
    BY <1>2 DEF Loading, LoadBegins, LoadReadsPosition, LoadReadsRange, LoadIsFiled, LoadIsMarked, LoadRecords, LoadEnds
  <2> QED BY <1>0, <2>1 DEF InForce, Processes
<1>3. CASE Boots /\ file.section
  <2>1. src' = src /\ live'.tables /\ live'.rules
    BY <1>3 DEF Boots
  <2> QED BY <2>1 DEF InForce
<1>4. CASE Reloading /\ ~Drops
  <2>1. CASE Forgets \/ \E may \in BOOLEAN : Unpublishes(may)
    <3>1. live.up /\ ~live.tables
      BY <1>0, <2>1 DEF Forgets, Unpublishes, ControlOK
    <3> QED BY <3>1 DEF InForce
  <2>2. CASE Admits
    BY <1>0, <2>2 DEF Admits, InForce, Processes
  <2>3. CASE Adopts
    BY <1>0, <2>3 DEF Adopts, InForce, Processes
  <2>4. CASE Publishes
    BY <1>0, <2>4 DEF Publishes, InForce, Sources
  <2>5. CASE EmitsMarker
    BY <1>0, <2>5 DEF EmitsMarker, InForce, Sources
  <2>6. CASE EditsFile \/ Hangup \/ Reloads \/ Refuses \/ ReadsBarrier \/ PassesBarrier \/ LoadStarts
    BY <2>6 DEF InForce, EditsFile, Hangup, Reloads, Refuses, ReadsBarrier, PassesBarrier, LoadStarts
  <2> QED BY <1>4, <2>1, <2>2, <2>3, <2>4, <2>5, <2>6 DEF Reloading
<1>5. ASSUME NEW key \in Keys, NEW put \in BOOLEAN, CommitsRow(key, put) PROVE FALSE
  BY <1>0, <1>5 DEF InForce, CommitsRow, Sources
<1>6. CASE Commands
  BY <1>6 DEF Commands, Resnapshots, Reconciles, Reindexes, Runs, ReadsPosition, ReadsRange, WritesRange, ScansKeys,
              FindsOrphans, DeletesOrphans, FindsSlot, ReadsCheckpointAgain, CountsRows, Verifies, SwitchesAlias,
              DropsOld, Repoints, sectionVars, InForce
<1> QED BY <1>1, <1>2, <1>3, <1>4, <1>5, <1>6, NothingExpires DEF Next, Pipeline

\* Nothing is then claimed of its documents, and those that stay are strays.
LEMMA LeftBehind ==
  ASSUME OperationsInv, Next, InForce, ~InForce'
  PROVE  /\ ~said'.synced /\ ~store'.progress.stored
         /\ \A l \in {"attempt", "join"} : loads'[l].at = "off"
         /\ \A k \in Keys : Seen(k)'.value = 0 \/ k \in said'.strays
<1>0. /\ ControlOK /\ LoadsOK /\ ApartOK /\ alias \in Indexes /\ said \in Reports
      /\ loads \in [{"attempt", "join"} -> Load]
  BY DEF OperationsInv, SectionTypes
<1>1. CASE Drops
  <2>1. live.up /\ ~store.progress.stored /\ file.index = alias
    BY <1>0, <1>1 DEF Drops, ControlOK
  <2>2. \A l \in {"attempt", "join"} : loads[l].at = "off"
    BY <1>0, <1>1 DEF Drops, ControlOK
  <2>3. UNCHANGED <<target, alias, loads, store>> /\ ~said'.synced /\ Held \subseteq said'.strays
    BY <1>1 DEF Drops
  <2> QED BY <2>1, <2>2, <2>3 DEF Held, Seen
<1>2. CASE AlignsPublication \/ (Boots /\ ~file.section)
  <2>1. ~live.up /\ UNCHANGED <<target, alias, loads, store>>
    BY <1>2 DEF AlignsPublication, Boots
  <2>a. ~said'.synced
    <3>1. CASE AlignsPublication
      BY <3>1 DEF AlignsPublication
    <3>2. CASE Boots /\ ~file.section
      BY <3>2, Zenon DEF Boots
    <3> QED BY <1>2, <3>1, <3>2
  <2>2. \A l \in {"attempt", "join"} : loads[l].at = "off"
    BY <1>0, <2>1 DEF LoadsOK, LoadOK
  <2>3. ~file.section
    <3>1. CASE AlignsPublication
      BY <3>1 DEF AlignsPublication, InForce
    <3> QED BY <1>2, <3>1
  <2>4. Held \subseteq said'.strays
    BY <1>2, <2>3 DEF AlignsPublication, Boots
  <2>5. ~store.progress.stored
    BY <1>2, <2>3 DEF AlignsPublication, Boots, LeavesNoProgress, OperationsInv, Provided
  <2>6. file.index = alias
    BY <1>0, <2>3 DEF ApartOK, StaticOK
  <2> QED BY <2>1, <2>a, <2>2, <2>4, <2>5, <2>6 DEF Held, Seen
<1> QED BY <1>1, <1>2, Leaving

-----------------------------------------------------------------------------
(* The documents stay good.                                                *)

\* Rows are copied by a command only where the section stays as it is.
LEMMA CopyIsStatic ==
  ASSUME OperationsInv, command.kind \in {"resnapshot", "reindex"}
  PROVE  /\ StaticOK /\ file.section /\ said.strays = {} /\ said.synced /\ command.covered /\ InForce
         /\ \A k \in Keys : DocOK(Seen(k), k)
<1>1. StaticOK /\ file.section
  BY DEF OperationsInv, ApartOK, StaticOK
<1>2. said.strays = {} /\ said.synced /\ command.covered
  BY <1>1 DEF StaticOK
<1> QED BY <1>1, <1>2 DEF OperationsInv, SyncedOK

\* The alias moves onto documents that are good.
LEMMA Switched ==
  ASSUME OperationsInv, SwitchesAlias, NEW k \in Keys
  PROVE  /\ InForce' /\ said'.synced /\ said'.strays = {} /\ Seen(k)' = target["fresh"][k]
         /\ DocOK(Seen(k), k)' /\ target["fresh"][k].version <= Last /\ src' = src /\ ~Active' /\ ~live'.up
         /\ \A l \in {"attempt", "join"} : loads'[l].at = "off"
<1>0. command.kind = "reindex" /\ command.at = "switch" /\ target \in Targets /\ alias = "old" /\ ~live.up
  BY DEF OperationsInv, SectionTypes, SwitchesAlias, At, FreshOK, CommandOK
<1>1. InForce /\ said.strays = {} /\ command.covered
  BY <1>0, CopyIsStatic
<1>2. said' = [synced |-> said.synced \/ command.covered, strays |-> {}] /\ UNCHANGED <<src, live, attempt, store, loads>>
  BY <1>1 DEF SwitchesAlias
<1>3. said'.strays = {} /\ said'.synced
  <2>1. PICK synced : synced = (said.synced \/ command.covered)
    OBVIOUS
  <2>2. synced
    BY <1>1, <2>1
  <2>3. said' = [synced |-> synced, strays |-> {}]
    BY <1>2, <2>1, Zenon
  <2> QED BY <2>2, <2>3
<1>4. Seen(k)' = target["fresh"][k]
  <2>1. CASE setup.swaps
    <3>1. alias' = "old" /\ target' = [target EXCEPT !["old"] = target["fresh"], !["fresh"] = target["old"]]
      BY <1>0, <2>1 DEF SwitchesAlias
    <3>2. target'["old"] = target["fresh"]
      BY ONLY <1>0, <3>1 DEF Targets, Indexes
    <3> QED BY ONLY <3>1, <3>2 DEF Seen
  <2>2. CASE ~setup.swaps
    <3>1. alias' = "fresh" /\ target' = target
      BY <2>2 DEF SwitchesAlias
    <3> QED BY ONLY <3>1 DEF Seen
  <2> QED BY <2>1, <2>2
<1>5. PICK d \in Document : d = target["fresh"][k]
  BY SeenTypes DEF Indexes
<1>6. DocOK(d, k) /\ d.version <= Last
  BY <1>0, <1>5 DEF OperationsInv, FreshOK
<1>7. Keeps(k)
  BY <1>1, <1>2, SameKeeps
<1>8. DocOK(d, k)' /\ d = Seen(k)'
  BY <1>4, <1>5, <1>6, <1>7, DocKept
<1>9. ~Active /\ \A l \in {"attempt", "join"} : loads[l].at = "off"
  BY <1>0 DEF OperationsInv, QueueOK, PositionsOK, LoadsOK, LoadOK
<1>10. InForce' /\ ~Active' /\ \A l \in {"attempt", "join"} : loads'[l].at = "off"
  BY <1>1, <1>2, <1>9 DEF InForce, Active
<1> QED BY <1>0, <1>2, <1>3, <1>4, <1>5, <1>6, <1>8, <1>10

\* A stray stays one until a reconcile deletes it, or a rebuild does.
LEMMA StrayStays ==
  ASSUME OperationsInv, Next, NEW k \in said.strays, ~(DeletesOrphans /\ k \in command.keys)
  PROVE  k \in said'.strays
<1>0. k \in Keys
  BY DEF OperationsInv, SectionTypes, Reports
<1>1. CASE Streaming
  BY <1>1 DEF Streaming, AttemptStarts, Decodes, Files, StoresCheckpoint, StreamFails, AttemptEnds, EngineHalts
<1>2. ASSUME NEW key \in Keys, NEW put \in BOOLEAN, CommitsRow(key, put) PROVE k \in said'.strays
  BY <1>2 DEF CommitsRow
<1>3. CASE ~Streaming /\ \A key \in Keys, put \in BOOLEAN : ~CommitsRow(key, put)
  BY <1>0, <1>3, StepKeeps DEF Keeps
<1> QED BY <1>1, <1>2, <1>3

\* A document the section left is replaced by a stray's or by a good one.
LEMMA LeftKept ==
  ASSUME OperationsInv, Next, ~SwitchesAlias, NEW k \in Keys, Seen(k).value = 0 \/ k \in said.strays
  PROVE  Seen(k)'.value = 0 \/ k \in said'.strays \/ (InForce /\ DocOK(Seen(k), k)')
<1>1. CASE DeletesOrphans
  <2>1. CASE k \in command.keys /\ file.index = alias
    BY <1>1, <2>1, DeletesSeen
  <2>2. CASE ~(k \in command.keys /\ file.index = alias)
    BY <1>1, <2>2, DeletesSeen
  <2> QED BY <2>1, <2>2
<1>2. CASE WritesRange
  <2>1. command.kind \in {"resnapshot", "reindex"}
    BY <1>2 DEF WritesRange, OperationsInv, CommandOK, CommandType, CommandStates
  <2> QED BY <1>2, <2>1, CopyIsStatic, WritesServes DEF Serves
<1>3. ASSUME k \notin said.strays, ~DeletesOrphans, ~WritesRange
      PROVE  Seen(k)'.value = 0 \/ (InForce /\ DocOK(Seen(k), k)')
  <2>0. Seen(k).value = 0
    BY <1>3
  <2>1. CASE Files
    <3>0. PICK head : head = attempt.queue[1]
      OBVIOUS
    <3>1. CASE ~(head.key = k /\ live.rules /\ head.put /\ head.at >= Seen(k).version)
      <4>1. Seen(k)' = Seen(k) \/ Seen(k)' = [version |-> head.at, value |-> 0]
        BY <2>1, <3>0, <3>1, FilesSeen
      <4> QED BY <2>0, <4>1
    <3>2. CASE head.key = k /\ live.rules /\ head.put /\ head.at >= Seen(k).version
      <4>1. PICK d \in Document : d = Seen(k)
        BY SeenTypes
      <4>2. PICK new : new = Seen(k)'
        OBVIOUS
      <4>3. new = IF head.at >= d.version THEN [version |-> head.at, value |-> IF head.put THEN head.at ELSE 0] ELSE d
        BY <2>1, <3>0, <3>2, <4>1, <4>2, FilesSeen
      <4>4. d.version <= head.at
        BY <2>1, <3>0, <3>2, <4>1, TakesHead DEF Document, Change
      <4>5. DocOK(new, k)'
        BY <1>3, <2>1, <3>0, <3>2, <4>3, <4>4, FiledDoc
      <4>6. InForce
        <5>1. live.up /\ Orderly(k)
          BY <1>3, <2>1, TakesHead DEF OperationsInv, QueueOK, PositionsOK, StraysOK
        <5>2. 1 \in 1 .. Len(attempt.queue)
          BY <2>1, TakesHead, Fields
        <5>3. live.tables
          BY <3>0, <3>2, <5>1, <5>2 DEF Orderly
        <5> QED BY <3>2, <5>1, <5>3 DEF InForce, OperationsInv, ControlOK
      <4> QED BY <4>2, <4>5, <4>6
    <3> QED BY <3>1, <3>2
  <2>2. ASSUME NEW l \in {"attempt", "join"}, LoadIsFiled(l)
        PROVE  Seen(k)'.value = 0 \/ (InForce /\ DocOK(Seen(k), k)')
    <3>1. InForce
      BY <2>2 DEF LoadIsFiled, OperationsInv, LoadsOK, LoadOK
    <3>2. k # loads[l].done + 1 => Seen(k)' = Seen(k)
      BY <2>2, LoadSeen
    <3> QED BY <2>0, <2>2, <3>1, <3>2, LoadServes
  <2>3. CASE ~Files /\ \A l \in {"attempt", "join"} : ~LoadIsFiled(l)
    BY <1>3, <2>0, <2>3, OthersSeen
  <2> QED BY <2>1, <2>2, <2>3
<1> QED BY <1>1, <1>2, <1>3, StrayStays

\* Every step keeps documents known.
LEMMA KnownKept ==
  ASSUME OperationsInv, Next PROVE KnownOK'
<1>1. SUFFICES ASSUME NEW k \in Keys
               PROVE  Seen(k)'.value = 0 \/ k \in said'.strays \/ (InForce' /\ DocOK(Seen(k), k)')
  BY DEF KnownOK
<1>2. CASE InForce /\ ~InForce'
  BY <1>2, LeftBehind
<1>3. CASE SwitchesAlias
  BY <1>3, Switched
<1>4. CASE (InForce => InForce') /\ ~SwitchesAlias
  <2>1. CASE Seen(k).value = 0 \/ k \in said.strays
    BY <1>4, <2>1, LeftKept
  <2>2. CASE InForce /\ DocOK(Seen(k), k)
    BY <1>4, <2>2, ServesAll DEF Serves
  <2> QED BY <2>1, <2>2 DEF OperationsInv, KnownOK
<1> QED BY <1>2, <1>3, <1>4

\* What is said to be synced stays so: a load that ends has gone through every key.
LEMMA SyncedKept ==
  ASSUME OperationsInv, Next PROVE SyncedOK'
<1>0. said \in Reports /\ live \in Processes
  BY DEF OperationsInv, SectionTypes
<1>1. SUFFICES ASSUME said'.synced PROVE InForce' /\ \A k \in Keys : DocOK(Seen(k), k)'
  BY DEF SyncedOK
<1>2. CASE SwitchesAlias
  <2>1. 1 \in Keys
    BY Fields DEF Keys
  <2> QED BY <1>2, <2>1, Switched
<1>3. CASE InForce /\ ~SwitchesAlias /\ \A k \in Keys : DocOK(Seen(k), k)
  BY <1>1, <1>3, LeftBehind, ServesAll DEF Serves
<1>4. ASSUME NEW l \in {"attempt", "join"}, LoadEnds(l)
      PROVE  InForce /\ \A k \in Keys : DocOK(Seen(k), k)
  <2>1. LoadOK(l) /\ loads[l].at = "clear"
    BY <1>4 DEF LoadEnds, OperationsInv, LoadsOK
  <2> QED BY <2>1 DEF LoadOK, Keys
<1>5. CASE WritesRange
  <2>1. command.kind \in {"resnapshot", "reindex"}
    BY <1>5 DEF WritesRange, OperationsInv, CommandOK, CommandType, CommandStates
  <2> QED BY <1>3, <1>5, <2>1, CopyIsStatic DEF SwitchesAlias, WritesRange, At
<1>6. CASE said.synced /\ ~SwitchesAlias
  BY <1>3, <1>6 DEF OperationsInv, SyncedOK
<1>7. ASSUME ~said.synced, ~SwitchesAlias, ~WritesRange, \A l \in {"attempt", "join"} : ~LoadEnds(l)
      PROVE  FALSE
  <2>1. CASE Streaming \/ Crashes
    BY <1>1, <1>7, <2>1 DEF Streaming, AttemptStarts, Decodes, Files, StoresCheckpoint, StreamFails, AttemptEnds,
            EngineHalts, Crashes
  <2>2. CASE Loading
    BY <1>1, <1>7, <2>2, LoadRanges DEF Loading, LoadBegins, LoadReadsPosition, LoadReadsRange, LoadIsFiled,
            LoadIsMarked, LoadRecords
  <2>3. CASE Reloading
    BY <1>0, <1>1, <1>7, <2>3 DEF Reloading, EditsFile, Hangup, Reloads, Refuses, Publishes, EmitsMarker,
            ReadsBarrier, PassesBarrier, Admits, Adopts, LoadStarts, Drops, Forgets, Unpublishes, Reports
  <2>4. ASSUME NEW key \in Keys, NEW put \in BOOLEAN, CommitsRow(key, put) PROVE FALSE
    BY <1>1, <1>7, <2>4 DEF CommitsRow
  <2>5. CASE Boots
    BY <1>1, <1>7, <2>5, Zenon DEF Boots
  <2>6. CASE AlignsPublication
    BY <1>1, <2>6 DEF AlignsPublication
  <2>7. CASE DeletesOrphans
    BY <1>0, <1>1, <1>7, <2>7 DEF DeletesOrphans, Reports
  <2>8. CASE Commands /\ ~DeletesOrphans
    BY <1>1, <1>7, <2>8 DEF Commands, Resnapshots, Reconciles, Reindexes, Runs, ReadsPosition, ReadsRange, ScansKeys,
            FindsOrphans, FindsSlot, ReadsCheckpointAgain, CountsRows, Verifies, DropsOld, Repoints, sectionVars
  <2> QED BY <2>1, <2>2, <2>3, <2>4, <2>5, <2>6, <2>7, <2>8, NothingExpires DEF Next, Pipeline
<1>8. ASSUME NEW l \in {"attempt", "join"}, LoadEnds(l), ~SwitchesAlias
      PROVE  InForce' /\ \A k \in Keys : DocOK(Seen(k), k)'
  BY <1>3, <1>4, <1>8
<1> QED BY <1>2, <1>5, <1>6, <1>7, <1>8

\* Every step keeps stored progress true.
LEMMA ProgressKept ==
  ASSUME OperationsInv, Next PROVE ProgressOK'
<1>0. store \in Stores /\ loads \in [{"attempt", "join"} -> Load] /\ KeyCount \in Nat
  BY Fields DEF OperationsInv, SectionTypes
<1>1. SUFFICES ASSUME store'.progress.stored
               PROVE  InForce' /\ \A k \in 1 .. store'.progress.done : DocOK(Seen(k), k)'
  BY DEF ProgressOK
<1>2. CASE SwitchesAlias
  <2>1. 1 \in Keys /\ store' = store
    BY <1>2, Fields DEF Keys, SwitchesAlias
  <2>2. store.progress.done <= KeyCount
    BY DEF OperationsInv, ControlOK
  <2>3. \A k \in 1 .. store'.progress.done : k \in Keys
    BY <1>0, <2>1, <2>2 DEF Keys, Stores
  <2> QED BY <1>2, <2>1, <2>3, Switched
<1>3. ASSUME ~SwitchesAlias, InForce, store'.progress.done <= KeyCount,
             \A k \in 1 .. store'.progress.done : DocOK(Seen(k), k)
      PROVE  InForce' /\ \A k \in 1 .. store'.progress.done : DocOK(Seen(k), k)'
  <2>1. \A k \in 1 .. store'.progress.done : k \in Keys
    BY <1>0, <1>3, TypesKept DEF Keys, SectionTypes, Stores
  <2> QED BY <1>1, <1>3, <2>1, LeftBehind, ServesAll DEF Serves
<1>4. ASSUME NEW l \in {"attempt", "join"}, LoadBegins(l)
      PROVE  /\ InForce /\ store'.progress.done <= KeyCount
             /\ \A k \in 1 .. store'.progress.done : DocOK(Seen(k), k)
  <2>1. InForce /\ store'.progress.done = store.progress.done
    BY <1>0, <1>4 DEF LoadBegins, OperationsInv, LoadsOK, LoadOK, Stores
  <2>2. ControlOK /\ ProgressOK
    BY DEF OperationsInv
  <2>3. store.progress.done <= KeyCount /\ (~store.progress.stored => store.progress.done = 0)
    BY <2>2 DEF ControlOK
  <2>4. CASE store.progress.stored
    BY <2>1, <2>2, <2>3, <2>4 DEF ProgressOK
  <2>5. CASE ~store.progress.stored
    BY <2>1, <2>3, <2>5, <1>0
  <2> QED BY <2>4, <2>5
<1>5. ASSUME NEW l \in {"attempt", "join"}, LoadRecords(l)
      PROVE  /\ InForce /\ store'.progress.done <= KeyCount
             /\ \A k \in 1 .. store'.progress.done : DocOK(Seen(k), k)
  <2>1. store'.progress.done = loads[l].done
    BY <1>0, <1>5 DEF LoadRecords, Stores
  <2> QED BY <1>5, <2>1 DEF LoadRecords, OperationsInv, LoadsOK, LoadOK
<1>6. CASE store.progress = store'.progress /\ ~SwitchesAlias
  BY <1>1, <1>3, <1>6 DEF OperationsInv, ProgressOK, ControlOK
<1>7. ASSUME NEW l \in {"attempt", "join"}, LoadEnds(l)
      PROVE  FALSE
  BY <1>0, <1>1, <1>7 DEF LoadEnds, NoProgress, Stores
<1>8. \/ store.progress = store'.progress
      \/ \E l \in {"attempt", "join"} : LoadBegins(l) \/ LoadRecords(l) \/ LoadEnds(l)
  <2>1. CASE Streaming \/ Crashes
    BY <1>0, <2>1 DEF Streaming, AttemptStarts, Decodes, Files, StoresCheckpoint, StreamFails, AttemptEnds,
            EngineHalts, Crashes, Stores
  <2>2. CASE Loading
    BY <2>2, LoadRanges DEF Loading, LoadReadsPosition, LoadReadsRange, LoadIsFiled, LoadIsMarked
  <2>3. CASE Reloading
    BY <2>3 DEF Reloading, EditsFile, Hangup, Reloads, Refuses, Publishes, EmitsMarker,
            ReadsBarrier, PassesBarrier, Admits, Adopts, LoadStarts, Drops, Forgets, Unpublishes
  <2>4. ASSUME NEW key \in Keys, NEW put \in BOOLEAN, CommitsRow(key, put) PROVE store.progress = store'.progress
    BY <2>4 DEF CommitsRow
  <2>5. CASE Boots \/ AlignsPublication
    BY <2>5 DEF Boots, AlignsPublication
  <2>6. CASE Commands
    BY <2>6 DEF Commands, Resnapshots, Reconciles, Reindexes, Runs, ReadsPosition, ReadsRange, WritesRange, ScansKeys,
            FindsOrphans, DeletesOrphans, FindsSlot, ReadsCheckpointAgain, CountsRows, Verifies, SwitchesAlias,
            DropsOld, Repoints, sectionVars
  <2> QED BY <2>1, <2>2, <2>3, <2>4, <2>5, <2>6, NothingExpires DEF Next, Pipeline
<1>9. ASSUME NEW l \in {"attempt", "join"}, LoadBegins(l) \/ LoadRecords(l) PROVE ~SwitchesAlias
  BY <1>9 DEF SwitchesAlias, LoadBegins, LoadRecords, OperationsInv, CommandOK, LoadsOK, LoadOK, At
<1> QED BY <1>2, <1>3, <1>4, <1>5, <1>6, <1>7, <1>8, <1>9

-----------------------------------------------------------------------------
(* The loads.                                                              *)

\* The keys a load is past, and the one it is at.
LEMMA LoadBounds ==
  ASSUME OperationsInv, NEW l \in {"attempt", "join"}, loads[l].at # "off"
  PROVE  /\ loads[l] \in Load /\ loads[l].done \in 0 .. KeyCount /\ \A k \in 1 .. loads[l].done : k \in Keys
         /\ loads[l].at \in {"position", "range", "send", "mark"} => loads[l].done + 1 \in Keys
<1>1. loads[l] \in Load /\ KeyCount \in Nat \ {0} /\ LoadOK(l)
  BY LoadRanges, Fields DEF OperationsInv, LoadsOK
<1>2. loads[l].done \in 0 .. KeyCount
  BY <1>1 DEF LoadOK, Load
<1>3. \A k \in 1 .. loads[l].done : k \in Keys
  BY <1>1, <1>2 DEF Keys
<1> QED BY <1>1, <1>2, <1>3, LoadRanges

\* A load that waits while others act.
LEMMA LoadStays ==
  ASSUME OperationsInv, Next, NEW l \in {"attempt", "join"}, loads'[l] = loads[l],
         loads[l].at # "off" => Active' /\ live'.up /\ (l = "attempt" => attempt'.state = "streaming")
  PROVE  LoadOK(l)'
<1>1. SUFFICES ASSUME loads[l].at # "off" PROVE LoadOK(l)'
  BY DEF LoadOK
<1>2. LoadOK(l) /\ InForce
  BY <1>1 DEF OperationsInv, LoadsOK, LoadOK
<1>3. InForce'
  BY <1>1, <1>2, LeftBehind
<1>4. \A k \in Keys : Serves(k)
  <2>1. ~SwitchesAlias
    BY <1>1, <1>2 DEF SwitchesAlias, OperationsInv, CommandOK, LoadOK, At
  <2> QED BY <1>2, <2>1, ServesAll
<1>5. PICK it : it = loads[l]
  OBVIOUS
<1>6. it = loads'[l] /\ it \in Load /\ \A k \in 1 .. it.done : k \in Keys
  BY <1>1, <1>5, LoadBounds
<1>7. \A k \in 1 .. it.done : DocOK(Seen(k), k)'
  BY <1>1, <1>2, <1>4, <1>5, <1>6 DEF LoadOK, Serves
<1>8. PICK k : k = it.done + 1
  OBVIOUS
<1>9. PICK v, row : v = it.version /\ row = it.row
  OBVIOUS
<1>10. it.at \in {"range", "send", "mark"} => k \in Keys
  BY <1>1, <1>5, <1>8, LoadBounds
<1>a. v \in Nat /\ row \in Nat
  BY <1>6, <1>9 DEF Load
<1>11. it.at \in {"range", "send"} => Read(Seen(k), k, v)'
  BY <1>1, <1>2, <1>4, <1>5, <1>8, <1>9, <1>10, <1>a DEF LoadOK, Serves
<1>12. it.at = "send" => Taken(k, v, row)'
  BY <1>1, <1>2, <1>5, <1>8, <1>9, <1>a, TakenStays DEF LoadOK
<1>13. it.at = "mark" => DocOK(Seen(k), k)'
  BY <1>1, <1>2, <1>4, <1>5, <1>8, <1>10 DEF LoadOK, Serves
<1>14. /\ it.at = "start" => it.done = 0
       /\ it.at \in {"position", "range", "send", "mark"} => it.done < KeyCount
       /\ it.at = "record" => it.done <= KeyCount
       /\ it.at = "clear" => it.done = KeyCount
  BY <1>1, <1>2, <1>5 DEF LoadOK
<1> QED BY <1>1, <1>3, <1>5, <1>6, <1>7, <1>8, <1>9, <1>11, <1>12, <1>13, <1>14 DEF LoadOK

\* What a step of a load leaves.
LEMMA LoadFrame ==
  ASSUME OperationsInv, NEW l \in {"attempt", "join"},
         \/ LoadBegins(l) \/ LoadReadsPosition(l) \/ LoadReadsRange(l)
         \/ LoadIsFiled(l) \/ LoadIsMarked(l) \/ LoadRecords(l) \/ LoadEnds(l)
  PROVE  /\ src' = src /\ live'.up = live.up /\ attempt'.state = attempt.state /\ alias' = alias
         /\ InForce /\ InForce' /\ \A m \in {"attempt", "join"} : m # l => loads'[m] = loads[m]
         /\ Active /\ live.up /\ (l = "attempt" => attempt.state = "streaming")
         /\ ~SwitchesAlias
<1>0. /\ loads \in [{"attempt", "join"} -> Load] /\ live \in Processes /\ attempt \in Attempts
      /\ src \in Sources /\ LoadOK(l)
  BY DEF OperationsInv, SectionTypes, LoadsOK
<1> USE DEF LoadBegins, LoadReadsPosition, LoadReadsRange, LoadIsFiled, LoadIsMarked, LoadRecords, LoadEnds
<1>1. loads[l].at # "off"
  BY <1>0
<1>2. InForce /\ Active /\ live.up /\ (l = "attempt" => attempt.state = "streaming")
  BY <1>0, <1>1 DEF LoadOK
<1>3. src' = src /\ alias' = alias
  OBVIOUS
<1>4. live' = live \/ live' = [live EXCEPT !.current = TRUE]
  OBVIOUS
<1>5. live'.up = live.up /\ live'.tables = live.tables /\ live'.rules = live.rules
  BY ONLY <1>0, <1>4 DEF Processes
<1>6. InForce'
  BY ONLY <1>2, <1>3, <1>5 DEF InForce
<1>7. attempt'.state = attempt.state
  BY <1>0 DEF Attempts
<1>8. \A m \in {"attempt", "join"} : m # l => loads'[m] = loads[m]
  BY <1>0
<1>9. ~SwitchesAlias
  BY <1>2 DEF SwitchesAlias, OperationsInv, CommandOK, At
<1> QED BY <1>2, <1>3, <1>5, <1>6, <1>7, <1>8, <1>9, <1>0 DEF Loading

\* Whatever comes after the last position is still to be brought.
LEMMA ReadsNow ==
  ASSUME OperationsInv, NEW k \in Keys, NEW q, q = Last
  PROVE  Read(Seen(k), k, q) /\ Follows(k, q) /\ q \in Nat
<1>1. Last \in Nat
  BY Fields
<1>2. PICK d \in Document : d = Seen(k)
  BY SeenTypes
<1>3. Follows(k, q) /\ q \in 1 .. Last /\ q \in Nat /\ Shows(k, q, src.rows[k])
  BY <1>1 DEF OperationsInv, SourceOK, QueueOK, PositionsOK, Follows
<1>4. CASE d.version > q
  <2>1. d.version = q + 1 /\ d.value = 0 /\ src.rows[k] = 0
    BY <1>1, <1>2, <1>4 DEF OperationsInv, VersionsOK, Document
  <2>2. Reflects(d, k, q)
    BY <1>3, <2>1 DEF Reflects
  <2> QED BY <1>2, <1>3, <1>4, <2>2 DEF Read, DocOK
<1>5. CASE ~(d.version > q)
  BY <1>1, <1>2, <1>3, <1>5 DEF Read
<1> QED BY <1>3, <1>4, <1>5

\* A row that is read is what the log leaves.
LEMMA TakesNow ==
  ASSUME OperationsInv, NEW k \in Keys, NEW v \in Nat, v <= Last, NEW row, row = src.rows[k]
  PROVE  Taken(k, v, row)
<1>1. PICK q : q = Last
  OBVIOUS
<1>2. q \in 1 .. Last /\ Shows(k, q, row) /\ v <= q
  BY <1>1, Fields DEF OperationsInv, SourceOK, QueueOK, PositionsOK
<1> QED BY <1>2 DEF Taken

\* A load that moves: what it has read, what the engine has filed of it.
LEMMA LoadMoves ==
  ASSUME OperationsInv, Next, NEW l \in {"attempt", "join"},
         \/ LoadBegins(l) \/ LoadReadsPosition(l) \/ LoadReadsRange(l)
         \/ LoadIsFiled(l) \/ LoadIsMarked(l) \/ LoadRecords(l) \/ LoadEnds(l)
  PROVE  LoadOK(l)'
<1>0. /\ loads \in [{"attempt", "join"} -> Load] /\ loads[l] \in Load /\ LoadOK(l) /\ store \in Stores
      /\ KeyCount \in Nat \ {0} /\ Last \in Nat
  BY Fields DEF OperationsInv, SectionTypes, LoadsOK
<1>f. /\ src' = src /\ live'.up /\ Active' /\ InForce /\ InForce' /\ (l = "attempt" => attempt'.state = "streaming")
      /\ ~SwitchesAlias /\ Last' = Last
  BY LoadFrame DEF Active, Last
<1>s. \A k \in Keys : Serves(k)
  BY <1>f, ServesAll
\* What the load has filed stays good.
<1>d. ASSUME NEW n \in 0 .. KeyCount, \A k \in 1 .. n : DocOK(Seen(k), k)
      PROVE  \A k \in 1 .. n : DocOK(Seen(k), k)'
  <2>1. \A k \in 1 .. n : k \in Keys
    BY <1>0 DEF Keys
  <2> QED BY <1>d, <1>s, <2>1 DEF Serves
<1>b. loads[l].at # "off" => loads[l].done \in 0 .. KeyCount /\ \A k \in 1 .. loads[l].done : DocOK(Seen(k), k)
  BY <1>0, LoadBounds DEF LoadOK
<1>e. PICK done : done = loads[l].done
  OBVIOUS
<1>k. PICK k : k = done + 1
  OBVIOUS
<1>1. CASE LoadBegins(l)
  <2>1. PICK n : n = store.progress.done
    OBVIOUS
  <2>2. ControlOK /\ ProgressOK
    BY DEF OperationsInv
  <2>3. n \in 0 .. KeyCount /\ (~store.progress.stored => n = 0)
    BY <1>0, <2>1, <2>2 DEF ControlOK, Stores
  <2>4. \A i \in 1 .. n : DocOK(Seen(i), i)
    <3>1. CASE store.progress.stored
      BY <2>1, <2>2, <3>1 DEF ProgressOK
    <3>2. CASE ~store.progress.stored
      BY <2>3, <3>2
    <3> QED BY <3>1, <3>2
  <2>5. \A i \in 1 .. n : DocOK(Seen(i), i)'
    BY <1>d, <2>3, <2>4
  <2>6. /\ loads'[l].done = n /\ loads'[l].at \in {"clear", "position"}
        /\ loads'[l].at = "clear" => n = KeyCount
        /\ loads'[l].at = "position" => n < KeyCount
    <3>1. loads'[l] = [NoLoad EXCEPT !.at = IF store.progress = Finished THEN "clear" ELSE "position", !.done = n]
      BY <1>0, <1>1, <2>1 DEF LoadBegins
    <3>2. loads'[l].done = n /\ loads'[l].at = IF store.progress = Finished THEN "clear" ELSE "position"
      BY ONLY <3>1 DEF NoLoad
    <3>3. store.progress = Finished => n = KeyCount
      BY <2>1 DEF Finished
    <3>4. store.progress # Finished => n < KeyCount
      <4>1. CASE store.progress.stored
        <5>1. n = KeyCount => store.progress = Finished
          BY <1>0, <2>1, <4>1 DEF Stores, Finished
        <5> QED BY <2>3, <5>1, <1>0
      <4>2. CASE ~store.progress.stored
        BY <1>0, <2>3, <4>2
      <4> QED BY <4>1, <4>2
    <3> QED BY <3>2, <3>3, <3>4
  <2> QED BY <1>f, <2>5, <2>6 DEF LoadOK
<1>2. CASE LoadReadsPosition(l)
  <2>1. k \in Keys /\ done \in 0 .. KeyCount /\ done < KeyCount
    BY <1>0, <1>2, <1>e, <1>k, <1>b, LoadBounds DEF LoadReadsPosition, LoadOK
  <2>2. PICK q : q = Last
    OBVIOUS
  <2>3. loads'[l].at = "range" /\ loads'[l].done = done /\ loads'[l].version = q
    BY <1>0, <1>2, <1>e, <2>2 DEF LoadReadsPosition, Load, Last
  <2>4. Read(Seen(k), k, q)
    BY <2>1, <2>2, ReadsNow
  <2>5. Read(Seen(k), k, q)'
    BY <1>0, <1>s, <2>1, <2>2, <2>4 DEF Serves
  <2>6. \A i \in 1 .. done : DocOK(Seen(i), i)'
    BY <1>2, <1>b, <1>d, <1>e DEF LoadReadsPosition
  <2> QED BY <1>f, <1>k, <2>1, <2>3, <2>5, <2>6 DEF LoadOK
<1>3. CASE LoadReadsRange(l)
  <2>1. k \in Keys /\ done \in 0 .. KeyCount /\ done < KeyCount
    BY <1>0, <1>3, <1>e, <1>k, <1>b, LoadBounds DEF LoadReadsRange, LoadOK
  <2>2. PICK v, row : v = loads[l].version /\ row = src.rows[k]
    OBVIOUS
  <2>3. loads'[l].at = "send" /\ loads'[l].done = done /\ loads'[l].version = v /\ loads'[l].row = row
    BY <1>0, <1>3, <1>e, <1>k, <2>2 DEF LoadReadsRange, Load
  <2>4. v \in Nat /\ Read(Seen(k), k, v)
    BY <1>0, <1>3, <1>e, <1>k, <2>2 DEF LoadReadsRange, LoadOK, Load
  <2>5. Read(Seen(k), k, v)'
    BY <1>s, <2>1, <2>4 DEF Serves
  <2>6. Taken(k, v, row)
    BY <1>0, <2>1, <2>2, <2>4, TakesNow DEF Read
  <2>7. Taken(k, v, row)'
    BY <2>4, <2>6, TakenStays
  <2>8. \A i \in 1 .. done : DocOK(Seen(i), i)'
    BY <1>3, <1>b, <1>d, <1>e DEF LoadReadsRange
  <2> QED BY <1>f, <1>k, <2>1, <2>2, <2>3, <2>5, <2>7, <2>8 DEF LoadOK
<1>4. CASE LoadIsFiled(l)
  <2>1. k \in Keys /\ done \in 0 .. KeyCount /\ done < KeyCount
    BY <1>0, <1>4, <1>e, <1>k, <1>b, LoadBounds DEF LoadIsFiled, LoadOK
  <2>2. loads'[l].at = "mark" /\ loads'[l].done = done
    BY <1>0, <1>4, <1>e DEF LoadIsFiled, Load
  <2>3. DocOK(Seen(k), k)'
    BY <1>4, <1>e, <1>k, <2>1, LoadServes
  <2>4. \A i \in 1 .. done : DocOK(Seen(i), i)'
    BY <1>4, <1>b, <1>d, <1>e DEF LoadIsFiled
  <2> QED BY <1>f, <1>k, <2>1, <2>2, <2>3, <2>4 DEF LoadOK
<1>5. CASE LoadIsMarked(l)
  <2>1. k \in Keys /\ done \in 0 .. KeyCount /\ done < KeyCount
    BY <1>0, <1>5, <1>e, <1>k, <1>b, LoadBounds DEF LoadIsMarked, LoadOK
  <2>2. loads'[l].at = "record" /\ loads'[l].done = k
    BY <1>0, <1>5, <1>e, <1>k DEF LoadIsMarked, Load
  <2>3. \A i \in 1 .. k : DocOK(Seen(i), i)
    <3>1. DocOK(Seen(k), k)
      BY <1>0, <1>5, <1>e, <1>k DEF LoadIsMarked, LoadOK
    <3>2. \A i \in 1 .. done : DocOK(Seen(i), i)
      BY <1>5, <1>b, <1>e DEF LoadIsMarked
    <3>3. \A i \in 1 .. k : i = k \/ i \in 1 .. done
      BY <1>k, <2>1
    <3> QED BY <3>1, <3>2, <3>3
  <2>4. k \in 0 .. KeyCount
    BY <1>k, <2>1, <1>0
  <2>5. \A i \in 1 .. k : DocOK(Seen(i), i)'
    BY <1>d, <2>3, <2>4
  <2> QED BY <1>f, <2>2, <2>4, <2>5 DEF LoadOK
<1>6. CASE LoadRecords(l)
  <2>1. done \in 0 .. KeyCount
    BY <1>6, <1>e, <1>b DEF LoadRecords
  <2>2. loads'[l].at = (IF done = KeyCount THEN "clear" ELSE "position") /\ loads'[l].done = done
    BY <1>0, <1>6, <1>e DEF LoadRecords, Load
  <2>3. \A i \in 1 .. done : DocOK(Seen(i), i)'
    BY <1>6, <1>b, <1>d, <1>e DEF LoadRecords
  <2> QED BY <1>f, <1>0, <2>1, <2>2, <2>3 DEF LoadOK
<1>7. CASE LoadEnds(l)
  BY <1>0, <1>7 DEF LoadEnds, NoLoad, LoadOK
<1> QED BY <1>1, <1>2, <1>3, <1>4, <1>5, <1>6, <1>7

\* Every step keeps the loads true.
LEMMA LoadsKept ==
  ASSUME OperationsInv, Next PROVE LoadsOK'
<1>0. /\ loads \in [{"attempt", "join"} -> Load] /\ attempt \in Attempts /\ live \in Processes /\ LoadsOK
      /\ ControlOK
  BY DEF OperationsInv, SectionTypes
<1>1. SUFFICES ASSUME NEW l \in {"attempt", "join"} PROVE LoadOK(l)'
  BY DEF LoadsOK
<1>a. loads[l].at # "off" => live.up /\ Active /\ (l = "attempt" => attempt.state = "streaming")
  BY <1>0 DEF LoadsOK, LoadOK
<1>2. CASE AttemptStarts
  <2>1. CASE l = "join" \/ ~Pending
    <3>1. loads'[l].at = "off"
      <4>1. CASE l = "join"
        <5>1. loads'[l] = loads[l] /\ ~Active
          BY <1>0, <1>2, <4>1 DEF AttemptStarts, Active
        <5> QED BY <1>a, <5>1
      <4>2. CASE l = "attempt" /\ ~Pending
        BY <1>0, <1>2, <4>2 DEF AttemptStarts, NoLoad
      <4> QED BY <2>1, <4>1, <4>2
    <3> QED BY <3>1 DEF LoadOK
  <2>2. CASE l = "attempt" /\ Pending
    <3>1. loads'[l] = [NoLoad EXCEPT !.at = "start"]
      BY <1>0, <1>2, <2>2 DEF AttemptStarts
    <3>2. loads'[l].at = "start" /\ loads'[l].done = 0
      BY ONLY <3>1 DEF NoLoad
    <3>3. InForce /\ src' = src /\ live' = live /\ live.up
      BY <1>2, <2>2 DEF Pending, OperationsInv, ProgressOK, AttemptStarts
    <3>4. attempt'.state = "streaming"
      BY <1>0, <1>2 DEF AttemptStarts, Attempts
    <3>5. InForce'
      BY <3>3 DEF InForce
    <3> QED BY <3>2, <3>3, <3>4, <3>5 DEF LoadOK, Active
  <2> QED BY <1>1, <2>1, <2>2
<1>3. CASE Decodes \/ Files \/ StoresCheckpoint
  <2>1. loads' = loads /\ live' = live
    BY <1>3 DEF Decodes, Files, StoresCheckpoint
  <2>2. attempt'.state = attempt.state
    BY <1>0, <1>3 DEF Decodes, Files, StoresCheckpoint, Attempts
  <2> QED BY <1>a, <2>1, <2>2, LoadStays DEF Active
<1>4. CASE StreamFails
  <2>1. CASE l = "attempt"
    BY <1>0, <1>4, <2>1 DEF StreamFails, NoLoad, LoadOK
  <2>2. CASE l = "join"
    <3>1. loads'[l] = loads[l] /\ live' = live
      BY <1>0, <1>4, <2>2 DEF StreamFails
    <3>2. attempt'.state = "draining"
      BY <1>0, <1>4 DEF StreamFails, Attempts
    <3> QED BY <1>a, <2>2, <3>1, <3>2, LoadStays DEF Active
  <2> QED BY <1>1, <2>1, <2>2
<1>5. CASE AttemptEnds
  <2>1. loads'[l].at = "off"
    BY <1>a, <1>1, <1>5 DEF AttemptEnds
  <2> QED BY <2>1 DEF LoadOK
<1>6. CASE EngineHalts \/ Crashes
  <2>1. loads'[l].at = "off"
    BY <1>0, <1>6 DEF EngineHalts, Crashes, NoLoad
  <2> QED BY <2>1 DEF LoadOK
<1>7. CASE Loading
  <2>1. PICK m \in {"attempt", "join"} :
          \/ LoadBegins(m) \/ LoadReadsPosition(m) \/ LoadReadsRange(m)
          \/ LoadIsFiled(m) \/ LoadIsMarked(m) \/ LoadRecords(m) \/ LoadEnds(m)
    BY <1>0, <1>7 DEF Loading
  <2>2. CASE l = m
    BY <2>1, <2>2, LoadMoves
  <2>3. CASE l # m
    <3>1. loads'[l] = loads[l] /\ live'.up = live.up /\ attempt'.state = attempt.state
      BY <2>1, <2>3, LoadFrame
    <3> QED BY <1>a, <3>1, LoadStays DEF Active
  <2> QED BY <2>2, <2>3
<1>8. CASE LoadStarts
  <2>0. src' = src /\ live' = live /\ ControlOK
    BY <1>0, <1>8 DEF LoadStarts
  <2>1. attempt'.state = attempt.state /\ attempt.state = "streaming"
    BY <1>0, <1>8 DEF LoadStarts, Attempts
  <2>2. CASE l = "join"
    <3>1. loads'[l] = [NoLoad EXCEPT !.at = "start"]
      BY <1>0, <1>8, <2>2 DEF LoadStarts
    <3>2. loads'[l].at = "start" /\ loads'[l].done = 0
      BY ONLY <3>1 DEF NoLoad
    <3>3. src.published /\ live.tables /\ live.rules /\ live.up
      BY <1>0, <1>8 DEF LoadStarts, ControlOK, Ahead
    <3>4. InForce' /\ live'.up /\ Active'
      BY <2>0, <2>1, <3>3 DEF InForce, Active
    <3> QED BY <2>2, <3>2, <3>4 DEF LoadOK
  <2>3. CASE l = "attempt"
    <3>1. loads'[l] = loads[l]
      BY <1>0, <1>8, <2>3 DEF LoadStarts
    <3> QED BY <1>a, <2>0, <2>1, <3>1, LoadStays DEF Active
  <2> QED BY <1>1, <2>2, <2>3
<1>9. ASSUME loads' = loads, attempt' = attempt, live'.up = live.up PROVE LoadOK(l)'
  BY <1>a, <1>9, LoadStays DEF Active
<1>10. CASE Reloading /\ ~LoadStarts
  <2>1. loads' = loads /\ attempt' = attempt
    BY <1>10 DEF Reloading, EditsFile, Hangup, Reloads, Refuses, Publishes, EmitsMarker,
            ReadsBarrier, PassesBarrier, Admits, Adopts, Drops, Forgets, Unpublishes
  <2>2. live'.up = live.up
    BY <1>0, <1>10 DEF Reloading, EditsFile, Hangup, Reloads, Refuses, Publishes, EmitsMarker,
            ReadsBarrier, PassesBarrier, Admits, Adopts, Drops, Forgets, Unpublishes, Processes
  <2> QED BY <1>9, <2>1, <2>2
<1>11. ASSUME NEW key \in Keys, NEW put \in BOOLEAN, CommitsRow(key, put) PROVE LoadOK(l)'
  BY <1>9, <1>11 DEF CommitsRow
<1>12. CASE Boots \/ AlignsPublication
  <2>1. loads' = loads /\ ~live.up
    BY <1>12 DEF Boots, AlignsPublication
  <2>2. loads'[l].at = "off"
    BY <1>a, <2>1
  <2> QED BY <2>2 DEF LoadOK
<1>13. CASE Commands
  <2>1. loads' = loads /\ attempt' = attempt /\ live' = live
    BY <1>13 DEF Commands, Resnapshots, Reconciles, Reindexes, Runs, ReadsPosition, ReadsRange, WritesRange,
            ScansKeys, FindsOrphans, DeletesOrphans, FindsSlot, ReadsCheckpointAgain, CountsRows, Verifies,
            SwitchesAlias, DropsOld, Repoints, sectionVars
  <2> QED BY <1>9, <2>1
<1> QED BY <1>2, <1>3, <1>4, <1>5, <1>6, <1>7, <1>8, <1>10, <1>11, <1>12, <1>13, NothingExpires
       DEF Next, Pipeline, Streaming

-----------------------------------------------------------------------------
(* The versions.                                                           *)

\* A document's version rises, to a position of the log.
LEMMA SeenVersions ==
  ASSUME OperationsInv, Next, ~SwitchesAlias, ~DeletesOrphans, NEW k \in Keys
  PROVE  Seen(k)' = Seen(k) \/ (Seen(k)'.version \in Seen(k).version .. Last /\ src' = src)
<1>0. Seen(k).version \in Nat /\ Last \in Nat
  BY SeenTypes, Fields DEF Document
<1>1. ASSUME NEW v \in Nat, NEW value, v <= Last, src' = src,
             Seen(k)' = IF v >= Seen(k).version THEN [version |-> v, value |-> value] ELSE Seen(k)
      PROVE  Seen(k)' = Seen(k) \/ (Seen(k)'.version \in Seen(k).version .. Last /\ src' = src)
  BY <1>0, <1>1
<1>2. CASE Files
  <2>1. PICK head : head = attempt.queue[1]
    OBVIOUS
  <2>2. PICK v, value : v = head.at /\ value = IF head.put THEN head.at ELSE 0
    OBVIOUS
  <2>3. v \in Nat /\ v <= Last /\ src' = src
    BY <1>2, <2>1, <2>2, TakesHead DEF Carried
  <2> QED BY <1>1, <1>2, <2>1, <2>2, <2>3, FilesSeen
<1>3. ASSUME NEW l \in {"attempt", "join"}, LoadIsFiled(l)
      PROVE  Seen(k)' = Seen(k) \/ (Seen(k)'.version \in Seen(k).version .. Last /\ src' = src)
  <2>1. PICK v, value : v = loads[l].version /\ value = loads[l].row
    OBVIOUS
  <2>2. v \in Nat /\ v <= Last /\ src' = src
    BY <1>3, <2>1, LoadRanges DEF LoadIsFiled, OperationsInv, LoadsOK, LoadOK, Read, Load
  <2>3. \/ Seen(k)' = Seen(k)
        \/ Seen(k)' = IF v >= Seen(k).version THEN [version |-> v, value |-> value] ELSE Seen(k)
    BY <1>3, <2>1, LoadSeen
  <2> QED BY <1>1, <2>2, <2>3
<1>4. CASE WritesRange
  <2>1. PICK v, value : v = command.version /\ value = command.row
    OBVIOUS
  <2>2. v \in Nat /\ src' = src /\ (Copying => v <= Last)
    BY <1>4, <2>1, WritesSeen DEF OperationsInv, CommandType, CommandStates, CommandOK, Read, WritesRange
  <2> QED BY <1>1, <1>4, <2>1, <2>2, WritesSeen
<1>5. CASE ~Files /\ ~WritesRange /\ \A l \in {"attempt", "join"} : ~LoadIsFiled(l)
  BY <1>5, OthersSeen
<1> QED BY <1>2, <1>3, <1>4, <1>5

\* A reconcile is spent once, and one that deletes is the last.
LEMMA ReconcilableBefore ==
  ASSUME OperationsInv, Next, Reconcilable'
  PROVE  Reconcilable /\ ~DeletesOrphans
<1>0. setup \in Deployments /\ command \in CommandStates
  BY DEF OperationsInv, SectionTypes, CommandType
<1>1. CASE Pipeline
  <2>1. command'.kind = command.kind /\ setup'.commands = setup.commands
    BY <1>1, PipelineFrame
  <2>2. DeletesOrphans => command.kind = "reconcile" /\ command'.kind = "none"
    BY DEF DeletesOrphans, At, NoCommand
  <2> QED BY <2>1, <2>2 DEF Reconcilable
<1>2. ASSUME NEW kind \in {"resnapshot", "reconcile", "reindex"}, NEW at, Runs(kind, at)
      PROVE  Reconcilable /\ ~DeletesOrphans
  <2>1. setup'.commands = setup.commands \ {kind} /\ command'.kind = kind /\ kind \in setup.commands
        /\ command.kind = "none"
    BY <1>0, <1>2 DEF Runs, NoCommand, Deployments
  <2> QED BY <2>1 DEF Reconcilable, DeletesOrphans, At
<1>3. CASE DeletesOrphans
  <2>1. command'.kind = "none" /\ setup' = setup
    BY <1>3 DEF DeletesOrphans, NoCommand
  <2>2. "reconcile" \notin setup.commands
    BY <1>3 DEF OperationsInv, CommandOK, DeletesOrphans, At
  <2> QED BY <2>1, <2>2 DEF Reconcilable
<1>4. ASSUME setup' = setup, command'.kind \in {command.kind, "none"}, ~DeletesOrphans
      PROVE  Reconcilable /\ ~DeletesOrphans
  BY <1>4 DEF Reconcilable
<1>5. CASE ReadsPosition \/ ReadsRange \/ WritesRange
  <2>1. setup' = setup /\ command.at # "delete"
    BY <1>5 DEF ReadsPosition, ReadsRange, WritesRange, sectionVars
  <2>2. command'.kind \in {command.kind, "none"}
    <3>1. CASE ReadsPosition \/ ReadsRange
      BY <1>0, <3>1 DEF ReadsPosition, ReadsRange, CommandStates
    <3>2. CASE WritesRange
      <4>1. \/ command' = [command EXCEPT !.at = "position", !.done = command.done + 1]
            \/ command' = [command EXCEPT !.at = "verify"]
            \/ command' = NoCommand
        BY <3>2 DEF WritesRange
      <4>2. ASSUME NEW n, command' = [command EXCEPT !.at = "position", !.done = n]
            PROVE  command'.kind = command.kind
        BY ONLY <1>0, <4>2 DEF CommandStates
      <4>3. command' = [command EXCEPT !.at = "verify"] => command'.kind = command.kind
        BY ONLY <1>0 DEF CommandStates
      <4>4. command' = NoCommand => command'.kind = "none"
        BY ONLY TRUE DEF NoCommand
      <4> QED BY ONLY <4>1, <4>2, <4>3, <4>4
    <3> QED BY <1>5, <3>1, <3>2
  <2> QED BY <1>4, <2>1, <2>2 DEF DeletesOrphans, At
<1>6. CASE ScansKeys \/ FindsOrphans
  <2>1. setup' = setup /\ command.at # "delete"
    BY <1>6 DEF ScansKeys, FindsOrphans, sectionVars, At
  <2>2. command'.kind \in {command.kind, "none"}
    BY <1>0, <1>6 DEF ScansKeys, FindsOrphans, CommandStates
  <2> QED BY <1>4, <2>1, <2>2 DEF DeletesOrphans, At
<1>7. CASE FindsSlot \/ ReadsCheckpointAgain \/ CountsRows \/ Verifies
  <2>1. setup' = setup /\ command.at # "delete"
    BY <1>7 DEF FindsSlot, ReadsCheckpointAgain, CountsRows, Verifies, sectionVars, At
  <2>2. command'.kind \in {command.kind, "none"}
    <3>1. CASE FindsSlot \/ ReadsCheckpointAgain
      <4>1. \/ command' = [command EXCEPT !.at = "again", !.checkpoint = store.checkpoint]
            \/ command' = [command EXCEPT !.at = "count"]
            \/ command' = NoCommand
        BY <3>1 DEF FindsSlot, ReadsCheckpointAgain
      <4>2. ASSUME NEW n, command' = [command EXCEPT !.at = "again", !.checkpoint = n]
            PROVE  command'.kind = command.kind
        BY ONLY <1>0, <4>2 DEF CommandStates
      <4>3. command' = [command EXCEPT !.at = "count"] => command'.kind = command.kind
        BY ONLY <1>0 DEF CommandStates
      <4>4. command' = NoCommand => command'.kind = "none"
        BY ONLY TRUE DEF NoCommand
      <4> QED BY ONLY <4>1, <4>2, <4>3, <4>4
    <3>2. CASE CountsRows
      BY <1>0, <3>2 DEF CountsRows, CommandStates
    <3>3. CASE Verifies
      <4>1. command' = [command EXCEPT !.at = "switch"] \/ command' = NoCommand
        BY <3>3 DEF Verifies
      <4> QED BY <1>0, <4>1 DEF NoCommand, CommandStates
    <3> QED BY <1>7, <3>1, <3>2, <3>3
  <2> QED BY <1>4, <2>1, <2>2 DEF DeletesOrphans, At
<1>8. CASE SwitchesAlias \/ \E drop \in BOOLEAN : DropsOld(drop)
  <2>1. setup' = setup /\ command.at # "delete"
    BY <1>8 DEF SwitchesAlias, DropsOld, At
  <2>2. command'.kind \in {command.kind, "none"}
    BY <1>0, <1>8 DEF SwitchesAlias, DropsOld, NoCommand, CommandStates
  <2> QED BY <1>4, <2>1, <2>2 DEF DeletesOrphans, At
<1>9. CASE Repoints
  BY <1>4, <1>9 DEF Repoints, DeletesOrphans, At
<1> QED BY <1>1, <1>2, <1>3, <1>5, <1>6, <1>7, <1>8, <1>9 DEF Next, Commands, Resnapshots, Reconciles, Reindexes

\* What the window remembers of removed keys.
LEMMA GoneSteps ==
  ASSUME OperationsInv, Next, Active', NEW k \in Keys
  PROVE  \/ attempt'.gone[k] = 0
         \/ attempt'.gone[k] = attempt.gone[k] /\ Active
         \/ Files /\ attempt'.gone[k] = attempt.queue[1].at /\ attempt.queue[1].key = k /\ ~attempt.queue[1].put
            /\ live.rules
<1>0. attempt \in Attempts /\ DOMAIN loads = {"attempt", "join"}
  BY LoadRanges DEF OperationsInv, SectionTypes
<1>1. CASE Files
  <2>1. PICK head : head = attempt.queue[1]
    OBVIOUS
  <2>2. head = Head(attempt.queue) /\ Active
    BY <1>1, <2>1, TakesHead
  <2>3. attempt'.gone = IF (head.key # 0 /\ live.rules) /\ ~head.put /\ attempt.window
                        THEN [attempt.gone EXCEPT ![head.key] = head.at] ELSE attempt.gone
    BY <1>0, <1>1, <2>2 DEF Files, Attempts
  <2>4. attempt.gone \in [Keys -> Nat]
    BY <1>0 DEF Attempts
  <2> QED BY <1>1, <2>1, <2>2, <2>3, <2>4
<1>2. CASE AttemptStarts
  BY <1>0, <1>2 DEF AttemptStarts, Attempts
<1>3. CASE Decodes \/ StreamFails \/ AttemptEnds \/ StoresCheckpoint \/ EngineHalts
  BY <1>0, <1>3 DEF Decodes, StreamFails, AttemptEnds, StoresCheckpoint, EngineHalts, Attempts, Active
<1>4. CASE Loading
  <2>1. \/ attempt' = attempt \/ attempt' = [attempt EXCEPT !.gone = [key \in Keys |-> 0]]
        \/ attempt' = [attempt EXCEPT !.window = FALSE, !.gone = [key \in Keys |-> 0]]
    BY <1>4 DEF Loading, LoadBegins, LoadReadsPosition, LoadReadsRange, LoadIsFiled, LoadIsMarked, LoadRecords, LoadEnds
  <2>2. attempt'.state = attempt.state /\ (attempt'.gone = attempt.gone \/ attempt'.gone = [key \in Keys |-> 0])
    BY ONLY <1>0, <2>1 DEF Attempts
  <2> QED BY <2>2 DEF Active
<1>5. CASE Reloading
  <2>1. attempt' = attempt \/ attempt' = [attempt EXCEPT !.window = TRUE]
    BY <1>5 DEF Reloading, EditsFile, Hangup, Reloads, Refuses, Publishes, EmitsMarker,
            ReadsBarrier, PassesBarrier, Admits, Adopts, LoadStarts, Drops, Forgets, Unpublishes
  <2>2. attempt'.state = attempt.state /\ attempt'.gone = attempt.gone
    BY ONLY <1>0, <2>1 DEF Attempts
  <2> QED BY <2>2 DEF Active
<1>6. CASE Crashes
  BY <1>0, <1>6 DEF Crashes, Attempts, Active
<1>7. CASE Boots \/ AlignsPublication
  BY <1>7 DEF Boots, AlignsPublication, Active
<1>8. ASSUME NEW key \in Keys, NEW put \in BOOLEAN, CommitsRow(key, put) PROVE attempt' = attempt
  BY <1>8 DEF CommitsRow
<1>9. CASE Commands
  BY <1>9 DEF Commands, Resnapshots, Reconciles, Reindexes, Runs, ReadsPosition, ReadsRange, WritesRange,
          ScansKeys, FindsOrphans, DeletesOrphans, FindsSlot, ReadsCheckpointAgain, CountsRows, Verifies,
          SwitchesAlias, DropsOld, Repoints, sectionVars, Active
<1> QED BY <1>1, <1>2, <1>3, <1>4, <1>5, <1>6, <1>7, <1>8, <1>9, NothingExpires
       DEF Next, Pipeline, Streaming, Active

\* Every step keeps the versions behind the log.
LEMMA VersionsKept ==
  ASSUME OperationsInv, Next PROVE VersionsOK'
<1>1. SUFFICES ASSUME NEW k \in Keys
               PROVE  /\ Seen(k)'.version <= Last' + 1
                      /\ Seen(k)'.version = Last' + 1 => Seen(k)'.value = 0 /\ src'.rows[k] = 0
                      /\ Reconcilable' => Seen(k)'.version <= Last'
                      /\ Active' => attempt'.gone[k] <= Seen(k)'.version
                      /\ Active' => attempt'.gone[k] <= Last'
  BY DEF VersionsOK
<1>0. /\ Last \in Nat /\ Last' \in Nat /\ Last <= Last' /\ Seen(k).version \in Nat
      /\ attempt.gone[k] \in Nat /\ src \in Sources
  BY SeenTypes, Fields, LogGrows DEF LogKept, Document, OperationsInv, SectionTypes, Attempts
<1>2. /\ Seen(k).version <= Last + 1
      /\ Seen(k).version = Last + 1 => Seen(k).value = 0 /\ src.rows[k] = 0
      /\ Reconcilable => Seen(k).version <= Last
      /\ Active => attempt.gone[k] <= Seen(k).version
      /\ Active => attempt.gone[k] <= Last
  BY DEF OperationsInv, VersionsOK
<1>3. CASE SwitchesAlias
  <2>1. Seen(k)'.version <= Last /\ Seen(k)'.version \in Nat /\ ~Active'
    BY <1>3, Switched, SeenTypes DEF Indexes, Document
  <2>2. Last' = Last
    BY <1>3, Switched DEF Last
  <2> QED BY <1>0, <2>1, <2>2
<1>4. CASE DeletesOrphans
  <2>1. ~Reconcilable'
    BY <1>4, ReconcilableBefore
  <2>2. Reconcilable
    BY <1>4 DEF DeletesOrphans, Reconcilable, At
  <2>3. Last' = Last /\ src' = src /\ attempt' = attempt
    BY <1>4, DeletesSeen
  <2>4. \/ Seen(k)' = Seen(k)
        \/ Seen(k)'.version = Seen(k).version + 1 /\ Seen(k)'.value = 0 /\ src.rows[k] = 0
    BY <1>4, DeletesSeen
  <2> QED BY <1>0, <1>2, <2>1, <2>2, <2>3, <2>4 DEF Active
<1>5. CASE ~SwitchesAlias /\ ~DeletesOrphans
  <2>1. Seen(k)' = Seen(k) \/ (Seen(k)'.version \in Seen(k).version .. Last /\ src' = src)
    BY <1>5, SeenVersions
  <2>2. Seen(k)'.version >= Seen(k).version /\ Seen(k)'.version \in Nat
    BY <1>0, <2>1
  <2>3. Seen(k)'.version <= Last' + 1 /\ (Reconcilable' => Seen(k)'.version <= Last')
    BY <1>0, <1>2, <2>1, ReconcilableBefore
  <2>4. ASSUME Seen(k)'.version = Last' + 1 PROVE Seen(k)'.value = 0 /\ src'.rows[k] = 0
    <3>a. PICK n, m : n = Last /\ m = Last'
      OBVIOUS
    <3>b. n \in Nat /\ m \in Nat /\ n <= m /\ Seen(k)'.version = m + 1 /\ Seen(k).version <= n + 1
          /\ Seen(k).version \in Nat
      BY <1>0, <1>2, <2>4, <3>a
    <3>e. ~(m + 1 \in Seen(k).version .. n)
      BY ONLY <3>b
    <3>c. Seen(k)' = Seen(k)
      BY ONLY <2>1, <3>a, <3>b, <3>e
    <3>d. m = n
      BY ONLY <3>b, <3>c
    <3>1. Seen(k)' = Seen(k) /\ Last' = Last /\ Seen(k).version = Last + 1
      BY ONLY <3>a, <3>b, <3>c, <3>d
    <3>2. src'.rows = src.rows
      <4>1. CASE EmitsMarker
        BY <1>0, <4>1 DEF EmitsMarker, Sources
      <4>2. ASSUME NEW key \in Keys, NEW put \in BOOLEAN, CommitsRow(key, put) PROVE FALSE
        <5>1. Last' = Last + 1
          BY <4>2, <1>0 DEF CommitsRow, Sources, Last
        <5> QED BY <1>0, <3>1, <5>1
      <4> QED BY <4>1, <4>2, SourceSteps
    <3> QED BY <1>2, <3>1, <3>2
  <2>5. ASSUME Active' PROVE attempt'.gone[k] <= Seen(k)'.version /\ attempt'.gone[k] <= Last'
    <3>1. CASE attempt'.gone[k] = 0
      BY <1>0, <2>2, <3>1
    <3>2. CASE attempt'.gone[k] = attempt.gone[k] /\ Active
      BY <1>0, <1>2, <2>2, <3>2
    <3>3. CASE Files /\ attempt'.gone[k] = attempt.queue[1].at /\ attempt.queue[1].key = k /\ live.rules
      <4>1. PICK at : at = attempt.queue[1].at
        OBVIOUS
      <4>2. at \in Nat /\ at <= Last
        BY <3>3, <4>1, TakesHead DEF Carried, Change
      <4>3. Seen(k)'.version >= at
        <5>1. CASE at >= Seen(k).version
          BY <3>3, <4>1, <4>2, <5>1, FilesSeen
        <5>2. CASE ~(at >= Seen(k).version)
          BY <1>0, <2>2, <4>2, <5>2
        <5> QED BY <5>1, <5>2
      <4> QED BY <1>0, <2>2, <3>3, <4>1, <4>2, <4>3
    <3> QED BY <2>5, <3>1, <3>2, <3>3, GoneSteps
  <2> QED BY <2>3, <2>4, <2>5
<1> QED BY <1>3, <1>4, <1>5

-----------------------------------------------------------------------------
(* The commands.                                                           *)

\* What the pipeline does to the file and the process.
LEMMA PipelineStarts ==
  ASSUME OperationsInv, Pipeline
  PROVE  /\ file' = file \/ (EditsFile /\ setup.edits > 0)
         /\ live'.up => live.up \/ (Boots /\ command.kind # "reindex" /\ file.index = alias)
<1>0. live \in Processes /\ file \in ConfigFiles
  BY DEF OperationsInv, SectionTypes
<1>1. CASE Streaming \/ Crashes
  BY <1>0, <1>1 DEF Streaming, AttemptStarts, Decodes, Files, StoresCheckpoint, StreamFails, AttemptEnds, EngineHalts,
              Crashes, Processes
<1>2. CASE Loading
  <2>1. file' = file /\ (live' = live \/ live' = [live EXCEPT !.current = TRUE])
    BY <1>2 DEF Loading, LoadBegins, LoadReadsPosition, LoadReadsRange, LoadIsFiled, LoadIsMarked, LoadRecords,
            LoadEnds
  <2> QED BY <1>0, <2>1 DEF Processes
<1>3. CASE Reloading
  BY <1>0, <1>3 DEF Reloading, EditsFile, Hangup, Reloads, Refuses, Publishes, EmitsMarker, ReadsBarrier,
              PassesBarrier, Admits, Adopts, LoadStarts, Drops, Forgets, Unpublishes, Processes
<1>4. CASE command.kind # "reindex" /\ file.index = alias /\ Boots
  BY <1>4 DEF Boots
<1>5. CASE AlignsPublication
  BY <1>5 DEF AlignsPublication
<1>6. ASSUME NEW key \in Keys, NEW put \in BOOLEAN, CommitsRow(key, put) PROVE file' = file /\ live' = live
  BY <1>6 DEF CommitsRow
<1> QED BY <1>1, <1>2, <1>3, <1>4, <1>5, <1>6, NothingExpires DEF Pipeline

\* While a rebuild runs, only rows are committed.
LEMMA ReindexIsQuiet ==
  ASSUME OperationsInv, Pipeline, command.kind = "reindex"
  PROVE  \E key \in Keys, put \in BOOLEAN : CommitsRow(key, put)
<1>1. ~live.up /\ ~Active /\ InForce /\ file.section /\ setup.edits = 0
  BY CopyIsStatic DEF OperationsInv, CommandOK, QueueOK, PositionsOK, StaticOK
<1>2. \A l \in {"attempt", "join"} : loads[l].at = "off"
  BY <1>1 DEF OperationsInv, LoadsOK, LoadOK
<1>3. reload.step = "idle"
  BY <1>1 DEF OperationsInv, ControlOK
<1>4. ~Streaming
  BY <1>1 DEF Streaming, AttemptStarts, Decodes, Files, StoresCheckpoint, StreamFails, AttemptEnds, EngineHalts, Active
<1>5. ~Loading
  BY <1>2, LoadRanges DEF Loading, LoadBegins, LoadReadsPosition, LoadReadsRange, LoadIsFiled, LoadIsMarked,
          LoadRecords, LoadEnds
<1>6. ~Reloading
  <2>1. ~EditsFile
    BY <1>1 DEF EditsFile
  <2> QED BY <1>1, <1>3, <2>1 DEF Reloading, Hangup, Reloads, Refuses, Publishes, EmitsMarker, ReadsBarrier,
              PassesBarrier, Admits, Adopts, LoadStarts, Drops, Forgets, Unpublishes
<1>7. ~Crashes
  BY <1>1 DEF Crashes
<1>8. ~AlignsPublication
  <2>1. src.published = TRUE /\ file.section = TRUE
    BY <1>1 DEF InForce, OperationsInv, SectionTypes, Sources, ConfigFiles
  <2> QED BY <2>1 DEF AlignsPublication
<1> QED BY <1>4, <1>5, <1>6, <1>7, <1>8, NothingExpires DEF Pipeline

\* The pipeline works beside a command.
LEMMA CommandPipeline ==
  ASSUME OperationsInv, Pipeline PROVE CommandOK'
<1>0. CommandOK /\ command \in CommandStates
  BY DEF OperationsInv, CommandType
<1>1. /\ command'.kind = command.kind /\ command'.at = command.at /\ command'.done = command.done
      /\ command'.version = command.version /\ command'.row = command.row /\ command'.keys = command.keys
      /\ setup'.commands = setup.commands /\ setup'.flavor = setup.flavor
      /\ alias' = alias /\ file'.index = file.index
  BY PipelineFrame
<1>2. command.kind = "reindex" => ~live'.up
  BY <1>0, PipelineStarts DEF CommandOK
<1>3. command.kind \in {"resnapshot", "reindex"} => file'.section
  BY CopyIsStatic, PipelineStarts DEF StaticOK
<1>4. ASSUME At("reconcile", "delete"), NEW k \in command.keys PROVE src'.rows[k] = 0
  <2>1. src.rows[k] = 0 /\ k \in Keys /\ src \in Sources
    BY <1>0, <1>4 DEF CommandOK, CommandStates, OperationsInv, SectionTypes
  <2>2. CASE EmitsMarker
    BY <2>1, <2>2 DEF EmitsMarker, Sources
  <2>3. ASSUME NEW key \in Keys, NEW put \in BOOLEAN, CommitsRow(key, put), ReinsertRace \/ ~Reinserted(key, put)
        PROVE  src'.rows[k] = 0
    <3>1. ~(put /\ key = k)
      BY <1>4, <2>3 DEF Reinserted, OperationsInv, Provided
    <3>2. PICK entry : src' = [src EXCEPT !.log = entry, !.rows[key] = IF put THEN Len(src.log) + 1 ELSE 0]
      BY <2>3 DEF CommitsRow
    <3>3. src'.rows = [src.rows EXCEPT ![key] = IF put THEN Len(src.log) + 1 ELSE 0]
      BY ONLY <2>1, <3>2 DEF Sources
    <3>4. src.rows \in [Keys -> Nat]
      BY <2>1 DEF Sources
    <3> QED BY <2>1, <3>1, <3>3, <3>4
  <2> QED BY <2>1, <2>2, <2>3, SourceSteps DEF Next
<1>5. ASSUME Copying, command.at \in {"range", "write"}, NEW k, NEW v, k = command.done + 1, v = command.version
      PROVE  Read(Seen(k), k, v)'
  <2>2. k \in Keys /\ v \in Nat /\ Read(Seen(k), k, v)
    BY <1>0, <1>5, CommandRange DEF CommandOK, CommandStates
  <2>3. InForce /\ ~SwitchesAlias
    BY <1>5, CopyIsStatic DEF Copying, SwitchesAlias, At
  <2> QED BY <2>2, <2>3, ServesAll DEF Serves, Next
<1>6. ASSUME Copying, command.at = "write", NEW k, NEW v, NEW row,
             k = command.done + 1, v = command.version, row = command.row
      PROVE  Taken(k, v, row)'
  <2>1. v \in Nat /\ Taken(k, v, row)
    BY <1>0, <1>6 DEF CommandOK, CommandStates
  <2> QED BY <2>1, TakenStays DEF Next
<1>7. Copying' = Copying
  BY <1>1 DEF Copying
<1>8. ASSUME Copying', command'.at \in {"range", "write"}
      PROVE  Read(Seen(command.done + 1), command.done + 1, command.version)'
  <2>1. PICK k, v : k = command.done + 1 /\ v = command.version
    OBVIOUS
  <2>2. Read(Seen(k), k, v)'
    BY <1>1, <1>5, <1>7, <1>8, <2>1
  <2>3. command'.done + 1 = k /\ command'.version = v
    BY <1>1, <2>1
  <2> QED BY <2>2, <2>3
<1>9. ASSUME Copying', command'.at = "write"
      PROVE  Taken(command.done + 1, command.version, command.row)'
  <2>1. PICK k, v, row : k = command.done + 1 /\ v = command.version /\ row = command.row
    OBVIOUS
  <2>2. Taken(k, v, row)'
    BY <1>1, <1>6, <1>7, <1>9, <2>1
  <2>3. command'.done + 1 = k /\ command'.version = v /\ command'.row = row
    BY <1>1, <2>1
  <2> QED BY <2>2, <2>3
<1>10. At("reconcile", "delete")' => \A k \in command'.keys : src'.rows[k] = 0
  BY <1>1, <1>4 DEF At
<1> QED BY <1>0, <1>1, <1>2, <1>3, <1>8, <1>9, <1>10 DEF CommandOK, Mysql

\* A command that is over.
LEMMA CommandOver ==
  ASSUME OperationsInv, Next, command'.kind = "none", command'.at = "off" PROVE CommandOK'
<1>1. setup' \in Deployments
  BY TypesKept DEF SectionTypes
<1>2. setup'.commands \in SUBSET {"resnapshot", "reconcile", "reindex"}
  BY ONLY <1>1 DEF Deployments
<1> QED BY <1>2 DEF CommandOK, At, Copying

\* A command begins.
LEMMA CommandRuns ==
  ASSUME OperationsInv, Resnapshots \/ Reconciles \/ Reindexes PROVE CommandOK'
<1>0. /\ setup \in Deployments /\ KeyCount \in Nat \ {0} /\ ~LiveRebuild
  BY Fields DEF OperationsInv, SectionTypes, Provided
<1>1. ASSUME NEW kind \in {"resnapshot", "reconcile", "reindex"}, NEW at \in {"position", "scan", "slot"}, Runs(kind, at)
      PROVE  /\ command'.kind = kind /\ command'.at = at /\ command'.done = 0 /\ kind \notin setup'.commands
             /\ setup'.flavor = setup.flavor /\ file' = file /\ file.section /\ live' = live
  BY <1>0, <1>1 DEF Runs, NoCommand, Deployments
<1>2. CASE Resnapshots
  <2>1. /\ command'.kind = "resnapshot" /\ command'.at = "position" /\ command'.done = 0
        /\ "resnapshot" \notin setup'.commands /\ file'.section
    BY <1>1, <1>2 DEF Resnapshots
  <2> QED BY <1>0, <2>1 DEF CommandOK, At
<1>3. CASE Reconciles
  <2>1. /\ command'.kind = "reconcile" /\ command'.at = "scan" /\ "reconcile" \notin setup'.commands /\ ~Mysql /\ ~Mysql'
    BY <1>1, <1>3 DEF Reconciles, Mysql
  <2> QED BY <2>1 DEF CommandOK, At, Copying
<1>4. CASE Reindexes
  <2>1. /\ command'.kind = "reindex" /\ command'.at = "slot" /\ "reindex" \notin setup'.commands /\ file'.section
        /\ ~live'.up
    BY <1>0, <1>1, <1>4 DEF Reindexes
  <2> QED BY <2>1 DEF CommandOK, At, Copying
<1> QED BY <1>2, <1>3, <1>4

\* The steps of a command that read, and change nothing but the command.
LEMMA CommandReads ==
  ASSUME OperationsInv, Next, ReadsPosition \/ ReadsRange PROVE CommandOK'
<1>0. /\ command \in CommandStates /\ CommandOK /\ KeyCount \in Nat \ {0} /\ Last \in Nat
      /\ sectionVars' = sectionVars
  BY Fields DEF OperationsInv, CommandType, ReadsPosition, ReadsRange
<1>1. /\ command.at \in {"position", "range"} /\ command'.kind = command.kind /\ command'.done = command.done
      /\ command.kind \in {"resnapshot", "reindex"}
      /\ command'.at \in {"range", "write"} /\ setup' = setup /\ file' = file /\ live' = live /\ alias' = alias /\ src' = src
  BY <1>0 DEF ReadsPosition, ReadsRange, CommandStates, CommandOK, sectionVars
<1>2. PICK k : k = command.done + 1
  OBVIOUS
<1>3. k \in Keys /\ InForce /\ ~SwitchesAlias
  BY <1>1, <1>2, CommandRange, CopyIsStatic DEF SwitchesAlias, At
<1>4. Serves(k)
  BY <1>3, ServesAll
<1>5. Copying' = Copying
  BY <1>1 DEF Copying
<1>6. command'.done + 1 = k
  BY <1>1, <1>2
<1>7. ASSUME Copying
      PROVE  \E v \in Nat : /\ command'.version = v /\ Read(Seen(k), k, v)'
                            /\ command'.at = "write" => \E row : command'.row = row /\ Taken(k, v, row)'
  <2>1. CASE ReadsPosition
    <3>1. PICK q : q = Last
      OBVIOUS
    <3>2. command'.version = q /\ command'.at = "range"
      BY <1>0, <2>1, <3>1 DEF ReadsPosition, CommandStates, Last
    <3>3. Read(Seen(k), k, q) /\ q \in Nat
      BY <1>3, <3>1, ReadsNow
    <3> QED BY <1>4, <3>2, <3>3 DEF Serves
  <2>2. CASE ReadsRange
    <3>1. PICK v, row : v = command.version /\ row = src.rows[k]
      OBVIOUS
    <3>2. command'.version = v /\ command'.row = row /\ command.at = "range"
      BY <1>0, <1>2, <2>2, <3>1 DEF ReadsRange, CommandStates
    <3>3. Read(Seen(k), k, v) /\ v \in Nat
      BY <1>0, <1>2, <1>7, <3>1, <3>2 DEF CommandOK, CommandStates
    <3>4. Taken(k, v, row)
      BY <1>3, <3>1, <3>3, TakesNow DEF Read
    <3>5. Taken(k, v, row)'
      BY <3>3, <3>4, TakenStays
    <3> QED BY <1>4, <3>2, <3>3, <3>5 DEF Serves
  <2> QED BY <1>0, <1>1, <2>1, <2>2 DEF ReadsPosition, ReadsRange
<1>8. ASSUME Copying'
      PROVE  /\ Read(Seen(command.done + 1), command.done + 1, command.version)'
             /\ command'.at = "write" => Taken(command.done + 1, command.version, command.row)'
  <2>1. PICK v \in Nat : /\ command'.version = v /\ Read(Seen(k), k, v)'
                         /\ command'.at = "write" => \E row : command'.row = row /\ Taken(k, v, row)'
    BY <1>5, <1>7, <1>8
  <2>2. Read(Seen(command.done + 1), command.done + 1, command.version)'
    BY <1>6, <2>1
  <2>3. ASSUME command'.at = "write" PROVE Taken(command.done + 1, command.version, command.row)'
    <3>1. PICK row : command'.row = row /\ Taken(k, v, row)'
      BY <2>1, <2>3
    <3> QED BY <1>6, <2>1, <3>1
  <2> QED BY <2>2, <2>3
<1> QED BY <1>0, <1>1, <1>8 DEF CommandOK, At, Mysql

\* A reconcile or a rebuild looks at the index, the slot, the checkpoint or the table.
LEMMA CommandLooks ==
  ASSUME OperationsInv, Next, ScansKeys \/ FindsOrphans \/ FindsSlot \/ ReadsCheckpointAgain \/ CountsRows \/ Verifies
  PROVE  CommandOK'
<1>0. command \in CommandStates /\ CommandOK
  BY DEF OperationsInv, CommandType
<1>1. setup' = setup /\ file' = file /\ live' = live /\ alias' = alias /\ src' = src
  BY DEF ScansKeys, FindsOrphans, FindsSlot, ReadsCheckpointAgain, CountsRows, Verifies, sectionVars
<1>2. CASE ScansKeys
  <2>1. command'.kind = "reconcile" /\ command'.at = "keys" /\ command.kind = "reconcile"
    BY <1>0, <1>2 DEF ScansKeys, At, CommandStates
  <2> QED BY <1>0, <1>1, <2>1 DEF CommandOK, At, Copying, Mysql
<1>3. CASE FindsOrphans
  <2>1. command'.kind = "reconcile" /\ command'.at = "delete" /\ command.kind = "reconcile"
        /\ command'.keys = command.keys \ ExistingKeys
    BY <1>0, <1>3 DEF FindsOrphans, At, CommandStates
  <2>2. \A k \in command'.keys : src'.rows[k] = 0
    BY <1>0, <1>1, <2>1 DEF ExistingKeys, Rows, CommandStates
  <2> QED BY <1>0, <1>1, <2>1, <2>2 DEF CommandOK, At, Copying, Mysql
<1>4. CASE FindsSlot \/ ReadsCheckpointAgain \/ CountsRows \/ Verifies
  <2>1. \/ command'.kind = "none" /\ command'.at = "off"
        \/ /\ command'.kind = "reindex" /\ command'.done = command.done
           /\ command.kind = "reindex"
           /\ command'.at \in {"again", "count", "switch"} \/ CountsRows
    <3>1. CASE FindsSlot
      BY <1>0, <3>1 DEF FindsSlot, At, CommandStates, NoCommand
    <3>2. CASE ReadsCheckpointAgain
      BY <1>0, <3>2 DEF ReadsCheckpointAgain, At, CommandStates, NoCommand
    <3>3. CASE CountsRows
      BY <1>0, <3>3 DEF CountsRows, At, CommandStates
    <3>4. CASE Verifies
      BY <1>0, <3>4 DEF Verifies, At, CommandStates, NoCommand
    <3> QED BY <1>4, <3>1, <3>2, <3>3, <3>4
  <2>2. CASE command'.kind = "none" /\ command'.at = "off"
    BY <2>2, CommandOver
  <2>3. CASE command'.kind = "reindex" /\ command.kind = "reindex" /\ command'.at \in {"again", "count", "switch"}
    BY <1>0, <1>1, <2>3 DEF CommandOK, At, Copying, Mysql
  <2>4. CASE command'.kind = "reindex" /\ command.kind = "reindex" /\ CountsRows
    <3>1. command'.at = "position" /\ command'.done = 0
      BY <1>0, <2>4 DEF CountsRows, At, CommandStates, OperationsInv, FreshOK
    <3> QED BY <1>0, <1>1, <2>4, <3>1, Fields DEF CommandOK, At, Copying, Mysql
  <2> QED BY <2>1, <2>2, <2>3, <2>4
<1> QED BY <1>2, <1>3, <1>4

\* A row is written, and the next one is due.
LEMMA CommandWrites ==
  ASSUME OperationsInv, Next, WritesRange PROVE CommandOK'
<1>0. /\ command \in CommandStates /\ CommandOK /\ KeyCount \in Nat \ {0}
  BY Fields DEF OperationsInv, CommandType
<1>1. /\ command.at = "write" /\ command.kind \in {"resnapshot", "reindex"} /\ command.done \in Nat
      /\ command.done < KeyCount
      /\ setup' = setup /\ file' = file /\ live' = live /\ alias' = alias /\ src' = src
  BY <1>0 DEF WritesRange, CommandOK, CommandStates
<1>2. PICK k : k = command.done + 1
  OBVIOUS
<1>3. \/ k # KeyCount /\ command' = [command EXCEPT !.at = "position", !.done = k]
      \/ command.kind = "reindex" /\ command' = [command EXCEPT !.at = "verify"]
      \/ command' = NoCommand
  BY <1>2 DEF WritesRange
<1>4. CASE k # KeyCount /\ command' = [command EXCEPT !.at = "position", !.done = k]
  <2>1. command'.kind = command.kind /\ command'.at = "position" /\ command'.done = k
    BY ONLY <1>0, <1>4 DEF CommandStates
  <2>2. k < KeyCount
    BY <1>0, <1>1, <1>2, <1>4
  <2> QED BY <1>0, <1>1, <2>1, <2>2 DEF CommandOK, At, Mysql
<1>5. CASE command.kind = "reindex" /\ command' = [command EXCEPT !.at = "verify"]
  <2>1. command'.kind = "reindex" /\ command'.at = "verify"
    BY ONLY <1>0, <1>5 DEF CommandStates
  <2> QED BY <1>0, <1>1, <1>5, <2>1 DEF CommandOK, At, Mysql
<1>6. CASE command' = NoCommand
  BY <1>6, CommandOver DEF NoCommand
<1> QED BY <1>3, <1>4, <1>5, <1>6

\* Every step keeps the command in its program.
LEMMA CommandKept ==
  ASSUME OperationsInv, Next PROVE CommandOK'
<1>0. command \in CommandStates /\ CommandOK
  BY DEF OperationsInv, CommandType
<1>1. CASE DeletesOrphans \/ \E drop \in BOOLEAN : DropsOld(drop)
  BY <1>1, CommandOver DEF DeletesOrphans, DropsOld, NoCommand
<1>2. CASE SwitchesAlias
  <2>1. command'.kind = "reindex" /\ command'.at = "drop" /\ command.kind = "reindex"
        /\ setup' = setup /\ file' = file /\ live' = live
    BY <1>0, <1>2 DEF SwitchesAlias, At, CommandStates
  <2> QED BY <1>0, <2>1 DEF CommandOK, At, Copying, Mysql
<1>3. CASE Repoints
  BY <1>0, <1>3, CommandOver DEF Repoints, CommandOK
<1> QED BY <1>1, <1>2, <1>3, CommandPipeline, CommandRuns, CommandReads, CommandWrites, CommandLooks
        DEF Next, Commands

-----------------------------------------------------------------------------
(* The fresh index of a rebuild.                                           *)

\* While the readers and the file name the old index, only the rebuild writes to the fresh one.
LEMMA FreshFrame ==
  ASSUME OperationsInv, Next, alias = "old", file.index = "old",
         ~(WritesRange /\ command.kind = "reindex"), ~SwitchesAlias,
         \A drop \in BOOLEAN : ~DropsOld(drop)
  PROVE  target'["fresh"] = target["fresh"]
<1>0. /\ target \in Targets
      /\ live.up => live.index = "old"
      /\ loads \in [{"attempt", "join"} -> Load]
  BY DEF OperationsInv, ControlOK, SectionTypes
<1>1. ASSUME NEW docs, target' = [target EXCEPT !["old"] = docs] PROVE target'["fresh"] = target["fresh"]
  BY ONLY <1>0, <1>1 DEF Targets, Indexes
<1>2. CASE Files
  <2>a. Active
    BY <1>2, TakesHead
  <2>1. live.index = "old"
    BY <1>0, <2>a DEF OperationsInv, QueueOK, PositionsOK
  <2>2. target' = target \/ \E docs : target' = [target EXCEPT !["old"] = docs]
    BY <1>2, <2>1 DEF Files
  <2> QED BY <1>1, <2>2
<1>3. ASSUME NEW l \in {"attempt", "join"}, LoadIsFiled(l) PROVE target'["fresh"] = target["fresh"]
  <2>a. LoadOK(l) /\ loads[l].at = "send"
    BY <1>3 DEF LoadIsFiled, OperationsInv, LoadsOK
  <2>1. live.index = "old"
    BY <1>0, <2>a DEF LoadOK
  <2>2. target' = target \/ \E docs : target' = [target EXCEPT !["old"] = docs]
    BY <1>3, <2>1 DEF LoadIsFiled
  <2> QED BY <1>1, <2>2
<1>4. CASE WritesRange
  <2>1. Filled = "old"
    BY <1>4 DEF Filled
  <2>2. target' = target \/ \E docs : target' = [target EXCEPT !["old"] = docs]
    BY <1>4, <2>1 DEF WritesRange
  <2> QED BY <1>1, <2>2
<1>5. CASE DeletesOrphans
  BY <1>1, <1>5 DEF DeletesOrphans
<1>6. CASE ~Files /\ ~WritesRange /\ ~DeletesOrphans /\ \A l \in {"attempt", "join"} : ~LoadIsFiled(l)
  <2>1. target' = target
    <3>1. CASE Streaming
      BY <1>6, <3>1 DEF Streaming, AttemptStarts, Decodes, StoresCheckpoint, StreamFails, AttemptEnds, EngineHalts
    <3>2. CASE Loading
      BY <1>0, <1>6, <3>2 DEF Loading, LoadBegins, LoadReadsPosition, LoadReadsRange, LoadIsMarked, LoadRecords,
              LoadEnds
    <3>3. CASE Reloading
      BY <3>3 DEF Reloading, EditsFile, Hangup, Reloads, Refuses, Publishes, EmitsMarker, ReadsBarrier,
              PassesBarrier, Admits, Adopts, LoadStarts, Drops, Forgets, Unpublishes
    <3>4. CASE Crashes \/ Boots \/ AlignsPublication
      BY <3>4 DEF Crashes, Boots, AlignsPublication
    <3>5. ASSUME NEW key \in Keys, NEW put \in BOOLEAN, CommitsRow(key, put) PROVE target' = target
      BY <3>5 DEF CommitsRow
    <3>6. CASE Commands
      BY <1>6, <3>6 DEF Commands, Resnapshots, Reconciles, Reindexes, Runs, ReadsPosition, ReadsRange, ScansKeys,
              FindsOrphans, FindsSlot, ReadsCheckpointAgain, CountsRows, Verifies, Repoints, sectionVars
    <3> QED BY <3>1, <3>2, <3>3, <3>4, <3>5, <3>6, NothingExpires DEF Next, Pipeline
  <2> QED BY <2>1
<1> QED BY <1>2, <1>3, <1>4, <1>5, <1>6

\* Before the rebuild, the fresh index is empty.
LEMMA FreshWaits ==
  ASSUME OperationsInv, Next, "reindex" \in setup'.commands
  PROVE  alias' = "old" /\ file'.index = "old" /\ \A k \in Keys : target'["fresh"][k] = Absent
<1>0. setup \in Deployments /\ command \in CommandStates /\ file \in ConfigFiles /\ CommandOK
  BY DEF OperationsInv, SectionTypes, CommandType
<1>1. "reindex" \in setup.commands /\ (Repoints \/ (alias' = alias /\ file'.index = file.index) \/ SwitchesAlias)
  <2>1. CASE Pipeline
    BY <2>1, PipelineFrame
  <2>2. CASE Resnapshots \/ Reconciles \/ Reindexes
    <3>1. ASSUME NEW kind, NEW at, Runs(kind, at) PROVE "reindex" \in setup.commands /\ alias' = alias /\ file' = file
      <4>1. setup'.commands = setup.commands \ {kind}
        BY <1>0, <3>1 DEF Runs, Deployments
      <4> QED BY <3>1, <4>1 DEF Runs
    <3> QED BY <2>2, <3>1 DEF Resnapshots, Reconciles, Reindexes
  <2>3. CASE Commands /\ ~(Resnapshots \/ Reconciles \/ Reindexes)
    BY <2>3 DEF Commands, ReadsPosition, ReadsRange, WritesRange, ScansKeys, FindsOrphans, DeletesOrphans, FindsSlot,
            ReadsCheckpointAgain, CountsRows, Verifies, SwitchesAlias, DropsOld, Repoints, sectionVars
  <2> QED BY <2>1, <2>2, <2>3 DEF Next
<1>2. alias = "old" /\ file.index = "old" /\ \A k \in Keys : target["fresh"][k] = Absent
  BY <1>1 DEF OperationsInv, FreshOK
<1>3. command.kind # "reindex"
  BY <1>0, <1>1 DEF CommandOK
<1>4. target'["fresh"] = target["fresh"]
  BY <1>2, <1>3, FreshFrame DEF SwitchesAlias, DropsOld, At
<1>5. Repoints => alias' = alias /\ file'.index = alias
  BY <1>0 DEF Repoints, ConfigFiles
<1> QED BY <1>1, <1>2, <1>3, <1>4, <1>5 DEF SwitchesAlias, At

\* While only rows are committed, what the rebuild has read and written stays good.
LEMMA FreshPipeline ==
  ASSUME OperationsInv, Pipeline PROVE FreshOK'
<1>0. FreshOK /\ command \in CommandStates
  BY DEF OperationsInv, CommandType
<1>1. "reindex" \in setup'.commands => alias' = "old" /\ file'.index = "old" /\ \A k \in Keys : target'["fresh"][k] = Absent
  BY FreshWaits DEF Next
<1>2. /\ command'.kind = command.kind /\ command'.at = command.at /\ command'.done = command.done
      /\ command'.version = command.version /\ command'.row = command.row
      /\ setup'.swaps = setup.swaps /\ alias' = alias /\ file'.index = file.index
  BY PipelineFrame
<1>3. At("reindex", "drop")' => alias' = IF setup'.swaps THEN "old" ELSE "fresh"
  BY <1>0, <1>2 DEF At, FreshOK
<1>4. CASE ~(command.kind = "reindex" /\ command.at # "drop")
  BY <1>1, <1>2, <1>3, <1>4 DEF FreshOK
<1>5. CASE command.kind = "reindex" /\ command.at # "drop"
  <2>1. PICK key \in Keys, put \in BOOLEAN : CommitsRow(key, put)
    BY <1>5, ReindexIsQuiet
  <2>2. target' = target /\ ~Streaming
    BY <1>5, <2>1, CopyIsStatic DEF CommitsRow, OperationsInv, CommandOK, QueueOK, PositionsOK, Active, Streaming,
       AttemptStarts, Decodes, Files, StoresCheckpoint, StreamFails, AttemptEnds, EngineHalts
  <2>3. InForce
    BY <1>5, CopyIsStatic
  <2>4. \A k \in Keys : Keeps(k)
    BY <1>5, <2>2, <2>3, StepKeeps DEF Next, DeletesOrphans, At
  <2>5. \A k \in Keys : target["fresh"][k] \in Document
    BY SeenTypes DEF Indexes
  <2>6. \A k \in Keys : DocOK(target["fresh"][k], k) => DocOK(target["fresh"][k], k)'
    <3>1. ASSUME NEW k \in Keys, NEW d, d = target["fresh"][k], DocOK(d, k) PROVE DocOK(target["fresh"][k], k)'
      <4>1. DocOK(d, k)'
        BY <2>4, <2>5, <3>1, DocKept
      <4>2. target'["fresh"][k] = d
        BY <2>2, <3>1
      <4> QED BY <4>1, <4>2
    <3> QED BY <3>1
  <2>7. Last \in Nat /\ Last' \in Nat /\ Last <= Last' /\ LogKept
    BY LogGrows DEF LogKept, Next
  <2>8. \A k \in Keys : target'["fresh"][k].version <= Last'
    BY <1>0, <1>5, <2>2, <2>5, <2>7 DEF FreshOK, Document
  <2>9. \A k \in Keys : IF k <= command'.done \/ command'.at \in {"verify", "switch"}
                        THEN DocOK(target["fresh"][k], k)' ELSE target'["fresh"][k] = Absent
    BY <1>0, <1>2, <1>5, <2>2, <2>6 DEF FreshOK
  <2>10. ASSUME command.at \in {"range", "write"}
         PROVE  /\ command.version <= Last' /\ Follows(command.done + 1, command.version)'
                /\ command.at = "write" => Taken(command.done + 1, command.version, command.row)'
    <3>1. PICK k, v, row : k = command.done + 1 /\ v = command.version /\ row = command.row
      OBVIOUS
    <3>2. k \in Keys /\ v \in Nat /\ v <= Last /\ Follows(k, v) /\ (command.at = "write" => Taken(k, v, row))
      BY <1>0, <1>5, <2>10, <3>1, CommandRange DEF FreshOK, CommandStates
    <3>3. Follows(k, v)' /\ (command.at = "write" => Taken(k, v, row)')
      BY <2>4, <2>7, <3>2, FollowsKept, TakenKept
    <3>4. command'.done + 1 = k /\ command'.version = v /\ command'.row = row
      BY <1>2, <3>1
    <3> QED BY <2>7, <3>1, <3>2, <3>3, <3>4
  <2> QED BY <1>0, <1>1, <1>2, <1>3, <1>5, <2>8, <2>9, <2>10 DEF FreshOK
<1> QED BY <1>4, <1>5

\* A step of the rebuild that only reads.
LEMMA FreshReads ==
  ASSUME OperationsInv, Next, UNCHANGED sectionVars, command.kind = "reindex", command'.kind = "reindex",
         command.at # "drop", command'.at # "drop", command'.done = command.done,
         command'.at \in {"slot", "again", "count"} => command.at \in {"slot", "again", "count"},
         command'.at \in {"verify", "switch"} <=> command.at \in {"verify", "switch"},
         NEW k, k = command.done + 1,
         command'.at \in {"range", "write"} =>
            /\ k \in Keys
            /\ \E v \in Nat : /\ command'.version = v /\ v <= Last /\ Follows(k, v)
                              /\ command'.at = "write" => \E row : command'.row = row /\ Taken(k, v, row)
  PROVE  FreshOK'
<1>0. FreshOK /\ command \in CommandStates
  BY DEF OperationsInv, CommandType
<1>1. setup' = setup /\ src' = src /\ target' = target /\ alias' = alias /\ file' = file
  BY DEF sectionVars
<1>2. \A j \in Keys : Keeps(j)
  BY <1>1, SameKeeps DEF sectionVars
<1>3. Last' = Last /\ LogKept
  BY <1>1, LogGrows DEF Last
<1>4. \A j \in Keys : DocOK(target["fresh"][j], j) => DocOK(target["fresh"][j], j)'
  <2>1. ASSUME NEW j \in Keys, NEW d, d = target["fresh"][j], DocOK(d, j) PROVE DocOK(target["fresh"][j], j)'
    <3>1. d \in Document
      BY <2>1, SeenTypes DEF Indexes
    <3>2. DocOK(d, j)'
      BY <1>2, <2>1, <3>1, DocKept
    <3>3. target'["fresh"][j] = d
      BY <1>1, <2>1
    <3> QED BY <3>2, <3>3
  <2> QED BY <2>1
<1>5. command'.done + 1 = k
  OBVIOUS
<1>6. ASSUME command'.at \in {"range", "write"}
      PROVE  /\ command'.version <= Last' /\ Follows(command.done + 1, command.version)'
             /\ command'.at = "write" => Taken(command.done + 1, command.version, command.row)'
  <2>1. k \in Keys
    BY <1>6
  <2>2. PICK v \in Nat : /\ command'.version = v /\ v <= Last /\ Follows(k, v)
                         /\ command'.at = "write" => \E row : command'.row = row /\ Taken(k, v, row)
    BY <1>6
  <2>3. Follows(k, v)'
    BY <1>2, <2>1, <2>2, FollowsKept
  <2>4. Follows(command.done + 1, command.version)'
    BY <1>5, <2>2, <2>3
  <2>5. ASSUME command'.at = "write" PROVE Taken(command.done + 1, command.version, command.row)'
    <3>1. PICK row : command'.row = row /\ Taken(k, v, row)
      BY <2>2, <2>5
    <3>2. Taken(k, v, row)'
      BY <1>3, <2>2, <3>1, TakenKept
    <3> QED BY <1>5, <2>2, <3>1, <3>2
  <2> QED BY <1>3, <2>2, <2>4, <2>5
<1>7. "reindex" \in setup'.commands => alias' = "old" /\ file'.index = "old" /\ \A j \in Keys : target'["fresh"][j] = Absent
  BY FreshWaits
<1>8. /\ alias' = "old" /\ file'.index = "old"
      /\ command'.at \in {"slot", "again", "count"} => command'.done = 0
      /\ \A j \in Keys : target'["fresh"][j].version <= Last'
  BY <1>0, <1>1, <1>3 DEF FreshOK
<1>9. \A j \in Keys : IF j <= command'.done \/ command'.at \in {"verify", "switch"}
                      THEN DocOK(target["fresh"][j], j)' ELSE target'["fresh"][j] = Absent
  BY <1>0, <1>1, <1>4 DEF FreshOK
<1> QED BY <1>6, <1>7, <1>8, <1>9 DEF FreshOK, At

\* No rebuild is running afterwards.
LEMMA FreshOver ==
  ASSUME OperationsInv, Next, command'.kind # "reindex" PROVE FreshOK'
BY FreshWaits DEF FreshOK, At

\* A rebuild finds the fresh index empty.
LEMMA FreshBegins ==
  ASSUME OperationsInv, Reindexes PROVE FreshOK'
<1>0. FreshOK /\ Last \in Nat /\ KeyCount \in Nat
  BY Fields DEF OperationsInv
<1>1. /\ command'.kind = "reindex" /\ command'.at = "slot" /\ command'.done = 0
      /\ "reindex" \in setup.commands
      /\ src' = src /\ file' = file /\ target' = target /\ alias' = alias
  BY DEF Reindexes, Runs, NoCommand
<1>2. alias = "old" /\ file.index = "old" /\ \A k \in Keys : target["fresh"][k] = Absent
  BY <1>0, <1>1 DEF FreshOK
<1>3. \A k \in Keys : target'["fresh"][k].version <= Last' /\ ~(k <= command'.done)
  BY <1>0, <1>1, <1>2 DEF Absent, Last, Keys
<1> QED BY <1>1, <1>2, <1>3 DEF FreshOK, At

\* A rebuild looks at the slot, the checkpoint or the table.
LEMMA FreshLooks ==
  ASSUME OperationsInv, Next, ReadsPosition \/ ReadsRange \/ FindsSlot \/ ReadsCheckpointAgain \/ CountsRows \/ Verifies
  PROVE  FreshOK'
<1>0. /\ command \in CommandStates /\ CommandOK /\ FreshOK /\ Last \in Nat
      /\ UNCHANGED sectionVars
  BY Fields DEF OperationsInv, CommandType, ReadsPosition, ReadsRange, FindsSlot, ReadsCheckpointAgain, CountsRows, Verifies
<1>1. SUFFICES ASSUME command'.kind = "reindex" PROVE FreshOK'
  BY FreshOver
<1>2. PICK k : k = command.done + 1
  OBVIOUS
<1>3. CASE FindsSlot
  <2>1. command.kind = "reindex" /\ command.at = "slot" /\ command'.at = "again" /\ command'.done = command.done
    BY <1>0, <1>1, <1>3 DEF FindsSlot, At, CommandStates, NoCommand
  <2> QED BY <1>0, <1>1, <1>2, <2>1, FreshReads
<1>4. CASE ReadsCheckpointAgain
  <2>1. command.kind = "reindex" /\ command.at = "again" /\ command'.at = "count" /\ command'.done = command.done
    BY <1>0, <1>1, <1>4 DEF ReadsCheckpointAgain, At, CommandStates, NoCommand
  <2> QED BY <1>0, <1>1, <1>2, <2>1, FreshReads
<1>5. CASE CountsRows
  <2>1. command.kind = "reindex" /\ command.at = "count" /\ command'.at = "position" /\ command'.done = command.done
    BY <1>0, <1>1, <1>5 DEF CountsRows, At, CommandStates
  <2> QED BY <1>0, <1>1, <1>2, <2>1, FreshReads
<1>6. CASE Verifies
  <2>1. command.kind = "reindex" /\ command.at = "verify" /\ command'.at = "switch" /\ command'.done = command.done
    BY <1>0, <1>1, <1>6 DEF Verifies, At, CommandStates, NoCommand
  <2> QED BY <1>0, <1>1, <1>2, <2>1, FreshReads
<1>7. CASE ReadsPosition
  <2>1. PICK q : q = Last
    OBVIOUS
  <2>2. command.kind = "reindex" /\ command.at = "position" /\ command'.at = "range" /\ command'.done = command.done
        /\ command'.version = q
    BY <1>0, <1>1, <1>7, <2>1 DEF ReadsPosition, CommandStates, Last
  <2>3. k \in Keys
    BY <1>2, <2>2, CommandRange
  <2>4. q \in Nat /\ Follows(k, q)
    BY <2>1, <2>3, ReadsNow
  <2> QED BY <1>0, <1>1, <1>2, <2>1, <2>2, <2>3, <2>4, FreshReads
<1>8. CASE ReadsRange
  <2>1. PICK v, row : v = command.version /\ row = src.rows[k]
    OBVIOUS
  <2>2. command.kind = "reindex" /\ command.at = "range" /\ command'.at = "write" /\ command'.done = command.done
        /\ command'.version = v /\ command'.row = row
    BY <1>0, <1>1, <1>2, <1>8, <2>1 DEF ReadsRange, CommandStates
  <2>3. k \in Keys
    BY <1>2, <2>2, CommandRange
  <2>4. v \in Nat /\ v <= Last /\ Follows(k, v)
    BY <1>0, <1>2, <2>1, <2>2 DEF FreshOK, CommandStates
  <2>5. Taken(k, v, row)
    BY <2>1, <2>3, <2>4, TakesNow
  <2> QED BY <1>0, <1>1, <1>2, <2>2, <2>3, <2>4, <2>5, FreshReads
<1> QED BY <1>3, <1>4, <1>5, <1>6, <1>7, <1>8

\* A rebuild writes a row.
LEMMA FreshWrites ==
  ASSUME OperationsInv, Next, WritesRange PROVE FreshOK'
<1>0. /\ command \in CommandStates /\ CommandOK /\ FreshOK /\ Last \in Nat /\ target \in Targets /\ KeyCount \in Nat
      /\ command.done \in Nat /\ command.version \in Nat /\ command.row \in Nat /\ command.at = "write"
  BY Fields DEF OperationsInv, CommandType, SectionTypes, WritesRange, CommandStates
<1>1. SUFFICES ASSUME command'.kind = "reindex" PROVE FreshOK'
  BY FreshOver
<1>2. PICK k, v, row : k = command.done + 1 /\ v = command.version /\ row = command.row
  OBVIOUS
<1>3. \/ k # KeyCount /\ command' = [command EXCEPT !.at = "position", !.done = k]
      \/ k = KeyCount /\ command.kind = "reindex" /\ command' = [command EXCEPT !.at = "verify"]
  BY <1>1, <1>2 DEF WritesRange, NoCommand
<1>4. /\ command.kind = "reindex"
      /\ (k # KeyCount /\ command'.at = "position" /\ command'.done = k)
           \/ (k = KeyCount /\ command'.at = "verify" /\ command'.done = command.done)
  <2>1. CASE k # KeyCount /\ command' = [command EXCEPT !.at = "position", !.done = k]
    BY <1>0, <1>1, <2>1 DEF CommandStates
  <2>2. CASE k = KeyCount /\ command.kind = "reindex" /\ command' = [command EXCEPT !.at = "verify"]
    BY <1>0, <2>2 DEF CommandStates
  <2> QED BY <1>3, <2>1, <2>2
<1>5. k \in Keys /\ v <= Last /\ Follows(k, v) /\ Taken(k, v, row) /\ target["fresh"][k] = Absent
      /\ alias = "old" /\ file.index = "old"
  <2>1. k \in Keys
    BY <1>0, <1>2, CommandRange
  <2>2. ~(k <= command.done)
    BY <1>0, <1>2
  <2> QED BY <1>0, <1>2, <1>4, <2>1, <2>2 DEF FreshOK
<1>6. target' = IF row = 0 THEN target
                ELSE [target EXCEPT !["fresh"] = Put(target["fresh"], k, v, row)]
  <2>1. Filled = "fresh"
    BY <1>4 DEF Filled
  <2> QED BY <1>2, <2>1 DEF WritesRange, CopyVersion
<1>7. /\ \A j \in Keys : j # k => target'["fresh"][j] = target["fresh"][j]
      /\ target'["fresh"][k] = IF row = 0 THEN Absent ELSE [version |-> v, value |-> row]
  <2>1. CASE row = 0
    BY <1>5, <1>6, <2>1
  <2>2. CASE row # 0
    <3>1. target["fresh"] \in [Keys -> Document] /\ target'["fresh"] = Put(target["fresh"], k, v, row)
      BY <1>0, <1>6, <2>2 DEF Targets, Indexes
    <3>2. v >= target["fresh"][k].version
      BY <1>0, <1>2, <1>5 DEF Absent
    <3>3. target'["fresh"] = [target["fresh"] EXCEPT ![k] = [version |-> v, value |-> row]]
      BY <3>1, <3>2 DEF Put
    <3> QED BY <1>5, <2>2, <3>1, <3>3
  <2> QED BY <2>1, <2>2
<1>8. \A j \in Keys : Keeps(j)
  BY CommandsKeep DEF Commands, WritesRange, DeletesOrphans, At
<1>9. src' = src /\ alias' = alias /\ file' = file /\ Last' = Last
  BY DEF WritesRange, Last
<1>10. ASSUME NEW d \in Document, NEW j \in Keys, DocOK(d, j), target'["fresh"][j] = d PROVE DocOK(target["fresh"][j], j)'
  <2>1. DocOK(d, j)'
    BY <1>8, <1>10, DocKept
  <2> QED BY <1>10, <2>1
<1>11. DocOK(target["fresh"][k], k)' /\ target'["fresh"][k].version <= Last
  <2>1. Absent \in Document /\ Absent.version = 0 /\ Absent.value = 0
    BY DEF Absent, Document
  <2>2. v \in Nat /\ row \in Nat /\ Read(Absent, k, v)
    BY <1>0, <1>2, <1>5, <2>1 DEF Read
  <2>3. row = 0 => DocOK(Absent, k)
    BY <1>5, <2>1, <2>2, CopiedDoc
  <2>4. DocOK([version |-> v, value |-> row], k)
    BY <1>5, <2>1, <2>2, CopiedDoc
  <2>5. [version |-> v, value |-> row] \in Document
    BY <2>2 DEF Document
  <2>6. CASE row = 0
    BY <1>0, <1>5, <1>7, <1>10, <2>1, <2>3, <2>6
  <2>7. CASE row # 0
    BY <1>0, <1>5, <1>7, <1>10, <2>4, <2>5, <2>7
  <2> QED BY <2>6, <2>7
<1>12. \A j \in Keys : j # k => IF j <= command.done THEN DocOK(target["fresh"][j], j)' ELSE target'["fresh"][j] = Absent
  <2>1. ASSUME NEW j \in Keys, j # k PROVE IF j <= command.done THEN DocOK(target["fresh"][j], j)' ELSE target'["fresh"][j] = Absent
    <3>1. CASE j <= command.done
      <4>1. PICK d : d = target["fresh"][j]
        OBVIOUS
      <4>2. d \in Document
        BY <4>1, SeenTypes DEF Indexes
      <4>3. DocOK(d, j)
        BY <1>0, <1>4, <3>1, <4>1 DEF FreshOK
      <4> QED BY <1>7, <1>10, <2>1, <3>1, <4>1, <4>2, <4>3
    <3>2. CASE ~(j <= command.done)
      <4>1. target["fresh"][j] = Absent
        BY <1>0, <1>4, <3>2 DEF FreshOK
      <4> QED BY <1>7, <2>1, <3>2, <4>1
    <3> QED BY <3>1, <3>2
  <2> QED BY <2>1
<1>13. \A j \in Keys : j <= k <=> j <= command.done \/ j = k
  BY <1>0, <1>2 DEF Keys
<1>14. \A j \in Keys : IF j <= command'.done \/ command'.at \in {"verify", "switch"}
                       THEN DocOK(target["fresh"][j], j)' ELSE target'["fresh"][j] = Absent
  <2>1. k = KeyCount => \A j \in Keys : j <= k
    BY <1>0 DEF Keys
  <2> QED BY <1>4, <1>11, <1>12, <1>13, <2>1
<1>15. \A j \in Keys : target'["fresh"][j].version <= Last'
  BY <1>0, <1>4, <1>7, <1>9, <1>11 DEF FreshOK
<1>16. command'.at \notin {"slot", "again", "count", "range", "write", "drop"}
  BY <1>4
<1> QED BY <1>4, <1>5, <1>9, <1>14, <1>15, <1>16, FreshWaits DEF FreshOK, At

\* Every step keeps the fresh index good as far as it has come.
LEMMA FreshKept ==
  ASSUME OperationsInv, Next PROVE FreshOK'
<1>0. command \in CommandStates /\ FreshOK /\ CommandOK
  BY DEF OperationsInv, CommandType
<1>1. CASE SwitchesAlias
  <2>1. /\ command'.kind = "reindex" /\ command'.at = "drop" /\ setup' = setup
        /\ alias = "old" /\ alias' = IF setup.swaps THEN alias ELSE "fresh"
    BY <1>0, <1>1 DEF SwitchesAlias, At, CommandStates, FreshOK
  <2> QED BY <2>1, FreshWaits DEF FreshOK, At
<1>2. CASE Resnapshots \/ Reconciles \/ ScansKeys \/ FindsOrphans \/ DeletesOrphans \/ Repoints
           \/ \E drop \in BOOLEAN : DropsOld(drop)
  <2>1. CASE Resnapshots \/ Reconciles
    BY <1>0, <2>1, FreshOver DEF Resnapshots, Reconciles, Runs, NoCommand
  <2>2. CASE ScansKeys \/ FindsOrphans
    BY <1>0, <2>2, FreshOver DEF ScansKeys, FindsOrphans, At, CommandStates
  <2>3. CASE DeletesOrphans \/ Repoints \/ \E drop \in BOOLEAN : DropsOld(drop)
    BY <1>0, <2>3, FreshOver DEF DeletesOrphans, Repoints, DropsOld, NoCommand
  <2> QED BY <1>2, <2>1, <2>2, <2>3
<1>3. CASE Reindexes
  BY <1>3, FreshBegins
<1>4. CASE ReadsPosition \/ ReadsRange \/ FindsSlot \/ ReadsCheckpointAgain \/ CountsRows \/ Verifies
  BY <1>4, FreshLooks
<1> QED BY <1>1, <1>2, <1>3, <1>4, FreshWrites, FreshPipeline DEF Next, Commands

-----------------------------------------------------------------------------
(* The theorems.                                                           *)

\* The provisos, as they are stated of the constants: tombstones are kept, a section is
\* not removed while progress of its load is stored, an orphan is not inserted again
\* under a reconcile, a rebuild is started with the process stopped, and a deployment
\* whose file is edited meanwhile runs no other command than a reconcile.
Allowed ==
  /\ ~StaleProgress /\ ~ReinsertRace /\ ~LiveRebuild
  /\ \A s \in Setups : ~s.expires /\ (s.edits = 0 \/ s.commands \subseteq {"reconcile"})

\* The invariant holds at the start.
LEMMA OperationsInit ==
  ASSUME Allowed, Init PROVE OperationsInv
<1>0. KeyCount \in Nat \ {0} /\ \A s \in Setups : s \in Deployments
  BY OperationsAssumption
<1>1. PICK s \in Setups : InitOf(s)
  BY DEF Init
<1>2. s \in Deployments /\ setup = s /\ ~s.expires /\ (s.edits = 0 \/ s.commands \subseteq {"reconcile"})
  BY <1>0, <1>1 DEF InitOf, Allowed
<1>c. /\ s.configured \in BOOLEAN /\ s.flavor \in {"postgres", "mysql"}
      /\ s.commands \in SUBSET {"resnapshot", "reconcile", "reindex"}
  BY <1>2 DEF Deployments
<1>3. command = NoCommand
  BY DEF Init
<1>4. PICK one : one = [key |-> 0, put |-> TRUE, published |-> TRUE]
  OBVIOUS
<1>5. one \in Entry /\ one.key = 0
  BY <1>0, <1>4 DEF Entry
<1>6. /\ src.rows = [k \in Keys |-> IF k = 1 THEN 1 ELSE 0] /\ src.log = <<one>>
      /\ src.published = (s.configured \/ s.flavor = "mysql")
      /\ src = [rows |-> src.rows, published |-> src.published, log |-> src.log]
  BY <1>1, <1>4 DEF InitOf
<1>7. <<one>> \in Seq(Entry) /\ Len(<<one>>) = 1 /\ <<one>>[1] = one
  BY <1>5
<1>8. Last = 1 /\ src.log[1].key = 0
  BY <1>5, <1>6, <1>7 DEF Last
<1>9. /\ attempt.state = "none" /\ attempt.read = 1 /\ attempt.queue = <<>> /\ attempt.acked = 0
      /\ attempt.answered = FALSE /\ attempt.gone = [k \in Keys |-> 0] /\ ~Active
      /\ store.checkpoint = 1 /\ ~store.progress.stored /\ store.progress.done = 0
      /\ alias = "old" /\ file.index = "old" /\ live.index = "old" /\ live.up
      /\ file.section = s.configured /\ live.tables = s.configured /\ live.rules = s.configured
      /\ live.current = s.configured /\ said.synced = s.configured /\ said.strays = {} /\ reload.step = "idle"
      /\ \A l \in {"attempt", "join"} : loads[l].at = "off"
  BY <1>1 DEF InitOf, NoProgress, NoLoad, Active
<1>10. /\ \A k \in Keys : target["old"][k] = IF k = 1 /\ s.configured THEN [version |-> 1, value |-> 1] ELSE Absent
       /\ \A k \in Keys : target["fresh"][k] = Absent
  BY <1>1 DEF InitOf, Indexes
<1>11. SectionTypes
  <2>1. src \in Sources
    <3>1. src.rows \in [Keys -> Nat] /\ src.log \in Seq(Entry) /\ src.published \in BOOLEAN
      BY <1>6, <1>7, <1>c
    <3> QED BY <1>6, <3>1 DEF Sources
  <2>2. file \in ConfigFiles /\ live \in Processes
    BY <1>1, <1>c DEF InitOf, ConfigFiles, Processes, Indexes
  <2>3. attempt \in Attempts
    <3>1. <<>> \in Seq(Change) /\ [k \in Keys |-> 0] \in [Keys -> Nat]
      OBVIOUS
    <3> QED BY <1>1, <3>1 DEF InitOf, Attempts
  <2>4. store \in Stores
    BY <1>1 DEF InitOf, Stores, NoProgress
  <2>5. target \in Targets
    <3>1. target = [i \in Indexes |-> [k \in Keys |->
                    IF i = "old" /\ k = 1 /\ s.configured THEN [version |-> 1, value |-> 1] ELSE Absent]]
      BY <1>1 DEF InitOf
    <3>2. [version |-> 1, value |-> 1] \in Document /\ Absent \in Document
      BY DEF Document, Absent
    <3> QED BY <3>1, <3>2 DEF Targets
  <2>6. loads \in [{"attempt", "join"} -> Load]
    BY <1>1, NoLoadType DEF InitOf
  <2>7. reload \in ReloadTasks /\ said \in Reports /\ alias \in Indexes
    BY <1>1, <1>c DEF InitOf, ReloadTasks, Steps, Reports, Indexes
  <2> QED BY <1>2, <2>1, <2>2, <2>3, <2>4, <2>5, <2>6, <2>7 DEF SectionTypes
<1>12. CommandType /\ command.kind = "none" /\ command.at = "off"
  BY <1>3 DEF CommandType, CommandStates, NoCommand
<1>13. Provided
  BY <1>2 DEF Provided, Allowed
<1>14. QueueOK
  BY <1>8, <1>9 DEF QueueOK, PositionsOK, ChannelOK
<1>15. \A k \in Keys : Shows(k, 1, Original(k)) /\ src.rows[k] = Original(k)
  BY <1>6, <1>8 DEF Shows, Original, Keys
<1>16. SourceOK
  BY <1>8, <1>15 DEF SourceOK
<1>17. StraysOK
  BY <1>8, <1>9 DEF StraysOK, Orderly, Regular, Brings, Awaited
<1>18. ControlOK
  <2>1. Mysql => src.published
    BY <1>2, <1>6 DEF Mysql
  <2>2. s.configured => src.published
    BY <1>6
  <2>3. reload.step \notin Ahead /\ reload.step \notin {"drop", "forget", "unpublish"} /\ reload.step # "loading"
    BY <1>9 DEF Ahead
  <2>4. store.progress.done <= KeyCount
    BY <1>0, <1>9
  <2> QED BY <1>9, <2>1, <2>2, <2>3, <2>4 DEF ControlOK, Ahead
<1>19. ApartOK
  BY <1>2, <1>9, <1>12 DEF ApartOK, StaticOK
<1>20. LoadsOK
  BY <1>9 DEF LoadsOK, LoadOK
<1>21. \A k \in Keys : s.configured => DocOK(Seen(k), k)
  <2>1. ASSUME NEW k \in Keys, s.configured PROVE DocOK(Seen(k), k)
    <3>1. Seen(k).version \in {0, 1} /\ Seen(k).value = Original(k) /\ ~(Seen(k).value > Seen(k).version)
      BY <1>9, <1>10, <2>1 DEF Seen, Absent, Original
    <3>2. Follows(k, 1)
      BY <1>8 DEF Follows
    <3>3. Reflects(Seen(k), k, 1)
      BY <1>15, <3>1, <3>2 DEF Reflects
    <3> QED BY <1>8, <3>3 DEF DocOK
  <2> QED BY <2>1
<1>22. s.configured => InForce
  BY <1>6, <1>9 DEF InForce
<1>23. SyncedOK /\ ProgressOK
  BY <1>9, <1>21, <1>22 DEF SyncedOK, ProgressOK
<1>24. \A k \in Keys : Seen(k).version \in {0, 1} /\ (~s.configured => Seen(k).value = 0)
  BY <1>9, <1>10 DEF Seen, Absent
<1>25. KnownOK
  BY <1>21, <1>22, <1>24 DEF KnownOK
<1>26. VersionsOK
  BY <1>8, <1>9, <1>24 DEF VersionsOK
<1>27. CommandOK
  BY <1>c, <1>2, <1>12 DEF CommandOK, At, Copying
<1>28. FreshOK
  BY <1>9, <1>10, <1>12 DEF FreshOK, At
<1> QED BY <1>11, <1>12, <1>13, <1>14, <1>16, <1>17, <1>18, <1>19, <1>20, <1>23, <1>25, <1>26, <1>27, <1>28
       DEF OperationsInv

\* Every step keeps it.
LEMMA OperationsStep ==
  ASSUME OperationsInv, Next PROVE OperationsInv'
<1>1. SectionTypes' /\ CommandType' /\ Provided' /\ QueueOK' /\ SourceOK' /\ StraysOK' /\ ControlOK'
  BY TypesKept, ProvidedKept, QueueKept, SourceKept, StraysKept, ControlKept
<1>2. LoadsOK' /\ KnownOK' /\ SyncedOK' /\ ProgressOK' /\ VersionsOK'
  BY LoadsKept, KnownKept, SyncedKept, ProgressKept, VersionsKept
<1>3. CommandOK' /\ FreshOK' /\ ApartOK'
  BY <1>1, <1>2, CommandKept, FreshKept, ApartKept
<1> QED BY <1>1, <1>2, <1>3 DEF OperationsInv

\* It is about the state alone.
LEMMA OperationsStutter ==
  ASSUME OperationsInv, UNCHANGED vars PROVE OperationsInv'
<1>0. /\ setup' = setup /\ src' = src /\ file' = file /\ live' = live /\ attempt' = attempt /\ store' = store
      /\ target' = target /\ alias' = alias /\ reload' = reload /\ loads' = loads /\ said' = said
      /\ command' = command
  BY DEF vars, sectionVars
<1>1. SectionTypes' = SectionTypes /\ CommandType' = CommandType /\ Provided' = Provided
  BY <1>0 DEF SectionTypes, CommandType, Provided
<1>2. QueueOK' = QueueOK
  BY <1>0 DEF QueueOK, PositionsOK, ChannelOK, Carried, Last, Active
<1>3. SourceOK' = SourceOK
  BY <1>0 DEF SourceOK, Shows, Last
<1>4. StraysOK' = StraysOK
  BY <1>0 DEF StraysOK, Orderly, Regular, Brings, Awaited, Succeeds, Queued, Active, Last
<1>5. ControlOK' = ControlOK /\ ApartOK' = ApartOK
  BY <1>0 DEF ControlOK, ApartOK, StaticOK, Mysql
<1>6. ASSUME NEW k, NEW q PROVE Follows(k, q)' = Follows(k, q)
  BY <1>0 DEF Follows, InSent, Queued, Active, Last
<1>7. ASSUME NEW d, NEW k PROVE DocOK(d, k)' = DocOK(d, k)
  <2>1. ASSUME NEW q PROVE Reflects(d, k, q)' = Reflects(d, k, q)
    BY <1>0, <1>6 DEF Reflects, Shows
  <2> QED BY <1>0, <2>1 DEF DocOK, Last
<1>8. ASSUME NEW d, NEW k, NEW v PROVE Read(d, k, v)' = Read(d, k, v)
  BY <1>0, <1>6, <1>7 DEF Read, Last
<1>9. ASSUME NEW k, NEW v, NEW row PROVE Taken(k, v, row)' = Taken(k, v, row)
  BY <1>0 DEF Taken, Shows, Last
<1>10. ASSUME NEW k PROVE Seen(k)' = Seen(k) /\ DocOK(Seen(k), k)' = DocOK(Seen(k), k)
  <2>1. Seen(k)' = Seen(k)
    BY <1>0 DEF Seen
  <2>2. DocOK(Seen(k), k)' = DocOK(Seen(k), k)
    <3>1. PICK d : d = Seen(k)
      OBVIOUS
    <3> QED BY <1>7, <2>1, <3>1
  <2> QED BY <2>1, <2>2
<1>11. InForce' = InForce /\ Active' = Active /\ Last' = Last
  BY <1>0 DEF InForce, Active, Last
<1>12. SyncedOK' = SyncedOK /\ ProgressOK' = ProgressOK /\ KnownOK' = KnownOK /\ VersionsOK' = VersionsOK
  BY <1>0, <1>10, <1>11 DEF SyncedOK, ProgressOK, KnownOK, VersionsOK, Reconcilable
<1>13. ASSUME NEW k, NEW v, NEW row, NEW d
       PROVE  /\ Read(Seen(k), k, v)' = Read(Seen(k), k, v)
              /\ DocOK(target["fresh"][k], k)' = DocOK(target["fresh"][k], k)
  <2>1. PICK seen, fresh : seen = Seen(k) /\ fresh = target["fresh"][k]
    OBVIOUS
  <2> QED BY <1>0, <1>7, <1>8, <1>10, <2>1
<1>14. LoadsOK' = LoadsOK
  <2>1. ASSUME NEW l \in {"attempt", "join"} PROVE LoadOK(l)' = LoadOK(l)
    <3>1. PICK done, version, row, k : done = loads[l].done /\ version = loads[l].version /\ row = loads[l].row /\ k = done + 1
      OBVIOUS
    <3>2. loads'[l].done = done /\ loads'[l].version = version /\ loads'[l].row = row
      BY <1>0, <3>1
    <3> QED BY <1>0, <1>9, <1>10, <1>11, <1>13, <3>1, <3>2 DEF LoadOK
  <2> QED BY <2>1 DEF LoadsOK
<1>15. CommandOK' = CommandOK /\ FreshOK' = FreshOK
  <2>1. PICK done, version, row, k : done = command.done /\ version = command.version /\ row = command.row /\ k = done + 1
    OBVIOUS
  <2>2. command'.done = done /\ command'.version = version /\ command'.row = row
    BY <1>0, <2>1
  <2>3. At("reconcile", "delete")' = At("reconcile", "delete") /\ At("reindex", "drop")' = At("reindex", "drop")
        /\ Copying' = Copying /\ Mysql' = Mysql
    BY <1>0 DEF At, Copying, Mysql
  <2>4. CommandOK' = CommandOK
    BY <1>0, <1>9, <1>13, <2>1, <2>2, <2>3 DEF CommandOK
  <2>5. FreshOK' = FreshOK
    BY <1>0, <1>6, <1>9, <1>11, <1>13, <2>1, <2>2, <2>3 DEF FreshOK
  <2> QED BY <2>4, <2>5
<1> QED BY <1>1, <1>2, <1>3, <1>4, <1>5, <1>12, <1>14, <1>15 DEF OperationsInv

\* The invariant of the joining table and the commands (reload.rs, run.rs,
\* reindex.rs, resnapshot.rs, reconcile.rs), whatever the number of keys, changes, edits,
\* failures and crashes.
THEOREM OperationsInvariant ==
  ASSUME Allowed PROVE Spec => []OperationsInv
<1>1. Init => OperationsInv
  BY OperationsInit
<1>2. OperationsInv /\ [Next]_vars => OperationsInv'
  BY OperationsStep, OperationsStutter
<1> QED BY <1>1, <1>2, PTL DEF Spec

\* Two descriptions of the same table agree.
LEMMA ShowsOne ==
  ASSUME OperationsInv, NEW k, NEW q \in Nat, q <= Last, \A j \in q + 1 .. Last : src.log[j].key # k,
         NEW x, NEW y, Shows(k, q, x), Shows(k, Last, y)
  PROVE  x = y
<1>1. PICK n : n = Last /\ n \in Nat
  BY Fields
<1>2. PICK log : log = src.log
  OBVIOUS
<1>3. \/ \E i \in 1 .. q : /\ log[i].key = k /\ x = (IF log[i].put THEN i ELSE 0)
                           /\ \A j \in i + 1 .. q : log[j].key # k
      \/ (\A j \in 1 .. q : log[j].key # k) /\ x = Original(k)
  BY <1>2 DEF Shows
<1>4. \/ \E i \in 1 .. n : /\ log[i].key = k /\ y = (IF log[i].put THEN i ELSE 0)
                           /\ \A j \in i + 1 .. n : log[j].key # k
      \/ (\A j \in 1 .. n : log[j].key # k) /\ y = Original(k)
  BY <1>1, <1>2 DEF Shows
<1>5. q <= n /\ \A j \in q + 1 .. n : log[j].key # k
  BY <1>1, <1>2
<1> HIDE DEF Last
<1>6. ASSUME NEW i \in 1 .. q, log[i].key = k, \A j \in i + 1 .. q : log[j].key # k, x = IF log[i].put THEN i ELSE 0
      PROVE  x = y
  <2>1. PICK m \in 1 .. n : /\ log[m].key = k /\ y = (IF log[m].put THEN m ELSE 0)
                            /\ \A j \in m + 1 .. n : log[j].key # k
    BY ONLY <1>1, <1>4, <1>5, <1>6
  <2>2. ~(i < m) /\ ~(m < i)
    BY ONLY <1>1, <1>5, <1>6, <2>1
  <2>3. i = m
    BY ONLY <1>1, <1>5, <1>6, <2>1, <2>2
  <2> QED BY ONLY <1>6, <2>1, <2>3
<1>7. ASSUME \A j \in 1 .. q : log[j].key # k, x = Original(k) PROVE x = y
  <2>1. \A m \in 1 .. n : log[m].key # k
    BY ONLY <1>1, <1>5, <1>7
  <2> QED BY ONLY <1>4, <1>7, <2>1
<1> QED BY <1>3, <1>6, <1>7

\* A drained stream has brought everything: the documents show the rows.
LEMMA DrainedShows ==
  ASSUME OperationsInv, Drained, said.synced, NEW k \in Keys
  PROVE  Seen(k).value = src.rows[k] \/ (k \in said.strays /\ src.rows[k] = 0)
<1>0. Last \in Nat /\ SourceOK /\ attempt.read = Last /\ attempt.queue = <<>> /\ Active
  BY Fields DEF OperationsInv, Drained, Active, Last
<1>1. \A j \in 1 .. Last : ~InSent(k, j)
  BY <1>0 DEF InSent, Queued
<1>2. PICK q \in 1 .. Last : Reflects(Seen(k), k, q)
  BY DEF OperationsInv, SyncedOK, DocOK
<1>3. \A j \in q + 1 .. Last : src.log[j].key # k
  BY <1>0, <1>1, <1>2 DEF Reflects, Follows
<1>4. Shows(k, Last, src.rows[k])
  BY <1>0 DEF SourceOK
<1>5. CASE Shows(k, q, Seen(k).value)
  BY <1>0, <1>3, <1>4, <1>5, ShowsOne
<1>6. CASE k \in said.strays /\ Shows(k, q, 0)
  BY <1>0, <1>3, <1>4, <1>6, ShowsOne
<1> QED BY <1>2, <1>5, <1>6 DEF Reflects

\* Once the table is said to be synced and the stream is drained, every row is in the
\* readers' index as it is: add_table_* publishes before it reads, waits for the stream
\* to pass that point, and versions what it reads by a position taken before it.
THEOREM JoinLosesNothing ==
  ASSUME Allowed PROVE Spec => []JoinedIsSynced
<1>1. OperationsInv => JoinedIsSynced
  BY DrainedShows DEF JoinedIsSynced, Rows, Seen
<1> QED BY <1>1, OperationsInvariant, PTL

\* The only documents without a row are those the section left behind: a row that a
\* load, a re-snapshot or a replay brings late loses to the delete by its version, or
\* to the window on removed keys.
THEOREM NothingComesBack ==
  ASSUME Allowed PROVE Spec => []OnlyKnownStrays
<1>1. OperationsInv => OnlyKnownStrays
  BY DrainedShows DEF OnlyKnownStrays, Documents, Rows, Seen
<1> QED BY <1>1, OperationsInvariant, PTL

\* What Newest chooses.
LEMMA NewestIs ==
  ASSUME NEW k, NEW position \in Nat
  PROVE  /\ Newest(k, position) # 0 => /\ Newest(k, position) \in 1 .. position
                                       /\ src.log[Newest(k, position)].key = k
         /\ \A j \in 1 .. position : src.log[j].key = k => j <= Newest(k, position)
<1> DEFINE at == {i \in 1 .. position : src.log[i].key = k}
           Less == {p \in Nat \X Nat : p[1] < p[2]}
           left == {position - i : i \in at}
<1>1. CASE at = {}
  BY <1>1 DEF Newest
<1>2. CASE at # {}
  <2>1. IsWellFoundedOn(Less, Nat)
    BY NatLessThanWellFounded DEF OpToRel
  <2>2. left \subseteq Nat /\ left # {}
    BY <1>2
  <2>3. PICK x \in left : \A y \in left : <<y, x>> \notin Less
    <3> HIDE DEF Less, left
    <3> QED BY <2>1, <2>2, WFMin
  <2>4. PICK i \in at : x = position - i
    OBVIOUS
  <2>5. \A j \in at : j <= i
    <3>1. ASSUME NEW j \in at PROVE j <= i
      <4>1. position - j \in left /\ position - j \in Nat /\ x \in Nat
        BY <2>2
      <4>2. ~(position - j < x)
        BY <2>3, <4>1
      <4> QED BY <2>4, <4>2
    <3> QED BY <3>1
  <2>6. Newest(k, position) \in at /\ \A j \in at : j <= Newest(k, position)
    <3>1. Newest(k, position) = CHOOSE m \in at : \A j \in at : j <= m
      BY <1>2 DEF Newest
    <3> HIDE DEF at
    <3> QED BY <2>5, <3>1
  <2> QED BY <2>6
<1> QED BY <1>1, <1>2

\* Also while a reconnect is replaying: only a forgotten tombstone makes a replay visible.
LEMMA AcknowledgedShows ==
  ASSUME OperationsInv, said.synced, NEW k \in Keys, NEW i, i = Newest(k, attempt.acked), i # 0
  PROVE  IF src.log[i].put
         THEN Seen(k).value >= i \/ (DeletedSince(k, i) /\ (Seen(k).value = 0 \/ k \in said.strays))
         ELSE Seen(k).value = 0 \/ Seen(k).value > i \/ k \in said.strays
<1>0. Last \in Nat /\ attempt.acked \in Nat /\ attempt.acked <= Last
  BY Fields DEF OperationsInv, QueueOK, PositionsOK
<1>1. i \in 1 .. attempt.acked /\ src.log[i].key = k
  BY <1>0, NewestIs
<1>2. PICK q \in 1 .. Last : Reflects(Seen(k), k, q)
  BY DEF OperationsInv, SyncedOK, DocOK
<1>3. i <= q
  <2>1. ~InSent(k, i)
    BY <1>0, <1>1 DEF InSent
  <2> QED BY <1>0, <1>1, <1>2, <2>1 DEF Reflects, Follows
<1>4. ASSUME NEW x, Shows(k, q, x)
      PROVE  IF src.log[i].put THEN x = i \/ x > i \/ (DeletedSince(k, i) /\ x = 0) ELSE x = 0 \/ x > i
  <2>1. PICK m \in 1 .. q : /\ src.log[m].key = k /\ x = (IF src.log[m].put THEN m ELSE 0)
                            /\ \A j \in m + 1 .. q : src.log[j].key # k
    BY <1>0, <1>1, <1>2, <1>3, <1>4 DEF Shows
  <2>2. m >= i
    BY <1>0, <1>1, <1>3, <2>1
  <2>3. m # i /\ ~src.log[m].put => DeletedSince(k, i)
    BY <1>0, <1>1, <1>2, <2>1, <2>2 DEF DeletedSince, Last
  <2> QED BY <1>0, <1>1, <2>1, <2>2, <2>3
<1>5. CASE Shows(k, q, Seen(k).value)
  <2>1. PICK x : x = Seen(k).value
    OBVIOUS
  <2>2. x \in Nat
    BY <2>1, SeenTypes DEF Document
  <2>3. IF src.log[i].put THEN x = i \/ x > i \/ (DeletedSince(k, i) /\ x = 0) ELSE x = 0 \/ x > i
    BY <1>4, <1>5, <2>1
  <2> QED BY <1>0, <1>1, <2>1, <2>2, <2>3
<1>6. CASE k \in said.strays /\ Shows(k, q, 0)
  <2>1. Seen(k).value \in Nat
    BY SeenTypes DEF Document
  <2>2. IF src.log[i].put THEN 0 = i \/ 0 > i \/ DeletedSince(k, i) ELSE TRUE
    BY <1>4, <1>6
  <2> QED BY <1>0, <1>1, <1>6, <2>1, <2>2
<1> QED BY <1>2, <1>5, <1>6 DEF Reflects

\* Read your writes: what /synced answers yes to is what the readers see, or older
\* than what they see.
THEOREM SyncedIsReadable ==
  ASSUME Allowed PROVE Spec => []SyncedIsApplied
<1>1. OperationsInv => SyncedIsApplied
  <2>1. SUFFICES ASSUME OperationsInv, live.up, live.rules, said.synced, NEW k \in Keys, Newest(k, attempt.acked) # 0
                 PROVE  LET i == Newest(k, attempt.acked)
                            value == target[live.index][k].value
                        IN IF src.log[i].put
                           THEN value >= i \/ (DeletedSince(k, i) /\ (value = 0 \/ k \in said.strays))
                           ELSE value = 0 \/ value > i \/ k \in said.strays
    BY DEF SyncedIsApplied
  <2>2. target[live.index][k] = Seen(k)
    BY <2>1 DEF OperationsInv, ControlOK, Seen
  <2> QED BY <2>1, <2>2, AcknowledgedShows
<1> QED BY <1>1, OperationsInvariant, PTL
=============================================================================
