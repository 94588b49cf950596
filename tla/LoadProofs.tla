----------------------------- MODULE LoadProofs -----------------------------
(***************************************************************************)
(* The initial load, beside the stream and across attempts: the stored     *)
(* progress never claims a range whose rows are not in the target, and no  *)
(* attempt streams on as if a table were loaded that is not.               *)
(*                                                                         *)
(* A row that was copied is on the load's channel, in the buffer, in a     *)
(* command, or in the target, unless the stream has removed its id.  A     *)
(* mark leaves the engine behind all of them, so that by the contract of   *)
(* the sink side they are in the target when it comes back.  That an id    *)
(* stays there takes more: the target forgets tombstones, and those must   *)
(* be of rows the stream has removed.                                      *)
(*                                                                         *)
(* Under the policy "quarantine" a refused row counts as loaded once it is *)
(* filed, so that what is said here is of the policy "halt".               *)
(***************************************************************************)
EXTENDS PipelineProofs

-----------------------------------------------------------------------------
(* The invariant, part by part.                                            *)

Cleared == \E k \in 1 .. Len(wal) : \E j \in DOMAIN wal[k] : wal[k][j].kind = "truncate"

\* The source has removed the row of id, or every row.
Gone(id) ==
  \E k \in 1 .. Len(wal) : \E j \in DOMAIN wal[k] :
    wal[k][j].kind = "truncate" \/ wal[k][j] = [kind |-> "delete", id |-> id]

Present(id) == docs[id].ver > 0 \/ Gone(id)

\* Operations have versions, and delete only what the source has removed.
OpsOK(ops) ==
  \A m \in DOMAIN ops : ops[m].ver > 0 /\ (ops[m].val = Absent => Gone(ops[m].id))

CommandsOK ==
  /\ OpsOK(buffer)
  /\ \A i \in DOMAIN sent : OpsOK(sent[i].ops) /\ (sent[i].kind = "truncate" => Cleared)
  /\ \A ops \in orphans : OpsOK(ops)
  /\ \A x \in DOMAIN copyq : copyq[x].ev = "row" => copyq[x].op.ver > 0

\* What is missing was removed: from the table, from the target, and from the
\* copied rows the engine lets pass.
RemovedOK ==
  /\ \A k \in 0 .. Len(wal) : \A id \in Ids : rows[k][id] = Absent => Gone(id)
  /\ \A id \in Ids : docs[id].val = Absent /\ docs[id].ver > 0 => Gone(id)
  /\ \A id \in Ids : superseded[id] > 0 => Gone(id)
  /\ cleared > 0 => Cleared

\* Without a quarantine, what is settled was executed.
ExecutedOK == \A s \in settled : Present(sent[s[1]].ops[s[2]].id)

\* Where a copied row can be.
InOf(ops, id) == \E m \in DOMAIN ops : ops[m].id = id
OnChannel(id) == \E x \in DOMAIN copyq : copyq[x].ev = "row" /\ copyq[x].op.id = id
SentBy(n, id) == Present(id) \/ \E i \in 1 .. n : InOf(sent[i].ops, id)

WaveOK ==
  /\ load.pc \in {"read", "wait"} => \A id \in load.copied :
       SentBy(Len(sent), id) \/ InOf(buffer, id) \/ OnChannel(id)
  /\ load.pc = "wait" =>
       /\ load.copied = Waves[load.wave] /\ load.mark > 0
       /\ \A n \in DOMAIN sent : sent[n].kind = "mark" /\ sent[n].pos = load.mark =>
            \A id \in load.copied : SentBy(n, id)

\* Where the load is and what its progress says.
ProgressOK ==
  /\ load.pc = "start" => load.copied = {}
  /\ load.pc \in {"read", "wait"} => load.wave = progress.done + 1
  /\ load.pc = "finish" \/ progress.finished => progress.done = Len(Waves)
  /\ load.pc = "clear" => progress.finished

\* Without progress the load has not begun, or is over.
NotSkippedOK ==
  /\ LoadIsNotSkipped
  /\ ~progress.stored => load.pc \in {"start", "report", "done"}

LoadInv ==
  /\ CommandsOK /\ RemovedOK /\ ExecutedOK /\ WaveOK /\ ProgressOK /\ ClaimedIsLoaded
  /\ CrashBeforeProgress \/ NotSkippedOK

-----------------------------------------------------------------------------
(* What is present stays present.                                          *)

WalGrows == wal' = wal \/ \E t \in TxnShapes : wal' = Append(wal, t)

\* The log only grows.
LEMMA WalKept ==
  ASSUME SourceOK, WalGrows, NEW k \in 1 .. Len(wal)
  PROVE  k \in 1 .. Len(wal') /\ wal'[k] = wal[k]
<1>1. ASSUME NEW t \in TxnShapes, wal' = Append(wal, t)
      PROVE  k \in 1 .. Len(wal') /\ wal'[k] = wal[k]
  BY <1>1 DEF SourceOK
<1> QED
  BY <1>1 DEF WalGrows

\* What is gone stays gone.
LEMMA GoneStays ==
  ASSUME SourceOK, WalGrows
  PROVE  /\ Cleared => Cleared'
         /\ \A id : Gone(id) => Gone(id)'
BY WalKept DEF Cleared, Gone

\* A truncation removes every row.
LEMMA ClearedGone == ASSUME Cleared, NEW id PROVE Gone(id)
BY DEF Cleared, Gone

\* A step that drops a document drops one of a row that is gone, and so is every
\* row it deletes.
DocsMove ==
  \A id \in Ids :
    /\ docs[id].ver > 0 => docs'[id].ver > 0 \/ Gone(id)
    /\ docs'[id].val = Absent /\ docs'[id].ver > 0 => Gone(id)

\* What was present is so afterwards.
LEMMA PresentStays ==
  ASSUME SourceOK, WalGrows, DocsMove, NEW id \in Ids, Present(id) PROVE Present(id)'
BY GoneStays DEF DocsMove, Present

\* A request gives every id it writes a version, and lowers none.
LEMMA WriteKeeps ==
  ASSUME NEW d \in Docs, NEW ops \in Seq(Op), NEW S \in SUBSET (DOMAIN ops), OpsOK(ops),
         NEW id \in Ids
  PROVE  /\ d[id].ver > 0 \/ (\E j \in S : ops[j].id = id) => Write(d, ops, S)[id].ver > 0
         /\ Write(d, ops, S)[id].val = Absent /\ Write(d, ops, S)[id].ver > 0 =>
              (d[id].val = Absent /\ d[id].ver > 0) \/ Gone(id)
<1>1. d[id].ver \in Nat /\ \A j \in S : ops[j].ver \in Nat /\ ops[j].ver > 0
  <2>1. d[id] \in Doc /\ \A j \in S : ops[j] \in Op
    BY DEF Docs
  <2> QED
    BY <2>1 DEF Doc, Op, OpsOK
<1>2. CASE WroteNothing(d, ops, S, id)
  BY <1>1, <1>2 DEF WroteNothing
<1>3. CASE \E k \in S : WroteLast(d, ops, S, id, k)
  <2>1. PICK k \in S : WroteLast(d, ops, S, id, k)
    BY <1>3
  <2>2. /\ ops[k].id = id /\ Write(d, ops, S)[id].val = ops[k].val
        /\ Write(d, ops, S)[id].ver = ops[k].ver
    BY <2>1 DEF WroteLast
  <2> QED
    BY <1>1, <2>2 DEF OpsOK
<1> QED
  BY <1>2, <1>3, WriteEffect

\* Clearing an index keeps versions too.
LEMMA TruncateKeeps ==
  ASSUME NEW d \in Docs, NEW ver \in Nat, NEW S, NEW id \in Ids, Cleared
  PROVE  /\ d[id].ver > 0 => Truncate(d, ver, S)[id].ver > 0
         /\ Gone(id)
<1>1. d[id] \in Doc /\ d[id].ver \in Nat
  BY DEF Docs, Doc
<1> QED
  BY <1>1, ClearedGone DEF Truncate

\* A step of the source, the tasks or the target: the engine and the load stand
\* still, and what is settled was executed.
LEMMA TargetMoves ==
  ASSUME PipelineInv, LoadInv, WalGrows, DocsMove,
         UNCHANGED <<sent, buffer, copyq, loadVars, superseded, cleared>>,
         orphans' \subseteq orphans,
         \A k \in 0 .. Len(wal') : \A id \in Ids : rows'[k][id] = Absent => Gone(id)',
         \A s \in settled' : s \in settled \/ Present(sent[s[1]].ops[s[2]].id)'
  PROVE  LoadInv'
<1> USE DEF PipelineInv, LoadInv
<1>1. Cleared => Cleared'
  BY GoneStays
<1>2. \A id : Gone(id) => Gone(id)'
  BY GoneStays
<1>3. \A id \in Ids : Present(id) => Present(id)'
  BY PresentStays
<1>4. CommandsOK'
  BY <1>1, <1>2 DEF CommandsOK, OpsOK
<1>5. RemovedOK'
  BY <1>1, <1>2 DEF RemovedOK, DocsMove
<1>6. ExecutedOK'
  <2> SUFFICES ASSUME NEW s \in settled' PROVE Present(sent[s[1]].ops[s[2]].id)'
    BY DEF ExecutedOK
  <2>1. CASE s \in settled
    <3>1. sent[s[1]].ops[s[2]].id \in Ids
      <4>1. s[1] \in DOMAIN sent /\ s[2] \in DOMAIN sent[s[1]].ops
        BY <2>1 DEF CrashOK, Positions
      <4>2. sent[s[1]].ops \in Seq(Op)
        BY <4>1, SentType
      <4>3. sent[s[1]].ops[s[2]] \in Op
        BY <4>1, <4>2
      <4> QED
        BY <4>3 DEF Op
    <3> QED
      BY <1>3, <2>1, <3>1 DEF ExecutedOK
  <2> QED
    BY <2>1
<1>7. load.copied \subseteq Ids /\ \A w \in DOMAIN Waves : Waves[w] \subseteq Ids
  BY PipelineAssumption DEF LoadOK
<1>8. ASSUME NEW n, NEW id \in Ids, SentBy(n, id) PROVE SentBy(n, id)'
  BY <1>3, <1>8 DEF SentBy, InOf
<1>9. WaveOK'
  <2>1. \A id \in Ids : /\ InOf(buffer, id) => InOf(buffer, id)'
                        /\ OnChannel(id) => OnChannel(id)'
                        /\ SentBy(Len(sent), id) => SentBy(Len(sent), id)'
    BY <1>3 DEF InOf, OnChannel, SentBy
  <2> QED
    BY <1>7, <1>8, <2>1 DEF WaveOK, loadVars
<1>10. \A w \in DOMAIN Waves : Loaded(w) => Loaded(w)'
  BY <1>3, <1>7 DEF Loaded, Present, Gone
<1>11. ClaimedIsLoaded'
  BY <1>10, PipelineAssumption DEF ClaimedIsLoaded, loadVars, LoadOK
<1>12. ProgressOK' /\ (NotSkippedOK => NotSkippedOK')
  BY <1>10 DEF ProgressOK, NotSkippedOK, LoadIsNotSkipped, loadVars
<1> QED
  BY <1>4, <1>5, <1>6, <1>9, <1>11, <1>12

-----------------------------------------------------------------------------
(* The source.                                                             *)

\* A transaction that leaves no row has removed it, or found none.
LEMMA TouchedGone ==
  ASSUME NEW t \in TxnShapes, NEW k \in 1 .. MaxTxns, NEW j \in 0 .. Len(t),
         NEW before \in [Ids -> Vals \cup {Absent}], NEW id \in Ids,
         Touched(before, t, k, j, id) = Absent
  PROVE  \/ before[id] = Absent
         \/ \E i \in DOMAIN t : t[i].kind = "truncate" \/ t[i] = [kind |-> "delete", id |-> id]
<1> DEFINE S == {i \in 1 .. j : t[i].kind = "truncate" \/ t[i].id = id}
           W == {i \in S : t[i].kind # "touch"}
           Last(T) == CHOOSE i \in T : \A m \in T : m <= i
           base == IF W = {} THEN before[id]
                   ELSE IF t[Last(W)].kind = "upsert" THEN Body(<<k, Last(W)>>, <<k, Last(W)>>)
                   ELSE Absent
<1>1. t \in Seq(Change) /\ Len(t) \in Nat /\ DOMAIN t = 1 .. Len(t) /\ j \in Nat
  BY PipelineAssumption
<1>2. ASSUME NEW T \in SUBSET (1 .. j), T # {} PROVE Last(T) \in T /\ Last(T) \in DOMAIN t
  <2>1. Last(T) \in T /\ Last(T) \in 1 .. j
    BY <1>1, <1>2, LastOf
  <2> QED
    BY <1>1, <2>1
<1>3. W # {} => Last(W) \in W /\ Last(W) \in DOMAIN t
  <2>1. W \in SUBSET (1 .. j)
    OBVIOUS
  <2> QED
    BY <1>2, <2>1
<1>4. S # {} => Last(S) \in DOMAIN t
  <2>1. S \in SUBSET (1 .. j)
    OBVIOUS
  <2> QED
    BY <1>2, <2>1
<1>5. Touched(before, t, k, j, id) =
        IF S = {} \/ base = Absent \/ t[Last(S)].kind # "touch" THEN base
        ELSE [base EXCEPT !.c = <<k, Last(S)>>]
  BY DEF Touched
<1>6. base = Absent
  <2>1. CASE S = {} \/ base = Absent \/ t[Last(S)].kind # "touch"
    <3> HIDE DEF base, S, Last
    <3> QED
      BY <1>5, <2>1
  <2>2. CASE ~(S = {} \/ base = Absent \/ t[Last(S)].kind # "touch")
    <3>1. S # {} /\ base # Absent
      BY <2>2
    <3>2. Last(S) \in DOMAIN t
      BY <1>4, <3>1
    <3>3. base \in Vals
      <4>1. CASE W = {}
        BY <3>1, <4>1
      <4>2. CASE W # {}
        <5>1. t[Last(W)].kind = "upsert" /\ base = Body(<<k, Last(W)>>, <<k, Last(W)>>)
          BY <3>1, <4>2
        <5>2. Last(W) \in DOMAIN t
          BY <1>3, <4>2
        <5> HIDE DEF base, W, Last
        <5> QED
          BY <5>1, <5>2, BodiesAssumption
      <4> QED
        BY <4>1, <4>2
    <3> HIDE DEF base, S, Last
    <3>4. [base EXCEPT !.c = <<k, Last(S)>>] = Body(<<k, Last(S)>>, base.big)
      BY <3>3, BodiesAssumption DEF Body
    <3>5. Body(<<k, Last(S)>>, base.big) \in Vals
      BY <3>2, <3>3, BodiesAssumption
    <3> QED
      BY <1>5, <2>2, <3>4, <3>5, AbsentIsNoBody
  <2> QED
    BY <2>1, <2>2
<1>7. CASE W = {}
  BY <1>6, <1>7
<1>8. CASE W # {}
  <2>1. Last(W) \in W /\ Last(W) \in DOMAIN t
    BY <1>3, <1>8
  <2>2. t[Last(W)].kind # "upsert"
    <3> SUFFICES ASSUME t[Last(W)].kind = "upsert" PROVE FALSE
      OBVIOUS
    <3>1. base = Body(<<k, Last(W)>>, <<k, Last(W)>>)
      BY <1>8
    <3> HIDE DEF base, W, Last
    <3> QED
      BY <1>6, <2>1, <3>1, BodiesAssumption, AbsentIsNoBody
  <2>3. PICK i \in DOMAIN t : i = Last(W) /\ i \in W
    BY <2>1
  <2>4. /\ t[i].kind # "touch" /\ t[i].kind # "upsert"
        /\ t[i].kind = "truncate" \/ t[i].id = id
    BY <2>2, <2>3
  <2>5. t[i] \in Change
    <3> HIDE DEF base, S, W, Last
    <3> QED
      BY <1>1
  <2>6. t[i].kind = "truncate" \/ t[i] = [kind |-> "delete", id |-> id]
    BY <2>4, <2>5 DEF Change
  <2> QED
    BY <2>6
<1> QED
  BY <1>7, <1>8

\* A new transaction removes the rows it leaves none of.
LEMMA CommitLoads == ASSUME PipelineInv, LoadInv, SourceCommits PROVE LoadInv'
<1> USE DEF PipelineInv, LoadInv
<1>1. PICK t \in TxnShapes :
        /\ Len(wal) < MaxTxns /\ wal' = Append(wal, t)
        /\ rows' = [k \in 0 .. Len(wal) + 1 |->
                      IF k <= Len(wal) THEN rows[k]
                      ELSE [id \in Ids |-> Touched(rows[Len(wal)], t, k, Len(t), id)]]
  BY DEF SourceCommits
<1>2. UNCHANGED <<sent, docs, settled, engineVars, copyq, loadVars, orphans>>
  BY DEF SourceCommits, taskVars, targetVars, crashVars
<1>3. /\ Len(wal) \in Nat /\ Len(wal') = Len(wal) + 1 /\ wal'[Len(wal) + 1] = t
      /\ t \in Seq(Change) /\ Len(t) \in Nat
  BY <1>1, PipelineAssumption DEF SourceOK
<1>4. WalGrows
  BY <1>1 DEF WalGrows
<1>5. \A k \in 0 .. Len(wal') : \A id \in Ids : rows'[k][id] = Absent => Gone(id)'
  <2> SUFFICES ASSUME NEW k \in 0 .. Len(wal) + 1, NEW id \in Ids, rows'[k][id] = Absent
               PROVE  Gone(id)'
    BY <1>3
  <2>1. \A x \in 0 .. Len(wal) : rows[x][id] = Absent => Gone(id)'
    BY <1>4, GoneStays DEF RemovedOK
  <2>2. CASE k <= Len(wal)
    <3>1. rows'[k] = rows[k] /\ k \in 0 .. Len(wal)
      BY <1>1, <1>3, <2>2
    <3> QED
      BY <2>1, <3>1
  <2>3. CASE k = Len(wal) + 1
    <3>1. rows'[k] = [x \in Ids |-> Touched(rows[Len(wal)], t, k, Len(t), x)]
      BY <1>1, <1>3, <2>3
    <3>2. Touched(rows[Len(wal)], t, k, Len(t), id) = Absent
      BY <3>1
    <3>3. rows[Len(wal)] \in [Ids -> Vals \cup {Absent}] /\ Len(wal) \in 0 .. Len(wal)
      BY <1>3 DEF SourceOK
    <3>4. k \in 1 .. MaxTxns /\ Len(t) \in 0 .. Len(t)
      BY <1>1, <1>3, <2>3, PipelineAssumption
    <3>5. CASE rows[Len(wal)][id] = Absent
      BY <2>1, <3>3, <3>5
    <3>6. CASE \E i \in DOMAIN t : t[i].kind = "truncate" \/ t[i] = [kind |-> "delete", id |-> id]
      <4>1. k \in 1 .. Len(wal') /\ wal'[k] = t
        BY <1>3, <2>3
      <4> QED
        BY <3>6, <4>1 DEF Gone
    <3> QED
      BY <3>2, <3>3, <3>4, <3>5, <3>6, TouchedGone
  <2> QED
    BY <1>3, <2>2, <2>3
<1>6. DocsMove
  BY <1>2 DEF DocsMove, RemovedOK
<1> QED
  BY <1>2, <1>4, <1>5, <1>6, TargetMoves DEF engineVars

\* A commit becomes visible, or the slot is confirmed.
LEMMA SourceLoads == ASSUME PipelineInv, LoadInv, BecomesVisible \/ ConfirmSlot PROVE LoadInv'
<1> USE DEF PipelineInv, LoadInv
<1>1. UNCHANGED <<sent, docs, settled, wal, rows, engineVars, copyq, loadVars, orphans>>
  BY DEF BecomesVisible, ConfirmSlot, taskVars, targetVars, crashVars
<1>2. WalGrows /\ DocsMove
  BY <1>1 DEF WalGrows, DocsMove, RemovedOK
<1>3. \A k \in 0 .. Len(wal') : \A id \in Ids : rows'[k][id] = Absent => Gone(id)'
  BY <1>1, <1>2, GoneStays DEF RemovedOK
<1> QED
  BY <1>1, <1>2, <1>3, TargetMoves DEF engineVars

-----------------------------------------------------------------------------
(* The target.                                                             *)

\* Requests of an aborted attempt land, or a tombstone is forgotten.
LEMMA LeftoversLoad ==
  ASSUME PipelineInv, LoadInv, OrphanLands \/ TargetForgets PROVE LoadInv'
<1> USE DEF PipelineInv, LoadInv
<1>1. /\ UNCHANGED <<sent, settled, wal, rows, engineVars, copyq, loadVars>>
      /\ orphans' \subseteq orphans
  BY DEF OrphanLands, TargetForgets, channelVars, sourceVars, crashVars
<1>2. docs \in Docs
  BY DEF DeliveryInv, DeliveryTypeOK
<1>3. DocsMove
  <2>1. CASE OrphanLands
    <3>1. PICK ops \in orphans : \E S \in SUBSET DOMAIN ops : docs' = Write(docs, ops, S)
      BY <2>1 DEF OrphanLands
    <3>2. ops \in Seq(Op) /\ OpsOK(ops)
      BY <3>1 DEF CrashOK, CommandsOK
    <3> QED
      BY <1>2, <3>1, <3>2, WriteKeeps DEF DocsMove, RemovedOK
  <2>2. CASE TargetForgets
    <3>1. PICK id \in Ids : IsTombstone(docs[id]) /\ docs' = Collect(docs, id)
      BY <2>2 DEF TargetForgets
    <3>2. Gone(id)
      BY <3>1 DEF IsTombstone, RemovedOK
    <3>3. docs'[id] = NoDoc /\ \A x \in Ids : x # id => docs'[x] = docs[x]
      BY <1>2, <3>1 DEF Collect, Docs
    <3> QED
      BY <3>2, <3>3 DEF DocsMove, RemovedOK, NoDoc
  <2> QED
    BY <2>1, <2>2
<1>4. WalGrows
  BY <1>1 DEF WalGrows
<1>5. \A k \in 0 .. Len(wal') : \A id \in Ids : rows'[k][id] = Absent => Gone(id)'
  BY <1>1, <1>4, GoneStays DEF RemovedOK
<1> QED
  BY <1>1, <1>3, <1>4, <1>5, TargetMoves DEF engineVars

\* A request that was answered has put every row it carries into the target.
LEMMA AnswerLoads ==
  ASSUME PipelineInv, LoadInv, UNCHANGED <<sent, wal>>, NEW i \in DOMAIN sent,
         NEW S \in SUBSET Positions(i),
         docs' = Write(docs, sent[i].ops, S)
  PROVE  DocsMove /\ \A s \in OpsOf(i, S) : Present(sent[s[1]].ops[s[2]].id)'
<1> USE DEF PipelineInv, LoadInv
<1>1. docs \in Docs /\ sent[i].ops \in Seq(Op) /\ OpsOK(sent[i].ops) /\ S \in SUBSET DOMAIN sent[i].ops
  BY SentType DEF DeliveryInv, DeliveryTypeOK, CommandsOK, Positions
<1>2. DocsMove
  BY <1>1, WriteKeeps DEF DocsMove, RemovedOK
<1>3. ASSUME NEW m \in S PROVE Present(sent[i].ops[m].id)'
  <2>1. sent[i].ops[m] \in Op
    BY <1>1
  <2>2. PICK id \in Ids : id = sent[i].ops[m].id
    BY <2>1 DEF Op
  <2>3. docs'[id].ver > 0
    BY <1>1, <2>2, WriteKeeps
  <2> QED
    BY <2>2, <2>3 DEF Present
<1>4. \A s \in OpsOf(i, S) : s[1] = i /\ s[2] \in S
  BY DEF OpsOf
<1> QED
  BY <1>2, <1>3, <1>4

\* Without a quarantine, nothing else settles an operation.
LEMMA TasksLoad ==
  ASSUME Policy = "halt", PipelineInv, LoadInv, TasksStep \/ Shutdown PROVE LoadInv'
<1> USE DEF PipelineInv, LoadInv
<1>1. /\ UNCHANGED <<wal, rows, engineVars, copyq, loadVars, orphans>>
      /\ WalGrows
  BY DEF TasksStep, Shutdown, sourceVars, crashVars, WalGrows
<1>2. \A k \in 0 .. Len(wal') : \A id \in Ids : rows'[k][id] = Absent => Gone(id)'
  BY <1>1, GoneStays DEF RemovedOK
<1>3. SUFFICES /\ sent' = sent /\ DocsMove
               /\ \A s \in settled' : s \in settled \/ Present(sent[s[1]].ops[s[2]].id)'
  BY <1>1, <1>2, TargetMoves DEF engineVars
<1>4. docs' = docs => DocsMove
  BY DEF DocsMove, RemovedOK
<1> USE DEF channelVars, accountVars, targetVars, ckptDocVars
<1>5. CASE Shutdown
  BY <1>4, <1>5 DEF Shutdown, EngineCloses
<1>6. ASSUME NEW i \in DOMAIN sent, NEW S \in SUBSET Positions(i), Try(i, S)
      PROVE  sent' = sent /\ settled' = settled /\ DocsMove
  BY <1>1, <1>6, AnswerLoads DEF Try
<1>7. ASSUME NEW i \in DOMAIN sent, NEW R \in SUBSET Positions(i), Answer(i, R)
      PROVE  /\ sent' = sent /\ DocsMove
             /\ \A s \in settled' : s \in settled \/ Present(sent[s[1]].ops[s[2]].id)'
  <2>1. /\ sent' = sent /\ docs' = Write(docs, sent[i].ops, Positions(i) \ R)
        /\ settled' = settled \cup OpsOf(i, Positions(i) \ R)
    BY <1>7 DEF Answer
  <2>2. PICK S \in SUBSET Positions(i) : S = Positions(i) \ R
    OBVIOUS
  <2>3. DocsMove /\ \A s \in OpsOf(i, S) : Present(sent[s[1]].ops[s[2]].id)'
    BY <1>1, <2>1, <2>2, AnswerLoads
  <2> QED
    BY <2>1, <2>2, <2>3
<1>8. CASE AccountWrite
  BY <1>4, <1>8 DEF AccountWrite
<1>9. CASE AccountPosition \/ AccountMark \/ SinkEnds \/ Persist \/ Publish
  BY <1>4, <1>9 DEF AccountPosition, AccountMark, SinkEnds, Persist, Publish
<1>10. CASE GiveUpWrite
  BY <1>4, <1>10 DEF GiveUpWrite, GiveUp
<1>11. CASE AccountTruncate \/ GiveUpTruncate
  <2>1. /\ Oldest \in DOMAIN sent /\ sent[Oldest].kind = "truncate"
        /\ sent' = sent /\ settled' = settled
    BY <1>11 DEF AccountTruncate, GiveUpTruncate, GiveUp, AtFront
  <2>2. PICK S \in SUBSET Ids : docs' = Truncate(docs, sent[Oldest].pos, S)
    BY <1>11 DEF AccountTruncate, GiveUpTruncate
  <2>3. docs \in Docs /\ sent[Oldest].pos \in Nat /\ Cleared
    BY <2>1, SentType DEF DeliveryInv, DeliveryTypeOK, CommandsOK
  <2>4. DocsMove
    BY <2>2, <2>3, TruncateKeeps DEF DocsMove
  <2> QED
    BY <2>1, <2>4
<1> QED
  BY <1>5, <1>6, <1>7, <1>8, <1>9, <1>10, <1>11 DEF TasksStep, DeliveryStep

-----------------------------------------------------------------------------
(* The attempts.                                                           *)

\* Where nothing but the load moves, what is loaded stays loaded.
LEMMA LoadedStays ==
  ASSUME UNCHANGED <<docs, wal>>
  PROVE  /\ Cleared' <=> Cleared
         /\ \A id : (Gone(id)' <=> Gone(id)) /\ (Present(id)' <=> Present(id))
         /\ \A w : Loaded(w)' <=> Loaded(w)
BY DEF Cleared, Gone, Present, Loaded

\* A claimed wave is loaded, and a finished load has claimed them all.
LEMMA AllClaimed ==
  ASSUME PipelineInv, LoadInv, progress.done = Len(Waves)
  PROVE  \A w \in DOMAIN Waves : Loaded(w)
<1>1. DOMAIN Waves = 1 .. Len(Waves)
  BY PipelineAssumption
<1> QED
  BY <1>1 DEF LoadInv, ClaimedIsLoaded

\* An attempt that finds no load to run finds every row loaded: the progress was
\* removed when it was over, or says so.
LEMMA AttemptLoads == ASSUME PipelineInv, LoadInv, NewAttempt PROVE LoadInv'
<1> USE DEF PipelineInv, LoadInv
<1>1. /\ sent' = <<>> /\ settled' = {} /\ buffer' = <<>> /\ copyq' = <<>>
      /\ superseded' = [id \in Ids |-> 0] /\ cleared' = 0
      /\ orphans' = orphans \cup {sent[i].ops : i \in {n \in Window : Open(n)}}
      /\ load' = FreshLoad(IF NeedsLoad THEN "start" ELSE "report")
      /\ CrashBeforeProgress \/ load.pc # "start"
      /\ UNCHANGED <<docs, wal, rows, progress>>
  BY DEF NewAttempt, FreshTasks, FreshEngine, sourceVars
<1>2. load'.pc = (IF NeedsLoad THEN "start" ELSE "report") /\ load'.copied = {}
  BY <1>1 DEF FreshLoad
<1>3. /\ Cleared' <=> Cleared
      /\ \A id : (Gone(id)' <=> Gone(id)) /\ (Present(id)' <=> Present(id))
      /\ \A w : Loaded(w)' <=> Loaded(w)
  BY <1>1, LoadedStays
<1>4. CommandsOK'
  <2>1. DOMAIN buffer' = {} /\ DOMAIN sent' = {} /\ DOMAIN copyq' = {}
    BY <1>1
  <2>2. \A ops \in orphans' : OpsOK(ops)
    BY <1>1 DEF CommandsOK, Window
  <2>3. ASSUME NEW ops, OpsOK(ops) PROVE OpsOK(ops)'
    BY <1>3, <2>3 DEF OpsOK
  <2>4. \A ops \in orphans' : OpsOK(ops)'
    BY <2>2, <2>3
  <2>5. OpsOK(buffer)'
    BY <2>1 DEF OpsOK
  <2> QED
    BY <2>1, <2>4, <2>5 DEF CommandsOK
<1>5. RemovedOK'
  BY <1>1, <1>3 DEF RemovedOK
<1>6. ExecutedOK'
  BY <1>1 DEF ExecutedOK
<1>7. WaveOK' /\ ProgressOK'
  BY <1>1, <1>2 DEF WaveOK, ProgressOK
<1>8. ClaimedIsLoaded'
  BY <1>1, <1>3 DEF ClaimedIsLoaded
<1>9. CASE ~CrashBeforeProgress
  <2>1. ~NeedsLoad => \A w \in DOMAIN Waves : Loaded(w)
    <3> SUFFICES ASSUME ~NeedsLoad PROVE \A w \in DOMAIN Waves : Loaded(w)
      OBVIOUS
    <3>1. CASE progress.finished
      BY <3>1, AllClaimed DEF ProgressOK
    <3>2. CASE ~progress.stored
      <4>1. load.pc \in {"report", "done"}
        BY <1>1, <1>9, <3>2 DEF NotSkippedOK
      <4> QED
        BY <1>9, <4>1 DEF NotSkippedOK, LoadIsNotSkipped
    <3> QED
      BY <3>1, <3>2 DEF NeedsLoad
  <2>2. LoadIsNotSkipped'
    BY <1>2, <1>3, <2>1 DEF LoadIsNotSkipped
  <2> QED
    BY <1>1, <1>2, <2>2, <1>4, <1>5, <1>6, <1>7, <1>8 DEF NotSkippedOK
<1> QED
  BY <1>4, <1>5, <1>6, <1>7, <1>8, <1>9

-----------------------------------------------------------------------------
(* The load.                                                               *)

\* Steps of the load that leave its channel as it is.
LEMMA LoadMoves ==
  ASSUME PipelineInv, LoadInv,
         UNCHANGED <<docs, wal, rows, settled, sent, buffer, superseded, cleared, orphans>>,
         \A x \in DOMAIN copyq' : copyq'[x].ev = "row" => copyq'[x].op.ver > 0
  PROVE  /\ CommandsOK' /\ RemovedOK' /\ ExecutedOK'
         /\ \A n, id : SentBy(n, id)' <=> SentBy(n, id)
         /\ \A id : InOf(buffer, id)' <=> InOf(buffer, id)
         /\ \A w : Loaded(w)' <=> Loaded(w)
<1> USE DEF PipelineInv, LoadInv
<1>1. /\ Cleared' <=> Cleared
      /\ \A id : (Gone(id)' <=> Gone(id)) /\ (Present(id)' <=> Present(id))
      /\ \A w : Loaded(w)' <=> Loaded(w)
  BY LoadedStays
<1>2. CommandsOK'
  BY <1>1 DEF CommandsOK, OpsOK
<1>3. RemovedOK' /\ ExecutedOK'
  BY <1>1 DEF RemovedOK, ExecutedOK
<1>4. /\ \A n, id : SentBy(n, id)' <=> SentBy(n, id)
      /\ \A id : InOf(buffer, id)' <=> InOf(buffer, id)
  BY <1>1 DEF SentBy, InOf
<1> QED
  BY <1>1, <1>2, <1>3, <1>4

\* The progress that is stored, or none, says where the load begins.
LEMMA StartLoads == ASSUME PipelineInv, LoadInv, StartTable PROVE LoadInv'
<1> USE DEF PipelineInv, LoadInv
<1>1. /\ UNCHANGED <<docs, wal, rows, settled, sent, buffer, superseded, cleared, orphans, copyq>>
      /\ load.pc = "start"
      /\ progress' = [progress EXCEPT !.stored = TRUE]
      /\ load' = [load EXCEPT !.pc = IF progress.finished THEN "clear" ELSE AfterWave(progress.done),
                              !.wave = progress.done + 1]
  BY DEF StartTable, taskVars, targetVars, sourceVars, engineVars, crashVars
<1>2. /\ load'.pc = (IF progress.finished THEN "clear" ELSE AfterWave(progress.done))
      /\ load'.wave = progress.done + 1 /\ load'.copied = {}
      /\ progress'.done = progress.done /\ progress'.finished = progress.finished
      /\ progress'.stored = TRUE
  BY <1>1 DEF LoadOK, ProgressOK
<1>3. /\ CommandsOK' /\ RemovedOK' /\ ExecutedOK'
      /\ \A w : Loaded(w)' <=> Loaded(w)
  BY <1>1, LoadMoves DEF CommandsOK
<1>4. /\ load'.pc \in {"clear", "read", "finish"}
      /\ load'.pc = "clear" => progress.finished
      /\ load'.pc = "finish" => progress.done = Len(Waves)
  BY <1>2 DEF AfterWave
<1>5. WaveOK' /\ ProgressOK'
  BY <1>2, <1>4 DEF WaveOK, ProgressOK
<1>6. ClaimedIsLoaded'
  BY <1>2, <1>3 DEF ClaimedIsLoaded
<1>7. NotSkippedOK'
  BY <1>2, <1>4 DEF NotSkippedOK, LoadIsNotSkipped
<1> QED
  BY <1>3, <1>5, <1>6, <1>7

\* A position is read for a range.
LEMMA ReadLoads == ASSUME PipelineInv, LoadInv, NEW r \in Ids, ReadPosition(r) PROVE LoadInv'
<1> USE DEF PipelineInv, LoadInv
<1>1. /\ UNCHANGED <<docs, wal, rows, settled, sent, buffer, superseded, cleared, orphans, copyq,
                     progress>>
      /\ load.pc = "read"
      /\ \E at : load' = [load EXCEPT !.at[r] = at]
  BY DEF ReadPosition, taskVars, targetVars, sourceVars, engineVars, crashVars
<1>2. load'.pc = "read" /\ load'.wave = load.wave /\ load'.copied = load.copied
  BY <1>1 DEF LoadOK
<1>3. /\ CommandsOK' /\ RemovedOK' /\ ExecutedOK'
      /\ \A n, id : SentBy(n, id)' <=> SentBy(n, id)
      /\ \A id : InOf(buffer, id)' <=> InOf(buffer, id)
      /\ \A w : Loaded(w)' <=> Loaded(w)
  BY <1>1, LoadMoves DEF CommandsOK
<1>4. \A id : OnChannel(id)' <=> OnChannel(id)
  BY <1>1 DEF OnChannel
<1>5. \A id \in load.copied : SentBy(Len(sent), id) \/ InOf(buffer, id) \/ OnChannel(id)
  BY <1>1 DEF WaveOK
<1>6. \A id \in load'.copied : (SentBy(Len(sent), id) \/ InOf(buffer, id) \/ OnChannel(id))'
  <2>1. \A id : SentBy(Len(sent), id)' <=> SentBy(Len(sent), id)
    BY <1>1, <1>3
  <2> QED
    BY <1>2, <1>3, <1>4, <1>5, <2>1
<1>7. WaveOK' /\ ProgressOK'
  BY <1>1, <1>2, <1>6 DEF WaveOK, ProgressOK
<1>8. ClaimedIsLoaded' /\ (NotSkippedOK => NotSkippedOK')
  BY <1>1, <1>2, <1>3 DEF ClaimedIsLoaded, NotSkippedOK, LoadIsNotSkipped
<1> QED
  BY <1>3, <1>7, <1>8

\* Events go to the end of the load's channel.
LEMMA ChannelGrows ==
  ASSUME PipelineInv, NEW evs \in Seq(CopyEvents), copyq' = copyq \o evs
  PROVE  /\ \A x \in DOMAIN copyq : x \in DOMAIN copyq' /\ copyq'[x] = copyq[x]
         /\ \A y \in DOMAIN evs : Len(copyq) + y \in DOMAIN copyq' /\ copyq'[Len(copyq) + y] = evs[y]
         /\ \A x \in DOMAIN copyq' : \/ x \in DOMAIN copyq /\ copyq'[x] = copyq[x]
                                     \/ \E y \in DOMAIN evs : copyq'[x] = evs[y]
         /\ \A id : OnChannel(id) => OnChannel(id)'
<1>1. /\ copyq \in Seq(CopyEvents) /\ Len(copyq) \in Nat /\ DOMAIN copyq = 1 .. Len(copyq)
      /\ Len(evs) \in Nat /\ DOMAIN evs = 1 .. Len(evs)
  BY DEF PipelineInv, LoadOK
<1>2. DOMAIN copyq' = 1 .. Len(copyq) + Len(evs)
  BY <1>1
<1>3. \A x \in DOMAIN copyq : x \in DOMAIN copyq' /\ copyq'[x] = copyq[x]
  BY <1>1
<1>4. \A y \in DOMAIN evs : Len(copyq) + y \in DOMAIN copyq' /\ copyq'[Len(copyq) + y] = evs[y]
  BY <1>1
<1>5. ASSUME NEW x \in DOMAIN copyq', x \notin DOMAIN copyq
      PROVE  \E y \in DOMAIN evs : copyq'[x] = evs[y]
  <2>1. x - Len(copyq) \in DOMAIN evs /\ x = Len(copyq) + (x - Len(copyq))
    BY <1>1, <1>2, <1>5
  <2> QED
    BY <1>4, <2>1
<1>6. \A id : OnChannel(id) => OnChannel(id)'
  BY <1>3 DEF OnChannel
<1> QED
  BY <1>3, <1>4, <1>5, <1>6

\* A row of a range goes onto the channel, or the source has removed it.
LEMMA CopyLoads == ASSUME PipelineInv, LoadInv, NEW r \in Ids, CopyRange(r) PROVE LoadInv'
<1> USE DEF PipelineInv, LoadInv
<1> DEFINE body == rows[visible][r]
           row == [ev |-> "row", op |-> [id |-> r, val |-> body, ver |-> load.at[r]]]
           bound == [ev |-> "boundary"]
<1>1. /\ UNCHANGED <<docs, wal, rows, settled, sent, buffer, superseded, cleared, orphans, progress>>
      /\ load.pc = "read" /\ load.at[r] # 0
      /\ load' = [load EXCEPT !.copied = @ \cup {r}]
      /\ copyq' \in IF body = Absent THEN {copyq} ELSE {copyq \o <<row>>, copyq \o <<row, bound>>}
  BY DEF CopyRange, taskVars, targetVars, sourceVars, engineVars, crashVars
<1>2. load'.pc = "read" /\ load'.wave = load.wave /\ load'.copied = load.copied \cup {r}
  BY <1>1 DEF LoadOK
<1>3. body \in Vals \cup {Absent} /\ (body = Absent => Gone(r))
  BY WalFacts DEF SourceOK, RemovedOK
<1>4. body # Absent => row \in CopyEvents /\ row.ev = "row" /\ row.op.ver > 0 /\ row.op.id = r
  <2>1. load.at[r] \in Nat /\ load.at[r] > 0
    BY <1>1 DEF LoadOK
  <2> QED
    BY <1>3, <2>1 DEF CopyEvents, Op
<1>5. bound \in CopyEvents /\ bound.ev # "row"
  BY DEF CopyEvents
<1>6. /\ \A x \in DOMAIN copyq' : copyq'[x].ev = "row" => copyq'[x].op.ver > 0
      /\ \A id : OnChannel(id) => OnChannel(id)'
      /\ Gone(r) \/ OnChannel(r)'
  <2> HIDE DEF row, bound
  <2>1. CASE body = Absent
    BY <1>1, <1>3, <2>1 DEF CommandsOK, OnChannel
  <2>2. ASSUME NEW evs \in Seq(CopyEvents), body # Absent, copyq' = copyq \o evs,
               DOMAIN evs = {1} \/ (DOMAIN evs = {1, 2} /\ evs[2] = bound), evs[1] = row
        PROVE  /\ \A x \in DOMAIN copyq' : copyq'[x].ev = "row" => copyq'[x].op.ver > 0
               /\ \A id : OnChannel(id) => OnChannel(id)'
               /\ OnChannel(r)'
    <3>1. \A y \in DOMAIN evs : evs[y].ev = "row" => evs[y].op.ver > 0
      BY <1>4, <1>5, <2>2
    <3>2. Len(copyq) + 1 \in DOMAIN copyq' /\ copyq'[Len(copyq) + 1] = row
      BY <2>2, ChannelGrows
    <3>3. OnChannel(r)'
      BY <1>4, <2>2, <3>2 DEF OnChannel
    <3>4. ASSUME NEW x \in DOMAIN copyq', copyq'[x].ev = "row" PROVE copyq'[x].op.ver > 0
      <4>1. CASE x \in DOMAIN copyq /\ copyq'[x] = copyq[x]
        BY <3>4, <4>1 DEF CommandsOK
      <4>2. CASE \E y \in DOMAIN evs : copyq'[x] = evs[y]
        BY <3>1, <3>4, <4>2
      <4> QED
        BY <2>2, <4>1, <4>2, ChannelGrows
    <3> QED
      BY <2>2, <3>3, <3>4, ChannelGrows
  <2>3. CASE body # Absent /\ copyq' = copyq \o <<row>>
    <3>1. PICK evs : evs = <<row>>
      OBVIOUS
    <3>2. evs \in Seq(CopyEvents) /\ DOMAIN evs = {1} /\ evs[1] = row
      BY <1>4, <2>3, <3>1, OneOf
    <3> QED
      BY <2>2, <2>3, <3>1, <3>2
  <2>4. CASE body # Absent /\ copyq' = copyq \o <<row, bound>>
    <3>1. PICK evs : evs = <<row, bound>>
      OBVIOUS
    <3>2. evs \in Seq(CopyEvents) /\ DOMAIN evs = {1, 2} /\ evs[1] = row /\ evs[2] = bound
      BY <1>4, <1>5, <2>4, <3>1
    <3> QED
      BY <2>2, <2>4, <3>1, <3>2
  <2> QED
    BY <1>1, <2>1, <2>3, <2>4
<1>7. /\ CommandsOK' /\ RemovedOK' /\ ExecutedOK'
      /\ \A n, id : SentBy(n, id)' <=> SentBy(n, id)
      /\ \A id : InOf(buffer, id)' <=> InOf(buffer, id)
      /\ \A w : Loaded(w)' <=> Loaded(w)
  BY <1>1, <1>6, LoadMoves
<1>8. \A id \in load.copied : SentBy(Len(sent), id) \/ InOf(buffer, id) \/ OnChannel(id)
  BY <1>1 DEF WaveOK
<1>9. SentBy(Len(sent), r)' \/ OnChannel(r)'
  <2>1. CASE Gone(r)
    BY <1>1, <1>7, <2>1 DEF SentBy, Present
  <2> QED
    BY <1>6, <2>1
<1>10. \A id \in load'.copied : (SentBy(Len(sent), id) \/ InOf(buffer, id) \/ OnChannel(id))'
  <2>1. \A id : SentBy(Len(sent), id)' <=> SentBy(Len(sent), id)
    BY <1>1, <1>7
  <2> QED
    BY <1>2, <1>6, <1>7, <1>8, <1>9, <2>1
<1>11. WaveOK' /\ ProgressOK'
  BY <1>1, <1>2, <1>10 DEF WaveOK, ProgressOK
<1>12. ClaimedIsLoaded' /\ (NotSkippedOK => NotSkippedOK')
  BY <1>1, <1>2, <1>7 DEF ClaimedIsLoaded, NotSkippedOK, LoadIsNotSkipped
<1> QED
  BY <1>7, <1>11, <1>12

\* The mark goes behind the rows of its wave.
LEMMA SendLoads == ASSUME PipelineInv, LoadInv, SendMark PROVE LoadInv'
<1> USE DEF PipelineInv, LoadInv
<1> DEFINE mark == [ev |-> "mark", mark |-> load.mark + 1]
<1>1. /\ UNCHANGED <<docs, wal, rows, settled, sent, buffer, superseded, cleared, orphans, progress>>
      /\ load.pc = "read" /\ load.copied = Waves[load.wave]
      /\ load' = [load EXCEPT !.pc = "wait", !.mark = @ + 1]
      /\ copyq' = copyq \o <<mark>>
  BY DEF SendMark, taskVars, targetVars, sourceVars, engineVars, crashVars, LoadOK
<1>2. /\ load'.pc = "wait" /\ load'.wave = load.wave /\ load'.copied = load.copied
      /\ load'.mark = load.mark + 1 /\ load.mark \in Nat
  BY <1>1 DEF LoadOK
<1>3. mark \in CopyEvents /\ mark.ev # "row"
  BY <1>2 DEF CopyEvents
<1> HIDE DEF mark
<1>4. PICK evs : evs = <<mark>>
  OBVIOUS
<1>5. evs \in Seq(CopyEvents) /\ DOMAIN evs = {1} /\ evs[1] = mark /\ copyq' = copyq \o evs
  BY <1>1, <1>3, <1>4, OneOf
<1>6. /\ \A x \in DOMAIN copyq' : copyq'[x].ev = "row" => copyq'[x].op.ver > 0
      /\ \A id : OnChannel(id) => OnChannel(id)'
  <2>1. /\ \A x \in DOMAIN copyq' : \/ x \in DOMAIN copyq /\ copyq'[x] = copyq[x]
                                   \/ \E y \in DOMAIN evs : copyq'[x] = evs[y]
        /\ \A id : OnChannel(id) => OnChannel(id)'
    BY <1>5, ChannelGrows
  <2>2. \A x \in DOMAIN copyq : copyq[x].ev = "row" => copyq[x].op.ver > 0
    BY DEF CommandsOK
  <2>3. \A y \in DOMAIN evs : evs[y].ev # "row"
    BY <1>3, <1>5
  <2> QED
    BY ONLY <2>1, <2>2, <2>3
<1>7. /\ CommandsOK' /\ RemovedOK' /\ ExecutedOK'
      /\ \A n, id : SentBy(n, id)' <=> SentBy(n, id)
      /\ \A id : InOf(buffer, id)' <=> InOf(buffer, id)
      /\ \A w : Loaded(w)' <=> Loaded(w)
  BY <1>1, <1>6, LoadMoves
<1>8. \A id \in load'.copied : (SentBy(Len(sent), id) \/ InOf(buffer, id) \/ OnChannel(id))'
  <2>1. \A id : SentBy(Len(sent), id)' <=> SentBy(Len(sent), id)
    BY <1>1, <1>7
  <2>2. \A id \in load.copied : SentBy(Len(sent), id) \/ InOf(buffer, id) \/ OnChannel(id)
    BY <1>1 DEF WaveOK
  <2> QED
    BY <1>2, <1>6, <1>7, <2>1, <2>2
<1>9. \A n \in DOMAIN sent' : ~(sent'[n].kind = "mark" /\ sent'[n].pos = load'.mark)
  <2>1. \A n \in DOMAIN sent : sent[n].kind = "mark" => sent[n].pos <= load.mark /\ sent[n].pos \in Nat
    BY SentType DEF MarksOK
  <2> QED
    BY <1>1, <1>2, <2>1
<1>10. WaveOK'
  BY <1>1, <1>2, <1>8, <1>9 DEF WaveOK
<1>11. ProgressOK'
  BY <1>1, <1>2 DEF ProgressOK
<1>12. ClaimedIsLoaded' /\ (NotSkippedOK => NotSkippedOK')
  BY <1>1, <1>2, <1>7 DEF ClaimedIsLoaded, NotSkippedOK, LoadIsNotSkipped
<1> QED
  BY <1>7, <1>10, <1>11, <1>12

\* A mark that came back has every row of its wave behind it, settled.
LEMMA MarkedIsPresent ==
  ASSUME PipelineInv, LoadInv, load.pc = "wait", loadDone >= load.mark
  PROVE  \A id \in Waves[load.wave] : Present(id)
<1> USE DEF PipelineInv, LoadInv
<1>1. load.mark \in Nat /\ load.mark > 0 /\ loadDone \in Nat /\ load.copied = Waves[load.wave]
  BY DEF LoadOK, WaveOK, DeliveryInv, DeliveryTypeOK
<1>2. PICK n \in 1 .. finished : sent[n].kind = "mark" /\ sent[n].pos = loadDone
  BY <1>1 DEF DeliveryInv, MarkFromPrefix
<1>3. finished \in Nat /\ finished <= Len(sent) /\ DOMAIN sent = 1 .. Len(sent) /\ Len(sent) \in Nat
  BY DEF DeliveryInv, DeliveryTypeOK
<1>4. n \in DOMAIN sent /\ n \in Nat
  BY <1>3
<1>5. sent[n].pos = load.mark
  BY <1>1, <1>2, <1>4, SentType DEF MarksOK
<1> SUFFICES ASSUME NEW id \in Waves[load.wave] PROVE Present(id)
  OBVIOUS
<1>6. SentBy(n, id)
  BY <1>1, <1>2, <1>4, <1>5 DEF WaveOK
<1>7. ASSUME NEW i \in 1 .. n, NEW m \in DOMAIN sent[i].ops, sent[i].ops[m].id = id
      PROVE  Present(id)
  <2>1. i \in 1 .. finished
    BY <1>3, <1>4
  <2>2. <<i, m>> \in settled
    BY <2>1 DEF DeliveryInv, PrefixSettled, OpsOf, Positions
  <2>3. PICK s \in settled : s = <<i, m>>
    BY <2>2
  <2> QED
    BY <1>7, <2>3 DEF ExecutedOK
<1> QED
  BY <1>6, <1>7 DEF SentBy, InOf

\* The wave is claimed once its mark has come back.
LEMMA RecordLoads == ASSUME PipelineInv, LoadInv, RecordProgress PROVE LoadInv'
<1> USE DEF PipelineInv, LoadInv
<1>1. /\ UNCHANGED <<docs, wal, rows, settled, sent, buffer, superseded, cleared, orphans, copyq>>
      /\ load.pc = "wait" /\ loadDone >= load.mark
      /\ progress' = [progress EXCEPT !.done = load.wave]
      /\ load' = [load EXCEPT !.pc = AfterWave(load.wave),
                              !.wave = @ + 1,
                              !.at = [id \in Ids |-> 0],
                              !.copied = {}]
  BY DEF RecordProgress, taskVars, targetVars, sourceVars, engineVars, crashVars
<1>2. /\ load'.pc = AfterWave(load.wave) /\ load'.wave = load.wave + 1 /\ load'.copied = {}
  BY <1>1 DEF LoadOK
<1>3. /\ progress'.done = load.wave
      /\ progress'.finished = progress.finished /\ progress'.stored = progress.stored
  BY <1>1 DEF LoadOK
<1>4. /\ load.wave = progress.done + 1 /\ progress.done \in Nat /\ load.wave \in Nat
      /\ load.wave <= Len(Waves) /\ Len(Waves) \in Nat
  BY <1>1, PipelineAssumption DEF ProgressOK, LoadOK
<1>5. /\ load'.pc \in {"read", "finish"} /\ (load'.pc = "finish" => load.wave = Len(Waves))
  BY <1>2 DEF AfterWave
<1>6. /\ CommandsOK' /\ RemovedOK' /\ ExecutedOK'
      /\ \A w : Loaded(w)' <=> Loaded(w)
  BY <1>1, LoadMoves DEF CommandsOK
<1>7. WaveOK'
  BY <1>2, <1>5 DEF WaveOK
<1>8. ~progress.finished
  BY <1>4 DEF ProgressOK
<1>9. ProgressOK'
  BY <1>2, <1>3, <1>5, <1>8 DEF ProgressOK
<1>10. ClaimedIsLoaded'
  <2>1. Loaded(load.wave)
    BY <1>1, MarkedIsPresent DEF Loaded, Present, Gone
  <2>2. ASSUME NEW w \in 1 .. load.wave PROVE Loaded(w)
    <3>1. w \in 1 .. progress.done \/ w = load.wave
      BY <1>4
    <3> QED
      BY <2>1, <3>1 DEF ClaimedIsLoaded
  <2> QED
    BY <1>3, <1>6, <2>2 DEF ClaimedIsLoaded
<1>11. NotSkippedOK => NotSkippedOK'
  BY <1>1, <1>3, <1>5 DEF NotSkippedOK, LoadIsNotSkipped
<1> QED
  BY <1>6, <1>7, <1>9, <1>10, <1>11

\* The load ends with every wave claimed.
LEMMA EndsLoad ==
  ASSUME PipelineInv, LoadInv, FinishTable \/ ClearProgress \/ ReportLoaded PROVE LoadInv'
<1> USE DEF PipelineInv, LoadInv
<1>1. /\ UNCHANGED <<docs, wal, rows, settled, sent, buffer, superseded, cleared, orphans>>
      /\ load.pc \in {"finish", "clear", "report"}
      /\ load' = [load EXCEPT !.pc = CASE load.pc = "finish" -> "clear"
                                       [] load.pc = "clear"  -> "report"
                                       [] load.pc = "report" -> "done"]
  BY DEF FinishTable, ClearProgress, ReportLoaded, taskVars, targetVars, sourceVars, engineVars,
         crashVars
<1>2. load'.pc = CASE load.pc = "finish" -> "clear"
                   [] load.pc = "clear"  -> "report"
                   [] load.pc = "report" -> "done"
  BY <1>1 DEF LoadOK
<1>3. \A x \in DOMAIN copyq' : copyq'[x].ev = "row" => copyq'[x].op.ver > 0
  <2>1. CASE copyq' = copyq
    BY <2>1 DEF CommandsOK
  <2>2. CASE copyq' = Append(copyq, [ev |-> "finished"])
    <3> DEFINE end == [ev |-> "finished"]
    <3>0. end \in CopyEvents /\ end.ev # "row"
      BY DEF CopyEvents
    <3>1. PICK e \in CopyEvents : e = end /\ e.ev # "row"
      BY <3>0
    <3>2. \A x \in DOMAIN copyq' : copyq'[x] = e \/ (x \in DOMAIN copyq /\ copyq'[x] = copyq[x])
      BY <2>2, <3>1 DEF LoadOK
    <3> QED
      BY <3>1, <3>2 DEF CommandsOK
  <2> QED
    BY <2>1, <2>2 DEF FinishTable, ClearProgress, ReportLoaded
<1>4. /\ CommandsOK' /\ RemovedOK' /\ ExecutedOK'
      /\ \A w : Loaded(w)' <=> Loaded(w)
  BY <1>1, <1>3, LoadMoves
<1>5. load.pc \in {"finish", "clear"} => progress.done = Len(Waves)
  BY DEF ProgressOK
<1>6. WaveOK'
  BY <1>1, <1>2 DEF WaveOK
<1>7. /\ FinishTable => load.pc = "finish" /\ progress'.done = progress.done
                        /\ progress'.finished /\ progress'.stored = progress.stored
      /\ ClearProgress => load.pc = "clear" /\ (progress' = NoProgress \/ progress' = progress)
      /\ ReportLoaded => load.pc = "report" /\ progress' = progress
  BY DEF FinishTable, ClearProgress, ReportLoaded, LoadOK
<1>8. CASE FinishTable
  <2>1. ProgressOK'
    BY <1>2, <1>5, <1>7, <1>8 DEF ProgressOK
  <2>2. ClaimedIsLoaded'
    BY <1>4, <1>7, <1>8 DEF ClaimedIsLoaded
  <2>3. NotSkippedOK => NotSkippedOK'
    BY <1>2, <1>7, <1>8 DEF NotSkippedOK, LoadIsNotSkipped
  <2> QED
    BY <1>4, <1>6, <2>1, <2>2, <2>3
<1>9. CASE ClearProgress
  <2>1. load'.pc = "report" /\ load.pc = "clear"
    BY <1>2, <1>7, <1>9
  <2>2. ProgressOK'
    BY <1>7, <1>9, <2>1 DEF ProgressOK, NoProgress
  <2>3. ClaimedIsLoaded'
    BY <1>4, <1>7, <1>9 DEF ClaimedIsLoaded, NoProgress
  <2>4. NotSkippedOK'
    BY <1>4, <1>5, <2>1, AllClaimed DEF NotSkippedOK, LoadIsNotSkipped
  <2> QED
    BY <1>4, <1>6, <2>2, <2>3, <2>4
<1>10. CASE ReportLoaded
  <2>1. load'.pc = "done" /\ load.pc = "report" /\ progress' = progress
    BY <1>2, <1>7, <1>10
  <2>2. ProgressOK'
    BY <2>1 DEF ProgressOK
  <2>3. ClaimedIsLoaded'
    BY <1>4, <2>1 DEF ClaimedIsLoaded
  <2>4. NotSkippedOK => NotSkippedOK'
    BY <1>4, <2>1 DEF NotSkippedOK, LoadIsNotSkipped
  <2> QED
    BY <1>4, <1>6, <2>2, <2>3, <2>4
<1> QED
  BY <1>8, <1>9, <1>10

-----------------------------------------------------------------------------
(* The engine: what each of its steps does, whichever event it takes.      *)

\* A row of id is in the buffer afterwards, or in the first command.
CarriesRow(cmds, id) == InOf(buffer', id) \/ (cmds # <<>> /\ InOf(cmds[1].ops, id))

\* What was buffered goes on, and a mark goes out behind all of it.
HandsOn(cmds) ==
  /\ cmds \in Seq(WellFormed) /\ sent' = sent \o cmds
  /\ \A n \in DOMAIN cmds :
       /\ OpsOK(cmds[n].ops) /\ (cmds[n].kind = "truncate" => Cleared)
       /\ cmds[n].kind = "mark" => n = Len(cmds) /\ buffer' = <<>>
  /\ OpsOK(buffer')
  /\ \A id : InOf(buffer, id) => CarriesRow(cmds, id)

\* A row that is taken from the load's channel goes on as well, unless it is gone.
Carries(cmds) ==
  /\ HandsOn(cmds)
  /\ UNCHANGED <<docs, wal, rows, settled, load, progress, orphans>>
  /\ \A id : OnChannel(id) => OnChannel(id)' \/ CarriesRow(cmds, id) \/ Gone(id)
  /\ \A x \in DOMAIN copyq' : copyq'[x].ev = "row" => copyq'[x].op.ver > 0
  /\ (\E n \in DOMAIN cmds : cmds[n].kind = "mark") => \A id : ~OnChannel(id)'
  /\ \A id \in Ids : superseded'[id] > 0 => Gone(id)
  /\ cleared' > 0 => Cleared

\* Whatever is carried on so is where a copied row may be.
LEMMA CarriedLoads ==
  ASSUME PipelineInv, LoadInv, NEW cmds, Carries(cmds) PROVE LoadInv'
<1> USE DEF PipelineInv, LoadInv
<1>1. /\ cmds \in Seq(WellFormed) /\ sent' = sent \o cmds
      /\ UNCHANGED <<docs, wal, rows, settled, load, progress, orphans>>
  BY DEF Carries, HandsOn
<1>2. /\ Cleared' <=> Cleared
      /\ \A id : (Gone(id)' <=> Gone(id)) /\ (Present(id)' <=> Present(id))
      /\ \A w : Loaded(w)' <=> Loaded(w)
  BY <1>1, LoadedStays
<1>3. /\ Len(sent) \in Nat /\ DOMAIN sent = 1 .. Len(sent)
      /\ Len(cmds) \in Nat /\ DOMAIN cmds = 1 .. Len(cmds)
      /\ Len(sent') = Len(sent) + Len(cmds) /\ DOMAIN sent' = 1 .. Len(sent')
  BY <1>1, SentGrows
<1>4. \A i \in DOMAIN sent : i \in DOMAIN sent' /\ sent'[i] = sent[i]
  BY <1>1, SentGrows
<1>5. \A i \in DOMAIN sent' : \/ i \in DOMAIN sent /\ sent'[i] = sent[i]
                              \/ i - Len(sent) \in DOMAIN cmds /\ sent'[i] = cmds[i - Len(sent)]
  BY <1>1, SentGrows
<1>6. ASSUME NEW ops, OpsOK(ops) PROVE OpsOK(ops)'
  BY <1>2, <1>6 DEF OpsOK
<1>7. CommandsOK'
  <2>1. PICK later : later = buffer'
    OBVIOUS
  <2>2. OpsOK(later)
    BY <2>1 DEF Carries, HandsOn
  <2>3. OpsOK(buffer)'
    BY <1>2, <2>1, <2>2 DEF OpsOK
  <2>4. \A ops \in orphans' : OpsOK(ops)'
    BY <1>1, <1>6 DEF CommandsOK
  <2>5. ASSUME NEW i \in DOMAIN sent'
        PROVE  OpsOK(sent[i].ops)' /\ (sent'[i].kind = "truncate" => Cleared')
    <3>1. PICK cmd : cmd = sent'[i]
      OBVIOUS
    <3>2. OpsOK(cmd.ops) /\ (cmd.kind = "truncate" => Cleared)
      BY <1>5, <3>1 DEF CommandsOK, Carries, HandsOn
    <3> QED
      BY <1>2, <3>1, <3>2 DEF OpsOK
  <2> QED
    BY <2>3, <2>4, <2>5 DEF CommandsOK, Carries
<1>8. RemovedOK'
  BY <1>1, <1>2 DEF RemovedOK, Carries
<1>9. ExecutedOK'
  <2> SUFFICES ASSUME NEW s \in settled PROVE Present(sent[s[1]].ops[s[2]].id)'
    BY <1>1 DEF ExecutedOK
  <2>1. sent'[s[1]] = sent[s[1]]
    BY <1>4 DEF CrashOK
  <2>2. PICK id : id = sent[s[1]].ops[s[2]].id
    OBVIOUS
  <2>3. Present(id)'
    BY <1>2, <2>2 DEF ExecutedOK
  <2> QED
    BY <2>1, <2>2, <2>3 DEF Present, Gone
<1>10. ASSUME NEW n \in Nat, n <= Len(sent), NEW id, SentBy(n, id)
       PROVE  SentBy(n, id)' /\ SentBy(Len(sent), id)'
  <2>1. CASE Present(id)
    BY <1>2, <2>1 DEF SentBy
  <2>2. CASE \E i \in 1 .. n : InOf(sent[i].ops, id)
    <3>1. PICK i \in 1 .. n : InOf(sent[i].ops, id)
      BY <2>2
    <3>2. i \in 1 .. Len(sent') /\ sent'[i] = sent[i]
      BY <1>3, <1>4, <1>10
    <3>3. InOf(sent[i].ops, id)'
      BY <3>1, <3>2 DEF InOf
    <3> QED
      BY <3>2, <3>3 DEF SentBy
  <2> QED
    BY <1>10, <2>1, <2>2 DEF SentBy
<1>11. ASSUME NEW id, CarriesRow(cmds, id) PROVE SentBy(Len(sent), id)' \/ InOf(buffer, id)'
  <2>1. CASE InOf(buffer', id)
    BY <2>1 DEF InOf
  <2>2. CASE cmds # <<>> /\ InOf(cmds[1].ops, id)
    <3>1. 1 \in DOMAIN cmds
      BY <1>1, <1>3, <2>2
    <3>2. PICK i \in 1 .. Len(sent') : sent'[i] = cmds[1]
      BY <1>1, <1>3, <3>1, SentGrows
    <3>3. InOf(sent[i].ops, id)'
      BY <2>2, <3>2 DEF InOf
    <3> QED
      BY <3>3 DEF SentBy
  <2> QED
    BY <1>11, <2>1, <2>2 DEF CarriesRow
<1>12. ASSUME load.pc \in {"read", "wait"}, NEW id \in load.copied
       PROVE  SentBy(Len(sent), id)' \/ InOf(buffer, id)' \/ OnChannel(id)'
  <2>1. CASE SentBy(Len(sent), id)
    BY <1>3, <1>10, <2>1
  <2>2. CASE InOf(buffer, id)
    BY <1>11, <2>2 DEF Carries, HandsOn
  <2>3. CASE OnChannel(id)
    <3>1. CASE Gone(id)
      BY <1>2, <3>1 DEF SentBy, Present
    <3> QED
      BY <1>11, <2>3, <3>1 DEF Carries
  <2> QED
    BY <1>12, <2>1, <2>2, <2>3 DEF WaveOK
<1>13. ASSUME load.pc = "wait", NEW n \in DOMAIN sent', sent'[n].kind = "mark", sent'[n].pos = load.mark,
              NEW id \in load.copied
       PROVE  SentBy(n, id)'
  <2>1. CASE n \in DOMAIN sent /\ sent'[n] = sent[n]
    <3>1. SentBy(n, id) /\ n \in Nat /\ n <= Len(sent)
      BY <1>3, <1>13, <2>1 DEF WaveOK
    <3> QED
      BY <1>10, <3>1
  <2>2. CASE n - Len(sent) \in DOMAIN cmds /\ sent'[n] = cmds[n - Len(sent)]
    <3>1. /\ n - Len(sent) = Len(cmds) /\ buffer' = <<>> /\ ~OnChannel(id)'
      BY <1>13, <2>2 DEF Carries, HandsOn
    <3>2. n = Len(sent')
      BY <1>3, <3>1
    <3>3. ~InOf(buffer, id)'
      BY <3>1 DEF InOf
    <3> QED
      BY <1>12, <1>13, <3>1, <3>2, <3>3
  <2> QED
    BY <1>5, <2>1, <2>2
<1>14. WaveOK'
  BY <1>1, <1>12, <1>13 DEF WaveOK
<1>15. ProgressOK' /\ ClaimedIsLoaded'
  BY <1>1, <1>2 DEF ProgressOK, ClaimedIsLoaded
<1>16. NotSkippedOK => NotSkippedOK'
  BY <1>1, <1>2 DEF NotSkippedOK, LoadIsNotSkipped
<1> QED
  BY <1>7, <1>8, <1>9, <1>14, <1>15, <1>16

-----------------------------------------------------------------------------
(* The handlers of the engine.                                             *)

\* A row joins the buffer, unless the stream has removed it since.
LEMMA RowCarries ==
  ASSUME PipelineInv, LoadInv, NEW op \in Op, HandleRow(op),
         op.ver > 0, op.val = Absent => Gone(op.id)
  PROVE  /\ \E cmds : /\ HandsOn(cmds) /\ \A n \in DOMAIN cmds : cmds[n].kind # "mark"
                      /\ CarriesRow(cmds, op.id) \/ Gone(op.id)
         /\ \A id \in Ids : superseded'[id] > 0 => Gone(id)
         /\ cleared' > 0 => Cleared
<1> USE DEF PipelineInv, LoadInv
<1> DEFINE grown == IF Dead(op) THEN buffer ELSE Append(buffer, op)
           full  == Len(grown) >= BatchSize
<1>1. /\ buffer' = IF full THEN <<>> ELSE grown
      /\ sent' = sent \o (IF full THEN <<Batch(grown, 0)>> ELSE <<>>)
      /\ superseded' = superseded
           \/ (op.val = Absent /\ superseded' = [superseded EXCEPT ![op.id] = op.ver])
      /\ cleared' = cleared
  BY DEF HandleRow, Hand
<1>2. /\ \A id \in Ids : superseded'[id] > 0 => Gone(id)
      /\ cleared' > 0 => Cleared
  BY <1>1 DEF RemovedOK, WindowsOK
<1>3. buffer \in Seq(Op) /\ Len(buffer) \in Nat /\ OpsOK(buffer)
  BY DEF BufferOK, CommandsOK
<1>4. /\ grown \in Seq(Op) /\ OpsOK(grown)
      /\ \A id : InOf(buffer, id) => InOf(grown, id)
      /\ InOf(grown, op.id) \/ Gone(op.id)
  <2>1. CASE Dead(op)
    <3>1. Gone(op.id)
      <4>1. op.id \in Ids /\ op.ver \in Nat
        BY DEF Op
      <4>2. superseded[op.id] \in Nat /\ cleared \in Nat
        BY <4>1 DEF WindowsOK
      <4>3. superseded[op.id] > 0 \/ cleared > 0
        BY <2>1, <4>1, <4>2 DEF Dead
      <4> QED
        BY <4>1, <4>3, ClearedGone DEF RemovedOK
    <3> QED
      BY <1>3, <2>1, <3>1
  <2>2. CASE ~Dead(op)
    <3>1. /\ grown \in Seq(Op)
          /\ \A m \in DOMAIN grown : grown[m] = op \/ (m \in DOMAIN buffer /\ grown[m] = buffer[m])
          /\ \A m \in DOMAIN buffer : m \in DOMAIN grown /\ grown[m] = buffer[m]
          /\ Len(buffer) + 1 \in DOMAIN grown /\ grown[Len(buffer) + 1] = op
      BY <1>3, <2>2
    <3> HIDE DEF grown
    <3> QED
      BY <1>3, <3>1 DEF OpsOK, InOf
  <2> QED
    BY <2>1, <2>2
<1>5. CASE full
  <2>1. PICK c : c = Batch(grown, 0)
    OBVIOUS
  <2>2. c \in WellFormed /\ c.ops = grown /\ c.kind = "write"
    BY <1>4, <2>1 DEF Batch, WellFormed, Command
  <2>3. PICK cmds : cmds = <<c>>
    OBVIOUS
  <2>4. buffer' = <<>> /\ sent' = sent \o cmds
    BY <1>1, <1>5, <2>1, <2>3
  <2> HIDE DEF grown, full
  <2>5. cmds \in Seq(WellFormed) /\ DOMAIN cmds = {1} /\ cmds[1] = c /\ cmds # <<>>
    BY <2>2, <2>3, OneOf
  <2>6. OpsOK(buffer')
    BY <2>4 DEF OpsOK
  <2>7. HandsOn(cmds)
    BY <1>4, <2>2, <2>4, <2>5, <2>6 DEF HandsOn, CarriesRow
  <2> QED
    BY <1>2, <1>4, <2>2, <2>5, <2>7 DEF CarriesRow
<1>6. CASE ~full
  <2>1. buffer' = grown /\ sent' = sent \o <<>>
    BY <1>1, <1>6
  <2>2. PICK cmds : cmds = <<>>
    OBVIOUS
  <2>3. cmds \in Seq(WellFormed) /\ DOMAIN cmds = {} /\ sent' = sent \o cmds
    BY <2>1, <2>2
  <2> HIDE DEF grown, full
  <2>4. HandsOn(cmds)
    BY <1>4, <2>1, <2>3 DEF HandsOn, CarriesRow
  <2> QED
    BY <1>2, <1>4, <2>1, <2>3, <2>4 DEF CarriesRow
<1> QED
  BY <1>5, <1>6

\* The buffer goes out, and a mark or a truncate may follow it.
LEMMA FlushCarries ==
  ASSUME PipelineInv, LoadInv, NEW c \in WellFormed, NEW d \in WellFormed,
         NEW front \in {<<>>, <<c>>}, NEW back \in {<<>>, <<d>>},
         sent' = sent \o (front \o back), buffer' = <<>>,
         c.kind \notin {"mark", "truncate"}, c.ops = buffer, buffer # <<>> => front = <<c>>,
         d.ops = <<>>, back = <<d>> /\ d.kind = "truncate" => Cleared
  PROVE  \E cmds : /\ HandsOn(cmds)
                   /\ (\E n \in DOMAIN cmds : cmds[n].kind = "mark") => back = <<d>> /\ d.kind = "mark"
<1> USE DEF PipelineInv, LoadInv
<1>1. PICK cmds : cmds = front \o back
  OBVIOUS
<1>2. /\ cmds \in Seq(WellFormed)
      /\ \A n \in DOMAIN cmds : \/ n = 1 /\ front = <<c>> /\ cmds[n] = c
                                \/ n = Len(cmds) /\ back = <<d>> /\ cmds[n] = d
      /\ front = <<c>> => cmds # <<>> /\ 1 \in DOMAIN cmds /\ cmds[1] = c
  BY <1>1, TwoParts
<1>3. OpsOK(c.ops) /\ OpsOK(d.ops)
  BY DEF CommandsOK, OpsOK
<1>4. OpsOK(buffer')
  BY DEF OpsOK
<1>5. ASSUME NEW id, InOf(buffer, id) PROVE CarriesRow(cmds, id)
  <2>1. buffer # <<>>
    BY <1>5 DEF InOf
  <2> QED
    BY <1>2, <1>5, <2>1 DEF CarriesRow
<1>6. HandsOn(cmds)
  BY <1>1, <1>2, <1>3, <1>4, <1>5 DEF HandsOn
<1> QED
  BY <1>2, <1>6

\* Nothing is handed over, and the buffer is held.
LEMMA IdleCarries ==
  ASSUME PipelineInv, LoadInv, sent' = sent \o <<>>, buffer' = buffer
  PROVE  HandsOn(<<>>) /\ DOMAIN <<>> = {}
<1>1. <<>> \in Seq(WellFormed) /\ DOMAIN <<>> = {}
  OBVIOUS
<1> QED
  BY <1>1 DEF HandsOn, CarriesRow, LoadInv, CommandsOK

\* A COMMIT, a keepalive or a boundary.
LEMMA CommitCarries ==
  ASSUME PipelineInv, LoadInv, NEW pos \in Nat, HandleCommit(pos)
  PROVE  /\ \E cmds : /\ HandsOn(cmds)
                      /\ (\E n \in DOMAIN cmds : cmds[n].kind = "mark") => pendingMark > 0
         /\ UNCHANGED <<superseded, cleared>>
<1> USE DEF PipelineInv, LoadInv
<1>1. UNCHANGED <<superseded, cleared>>
  BY DEF HandleCommit, HoldCommit, FlushCommit
<1>2. CASE HoldCommit(pos)
  <2>1. sent' = sent \o <<>> /\ buffer' = buffer
    BY <1>2 DEF HoldCommit, Hand
  <2> QED
    BY <1>1, <2>1, IdleCarries
<1>3. CASE FlushCommit(pos)
  <2> DEFINE c == IF buffer # <<>> THEN Batch(buffer, Stamp(pos)) ELSE Position(pos)
             d == Mark(pendingMark)
             front == IF buffer # <<>> THEN <<Batch(buffer, Stamp(pos))>>
                      ELSE IF pos > 0 THEN <<Position(pos)>>
                      ELSE <<>>
             back == IF StaysOpen(pos) \/ pendingMark = 0 THEN <<>> ELSE <<Mark(pendingMark)>>
  <2>1. sent' = sent \o (front \o back) /\ buffer' = <<>>
    BY <1>3 DEF FlushCommit, Hand
  <2>2. /\ buffer \in Seq(Op) /\ Stamp(pos) \in Nat /\ pendingMark \in Nat
    BY DEF BufferOK, MarksOK, Stamp
  <2>3. /\ c \in WellFormed /\ c.ops = buffer /\ c.kind \notin {"mark", "truncate"}
    BY <2>2 DEF Batch, Position, WellFormed, Command
  <2>4. front \in {<<>>, <<c>>} /\ (buffer # <<>> => front = <<c>>)
    OBVIOUS
  <2>5. back \in {<<>>, <<d>>} /\ (back # <<>> => pendingMark > 0)
    BY <2>2
  <2>6. pendingMark > 0 => d \in WellFormed
    BY <2>2 DEF Mark, WellFormed, Command
  <2>7. d.ops = <<>> /\ d.kind = "mark"
    BY DEF Mark
  <2>8. CASE pendingMark > 0
    <3> HIDE DEF c, d, front, back
    <3> QED
      BY <1>1, <2>1, <2>3, <2>4, <2>5, <2>6, <2>7, <2>8, FlushCarries
  <2>9. CASE pendingMark = 0
    <3>1. PICK e : e = Position(pos)
      OBVIOUS
    <3>2. e \in WellFormed /\ e.ops = <<>> /\ e.kind = "position"
      BY <3>1 DEF Position, WellFormed, Command
    <3>3. back = <<>> /\ back \in {<<>>, <<e>>}
      BY <2>9
    <3> HIDE DEF c, d, front, back
    <3>4. \E cmds : /\ HandsOn(cmds)
                    /\ (\E n \in DOMAIN cmds : cmds[n].kind = "mark") => back = <<e>> /\ e.kind = "mark"
      BY <2>1, <2>3, <2>4, <3>2, <3>3, FlushCarries
    <3> QED
      BY <1>1, <3>2, <3>4
  <2> QED
    BY <2>2, <2>8, <2>9
<1> QED
  BY <1>2, <1>3 DEF HandleCommit

\* A truncate, or a mark, goes out behind what is buffered.
LEMMA BarrierCarries ==
  ASSUME PipelineInv, LoadInv, NEW d \in WellFormed, sent' = sent \o (Flushed \o <<d>>),
         d.kind \in {"mark", "truncate"}, d.ops = <<>>, d.kind = "truncate" => Cleared,
         buffer' = <<>>
  PROVE  \E cmds : /\ HandsOn(cmds)
                   /\ (\E n \in DOMAIN cmds : cmds[n].kind = "mark") => d.kind = "mark"
<1>1. PICK c : c = Batch(buffer, bufferPos)
  OBVIOUS
<1>2. /\ c \in WellFormed /\ c.kind = "write" /\ c.ops = buffer
      /\ Flushed \in {<<>>, <<c>>} /\ (buffer # <<>> => Flushed = <<c>>)
  BY <1>1, FlushedIs
<1>3. PICK back : back = <<d>>
  OBVIOUS
<1>4. \E cmds : /\ HandsOn(cmds)
                /\ (\E n \in DOMAIN cmds : cmds[n].kind = "mark") => back = <<d>> /\ d.kind = "mark"
  BY <1>2, <1>3, FlushCarries
<1> QED
  BY <1>4

-----------------------------------------------------------------------------
(* The events the engine takes.                                            *)

\* An event of the stream leaves the load's channel alone; a mark that was held
\* back goes out only when the channel is empty.
LEMMA StreamCarries ==
  ASSUME PipelineInv, LoadInv, UNCHANGED <<taskVars, sourceVars, copyq, loadVars, crashVars>>,
         NEW cmds, HandsOn(cmds),
         (\E n \in DOMAIN cmds : cmds[n].kind = "mark") => pendingMark > 0,
         \A id \in Ids : superseded'[id] > 0 => Gone(id),
         cleared' > 0 => Cleared
  PROVE  LoadInv'
<1> USE DEF PipelineInv, LoadInv
<1>1. UNCHANGED <<docs, wal, rows, settled, load, progress, orphans, copyq>>
  BY DEF taskVars, targetVars, sourceVars, loadVars, crashVars
<1>2. \A id : OnChannel(id)' <=> OnChannel(id)
  BY <1>1 DEF OnChannel
<1>3. pendingMark > 0 => \A id : ~OnChannel(id)
  <2>1. pendingMark > 0 => copyq = <<>>
    BY DEF MarksOK
  <2> QED
    BY <2>1 DEF OnChannel
<1>4. \A x \in DOMAIN copyq' : copyq'[x].ev = "row" => copyq'[x].op.ver > 0
  BY <1>1 DEF CommandsOK
<1>5. Carries(cmds)
  BY <1>1, <1>2, <1>3, <1>4 DEF Carries
<1> QED
  BY <1>5, CarriedLoads

\* BEGIN, COMMIT and a keepalive.
LEMMA FramesLoad ==
  ASSUME PipelineInv, LoadInv, TakeBegin \/ TakeCommit \/ TakeKeepalive PROVE LoadInv'
<1> USE DEF PipelineInv, LoadInv
<1>1. UNCHANGED <<taskVars, sourceVars, copyq, loadVars, crashVars>>
  BY DEF TakeBegin, TakeCommit, TakeKeepalive, BetweenTxns
<1>2. /\ \A id \in Ids : superseded[id] > 0 => Gone(id)
      /\ cleared > 0 => Cleared
  BY DEF RemovedOK
<1>3. CASE TakeBegin
  <2>1. sent' = sent \o <<>> /\ UNCHANGED <<buffer, superseded, cleared>>
    BY <1>3 DEF TakeBegin, Hand
  <2>2. HandsOn(<<>>) /\ DOMAIN <<>> = {}
    BY <2>1, IdleCarries
  <2>3. PICK cmds : cmds = <<>>
    OBVIOUS
  <2>4. HandsOn(cmds) /\ DOMAIN cmds = {}
    BY <2>2, <2>3
  <2> QED
    BY <1>1, <1>2, <2>1, <2>4, StreamCarries
<1>4. ASSUME NEW pos \in Nat, HandleCommit(pos) PROVE LoadInv'
  BY <1>1, <1>2, <1>4, CommitCarries, StreamCarries
<1>5. End(cur.txn) \in Nat /\ End(cur.txn - 1) \in Nat
  BY StreamFacts DEF End
<1> QED
  BY <1>3, <1>4, <1>5 DEF TakeCommit, TakeKeepalive

\* A change of the stream: a delete is of a row that is gone, and a truncation
\* has cleared the table.
LEMMA ChangeLoads == ASSUME PipelineInv, LoadInv, TakeChange PROVE LoadInv'
<1> USE DEF PipelineInv, LoadInv
<1>1. /\ UNCHANGED <<taskVars, sourceVars, copyq, loadVars, crashVars>>
      /\ Streaming /\ cur.pos \in DOMAIN Txn
  BY DEF TakeChange
<1>2. /\ cur.txn \in 1 .. Len(wal) /\ cur.txn \in Nat /\ cur.txn > 0
      /\ wal[cur.txn] = Txn /\ Txn[cur.pos] \in Change
  BY <1>1, StreamFacts DEF Txn
<1>3. /\ \A id \in Ids : superseded[id] > 0 => Gone(id)
      /\ cleared > 0 => Cleared
  BY DEF RemovedOK
<1>4. CASE Txn[cur.pos].kind = "truncate"
  <2>1. Cleared
    BY <1>1, <1>2, <1>4 DEF Cleared
  <2>2. PICK d : d = Clear(Ver(cur.txn))
    OBVIOUS
  <2>3. d \in WellFormed /\ d.kind = "truncate" /\ d.ops = <<>>
    BY <1>2, <2>2 DEF Clear, WellFormed, Command, Ver
  <2>4. /\ sent' = sent \o (Flushed \o <<d>>) /\ buffer' = <<>> /\ superseded' = superseded
    BY <1>4, <2>2 DEF TakeChange, HandleTruncate, Hand
  <2>5. PICK cmds : /\ HandsOn(cmds)
                    /\ (\E n \in DOMAIN cmds : cmds[n].kind = "mark") => d.kind = "mark"
    BY <2>1, <2>3, <2>4, BarrierCarries
  <2>6. ~\E n \in DOMAIN cmds : cmds[n].kind = "mark"
    BY <2>3, <2>5
  <2> QED
    BY <1>1, <1>3, <2>1, <2>4, <2>5, <2>6, StreamCarries
<1>5. CASE Txn[cur.pos].kind # "truncate"
  <2>1. PICK op : op = OperationOf(Txn, cur.txn, cur.pos)
    OBVIOUS
  <2>2. op \in Op /\ op.ver = Ver(cur.txn) /\ IsChange(op, cur.txn, cur.pos)
    BY <1>1, <1>5, <2>1, StreamedOp
  <2>3. op.ver > 0
    BY <1>2, <2>2 DEF Ver
  <2>4. op.val = Absent => Gone(op.id)
    <3> SUFFICES ASSUME op.val = Absent PROVE Gone(op.id)
      OBVIOUS
    <3>1. Txn[cur.pos].kind = "delete" /\ Txn[cur.pos].id = op.id
      BY <1>2, <2>2 DEF IsChange
    <3>2. Txn[cur.pos] = [kind |-> "delete", id |-> op.id]
      BY <1>2, <3>1 DEF Change
    <3> QED
      BY <1>1, <1>2, <3>2 DEF Gone
  <2>5. HandleRow(op)
    BY <1>5, <2>1 DEF TakeChange
  <2> QED
    BY <1>1, <2>2, <2>3, <2>4, <2>5, RowCarries, StreamCarries
<1> QED
  BY <1>4, <1>5

\* An event of the load: a row goes on or is gone, and no row is behind a mark.
LEMMA CopiedLoads == ASSUME PipelineInv, LoadInv, TakeCopied PROVE LoadInv'
<1> USE DEF PipelineInv, LoadInv
<1>1. PICK e : e = Head(copyq)
  OBVIOUS
<1>2. /\ UNCHANGED <<docs, wal, rows, settled, load, progress, orphans>>
      /\ copyq # <<>> /\ copyq' = Tail(copyq)
  BY DEF TakeCopied, taskVars, targetVars, sourceVars, loadVars, crashVars
<1>3. /\ e \in CopyEvents /\ e = copyq[1] /\ Len(copyq) \in Nat /\ Len(copyq) >= 1
      /\ DOMAIN copyq = 1 .. Len(copyq) /\ 1 \in DOMAIN copyq
      /\ DOMAIN copyq' = 1 .. Len(copyq) - 1
      /\ \A x \in DOMAIN copyq' : x + 1 \in DOMAIN copyq /\ copyq'[x] = copyq[x + 1]
  BY <1>1, <1>2 DEF LoadOK
<1>4. ASSUME NEW id, OnChannel(id) PROVE OnChannel(id)' \/ (e.ev = "row" /\ e.op.id = id)
  <2>1. PICK x \in DOMAIN copyq : copyq[x].ev = "row" /\ copyq[x].op.id = id
    BY <1>4 DEF OnChannel
  <2>2. CASE x = 1
    BY <1>3, <2>1, <2>2
  <2>3. CASE x # 1
    <3>1. x - 1 \in DOMAIN copyq' /\ copyq'[x - 1] = copyq[x]
      BY <1>3, <2>3
    <3> QED
      BY <2>1, <3>1 DEF OnChannel
  <2> QED
    BY <2>2, <2>3
<1>5. \A x \in DOMAIN copyq' : copyq'[x].ev = "row" => copyq'[x].op.ver > 0
  BY <1>3 DEF CommandsOK
<1>6. /\ \A id \in Ids : superseded[id] > 0 => Gone(id)
      /\ cleared > 0 => Cleared
  BY DEF RemovedOK
<1>7. pendingMark = 0 /\ pendingMark \in Nat
  BY <1>2 DEF MarksOK
<1>8. ASSUME NEW cmds, HandsOn(cmds), e.ev # "row",
             (\E n \in DOMAIN cmds : cmds[n].kind = "mark") => e.ev = "mark",
             \A id \in Ids : superseded'[id] > 0 => Gone(id),
             cleared' > 0 => Cleared
      PROVE  LoadInv'
  <2>1. e.ev = "mark" => \A id : ~OnChannel(id)'
    <3> SUFFICES ASSUME e.ev = "mark" PROVE DOMAIN copyq' = {}
      BY DEF OnChannel
    <3>1. Len(copyq) = 1
      BY <1>3 DEF MarksOK
    <3> QED
      BY <1>3, <3>1
  <2>2. Carries(cmds)
    BY <1>2, <1>4, <1>5, <1>8, <2>1 DEF Carries
  <2> QED
    BY <2>2, CarriedLoads
<1>9. CASE e.ev = "row"
  <2>1. HandleRow(e.op)
    BY <1>1, <1>9 DEF TakeCopied
  <2>2. e \in [ev : {"row"}, op : {o \in Op : o.val # Absent}]
    BY <1>3, <1>9 DEF CopyEvents
  <2>3. PICK op \in Op : op = e.op /\ op.val # Absent
    BY <2>2
  <2>4. op.ver > 0
    BY <1>3, <1>9, <2>3 DEF CommandsOK
  <2>5. /\ \E cmds : /\ HandsOn(cmds) /\ \A n \in DOMAIN cmds : cmds[n].kind # "mark"
                     /\ CarriesRow(cmds, op.id) \/ Gone(op.id)
        /\ \A id \in Ids : superseded'[id] > 0 => Gone(id)
        /\ cleared' > 0 => Cleared
    BY <2>1, <2>3, <2>4, RowCarries
  <2>6. PICK cmds : /\ HandsOn(cmds) /\ \A n \in DOMAIN cmds : cmds[n].kind # "mark"
                    /\ CarriesRow(cmds, op.id) \/ Gone(op.id)
    BY <2>5
  <2>7. Carries(cmds)
    BY <1>2, <1>4, <1>5, <2>3, <2>5, <2>6 DEF Carries
  <2> QED
    BY <2>7, CarriedLoads
<1>10. CASE e.ev = "boundary"
  <2>1. HandleCommit(0)
    BY <1>1, <1>10 DEF TakeCopied
  <2>2. PICK cmds : /\ HandsOn(cmds)
                    /\ (\E n \in DOMAIN cmds : cmds[n].kind = "mark") => pendingMark > 0
    BY <2>1, CommitCarries
  <2>3. UNCHANGED <<superseded, cleared>>
    BY <2>1, CommitCarries
  <2>4. ~\E n \in DOMAIN cmds : cmds[n].kind = "mark"
    BY <1>7, <2>2
  <2> QED
    BY <1>6, <1>8, <1>10, <2>2, <2>3, <2>4
<1>11. CASE e.ev = "mark"
  <2>1. HandleMark(e.mark) /\ e.mark \in Nat
    BY <1>1, <1>3, <1>11 DEF TakeCopied, CopyEvents
  <2>2. superseded' = [id \in Ids |-> 0] /\ cleared' = 0
    BY <2>1 DEF HandleMark
  <2>3. \E cmds : HandsOn(cmds)
    <3>1. CASE txnOpen
      <4>1. sent' = sent \o <<>> /\ buffer' = buffer
        BY <2>1, <3>1 DEF HandleMark, Hand
      <4> QED
        BY <4>1, IdleCarries
    <3>2. CASE ~txnOpen
      <4>1. PICK d : d = Mark(e.mark)
        OBVIOUS
      <4>2. e.mark > 0
        BY <1>3, <1>11 DEF MarksOK
      <4>3. d \in WellFormed /\ d.kind = "mark" /\ d.ops = <<>>
        BY <2>1, <4>1, <4>2 DEF Mark, WellFormed, Command
      <4>4. sent' = sent \o (Flushed \o <<d>>) /\ buffer' = <<>>
        BY <2>1, <3>2, <4>1 DEF HandleMark, Hand
      <4> QED
        BY <4>3, <4>4, BarrierCarries
    <3> QED
      BY <3>1, <3>2
  <2> QED
    BY <1>8, <1>11, <2>2, <2>3
<1>12. CASE e.ev = "finished"
  <2>1. HandleLoadFinished
    BY <1>1, <1>12 DEF TakeCopied
  <2>2. /\ superseded' = [id \in Ids |-> 0] /\ cleared' = 0
        /\ sent' = sent \o <<>> /\ buffer' = buffer
    BY <2>1 DEF HandleLoadFinished, Hand
  <2>3. PICK cmds : HandsOn(cmds) /\ DOMAIN cmds = {}
    BY <2>2, IdleCarries
  <2> QED
    BY <1>8, <1>12, <2>2, <2>3
<1>13. e.ev \in {"row", "boundary", "mark", "finished"}
  BY <1>3 DEF CopyEvents
<1> QED
  BY <1>9, <1>10, <1>11, <1>12, <1>13

-----------------------------------------------------------------------------
(* The invariant holds throughout, attempt after attempt.                  *)

\* Nothing is loaded, and the table holds every row.
LEMMA LoadInit == ASSUME Init PROVE LoadInv
<1> USE DEF Init
<1>1. /\ wal = <<>> /\ Len(wal) = 0 /\ sent = <<>> /\ DOMAIN sent = {} /\ settled = {}
      /\ docs = [id \in Ids |-> NoDoc] /\ DOMAIN buffer = {} /\ DOMAIN copyq = {}
  BY DEF DeliveryInit
<1>2. load.pc = "start" /\ load.copied = {} /\ progress.done = 0 /\ ~progress.finished
  BY DEF FreshLoad, NoProgress
<1>3. CommandsOK
  BY <1>1 DEF CommandsOK, OpsOK
<1>4. RemovedOK
  <2>1. ASSUME NEW id \in Ids PROVE rows[0][id] # Absent
    <3>1. rows[0][id] = Body(<<0, 0>>, <<0, 0>>)
      BY DEF Initial
    <3> QED
      BY <3>1, BodiesAssumption, AbsentIsNoBody
  <2>2. \A k \in 0 .. Len(wal) : k = 0
    BY <1>1
  <2>3. \A id \in Ids : docs[id].ver = 0
    BY <1>1 DEF NoDoc
  <2> QED
    BY <2>1, <2>2, <2>3 DEF RemovedOK
<1>5. ExecutedOK /\ WaveOK
  BY <1>1, <1>2 DEF ExecutedOK, WaveOK
<1>6. ProgressOK /\ ClaimedIsLoaded
  BY <1>2 DEF ProgressOK, ClaimedIsLoaded
<1>7. NotSkippedOK
  BY <1>2 DEF NotSkippedOK, LoadIsNotSkipped
<1> QED
  BY <1>3, <1>4, <1>5, <1>6, <1>7 DEF LoadInv

\* Every step of the pipeline keeps the invariant.
LEMMA LoadStepInv ==
  ASSUME Policy = "halt", PipelineInv, LoadInv, [Next]_vars PROVE LoadInv'
<1>1. CASE UNCHANGED vars
  <2>1. /\ UNCHANGED <<sent, buffer, copyq, loadVars, superseded, cleared, orphans, docs, wal, rows,
                       settled>>
    BY <1>1 DEF vars, taskVars, targetVars, sourceVars, engineVars, crashVars
  <2>2. WalGrows /\ DocsMove
    BY <2>1 DEF WalGrows, DocsMove, LoadInv, RemovedOK
  <2>3. \A k \in 0 .. Len(wal') : \A id \in Ids : rows'[k][id] = Absent => Gone(id)'
    BY <2>1, <2>2, GoneStays DEF PipelineInv, LoadInv, RemovedOK
  <2> QED
    BY <2>1, <2>2, <2>3, TargetMoves
<1>2. CASE SourceCommits \/ BecomesVisible \/ ConfirmSlot
  BY <1>2, CommitLoads, SourceLoads
<1>3. CASE LoadStep
  BY <1>3, StartLoads, ReadLoads, CopyLoads, SendLoads, RecordLoads, EndsLoad DEF LoadStep
<1>4. CASE EngineStep
  BY <1>4, FramesLoad, ChangeLoads, CopiedLoads DEF EngineStep
<1>5. CASE Shutdown \/ TasksStep \/ OrphanLands \/ TargetForgets
  BY <1>5, TasksLoad, LeftoversLoad
<1>6. CASE NewAttempt
  BY <1>6, AttemptLoads
<1> QED
  BY <1>1, <1>2, <1>3, <1>4, <1>5, <1>6 DEF Next

\* A copied row is on its way or in the target, and what the target has forgotten
\* the source had removed, in every state of a pipeline under the policy "halt".
THEOREM LoadInvariant == Policy = "halt" => (Spec => []LoadInv)
<1> SUFFICES ASSUME Policy = "halt" PROVE Spec => []LoadInv
  OBVIOUS
<1>1. Init => LoadInv
  BY LoadInit
<1>2. PipelineInv /\ LoadInv /\ [Next]_vars => LoadInv'
  BY LoadStepInv
<1> QED
  BY <1>1, <1>2, PipelineInvariant, PTL DEF Spec

\* Resuming a load loses nothing: the progress document, which backfill.rs stores
\* once the wave's mark has come back, claims no range with a row that is neither
\* in the target nor removed by the stream, however the attempts end.
THEOREM ProgressIsEarned == Policy = "halt" => (Spec => []ClaimedIsLoaded)
<1>1. LoadInv => ClaimedIsLoaded
  BY DEF LoadInv
<1> QED
  BY <1>1, LoadInvariant, PTL

\* No load is skipped: where every attempt gets as far as storing the progress
\* document, an attempt that resume_position and unfinished let stream without a
\* load, and one whose load is over, has every row of every range.
THEOREM NoLoadIsSkipped ==
  Policy = "halt" /\ ~CrashBeforeProgress => (Spec => []LoadIsNotSkipped)
<1> SUFFICES ASSUME Policy = "halt", ~CrashBeforeProgress PROVE Spec => []LoadIsNotSkipped
  OBVIOUS
<1>1. LoadInv => LoadIsNotSkipped
  BY DEF LoadInv, NotSkippedOK
<1> QED
  BY <1>1, LoadInvariant, PTL
=============================================================================
