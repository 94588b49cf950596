--------------------------- MODULE PipelineProofs ---------------------------
(***************************************************************************)
(* End to end: no position that was acknowledged, stored in the checkpoint *)
(* or confirmed to the source covers a transaction with a change missing   *)
(* from the target, for every table, every sequence of transactions, batch *)
(* size, write concurrency, and number of attempts.                        *)
(*                                                                         *)
(* What is streamed is traced: each row change the engine has taken in     *)
(* this attempt, and each one the stream did not repeat because the slot   *)
(* had passed it, is an operation of the buffer, of a command that was     *)
(* handed over, or of an earlier attempt's settled ones.  A position goes  *)
(* out with or behind the operations it covers, and the contract of the    *)
(* sink side (DeliveryProofs) does the rest.                               *)
(***************************************************************************)
EXTENDS Pipeline, DeliveryProofs

Stages == {"start", "read", "wait", "finish", "clear", "report", "done"}

\* What the load puts on its channel.
CopyEvents ==
  [ev : {"row"}, op : {o \in Op : o.val # Absent}] \cup [ev : {"mark"}, mark : Nat]
  \cup [ev : {"boundary", "finished"}]

-----------------------------------------------------------------------------
(* The invariant, part by part.                                            *)

SourceOK ==
  /\ wal \in Seq(TxnShapes) /\ Len(wal) <= MaxTxns
  /\ visible \in 0 .. Len(wal)
  /\ rows \in [0 .. Len(wal) -> [Ids -> Vals \cup {Absent}]]
  /\ slot \in End(0) .. End(Len(wal))
  /\ earlier \in 0 .. End(Len(wal)) /\ kept \in 0 .. End(Len(wal))

\* Where the engine is in the stream.
StreamOK ==
  /\ cur \in [txn : Nat \ {0}, pos : Nat] /\ cur.txn <= Len(wal) + 1
  /\ cur.txn <= Len(wal) => cur.pos <= Len(wal[cur.txn]) + 1
  /\ cur.txn > Len(wal) => cur.pos = 0
  /\ txnOpen \in BOOLEAN /\ (txnOpen <=> cur.pos > 0)

\* The positions on the channel and on the buffer are those of transactions the
\* engine is past.
BufferOK ==
  /\ buffer \in Seq(Op) /\ Len(buffer) < BatchSize
  /\ bufferPos \in Nat /\ bufferPos <= End(cur.txn - 1)
  /\ buffer = <<>> => bufferPos = 0
  /\ \A i \in DOMAIN sent : CarriesPosition(sent[i]) =>
       sent[i].pos <= End(cur.txn - 1) /\ (bufferPos > 0 => sent[i].pos <= bufferPos)

\* No deletion is remembered from ahead of the stream, so a streamed row is
\* never dropped as dead.
WindowsOK ==
  /\ superseded \in [Ids -> Nat] /\ cleared \in Nat /\ loadRunning \in BOOLEAN
  /\ cleared <= Ver(cur.txn) /\ \A id \in Ids : superseded[id] <= Ver(cur.txn)

LoadOK ==
  /\ load \in [pc : Stages, wave : Nat \ {0}, mark : Nat, at : [Ids -> Nat], copied : SUBSET Ids]
  /\ load.wave <= Len(Waves) + 1
  /\ load.pc \in {"read", "wait"} => load.wave <= Len(Waves)
  /\ progress \in [stored : BOOLEAN, done : 0 .. Len(Waves), finished : BOOLEAN]
  /\ copyq \in Seq(CopyEvents)

\* One mark is under way at a time, the last thing the load sent.
Unreported == \A i \in DOMAIN sent : sent[i].kind = "mark" => sent[i].pos < load.mark

MarksOK ==
  /\ \A i \in DOMAIN sent : sent[i].kind = "mark" => sent[i].pos <= load.mark
  /\ \A x \in DOMAIN copyq : copyq[x].ev = "mark" =>
       /\ x = Len(copyq) /\ copyq[x].mark = load.mark /\ load.mark > 0
       /\ load.pc = "wait" /\ pendingMark = 0 /\ Unreported
  /\ pendingMark \in Nat
  /\ pendingMark > 0 =>
       /\ pendingMark = load.mark /\ load.pc = "wait" /\ copyq = <<>> /\ Unreported
       /\ txnOpen \/ buffer # <<>>

CrashOK ==
  /\ orphans \subseteq Seq(Op) /\ applied \subseteq Op
  /\ \A s \in settled : s[1] \in DOMAIN sent /\ s[2] \in Positions(s[1])

\* Operation op carries change j of transaction k.
IsChange(op, k, j) ==
  /\ op.id = wal[k][j].id /\ op.ver = Ver(k)
  /\ IF wal[k][j].kind = "delete" THEN op.val = Absent
     ELSE op.val # Absent /\ op.val.c = <<k, j>>

IsRow(k, j) == k \in DOMAIN wal /\ j \in DOMAIN wal[k] /\ wal[k][j].kind # "truncate"

InOps(ops, k, j) == \E m \in DOMAIN ops : IsChange(ops[m], k, j)

\* An earlier attempt settled it, or it is in one of the first n commands.
HandedBy(n, k, j) ==
  \/ \E op \in applied : IsChange(op, k, j)
  \/ \E i \in 1 .. n : InOps(sent[i].ops, k, j)

\* The stream is past it.
Seen(k, j) == k < cur.txn \/ (k = cur.txn /\ j < cur.pos)

\* Nothing the stream is past is lost in the engine.
StreamedOK ==
  \A k, j \in Nat : IsRow(k, j) /\ Seen(k, j) =>
    HandedBy(Len(sent), k, j) \/ InOps(buffer, k, j)

\* A position goes out with or behind everything it covers.
PositionsOK ==
  \A n \in DOMAIN sent : CarriesPosition(sent[n]) =>
    \A k, j \in Nat : IsRow(k, j) /\ End(k) <= sent[n].pos => HandedBy(n, k, j)

\* What earlier attempts stored, published and confirmed is delivered.
DeliveredTo(p) == \A k \in DOMAIN wal : End(k) <= p => Delivered(k)

LeftDelivered == DeliveredTo(slot) /\ DeliveredTo(earlier) /\ DeliveredTo(kept)

PipelineInv ==
  /\ DeliveryInv
  /\ SourceOK /\ StreamOK /\ BufferOK /\ WindowsOK /\ LoadOK /\ MarksOK /\ CrashOK
  /\ StreamedOK /\ PositionsOK /\ LeftDelivered

-----------------------------------------------------------------------------
(* The source database.                                                    *)

\* The last element of a set of positions, as Touched chooses it.
LEMMA LastOf ==
  ASSUME NEW n \in Nat, NEW T \in SUBSET (1 .. n), T # {}
  PROVE  LET last == CHOOSE i \in T : \A m \in T : m <= i IN
         last \in T /\ last \in 1 .. n
<1>1. T \in SUBSET (0 .. n)
  OBVIOUS
<1>2. \E i \in T : \A m \in T : m <= i
  BY <1>1, GreatestOf
<1> QED
  BY <1>2

\* A transaction leaves a table a table.
LEMMA TouchedType ==
  ASSUME NEW t \in TxnShapes, NEW k \in 1 .. MaxTxns, NEW j \in 0 .. Len(t),
         NEW before \in [Ids -> Vals \cup {Absent}], NEW id \in Ids
  PROVE  Touched(before, t, k, j, id) \in Vals \cup {Absent}
<1> DEFINE S == {i \in 1 .. j : t[i].kind = "truncate" \/ t[i].id = id}
           W == {i \in S : t[i].kind # "touch"}
           Last(T) == CHOOSE i \in T : \A m \in T : m <= i
           base == IF W = {} THEN before[id]
                   ELSE IF t[Last(W)].kind = "upsert" THEN Body(<<k, Last(W)>>, <<k, Last(W)>>)
                   ELSE Absent
<1>1. t \in Seq(Change) /\ Len(t) \in Nat /\ DOMAIN t = 1 .. Len(t) /\ j \in Nat
  BY PipelineAssumption
<1>2. ASSUME NEW T \in SUBSET (1 .. j), T # {} PROVE Last(T) \in T /\ Last(T) \in DOMAIN t
  <2>1. Last(T) \in T /\ Last(T) \in 1 .. j
    BY <1>1, <1>2, LastOf
  <2> QED
    BY <1>1, <2>1
<1>3. base \in Vals \cup {Absent}
  <2>1. CASE W = {}
    BY <2>1
  <2>2. CASE W # {}
    <3>1. W \in SUBSET (1 .. j)
      OBVIOUS
    <3>2. Last(W) \in DOMAIN t
      BY <1>2, <2>2, <3>1
    <3> HIDE DEF W, Last
    <3> QED
      BY <2>2, <3>2, BodiesAssumption
  <2> QED
    BY <2>1, <2>2
<1>4. Touched(before, t, k, j, id) =
        IF S = {} \/ base = Absent \/ t[Last(S)].kind # "touch" THEN base
        ELSE [base EXCEPT !.c = <<k, Last(S)>>]
  BY DEF Touched
<1>5. CASE S # {} /\ base # Absent
  <2>1. S \in SUBSET (1 .. j)
    OBVIOUS
  <2>2. Last(S) \in DOMAIN t
    BY <1>2, <1>5, <2>1
  <2> HIDE DEF S, Last, base
  <2>3. base \in Vals /\ base = Body(base.c, base.big)
    BY <1>3, <1>5, BodiesAssumption
  <2>4. [base EXCEPT !.c = <<k, Last(S)>>] = Body(<<k, Last(S)>>, base.big)
    BY <2>3 DEF Body
  <2>5. Body(<<k, Last(S)>>, base.big) \in Vals
    BY <2>2, <2>3, BodiesAssumption
  <2> QED
    BY <1>3, <1>4, <2>4, <2>5
<1> HIDE DEF S, Last, base
<1> QED
  BY <1>3, <1>4, <1>5

\* What the log of committed transactions is made of.
LEMMA WalFacts ==
  ASSUME SourceOK
  PROVE  /\ Len(wal) \in Nat /\ DOMAIN wal = 1 .. Len(wal) /\ MaxTxns \in Nat
         /\ \A k \in DOMAIN wal : /\ wal[k] \in TxnShapes /\ wal[k] \in Seq(Change)
                                  /\ Len(wal[k]) \in Nat /\ DOMAIN wal[k] = 1 .. Len(wal[k])
                                  /\ \A j \in DOMAIN wal[k] : wal[k][j] \in Change
<1>1. /\ Len(wal) \in Nat /\ DOMAIN wal = 1 .. Len(wal)
      /\ \A k \in DOMAIN wal : wal[k] \in TxnShapes
  BY DEF SourceOK
<1>2. MaxTxns \in Nat /\ TxnShapes \subseteq Seq(Change)
  BY PipelineAssumption
<1> QED
  BY <1>1, <1>2

-----------------------------------------------------------------------------
(* Short sequences of commands and events.                                 *)

\* A handler that hands one command over.
LEMMA OneOf ==
  ASSUME NEW S, NEW a \in S, NEW cmds, cmds = <<a>>
  PROVE  cmds \in Seq(S) /\ Len(cmds) = 1 /\ DOMAIN cmds = {1} /\ cmds[1] = a
OBVIOUS

\* One that hands over a command and another behind it: what was buffered, and the barrier.
LEMMA TwoOf ==
  ASSUME NEW S, NEW a \in S, NEW b \in S, NEW cmds, cmds = <<a>> \o <<b>>
  PROVE  /\ cmds \in Seq(S) /\ Len(cmds) = 2 /\ DOMAIN cmds = {1, 2}
         /\ cmds[1] = a /\ cmds[2] = b
OBVIOUS

-----------------------------------------------------------------------------
(* What is delivered stays delivered.                                      *)

TargetGrows == applied \cup OpsSettled \subseteq applied' \cup OpsSettled'

\* A delivered transaction stays delivered while the target only gains operations.
LEMMA DeliveredStays ==
  ASSUME TargetGrows, NEW k, wal'[k] = wal[k], Delivered(k)
  PROVE  Delivered(k)'
BY DEF TargetGrows, Delivered, InTarget

\* So does everything up to a position, whatever else the source commits.
LEMMA DeliveredToStays ==
  ASSUME SourceOK, TargetGrows, wal' = wal \/ (\E t \in TxnShapes : wal' = Append(wal, t)),
         NEW p \in 0 .. End(Len(wal)), DeliveredTo(p)
  PROVE  \A k \in DOMAIN wal' : End(k) <= p => Delivered(k)'
<1> SUFFICES ASSUME NEW k \in DOMAIN wal', End(k) <= p PROVE Delivered(k)'
  OBVIOUS
<1>1. k \in DOMAIN wal /\ wal'[k] = wal[k]
  <2>1. CASE wal' = wal
    BY <2>1
  <2>2. ASSUME NEW t \in TxnShapes, wal' = Append(wal, t) PROVE k \in DOMAIN wal /\ wal'[k] = wal[k]
    <3>1. k \in 1 .. Len(wal) + 1 /\ \A i \in DOMAIN wal : wal'[i] = wal[i]
      BY <2>2 DEF SourceOK
    <3>2. k <= Len(wal)
      BY <3>1, WalFacts DEF End
    <3> QED
      BY <3>1, <3>2, WalFacts
  <2> QED
    BY <2>1, <2>2
<1> QED
  BY <1>1, DeliveredStays DEF DeliveredTo

\* The positions an earlier attempt left behind stay covered by what is delivered.
LEMMA LeftStays ==
  ASSUME SourceOK, LeftDelivered, TargetGrows,
         wal' = wal \/ (\E t \in TxnShapes : wal' = Append(wal, t)),
         UNCHANGED <<slot, earlier, kept>>
  PROVE  LeftDelivered'
<1>1. /\ slot \in 0 .. End(Len(wal)) /\ earlier \in 0 .. End(Len(wal)) /\ kept \in 0 .. End(Len(wal))
  BY WalFacts DEF SourceOK, End
<1> QED
  BY <1>1, DeliveredToStays DEF LeftDelivered, DeliveredTo

\* Commands are added behind the ones there are.
LEMMA SettledStays ==
  ASSUME DeliveryInv, CrashOK, NEW cmds \in Seq(WellFormed), sent' = sent \o cmds,
         UNCHANGED <<settled, applied, orphans>>
  PROVE  CrashOK' /\ TargetGrows
<1>1. /\ \A i \in DOMAIN sent : i \in DOMAIN sent' /\ sent'[i] = sent[i]
  BY DEF DeliveryInv
<1>2. \A s \in settled : sent'[s[1]] = sent[s[1]]
  BY <1>1 DEF CrashOK
<1>3. CrashOK'
  BY <1>1, <1>2 DEF CrashOK, Positions
<1>4. OpsSettled' = OpsSettled
  BY <1>2 DEF OpsSettled
<1> QED
  BY <1>3, <1>4 DEF TargetGrows

\* A step that settles nothing takes nothing from the target.
LEMMA NothingSettled ==
  ASSUME UNCHANGED <<sent, settled, applied>>
  PROVE  TargetGrows
BY DEF TargetGrows, OpsSettled

-----------------------------------------------------------------------------
(* The source commits, and the slot is confirmed.                          *)

\* Steps that leave the two tasks alone.
LEMMA SameDelivery ==
  ASSUME DeliveryInv, UNCHANGED <<sent, taskVars>>
  PROVE  DeliveryInv'
BY DeliveryStepInv DEF taskVars, deliveryVars, channelVars

\* Steps that leave the wal, the stream and the engine alone.
LEMMA SameTrace ==
  ASSUME StreamedOK, PositionsOK, UNCHANGED <<sent, wal, applied, buffer, cur>>
  PROVE  StreamedOK' /\ PositionsOK'
<1>1. ASSUME NEW k \in Nat, NEW j \in Nat
      PROVE  /\ IsRow(k, j)' <=> IsRow(k, j)
             /\ Seen(k, j)' <=> Seen(k, j)
             /\ InOps(buffer, k, j)' <=> InOps(buffer, k, j)
             /\ HandedBy(Len(sent), k, j)' <=> HandedBy(Len(sent), k, j)
  BY DEF HandedBy, InOps, IsChange, IsRow, Seen
<1>2. ASSUME NEW n, NEW k \in Nat, NEW j \in Nat
      PROVE  HandedBy(n, k, j)' <=> HandedBy(n, k, j)
  BY DEF HandedBy, InOps, IsChange
<1>3. StreamedOK'
  BY <1>1 DEF StreamedOK
<1>4. PositionsOK'
  BY <1>1, <1>2 DEF PositionsOK
<1> QED
  BY <1>3, <1>4

\* A new transaction is behind every position anybody holds.
LEMMA CommitsKept == ASSUME PipelineInv, SourceCommits PROVE PipelineInv'
<1> USE DEF PipelineInv
<1>1. PICK t \in TxnShapes :
        /\ Len(wal) < MaxTxns /\ wal' = Append(wal, t)
        /\ rows' = [k \in 0 .. Len(wal) + 1 |->
                      IF k <= Len(wal) THEN rows[k]
                      ELSE [id \in Ids |-> Touched(rows[Len(wal)], t, k, Len(t), id)]]
  BY DEF SourceCommits
<1>2. UNCHANGED <<sent, taskVars, visible, slot, cur, engineVars, copyq, loadVars, crashVars>>
  BY DEF SourceCommits
<1>3. /\ Len(wal) \in Nat /\ wal' \in Seq(TxnShapes) /\ Len(wal') = Len(wal) + 1
      /\ DOMAIN wal = 1 .. Len(wal) /\ DOMAIN wal' = 1 .. Len(wal) + 1
      /\ \A k \in DOMAIN wal : wal'[k] = wal[k]
      /\ wal'[Len(wal) + 1] = t
  BY <1>1, WalFacts DEF SourceOK
<1>4. SourceOK'
  <2>1. rows' \in [0 .. Len(wal) + 1 -> [Ids -> Vals \cup {Absent}]]
    <3> SUFFICES ASSUME NEW k \in 0 .. Len(wal) + 1
                 PROVE  (IF k <= Len(wal) THEN rows[k]
                         ELSE [id \in Ids |-> Touched(rows[Len(wal)], t, k, Len(t), id)])
                        \in [Ids -> Vals \cup {Absent}]
      BY <1>1
    <3>1. CASE k <= Len(wal)
      BY <1>3, <3>1 DEF SourceOK
    <3>2. CASE k = Len(wal) + 1
      <4>1. /\ rows[Len(wal)] \in [Ids -> Vals \cup {Absent}]
            /\ k \in 1 .. MaxTxns /\ Len(t) \in 0 .. Len(t)
        <5>1. t \in Seq(Change) /\ Len(t) \in Nat
          BY PipelineAssumption
        <5>2. rows[Len(wal)] \in [Ids -> Vals \cup {Absent}]
          BY <1>3 DEF SourceOK
        <5> QED
          BY <1>1, <1>3, <3>2, <5>1, <5>2, WalFacts
      <4>2. \A id \in Ids : Touched(rows[Len(wal)], t, k, Len(t), id) \in Vals \cup {Absent}
        BY <4>1, TouchedType
      <4> QED
        BY <1>3, <3>2, <4>2
    <3> QED
      BY <1>3, <3>1, <3>2
  <2>2. UNCHANGED <<visible, slot, earlier, kept>>
    BY <1>2 DEF crashVars
  <2> QED
    BY <1>1, <1>3, <2>1, <2>2, WalFacts DEF SourceOK, End
<1>5. StreamOK'
  BY <1>2, <1>3 DEF StreamOK, engineVars
<1>6. DeliveryInv' /\ BufferOK' /\ WindowsOK' /\ LoadOK' /\ MarksOK' /\ CrashOK'
  <2>1. DeliveryInv'
    BY <1>2, SameDelivery
  <2>2. BufferOK' /\ WindowsOK' /\ LoadOK'
    BY <1>2 DEF BufferOK, WindowsOK, LoadOK, engineVars, loadVars
  <2>3. MarksOK' /\ CrashOK'
    BY <1>2 DEF MarksOK, Unreported, CrashOK, Positions, engineVars, loadVars, crashVars, taskVars, targetVars
  <2> QED
    BY <2>1, <2>2, <2>3
<1>7. UNCHANGED <<sent, settled, applied, buffer, cur, slot, earlier, kept>>
  BY <1>2 DEF taskVars, targetVars, crashVars, engineVars
<1>8. LeftDelivered'
  BY <1>1, <1>7, NothingSettled, LeftStays
<1>9. StreamedOK'
  <2> SUFFICES ASSUME NEW k \in Nat, NEW j \in Nat, IsRow(k, j)', Seen(k, j)'
               PROVE  (HandedBy(Len(sent), k, j) \/ InOps(buffer, k, j))'
    BY DEF StreamedOK
  <2>1. k \in DOMAIN wal
    <3>1. k <= Len(wal) \/ (k = Len(wal) + 1 /\ j < 0)
      BY <1>3, <1>7 DEF IsRow, Seen, StreamOK
    <3> QED
      BY <1>3, <3>1 DEF IsRow
  <2>2. wal'[k] = wal[k] /\ IsRow(k, j) /\ Seen(k, j)
    BY <1>3, <1>7, <2>1 DEF IsRow, Seen
  <2>3. HandedBy(Len(sent), k, j) \/ InOps(buffer, k, j)
    BY <2>2 DEF StreamedOK
  <2> QED
    BY <1>7, <2>2, <2>3 DEF HandedBy, InOps, IsChange
<1>10. PositionsOK'
  <2> SUFFICES ASSUME NEW n \in DOMAIN sent, CarriesPosition(sent[n]),
                      NEW k \in Nat, NEW j \in Nat, IsRow(k, j)', End(k) <= sent[n].pos
               PROVE  HandedBy(n, k, j)'
    BY <1>7 DEF PositionsOK
  <2>1. sent[n].pos <= End(cur.txn - 1) /\ sent[n].pos \in Nat
    BY SentType DEF BufferOK
  <2>2. k <= Len(wal)
    BY <1>3, <2>1 DEF StreamOK, End
  <2>3. k \in DOMAIN wal /\ wal'[k] = wal[k] /\ IsRow(k, j)
    BY <1>3, <2>2 DEF IsRow
  <2>4. HandedBy(n, k, j)
    BY <2>3 DEF PositionsOK
  <2> QED
    BY <1>7, <2>3, <2>4 DEF HandedBy, InOps, IsChange
<1> QED
  BY <1>4, <1>5, <1>6, <1>8, <1>9, <1>10

\* A position that is acknowledged is delivered: the command that carried it is
\* accounted for, and with it every command ahead of it.
LEMMA AckedDelivered ==
  ASSUME PipelineInv, NEW p \in Nat, p <= acked
  PROVE  DeliveredTo(p) /\ p <= End(Len(wal))
<1> USE DEF PipelineInv
<1>1. CASE acked = 0
  BY <1>1, WalFacts DEF DeliveredTo, End
<1>2. CASE acked # 0
  <2>1. /\ finished \in Nat /\ finished <= Len(sent) /\ DOMAIN sent = 1 .. Len(sent)
        /\ Len(sent) \in Nat /\ acked \in Nat
    BY DEF DeliveryInv, DeliveryTypeOK
  <2>2. PICK n \in 1 .. finished : CarriesPosition(sent[n]) /\ sent[n].pos = acked
    BY <1>2 DEF DeliveryInv, AckedFromPrefix
  <2>3. n \in DOMAIN sent /\ acked <= End(cur.txn - 1)
    BY <2>1, <2>2 DEF BufferOK
  <2>4. p <= End(Len(wal))
    BY <2>1, <2>3, WalFacts DEF StreamOK, End
  <2>5. ASSUME NEW k \in DOMAIN wal, End(k) <= p, NEW j \in DOMAIN wal[k], wal[k][j].kind # "truncate"
        PROVE  InTarget(k, j)
    <3>1. k \in Nat /\ j \in Nat /\ IsRow(k, j) /\ End(k) <= sent[n].pos
      BY <2>1, <2>2, <2>5, WalFacts DEF IsRow, End
    <3>2. HandedBy(n, k, j)
      BY <2>2, <2>3, <3>1 DEF PositionsOK
    <3>3. ASSUME NEW op \in applied, IsChange(op, k, j) PROVE InTarget(k, j)
      BY <3>3 DEF InTarget, IsChange
    <3>4. ASSUME NEW i \in 1 .. n, NEW m \in DOMAIN sent[i].ops, IsChange(sent[i].ops[m], k, j)
          PROVE  InTarget(k, j)
      <4>1. i \in 1 .. finished
        BY <2>1
      <4>2. <<i, m>> \in settled
        BY <4>1 DEF DeliveryInv, PrefixSettled, OpsOf, Positions
      <4>3. sent[i].ops[m] \in OpsSettled
        BY <4>2 DEF OpsSettled
      <4> QED
        BY <3>4, <4>3 DEF InTarget, IsChange
    <3> QED
      BY <3>2, <3>3, <3>4 DEF HandedBy, InOps
  <2> QED
    BY <2>4, <2>5 DEF DeliveredTo, Delivered
<1> QED
  BY <1>1, <1>2

\* So are the stored checkpoint and the durable position, also where an earlier
\* attempt left them.
LEMMA StoredDelivered ==
  ASSUME PipelineInv
  PROVE  /\ Checkpoint \in 0 .. End(Len(wal)) /\ DeliveredTo(Checkpoint)
         /\ SafePosition \in 0 .. End(Len(wal)) /\ DeliveredTo(SafePosition)
<1> USE DEF PipelineInv
<1>1. /\ acked \in Nat /\ persisted \in Nat /\ durable \in Nat
      /\ persisted <= acked /\ durable <= acked
      /\ End(Len(wal)) \in Nat
  BY WalFacts DEF DeliveryInv, DeliveryTypeOK, CheckpointFromPrefix, End
<1>2. /\ DeliveredTo(persisted) /\ DeliveredTo(durable)
      /\ persisted <= End(Len(wal)) /\ durable <= End(Len(wal))
  BY <1>1, AckedDelivered
<1>3. Checkpoint \in 0 .. End(Len(wal)) /\ DeliveredTo(Checkpoint)
  BY <1>1, <1>2 DEF Checkpoint, LeftDelivered, SourceOK
<1>4. SafePosition \in 0 .. End(Len(wal)) /\ DeliveredTo(SafePosition)
  BY <1>1, <1>2 DEF SafePosition, LeftDelivered, SourceOK
<1> QED
  BY <1>3, <1>4

\* A snapshot sees the commit, or the slot is confirmed: not beyond the durable
\* position.
LEMMA SlotKept == ASSUME PipelineInv, BecomesVisible \/ ConfirmSlot PROVE PipelineInv'
<1> USE DEF PipelineInv
<1>1. UNCHANGED <<sent, taskVars, wal, rows, cur, engineVars, copyq, loadVars, crashVars>>
  BY DEF BecomesVisible, ConfirmSlot
<1>2. /\ visible' \in 0 .. Len(wal) /\ slot' \in End(0) .. End(Len(wal))
      /\ DeliveredTo(slot') \/ slot' = slot
  <2>1. CASE BecomesVisible
    BY <2>1, WalFacts DEF BecomesVisible, SourceOK
  <2>2. CASE ConfirmSlot
    <3>1. PICK k \in cur.txn - 1 .. Len(wal) :
            LET safe == IF End(k) < SafePosition THEN End(k) ELSE SafePosition
            IN  safe > slot /\ slot' = safe
      BY <2>2 DEF ConfirmSlot
    <3>2. slot' <= SafePosition /\ slot' \in Nat /\ slot' > slot
      BY <3>1, StoredDelivered, WalFacts DEF StreamOK, End
    <3>3. DeliveredTo(slot')
      BY <3>2, StoredDelivered, WalFacts DEF DeliveredTo, End
    <3> QED
      BY <2>2, <3>2, <3>3, StoredDelivered, WalFacts DEF ConfirmSlot, SourceOK, End
  <2> QED
    BY <2>1, <2>2
<1>3. UNCHANGED <<settled, applied, buffer, earlier, kept>>
  BY <1>1 DEF taskVars, targetVars, crashVars, engineVars
<1>4. SourceOK'
  BY <1>1, <1>2, <1>3 DEF SourceOK
<1>5. LeftDelivered'
  <2>1. \A k \in DOMAIN wal : Delivered(k) => Delivered(k)'
    BY <1>1, <1>3, NothingSettled, DeliveredStays
  <2> QED
    BY <1>1, <1>2, <1>3, <2>1 DEF LeftDelivered, DeliveredTo
<1>6. DeliveryInv' /\ StreamedOK' /\ PositionsOK'
  BY <1>1, <1>3, SameDelivery, SameTrace
<1>7. StreamOK' /\ BufferOK' /\ WindowsOK' /\ LoadOK'
  BY <1>1 DEF StreamOK, BufferOK, WindowsOK, LoadOK, engineVars, loadVars
<1>8. MarksOK' /\ CrashOK'
  BY <1>1 DEF MarksOK, Unreported, CrashOK, Positions, engineVars, loadVars, crashVars, taskVars, targetVars
<1> QED
  BY <1>4, <1>5, <1>6, <1>7, <1>8

-----------------------------------------------------------------------------
(* The sink side, and what a crash leaves behind.                          *)

\* What a step of the sink side settles are operations that were handed over.
LEMMA StepSettles ==
  ASSUME DeliveryInv, DeliveryStep
  PROVE  /\ sent' = sent
         /\ \/ settled' = settled
            \/ \E i \in DOMAIN sent : \E S \in SUBSET Positions(i) : settled' = settled \cup OpsOf(i, S)
<1> USE DEF channelVars, accountVars, targetVars, ckptDocVars
<1>1. CASE \E i \in DOMAIN sent : \E S \in SUBSET Positions(i) : Try(i, S)
  BY <1>1 DEF Try
<1>2. ASSUME NEW i \in DOMAIN sent, NEW R \in SUBSET Positions(i), Answer(i, R)
      PROVE  sent' = sent /\ \E S \in SUBSET Positions(i) : settled' = settled \cup OpsOf(i, S)
  BY <1>2 DEF Answer
<1>3. CASE AccountWrite
  <2>1. sent' = sent /\ Oldest \in DOMAIN sent
        /\ settled' = settled \cup OpsOf(Oldest, Positions(Oldest))
    BY <1>3 DEF AccountWrite, AtFront
  <2> QED
    BY <2>1
<1>4. CASE AccountPosition \/ AccountMark \/ AccountTruncate \/ SinkEnds \/ Persist \/ Publish
  BY <1>4 DEF AccountPosition, AccountMark, AccountTruncate, SinkEnds, Persist, Publish
<1>5. CASE GiveUpWrite
  <2>1. sent' = sent
    BY <1>5 DEF GiveUpWrite, GiveUp
  <2>2. \/ settled' = settled
        \/ /\ Oldest \in DOMAIN sent
           /\ \E F \in SUBSET Positions(Oldest) : settled' = settled \cup OpsOf(Oldest, F)
    BY <1>5 DEF GiveUpWrite, AtFront
  <2> QED
    BY <2>1, <2>2
<1>6. CASE GiveUpTruncate
  BY <1>6 DEF GiveUpTruncate, GiveUp
<1> QED
  BY <1>1, <1>2, <1>3, <1>4, <1>5, <1>6 DEF DeliveryStep

\* Steps of the target and of the tasks behind it.
LEMMA BehindKept ==
  ASSUME PipelineInv, DeliveryInv', sent' = sent,
         UNCHANGED <<sourceVars, cur, engineVars, copyq, loadVars, applied, earlier, kept>>,
         orphans' \subseteq orphans,
         \/ settled' = settled
         \/ \E i \in DOMAIN sent : \E S \in SUBSET Positions(i) : settled' = settled \cup OpsOf(i, S)
  PROVE  PipelineInv'
<1> USE DEF PipelineInv
<1>1. \A s \in settled' : s[1] \in DOMAIN sent /\ s[2] \in Positions(s[1])
  <2>1. CASE settled' = settled
    BY <2>1 DEF CrashOK
  <2>2. ASSUME NEW i \in DOMAIN sent, NEW S \in SUBSET Positions(i), settled' = settled \cup OpsOf(i, S)
        PROVE  \A s \in settled' : s[1] \in DOMAIN sent /\ s[2] \in Positions(s[1])
    BY <2>2 DEF CrashOK, OpsOf
  <2> QED
    BY <2>1, <2>2
<1>2. CrashOK'
  BY <1>1 DEF CrashOK, Positions
<1>3. TargetGrows
  <2>1. settled \subseteq settled'
    OBVIOUS
  <2> QED
    BY <2>1 DEF TargetGrows, OpsSettled
<1>4. LeftDelivered'
  BY <1>3, LeftStays DEF sourceVars
<1>5. StreamedOK' /\ PositionsOK'
  BY SameTrace DEF sourceVars, engineVars
<1>6. SourceOK' /\ StreamOK'
  BY DEF SourceOK, StreamOK, sourceVars, engineVars
<1>7. BufferOK' /\ WindowsOK' /\ LoadOK'
  BY DEF BufferOK, WindowsOK, LoadOK, engineVars, loadVars
<1>8. MarksOK'
  BY DEF MarksOK, Unreported, engineVars, loadVars
<1> QED
  BY <1>2, <1>4, <1>5, <1>6, <1>7, <1>8

\* The sink and checkpoint tasks, the end of the engine, and what of an aborted
\* attempt still reaches the target.
LEMMA TasksKept ==
  ASSUME PipelineInv, TasksStep \/ Shutdown \/ OrphanLands \/ TargetForgets PROVE PipelineInv'
<1> USE DEF PipelineInv
<1>1. CASE TasksStep
  <2>1. DeliveryInv'
    BY <1>1, DeliveryStepInv DEF TasksStep, DeliveryNext
  <2> QED
    BY <1>1, <2>1, StepSettles, BehindKept DEF TasksStep, crashVars
<1>2. CASE Shutdown
  <2>1. DeliveryInv'
    BY <1>2, DeliveryStepInv DEF Shutdown, DeliveryNext
  <2> QED
    BY <1>2, <2>1, BehindKept DEF Shutdown, EngineCloses, targetVars, crashVars
<1>3. CASE OrphanLands
  <2>1. PICK ops \in orphans : /\ orphans' = orphans \ {ops}
                               /\ \E S \in SUBSET DOMAIN ops : docs' = Write(docs, ops, S)
    BY <1>3 DEF OrphanLands
  <2>2. docs \in Docs /\ ops \in Seq(Op)
    BY DEF DeliveryInv, DeliveryTypeOK, CrashOK
  <2>3. docs' \in Docs
    BY <2>1, <2>2, WriteType
  <2>4. UNCHANGED <<sent, closed, finished, sink, settled, acked, loadDone, persisted, durable>>
    BY <1>3 DEF OrphanLands, channelVars, accountVars, ckptDocVars
  <2>5. DeliveryInv'
    BY <2>3, <2>4, QuietInv DEF DeliveryInv, DeliveryTypeOK
  <2> QED
    BY <1>3, <2>1, <2>4, <2>5, BehindKept DEF OrphanLands
<1>4. CASE TargetForgets
  <2>1. docs' \in Docs
    BY <1>4 DEF TargetForgets, Collect, DeliveryInv, DeliveryTypeOK, Docs, Doc, NoDoc
  <2>2. UNCHANGED <<sent, closed, finished, sink, settled, acked, loadDone, persisted, durable>>
    BY <1>4 DEF TargetForgets, channelVars, accountVars, ckptDocVars
  <2>3. DeliveryInv'
    BY <2>1, <2>2, QuietInv DEF DeliveryInv, DeliveryTypeOK
  <2> QED
    BY <1>4, <2>2, <2>3, BehindKept DEF TargetForgets, crashVars
<1> QED
  BY <1>1, <1>2, <1>3, <1>4

\* The tasks of a new attempt, over the target as it is.
LEMMA FreshDelivery ==
  ASSUME docs \in Docs, FreshTasks
  PROVE  DeliveryInv'
<1>1. /\ sent' = <<>> /\ closed' = FALSE /\ finished' = 0 /\ settled' = {} /\ docs' = docs
      /\ acked' = 0 /\ loadDone' = 0 /\ persisted' = 0 /\ durable' = 0
      /\ sink' \in {"running", "halted"}
  BY DEF FreshTasks, StartOutcomes
<1>2. sent' \in Seq(Command) /\ sent' \in Seq(WellFormed) /\ Len(sent') = 0 /\ DOMAIN sent' = {}
  BY <1>1
<1>3. closed' \in BOOLEAN /\ settled' \subseteq Nat \X Nat
  BY <1>1
<1>4. DeliveryTypeOK'
  BY <1>1, <1>2, <1>3 DEF DeliveryTypeOK
<1> QED
  BY <1>1, <1>2, <1>4 DEF DeliveryInv, PrefixSettled, ChannelInOrder, AckedFromPrefix, MarkFromPrefix,
                          CheckpointFromPrefix

\* The load of a new attempt.
LEMMA FreshLoadType ==
  ASSUME NEW pc \in Stages
  PROVE  FreshLoad(pc) \in [pc : Stages, wave : Nat \ {0}, mark : Nat, at : [Ids -> Nat],
                            copied : SUBSET Ids]
<1>1. [id \in Ids |-> 0] \in [Ids -> Nat]
  OBVIOUS
<1> QED
  BY <1>1 DEF FreshLoad

\* The stream starts behind the slot, and everything up to the slot is delivered.
LEMMA AttemptKept == ASSUME PipelineInv, NewAttempt PROVE PipelineInv'
<1> USE DEF PipelineInv
<1>1. /\ FreshTasks /\ FreshEngine
      /\ cur' = [txn |-> ResumeAt, pos |-> 0]
      /\ orphans' = orphans \cup {sent[i].ops : i \in {n \in Window : Open(n)}}
      /\ applied' = applied \cup OpsSettled
      /\ kept' \in {0, SafePosition} /\ earlier' = Checkpoint
      /\ load' = FreshLoad(IF NeedsLoad THEN "start" ELSE "report")
      /\ UNCHANGED <<wal, visible, rows, slot, progress>>
      /\ sent' = <<>> /\ settled' = {}
  BY DEF NewAttempt, FreshTasks, sourceVars
<1>2. DOMAIN sent' = {} /\ Len(sent') = 0
  BY <1>1
<1>3. DeliveryInv'
  BY <1>1, FreshDelivery DEF DeliveryInv, DeliveryTypeOK
<1>4. SourceOK'
  BY <1>1, StoredDelivered, WalFacts DEF SourceOK, End
<1>5. /\ ResumeAt \in Nat \ {0} /\ ResumeAt <= Len(wal) + 1
      /\ \A k \in Nat : k < ResumeAt => End(k) <= slot
  BY WalFacts DEF ResumeAt, SourceOK, End
<1>6. StreamOK'
  <2>1. cur' \in [txn : Nat \ {0}, pos : Nat] /\ cur'.txn = ResumeAt /\ cur'.pos = 0
    BY <1>1, <1>5
  <2>2. txnOpen' = FALSE
    BY <1>1 DEF FreshEngine
  <2>3. cur'.txn <= Len(wal') => cur'.pos <= Len(wal'[cur'.txn]) + 1
    BY <1>1, <1>5, <2>1, WalFacts
  <2>4. txnOpen' \in BOOLEAN /\ (txnOpen' <=> cur'.pos > 0)
    <3>1. ~(cur'.pos > 0)
      BY <2>1
    <3> QED
      BY <2>2, <3>1, Zenon
  <2>5. cur'.txn <= Len(wal') + 1
    BY <1>1, <1>5, <2>1
  <2> QED
    BY <2>1, <2>3, <2>4, <2>5 DEF StreamOK
<1>7. BufferOK' /\ WindowsOK'
  <2>1. /\ buffer' = <<>> /\ bufferPos' = 0 /\ cleared' = 0 /\ superseded' = [id \in Ids |-> 0]
        /\ loadRunning' = TRUE /\ cur'.txn = ResumeAt
    BY <1>1 DEF FreshEngine
  <2>2. BatchSize \in Nat \ {0} /\ buffer' \in Seq(Op) /\ Len(buffer') = 0
    BY <2>1, PipelineAssumption
  <2> QED
    BY <1>2, <1>5, <2>1, <2>2 DEF BufferOK, WindowsOK, End, Ver
<1>8. LoadOK' /\ MarksOK'
  <2>1. copyq' = <<>> /\ pendingMark' = 0 /\ DOMAIN copyq' = {} /\ copyq' \in Seq(CopyEvents)
    BY <1>1 DEF FreshEngine
  <2>2. load' \in [pc : Stages, wave : Nat \ {0}, mark : Nat, at : [Ids -> Nat], copied : SUBSET Ids]
    BY <1>1, FreshLoadType DEF Stages
  <2>3. load'.wave = 1 /\ load'.pc \in {"start", "report"} /\ Len(Waves) \in Nat
    BY <1>1, PipelineAssumption DEF FreshLoad
  <2>4. LoadOK'
    BY <1>1, <2>1, <2>2, <2>3 DEF LoadOK
  <2> QED
    BY <1>2, <2>1, <2>4 DEF MarksOK
<1>9. CrashOK'
  <2>1. \A n \in Window : n \in DOMAIN sent /\ sent[n].ops \in Seq(Op)
    BY SentType DEF Window
  <2>2. OpsSettled \subseteq Op
    <3> SUFFICES ASSUME NEW s \in settled PROVE sent[s[1]].ops[s[2]] \in Op
      BY DEF OpsSettled
    <3>1. s[1] \in DOMAIN sent /\ s[2] \in DOMAIN sent[s[1]].ops
      BY DEF CrashOK, Positions
    <3> QED
      BY <3>1, SentType
  <2> QED
    BY <1>1, <2>1, <2>2 DEF CrashOK
<1>10. TargetGrows
  BY <1>1 DEF TargetGrows
<1>11. LeftDelivered'
  <2>1. /\ DeliveredTo(slot)
        /\ DeliveredTo(Checkpoint) /\ DeliveredTo(SafePosition)
    BY StoredDelivered DEF LeftDelivered
  <2>2. \A k \in DOMAIN wal : Delivered(k) => Delivered(k)'
    BY <1>1, <1>10, DeliveredStays
  <2>3. \A k \in DOMAIN wal : ~(End(k) <= 0)
    BY WalFacts DEF End
  <2> QED
    BY <1>1, <2>1, <2>2, <2>3 DEF LeftDelivered, DeliveredTo
<1>12. StreamedOK'
  <2> SUFFICES ASSUME NEW k \in Nat, NEW j \in Nat, IsRow(k, j)', Seen(k, j)'
               PROVE  \E op \in applied' : IsChange(op, k, j)'
    BY DEF StreamedOK, HandedBy
  <2>1. IsRow(k, j) /\ k < ResumeAt
    BY <1>1, <1>5 DEF IsRow, Seen
  <2>2. Delivered(k)
    BY <1>5, <2>1 DEF LeftDelivered, DeliveredTo, IsRow
  <2>3. PICK op \in applied \cup OpsSettled : IsChange(op, k, j)
    BY <2>1, <2>2 DEF Delivered, InTarget, IsChange, IsRow
  <2> QED
    BY <1>1, <2>3 DEF IsChange
<1>13. PositionsOK'
  BY <1>2 DEF PositionsOK
<1> QED
  BY <1>3, <1>4, <1>6, <1>7, <1>8, <1>9, <1>11, <1>12, <1>13

-----------------------------------------------------------------------------
(* The load.                                                               *)

\* A step of the load changes its own state, and adds events to its channel: rows
\* while no mark is under way, or the mark.
LEMMA LoadPartsKept ==
  ASSUME PipelineInv, LoadOK', MarksOK',
         UNCHANGED <<sent, taskVars, sourceVars, cur, engineVars, crashVars>>
  PROVE  PipelineInv'
<1> USE DEF PipelineInv
<1>1. UNCHANGED <<settled, applied, buffer, slot, earlier, kept, wal>>
  BY DEF taskVars, targetVars, crashVars, engineVars, sourceVars
<1>2. DeliveryInv' /\ StreamedOK' /\ PositionsOK'
  BY <1>1, SameDelivery, SameTrace
<1>3. LeftDelivered'
  BY <1>1, NothingSettled, LeftStays
<1>4. SourceOK' /\ StreamOK'
  BY DEF SourceOK, StreamOK, sourceVars, engineVars, crashVars
<1>5. BufferOK' /\ WindowsOK'
  BY DEF BufferOK, WindowsOK, engineVars
<1>6. CrashOK'
  BY DEF CrashOK, Positions, crashVars, taskVars, targetVars
<1> QED
  BY <1>2, <1>3, <1>4, <1>5, <1>6

\* While the load is not waiting for a mark, none is under way.
LEMMA NoMarkUnderWay ==
  ASSUME PipelineInv, load.pc # "wait"
  PROVE  pendingMark = 0 /\ \A x \in DOMAIN copyq : copyq[x].ev # "mark"
BY DEF PipelineInv, MarksOK

\* Nor is it once it has come back.
LEMMA NoMarkLeft ==
  ASSUME PipelineInv, loadDone >= load.mark
  PROVE  pendingMark = 0 /\ \A x \in DOMAIN copyq : copyq[x].ev # "mark"
<1> USE DEF PipelineInv
<1> SUFFICES ASSUME load.mark > 0, Unreported PROVE FALSE
  BY DEF MarksOK
<1>1. loadDone \in Nat /\ load.mark \in Nat /\ finished \in Nat /\ finished <= Len(sent)
      /\ DOMAIN sent = 1 .. Len(sent) /\ Len(sent) \in Nat
  BY DEF DeliveryInv, DeliveryTypeOK, LoadOK
<1>2. PICK n \in 1 .. finished : sent[n].kind = "mark" /\ sent[n].pos = loadDone
  BY <1>1 DEF DeliveryInv, MarkFromPrefix
<1>3. n \in DOMAIN sent /\ sent[n].pos < load.mark
  BY <1>1, <1>2 DEF Unreported
<1> QED
  BY <1>1, <1>2, <1>3

\* Without one under way, the marks are in order whatever the load does.
LEMMA IdleMarks ==
  ASSUME PipelineInv, UNCHANGED <<sent, pendingMark>>, pendingMark = 0,
         load'.mark = load.mark, \A x \in DOMAIN copyq' : copyq'[x].ev # "mark"
  PROVE  MarksOK'
BY DEF PipelineInv, MarksOK

\* backfill::run takes the progress stored for a table, or starts at its first wave.
LEMMA StartTableKept == ASSUME PipelineInv, StartTable PROVE PipelineInv'
<1> USE DEF PipelineInv
<1>1. UNCHANGED <<sent, taskVars, sourceVars, cur, engineVars, copyq, crashVars>>
  BY DEF StartTable
<1>2. /\ load.pc = "start"
      /\ progress' = [progress EXCEPT !.stored = TRUE]
      /\ load' = [load EXCEPT !.pc = IF progress.finished THEN "clear" ELSE AfterWave(progress.done),
                              !.wave = progress.done + 1]
  BY DEF StartTable
<1>3. Len(Waves) \in Nat
  BY PipelineAssumption
<1>4. LoadOK'
  <2>1. /\ AfterWave(progress.done) \in {"read", "finish"}
        /\ AfterWave(progress.done) = "read" => progress.done < Len(Waves)
    BY <1>3 DEF AfterWave, LoadOK
  <2> DEFINE pc == IF progress.finished THEN "clear" ELSE AfterWave(progress.done)
  <2>2. /\ load' = [pc |-> pc, wave |-> progress.done + 1, mark |-> load.mark,
                    at |-> load.at, copied |-> load.copied]
        /\ progress' = [stored |-> TRUE, done |-> progress.done, finished |-> progress.finished]
    BY <1>2 DEF LoadOK
  <2>3. /\ pc \in Stages /\ pc # "wait" /\ (pc = "read" => progress.done < Len(Waves))
        /\ progress.done \in 0 .. Len(Waves)
    BY <2>1 DEF LoadOK, Stages
  <2> HIDE DEF pc
  <2>4. /\ load' \in [pc : Stages, wave : Nat \ {0}, mark : Nat, at : [Ids -> Nat], copied : SUBSET Ids]
        /\ load'.pc = pc /\ load'.wave = progress.done + 1
    BY <1>3, <2>2, <2>3 DEF LoadOK
  <2>5. progress' \in [stored : BOOLEAN, done : 0 .. Len(Waves), finished : BOOLEAN]
    BY <2>2 DEF LoadOK
  <2> QED
    BY <1>1, <1>3, <2>3, <2>4, <2>5 DEF LoadOK
<1>5. MarksOK'
  BY <1>1, <1>2, NoMarkUnderWay, IdleMarks DEF LoadOK, engineVars
<1> QED
  BY <1>1, <1>4, <1>5, LoadPartsKept

\* The position a range will be stamped with is read (current_lsn).
LEMMA ReadKept == ASSUME PipelineInv, NEW id \in Ids, ReadPosition(id) PROVE PipelineInv'
<1> USE DEF PipelineInv
<1>1. /\ UNCHANGED <<sent, taskVars, sourceVars, cur, engineVars, copyq, progress, crashVars>>
      /\ load.pc = "read"
  BY DEF ReadPosition
<1>2. PICK at \in Nat : load' = [load EXCEPT !.at[id] = at]
  <2>1. End(Len(wal)) \in Nat /\ Ver(Len(wal) + 1) \in Nat
    BY WalFacts DEF End, Ver
  <2> QED
    BY <2>1 DEF ReadPosition
<1>3. LoadOK'
  BY <1>1, <1>2 DEF LoadOK
<1>4. MarksOK'
  BY <1>1, <1>2, NoMarkUnderWay, IdleMarks DEF LoadOK, engineVars
<1> QED
  BY <1>1, <1>3, <1>4, LoadPartsKept

\* The rows of a range go to the engine (read_range).
LEMMA CopyKept == ASSUME PipelineInv, NEW id \in Ids, CopyRange(id) PROVE PipelineInv'
<1> USE DEF PipelineInv
<1> DEFINE body == rows[visible][id]
           row == [ev |-> "row", op |-> [id |-> id, val |-> body, ver |-> load.at[id]]]
<1>1. /\ UNCHANGED <<sent, taskVars, sourceVars, cur, engineVars, progress, crashVars>>
      /\ load.pc = "read"
      /\ load' = [load EXCEPT !.copied = @ \cup {id}]
      /\ copyq' \in IF body = Absent THEN {copyq}
                    ELSE {copyq \o <<row>>, copyq \o <<row, [ev |-> "boundary"]>>}
  BY DEF CopyRange
<1>2. body # Absent => row \in CopyEvents /\ row.ev # "mark"
  <2>1. body \in Vals \cup {Absent}
    BY WalFacts DEF SourceOK
  <2>2. load.at[id] \in Nat
    BY DEF LoadOK
  <2> QED
    BY <2>1, <2>2 DEF CopyEvents, Op
<1>3. [ev |-> "boundary"] \in CopyEvents /\ [ev |-> "boundary"].ev # "mark"
  BY DEF CopyEvents
<1> HIDE DEF row
<1>4. copyq' \in Seq(CopyEvents) /\ \A x \in DOMAIN copyq' : copyq'[x].ev # "mark"
  <2>1. copyq \in Seq(CopyEvents) /\ \A x \in DOMAIN copyq : copyq[x].ev # "mark"
    BY <1>1, NoMarkUnderWay DEF LoadOK
  <2>2. CASE body = Absent
    BY <1>1, <2>1, <2>2
  <2>3. CASE body # Absent /\ copyq' = copyq \o <<row>>
    BY <1>2, <2>1, <2>3
  <2>4. CASE body # Absent /\ copyq' = copyq \o <<row, [ev |-> "boundary"]>>
    <3>1. <<row, [ev |-> "boundary"]>> \in Seq(CopyEvents)
      BY <1>2, <1>3, <2>4
    <3>2. copyq' \in Seq(CopyEvents) /\ Len(copyq) \in Nat /\ DOMAIN copyq = 1 .. Len(copyq)
      BY <2>1, <2>4, <3>1
    <3>3. DOMAIN copyq' = 1 .. Len(copyq) + 2
      BY <2>1, <2>4, <3>1
    <3>4. \A x \in DOMAIN copyq : copyq'[x] = copyq[x]
      BY <2>1, <2>4, <3>1
    <3>5. copyq'[Len(copyq) + 1] = row /\ copyq'[Len(copyq) + 2] = [ev |-> "boundary"]
      BY <2>1, <2>4, <3>1
    <3>6. ASSUME NEW x \in DOMAIN copyq' PROVE copyq'[x].ev # "mark"
      <4>1. x \in DOMAIN copyq \/ x = Len(copyq) + 1 \/ x = Len(copyq) + 2
        BY <3>2, <3>3
      <4> QED
        BY <1>2, <1>3, <2>1, <2>4, <3>4, <3>5, <4>1
    <3> QED
      BY <3>2, <3>6
  <2> QED
    BY <1>1, <2>2, <2>3, <2>4
<1>5. LoadOK'
  BY <1>1, <1>4 DEF LoadOK
<1>6. MarksOK'
  BY <1>1, <1>4, NoMarkUnderWay, IdleMarks DEF LoadOK, engineVars
<1> QED
  BY <1>1, <1>5, <1>6, LoadPartsKept

\* The mark goes behind the rows of its wave.
LEMMA SendMarkKept == ASSUME PipelineInv, SendMark PROVE PipelineInv'
<1> USE DEF PipelineInv
<1>1. /\ UNCHANGED <<sent, taskVars, sourceVars, cur, engineVars, progress, crashVars>>
      /\ load.pc = "read"
      /\ load' = [load EXCEPT !.pc = "wait", !.mark = @ + 1]
      /\ copyq' = Append(copyq, [ev |-> "mark", mark |-> load.mark + 1])
  BY DEF SendMark
<1>2. load.mark \in Nat /\ load'.mark = load.mark + 1 /\ load'.pc = "wait"
  BY <1>1 DEF LoadOK
<1>3. [ev |-> "mark", mark |-> load.mark + 1] \in CopyEvents
  BY <1>2 DEF CopyEvents
<1>4. LoadOK'
  <2>1. load' = [pc |-> "wait", wave |-> load.wave, mark |-> load.mark + 1,
                 at |-> load.at, copied |-> load.copied]
    BY <1>1 DEF LoadOK
  <2>2. copyq' \in Seq(CopyEvents)
    BY <1>1, <1>3 DEF LoadOK
  <2>3. load' \in [pc : Stages, wave : Nat \ {0}, mark : Nat, at : [Ids -> Nat], copied : SUBSET Ids]
    BY <1>2, <2>1 DEF LoadOK, Stages
  <2>4. load'.wave = load.wave /\ load.wave <= Len(Waves)
    BY <1>1, <2>1 DEF LoadOK
  <2> QED
    BY <1>1, <2>2, <2>3, <2>4 DEF LoadOK
<1>5. pendingMark = 0 /\ pendingMark' = 0 /\ \A x \in DOMAIN copyq : copyq[x].ev # "mark"
  BY <1>1, NoMarkUnderWay DEF engineVars
<1>6. /\ copyq \in Seq(CopyEvents) /\ Len(copyq) \in Nat
      /\ Len(copyq') = Len(copyq) + 1
      /\ \A x \in DOMAIN copyq' : x = Len(copyq) + 1 \/ (x \in DOMAIN copyq /\ copyq'[x] = copyq[x])
      /\ copyq'[Len(copyq) + 1] = [ev |-> "mark", mark |-> load.mark + 1]
  BY <1>1 DEF LoadOK
<1>7. Unreported'
  <2>1. \A i \in DOMAIN sent : sent[i].kind = "mark" => sent[i].pos <= load.mark /\ sent[i].pos \in Nat
    BY SentType DEF MarksOK
  <2> QED
    BY <1>1, <1>2, <2>1 DEF Unreported
<1>8. MarksOK'
  <2>1. \A i \in DOMAIN sent' : sent'[i].kind = "mark" => sent'[i].pos <= load'.mark
    <3>1. \A i \in DOMAIN sent : sent[i].kind = "mark" => sent[i].pos <= load.mark /\ sent[i].pos \in Nat
      BY SentType DEF MarksOK
    <3> QED
      BY <1>1, <1>2, <3>1
  <2>2. \A x \in DOMAIN copyq' : copyq'[x].ev = "mark" =>
          /\ x = Len(copyq') /\ copyq'[x].mark = load'.mark /\ load'.mark > 0
          /\ load'.pc = "wait" /\ pendingMark' = 0 /\ Unreported'
    BY <1>2, <1>5, <1>6, <1>7
  <2> QED
    BY <1>5, <2>1, <2>2 DEF MarksOK
<1> QED
  BY <1>1, <1>4, <1>8, LoadPartsKept

\* The progress is stored once the mark has come back.
LEMMA RecordKept == ASSUME PipelineInv, RecordProgress PROVE PipelineInv'
<1> USE DEF PipelineInv
<1>1. /\ UNCHANGED <<sent, taskVars, sourceVars, cur, engineVars, copyq, crashVars>>
      /\ load.pc = "wait" /\ loadDone >= load.mark
      /\ progress' = [progress EXCEPT !.done = load.wave]
      /\ load' = [load EXCEPT !.pc = AfterWave(load.wave),
                              !.wave = @ + 1,
                              !.at = [id \in Ids |-> 0],
                              !.copied = {}]
  BY DEF RecordProgress
<1>2. Len(Waves) \in Nat
  BY PipelineAssumption
<1>3. LoadOK'
  <2>1. /\ AfterWave(load.wave) \in {"read", "finish"}
        /\ AfterWave(load.wave) = "read" => load.wave < Len(Waves)
        /\ load.wave <= Len(Waves) /\ load.wave \in Nat \ {0}
    BY <1>1, <1>2 DEF AfterWave, LoadOK
  <2>2. [id \in Ids |-> 0] \in [Ids -> Nat]
    OBVIOUS
  <2>3. load' \in [pc : Stages, wave : Nat \ {0}, mark : Nat, at : [Ids -> Nat], copied : SUBSET Ids]
    <3>1. load' = [pc |-> AfterWave(load.wave), wave |-> load.wave + 1, mark |-> load.mark,
                   at |-> [id \in Ids |-> 0], copied |-> {}]
      BY <1>1 DEF LoadOK
    <3>2. AfterWave(load.wave) \in Stages /\ load.mark \in Nat /\ load.wave + 1 \in Nat \ {0}
      BY <2>1 DEF LoadOK, Stages
    <3> QED
      BY <2>2, <3>1, <3>2
  <2>4. load'.pc = AfterWave(load.wave) /\ load'.wave = load.wave + 1
    BY <1>1 DEF LoadOK
  <2>5. progress' \in [stored : BOOLEAN, done : 0 .. Len(Waves), finished : BOOLEAN]
    <3>1. load.wave \in 0 .. Len(Waves)
      BY <1>2, <2>1
    <3>2. progress \in [stored : BOOLEAN, done : 0 .. Len(Waves), finished : BOOLEAN]
      BY DEF LoadOK
    <3> QED
      BY ONLY <1>1, <3>1, <3>2
  <2> QED
    BY <1>1, <1>2, <2>1, <2>3, <2>4, <2>5 DEF LoadOK
<1>4. MarksOK'
  BY <1>1, NoMarkLeft, IdleMarks DEF LoadOK, engineVars
<1> QED
  BY <1>1, <1>3, <1>4, LoadPartsKept

\* The table is finished, its progress cleared, and the end of the load reported.
LEMMA EndsKept ==
  ASSUME PipelineInv, FinishTable \/ ClearProgress \/ ReportLoaded PROVE PipelineInv'
<1> USE DEF PipelineInv
<1>1. /\ UNCHANGED <<sent, taskVars, sourceVars, cur, engineVars, crashVars>>
      /\ load.pc # "wait"
      /\ load' \in {[load EXCEPT !.pc = pc] : pc \in {"clear", "report", "done"}}
      /\ progress' \in {progress, NoProgress, [progress EXCEPT !.finished = TRUE]}
      /\ copyq' \in {copyq, Append(copyq, [ev |-> "finished"])}
  BY DEF FinishTable, ClearProgress, ReportLoaded
<1>2. PICK pc \in {"clear", "report", "done"} : load' = [load EXCEPT !.pc = pc]
  BY <1>1
<1>3. [ev |-> "finished"] \in CopyEvents /\ [ev |-> "finished"].ev # "mark"
  BY DEF CopyEvents
<1>4. copyq' \in Seq(CopyEvents) /\ \A x \in DOMAIN copyq' : copyq'[x].ev # "mark"
  <2>1. copyq \in Seq(CopyEvents) /\ \A x \in DOMAIN copyq : copyq[x].ev # "mark"
    BY <1>1, NoMarkUnderWay DEF LoadOK
  <2>2. CASE copyq' = copyq
    BY <2>1, <2>2
  <2>3. CASE copyq' = Append(copyq, [ev |-> "finished"])
    BY <1>3, <2>1, <2>3
  <2> QED
    BY <1>1, <2>2, <2>3
<1>5. LoadOK'
  <2>1. progress' \in [stored : BOOLEAN, done : 0 .. Len(Waves), finished : BOOLEAN]
    <3>1. progress \in [stored : BOOLEAN, done : 0 .. Len(Waves), finished : BOOLEAN] /\ Len(Waves) \in Nat
      BY PipelineAssumption DEF LoadOK
    <3>2. CASE progress' = NoProgress
      BY <3>1, <3>2 DEF NoProgress
    <3>3. CASE progress' = [progress EXCEPT !.finished = TRUE]
      <4>1. progress' = [stored |-> progress.stored, done |-> progress.done, finished |-> TRUE]
        BY <3>1, <3>3
      <4> QED
        BY <3>1, <4>1
    <3> QED
      BY <1>1, <3>1, <3>2, <3>3
  <2>2. /\ load' \in [pc : Stages, wave : Nat \ {0}, mark : Nat, at : [Ids -> Nat], copied : SUBSET Ids]
        /\ load'.wave = load.wave /\ load'.pc \notin {"read", "wait"}
    BY <1>2 DEF LoadOK, Stages
  <2> QED
    BY <1>4, <2>1, <2>2 DEF LoadOK
<1>6. MarksOK'
  <2>1. load'.mark = load.mark
    BY <1>2 DEF LoadOK
  <2> QED
    BY <1>1, <1>4, <2>1, NoMarkUnderWay, IdleMarks DEF engineVars
<1> QED
  BY <1>1, <1>5, <1>6, LoadPartsKept

\* Every step of the load keeps the invariant.
LEMMA LoadKept == ASSUME PipelineInv, LoadStep PROVE PipelineInv'
BY StartTableKept, ReadKept, CopyKept, SendMarkKept, RecordKept, EndsKept DEF LoadStep

-----------------------------------------------------------------------------
(* The engine: what each of its steps does, whichever event it takes.      *)

\* Change j of transaction k is in the buffer afterwards, or in the first command.
Carried(cmds, k, j) == InOps(buffer', k, j) \/ (cmds # <<>> /\ InOps(cmds[1].ops, k, j))

\* What was buffered, and the row just taken, is carried on, and a position goes
\* out with the whole buffer and covers only what the stream is past.
KeepsTrace(cmds) ==
  \A k, j \in Nat : IsRow(k, j) =>
    /\ InOps(buffer, k, j) \/ (Seen(k, j)' /\ ~Seen(k, j)) => Carried(cmds, k, j)
    /\ \A n \in DOMAIN cmds : CarriesPosition(cmds[n]) /\ End(k) <= cmds[n].pos =>
         Seen(k, j) /\ (InOps(buffer, k, j) => InOps(cmds[1].ops, k, j))

\* The commands go behind the ones there are.
GoesBehind(cmds) ==
  \A n \in DOMAIN cmds :
    /\ CarriesPosition(cmds[n]) =>
         /\ n = 1 /\ cmds[n].pos <= End(cur'.txn - 1)
         /\ cmds[n].pos = bufferPos \/ cmds[n].pos >= End(cur.txn - 1)
    /\ cmds[n].kind = "mark" => n = Len(cmds) /\ cmds[n].pos = load.mark /\ Unreported

BufferMoves(cmds) ==
  /\ buffer' \in Seq(Op) /\ Len(buffer') < BatchSize
  /\ bufferPos' \in Nat /\ (buffer' = <<>> => bufferPos' = 0)
  /\ \/ bufferPos' \in {0, bufferPos}
     \/ bufferPos' >= End(cur.txn - 1) /\ bufferPos' <= End(cur'.txn - 1)
  /\ cmds # <<>> => bufferPos' = 0

\* No mark is handed over, the one under way is, or it is held back.
MarksMove(cmds) ==
  /\ copyq' = copyq \/ (copyq # <<>> /\ copyq' = Tail(copyq))
  /\ \/ /\ \A n \in DOMAIN cmds : cmds[n].kind # "mark"
        /\ pendingMark' = pendingMark
        /\ pendingMark > 0 => copyq' = copyq /\ (txnOpen' \/ buffer' # <<>>)
     \/ pendingMark' = 0 /\ \A x \in DOMAIN copyq' : copyq'[x].ev # "mark"
     \/ /\ cmds = <<>> /\ copyq' = <<>>
        /\ pendingMark' = load.mark /\ load.pc = "wait" /\ Unreported /\ txnOpen'

EngineMoves(cmds) ==
  /\ cmds \in Seq(WellFormed) /\ sent' = sent \o cmds
  /\ UNCHANGED <<taskVars, sourceVars, loadVars, crashVars>>
  /\ cur.txn <= cur'.txn
  /\ KeepsTrace(cmds) /\ GoesBehind(cmds) /\ BufferMoves(cmds) /\ MarksMove(cmds)

\* The commands behind the ones there are.
LEMMA SentGrows ==
  ASSUME DeliveryInv, NEW cmds \in Seq(WellFormed), sent' = sent \o cmds
  PROVE  /\ Len(sent) \in Nat /\ DOMAIN sent = 1 .. Len(sent)
         /\ Len(cmds) \in Nat /\ DOMAIN cmds = 1 .. Len(cmds)
         /\ Len(sent') = Len(sent) + Len(cmds) /\ DOMAIN sent' = 1 .. Len(sent')
         /\ \A i \in DOMAIN sent : i \in DOMAIN sent' /\ sent'[i] = sent[i]
         /\ \A n \in DOMAIN cmds : Len(sent) + n \in DOMAIN sent' /\ sent'[Len(sent) + n] = cmds[n]
         /\ \A i \in DOMAIN sent' : \/ i \in DOMAIN sent /\ sent'[i] = sent[i]
                                    \/ i - Len(sent) \in DOMAIN cmds /\ sent'[i] = cmds[i - Len(sent)]
<1>1. /\ Len(sent) \in Nat /\ DOMAIN sent = 1 .. Len(sent)
      /\ Len(cmds) \in Nat /\ DOMAIN cmds = 1 .. Len(cmds)
      /\ Len(sent') = Len(sent) + Len(cmds) /\ DOMAIN sent' = 1 .. Len(sent')
  BY DEF DeliveryInv
<1>2. \A i \in DOMAIN sent : i \in DOMAIN sent' /\ sent'[i] = sent[i]
  BY DEF DeliveryInv
<1>3. \A i \in DOMAIN sent' : i > Len(sent) => sent'[i] = cmds[i - Len(sent)]
  BY DEF DeliveryInv
<1>4. ASSUME NEW n \in DOMAIN cmds PROVE Len(sent) + n \in DOMAIN sent' /\ sent'[Len(sent) + n] = cmds[n]
  <2>1. Len(sent) + n \in DOMAIN sent' /\ Len(sent) + n > Len(sent) /\ (Len(sent) + n) - Len(sent) = n
    BY <1>1
  <2> QED
    BY <1>3, <2>1
<1>5. ASSUME NEW i \in DOMAIN sent'
      PROVE  \/ i \in DOMAIN sent /\ sent'[i] = sent[i]
             \/ i - Len(sent) \in DOMAIN cmds /\ sent'[i] = cmds[i - Len(sent)]
  <2>1. CASE i <= Len(sent)
    BY <1>1, <1>2, <2>1
  <2>2. CASE i > Len(sent)
    BY <1>1, <1>3, <2>2
  <2> QED
    BY <1>1, <2>1, <2>2
<1> QED
  BY <1>1, <1>2, <1>4, <1>5, Zenon

\* The commands of an engine step, command by command.
LEMMA CommandType ==
  ASSUME NEW cmds \in Seq(WellFormed), NEW n \in DOMAIN cmds
  PROVE  n \in Nat \ {0} /\ cmds[n].pos \in Nat /\ cmds[n].ops \in Seq(Op)
BY DEF WellFormed, Command

\* The commands of an engine step go behind the ones handed over before.
LEMMA OrderKept ==
  ASSUME PipelineInv, NEW cmds, EngineMoves(cmds) PROVE DeliveryInv'
<1> USE DEF PipelineInv
<1>1. /\ cmds \in Seq(WellFormed) /\ sent' = sent \o cmds /\ GoesBehind(cmds)
      /\ UNCHANGED <<closed, finished, sink, docs, settled, acked, loadDone, persisted, durable>>
  BY DEF EngineMoves, taskVars, accountVars, targetVars, ckptDocVars
<1>2. ASSUME NEW i \in DOMAIN sent, NEW n \in DOMAIN cmds PROVE Follows(sent[i], cmds[n])
  <2>1. ASSUME CarriesPosition(sent[i]), CarriesPosition(cmds[n]) PROVE sent[i].pos <= cmds[n].pos
    <3>1. /\ sent[i].pos \in Nat /\ cmds[n].pos \in Nat /\ cmds[n].pos > 0
          /\ cmds[n].pos = bufferPos \/ cmds[n].pos >= End(cur.txn - 1)
      BY <1>1, <2>1, SentType, CommandType DEF GoesBehind, CarriesPosition
    <3>2. sent[i].pos <= End(cur.txn - 1) /\ (bufferPos > 0 => sent[i].pos <= bufferPos)
      BY <2>1 DEF BufferOK
    <3>3. End(cur.txn - 1) \in Int
      BY DEF StreamOK, End
    <3> QED
      BY <3>1, <3>2, <3>3
  <2>2. ASSUME sent[i].kind = "mark", cmds[n].kind = "mark" PROVE sent[i].pos < cmds[n].pos
    BY <1>1, <2>2 DEF GoesBehind, Unreported
  <2> QED
    BY <2>1, <2>2 DEF Follows
<1>3. ASSUME NEW m \in DOMAIN cmds, NEW n \in DOMAIN cmds, m < n PROVE Follows(cmds[m], cmds[n])
  <2>1. m \in Nat /\ n \in Nat /\ Len(cmds) \in Nat /\ n <= Len(cmds) /\ m >= 1
    BY <1>1
  <2> QED
    BY <1>1, <1>3, <2>1 DEF GoesBehind, Follows
<1> QED
  BY <1>1, <1>2, <1>3, HandsInv

\* The buffered position stays between what was handed over and the stream.
LEMMA BufferKept ==
  ASSUME PipelineInv, NEW cmds, EngineMoves(cmds), StreamOK' PROVE BufferOK'
<1> USE DEF PipelineInv
<1>1. /\ cmds \in Seq(WellFormed) /\ sent' = sent \o cmds /\ GoesBehind(cmds) /\ BufferMoves(cmds)
      /\ cur.txn <= cur'.txn
  BY DEF EngineMoves
<1>2. /\ cur.txn \in Nat \ {0} /\ cur'.txn \in Nat \ {0}
      /\ End(cur.txn - 1) \in Nat /\ End(cur'.txn - 1) \in Nat
      /\ End(cur.txn - 1) <= End(cur'.txn - 1)
  <2>1. cur.txn \in Nat \ {0}
    BY DEF StreamOK
  <2>2. cur'.txn \in Nat \ {0}
    BY DEF StreamOK
  <2>3. ASSUME NEW m \in Nat \ {0}, NEW n \in Nat \ {0}, m <= n
        PROVE  End(m - 1) \in Nat /\ End(n - 1) \in Nat /\ End(m - 1) <= End(n - 1)
    BY <2>3 DEF End
  <2> QED
    BY ONLY <1>1, <2>1, <2>2, <2>3
<1>3. bufferPos' <= End(cur'.txn - 1)
  BY <1>1, <1>2 DEF BufferMoves, BufferOK
<1>4. ASSUME NEW i \in DOMAIN sent', CarriesPosition(sent'[i])
      PROVE  sent'[i].pos <= End(cur'.txn - 1) /\ (bufferPos' > 0 => sent'[i].pos <= bufferPos')
  <2>1. CASE i \in DOMAIN sent /\ sent'[i] = sent[i]
    <3>1. /\ sent[i].pos \in Nat /\ sent[i].pos <= End(cur.txn - 1)
          /\ bufferPos > 0 => sent[i].pos <= bufferPos
      BY <1>4, <2>1, SentType DEF BufferOK
    <3>2. bufferPos' \in Nat
      BY <1>1 DEF BufferMoves
    <3>3. \/ bufferPos' = 0 \/ bufferPos' = bufferPos
          \/ bufferPos' >= End(cur.txn - 1)
      BY <1>1 DEF BufferMoves
    <3> QED
      BY <1>2, <2>1, <3>1, <3>2, <3>3
  <2>2. CASE i - Len(sent) \in DOMAIN cmds /\ sent'[i] = cmds[i - Len(sent)]
    <3>1. cmds # <<>>
      BY <1>1, <2>2
    <3> QED
      BY <1>1, <1>4, <2>2, <3>1 DEF GoesBehind, BufferMoves
  <2> QED
    BY <1>1, <2>1, <2>2, SentGrows
<1> QED
  BY <1>1, <1>3, <1>4 DEF BufferOK, BufferMoves

\* The mark under way is in one place: the load, the copy queue, the engine, or
\* the commands.
LEMMA MarksKept ==
  ASSUME PipelineInv, NEW cmds, EngineMoves(cmds) PROVE MarksOK' /\ copyq' \in Seq(CopyEvents)
<1> USE DEF PipelineInv
<1>1. /\ cmds \in Seq(WellFormed) /\ sent' = sent \o cmds /\ GoesBehind(cmds) /\ MarksMove(cmds)
      /\ load' = load
  BY DEF EngineMoves, loadVars
<1>2. load.mark \in Nat
  BY DEF LoadOK
<1>3. \A i \in DOMAIN sent' : sent'[i].kind = "mark" => sent'[i].pos <= load.mark
  <2> SUFFICES ASSUME NEW i \in DOMAIN sent', sent'[i].kind = "mark" PROVE sent'[i].pos <= load.mark
    OBVIOUS
  <2>1. CASE i \in DOMAIN sent /\ sent'[i] = sent[i]
    BY <2>1 DEF MarksOK
  <2>2. CASE i - Len(sent) \in DOMAIN cmds /\ sent'[i] = cmds[i - Len(sent)]
    BY <1>1, <1>2, <2>2 DEF GoesBehind
  <2> QED
    BY <1>1, <2>1, <2>2, SentGrows
<1>4. ASSUME \A n \in DOMAIN cmds : cmds[n].kind # "mark", Unreported PROVE Unreported'
  <2> SUFFICES ASSUME NEW i \in DOMAIN sent', sent'[i].kind = "mark" PROVE sent'[i].pos < load.mark
    BY <1>1 DEF Unreported
  <2>1. i \in DOMAIN sent /\ sent'[i] = sent[i]
    BY <1>1, <1>4, SentGrows
  <2> QED
    BY <1>4, <2>1 DEF Unreported
<1>5. /\ copyq \in Seq(CopyEvents) /\ copyq' \in Seq(CopyEvents) /\ Len(copyq) \in Nat
      /\ DOMAIN copyq = 1 .. Len(copyq) /\ DOMAIN copyq' \subseteq Nat
  <2>1. copyq \in Seq(CopyEvents)
    BY DEF LoadOK
  <2>2. CASE copyq' = copyq
    BY <2>1, <2>2
  <2>3. CASE copyq # <<>> /\ copyq' = Tail(copyq)
    <3>1. copyq' \in Seq(CopyEvents)
      BY <2>1, <2>3
    <3> QED
      BY <2>1, <3>1
  <2> QED
    BY <1>1, <2>2, <2>3 DEF MarksMove
<1>10. \/ copyq' = copyq
       \/ /\ Len(copyq') = Len(copyq) - 1
          /\ \A x \in DOMAIN copyq' : x + 1 \in DOMAIN copyq /\ copyq'[x] = copyq[x + 1]
  <2>1. CASE copyq # <<>> /\ copyq' = Tail(copyq)
    <3>1. Len(copyq) > 0 /\ Len(copyq') = Len(copyq) - 1
      BY <1>5, <2>1
    <3>2. DOMAIN copyq' = 1 .. Len(copyq) - 1
      BY <1>5, <2>1
    <3>3. \A x \in DOMAIN copyq' : copyq'[x] = copyq[x + 1]
      BY <1>5, <2>1
    <3> QED
      BY <1>5, <3>1, <3>2, <3>3
  <2> QED
    BY <1>1, <2>1 DEF MarksMove
<1>6. pendingMark \in Nat /\ pendingMark' \in Nat
  BY <1>1, <1>2 DEF MarksMove, MarksOK
<1>7. CASE /\ \A n \in DOMAIN cmds : cmds[n].kind # "mark"
           /\ pendingMark' = pendingMark
           /\ pendingMark > 0 => copyq' = copyq /\ (txnOpen' \/ buffer' # <<>>)
  <2>1. ASSUME NEW x \in DOMAIN copyq', copyq'[x].ev = "mark"
        PROVE  /\ x = Len(copyq') /\ copyq'[x].mark = load.mark /\ load.mark > 0
               /\ load.pc = "wait" /\ pendingMark' = 0 /\ Unreported'
    <3>1. CASE copyq' = copyq
      BY <1>4, <1>7, <2>1, <3>1 DEF MarksOK
    <3>2. CASE /\ Len(copyq') = Len(copyq) - 1
               /\ x + 1 \in DOMAIN copyq /\ copyq'[x] = copyq[x + 1]
      <4>1. /\ x + 1 = Len(copyq) /\ copyq[x + 1].mark = load.mark /\ load.mark > 0
            /\ load.pc = "wait" /\ pendingMark = 0 /\ Unreported
        BY <2>1, <3>2 DEF MarksOK
      <4>2. x \in Nat
        BY <1>5
      <4> QED
        BY <1>4, <1>5, <1>7, <3>2, <4>1, <4>2
    <3> QED
      BY <1>10, <2>1, <3>1, <3>2
  <2>2. pendingMark' > 0 =>
          /\ pendingMark' = load.mark /\ load.pc = "wait" /\ copyq' = <<>> /\ Unreported'
          /\ txnOpen' \/ buffer' # <<>>
    BY <1>4, <1>7 DEF MarksOK
  <2> QED
    BY <1>1, <1>3, <1>5, <1>6, <2>1, <2>2 DEF MarksOK
<1>8. CASE pendingMark' = 0 /\ \A x \in DOMAIN copyq' : copyq'[x].ev # "mark"
  <2>1. ~(pendingMark' > 0)
    BY <1>8
  <2> QED
    BY <1>1, <1>3, <1>5, <1>6, <1>8, <2>1 DEF MarksOK
<1>9. CASE /\ cmds = <<>> /\ copyq' = <<>>
           /\ pendingMark' = load.mark /\ load.pc = "wait" /\ Unreported /\ txnOpen'
  <2>1. DOMAIN copyq' = {}
    BY <1>9
  <2>2. Unreported'
    BY <1>4, <1>9
  <2> QED
    BY <1>1, <1>3, <1>5, <1>6, <1>9, <2>1, <2>2 DEF MarksOK
<1> QED
  BY <1>1, <1>5, <1>7, <1>8, <1>9 DEF MarksMove

\* No row the stream is past gets lost in an engine step, and a position goes out
\* behind everything it covers.
LEMMA TraceKept ==
  ASSUME PipelineInv, NEW cmds, EngineMoves(cmds) PROVE StreamedOK' /\ PositionsOK'
<1> USE DEF PipelineInv
<1>1. /\ cmds \in Seq(WellFormed) /\ sent' = sent \o cmds /\ KeepsTrace(cmds) /\ GoesBehind(cmds)
      /\ wal' = wal /\ applied' = applied
  BY DEF EngineMoves, sourceVars, crashVars
<1>2. ASSUME NEW n \in Nat, NEW k \in Nat, NEW j \in Nat, NEW N \in Nat, n <= Len(sent), n <= N,
             HandedBy(n, k, j)
      PROVE  HandedBy(N, k, j)'
  <2>1. \A i \in 1 .. n : i \in 1 .. N /\ sent'[i] = sent[i]
    BY <1>1, <1>2, SentGrows
  <2>2. CASE \E op \in applied : IsChange(op, k, j)
    BY <1>1, <2>2 DEF HandedBy, IsChange
  <2>3. ASSUME NEW i \in 1 .. n, NEW m \in DOMAIN sent[i].ops, IsChange(sent[i].ops[m], k, j)
        PROVE  HandedBy(N, k, j)'
    <3>1. i \in 1 .. N /\ m \in DOMAIN sent'[i].ops /\ IsChange(sent'[i].ops[m], k, j)
      BY <2>1, <2>3
    <3> QED
      BY <1>1, <3>1 DEF HandedBy, InOps, IsChange
  <2> QED
    BY <1>2, <2>2, <2>3 DEF HandedBy, InOps
<1>3. ASSUME NEW k \in Nat, NEW j \in Nat, NEW N \in Nat, cmds # <<>>, N > Len(sent),
             InOps(cmds[1].ops, k, j)
      PROVE  HandedBy(N, k, j)'
  <2>1. 1 \in DOMAIN cmds
    BY <1>1, <1>3
  <2>2. sent'[Len(sent) + 1] = cmds[1] /\ Len(sent) + 1 \in 1 .. N
    BY <1>1, <1>3, <2>1, SentGrows
  <2>3. InOps(sent'[Len(sent) + 1].ops, k, j)
    BY <1>3, <2>2
  <2> QED
    BY <1>1, <2>2, <2>3 DEF HandedBy, InOps, IsChange
<1>4. StreamedOK'
  <2> SUFFICES ASSUME NEW k \in Nat, NEW j \in Nat, IsRow(k, j)', Seen(k, j)'
               PROVE  (HandedBy(Len(sent), k, j) \/ InOps(buffer, k, j))'
    BY DEF StreamedOK
  <2>1. IsRow(k, j)
    BY <1>1 DEF IsRow
  <2>2. Len(sent) \in Nat /\ Len(sent') \in Nat /\ Len(sent) <= Len(sent')
        /\ (cmds # <<>> => Len(sent') > Len(sent))
    BY <1>1, SentGrows
  <2>3. CASE HandedBy(Len(sent), k, j)
    BY <1>2, <2>2, <2>3
  <2>4. CASE Carried(cmds, k, j)
    <3>1. CASE InOps(buffer', k, j)
      BY <1>1, <3>1 DEF InOps, IsChange
    <3>2. CASE cmds # <<>> /\ InOps(cmds[1].ops, k, j)
      BY <1>3, <2>2, <3>2
    <3> QED
      BY <2>4, <3>1, <3>2 DEF Carried
  <2> QED
    BY <1>1, <2>1, <2>3, <2>4 DEF StreamedOK, KeepsTrace
<1>5. PositionsOK'
  <2> SUFFICES ASSUME NEW n \in DOMAIN sent', CarriesPosition(sent'[n]),
                      NEW k \in Nat, NEW j \in Nat, IsRow(k, j)', End(k) <= sent'[n].pos
               PROVE  HandedBy(n, k, j)'
    BY DEF PositionsOK
  <2>1. IsRow(k, j) /\ n \in Nat /\ Len(sent) \in Nat
    BY <1>1, SentGrows DEF IsRow
  <2>2. CASE n \in DOMAIN sent /\ sent'[n] = sent[n]
    <3>1. n <= Len(sent) /\ HandedBy(n, k, j)
      BY <2>1, <2>2, SentType DEF PositionsOK
    <3>2. n <= n
      BY ONLY <2>1
    <3> QED
      BY ONLY <1>2, <2>1, <3>1, <3>2, Zenon
  <2>3. CASE n - Len(sent) \in DOMAIN cmds /\ sent'[n] = cmds[n - Len(sent)]
    <3>1. n = Len(sent) + 1 /\ cmds # <<>>
      <4>1. n - Len(sent) = 1
        BY <1>1, <2>3 DEF GoesBehind
      <4> QED
        BY ONLY <2>1, <2>3, <4>1
    <3>2. Seen(k, j) /\ (InOps(buffer, k, j) => InOps(cmds[1].ops, k, j))
      BY <1>1, <2>1, <2>3 DEF KeepsTrace
    <3>3. HandedBy(Len(sent), k, j) \/ InOps(cmds[1].ops, k, j)
      BY <2>1, <3>2 DEF StreamedOK
    <3>4. Len(sent) <= n /\ n > Len(sent) /\ Len(sent) <= Len(sent)
      BY <2>1, <3>1
    <3>5. CASE HandedBy(Len(sent), k, j)
      BY <1>2, <2>1, <3>4, <3>5
    <3> QED
      BY <1>3, <2>1, <3>1, <3>3, <3>4, <3>5
  <2> QED
    BY <1>1, <2>2, <2>3, SentGrows
<1> QED
  BY <1>4, <1>5

\* Whatever the engine takes, a step of this kind keeps the invariant.
LEMMA EngineKept ==
  ASSUME PipelineInv, NEW cmds, EngineMoves(cmds), StreamOK', WindowsOK'
  PROVE  PipelineInv'
<1> USE DEF PipelineInv
<1>1. /\ cmds \in Seq(WellFormed) /\ sent' = sent \o cmds
      /\ UNCHANGED <<taskVars, sourceVars, loadVars, crashVars>>
  BY DEF EngineMoves
<1>2. /\ UNCHANGED <<settled, applied, orphans, slot, earlier, kept, wal>>
      /\ UNCHANGED <<visible, rows, load, progress>>
  BY <1>1 DEF taskVars, targetVars, sourceVars, loadVars, crashVars
<1>3. CrashOK' /\ TargetGrows
  BY <1>1, <1>2, SettledStays
<1>4. LeftDelivered'
  BY <1>2, <1>3, LeftStays
<1>5. SourceOK'
  BY <1>2 DEF SourceOK
<1>6. MarksOK' /\ LoadOK'
  <2>1. MarksOK' /\ copyq' \in Seq(CopyEvents)
    BY MarksKept
  <2> QED
    BY <1>2, <2>1 DEF LoadOK
<1> QED
  BY <1>3, <1>4, <1>5, <1>6, OrderKept, BufferKept, TraceKept

-----------------------------------------------------------------------------
(* The handlers of the engine.                                             *)

\* A row joins the buffer, and a full buffer goes out as a batch without a position.
LEMMA RowHands ==
  ASSUME PipelineInv, NEW op \in Op, HandleRow(op)
  PROVE  \E cmds \in Seq(WellFormed) :
           /\ sent' = sent \o cmds
           /\ \A n \in DOMAIN cmds : ~CarriesPosition(cmds[n]) /\ cmds[n].kind # "mark"
           /\ BufferMoves(cmds)
           /\ \A k, j \in Nat : InOps(buffer, k, j) \/ (~Dead(op) /\ IsChange(op, k, j)) =>
                Carried(cmds, k, j)
<1> USE DEF PipelineInv
<1> DEFINE grown == IF Dead(op) THEN buffer ELSE Append(buffer, op)
           full  == Len(grown) >= BatchSize
<1>1. /\ buffer' = IF full THEN <<>> ELSE grown
      /\ bufferPos' = IF full \/ ~Dead(op) THEN 0 ELSE bufferPos
      /\ sent' = sent \o (IF full THEN <<Batch(grown, 0)>> ELSE <<>>)
  BY DEF HandleRow, Hand
<1>2. BatchSize \in Nat /\ buffer \in Seq(Op) /\ Len(buffer) < BatchSize /\ Len(buffer) \in Nat
      /\ BatchSize > 0 /\ bufferPos \in Nat
  BY PipelineAssumption DEF BufferOK
<1>3. grown \in Seq(Op) /\ Len(grown) \in Nat
  BY <1>2
<1>4. ASSUME NEW k \in Nat, NEW j \in Nat, InOps(buffer, k, j) \/ (~Dead(op) /\ IsChange(op, k, j))
      PROVE  InOps(grown, k, j)
  <2>1. CASE Dead(op)
    BY <1>4, <2>1
  <2>2. CASE ~Dead(op)
    <3>1. /\ \A m \in DOMAIN buffer : m \in DOMAIN grown /\ grown[m] = buffer[m]
          /\ Len(buffer) + 1 \in DOMAIN grown /\ grown[Len(buffer) + 1] = op
      BY <1>2, <2>2
    <3> HIDE DEF grown
    <3>2. CASE InOps(buffer, k, j)
      BY <3>1, <3>2 DEF InOps
    <3>3. CASE IsChange(op, k, j)
      BY <3>1, <3>3 DEF InOps
    <3> QED
      BY <1>4, <3>2, <3>3
  <2> QED
    BY <2>1, <2>2
<1>5. CASE full
  <2>1. Batch(grown, 0) \in WellFormed /\ Batch(grown, 0).ops = grown /\ Batch(grown, 0).pos = 0
        /\ Batch(grown, 0).kind = "write"
    BY <1>3 DEF Batch, WellFormed, Command
  <2>2. PICK cmds : cmds = <<Batch(grown, 0)>>
    OBVIOUS
  <2>3. /\ buffer' = <<>> /\ bufferPos' = 0 /\ sent' = sent \o cmds
    BY <1>1, <1>5, <2>2
  <2> HIDE DEF grown, full
  <2>4. cmds \in Seq(WellFormed) /\ DOMAIN cmds = {1} /\ cmds[1] = Batch(grown, 0)
    BY <2>1, <2>2, OneOf
  <2>5. cmds # <<>>
    BY <2>4
  <2>6. BufferMoves(cmds)
    <3>1. buffer' \in Seq(Op) /\ Len(buffer') = 0
      BY <2>3
    <3> QED
      BY <1>2, <2>3, <3>1 DEF BufferMoves
  <2>7. \A n \in DOMAIN cmds : ~CarriesPosition(cmds[n]) /\ cmds[n].kind # "mark"
    BY <2>1, <2>4 DEF CarriesPosition
  <2>8. \A k, j \in Nat : InOps(buffer, k, j) \/ (~Dead(op) /\ IsChange(op, k, j)) => Carried(cmds, k, j)
    BY <1>4, <2>1, <2>4, <2>5 DEF Carried
  <2> QED
    BY <2>3, <2>4, <2>6, <2>7, <2>8
<1>6. CASE ~full
  <2>1. /\ buffer' = grown /\ sent' = sent \o <<>>
        /\ bufferPos' = IF ~Dead(op) THEN 0 ELSE bufferPos
    BY <1>1, <1>6
  <2>2. <<>> \in Seq(WellFormed) /\ DOMAIN <<>> = {}
    OBVIOUS
  <2>3. BufferMoves(<<>>)
    <3>1. Len(grown) < BatchSize
      BY <1>2, <1>3, <1>6
    <3>2. bufferPos' \in {0, bufferPos}
      BY <2>1
    <3>3. buffer' = <<>> => bufferPos' = 0
      BY <2>1 DEF BufferOK
    <3> HIDE DEF grown
    <3> QED
      BY <1>2, <1>3, <2>1, <3>1, <3>2, <3>3 DEF BufferMoves
  <2>4. \A k, j \in Nat : InOps(buffer, k, j) \/ (~Dead(op) /\ IsChange(op, k, j)) => Carried(<<>>, k, j)
    <3> HIDE DEF grown
    <3> QED
      BY <1>4, <2>1 DEF Carried
  <2> QED
    BY <2>1, <2>2, <2>3, <2>4
<1> QED
  BY <1>5, <1>6

\* At most two commands: what was buffered, and one that carries no position.
LEMMA TwoParts ==
  ASSUME NEW c \in WellFormed, NEW d \in WellFormed,
         NEW front \in {<<>>, <<c>>}, NEW back \in {<<>>, <<d>>}, NEW cmds, cmds = front \o back
  PROVE  /\ cmds \in Seq(WellFormed)
         /\ \A n \in DOMAIN cmds : \/ n = 1 /\ front = <<c>> /\ cmds[n] = c
                                   \/ n = Len(cmds) /\ back = <<d>> /\ cmds[n] = d
         /\ front = <<c>> => cmds # <<>> /\ 1 \in DOMAIN cmds /\ cmds[1] = c
<1>1. CASE front = <<>> /\ back = <<>>
  BY <1>1
<1>2. CASE front = <<c>> /\ back = <<>>
  <2>1. cmds = <<c>>
    BY <1>2
  <2>2. cmds \in Seq(WellFormed) /\ Len(cmds) = 1 /\ DOMAIN cmds = {1} /\ cmds[1] = c
    BY <2>1, OneOf
  <2> QED
    BY <1>2, <2>2
<1>3. CASE front = <<>> /\ back = <<d>>
  <2>1. cmds = <<d>>
    BY <1>3
  <2>2. cmds \in Seq(WellFormed) /\ Len(cmds) = 1 /\ DOMAIN cmds = {1} /\ cmds[1] = d
    BY <2>1, OneOf
  <2>3. front # <<c>>
    BY <1>3
  <2> QED
    BY <1>3, <2>2, <2>3
<1>4. CASE front = <<c>> /\ back = <<d>>
  <2>1. cmds = <<c>> \o <<d>>
    BY <1>4
  <2>2. cmds \in Seq(WellFormed) /\ Len(cmds) = 2 /\ DOMAIN cmds = {1, 2} /\ cmds[1] = c /\ cmds[2] = d
    BY <2>1, TwoOf
  <2>3. cmds # <<>> /\ \A n \in DOMAIN cmds : n = 1 \/ n = Len(cmds)
    BY <2>2
  <2> QED
    BY <1>4, <2>2, <2>3, Zenon
<1> QED
  BY <1>1, <1>2, <1>3, <1>4

\* The buffer goes out, with a position or without one, and a mark or a truncate
\* may follow it.
LEMMA FlushMoves ==
  ASSUME PipelineInv, NEW c \in WellFormed, NEW d \in WellFormed,
         NEW front \in {<<>>, <<c>>}, NEW back \in {<<>>, <<d>>}, NEW cmds, cmds = front \o back,
         c.kind # "mark", c.ops = buffer, buffer # <<>> => front = <<c>>,
         c.pos = bufferPos \/ c.pos >= End(cur.txn - 1), c.pos <= End(cur'.txn - 1),
         d.kind \in {"mark", "truncate"},
         back = <<d>> /\ d.kind = "mark" => d.pos = load.mark /\ Unreported,
         buffer' = <<>>, bufferPos' = 0,
         \A k, j \in Nat : IsRow(k, j) => (Seen(k, j)' => Seen(k, j)) /\ (End(k) <= c.pos => Seen(k, j))
  PROVE  cmds \in Seq(WellFormed) /\ KeepsTrace(cmds) /\ GoesBehind(cmds) /\ BufferMoves(cmds)
<1> USE DEF PipelineInv
<1>1. /\ cmds \in Seq(WellFormed)
      /\ \A n \in DOMAIN cmds : \/ n = 1 /\ front = <<c>> /\ cmds[n] = c
                                \/ n = Len(cmds) /\ back = <<d>> /\ cmds[n] = d
      /\ front = <<c>> => cmds # <<>> /\ 1 \in DOMAIN cmds /\ cmds[1] = c
  BY TwoParts
<1>2. ~CarriesPosition(d)
  BY DEF CarriesPosition
<1>3. GoesBehind(cmds)
  BY <1>1, <1>2 DEF GoesBehind
<1>4. BufferMoves(cmds)
  <2>1. buffer' \in Seq(Op) /\ Len(buffer') = 0 /\ BatchSize \in Nat /\ BatchSize > 0
    BY PipelineAssumption
  <2> QED
    BY <2>1 DEF BufferMoves
<1>5. KeepsTrace(cmds)
  <2> SUFFICES ASSUME NEW k \in Nat, NEW j \in Nat, IsRow(k, j)
               PROVE  /\ InOps(buffer, k, j) \/ (Seen(k, j)' /\ ~Seen(k, j)) => Carried(cmds, k, j)
                      /\ \A n \in DOMAIN cmds : CarriesPosition(cmds[n]) /\ End(k) <= cmds[n].pos =>
                           Seen(k, j) /\ (InOps(buffer, k, j) => InOps(cmds[1].ops, k, j))
    BY DEF KeepsTrace
  <2>1. InOps(buffer, k, j) => cmds # <<>> /\ InOps(cmds[1].ops, k, j)
    <3>1. InOps(buffer, k, j) => buffer # <<>>
      BY DEF InOps
    <3> QED
      BY <1>1, <3>1
  <2>2. Seen(k, j)' => Seen(k, j)
    OBVIOUS
  <2>3. InOps(buffer, k, j) \/ (Seen(k, j)' /\ ~Seen(k, j)) => Carried(cmds, k, j)
    BY <2>1, <2>2 DEF Carried
  <2>4. ASSUME NEW n \in DOMAIN cmds, CarriesPosition(cmds[n]), End(k) <= cmds[n].pos
        PROVE  Seen(k, j)
    <3>1. cmds[n] = c
      BY <1>1, <1>2, <2>4
    <3> QED
      BY <2>4, <3>1
  <2> QED
    BY <2>1, <2>3, <2>4
<1> QED
  BY <1>1, <1>3, <1>4, <1>5

\* What a position of a transaction that the stream is past covers is seen.
LEMMA PastIsSeen ==
  ASSUME PipelineInv, NEW k \in Nat, NEW j \in Nat, NEW p \in Nat, p <= End(cur.txn - 1), End(k) <= p
  PROVE  Seen(k, j)
<1>1. cur.txn \in Nat \ {0}
  BY DEF PipelineInv, StreamOK
<1> QED
  BY <1>1 DEF Seen, End

\* The frame of a step that takes an event, from the stream or from the load.
Takes ==
  /\ UNCHANGED <<taskVars, sourceVars, loadVars, crashVars>>
  /\ cur.txn <= cur'.txn /\ cur'.txn \in Nat \ {0}
  /\ copyq' = copyq \/ (copyq # <<>> /\ copyq' = Tail(copyq))

\* A mark is held back only while the load's channel is empty.
LEMMA HeldMark ==
  ASSUME PipelineInv, Takes, pendingMark > 0
  PROVE  /\ copyq = <<>> /\ copyq' = copyq
         /\ pendingMark = load.mark /\ Unreported /\ (txnOpen \/ buffer # <<>>)
BY DEF PipelineInv, MarksOK, Takes

\* A COMMIT, a keepalive or a boundary: the buffer is held, or goes out.
LEMMA CommitMoves ==
  ASSUME PipelineInv, Takes, NEW pos \in Nat, HandleCommit(pos),
         pos = 0 \/ (End(cur.txn - 1) <= pos /\ pos <= End(cur'.txn - 1)),
         \A k, j \in Nat : IsRow(k, j) => (Seen(k, j)' => Seen(k, j)) /\ (End(k) <= pos => Seen(k, j))
  PROVE  \E cmds : EngineMoves(cmds)
<1> USE DEF PipelineInv
<1>0. /\ cur.txn \in Nat \ {0} /\ cur'.txn \in Nat \ {0} /\ cur.txn <= cur'.txn
      /\ End(cur.txn - 1) \in Nat /\ End(cur'.txn - 1) \in Nat /\ End(cur.txn - 1) <= End(cur'.txn - 1)
      /\ buffer \in Seq(Op) /\ bufferPos \in Nat /\ bufferPos <= End(cur.txn - 1)
      /\ buffer = <<>> => bufferPos = 0
      /\ pendingMark \in Nat
  <2>1. cur.txn \in Nat \ {0} /\ cur'.txn \in Nat \ {0} /\ cur.txn <= cur'.txn
    BY DEF StreamOK, Takes
  <2>2. /\ End(cur.txn - 1) \in Nat /\ End(cur'.txn - 1) \in Nat
        /\ End(cur.txn - 1) <= End(cur'.txn - 1)
    BY <2>1 DEF End
  <2> QED
    BY <2>1, <2>2 DEF BufferOK, MarksOK
<1>1. /\ Stamp(pos) \in Nat /\ Stamp(pos) <= End(cur'.txn - 1)
      /\ Stamp(pos) = bufferPos \/ Stamp(pos) >= End(cur.txn - 1)
      /\ \A k, j \in Nat : IsRow(k, j) /\ End(k) <= Stamp(pos) => Seen(k, j)
  <2>1. CASE pos = 0
    BY <1>0, <2>1, PastIsSeen DEF Stamp
  <2>2. CASE pos > 0
    BY <1>0, <2>2 DEF Stamp
  <2> QED
    BY <2>1, <2>2
<1>2. CASE HoldCommit(pos)
  <2>1. /\ buffer # <<>> /\ buffer' = buffer /\ bufferPos' = Stamp(pos) /\ pendingMark' = pendingMark
        /\ sent' = sent \o <<>>
    BY <1>2 DEF HoldCommit, Hand
  <2>2. PICK cmds : cmds = <<>>
    OBVIOUS
  <2>3. cmds \in Seq(WellFormed) /\ DOMAIN cmds = {} /\ sent' = sent \o cmds
    BY <2>1, <2>2
  <2>4. KeepsTrace(cmds)
    BY <2>1, <2>3 DEF KeepsTrace, Carried
  <2>5. GoesBehind(cmds)
    BY <2>3 DEF GoesBehind
  <2>6. BufferMoves(cmds)
    BY <1>0, <1>1, <2>1, <2>2 DEF BufferMoves, BufferOK
  <2>7. MarksMove(cmds)
    BY <2>1, <2>3, HeldMark DEF MarksMove, Takes
  <2> QED
    BY <2>2, <2>3, <2>4, <2>5, <2>6, <2>7 DEF EngineMoves, Takes
<1>3. CASE FlushCommit(pos)
  <2> DEFINE c == IF buffer # <<>> THEN Batch(buffer, Stamp(pos)) ELSE Position(pos)
             d == IF pendingMark > 0 THEN Mark(pendingMark) ELSE Clear(0)
             front == IF buffer # <<>> THEN <<Batch(buffer, Stamp(pos))>>
                      ELSE IF pos > 0 THEN <<Position(pos)>>
                      ELSE <<>>
             back == IF StaysOpen(pos) \/ pendingMark = 0 THEN <<>> ELSE <<Mark(pendingMark)>>
  <2>1. /\ sent' = sent \o (front \o back) /\ buffer' = <<>> /\ bufferPos' = 0
        /\ pendingMark' = IF StaysOpen(pos) THEN pendingMark ELSE 0
        /\ txnOpen' = StaysOpen(pos)
    BY <1>3 DEF FlushCommit, Hand
  <2>2. /\ c \in WellFormed /\ c.ops = buffer /\ c.kind # "mark"
        /\ c.pos \in {Stamp(pos), pos}
        /\ buffer = <<>> => c.pos = pos
        /\ buffer # <<>> => c.pos = Stamp(pos)
    BY <1>0, <1>1 DEF Batch, Position, WellFormed, Command
  <2>3. /\ d \in WellFormed /\ d.kind \in {"mark", "truncate"}
        /\ pendingMark > 0 => d = Mark(pendingMark) /\ d.pos = pendingMark
        /\ pendingMark = 0 => d.kind = "truncate"
    BY <1>0 DEF Mark, Clear, WellFormed, Command
  <2>4. front \in {<<>>, <<c>>} /\ (buffer # <<>> => front = <<c>>)
    OBVIOUS
  <2>5. back \in {<<>>, <<d>>} /\ (back # <<>> => pendingMark > 0)
    <3>1. CASE pendingMark > 0
      BY <3>1
    <3>2. CASE pendingMark = 0
      BY <3>2
    <3> QED
      BY <1>0, <3>1, <3>2
  <2>6. back = <<d>> /\ d.kind = "mark" => d.pos = load.mark /\ Unreported
    BY <1>0, <2>3, HeldMark
  <2>7. c.pos = bufferPos \/ c.pos >= End(cur.txn - 1)
    BY <1>0, <1>1, <2>2
  <2>8. c.pos <= End(cur'.txn - 1)
    BY <1>0, <1>1, <2>2
  <2>9. \A k, j \in Nat : IsRow(k, j) => (Seen(k, j)' => Seen(k, j)) /\ (End(k) <= c.pos => Seen(k, j))
    <3> HIDE DEF c
    <3> QED
      BY <1>1, <2>2
  <2>10. PICK cmds : cmds = front \o back
    OBVIOUS
  <2>11. back = <<>> \/ pendingMark' = 0
    BY <2>1
  <2> HIDE DEF c, d, front, back
  <2>12. cmds \in Seq(WellFormed) /\ KeepsTrace(cmds) /\ GoesBehind(cmds) /\ BufferMoves(cmds)
    BY <2>1, <2>2, <2>3, <2>4, <2>5, <2>6, <2>7, <2>8, <2>9, <2>10, FlushMoves
  <2>13. MarksMove(cmds)
    <3>1. CASE pendingMark = 0
      <4>1. back = <<>> /\ pendingMark' = pendingMark
        BY <1>0, <2>1, <2>5, <3>1
      <4>2. back # <<d>>
        BY <4>1
      <4>3. \A n \in DOMAIN cmds : cmds[n].kind # "mark"
        BY <2>2, <2>3, <2>4, <2>5, <2>10, <4>2, TwoParts
      <4> QED
        BY <3>1, <4>1, <4>3 DEF MarksMove, Takes
    <3>2. CASE pendingMark > 0 /\ StaysOpen(pos)
      <4>1. back = <<>> /\ pendingMark' = pendingMark
        BY <2>1, <3>2 DEF back
      <4>2. back # <<d>>
        BY <4>1
      <4>3. \A n \in DOMAIN cmds : cmds[n].kind # "mark"
        BY <2>2, <2>3, <2>4, <2>5, <2>10, <4>2, TwoParts
      <4>4. txnOpen'
        BY <2>1, <3>2
      <4> QED
        BY <3>2, <4>1, <4>3, <4>4, HeldMark DEF MarksMove, Takes
    <3>3. CASE pendingMark > 0 /\ ~StaysOpen(pos)
      <4>1. pendingMark' = 0 /\ copyq' = <<>> /\ DOMAIN copyq' = {} /\ copyq' = copyq
        BY <2>1, <3>3, HeldMark
      <4> QED
        BY <4>1 DEF MarksMove
    <3> QED
      BY <1>0, <3>1, <3>2, <3>3
  <2> QED
    BY <2>1, <2>10, <2>12, <2>13 DEF EngineMoves, Takes
<1> QED
  BY <1>2, <1>3 DEF HandleCommit

\* A step that hands nothing over and leaves the buffer as it is.
LEMMA IdleMoves ==
  ASSUME PipelineInv, Takes, sent' = sent \o <<>>, UNCHANGED <<buffer, bufferPos>>, MarksMove(<<>>),
         \A k, j \in Nat : IsRow(k, j) => (Seen(k, j)' => Seen(k, j))
  PROVE  EngineMoves(<<>>)
<1> USE DEF PipelineInv
<1>1. <<>> \in Seq(WellFormed) /\ DOMAIN <<>> = {}
  OBVIOUS
<1>2. KeepsTrace(<<>>) /\ GoesBehind(<<>>)
  BY <1>1 DEF KeepsTrace, Carried, GoesBehind
<1>3. BufferMoves(<<>>)
  BY DEF BufferMoves, BufferOK
<1> QED
  BY <1>1, <1>2, <1>3 DEF EngineMoves, Takes

-----------------------------------------------------------------------------
(* The events the engine takes.                                            *)

\* Where the engine is in the stream, and the change it takes next.
LEMMA StreamFacts ==
  ASSUME PipelineInv
  PROVE  /\ cur = [txn |-> cur.txn, pos |-> cur.pos]
         /\ cur.txn \in Nat \ {0} /\ cur.pos \in Nat /\ cur.txn <= Len(wal) + 1 /\ Len(wal) \in Nat
         /\ DOMAIN wal = 1 .. Len(wal)
         /\ Streaming => /\ cur.txn \in DOMAIN wal /\ cur.txn \in 1 .. MaxTxns
                         /\ Txn \in TxnShapes /\ Len(Txn) \in Nat /\ DOMAIN Txn = 1 .. Len(Txn)
                         /\ \A j \in DOMAIN Txn : Txn[j] \in Change
<1> USE DEF PipelineInv
<1>1. /\ cur = [txn |-> cur.txn, pos |-> cur.pos]
      /\ cur.txn \in Nat \ {0} /\ cur.pos \in Nat /\ cur.txn <= Len(wal) + 1
  BY DEF StreamOK
<1>2. Len(wal) \in Nat /\ DOMAIN wal = 1 .. Len(wal) /\ Len(wal) <= MaxTxns /\ MaxTxns \in Nat
  BY WalFacts DEF SourceOK
<1>3. ASSUME Streaming
      PROVE  /\ cur.txn \in DOMAIN wal /\ cur.txn \in 1 .. MaxTxns
             /\ Txn \in TxnShapes /\ Len(Txn) \in Nat /\ DOMAIN Txn = 1 .. Len(Txn)
             /\ \A j \in DOMAIN Txn : Txn[j] \in Change
  <2>1. cur.txn \in DOMAIN wal /\ cur.txn \in 1 .. MaxTxns
    BY <1>1, <1>2, <1>3 DEF Streaming
  <2> QED
    BY <2>1, WalFacts DEF Txn
<1> QED
  BY <1>1, <1>2, <1>3

\* A transaction begins: nothing is handed over.
LEMMA BeginKept == ASSUME PipelineInv, TakeBegin PROVE PipelineInv'
<1> USE DEF PipelineInv
<1>1. /\ UNCHANGED <<taskVars, sourceVars, copyq, loadVars, crashVars>>
      /\ UNCHANGED <<buffer, bufferPos, pendingMark, superseded, cleared, loadRunning>>
      /\ Streaming /\ cur.pos = 0 /\ txnOpen' = TRUE /\ cur' = [cur EXCEPT !.pos = 1]
      /\ sent' = sent \o <<>>
  BY DEF TakeBegin, Hand
<1>2. cur' = [txn |-> cur.txn, pos |-> 1] /\ cur'.txn = cur.txn /\ cur'.pos = 1
  BY <1>1, StreamFacts
<1>3. StreamOK'
  <2>1. txnOpen' \in BOOLEAN /\ (txnOpen' <=> cur'.pos > 0)
    <3>1. cur'.pos > 0
      BY <1>2
    <3> QED
      BY <1>1, <3>1, Zenon
  <2>2. cur' \in [txn : Nat \ {0}, pos : Nat] /\ wal' = wal
    BY <1>1, <1>2, StreamFacts DEF sourceVars
  <2>3. cur'.txn <= Len(wal') /\ cur'.pos <= Len(wal'[cur'.txn]) + 1
    BY <1>1, <1>2, <2>2, StreamFacts DEF Streaming, Txn
  <2>4. cur'.txn <= Len(wal') + 1 /\ ~(cur'.txn > Len(wal'))
    BY <1>2, <2>2, <2>3, StreamFacts
  <2> QED
    BY <2>1, <2>2, <2>3, <2>4 DEF StreamOK
<1>4. WindowsOK'
  BY <1>1, <1>2 DEF WindowsOK
<1>5. Takes
  BY <1>1, <1>2, StreamFacts DEF Takes
<1>6. ASSUME NEW k \in Nat, NEW j \in Nat, IsRow(k, j), Seen(k, j)' PROVE Seen(k, j)
  BY <1>1, <1>2, <1>6, WalFacts DEF IsRow, Seen
<1>7. MarksMove(<<>>)
  BY <1>1 DEF MarksMove
<1>8. EngineMoves(<<>>)
  BY <1>1, <1>5, <1>6, <1>7, IdleMoves
<1> QED
  BY <1>3, <1>4, <1>8, EngineKept

\* The next transaction is ahead, and no row was passed over.
LEMMA CommitTaken == ASSUME PipelineInv, TakeCommit PROVE PipelineInv'
<1> USE DEF PipelineInv
<1>1. /\ UNCHANGED <<taskVars, sourceVars, copyq, loadVars, crashVars>>
      /\ Streaming /\ cur.pos = Len(Txn) + 1 /\ HandleCommit(End(cur.txn))
      /\ cur' = [txn |-> cur.txn + 1, pos |-> 0]
  BY DEF TakeCommit
<1>2. /\ UNCHANGED <<superseded, cleared, loadRunning>> /\ txnOpen' = StaysOpen(End(cur.txn))
  BY <1>1 DEF HandleCommit, HoldCommit, FlushCommit
<1>3. /\ cur'.txn = cur.txn + 1 /\ cur'.pos = 0
      /\ End(cur.txn) \in Nat /\ End(cur.txn) > 0 /\ End(cur'.txn - 1) = End(cur.txn)
      /\ End(cur.txn - 1) <= End(cur.txn)
  <2>1. cur'.txn = cur.txn + 1 /\ cur'.pos = 0 /\ cur.txn \in Nat \ {0}
    BY <1>1, StreamFacts
  <2> QED
    BY ONLY <2>1 DEF End
<1>4. StreamOK'
  <2>1. txnOpen' \in BOOLEAN /\ (txnOpen' <=> cur'.pos > 0)
    <3>1. ~(cur'.pos > 0) /\ End(cur.txn) # 0
      BY <1>3
    <3>2. txnOpen' = FALSE
      BY <1>2, <3>1 DEF StaysOpen
    <3> QED
      BY <3>1, <3>2, Zenon
  <2>2. cur' \in [txn : Nat \ {0}, pos : Nat] /\ wal' = wal
    BY <1>1, StreamFacts DEF sourceVars
  <2>3. cur'.txn <= Len(wal) + 1 /\ (cur'.txn <= Len(wal) => Len(wal[cur'.txn]) \in Nat)
    BY <1>1, <1>3, StreamFacts, WalFacts DEF Streaming
  <2> QED
    BY <1>3, <2>1, <2>2, <2>3 DEF StreamOK
<1>5. WindowsOK'
  <2>1. Ver(cur.txn) <= Ver(cur'.txn) /\ Ver(cur.txn) \in Nat /\ Ver(cur'.txn) \in Nat
    BY <1>3, StreamFacts DEF Ver
  <2> QED
    BY <1>2, <2>1 DEF WindowsOK
<1>6. Takes
  BY <1>1, <1>3, StreamFacts DEF Takes
<1>7. ASSUME NEW k \in Nat, NEW j \in Nat, IsRow(k, j)
      PROVE  (Seen(k, j)' => Seen(k, j)) /\ (End(k) <= End(cur.txn) => Seen(k, j))
  <2>1. k = cur.txn => j < cur.pos
    BY <1>1, <1>7, StreamFacts DEF IsRow, Txn
  <2>2. Seen(k, j)' => k <= cur.txn
    BY <1>3, StreamFacts DEF Seen
  <2>3. End(k) <= End(cur.txn) => k <= cur.txn
    BY StreamFacts DEF End
  <2>4. k <= cur.txn => Seen(k, j)
    BY <2>1, StreamFacts DEF Seen
  <2> QED
    BY <2>2, <2>3, <2>4
<1>8. PICK cmds : EngineMoves(cmds)
  BY <1>1, <1>3, <1>6, <1>7, CommitMoves
<1> QED
  BY <1>4, <1>5, <1>8, EngineKept

\* A keepalive between transactions publishes the position up to which the stream
\* is quiet, behind what is buffered.
LEMMA KeepaliveTaken == ASSUME PipelineInv, TakeKeepalive PROVE PipelineInv'
<1> USE DEF PipelineInv
<1>1. /\ UNCHANGED <<taskVars, sourceVars, cur, copyq, loadVars, crashVars>>
      /\ cur.pos = 0 /\ HandleCommit(End(cur.txn - 1))
  BY DEF TakeKeepalive, BetweenTxns
<1>2. /\ UNCHANGED <<superseded, cleared, loadRunning>> /\ txnOpen' = StaysOpen(End(cur.txn - 1))
  BY <1>1 DEF HandleCommit, HoldCommit, FlushCommit
<1>3. End(cur.txn - 1) \in Nat /\ End(cur.txn - 1) > 0
  BY StreamFacts DEF End
<1>4. StreamOK'
  <2>1. txnOpen' \in BOOLEAN /\ (txnOpen' <=> cur'.pos > 0)
    <3>1. ~(cur'.pos > 0) /\ End(cur.txn - 1) # 0
      BY <1>1, <1>3
    <3>2. txnOpen' = FALSE
      BY <1>2, <3>1 DEF StaysOpen
    <3> QED
      BY <3>1, <3>2, Zenon
  <2>2. wal' = wal /\ cur' = cur
    BY <1>1 DEF sourceVars
  <2> QED
    BY <2>1, <2>2 DEF StreamOK
<1>5. WindowsOK'
  BY <1>1, <1>2 DEF WindowsOK
<1>6. Takes
  BY <1>1, StreamFacts DEF Takes
<1>7. ASSUME NEW k \in Nat, NEW j \in Nat, IsRow(k, j)
      PROVE  (Seen(k, j)' => Seen(k, j)) /\ (End(k) <= End(cur.txn - 1) => Seen(k, j))
  BY <1>1, <1>3, PastIsSeen DEF Seen
<1>8. PICK cmds : EngineMoves(cmds)
  BY <1>1, <1>3, <1>6, <1>7, CommitMoves
<1> QED
  BY <1>4, <1>5, <1>8, EngineKept

\* What is buffered goes out as it is.
LEMMA FlushedIs ==
  ASSUME PipelineInv
  PROVE  LET c == Batch(buffer, bufferPos) IN
         /\ c \in WellFormed /\ c.kind = "write" /\ c.ops = buffer /\ c.pos = bufferPos
         /\ Flushed \in {<<>>, <<c>>} /\ (buffer # <<>> => Flushed = <<c>>)
BY DEF PipelineInv, BufferOK, Batch, WellFormed, Command, Flushed

\* A truncate, or a mark, goes out behind what is buffered.
LEMMA BarrierMoves ==
  ASSUME PipelineInv, Takes, NEW d \in WellFormed, sent' = sent \o (Flushed \o <<d>>),
         d.kind \in {"mark", "truncate"}, d.kind = "mark" => d.pos = load.mark /\ Unreported,
         buffer' = <<>>, bufferPos' = 0,
         \A k, j \in Nat : IsRow(k, j) => (Seen(k, j)' => Seen(k, j)),
         \/ d.kind = "truncate" /\ pendingMark' = pendingMark /\ (pendingMark > 0 => txnOpen')
         \/ pendingMark' = 0 /\ \A x \in DOMAIN copyq' : copyq'[x].ev # "mark"
  PROVE  \E cmds : EngineMoves(cmds)
<1> USE DEF PipelineInv
<1>1. PICK c : c = Batch(buffer, bufferPos)
  OBVIOUS
<1>2. /\ c \in WellFormed /\ c.kind = "write" /\ c.ops = buffer /\ c.pos = bufferPos
      /\ Flushed \in {<<>>, <<c>>} /\ (buffer # <<>> => Flushed = <<c>>)
  BY <1>1, FlushedIs
<1>3. PICK cmds : cmds = Flushed \o <<d>>
  OBVIOUS
<1>4. bufferPos \in Nat /\ bufferPos <= End(cur.txn - 1) /\ bufferPos <= End(cur'.txn - 1)
  <2>1. bufferPos \in Nat /\ bufferPos <= End(cur.txn - 1) /\ cur.txn \in Nat \ {0}
        /\ cur'.txn \in Nat /\ cur.txn <= cur'.txn
    BY DEF BufferOK, StreamOK, Takes
  <2> QED
    BY <2>1 DEF End
<1>5. \A k, j \in Nat : IsRow(k, j) => (Seen(k, j)' => Seen(k, j)) /\ (End(k) <= c.pos => Seen(k, j))
  BY <1>2, <1>4, PastIsSeen
<1>6. cmds \in Seq(WellFormed) /\ KeepsTrace(cmds) /\ GoesBehind(cmds) /\ BufferMoves(cmds)
  BY <1>2, <1>3, <1>4, <1>5, FlushMoves
<1>7. MarksMove(cmds)
  <2>1. CASE d.kind = "truncate" /\ pendingMark' = pendingMark /\ (pendingMark > 0 => txnOpen')
    <3>1. \A n \in DOMAIN cmds : cmds[n] = c \/ cmds[n] = d
      BY <1>2, <1>3, TwoParts
    <3>2. \A n \in DOMAIN cmds : cmds[n].kind # "mark"
      BY <1>2, <2>1, <3>1
    <3> QED
      BY <2>1, <3>2, HeldMark DEF MarksMove, Takes
  <2>2. CASE pendingMark' = 0 /\ \A x \in DOMAIN copyq' : copyq'[x].ev # "mark"
    BY <2>2 DEF MarksMove, Takes
  <2> QED
    BY <2>1, <2>2
<1> QED
  BY <1>3, <1>6, <1>7 DEF EngineMoves, Takes

\* The operation the engine makes of a change is one, and carries the change; no
\* deletion is remembered from a later position, so it is never dropped.
LEMMA StreamedOp ==
  ASSUME PipelineInv, Streaming, cur.pos \in DOMAIN Txn, Txn[cur.pos].kind # "truncate"
  PROVE  LET op == OperationOf(Txn, cur.txn, cur.pos) IN
         /\ op \in Op /\ op.ver = Ver(cur.txn) /\ ~Dead(op)
         /\ IsChange(op, cur.txn, cur.pos)
<1> USE DEF PipelineInv
<1> DEFINE k == cur.txn
           j == cur.pos
           change == Txn[cur.pos]
           stored == docs[change.id].val
           val == CASE change.kind = "upsert" -> Body(<<k, j>>, <<k, j>>)
                    [] change.kind = "touch"  -> Body(<<k, j>>, IF stored = Absent THEN Null ELSE stored.big)
                    [] OTHER                  -> Absent
<1>1. /\ k \in 1 .. MaxTxns /\ Txn \in TxnShapes /\ j \in DOMAIN Txn /\ Ver(k) \in Nat
      /\ change.id \in Ids /\ change.kind \in {"upsert", "touch", "delete"}
      /\ k \in DOMAIN wal /\ wal[k] = Txn
  BY StreamFacts DEF Change, Txn, Ver
<1>2. stored \in Vals \cup {Absent}
  BY <1>1 DEF DeliveryInv, DeliveryTypeOK, Docs, Doc
<1>3. PICK op : op = OperationOf(Txn, cur.txn, cur.pos)
  OBVIOUS
<1>4. op = [id |-> change.id, ver |-> Ver(k), val |-> val]
  BY <1>3 DEF OperationOf
<1>5. \/ change.kind = "delete" /\ val = Absent
      \/ change.kind # "delete" /\ val \in Vals /\ val # Absent /\ val.c = <<k, j>>
  <2>1. CASE change.kind = "upsert"
    <3>1. val = Body(<<k, j>>, <<k, j>>)
      BY <2>1
    <3> HIDE DEF val, k, j
    <3>2. Body(<<k, j>>, <<k, j>>) \in Vals
      BY <1>1, BodiesAssumption
    <3>3. Body(<<k, j>>, <<k, j>>).c = <<k, j>>
      BY DEF Body
    <3> QED
      BY <2>1, <3>1, <3>2, <3>3, AbsentIsNoBody
  <2>2. CASE change.kind = "touch"
    <3>1. PICK big : big = IF stored = Absent THEN Null ELSE stored.big
      OBVIOUS
    <3>2. val = Body(<<k, j>>, big)
      BY <2>2, <3>1
    <3>3. Body(<<k, j>>, big) \in Vals
      <4> HIDE DEF val, k, j, stored, change
      <4>1. CASE stored = Absent
        BY <1>1, <3>1, <4>1, BodiesAssumption
      <4>2. CASE stored \in Vals
        <5>1. big = stored.big
          BY <3>1, <4>2, AbsentIsNoBody
        <5> QED
          BY <1>1, <4>2, <5>1, BodiesAssumption
      <4> QED
        BY <1>2, <4>1, <4>2
    <3>4. Body(<<k, j>>, big).c = <<k, j>>
      BY DEF Body
    <3> HIDE DEF val, k, j
    <3> QED
      BY <2>2, <3>2, <3>3, <3>4, AbsentIsNoBody
  <2>3. CASE change.kind = "delete"
    BY <2>3
  <2> QED
    BY <1>1, <2>1, <2>2, <2>3
<1> HIDE DEF val, k, j, change, stored
<1>6. op \in Op /\ op.ver = Ver(k) /\ op.id = change.id /\ op.val = val
  BY <1>1, <1>4, <1>5 DEF Op
<1>7. ~Dead(op)
  <2>1. cleared \in Nat /\ superseded[op.id] \in Nat /\ cleared <= Ver(k) /\ superseded[op.id] <= Ver(k)
    BY <1>1, <1>6 DEF WindowsOK, k
  <2> QED
    BY <1>1, <1>6, <2>1 DEF Dead
<1>8. wal[k][j] = change
  BY <1>1 DEF change, j
<1>9. IsChange(op, k, j)
  BY <1>5, <1>6, <1>8 DEF IsChange
<1> QED
  BY <1>3, <1>6, <1>7, <1>9 DEF k, j

\* A row is buffered, with a batch that is full handed over; a truncation goes
\* behind what was buffered.
LEMMA ChangeTaken == ASSUME PipelineInv, TakeChange PROVE PipelineInv'
<1> USE DEF PipelineInv
<1>1. /\ UNCHANGED <<taskVars, sourceVars, copyq, loadVars, crashVars>>
      /\ Streaming /\ cur.pos \in DOMAIN Txn
      /\ cur' = [cur EXCEPT !.pos = @ + 1]
  BY DEF TakeChange
<1>2. UNCHANGED <<txnOpen, pendingMark, loadRunning>>
  BY DEF TakeChange, HandleTruncate, HandleRow
<1>3. /\ cur' = [txn |-> cur.txn, pos |-> cur.pos + 1] /\ cur'.txn = cur.txn /\ cur'.pos = cur.pos + 1
      /\ cur.pos > 0 /\ cur.pos <= Len(Txn)
  BY <1>1, StreamFacts
<1>4. StreamOK' /\ txnOpen'
  <2>1. cur.pos > 0 /\ cur'.pos > 0
    BY <1>3, StreamFacts
  <2>2. txnOpen \in BOOLEAN /\ (txnOpen <=> cur.pos > 0)
    BY DEF StreamOK
  <2>3. txnOpen' \in BOOLEAN /\ (txnOpen' <=> cur'.pos > 0) /\ txnOpen'
    BY <1>2, <2>1, <2>2, Zenon
  <2>4. cur' \in [txn : Nat \ {0}, pos : Nat] /\ wal' = wal
    BY <1>1, <1>3, StreamFacts DEF sourceVars
  <2>5. cur'.txn <= Len(wal') /\ cur'.pos <= Len(wal'[cur'.txn]) + 1
    BY <1>1, <1>3, <2>4, StreamFacts DEF Streaming, Txn
  <2>6. cur'.txn <= Len(wal') + 1 /\ ~(cur'.txn > Len(wal'))
    BY <1>3, <2>4, <2>5, StreamFacts
  <2> QED
    BY <2>3, <2>4, <2>5, <2>6 DEF StreamOK
<1>5. Takes
  BY <1>1, <1>3, StreamFacts DEF Takes
<1>6. ASSUME NEW k \in Nat, NEW j \in Nat, Seen(k, j)', ~Seen(k, j)
      PROVE  k = cur.txn /\ j = cur.pos
  BY <1>3, <1>6, StreamFacts DEF Seen
<1>7. CASE Txn[cur.pos].kind = "truncate"
  <2>1. HandleTruncate(Ver(cur.txn)) /\ Ver(cur.txn) \in Nat
    BY <1>7, StreamFacts DEF TakeChange, Ver
  <2>2. PICK d : d = Clear(Ver(cur.txn))
    OBVIOUS
  <2>3. d \in WellFormed /\ d.kind = "truncate"
    BY <2>1, <2>2 DEF Clear, WellFormed, Command
  <2>4. /\ sent' = sent \o (Flushed \o <<d>>) /\ buffer' = <<>> /\ bufferPos' = 0
        /\ cleared' \in {cleared, Ver(cur.txn)} /\ superseded' = superseded
    BY <2>1, <2>2 DEF HandleTruncate, Hand
  <2>5. \A k, j \in Nat : IsRow(k, j) => (Seen(k, j)' => Seen(k, j))
    BY <1>6, <1>7 DEF IsRow, Txn
  <2>6. PICK cmds : EngineMoves(cmds)
    BY <1>2, <1>4, <1>5, <2>3, <2>4, <2>5, BarrierMoves
  <2>7. WindowsOK'
    BY <1>2, <1>3, <2>1, <2>4 DEF WindowsOK
  <2> QED
    BY <1>4, <2>6, <2>7, EngineKept
<1>8. CASE Txn[cur.pos].kind # "truncate"
  <2>1. PICK op : op = OperationOf(Txn, cur.txn, cur.pos)
    OBVIOUS
  <2>2. op \in Op /\ op.ver = Ver(cur.txn) /\ ~Dead(op) /\ IsChange(op, cur.txn, cur.pos)
    BY <1>1, <1>8, <2>1, StreamedOp
  <2>3. HandleRow(op)
    BY <1>8, <2>1 DEF TakeChange
  <2>4. PICK cmds \in Seq(WellFormed) :
          /\ sent' = sent \o cmds
          /\ \A n \in DOMAIN cmds : ~CarriesPosition(cmds[n]) /\ cmds[n].kind # "mark"
          /\ BufferMoves(cmds)
          /\ \A k, j \in Nat : InOps(buffer, k, j) \/ (~Dead(op) /\ IsChange(op, k, j)) =>
               Carried(cmds, k, j)
    BY <2>2, <2>3, RowHands
  <2>5. KeepsTrace(cmds)
    BY <1>6, <2>2, <2>4 DEF KeepsTrace
  <2>6. GoesBehind(cmds)
    BY <2>4 DEF GoesBehind
  <2>7. MarksMove(cmds)
    BY <1>1, <1>2, <1>4, <2>4 DEF MarksMove
  <2>8. EngineMoves(cmds)
    BY <1>5, <2>4, <2>5, <2>6, <2>7 DEF EngineMoves, Takes
  <2>9. WindowsOK'
    <3>1. /\ cleared' = cleared
          /\ superseded' = superseded \/ superseded' = [superseded EXCEPT ![op.id] = op.ver]
      BY <2>3 DEF HandleRow
    <3>2. Ver(cur.txn) \in Nat /\ cur'.txn = cur.txn /\ op.id \in Ids
      BY <1>3, <2>2, StreamFacts DEF Ver, Op
    <3> QED
      BY <1>2, <2>2, <3>1, <3>2 DEF WindowsOK
  <2> QED
    BY <1>4, <2>8, <2>9, EngineKept
<1> QED
  BY <1>7, <1>8

\* The engine takes an event of the load: the stream stays where it is.
LEMMA CopiedTaken == ASSUME PipelineInv, TakeCopied PROVE PipelineInv'
<1> USE DEF PipelineInv
<1>1. PICK e : e = Head(copyq)
  OBVIOUS
<1>2. /\ UNCHANGED <<taskVars, sourceVars, cur, loadVars, crashVars>>
      /\ copyq # <<>> /\ copyq' = Tail(copyq)
  BY DEF TakeCopied
<1>3. /\ e \in CopyEvents /\ e = copyq[1] /\ Len(copyq) \in Nat /\ Len(copyq) >= 1
      /\ DOMAIN copyq = 1 .. Len(copyq) /\ 1 \in DOMAIN copyq
  BY <1>1, <1>2 DEF LoadOK
<1>4. Takes
  BY <1>2, StreamFacts DEF Takes
<1>5. pendingMark = 0
  BY <1>2, HeldMark, <1>4 DEF MarksOK
<1>6. \A k, j \in Nat : Seen(k, j)' <=> Seen(k, j)
  BY <1>2 DEF Seen
<1>7. txnOpen \in BOOLEAN /\ (txnOpen <=> cur.pos > 0)
  BY DEF StreamOK
<1>8. ASSUME txnOpen' \in BOOLEAN, txnOpen' <=> txnOpen PROVE StreamOK'
  <2>1. txnOpen' \in BOOLEAN /\ (txnOpen' <=> cur'.pos > 0)
    BY <1>2, <1>7, <1>8, Zenon
  <2>2. cur' = cur /\ wal' = wal
    BY <1>2 DEF sourceVars
  <2> QED
    BY <2>1, <2>2 DEF StreamOK
<1>9. CASE e.ev = "row"
  <2>1. HandleRow(e.op) /\ e.op \in Op /\ e.op.val # Absent
    <3>1. HandleRow(e.op)
      BY <1>1, <1>9 DEF TakeCopied
    <3>2. e \in [ev : {"row"}, op : {o \in Op : o.val # Absent}]
      BY <1>3, <1>9 DEF CopyEvents
    <3> QED
      BY <3>1, <3>2
  <2>2. PICK op \in Op : op = e.op
    BY <2>1
  <2>3. PICK cmds \in Seq(WellFormed) :
          /\ sent' = sent \o cmds
          /\ \A n \in DOMAIN cmds : ~CarriesPosition(cmds[n]) /\ cmds[n].kind # "mark"
          /\ BufferMoves(cmds)
          /\ \A k, j \in Nat : InOps(buffer, k, j) \/ (~Dead(op) /\ IsChange(op, k, j)) =>
               Carried(cmds, k, j)
    BY <2>1, <2>2, RowHands
  <2>4. UNCHANGED <<txnOpen, pendingMark, loadRunning, cleared, superseded>>
    BY <2>1 DEF HandleRow
  <2>5. KeepsTrace(cmds) /\ GoesBehind(cmds)
    BY <1>6, <2>3 DEF KeepsTrace, GoesBehind
  <2>6. MarksMove(cmds)
    BY <1>2, <1>5, <2>3, <2>4 DEF MarksMove
  <2>7. EngineMoves(cmds)
    BY <1>4, <2>3, <2>5, <2>6 DEF EngineMoves, Takes
  <2>8. WindowsOK' /\ StreamOK'
    BY <1>2, <1>7, <1>8, <2>4 DEF WindowsOK
  <2> QED
    BY <2>7, <2>8, EngineKept
<1>10. CASE e.ev = "boundary"
  <2>1. HandleCommit(0)
    BY <1>1, <1>10 DEF TakeCopied
  <2>2. UNCHANGED <<superseded, cleared, loadRunning>> /\ txnOpen' = StaysOpen(0)
    BY <2>1 DEF HandleCommit, HoldCommit, FlushCommit
  <2>3. txnOpen' \in BOOLEAN /\ (txnOpen' <=> txnOpen)
    BY <1>7, <2>2 DEF StaysOpen
  <2>4. \A k, j \in Nat : IsRow(k, j) => (Seen(k, j)' => Seen(k, j)) /\ (End(k) <= 0 => Seen(k, j))
    BY <1>6 DEF End
  <2>5. PICK cmds : EngineMoves(cmds)
    BY <1>4, <2>1, <2>4, CommitMoves
  <2>6. WindowsOK' /\ StreamOK'
    BY <1>2, <1>8, <2>2, <2>3 DEF WindowsOK
  <2> QED
    BY <2>5, <2>6, EngineKept
<1>11. CASE e.ev = "mark"
  <2>1. HandleMark(e.mark)
    BY <1>1, <1>11 DEF TakeCopied
  <2>2. 1 = Len(copyq) /\ e.mark = load.mark /\ load.mark > 0 /\ load.pc = "wait" /\ Unreported
    BY <1>3, <1>11 DEF MarksOK
  <2>3. copyq' = <<>> /\ DOMAIN copyq' = {} /\ load.mark \in Nat
    BY <1>2, <2>2 DEF LoadOK
  <2>4. /\ superseded' = [id \in Ids |-> 0] /\ cleared' = 0 /\ UNCHANGED <<txnOpen, loadRunning>>
    BY <2>1 DEF HandleMark
  <2>5. WindowsOK' /\ StreamOK'
    <3>1. Ver(cur.txn) \in Nat /\ cur' = cur
      BY <1>2, StreamFacts DEF Ver
    <3> QED
      BY <1>7, <1>8, <2>4, <3>1 DEF WindowsOK
  <2>6. CASE txnOpen
    <3>1. pendingMark' = load.mark /\ sent' = sent \o <<>> /\ UNCHANGED <<buffer, bufferPos>>
      BY <2>1, <2>2, <2>6 DEF HandleMark, Hand
    <3>2. MarksMove(<<>>)
      BY <1>2, <2>2, <2>3, <2>4, <2>6, <3>1 DEF MarksMove
    <3>3. EngineMoves(<<>>)
      BY <1>4, <1>6, <3>1, <3>2, IdleMoves
    <3> QED
      BY <2>5, <3>3, EngineKept
  <2>7. CASE ~txnOpen
    <3>1. PICK d : d = Mark(load.mark)
      OBVIOUS
    <3>2. d \in WellFormed /\ d.kind = "mark" /\ d.pos = load.mark
      BY <2>2, <2>3, <3>1 DEF Mark, WellFormed, Command
    <3>3. /\ sent' = sent \o (Flushed \o <<d>>) /\ buffer' = <<>> /\ bufferPos' = 0
          /\ pendingMark' = pendingMark
      BY <2>1, <2>2, <2>7, <3>1 DEF HandleMark, Hand
    <3>4. PICK cmds : EngineMoves(cmds)
      BY <1>4, <1>5, <1>6, <2>2, <2>3, <3>2, <3>3, BarrierMoves
    <3> QED
      BY <2>5, <3>4, EngineKept
  <2> QED
    BY <2>6, <2>7
<1>12. CASE e.ev = "finished"
  <2>1. HandleLoadFinished
    BY <1>1, <1>12 DEF TakeCopied
  <2>2. /\ superseded' = [id \in Ids |-> 0] /\ cleared' = 0 /\ loadRunning' = FALSE
        /\ UNCHANGED <<buffer, bufferPos, txnOpen, pendingMark>> /\ sent' = sent \o <<>>
    BY <2>1 DEF HandleLoadFinished, Hand
  <2>3. WindowsOK' /\ StreamOK'
    <3>1. Ver(cur.txn) \in Nat /\ cur' = cur
      BY <1>2, StreamFacts DEF Ver
    <3>2. loadRunning' \in BOOLEAN
      BY <2>2
    <3> QED
      BY <1>7, <1>8, <2>2, <3>1, <3>2 DEF WindowsOK
  <2>4. MarksMove(<<>>)
    BY <1>2, <1>5, <2>2 DEF MarksMove
  <2>5. EngineMoves(<<>>)
    BY <1>4, <1>6, <2>2, <2>4, IdleMoves
  <2> QED
    BY <2>3, <2>5, EngineKept
<1>13. e.ev \in {"row", "boundary", "mark", "finished"}
  BY <1>3 DEF CopyEvents
<1> QED
  BY <1>9, <1>10, <1>11, <1>12, <1>13

-----------------------------------------------------------------------------
(* The invariant holds throughout, attempt after attempt.                  *)

\* A source whose slot was just created.
LEMMA PipelineInit == ASSUME Init PROVE PipelineInv
<1> USE DEF Init
<1>1. DeliveryInv
  BY DeliveryInitInv
<1>2. /\ wal = <<>> /\ Len(wal) = 0 /\ DOMAIN wal = {} /\ wal \in Seq(TxnShapes)
      /\ sent = <<>> /\ DOMAIN sent = {} /\ Len(sent) = 0 /\ settled = {}
  BY DEF DeliveryInit
<1>3. SourceOK
  <2>1. Initial \in [Ids -> Vals \cup {Absent}]
    BY BodiesAssumption DEF Initial
  <2>2. rows \in [0 .. Len(wal) -> [Ids -> Vals \cup {Absent}]]
    BY <1>2, <2>1
  <2> QED
    BY <1>2, <2>2, PipelineAssumption DEF SourceOK, End
<1>4. StreamOK
  <2>1. txnOpen \in BOOLEAN /\ (txnOpen <=> cur.pos > 0)
    <3>1. ~(cur.pos > 0)
      OBVIOUS
    <3>2. txnOpen = FALSE
      OBVIOUS
    <3> QED
      BY <3>1, <3>2, Zenon
  <2> QED
    BY <1>2, <2>1 DEF StreamOK
<1>5. BufferOK /\ WindowsOK
  <2>1. buffer \in Seq(Op) /\ Len(buffer) = 0 /\ BatchSize \in Nat \ {0}
    BY PipelineAssumption
  <2>2. loadRunning \in BOOLEAN
    OBVIOUS
  <2> QED
    BY <1>2, <2>1, <2>2 DEF BufferOK, WindowsOK, End, Ver
<1>6. LoadOK /\ MarksOK
  <2>1. load \in [pc : Stages, wave : Nat \ {0}, mark : Nat, at : [Ids -> Nat], copied : SUBSET Ids]
    BY FreshLoadType DEF Stages
  <2>2. load.wave = 1 /\ load.pc = "start" /\ Len(Waves) \in Nat
    BY PipelineAssumption DEF FreshLoad
  <2>3. progress \in [stored : BOOLEAN, done : 0 .. Len(Waves), finished : BOOLEAN]
    BY <2>2 DEF NoProgress
  <2>4. copyq \in Seq(CopyEvents) /\ DOMAIN copyq = {}
    OBVIOUS
  <2>5. LoadOK
    BY <2>1, <2>2, <2>3, <2>4 DEF LoadOK
  <2> QED
    BY <1>2, <2>4, <2>5 DEF MarksOK
<1>7. CrashOK
  BY <1>2 DEF CrashOK
<1>8. StreamedOK /\ PositionsOK /\ LeftDelivered
  BY <1>2 DEF StreamedOK, PositionsOK, LeftDelivered, DeliveredTo, IsRow
<1> QED
  BY <1>1, <1>3, <1>4, <1>5, <1>6, <1>7, <1>8 DEF PipelineInv

\* Every step of the pipeline keeps the invariant.
LEMMA PipelineStep == ASSUME PipelineInv, [Next]_vars PROVE PipelineInv'
<1>1. CASE UNCHANGED vars
  <2>1. UNCHANGED <<sent, taskVars, sourceVars, cur, engineVars, copyq, loadVars, crashVars>>
    BY <1>1 DEF vars
  <2>2. LoadOK' /\ MarksOK'
    BY <2>1 DEF PipelineInv, LoadOK, MarksOK, Unreported, loadVars, engineVars
  <2> QED
    BY <2>1, <2>2, LoadPartsKept
<1>2. CASE SourceCommits \/ BecomesVisible \/ ConfirmSlot
  BY <1>2, CommitsKept, SlotKept
<1>3. CASE LoadStep
  BY <1>3, LoadKept
<1>4. CASE EngineStep
  BY <1>4, BeginKept, ChangeTaken, CommitTaken, KeepaliveTaken, CopiedTaken DEF EngineStep
<1>5. CASE Shutdown \/ TasksStep \/ OrphanLands \/ TargetForgets
  BY <1>5, TasksKept
<1>6. CASE NewAttempt
  BY <1>6, AttemptKept
<1> QED
  BY <1>1, <1>2, <1>3, <1>4, <1>5, <1>6 DEF Next

\* Nothing the stream is past is lost in the engine, every position goes out with
\* or behind what it covers, and what earlier attempts confirmed is delivered, in
\* every state of a pipeline that commits, loads, streams, crashes and reconnects.
THEOREM PipelineInvariant == Spec => []PipelineInv
<1>1. Init => PipelineInv
  BY PipelineInit
<1>2. PipelineInv /\ [Next]_vars => PipelineInv'
  BY PipelineStep
<1> QED
  BY <1>1, <1>2, PTL DEF Spec

\* End to end: no position that was acknowledged by the sink loop, stored by the
\* checkpoint task, or confirmed to the server on a keepalive (standby status
\* update) covers a transaction with a change missing from the target, however
\* often the attempt ends and whatever the engine had buffered.
THEOREM NothingConfirmedIsLost == Spec => []ConfirmedIsDelivered
<1>1. PipelineInv => ConfirmedIsDelivered
  <2> SUFFICES ASSUME PipelineInv, NEW k \in 1 .. Len(wal),
                      End(k) <= acked \/ End(k) <= Checkpoint \/ End(k) <= slot
               PROVE  Delivered(k)
    BY DEF ConfirmedIsDelivered
  <2>1. k \in DOMAIN wal /\ acked \in Nat
    BY WalFacts DEF PipelineInv, DeliveryInv, DeliveryTypeOK
  <2>2. DeliveredTo(acked) /\ DeliveredTo(Checkpoint) /\ DeliveredTo(slot)
    BY <2>1, AckedDelivered, StoredDelivered DEF PipelineInv, LeftDelivered
  <2> QED
    BY <2>1, <2>2 DEF DeliveredTo
<1> QED
  BY <1>1, PipelineInvariant, PTL

\* The engine's buffer stays below the batch size, carries a position only while
\* it holds something, and never one that the source has not written; a mark is
\* held back only for an open transaction or a held buffer (engine run).
THEOREM PipelineTypes == Spec => []TypeOK
<1>1. PipelineInv => TypeOK
  <2> SUFFICES ASSUME PipelineInv PROVE TypeOK
    OBVIOUS
  <2> USE DEF PipelineInv
  <2>1. DeliveryTypeOK
    BY DEF DeliveryInv
  <2>2. /\ cur.txn \in 1 .. Len(wal) + 1
        /\ cur.pos \in 0 .. IF cur.txn <= Len(wal) THEN Len(wal[cur.txn]) + 1 ELSE 0
    <3>1. cur.txn <= Len(wal) => Len(wal[cur.txn]) \in Nat
      BY StreamFacts DEF Streaming, Txn
    <3> QED
      BY <3>1, StreamFacts DEF StreamOK
  <2>3. bufferPos \in 0 .. End(Len(wal))
    BY StreamFacts DEF BufferOK, End
  <2>4. txnOpen = (cur.pos > 0)
    BY DEF StreamOK
  <2>5. pendingMark \in 0 .. load.mark /\ (pendingMark > 0 => txnOpen \/ buffer # <<>>)
    BY DEF MarksOK, LoadOK
  <2>6. load.at \in [Ids -> Nat] /\ load.wave \in 1 .. Len(Waves) + 1 /\ progress.done \in 0 .. Len(Waves)
    BY PipelineAssumption DEF LoadOK
  <2> QED
    BY <2>1, <2>2, <2>3, <2>4, <2>5, <2>6 DEF TypeOK, SourceOK, BufferOK, WindowsOK, CrashOK
<1> QED
  BY <1>1, PipelineInvariant, PTL
=============================================================================
