--------------------------- MODULE ConvergeProofs ---------------------------
(***************************************************************************)
(* The table and the index agree once everything has gone through,         *)
(* whatever the batches, the write concurrency, the retries, the attempts  *)
(* and the tombstones the target forgets.                                  *)
(*                                                                         *)
(* Every operation is true: a streamed one says what its change made of    *)
(* the row, a copied one what the row was at its version or later.  One as *)
(* new as the last change of an id can therefore only say what the row is  *)
(* now, and older ones are declined, as long as the target remembers the   *)
(* version.  Of a row that exists it does.  Of a removed one it forgets it *)
(* some day, and then nothing older may be left that brings the row back:  *)
(* not in the engine, which drops what it knows to be removed, not in a    *)
(* command behind the removal, and not in a request still to be repeated.  *)
(*                                                                         *)
(* What is said is of transactions that change a row once, of whole rows,  *)
(* and with truncates of one attempt; README.md says why.                  *)
(***************************************************************************)
EXTENDS LoadProofs

\* The instances the theorem is about.
Plain ==
  /\ Policy = "halt" /\ ~SnapshotRace /\ ~CrashBeforeProgress
  /\ \A id \in Ids : \E w \in DOMAIN Waves : id \in Waves[w]
  /\ \A t \in TxnShapes : \A j \in DOMAIN t :
       /\ t[j].kind # "touch"
       /\ t[j].kind = "truncate" => MaxRestarts = 0
       /\ \A i \in 1 .. j - 1 :
            t[i].kind # "truncate" => t[j].kind # "truncate" /\ t[j].id # t[i].id

\* A reconnect keeps its durable position while the server repeats what it
\* covers; an attempt that ends in the middle of that has confirmed the slot past
\* removals it has not repeated.
Repeats == NewAttempt => kept <= acked

-----------------------------------------------------------------------------
(* The invariant, part by part.                                            *)

Final(id) == rows[Len(wal)][id]

Touches(c, id) == c.kind = "truncate" \/ c.id = id
Affects(k, id) == \E j \in DOMAIN wal[k] : Touches(wal[k][j], id)
Upserts(c, id) == c.kind = "upsert" /\ c.id = id
Removes(c, id) == c.kind = "truncate" \/ (c.kind = "delete" /\ c.id = id)

\* Transaction k is the last one that concerns the row, 0 if none does.
LastAt(k, id) ==
  /\ k \in 0 .. Len(wal) /\ (k > 0 => Affects(k, id))
  /\ \A m \in k + 1 .. Len(wal) : ~Affects(m, id)

\* The table after a transaction is what its one change of the row says.
RowsOK ==
  /\ \A id \in Ids : rows[0][id] # Absent
  /\ \A k \in DOMAIN wal, id \in Ids :
       /\ ~Affects(k, id) => rows[k][id] = rows[k - 1][id]
       /\ Affects(k, id) /\ rows[k][id] # Absent => \E j \in DOMAIN wal[k] : Upserts(wal[k][j], id)
       /\ \A j \in DOMAIN wal[k] :
            /\ Upserts(wal[k][j], id) => rows[k][id] = Body(<<k, j>>, <<k, j>>)
            /\ wal[k][j].kind = "delete" /\ wal[k][j].id = id => rows[k][id] = Absent

\* A copied row is the row as it was at its version, or later.
CopyTrue(op) ==
  /\ op.val # Absent
  /\ \E m \in 0 .. Len(wal) : \E v \in m .. Len(wal) : op.ver = End(m) /\ op.val = rows[v][op.id]

\* A streamed one is what its change makes of the row.
Makes(op, k, j) ==
  /\ wal[k][j].kind # "truncate" /\ wal[k][j].id = op.id /\ op.ver = Ver(k)
  /\ op.val = IF wal[k][j].kind = "upsert" THEN Body(<<k, j>>, <<k, j>>) ELSE Absent

StreamTrue(op) == \E k \in DOMAIN wal : \E j \in DOMAIN wal[k] : Makes(op, k, j)
TakenTrue(op) ==
  CopyTrue(op) \/ \E k \in DOMAIN wal : \E j \in DOMAIN wal[k] : Seen(k, j) /\ Makes(op, k, j)
OpTrue(op) == CopyTrue(op) \/ StreamTrue(op)

Truncates(k) == \E j \in DOMAIN wal[k] : wal[k][j].kind = "truncate"

\* A document is what an operation made of it, or a truncate.
DocTrue(doc, id) ==
  \/ doc = NoDoc
  \/ OpTrue([id |-> id, val |-> doc.val, ver |-> doc.ver])
  \/ doc.val = Absent /\ \E k \in DOMAIN wal : Truncates(k) /\ doc.ver = Ver(k)

HandedTrue ==
  /\ \A m \in DOMAIN buffer : TakenTrue(buffer[m])
  /\ \A i \in DOMAIN sent :
       /\ \A m \in DOMAIN sent[i].ops : TakenTrue(sent[i].ops[m])
       /\ sent[i].kind = "truncate" =>
            \E k \in DOMAIN wal : \E j \in DOMAIN wal[k] :
              Seen(k, j) /\ wal[k][j].kind = "truncate" /\ sent[i].pos = Ver(k)

LeftTrue ==
  /\ \A ops \in orphans : \A m \in DOMAIN ops : OpTrue(ops[m])
  /\ \A op \in applied : OpTrue(op)

DocsTrue == \A id \in Ids : DocTrue(docs[id], id)

\* What the load reads and has on its channel.
CopiesTrue ==
  /\ \A x \in DOMAIN copyq : copyq[x].ev = "row" => CopyTrue(copyq[x].op)
  /\ \A id \in Ids : load.at[id] # 0 =>
       load.pc # "start" /\ \E m \in 0 .. visible : load.at[id] = End(m)
  /\ \A x \in DOMAIN copyq : copyq[x].ev = "finished" => x = Len(copyq) /\ load.pc = "done"
  /\ ~loadRunning => load.pc = "done" /\ copyq = <<>>

\* A row of id is being copied at this version.
Copying(id, ver) ==
  \/ load.pc = "read" /\ load.at[id] = ver /\ ver # 0
  \/ \E x \in DOMAIN copyq : copyq[x].ev = "row" /\ copyq[x].op.id = id /\ copyq[x].op.ver = ver

\* The engine remembers every removal such a row must be held against.
WindowsCover ==
  \A id \in Ids, ver \in Nat : Copying(id, ver) =>
    /\ loadRunning
    /\ \A k \in DOMAIN wal : \A j \in DOMAIN wal[k] : Seen(k, j) /\ Ver(k) > ver =>
         /\ wal[k][j].kind = "truncate" => cleared >= Ver(k)
         /\ wal[k][j].kind = "delete" /\ wal[k][j].id = id => superseded[id] >= Ver(k)

\* The row is gone for good, and the engine has taken its removal.
Removed(k, id) ==
  /\ LastAt(k, id) /\ k \in DOMAIN wal /\ Final(id) = Absent
  /\ \E j \in DOMAIN wal[k] : Removes(wal[k][j], id) /\ Seen(k, j)

RemOp(op, k, id) == op.id = id /\ op.val = Absent /\ op.ver = Ver(k)
RemOps(ops, k, id) == \E m \in DOMAIN ops : RemOp(ops[m], k, id)
RemAt(x, k, id) ==
  (sent[x].kind = "truncate" /\ sent[x].pos = Ver(k)) \/ RemOps(sent[x].ops, k, id)
LiveIn(ops, id) == \E m \in DOMAIN ops : ops[m].id = id /\ ops[m].val # Absent

\* A removed row is written only ahead of its removal.
OrderOK ==
  \A k \in DOMAIN wal, id \in Ids : Removed(k, id) =>
    /\ LiveIn(buffer, id) => RemOps(buffer, k, id)
    /\ \A i \in DOMAIN sent : LiveIn(sent[i].ops, id) =>
         RemOps(buffer, k, id) \/ \E x \in i .. Len(sent) : RemAt(x, k, id)

NewerThan(ops, p) == \A m \in DOMAIN ops : \A k \in Nat : ops[m].ver = Ver(k) => Ver(k) > p

\* Nothing streamed goes out behind a position that covers it.
BehindPositions ==
  \A p \in DOMAIN sent : CarriesPosition(sent[p]) =>
    /\ NewerThan(buffer, sent[p].pos)
    /\ \A i \in p + 1 .. Len(sent) : NewerThan(sent[i].ops, sent[p].pos)

\* A truncate is newer than everything streamed ahead of it.
TruncatesOrder ==
  \A x \in DOMAIN sent : sent[x].kind = "truncate" =>
    \A i \in 1 .. x - 1 : \A m \in DOMAIN sent[i].ops : \A k \in Nat :
      sent[i].ops[m].ver = Ver(k) => Ver(k) < sent[x].pos

\* What the slot covers, and the kept position does not, was repeated.
SlotClean ==
  \A k \in DOMAIN wal : End(k) <= slot /\ ~(End(k) <= kept) =>
    /\ k < cur.txn
    /\ \A m \in DOMAIN buffer : buffer[m].ver # Ver(k)
    /\ \A i \in DOMAIN sent : \A m \in DOMAIN sent[i].ops :
         sent[i].ops[m].ver = Ver(k) => <<i, m>> \in settled

SettledInWindow == \A s \in settled : s[1] <= finished \/ s[1] \in Window

NoAttempts == MaxRestarts = 0 => orphans = {} /\ applied = {}

\* The removal has still to be executed, or is remembered by the target, or
\* nothing is left that the target would have to be kept from taking.
Unanswered(i) == OpsOf(i, Positions(i)) \cap settled = {}
PendAt(x, k, id) ==
  \/ sent[x].kind = "truncate" /\ sent[x].pos = Ver(k) /\ x > finished
  \/ \E m \in DOMAIN sent[x].ops : RemOp(sent[x].ops[m], k, id) /\ <<x, m>> \notin settled
Pend(k, id) == RemOps(buffer, k, id) \/ \E x \in DOMAIN sent : PendAt(x, k, id)
Tomb(k, id) == docs[id].val = Absent /\ docs[id].ver >= Ver(k)
Clean(id) ==
  /\ docs[id].val = Absent
  /\ ~LiveIn(buffer, id)
  /\ \A ops \in orphans : ~LiveIn(ops, id)
  /\ \A i \in DOMAIN sent : LiveIn(sent[i].ops, id) => ~Unanswered(i)

RemovedStays ==
  \A k \in DOMAIN wal, id \in Ids : Removed(k, id) => Pend(k, id) \/ Tomb(k, id) \/ Clean(id)

\* A row that exists is in the target once its last change was executed.
UpsertStays ==
  \A k \in DOMAIN wal, id \in Ids : LastAt(k, id) /\ Final(id) # Absent =>
    \A op \in applied \cup OpsSettled : op.id = id /\ op.ver = Ver(k) =>
      docs[id].ver >= Ver(k) /\ docs[id].val # Absent

TraceInv == HandedTrue /\ OrderOK /\ BehindPositions /\ TruncatesOrder
TargetInv == DocsTrue /\ LeftTrue /\ RemovedStays /\ UpsertStays
ConvergeInv ==
  /\ RowsOK /\ TraceInv /\ CopiesTrue /\ WindowsCover /\ TargetInv
  /\ SlotClean /\ SettledInWindow /\ NoAttempts

-----------------------------------------------------------------------------
(* The source.                                                             *)

\* What a transaction that changes a row once makes of it.
LEMMA TouchedOnce ==
  ASSUME Plain, NEW t \in TxnShapes, NEW k \in 1 .. MaxTxns,
         NEW before \in [Ids -> Vals \cup {Absent}], NEW id \in Ids,
         NEW after, after = Touched(before, t, k, Len(t), id)
  PROVE  /\ (\A j \in DOMAIN t : ~Touches(t[j], id)) => after = before[id]
         /\ (\E j \in DOMAIN t : Touches(t[j], id)) /\ after # Absent =>
              \E j \in DOMAIN t : Upserts(t[j], id)
         /\ \A j \in DOMAIN t :
              /\ Upserts(t[j], id) => after = Body(<<k, j>>, <<k, j>>)
              /\ t[j].kind = "delete" /\ t[j].id = id => after = Absent
<1> DEFINE S == {i \in 1 .. Len(t) : t[i].kind = "truncate" \/ t[i].id = id}
           W == {i \in S : t[i].kind # "touch"}
           Last(T) == CHOOSE i \in T : \A m \in T : m <= i
           Base(T) == IF T = {} THEN before[id]
                      ELSE IF t[Last(T)].kind = "upsert" THEN Body(<<k, Last(T)>>, <<k, Last(T)>>)
                      ELSE Absent
<1>1. /\ Len(t) \in Nat /\ DOMAIN t = 1 .. Len(t)
      /\ \A i \in DOMAIN t : t[i] \in Change /\ t[i].kind # "touch"
  BY PipelineAssumption DEF Plain
<1>2. W = S
  BY <1>1
<1>3. after = IF S = {} \/ Base(S) = Absent \/ t[Last(S)].kind # "touch" THEN Base(S)
              ELSE [Base(S) EXCEPT !.c = <<k, Last(S)>>]
  <2>1. after = IF S = {} \/ Base(W) = Absent \/ t[Last(S)].kind # "touch" THEN Base(W)
                ELSE [Base(W) EXCEPT !.c = <<k, Last(S)>>]
    BY DEF Touched
  <2> HIDE DEF S, W, Base, Last
  <2> QED
    BY <1>2, <2>1
<1>4. S = {i \in DOMAIN t : Touches(t[i], id)}
  BY <1>1 DEF Touches
<1>5. CASE S = {}
  <2>1. Base(S) = before[id] /\ \A j \in DOMAIN t : ~Touches(t[j], id)
    BY <1>4, <1>5
  <2>2. after = Base(S)
    <3> HIDE DEF S, Base, Last
    <3> QED
      BY <1>3, <1>5
  <2> QED
    BY <2>1, <2>2 DEF Touches, Upserts
<1>6. CASE S # {}
  <2>1. S \in SUBSET (1 .. Len(t)) /\ Len(t) \in Nat
    BY <1>1
  <2>2. \E i \in S : \A m \in S : m <= i
    <3>1. S \in SUBSET (0 .. Len(t))
      BY <1>1
    <3> HIDE DEF S
    <3> QED
      BY <1>1, <1>6, <3>1, GreatestOf
  <2>3. PICK l : l = Last(S)
    OBVIOUS
  <2>4. l \in S /\ \A m \in S : m <= l
    BY <2>2, <2>3
  <2>5. l \in DOMAIN t /\ t[l].kind # "touch" /\ Touches(t[l], id)
    BY <1>1, <1>4, <2>4
  <2>6. after = IF t[l].kind = "upsert" THEN Body(<<k, l>>, <<k, l>>) ELSE Absent
    <3>1. after = Base(S)
      <4> HIDE DEF S, Base, Last
      <4> QED
        BY <1>3, <2>3, <2>5
    <3>2. Base(S) = IF t[Last(S)].kind = "upsert" THEN Body(<<k, Last(S)>>, <<k, Last(S)>>) ELSE Absent
      BY <1>6
    <3> HIDE DEF S, Base, Last
    <3> QED
      BY <2>3, <3>1, <3>2
  <2>7. ASSUME NEW j \in DOMAIN t, t[j].id = id, t[j].kind \in {"upsert", "delete"} PROVE j = l
    <3>1. j \in S
      BY <1>4, <2>7 DEF Touches
    <3>2. j <= l /\ j \in Nat /\ l \in Nat /\ j > 0
      BY <1>1, <2>4, <2>5, <3>1
    <3>3. j < l => FALSE
      <4> SUFFICES ASSUME j < l PROVE FALSE
        OBVIOUS
      <4>1. j \in 1 .. l - 1
        BY <3>2
      <4> QED
        BY <2>5, <2>7, <4>1 DEF Plain, Touches
    <3> QED
      BY <3>2, <3>3
  <2>8. after # Absent => Upserts(t[l], id)
    BY <2>5, <2>6 DEF Touches, Upserts
  <2> HIDE DEF S, W, Base, Last
  <2> QED
    BY <1>4, <1>6, <2>4, <2>5, <2>6, <2>7, <2>8 DEF Upserts
<1> QED
  BY <1>5, <1>6

\* A row body is never the absent one.
LEMMA BodyIsThere ==
  ASSUME SourceOK, NEW k \in DOMAIN wal, NEW j \in DOMAIN wal[k]
  PROVE  Body(<<k, j>>, <<k, j>>) # Absent
<1>1. k \in 1 .. MaxTxns /\ wal[k] \in TxnShapes
  BY WalFacts DEF SourceOK
<1> QED
  BY <1>1, BodiesAssumption, AbsentIsNoBody

\* A row that no transaction concerns stays as it is.
LEMMA RowStays ==
  ASSUME SourceOK, RowsOK, NEW id \in Ids, NEW k \in 0 .. Len(wal),
         \A m \in k + 1 .. Len(wal) : ~Affects(m, id)
  PROVE  \A v \in k .. Len(wal) : rows[v][id] = rows[k][id]
<1>1. Len(wal) \in Nat /\ DOMAIN wal = 1 .. Len(wal) /\ k \in Nat
  BY WalFacts
<1> SUFFICES ASSUME NEW u \in k .. Len(wal), rows[u][id] # rows[k][id] PROVE FALSE
  OBVIOUS
<1> DEFINE T == {x \in k .. Len(wal) : rows[x][id] # rows[k][id]}
<1>2. T \in SUBSET Nat /\ T # {}
  BY <1>1
<1>3. PICK x \in T : \A y \in T : x <= y
  <2> HIDE DEF T
  <2> QED
    BY <1>2, LeastOf
<1>4. x \in k + 1 .. Len(wal)
  BY <1>1, <1>3
<1>5. rows[x][id] = rows[x - 1][id]
  BY <1>1, <1>4 DEF RowsOK
<1>6. x - 1 \in T
  BY <1>1, <1>3, <1>4, <1>5
<1> QED
  BY <1>1, <1>3, <1>4, <1>6

\* Every row has a last transaction that concerns it, or none.
LEMMA HasLast ==
  ASSUME SourceOK, NEW id \in Ids
  PROVE  \E k \in 0 .. Len(wal) : LastAt(k, id)
<1>1. Len(wal) \in Nat /\ DOMAIN wal = 1 .. Len(wal)
  BY WalFacts
<1> DEFINE T == {x \in 0 .. Len(wal) : x = 0 \/ Affects(x, id)}
<1>2. T \in SUBSET (0 .. Len(wal)) /\ T # {}
  BY <1>1
<1>3. PICK k \in T : \A y \in T : y <= k
  <2> HIDE DEF T
  <2> QED
    BY <1>1, <1>2, GreatestOf
<1>4. k \in 0 .. Len(wal) /\ (k > 0 => Affects(k, id))
  BY <1>3
<1>5. ASSUME NEW m \in k + 1 .. Len(wal) PROVE ~Affects(m, id)
  BY <1>1, <1>3, <1>4, <1>5
<1> QED
  BY <1>4, <1>5 DEF LastAt

\* An operation as new as the last change of its row says what the row is now.
LEMMA OpDecides ==
  ASSUME Plain, SourceOK, RowsOK, NEW op, op.id \in Ids, OpTrue(op), NEW k, LastAt(k, op.id), op.ver >= Ver(k)
  PROVE  op.val = Final(op.id)
<1>1. /\ Len(wal) \in Nat /\ DOMAIN wal = 1 .. Len(wal) /\ k \in 0 .. Len(wal)
      /\ \A m \in k + 1 .. Len(wal) : ~Affects(m, op.id)
  BY WalFacts DEF LastAt
<1>2. \A v \in k .. Len(wal) : rows[v][op.id] = rows[k][op.id]
  BY <1>1, RowStays
<1>3. Final(op.id) = rows[k][op.id]
  BY <1>1, <1>2 DEF Final
<1>4. CASE CopyTrue(op)
  <2>1. PICK m \in 0 .. Len(wal) : \E v \in m .. Len(wal) : op.ver = End(m) /\ op.val = rows[v][op.id]
    BY <1>4 DEF CopyTrue
  <2>2. PICK v \in m .. Len(wal) : op.ver = End(m) /\ op.val = rows[v][op.id]
    BY <2>1
  <2>3. v \in k .. Len(wal)
    BY <1>1, <2>2 DEF End, Ver
  <2> QED
    BY <1>2, <1>3, <2>2, <2>3
<1>5. CASE StreamTrue(op)
  <2>1. PICK m \in DOMAIN wal : \E j \in DOMAIN wal[m] : Makes(op, m, j)
    BY <1>5 DEF StreamTrue
  <2>2. PICK j \in DOMAIN wal[m] : Makes(op, m, j)
    BY <2>1
  <2>3. m = k
    <3>1. Affects(m, op.id) /\ m >= k
      BY <1>1, <2>2 DEF Affects, Touches, Makes, Ver
    <3> QED
      BY <1>1, <3>1
  <2>4. wal[m][j] \in Change /\ wal[m][j].kind # "truncate" /\ wal[m][j].kind # "touch"
    <3>1. wal[m] \in TxnShapes
      BY WalFacts
    <3> QED
      BY <2>2, <3>1, WalFacts DEF Plain, Makes
  <2>5. CASE wal[m][j].kind = "upsert"
    BY <1>3, <2>2, <2>3, <2>5 DEF RowsOK, Upserts, Makes
  <2>6. CASE wal[m][j].kind = "delete"
    <3>1. wal[m][j].id = op.id /\ op.val = Absent
      BY <2>2, <2>6 DEF Makes
    <3>2. rows[m][op.id] = Absent
      BY <2>6, <3>1 DEF RowsOK
    <3> QED
      BY <1>3, <2>3, <3>1, <3>2
  <2>7. wal[m][j].kind \in {"upsert", "delete"}
    BY <2>4 DEF Change
  <2> QED
    BY <2>5, <2>6, <2>7
<1> QED
  BY <1>4, <1>5 DEF OpTrue

\* So does a document, unless a truncate made it.
LEMMA DocDecides ==
  ASSUME Plain, SourceOK, RowsOK, NEW id \in Ids, NEW doc, DocTrue(doc, id),
         NEW k, LastAt(k, id), doc.ver >= Ver(k)
  PROVE  /\ Final(id) = Absent => doc.val = Absent
         /\ doc.val = Absent /\ Final(id) # Absent /\ k > 0 => Truncates(k) /\ doc.ver = Ver(k)
<1>1. /\ Len(wal) \in Nat /\ DOMAIN wal = 1 .. Len(wal) /\ k \in 0 .. Len(wal)
      /\ \A m \in k + 1 .. Len(wal) : ~Affects(m, id)
  BY WalFacts DEF LastAt
<1>2. CASE doc = NoDoc
  BY <1>1, <1>2 DEF NoDoc, Ver
<1>3. CASE OpTrue([id |-> id, val |-> doc.val, ver |-> doc.ver])
  <2>1. PICK op : op = [id |-> id, val |-> doc.val, ver |-> doc.ver]
    OBVIOUS
  <2>2. op.id = id /\ op.val = doc.val /\ op.ver = doc.ver /\ OpTrue(op)
    BY <1>3, <2>1
  <2>3. op.val = Final(op.id)
    BY <2>2, OpDecides
  <2> QED
    BY <2>2, <2>3
<1>4. CASE doc.val = Absent /\ \E m \in DOMAIN wal : Truncates(m) /\ doc.ver = Ver(m)
  <2>1. PICK m \in DOMAIN wal : Truncates(m) /\ doc.ver = Ver(m)
    BY <1>4
  <2>2. Affects(m, id) /\ m >= k
    BY <1>1, <2>1 DEF Truncates, Affects, Touches, Ver
  <2>3. m = k
    BY <1>1, <2>2
  <2> QED
    BY <1>4, <2>1, <2>3
<1> QED
  BY <1>2, <1>3, <1>4 DEF DocTrue

\* What is said of the source does not change with the rest.
LEMMA SourceSame ==
  ASSUME UNCHANGED <<wal, rows>>
  PROVE  /\ RowsOK => RowsOK'
         /\ \A k, id : (LastAt(k, id)' <=> LastAt(k, id)) /\ Final(id)' = Final(id)
         /\ \A op : /\ CopyTrue(op)' <=> CopyTrue(op)
                    /\ OpTrue(op)' <=> OpTrue(op)
         /\ \A doc, id : DocTrue(doc, id)' <=> DocTrue(doc, id)
         /\ \A k : Truncates(k)' <=> Truncates(k)
<1>1. \A k, id : (Affects(k, id)' <=> Affects(k, id)) /\ Final(id)' = Final(id)
  BY DEF Affects, Final
<1>2. \A k, id : LastAt(k, id)' <=> LastAt(k, id)
  BY <1>1 DEF LastAt
<1>3. RowsOK => RowsOK'
  BY <1>1 DEF RowsOK
<1>4. \A op : (CopyTrue(op)' <=> CopyTrue(op)) /\ (StreamTrue(op)' <=> StreamTrue(op))
  BY DEF CopyTrue, StreamTrue, Makes
<1>5. \A op : OpTrue(op)' <=> OpTrue(op)
  BY <1>4 DEF OpTrue
<1>6. \A k : Truncates(k)' <=> Truncates(k)
  BY DEF Truncates
<1>7. \A doc, id : DocTrue(doc, id)' <=> DocTrue(doc, id)
  BY <1>5, <1>6 DEF DocTrue
<1> QED
  BY <1>1, <1>2, <1>3, <1>4, <1>5, <1>6, <1>7

\* Nor what is said of where the engine is in it.
LEMMA PlaceSame ==
  ASSUME UNCHANGED <<wal, rows, cur>>
  PROVE  /\ \A op : TakenTrue(op)' <=> TakenTrue(op)
         /\ \A k, id : Removed(k, id)' <=> Removed(k, id)
         /\ \A k, j : Seen(k, j)' <=> Seen(k, j)
<1>1. \A k, j : Seen(k, j)' <=> Seen(k, j)
  BY DEF Seen
<1>2. \A op : TakenTrue(op)' <=> TakenTrue(op)
  BY <1>1, SourceSame DEF TakenTrue, Makes
<1>3. \A k, id : Removed(k, id)' <=> Removed(k, id)
  BY <1>1, SourceSame DEF Removed
<1> QED
  BY <1>1, <1>2, <1>3

\* A true operation has the version of a position the source has reached.
LEMMA TrueVersion ==
  ASSUME SourceOK, NEW op, OpTrue(op)
  PROVE  \E k \in 0 .. Len(wal) : op.ver = Ver(k) \/ op.ver = End(k)
<1>1. DOMAIN wal = 1 .. Len(wal) /\ Len(wal) \in Nat
  BY WalFacts
<1>2. CASE CopyTrue(op)
  BY <1>2 DEF CopyTrue
<1>3. CASE StreamTrue(op)
  <2>1. \E k \in DOMAIN wal : op.ver = Ver(k)
    BY <1>3 DEF StreamTrue, Makes
  <2> QED
    BY <1>1, <2>1
<1> QED
  BY <1>2, <1>3 DEF OpTrue

\* What was taken is true.
LEMMA TakenIsTrue == ASSUME NEW op, TakenTrue(op) PROVE OpTrue(op)
BY DEF TakenTrue, OpTrue, StreamTrue

\* A commit adds a transaction, and the table after it.
Commits(t) ==
  /\ wal' \in Seq(TxnShapes) /\ Len(wal') = Len(wal) + 1
  /\ DOMAIN wal' = 1 .. Len(wal) + 1 /\ \A k \in DOMAIN wal : wal'[k] = wal[k]
  /\ wal'[Len(wal) + 1] = t
  /\ \A k \in 0 .. Len(wal) : rows'[k] = rows[k]
  /\ \A id \in Ids :
       rows'[Len(wal) + 1][id] = Touched(rows[Len(wal)], t, Len(wal) + 1, Len(t), id)

\* SourceCommits is such a step.
LEMMA CommitsAdds ==
  ASSUME PipelineInv, SourceCommits
  PROVE  \E t \in TxnShapes : Commits(t) /\ Len(wal) + 1 \in 1 .. MaxTxns
<1> USE DEF PipelineInv
<1>1. PICK t \in TxnShapes :
        /\ Len(wal) < MaxTxns /\ wal' = Append(wal, t)
        /\ rows' = [k \in 0 .. Len(wal) + 1 |->
                      IF k <= Len(wal) THEN rows[k]
                      ELSE [id \in Ids |-> Touched(rows[Len(wal)], t, k, Len(t), id)]]
  BY DEF SourceCommits
<1>2. Len(wal) \in Nat /\ MaxTxns \in Nat /\ DOMAIN wal = 1 .. Len(wal) /\ wal \in Seq(TxnShapes)
  BY WalFacts DEF SourceOK
<1>3. /\ wal' \in Seq(TxnShapes) /\ Len(wal') = Len(wal) + 1 /\ DOMAIN wal' = 1 .. Len(wal) + 1
      /\ \A k \in DOMAIN wal : wal'[k] = wal[k]
      /\ wal'[Len(wal) + 1] = t
  BY <1>1, <1>2
<1>4. \A k \in 0 .. Len(wal) : rows'[k] = rows[k]
  BY <1>1, <1>2
<1>5. rows'[Len(wal) + 1] = [id \in Ids |-> Touched(rows[Len(wal)], t, Len(wal) + 1, Len(t), id)]
  BY <1>1, <1>2
<1>6. \A id \in Ids :
        rows'[Len(wal) + 1][id] = Touched(rows[Len(wal)], t, Len(wal) + 1, Len(t), id)
  BY <1>5
<1> QED
  BY <1>1, <1>2, <1>3, <1>4, <1>6 DEF Commits

\* What was true of the source, and of the operations made from it, still is.
LEMMA CommitKeeps ==
  ASSUME Plain, SourceOK, RowsOK, NEW t \in TxnShapes, Commits(t), Len(wal) + 1 \in 1 .. MaxTxns
  PROVE  /\ RowsOK'
         /\ \A op : (CopyTrue(op) => CopyTrue(op)') /\ (OpTrue(op) => OpTrue(op)')
         /\ \A doc : \A id \in Ids : DocTrue(doc, id) => DocTrue(doc, id)'
         /\ \A id \in Ids, k \in 0 .. Len(wal) :
              LastAt(k, id)' => LastAt(k, id) /\ Final(id)' = Final(id)
<1> USE DEF Commits
<1>1. Len(wal) \in Nat /\ DOMAIN wal = 1 .. Len(wal)
  BY WalFacts
<1>2. \A k \in DOMAIN wal : /\ k \in DOMAIN wal' /\ wal'[k] = wal[k]
                            /\ rows'[k] = rows[k] /\ rows'[k - 1] = rows[k - 1]
  BY <1>1
<1>3. \A id : \A k \in DOMAIN wal : Affects(k, id)' <=> Affects(k, id)
  BY <1>2 DEF Affects
<1>n. PICK n : n = Len(wal) + 1
  OBVIOUS
<1>4. /\ wal'[n] = t /\ n \in DOMAIN wal' /\ n - 1 = Len(wal) /\ rows'[n - 1] = rows[Len(wal)]
      /\ rows[Len(wal)] \in [Ids -> Vals \cup {Absent}]
  BY <1>1, <1>n DEF SourceOK
<1>5. ASSUME NEW id \in Ids
      PROVE  /\ ~Affects(n, id)' => rows'[n][id] = rows'[n - 1][id]
             /\ Affects(n, id)' /\ rows'[n][id] # Absent => \E j \in DOMAIN wal'[n] : Upserts(wal'[n][j], id)
             /\ \A j \in DOMAIN wal'[n] :
                  /\ Upserts(wal'[n][j], id) => rows'[n][id] = Body(<<n, j>>, <<n, j>>)
                  /\ wal'[n][j].kind = "delete" /\ wal'[n][j].id = id => rows'[n][id] = Absent
  <2>1. PICK after : after = Touched(rows[Len(wal)], t, n, Len(t), id)
    OBVIOUS
  <2>2. /\ (\A j \in DOMAIN t : ~Touches(t[j], id)) => after = rows[Len(wal)][id]
        /\ (\E j \in DOMAIN t : Touches(t[j], id)) /\ after # Absent =>
             \E j \in DOMAIN t : Upserts(t[j], id)
        /\ \A j \in DOMAIN t :
             /\ Upserts(t[j], id) => after = Body(<<n, j>>, <<n, j>>)
             /\ t[j].kind = "delete" /\ t[j].id = id => after = Absent
    BY <1>4, <1>n, <2>1, TouchedOnce
  <2>3. rows'[n][id] = after
    BY <1>n, <2>1
  <2> HIDE DEF Commits
  <2> QED
    BY <1>4, <2>2, <2>3 DEF Affects
<1>6. RowsOK'
  <2>1. \A id \in Ids : rows'[0][id] # Absent
    BY <1>1 DEF RowsOK
  <2>2. ASSUME NEW k \in DOMAIN wal', k # n PROVE k \in DOMAIN wal
    BY <1>1, <1>n, <2>2
  <2>3. ASSUME NEW k \in DOMAIN wal', NEW id \in Ids
        PROVE  /\ ~Affects(k, id)' => rows'[k][id] = rows'[k - 1][id]
               /\ Affects(k, id)' /\ rows'[k][id] # Absent => \E j \in DOMAIN wal'[k] : Upserts(wal'[k][j], id)
               /\ \A j \in DOMAIN wal'[k] :
                    /\ Upserts(wal'[k][j], id) => rows'[k][id] = Body(<<k, j>>, <<k, j>>)
                    /\ wal'[k][j].kind = "delete" /\ wal'[k][j].id = id => rows'[k][id] = Absent
    <3>1. CASE k = n
      BY <1>5, <3>1
    <3>2. CASE k # n
      <4>1. k \in DOMAIN wal
        BY <2>2, <3>2
      <4>2. wal'[k] = wal[k] /\ rows'[k] = rows[k] /\ rows'[k - 1] = rows[k - 1]
        BY <1>2, <4>1
      <4> HIDE DEF Commits
      <4> QED
        BY <1>3, <4>1, <4>2 DEF RowsOK
    <3> QED
      BY <3>1, <3>2
  <2> HIDE DEF Commits
  <2> QED
    BY <2>1, <2>3 DEF RowsOK
<1>7. ASSUME NEW op, CopyTrue(op) PROVE CopyTrue(op)'
  <2>1. PICK m \in 0 .. Len(wal) : \E v \in m .. Len(wal) : op.ver = End(m) /\ op.val = rows[v][op.id]
    BY <1>7 DEF CopyTrue
  <2>2. PICK v \in m .. Len(wal) : op.ver = End(m) /\ op.val = rows[v][op.id]
    BY <2>1
  <2>3. m \in 0 .. Len(wal') /\ v \in m .. Len(wal') /\ rows'[v] = rows[v]
    BY <1>1
  <2> HIDE DEF Commits
  <2> QED
    BY <1>7, <2>2, <2>3 DEF CopyTrue
<1>8. ASSUME NEW op, StreamTrue(op) PROVE StreamTrue(op)'
  <2>1. PICK k \in DOMAIN wal : \E j \in DOMAIN wal[k] : Makes(op, k, j)
    BY <1>8 DEF StreamTrue
  <2>2. PICK j \in DOMAIN wal[k] : Makes(op, k, j)
    BY <2>1
  <2>3. k \in DOMAIN wal' /\ j \in DOMAIN wal'[k] /\ Makes(op, k, j)'
    BY <1>2, <2>2 DEF Makes
  <2> QED
    BY <2>3 DEF StreamTrue
<1>9. \A op : OpTrue(op) => OpTrue(op)'
  BY <1>7, <1>8 DEF OpTrue
<1>10. \A doc : \A id \in Ids : DocTrue(doc, id) => DocTrue(doc, id)'
  <2>1. \A k \in DOMAIN wal : Truncates(k) => Truncates(k)' /\ k \in DOMAIN wal'
    BY <1>2 DEF Truncates
  <2> HIDE DEF Commits
  <2> QED
    BY <1>9, <2>1 DEF DocTrue
<1>11. ASSUME NEW id \in Ids, NEW k \in 0 .. Len(wal), LastAt(k, id)'
       PROVE  LastAt(k, id) /\ Final(id)' = Final(id)
  <2>1. \A m \in k + 1 .. n : ~Affects(m, id)'
    BY <1>11, <1>n DEF LastAt
  <2>2. ~Affects(n, id)'
    BY <1>1, <1>n, <2>1
  <2>3. rows'[n][id] = rows[Len(wal)][id]
    BY <1>4, <1>5, <2>2
  <2>4. Final(id)' = Final(id)
    BY <1>n, <2>3 DEF Final
  <2>5. \A m \in k + 1 .. Len(wal) : ~Affects(m, id)
    BY <1>1, <1>3, <1>n, <2>1
  <2>6. k > 0 => Affects(k, id)
    <3>1. k > 0 => Affects(k, id)'
      BY <1>11 DEF LastAt
    <3> QED
      BY <1>1, <1>3, <3>1
  <2> QED
    BY <2>4, <2>5, <2>6 DEF LastAt
<1> QED
  BY <1>6, <1>7, <1>9, <1>10, <1>11

\* A new transaction is one nobody has taken anything of.
LEMMA CommitConverges ==
  ASSUME Plain, PipelineInv, ConvergeInv, SourceCommits PROVE ConvergeInv'
<1> USE DEF PipelineInv, ConvergeInv, TraceInv, TargetInv
<1>1. PICK t \in TxnShapes : Commits(t) /\ Len(wal) + 1 \in 1 .. MaxTxns
  BY CommitsAdds
<1>2. UNCHANGED <<sent, taskVars, visible, slot, cur, engineVars, copyq, loadVars, crashVars>>
  BY DEF SourceCommits
<1>3. UNCHANGED <<sent, finished, settled, docs, visible, slot, cur, buffer, cleared, superseded,
                 loadRunning, copyq, load, orphans, applied, kept>>
  BY <1>2 DEF taskVars, accountVars, targetVars, engineVars, loadVars, crashVars
<1>4. /\ Len(wal) \in Nat /\ DOMAIN wal = 1 .. Len(wal) /\ Len(wal') = Len(wal) + 1
      /\ DOMAIN wal' = 1 .. Len(wal) + 1 /\ \A k \in DOMAIN wal : wal'[k] = wal[k]
  BY <1>1, WalFacts DEF Commits
<1>5. /\ RowsOK'
      /\ \A op : (CopyTrue(op) => CopyTrue(op)') /\ (OpTrue(op) => OpTrue(op)')
      /\ \A doc : \A id \in Ids : DocTrue(doc, id) => DocTrue(doc, id)'
      /\ \A id \in Ids, k \in 0 .. Len(wal) : LastAt(k, id)' => LastAt(k, id) /\ Final(id)' = Final(id)
  BY <1>1, CommitKeeps
<1>6. ASSUME NEW k \in DOMAIN wal', NEW j \in Nat, j > 0, Seen(k, j)' PROVE k \in DOMAIN wal /\ Seen(k, j)
  <2>1. Seen(k, j)
    BY <1>3, <1>6 DEF Seen
  <2>2. cur.txn > Len(wal) => cur.pos = 0
    BY DEF StreamOK
  <2>3. k \in Nat /\ cur.txn \in Nat /\ cur.pos \in Nat /\ cur.txn <= Len(wal) + 1
    BY <1>4, StreamFacts
  <2> QED
    BY <1>4, <1>6, <2>1, <2>2, <2>3 DEF Seen
<1>7. ASSUME NEW k \in DOMAIN wal', NEW j \in DOMAIN wal'[k] PROVE j \in Nat /\ j > 0
  <2>1. wal'[k] \in Seq(Change)
    BY <1>1, PipelineAssumption DEF Commits
  <2> QED
    BY <2>1
<1>8. ASSUME NEW k \in DOMAIN wal', NEW id \in Ids, Removed(k, id)' PROVE k \in DOMAIN wal /\ Removed(k, id)
  <2>1. PICK j \in DOMAIN wal'[k] : Removes(wal'[k][j], id) /\ Seen(k, j)'
    BY <1>8 DEF Removed
  <2>2. k \in DOMAIN wal /\ Seen(k, j)
    BY <1>6, <1>7, <2>1
  <2>3. k \in 0 .. Len(wal) /\ wal'[k] = wal[k]
    BY <1>4, <2>2
  <2>4. LastAt(k, id) /\ Final(id)' = Final(id)
    BY <1>5, <1>8, <2>3 DEF Removed
  <2>5. Final(id) = Absent
    BY <1>8, <2>4 DEF Removed
  <2> QED
    BY <2>1, <2>2, <2>3, <2>4, <2>5 DEF Removed
<1>9. \A op : TakenTrue(op) => TakenTrue(op)'
  <2> SUFFICES ASSUME NEW op, TakenTrue(op) PROVE TakenTrue(op)'
    OBVIOUS
  <2>1. CASE CopyTrue(op)
    BY <1>5, <2>1 DEF TakenTrue
  <2>2. ASSUME NEW k \in DOMAIN wal, NEW j \in DOMAIN wal[k], Seen(k, j), Makes(op, k, j)
        PROVE  TakenTrue(op)'
    <3>1. k \in DOMAIN wal' /\ j \in DOMAIN wal'[k] /\ Seen(k, j)' /\ Makes(op, k, j)'
      BY <1>3, <1>4, <2>2 DEF Seen, Makes
    <3> QED
      BY <3>1 DEF TakenTrue
  <2> QED
    BY <2>1, <2>2 DEF TakenTrue
<1>10. TraceInv'
  <2>1. HandedTrue'
    <3>1. ASSUME NEW i \in DOMAIN sent, sent[i].kind = "truncate"
          PROVE  \E k \in DOMAIN wal' : \E j \in DOMAIN wal'[k] :
                   Seen(k, j)' /\ wal'[k][j].kind = "truncate" /\ sent[i].pos = Ver(k)
      <4>1. PICK k \in DOMAIN wal : \E j \in DOMAIN wal[k] :
                   Seen(k, j) /\ wal[k][j].kind = "truncate" /\ sent[i].pos = Ver(k)
        BY <3>1 DEF HandedTrue
      <4>2. k \in DOMAIN wal' /\ wal'[k] = wal[k] /\ \A j : Seen(k, j) => Seen(k, j)'
        BY <1>3, <1>4 DEF Seen
      <4> QED
        BY <4>1, <4>2
    <3> QED
      BY <1>3, <1>9, <3>1 DEF HandedTrue
  <2>2. OrderOK'
    <3>1. \A k, id : (RemOps(buffer, k, id)' <=> RemOps(buffer, k, id)) /\ (LiveIn(buffer, id)' <=> LiveIn(buffer, id))
      BY <1>3 DEF RemOps, LiveIn
    <3>2. \A x, k, id : RemAt(x, k, id)' <=> RemAt(x, k, id)
      BY <1>3 DEF RemAt, RemOps
    <3> QED
      BY <1>3, <1>8, <3>1, <3>2 DEF OrderOK
  <2>3. BehindPositions' /\ TruncatesOrder'
    BY <1>3 DEF BehindPositions, TruncatesOrder, NewerThan, CarriesPosition
  <2> QED
    BY <2>1, <2>2, <2>3
<1>11. CopiesTrue'
  BY <1>3, <1>5 DEF CopiesTrue
<1>12. WindowsCover'
  <2>1. \A id, ver : Copying(id, ver)' <=> Copying(id, ver)
    BY <1>3 DEF Copying
  <2> SUFFICES ASSUME NEW id \in Ids, NEW ver \in Nat, Copying(id, ver),
                      NEW k \in DOMAIN wal', NEW j \in DOMAIN wal'[k], Seen(k, j)', Ver(k) > ver
               PROVE  /\ wal'[k][j].kind = "truncate" => cleared >= Ver(k)
                      /\ wal'[k][j].kind = "delete" /\ wal'[k][j].id = id => superseded[id] >= Ver(k)
    BY <1>3, <2>1 DEF WindowsCover
  <2>2. k \in DOMAIN wal /\ Seen(k, j) /\ wal'[k] = wal[k]
    BY <1>4, <1>6, <1>7
  <2> QED
    BY <2>2 DEF WindowsCover
<1>13. TargetInv'
  <2>1. DocsTrue' /\ LeftTrue'
    BY <1>3, <1>5 DEF DocsTrue, LeftTrue
  <2>2. RemovedStays'
    <3>1. \A k, id : (Pend(k, id)' <=> Pend(k, id)) /\ (Tomb(k, id)' <=> Tomb(k, id))
      BY <1>3 DEF Pend, PendAt, RemOps, Tomb
    <3>2. \A id : Clean(id)' <=> Clean(id)
      BY <1>3 DEF Clean, LiveIn, Unanswered, Positions
    <3> QED
      BY <1>8, <3>1, <3>2 DEF RemovedStays
  <2>3. UpsertStays'
    <3> SUFFICES ASSUME NEW k \in DOMAIN wal', NEW id \in Ids, LastAt(k, id)', Final(id)' # Absent,
                        NEW op \in applied \cup OpsSettled, op.id = id, op.ver = Ver(k)
                 PROVE  docs[id].ver >= Ver(k) /\ docs[id].val # Absent
      BY <1>3 DEF UpsertStays, OpsSettled
    <3>1. OpTrue(op)
      <4>1. CASE op \in applied
        BY <4>1 DEF LeftTrue
      <4>2. CASE op \in OpsSettled
        BY <4>2, TakenIsTrue DEF HandedTrue, OpsSettled, CrashOK, Positions
      <4> QED
        BY <4>1, <4>2
    <3>2. k \in DOMAIN wal
      BY <1>4, <3>1, TrueVersion DEF Ver, End
    <3>3. LastAt(k, id) /\ Final(id)' = Final(id)
      BY <1>4, <1>5, <3>2
    <3> QED
      BY <3>2, <3>3 DEF UpsertStays
  <2> QED
    BY <2>1, <2>2, <2>3
<1>14. SlotClean'
  <2> SUFFICES ASSUME NEW k \in DOMAIN wal', End(k) <= slot, ~(End(k) <= kept)
               PROVE  /\ k < cur.txn
                      /\ \A m \in DOMAIN buffer : buffer[m].ver # Ver(k)
                      /\ \A i \in DOMAIN sent : \A m \in DOMAIN sent[i].ops :
                           sent[i].ops[m].ver = Ver(k) => <<i, m>> \in settled
    BY <1>3 DEF SlotClean
  <2>1. k \in DOMAIN wal
    BY <1>4 DEF SourceOK, End
  <2> QED
    BY <2>1 DEF SlotClean
<1>15. SettledInWindow' /\ NoAttempts'
  BY <1>3 DEF SettledInWindow, NoAttempts, Window, IsWrite
<1> HIDE DEF PipelineInv
<1> QED
  BY <1>5, <1>10, <1>11, <1>12, <1>13, <1>14, <1>15

-----------------------------------------------------------------------------
(* Steps that leave some of it alone.                                      *)

\* What was handed over.
LEMMA TraceSame ==
  ASSUME TraceInv, UNCHANGED <<wal, rows, cur, buffer, sent>> PROVE TraceInv'
<1> USE DEF TraceInv
<1>1. HandedTrue'
  BY PlaceSame DEF HandedTrue
<1>2. OrderOK'
  <2>1. /\ \A k, id : RemOps(buffer, k, id)' <=> RemOps(buffer, k, id)
        /\ \A id : LiveIn(buffer, id)' <=> LiveIn(buffer, id)
        /\ \A x, k, id : RemAt(x, k, id)' <=> RemAt(x, k, id)
    BY DEF RemOps, LiveIn, RemAt
  <2> QED
    BY <2>1, PlaceSame DEF OrderOK
<1>3. BehindPositions' /\ TruncatesOrder'
  BY DEF BehindPositions, TruncatesOrder, NewerThan, CarriesPosition
<1> QED
  BY <1>1, <1>2, <1>3

\* What is in the target, and what of it is still owed.
LEMMA TargetSame ==
  ASSUME TargetInv,
         UNCHANGED <<wal, rows, cur, buffer, sent, docs, orphans, applied, settled, finished>>
  PROVE  TargetInv'
<1> USE DEF TargetInv
<1>1. DocsTrue' /\ LeftTrue'
  BY SourceSame DEF DocsTrue, LeftTrue
<1>2. RemovedStays'
  <2>1. \A k, id : (Pend(k, id)' <=> Pend(k, id)) /\ (Tomb(k, id)' <=> Tomb(k, id))
    BY DEF Pend, PendAt, RemOps, Tomb
  <2>2. \A id : Clean(id)' <=> Clean(id)
    BY DEF Clean, LiveIn, Unanswered, Positions
  <2> QED
    BY <2>1, <2>2, PlaceSame DEF RemovedStays
<1>3. UpsertStays'
  BY SourceSame DEF UpsertStays, OpsSettled
<1> QED
  BY <1>1, <1>2, <1>3

\* What the slot covers and what is settled.
LEMMA SettledSame ==
  ASSUME SlotClean, SettledInWindow, NoAttempts,
         UNCHANGED <<wal, slot, kept, cur, buffer, sent, settled, finished, orphans, applied>>
  PROVE  SlotClean' /\ SettledInWindow' /\ NoAttempts'
BY DEF SlotClean, SettledInWindow, NoAttempts, Window, IsWrite

\* A load step copies true rows from positions it has read, and says once that it
\* is over.
LEMMA LoadConverges ==
  ASSUME PipelineInv, ConvergeInv, UNCHANGED <<sent, taskVars, sourceVars, cur, engineVars, crashVars>>,
         load.pc # "done", load'.pc # "start", NEW evs \in Seq(CopyEvents), copyq' = copyq \o evs,
         \A y \in DOMAIN evs :
           /\ evs[y].ev = "row" => /\ CopyTrue(evs[y].op) /\ load.pc = "read"
                                   /\ evs[y].op.ver = load.at[evs[y].op.id] /\ evs[y].op.ver # 0
           /\ evs[y].ev = "finished" => load'.pc = "done" /\ Len(evs) = 1,
         \A id \in Ids : load'.at[id] # 0 =>
           /\ \E m \in 0 .. visible : load'.at[id] = End(m)
           /\ load'.pc = "read" =>
                (load.pc = "read" /\ load'.at[id] = load.at[id]) \/ load'.at[id] = End(Len(wal))
  PROVE  ConvergeInv'
<1> USE DEF PipelineInv, ConvergeInv
<1>1. UNCHANGED <<sent, finished, settled, docs, wal, rows, visible, slot, cur, buffer, cleared,
                 superseded, loadRunning, orphans, applied, kept>>
  BY DEF taskVars, accountVars, targetVars, sourceVars, engineVars, crashVars
<1>2. RowsOK' /\ TraceInv' /\ TargetInv' /\ SlotClean' /\ SettledInWindow' /\ NoAttempts'
  BY <1>1, SourceSame, TraceSame, TargetSame, SettledSame
<1>3. /\ \A x \in DOMAIN copyq' : \/ x \in DOMAIN copyq /\ copyq'[x] = copyq[x]
                                  \/ \E y \in DOMAIN evs : copyq'[x] = evs[y] /\ x = Len(copyq) + y
      /\ Len(copyq) \in Nat /\ Len(copyq') = Len(copyq) + Len(evs) /\ DOMAIN evs = 1 .. Len(evs)
  <2>1. copyq \in Seq(CopyEvents)
    BY DEF LoadOK
  <2>2. /\ Len(copyq) \in Nat /\ Len(evs) \in Nat /\ DOMAIN evs = 1 .. Len(evs)
        /\ Len(copyq') = Len(copyq) + Len(evs) /\ DOMAIN copyq' = 1 .. Len(copyq')
        /\ \A x \in 1 .. Len(copyq') : copyq'[x] = IF x <= Len(copyq) THEN copyq[x] ELSE evs[x - Len(copyq)]
    BY <2>1
  <2>3. ASSUME NEW x \in DOMAIN copyq', ~(x <= Len(copyq))
        PROVE  x - Len(copyq) \in DOMAIN evs /\ copyq'[x] = evs[x - Len(copyq)] /\ x = Len(copyq) + (x - Len(copyq))
    BY <2>2, <2>3
  <2>4. DOMAIN copyq = 1 .. Len(copyq)
    BY <2>1
  <2> QED
    BY <2>2, <2>3, <2>4
<1>4. loadRunning
  BY DEF CopiesTrue
<1>5. CopiesTrue'
  <2>1. ASSUME NEW x \in DOMAIN copyq', copyq'[x].ev = "row" PROVE CopyTrue(copyq'[x].op)
    BY <1>3, <2>1 DEF CopiesTrue
  <2>2. ASSUME NEW x \in DOMAIN copyq', copyq'[x].ev = "finished" PROVE x = Len(copyq') /\ load'.pc = "done"
    <3>1. CASE x \in DOMAIN copyq /\ copyq'[x] = copyq[x]
      BY <2>2, <3>1 DEF CopiesTrue
    <3>2. ASSUME NEW y \in DOMAIN evs, copyq'[x] = evs[y], x = Len(copyq) + y
          PROVE  x = Len(copyq') /\ load'.pc = "done"
      BY <1>3, <2>2, <3>2
    <3> QED
      BY <1>3, <3>1, <3>2
  <2>3. \A op : CopyTrue(op)' <=> CopyTrue(op)
    BY <1>1, SourceSame
  <2> QED
    BY <1>1, <1>4, <2>1, <2>2, <2>3 DEF CopiesTrue
<1>6. WindowsCover'
  <2> SUFFICES ASSUME NEW id \in Ids, NEW ver \in Nat, Copying(id, ver)',
                      NEW k \in DOMAIN wal, NEW j \in DOMAIN wal[k], Seen(k, j), Ver(k) > ver
               PROVE  /\ wal[k][j].kind = "truncate" => cleared >= Ver(k)
                      /\ wal[k][j].kind = "delete" /\ wal[k][j].id = id => superseded[id] >= Ver(k)
    BY <1>1, <1>4, PlaceSame DEF WindowsCover
  <2>1. Copying(id, ver) \/ ver = End(Len(wal))
    <3>1. CASE load'.pc = "read" /\ load'.at[id] = ver /\ ver # 0
      BY <3>1 DEF Copying
    <3>2. ASSUME NEW x \in DOMAIN copyq', copyq'[x].ev = "row", copyq'[x].op.id = id, copyq'[x].op.ver = ver
          PROVE  Copying(id, ver)
      BY <1>3, <3>2 DEF Copying
    <3> QED
      BY <3>1, <3>2 DEF Copying
  <2>2. ver # End(Len(wal))
    BY WalFacts DEF Ver, End
  <2> QED
    BY <2>1, <2>2 DEF WindowsCover
<1> QED
  BY <1>2, <1>5, <1>6

\* Each step of the load (backfill::run) is one.
LEMMA ReadConverges ==
  ASSUME Plain, PipelineInv, ConvergeInv, NEW r \in Ids, ReadPosition(r) PROVE ConvergeInv'
<1> USE DEF PipelineInv, ConvergeInv
<1>1. /\ UNCHANGED <<sent, taskVars, sourceVars, cur, engineVars, copyq, crashVars>>
      /\ load.pc = "read" /\ visible = Len(wal) /\ load' = [load EXCEPT !.at[r] = End(Len(wal))]
  BY DEF ReadPosition, Plain
<1>2. load'.pc = "read" /\ \A id \in Ids : load'.at[id] = IF id = r THEN End(Len(wal)) ELSE load.at[id]
  <2>1. load' = [pc |-> load.pc, wave |-> load.wave, mark |-> load.mark,
                 at |-> [load.at EXCEPT ![r] = End(Len(wal))], copied |-> load.copied]
    BY <1>1 DEF LoadOK
  <2> QED
    BY <1>1, <2>1 DEF LoadOK
<1>3. ASSUME NEW id \in Ids, load'.at[id] # 0
      PROVE  /\ \E m \in 0 .. visible : load'.at[id] = End(m)
             /\ load'.at[id] = load.at[id] \/ load'.at[id] = End(Len(wal))
  BY <1>1, <1>2, <1>3, WalFacts DEF CopiesTrue
<1>4. copyq' = copyq \o <<>> /\ <<>> \in Seq(CopyEvents) /\ DOMAIN <<>> = {}
  <2>1. copyq \in Seq(CopyEvents)
    BY DEF LoadOK
  <2> QED
    BY <1>1, <2>1
<1> HIDE DEF PipelineInv, ConvergeInv
<1> QED
  BY <1>1, <1>2, <1>3, <1>4, LoadConverges

\* The rows of a range are read later than its position.
LEMMA CopyConverges ==
  ASSUME PipelineInv, ConvergeInv, NEW r \in Ids, CopyRange(r) PROVE ConvergeInv'
<1> USE DEF PipelineInv, ConvergeInv
<1> DEFINE body == rows[visible][r]
           row == [ev |-> "row", op |-> [id |-> r, val |-> body, ver |-> load.at[r]]]
           bound == [ev |-> "boundary"]
<1>1. /\ UNCHANGED <<sent, taskVars, sourceVars, cur, engineVars, crashVars>>
      /\ load.pc = "read" /\ load.at[r] # 0
      /\ load' = [load EXCEPT !.copied = @ \cup {r}]
      /\ copyq' \in IF body = Absent THEN {copyq} ELSE {copyq \o <<row>>, copyq \o <<row, bound>>}
  BY DEF CopyRange
<1>2. load'.pc = "read" /\ load'.at = load.at
  BY <1>1 DEF LoadOK
<1>3. \A id \in Ids : load'.at[id] # 0 =>
        (\E m \in 0 .. visible : load'.at[id] = End(m)) /\ load'.at[id] = load.at[id]
  BY <1>2 DEF CopiesTrue
<1>4. copyq \in Seq(CopyEvents)
  BY DEF LoadOK
<1>5. CASE body = Absent
  <2>1. copyq' = copyq \o <<>> /\ <<>> \in Seq(CopyEvents) /\ DOMAIN <<>> = {}
    BY <1>1, <1>4, <1>5
  <2> HIDE DEF PipelineInv, ConvergeInv
  <2> QED
    BY <1>1, <1>2, <1>3, <2>1, LoadConverges
<1>6. CASE body # Absent
  <2>1. PICK e, b : e = row /\ b = bound
    OBVIOUS
  <2>2. /\ e.ev = "row" /\ e.op.id = r /\ e.op.val = body /\ e.op.ver = load.at[r] /\ b.ev = "boundary"
    BY <2>1
  <2>3. CopyTrue(e.op)
    <3>1. PICK m \in 0 .. visible : load.at[r] = End(m)
      BY <1>1 DEF CopiesTrue
    <3>2. m \in 0 .. Len(wal) /\ visible \in m .. Len(wal)
      BY <3>1, WalFacts DEF SourceOK
    <3> QED
      BY <1>6, <2>2, <3>1, <3>2 DEF CopyTrue
  <2>4. e \in CopyEvents /\ b \in CopyEvents
    <3>1. load.at[r] \in Nat
      BY DEF LoadOK
    <3>2. body \in Vals \cup {Absent}
      BY DEF SourceOK
    <3> QED
      BY <1>6, <2>1, <3>1, <3>2 DEF CopyEvents, Op
  <2>5. copyq' = copyq \o <<e>> \/ copyq' = copyq \o <<e, b>>
    BY <1>1, <1>6, <2>1
  <2> HIDE DEF PipelineInv, ConvergeInv, body, row, bound
  <2>6. PICK evs : evs \in {<<e>>, <<e, b>>} /\ copyq' = copyq \o evs
    BY <2>5
  <2>7. evs \in Seq(CopyEvents) /\ \A y \in DOMAIN evs : evs[y] \in {e, b}
    <3>1. CASE evs = <<e>>
      BY <2>4, <3>1
    <3>2. CASE evs = <<e, b>>
      BY <2>4, <3>2
    <3> QED
      BY <2>6, <3>1, <3>2
  <2>8. \A y \in DOMAIN evs :
           /\ evs[y].ev = "row" => /\ CopyTrue(evs[y].op) /\ load.pc = "read"
                                   /\ evs[y].op.ver = load.at[evs[y].op.id] /\ evs[y].op.ver # 0
           /\ evs[y].ev = "finished" => load'.pc = "done" /\ Len(evs) = 1
    BY <1>1, <2>2, <2>3, <2>7
  <2> QED
    BY <1>1, <1>2, <1>3, <2>6, <2>7, <2>8, LoadConverges
<1> QED
  BY <1>5, <1>6

\* The others copy nothing, and forget the positions of a wave when they begin one.
LEMMA MovesConverge ==
  ASSUME PipelineInv, ConvergeInv,
         StartTable \/ SendMark \/ RecordProgress \/ FinishTable \/ ClearProgress \/ ReportLoaded
  PROVE  ConvergeInv'
<1> USE DEF PipelineInv, ConvergeInv
<1>1. /\ UNCHANGED <<sent, taskVars, sourceVars, cur, engineVars, crashVars>> /\ load.pc # "done"
      /\ copyq' \in {copyq, Append(copyq, [ev |-> "mark", mark |-> load.mark + 1]),
                     Append(copyq, [ev |-> "finished"])}
      /\ copyq' # copyq => \/ copyq' = Append(copyq, [ev |-> "mark", mark |-> load.mark + 1])
                           \/ ReportLoaded /\ copyq' = Append(copyq, [ev |-> "finished"])
  BY DEF StartTable, SendMark, RecordProgress, FinishTable, ClearProgress, ReportLoaded, crashVars
<1>2. load \in [pc : Stages, wave : Nat \ {0}, mark : Nat, at : [Ids -> Nat], copied : SUBSET Ids]
  BY DEF LoadOK
<1>3. load'.pc # "start" /\ \A id \in Ids : load'.at[id] # 0 => load'.at[id] = load.at[id] /\ load'.pc # "read"
  <2>1. CASE StartTable
    <3>1. load'.at = load.at /\ load.pc = "start"
          /\ load'.pc = IF progress.finished THEN "clear" ELSE AfterWave(progress.done)
      BY <1>2, <2>1 DEF StartTable
    <3> QED
      BY <3>1 DEF AfterWave, CopiesTrue
  <2>2. CASE RecordProgress
    <3>1. load'.at = [id \in Ids |-> 0] /\ load'.pc = AfterWave(load.wave)
      BY <1>2, <2>2 DEF RecordProgress
    <3> QED
      BY <3>1 DEF AfterWave
  <2>3. CASE SendMark
    BY <1>2, <2>3 DEF SendMark
  <2>4. CASE FinishTable
    BY <1>2, <2>4 DEF FinishTable
  <2>5. CASE ClearProgress
    BY <1>2, <2>5 DEF ClearProgress
  <2>6. CASE ReportLoaded
    BY <1>2, <2>6 DEF ReportLoaded
  <2> QED
    BY <2>1, <2>2, <2>3, <2>4, <2>5, <2>6
<1>4. \A id \in Ids : load'.at[id] # 0 =>
           /\ \E m \in 0 .. visible : load'.at[id] = End(m)
           /\ load'.pc = "read" =>
                (load.pc = "read" /\ load'.at[id] = load.at[id]) \/ load'.at[id] = End(Len(wal))
  BY <1>3 DEF CopiesTrue
<1>5. ReportLoaded => load'.pc = "done"
  BY <1>2 DEF ReportLoaded
<1>6. copyq \in Seq(CopyEvents)
  BY DEF LoadOK
<1> HIDE DEF PipelineInv, ConvergeInv
<1>7. CASE copyq' = copyq
  <2>1. copyq' = copyq \o <<>> /\ <<>> \in Seq(CopyEvents) /\ DOMAIN <<>> = {}
    BY <1>6, <1>7
  <2> QED
    BY <1>1, <1>3, <1>4, <2>1, LoadConverges
<1>8. ASSUME NEW e \in CopyEvents, copyq' = Append(copyq, e), e.ev = "mark" \/ (ReportLoaded /\ e.ev = "finished")
      PROVE  ConvergeInv'
  <2>1. PICK evs : evs = <<e>>
    OBVIOUS
  <2>2. evs \in Seq(CopyEvents) /\ Len(evs) = 1 /\ DOMAIN evs = {1} /\ evs[1] = e
    BY <2>1, OneOf
  <2>3. copyq' = copyq \o evs
    BY <1>6, <1>8, <2>1
  <2> QED
    BY <1>1, <1>3, <1>4, <1>5, <1>8, <2>2, <2>3, LoadConverges
<1>9. /\ [ev |-> "mark", mark |-> load.mark + 1] \in CopyEvents /\ [ev |-> "finished"] \in CopyEvents
  BY <1>2 DEF CopyEvents
<1> QED
  BY <1>1, <1>7, <1>8, <1>9

\* So a step of the load converges.
LEMMA LoadStepConverges == ASSUME Plain, PipelineInv, ConvergeInv, LoadStep PROVE ConvergeInv'
BY ReadConverges, CopyConverges, MovesConverge DEF LoadStep

\* What is accounted for is settled.
LEMMA AheadIsSettled ==
  ASSUME DeliveryInv, NEW i \in DOMAIN sent, i <= finished, NEW m \in DOMAIN sent[i].ops
  PROVE  <<i, m>> \in settled
<1>1. i \in 1 .. finished
  BY SentType DEF DeliveryInv, DeliveryTypeOK
<1> QED
  BY <1>1 DEF DeliveryInv, PrefixSettled, OpsOf, Positions

\* A position that is acknowledged has nothing streamed left behind it.
LEMMA AckedIsPast ==
  ASSUME PipelineInv, ConvergeInv, NEW k \in DOMAIN wal, End(k) <= acked
  PROVE  /\ k < cur.txn
         /\ \A m \in DOMAIN buffer : buffer[m].ver # Ver(k)
         /\ \A i \in DOMAIN sent : \A m \in DOMAIN sent[i].ops :
              sent[i].ops[m].ver = Ver(k) => <<i, m>> \in settled
<1> USE DEF PipelineInv, ConvergeInv, TraceInv
<1>1. /\ finished \in Nat /\ finished <= Len(sent) /\ DOMAIN sent = 1 .. Len(sent)
      /\ Len(sent) \in Nat /\ acked \in Nat /\ k \in Nat /\ acked # 0
  BY WalFacts DEF DeliveryInv, DeliveryTypeOK, End
<1>2. PICK p \in 1 .. finished : CarriesPosition(sent[p]) /\ sent[p].pos = acked
  BY <1>1 DEF DeliveryInv, AckedFromPrefix
<1>3. p \in DOMAIN sent /\ acked <= End(cur.txn - 1)
  BY <1>1, <1>2 DEF BufferOK
<1>4. k < cur.txn
  BY <1>1, <1>3, StreamFacts DEF End
<1>5. \A m \in DOMAIN buffer : buffer[m].ver # Ver(k)
  BY <1>1, <1>2, <1>3 DEF BehindPositions, NewerThan, Ver, End
<1>6. ASSUME NEW i \in DOMAIN sent, NEW m \in DOMAIN sent[i].ops, sent[i].ops[m].ver = Ver(k)
      PROVE  <<i, m>> \in settled
  <2>1. i <= p
    <3> SUFFICES ASSUME ~(i <= p) PROVE FALSE
      OBVIOUS
    <3>1. i \in p + 1 .. Len(sent)
      BY <1>1, <1>2
    <3>2. Ver(k) > acked
      BY <1>1, <1>2, <1>3, <1>6, <3>1 DEF BehindPositions, NewerThan
    <3> QED
      BY <1>1, <3>2 DEF Ver, End
  <2> QED
    BY <1>1, <1>2, <2>1, AheadIsSettled
<1> QED
  BY <1>4, <1>5, <1>6

\* A new snapshot, and a keepalive that confirms no more than is published.
LEMMA ServerConverges ==
  ASSUME PipelineInv, ConvergeInv, BecomesVisible \/ ConfirmSlot PROVE ConvergeInv'
<1> USE DEF PipelineInv, ConvergeInv
<1>1. UNCHANGED <<sent, taskVars, wal, rows, cur, engineVars, copyq, loadVars, crashVars>>
  BY DEF BecomesVisible, ConfirmSlot
<1>2. UNCHANGED <<sent, finished, settled, docs, wal, rows, cur, buffer, cleared, superseded,
                 loadRunning, copyq, load, orphans, applied, kept>>
  BY <1>1 DEF taskVars, accountVars, targetVars, engineVars, loadVars, crashVars
<1>3. RowsOK' /\ TraceInv' /\ TargetInv' /\ SettledInWindow' /\ NoAttempts'
  BY <1>2, SourceSame, TraceSame, TargetSame DEF SettledInWindow, NoAttempts, Window, IsWrite
<1>4. visible' \in Nat /\ visible' >= visible /\ visible \in Nat
  BY DEF BecomesVisible, ConfirmSlot, SourceOK
<1>5. CopiesTrue'
  <2>1. \A m \in 0 .. visible : m \in 0 .. visible'
    BY <1>4
  <2>2. \A op : CopyTrue(op)' <=> CopyTrue(op)
    BY <1>2, SourceSame
  <2> QED
    BY <1>2, <2>1, <2>2 DEF CopiesTrue
<1>6. WindowsCover'
  <2>1. \A id, ver : Copying(id, ver)' <=> Copying(id, ver)
    BY <1>2 DEF Copying
  <2> QED
    BY <1>2, <2>1, PlaceSame DEF WindowsCover
<1>7. SlotClean'
  <2>1. CASE BecomesVisible
    BY <1>2, <2>1 DEF SlotClean, BecomesVisible
  <2>2. CASE ConfirmSlot
    <3>1. slot' <= SafePosition /\ slot' \in Nat
      <4>1. PICK k \in cur.txn - 1 .. Len(wal) :
              LET safe == IF End(k) < SafePosition THEN End(k) ELSE SafePosition
              IN  safe > slot /\ slot' = safe
        BY <2>2 DEF ConfirmSlot
      <4>2. SafePosition \in Nat /\ End(k) \in Nat
        <5>1. k \in Nat
          BY StreamFacts
        <5> QED
          BY <5>1 DEF SafePosition, DeliveryInv, DeliveryTypeOK, SourceOK, End
      <4> QED
        BY <4>1, <4>2
    <3>2. durable <= acked /\ acked \in Nat /\ durable \in Nat /\ kept \in Nat
      BY DEF DeliveryInv, DeliveryTypeOK, CheckpointFromPrefix, SourceOK
    <3> SUFFICES ASSUME NEW k \in DOMAIN wal, End(k) <= slot', ~(End(k) <= kept)
                 PROVE  /\ k < cur.txn
                        /\ \A m \in DOMAIN buffer : buffer[m].ver # Ver(k)
                        /\ \A i \in DOMAIN sent : \A m \in DOMAIN sent[i].ops :
                             sent[i].ops[m].ver = Ver(k) => <<i, m>> \in settled
      BY <1>2 DEF SlotClean
    <3>3. End(k) <= acked
      BY <3>1, <3>2, WalFacts DEF SafePosition, End
    <3> HIDE DEF PipelineInv, ConvergeInv
    <3> QED
      BY <3>3, AckedIsPast
  <2> QED
    BY <2>1, <2>2
<1> QED
  BY <1>3, <1>5, <1>6, <1>7

-----------------------------------------------------------------------------
(* The sink side and the target.                                           *)

\* The steps beside the engine leave what was handed over as it is.
Beside ==
  /\ UNCHANGED <<sent, sourceVars, cur, engineVars, copyq, loadVars, applied, kept>>
  /\ orphans' \subseteq orphans /\ settled \subseteq settled'

\* And with it all that is said of it.
LEMMA BesideKept ==
  ASSUME PipelineInv, ConvergeInv, Beside
  PROVE  /\ RowsOK' /\ TraceInv' /\ CopiesTrue' /\ WindowsCover' /\ NoAttempts' /\ SlotClean'
         /\ LeftTrue'
         /\ UNCHANGED <<sent, buffer, wal, rows, cur, applied>>
<1> USE DEF PipelineInv, ConvergeInv, TargetInv
<1>1. UNCHANGED <<sent, wal, rows, visible, slot, cur, buffer, cleared, superseded,
                 loadRunning, copyq, load, applied, kept>>
  BY DEF Beside, sourceVars, engineVars, loadVars
<1>2. RowsOK' /\ TraceInv'
  BY <1>1, SourceSame, TraceSame
<1>3. CopiesTrue'
  BY <1>1, SourceSame DEF CopiesTrue
<1>4. WindowsCover'
  <2>1. \A id, ver : Copying(id, ver)' <=> Copying(id, ver)
    BY <1>1 DEF Copying
  <2> QED
    BY <1>1, <2>1, PlaceSame DEF WindowsCover
<1>5. NoAttempts' /\ LeftTrue'
  BY <1>1, SourceSame DEF NoAttempts, LeftTrue, Beside
<1>6. SlotClean'
  BY <1>1 DEF SlotClean, Beside
<1> QED
  BY <1>1, <1>2, <1>3, <1>4, <1>5, <1>6

\* A request of true operations makes a document what one of them says, or leaves it.
LEMMA WriteIsTrue ==
  ASSUME Plain, SourceOK, NEW d \in Docs, NEW ops \in Seq(Op), NEW S \in SUBSET (DOMAIN ops),
         \A m \in DOMAIN ops : OpTrue(ops[m]), NEW id \in Ids, DocTrue(d[id], id),
         NEW doc, doc = Write(d, ops, S)[id]
  PROVE  /\ DocTrue(doc, id) /\ doc.ver \in Nat /\ doc.ver >= d[id].ver
         /\ \A m \in S : ops[m].id = id => doc.ver >= ops[m].ver
         /\ \/ doc = d[id] /\ \A m \in S : ops[m].id = id => ops[m].ver < d[id].ver
            \/ \E m \in S : ops[m].id = id /\ doc.val = ops[m].val /\ doc.ver = ops[m].ver
<1>1. d[id] \in Doc /\ d[id].ver \in Nat
  BY DEF Docs, Doc
<1>2. \A m \in S : m \in DOMAIN ops /\ ops[m] \in Op /\ ops[m].ver \in Nat
  <2>1. \A m \in S : m \in DOMAIN ops /\ ops[m] \in Op
    OBVIOUS
  <2> QED
    BY <2>1 DEF Op
<1>3. CASE WroteNothing(d, ops, S, id)
  BY <1>1, <1>2, <1>3 DEF WroteNothing
<1>4. ASSUME NEW m \in S, WroteLast(d, ops, S, id, m)
      PROVE  /\ DocTrue(doc, id) /\ doc.ver \in Nat /\ doc.ver >= d[id].ver
             /\ \A j \in S : ops[j].id = id => doc.ver >= ops[j].ver
             /\ ops[m].id = id /\ doc.val = ops[m].val /\ doc.ver = ops[m].ver
  <2>1. /\ ops[m].id = id /\ ops[m].ver >= d[id].ver /\ doc.val = ops[m].val /\ doc.ver = ops[m].ver
        /\ \A j \in S : ops[j].id = id => ops[j].ver < ops[m].ver \/ ops[j].ver = ops[m].ver
    BY <1>4 DEF WroteLast
  <2>2. ops[m] = [id |-> id, val |-> doc.val, ver |-> doc.ver]
    BY <1>2, <2>1 DEF Op
  <2>3. DocTrue(doc, id)
    BY <1>2, <2>2 DEF DocTrue
  <2> QED
    BY <1>2, <2>1, <2>3
<1> QED
  BY <1>3, <1>4, WriteEffect

\* A request of true operations, of which those at the positions S are executed.
OpsOfWrite(ops, S) ==
  /\ ops \in Seq(Op) /\ S \in SUBSET (DOMAIN ops) /\ docs' = Write(docs, ops, S)
  /\ \A m \in DOMAIN ops : OpTrue(ops[m])

\* Executing it keeps what is said of the target, unless it brings back a row that
\* nothing remembers the removal of.
LEMMA WriteConverges ==
  ASSUME Plain, PipelineInv, ConvergeInv, Beside, finished' = finished,
         NEW ops, NEW S, OpsOfWrite(ops, S),
         \A id \in Ids : Clean(id) => ~LiveIn(ops, id),
         \/ settled' = settled
         \/ \E i \in DOMAIN sent : ops = sent[i].ops /\ settled' = settled \cup OpsOf(i, S)
  PROVE  TargetInv'
<1> USE DEF PipelineInv, ConvergeInv, TargetInv, OpsOfWrite
<1>1. /\ UNCHANGED <<sent, buffer, wal, rows, cur, applied>> /\ LeftTrue'
      /\ orphans' \subseteq orphans /\ settled \subseteq settled'
  BY BesideKept DEF Beside
<1>2. docs \in Docs
  BY DEF DeliveryInv, DeliveryTypeOK
<1>3. ASSUME NEW id \in Ids
      PROVE  /\ DocTrue(docs'[id], id) /\ docs'[id].ver \in Nat /\ docs'[id].ver >= docs[id].ver
             /\ \A m \in S : ops[m].id = id => docs'[id].ver >= ops[m].ver
             /\ \/ docs'[id] = docs[id] /\ \A m \in S : ops[m].id = id => ops[m].ver < docs[id].ver
                \/ \E m \in S : /\ ops[m].id = id
                                /\ docs'[id].val = ops[m].val /\ docs'[id].ver = ops[m].ver
  BY <1>2, WriteIsTrue DEF DocsTrue
<1>4. DocsTrue'
  BY <1>1, <1>3, SourceSame DEF DocsTrue
<1>5. ASSUME NEW x \in DOMAIN sent, NEW m \in DOMAIN sent[x].ops, <<x, m>> \notin settled, <<x, m>> \in settled'
      PROVE  m \in S /\ sent[x].ops = ops
  BY <1>5 DEF OpsOf
<1>6. RemovedStays'
  <2> SUFFICES ASSUME NEW k \in DOMAIN wal, NEW id \in Ids, Removed(k, id)
               PROVE  Pend(k, id)' \/ Tomb(k, id)' \/ Clean(id)'
    BY <1>1, PlaceSame DEF RemovedStays
  <2>1. LastAt(k, id) /\ Final(id) = Absent /\ Ver(k) \in Nat
    BY WalFacts DEF Removed, Ver
  <2>2. docs'[id].ver >= Ver(k) => Tomb(k, id)'
    BY <1>3, <2>1, DocDecides DEF Tomb
  <2>3. CASE Tomb(k, id)
    <3>1. docs[id].ver \in Nat
      BY <1>2 DEF Docs, Doc
    <3> QED
      BY <1>3, <2>1, <2>2, <2>3, <3>1 DEF Tomb
  <2>4. CASE Clean(id)
    <3>1. \A m \in S : ops[m].id = id => ops[m].val = Absent
      BY <2>4 DEF LiveIn
    <3>2. docs'[id].val = Absent
      BY <1>3, <2>4, <3>1 DEF Clean
    <3>3. \A i \in DOMAIN sent : Unanswered(i)' => Unanswered(i)
      BY <1>1 DEF Unanswered, Positions
    <3> QED
      BY <1>1, <2>4, <3>2, <3>3 DEF Clean, LiveIn
  <2>5. CASE RemOps(buffer, k, id)
    BY <1>1, <2>5 DEF Pend, RemOps
  <2>6. ASSUME NEW x \in DOMAIN sent, PendAt(x, k, id) PROVE Pend(k, id)' \/ Tomb(k, id)'
    <3>1. CASE sent[x].kind = "truncate" /\ sent[x].pos = Ver(k) /\ x > finished
      BY <1>1, <3>1 DEF Pend, PendAt
    <3>2. ASSUME NEW m \in DOMAIN sent[x].ops, RemOp(sent[x].ops[m], k, id), <<x, m>> \notin settled
          PROVE  Pend(k, id)' \/ Tomb(k, id)'
      <4>1. CASE <<x, m>> \notin settled'
        BY <1>1, <3>2, <4>1 DEF Pend, PendAt
      <4>2. CASE <<x, m>> \in settled'
        <5>1. m \in S /\ RemOp(ops[m], k, id)
          BY <1>5, <3>2, <4>2
        <5> QED
          BY <1>3, <2>2, <5>1 DEF RemOp
      <4> QED
        BY <4>1, <4>2
    <3> QED
      BY <2>6, <3>1, <3>2 DEF PendAt
  <2> QED
    BY <2>3, <2>4, <2>5, <2>6 DEF RemovedStays, Pend
<1>7. UpsertStays'
  <2> SUFFICES ASSUME NEW k \in DOMAIN wal, NEW id \in Ids, LastAt(k, id), Final(id) # Absent,
                      NEW op \in applied \cup OpsSettled', op.id = id, op.ver = Ver(k)
               PROVE  docs'[id].ver >= Ver(k) /\ docs'[id].val # Absent
    BY <1>1, SourceSame DEF UpsertStays
  <2>1. k > 0 /\ Ver(k) \in Nat /\ docs[id].ver \in Nat
    BY <1>2, WalFacts DEF Ver, Docs, Doc
  <2>2. \A m \in DOMAIN ops : ops[m] \in Op
    OBVIOUS
  <2>3. ASSUME NEW m \in S, ops[m].id = id, ops[m].ver >= Ver(k) PROVE ops[m].val # Absent
    <3>1. ops[m].val = Final(ops[m].id)
      BY <2>3, OpDecides
    <3> QED
      BY <2>3, <3>1
  <2>4. CASE op \in applied \cup OpsSettled
    <3>1. docs[id].ver >= Ver(k) /\ docs[id].val # Absent
      BY <2>4 DEF UpsertStays
    <3>2. docs'[id].ver >= Ver(k)
      BY <1>3, <2>1, <3>1
    <3> QED
      BY <1>3, <2>3, <3>1, <3>2
  <2>5. CASE op \notin applied \cup OpsSettled
    <3>1. PICK s \in settled' : op = sent[s[1]].ops[s[2]]
      BY <1>1, <2>5 DEF OpsSettled
    <3>2. s \notin settled
      BY <2>5, <3>1 DEF OpsSettled
    <3>3. PICK m \in S : op = ops[m]
      BY <3>1, <3>2 DEF OpsOf
    <3>4. docs'[id].ver >= Ver(k)
      BY <1>3, <3>3
    <3>5. CASE docs'[id] = docs[id] /\ \A j \in S : ops[j].id = id => ops[j].ver < docs[id].ver
      <4>1. docs[id].ver > Ver(k)
        BY <2>1, <3>3, <3>5
      <4>2. docs[id].val # Absent
        BY <2>1, <4>1, DocDecides DEF DocsTrue
      <4> QED
        BY <3>4, <3>5, <4>2
    <3>6. CASE \E j \in S : ops[j].id = id /\ docs'[id].val = ops[j].val /\ docs'[id].ver = ops[j].ver
      BY <2>3, <3>4, <3>6
    <3> QED
      BY <1>3, <3>5, <3>6
  <2> QED
    BY <2>4, <2>5
<1> QED
  BY <1>1, <1>4, <1>6, <1>7


\* A step that keeps the target's part and settles what is open keeps the rest.
LEMMA BesideConverges ==
  ASSUME PipelineInv, ConvergeInv, Beside, TargetInv', SettledInWindow' PROVE ConvergeInv'
BY BesideKept DEF ConvergeInv

\* The writes that may be open begin with the oldest command.
LEMMA WindowFacts ==
  ASSUME DeliveryInv, NEW x \in Window
  PROVE  /\ x \in DOMAIN sent /\ x \in Nat /\ finished \in Nat /\ finished < x
         /\ x <= finished + Concurrency
         /\ Oldest \in DOMAIN sent /\ IsWrite(Oldest) /\ Oldest <= x
         /\ \A i \in DOMAIN sent : finished < i /\ i <= x => i \in Window
<1>1. /\ x \in DOMAIN sent /\ finished < x /\ x <= finished + Concurrency
      /\ \A j \in finished + 1 .. x : IsWrite(j)
  BY DEF Window
<1>2. DOMAIN sent = 1 .. Len(sent) /\ Len(sent) \in Nat /\ finished \in Nat /\ Concurrency \in Nat
  BY DeliveryAssumption DEF DeliveryInv, DeliveryTypeOK
<1>3. Oldest \in DOMAIN sent /\ Oldest <= x /\ Oldest \in finished + 1 .. x
  BY <1>1, <1>2 DEF Oldest
<1>4. ASSUME NEW i \in DOMAIN sent, finished < i, i <= x PROVE i \in Window
  BY <1>1, <1>2, <1>4 DEF Window
<1> QED
  BY <1>1, <1>2, <1>3, <1>4

\* What was settled is accounted for or open.
LEMMA WindowMoves ==
  ASSUME DeliveryInv, SettledInWindow, sent' = sent,
         \A s \in settled' : s \in settled \/ s[1] \in Window,
         finished' = finished \/ (finished' = Oldest /\ Oldest \in DOMAIN sent)
  PROVE  SettledInWindow'
<1> SUFFICES ASSUME NEW s \in settled', ~(s[1] <= finished') PROVE s[1] \in Window'
  BY DEF SettledInWindow
<1>1. finished \in Nat /\ DOMAIN sent = 1 .. Len(sent) /\ Len(sent) \in Nat /\ Concurrency \in Nat
  BY DeliveryAssumption DEF DeliveryInv, DeliveryTypeOK
<1>2. CASE s[1] \in Window
  <2>1. PICK i : i = s[1]
    OBVIOUS
  <2>2. i \in Window /\ i \in Nat
    BY <1>2, <2>1, WindowFacts
  <2>3. CASE finished' = finished
    BY <1>2, <2>3 DEF Window, IsWrite
  <2>4. CASE finished' = finished + 1
    <3>1. /\ i \in DOMAIN sent /\ finished < i /\ i <= finished + Concurrency
          /\ \A j \in finished + 1 .. i : IsWrite(j)
      BY <2>2 DEF Window
    <3>2. i \in DOMAIN sent' /\ finished' < i /\ i <= finished' + Concurrency
      BY <1>1, <2>1, <2>2, <2>4, <3>1
    <3>3. \A j \in finished' + 1 .. i : IsWrite(j)'
      BY <1>1, <2>2, <2>4, <3>1 DEF IsWrite
    <3> QED
      BY <2>1, <3>2, <3>3 DEF Window
  <2> QED
    BY <2>3, <2>4 DEF Oldest
<1>3. CASE s \in settled
  <2>1. s[1] <= finished \/ s[1] \in Window
    BY <1>3 DEF SettledInWindow
  <2>2. s[1] \in Nat
    BY <1>3 DEF DeliveryInv, DeliveryTypeOK
  <2> QED
    BY <1>1, <1>2, <2>1, <2>2 DEF Oldest
<1> QED
  BY <1>2, <1>3

\* A step of the sink side that touches no document, past anything but a truncate.
LEMMA QuietConverges ==
  ASSUME PipelineInv, ConvergeInv, Beside, UNCHANGED <<docs, settled, orphans>>,
         finished' = finished \/
           (finished' = Oldest /\ Oldest \in DOMAIN sent /\ sent[Oldest].kind # "truncate")
  PROVE  ConvergeInv'
<1> USE DEF PipelineInv, ConvergeInv
<1>1. UNCHANGED <<sent, buffer, wal, rows, cur, applied>> /\ LeftTrue'
  BY BesideKept
<1>2. SettledInWindow'
  BY <1>1, WindowMoves
<1>3. DocsTrue'
  BY <1>1, SourceSame DEF TargetInv, DocsTrue
<1>4. RemovedStays'
  <2>1. ASSUME NEW x \in DOMAIN sent, NEW k, NEW id, PendAt(x, k, id) PROVE PendAt(x, k, id)'
    <3>1. x \in Nat /\ finished \in Nat
      BY SentType DEF DeliveryInv, DeliveryTypeOK
    <3>2. CASE sent[x].kind = "truncate" /\ sent[x].pos = Ver(k) /\ x > finished
      BY <1>1, <3>1, <3>2 DEF PendAt, Oldest
    <3>3. CASE \E m \in DOMAIN sent[x].ops : RemOp(sent[x].ops[m], k, id) /\ <<x, m>> \notin settled
      BY <1>1, <3>3 DEF PendAt
    <3> QED
      BY <2>1, <3>2, <3>3 DEF PendAt
  <2>2. \A k, id : Pend(k, id) => Pend(k, id)'
    BY <1>1, <2>1 DEF Pend, RemOps
  <2>3. \A k, id : Tomb(k, id)' <=> Tomb(k, id)
    BY DEF Tomb
  <2>4. \A id : Clean(id)' <=> Clean(id)
    BY <1>1 DEF Clean, LiveIn, Unanswered, Positions
  <2> QED
    BY <1>1, <2>2, <2>3, <2>4, PlaceSame DEF TargetInv, RemovedStays
<1>5. UpsertStays'
  BY <1>1, SourceSame DEF TargetInv, UpsertStays, OpsSettled
<1> HIDE DEF PipelineInv, ConvergeInv
<1> QED
  BY <1>1, <1>2, <1>3, <1>4, <1>5, BesideConverges DEF TargetInv

\* A row that is gone, and whose removal is not pending: a write of it that is
\* open is in the window, ahead of its removal.
LEMMA AheadOfRemoval ==
  ASSUME PipelineInv, ConvergeInv, NEW k \in DOMAIN wal, NEW id \in Ids, Removed(k, id), ~Pend(k, id)
  PROVE  /\ ~LiveIn(buffer, id)
         /\ \A i \in DOMAIN sent : LiveIn(sent[i].ops, id) /\ Unanswered(i) =>
              /\ i \in Window
              /\ \E x \in Window : i <= x /\ \E m \in DOMAIN sent[x].ops : <<x, m>> \in settled
<1> USE DEF PipelineInv, ConvergeInv, TraceInv
<1>1. ~RemOps(buffer, k, id) /\ \A x \in DOMAIN sent : ~PendAt(x, k, id)
  BY DEF Pend
<1>2. ~LiveIn(buffer, id)
  BY <1>1 DEF OrderOK
<1>3. DOMAIN sent = 1 .. Len(sent) /\ Len(sent) \in Nat /\ finished \in Nat
  BY DEF DeliveryInv, DeliveryTypeOK
<1>4. ASSUME NEW i \in DOMAIN sent, LiveIn(sent[i].ops, id), Unanswered(i)
      PROVE  /\ i \in Window
             /\ \E x \in Window : i <= x /\ \E m \in DOMAIN sent[x].ops : <<x, m>> \in settled
  <2>1. finished < i
    <3>1. PICK m \in DOMAIN sent[i].ops : sent[i].ops[m].id = id
      BY <1>4 DEF LiveIn
    <3>2. <<i, m>> \notin settled
      BY <1>4, <3>1 DEF Unanswered, OpsOf, Positions
    <3> QED
      BY <1>3, <3>2, AheadIsSettled
  <2>2. PICK x \in i .. Len(sent) : RemAt(x, k, id)
    BY <1>1, <1>4 DEF OrderOK
  <2>3. x \in DOMAIN sent /\ x > finished /\ i <= x
    BY <1>3, <2>1, <2>2
  <2>4. PICK m \in DOMAIN sent[x].ops : RemOp(sent[x].ops[m], k, id)
    BY <1>1, <2>2, <2>3 DEF RemAt, RemOps, PendAt
  <2>5. <<x, m>> \in settled
    BY <1>1, <2>3, <2>4 DEF PendAt
  <2>6. x \in Window
    BY <1>3, <2>3, <2>5 DEF SettledInWindow
  <2>7. i \in Window
    BY <2>1, <2>3, <2>6, WindowFacts
  <2> QED
    BY <2>3, <2>4, <2>5, <2>6, <2>7
<1> QED
  BY <1>2, <1>4

\* Tries and answers of open writes.
LEMMA RequestConverges ==
  ASSUME Plain, PipelineInv, ConvergeInv, Beside, finished' = finished, NEW i \in DOMAIN sent, Open(i),
         NEW S \in SUBSET Positions(i), docs' = Write(docs, sent[i].ops, S),
         settled' = settled \/ settled' = settled \cup OpsOf(i, S)
  PROVE  ConvergeInv'
<1> USE DEF PipelineInv, ConvergeInv, TraceInv
<1>1. sent[i].ops \in Seq(Op) /\ S \in SUBSET (DOMAIN sent[i].ops)
  BY SentType DEF Positions
<1>2. \A m \in DOMAIN sent[i].ops : OpTrue(sent[i].ops[m])
  BY TakenIsTrue DEF HandedTrue
<1>3. PICK ops : ops = sent[i].ops
  OBVIOUS
<1>4. OpsOfWrite(ops, S)
  BY <1>1, <1>2, <1>3 DEF OpsOfWrite
<1>5. \A id \in Ids : Clean(id) => ~LiveIn(ops, id)
  BY <1>3 DEF Clean, Open, Unanswered
<1>6. SettledInWindow'
  <2>1. \A s \in settled' : s \in settled \/ s[1] \in Window
    BY DEF OpsOf, Open
  <2> QED
    BY <2>1, BesideKept, WindowMoves
<1> HIDE DEF PipelineInv, ConvergeInv
<1>7. TargetInv'
  BY <1>3, <1>4, <1>5, WriteConverges
<1> QED
  BY <1>6, <1>7, BesideConverges

\* Those an earlier attempt left behind.
LEMMA OrphanConverges == ASSUME Plain, PipelineInv, ConvergeInv, OrphanLands PROVE ConvergeInv'
<1>1. Beside /\ UNCHANGED <<sent, finished, settled>>
  BY DEF OrphanLands, Beside, channelVars, accountVars
<1>2. PICK ops \in orphans : \E S \in SUBSET DOMAIN ops : docs' = Write(docs, ops, S)
  BY DEF OrphanLands
<1>3. PICK S \in SUBSET DOMAIN ops : docs' = Write(docs, ops, S)
  BY <1>2
<1>4. OpsOfWrite(ops, S)
  BY <1>3 DEF OpsOfWrite, PipelineInv, CrashOK, ConvergeInv, TargetInv, LeftTrue
<1>5. \A id \in Ids : Clean(id) => ~LiveIn(ops, id)
  BY DEF Clean
<1>6. TargetInv'
  BY <1>1, <1>4, <1>5, WriteConverges
<1>7. SettledInWindow'
  BY <1>1, WindowMoves DEF PipelineInv, ConvergeInv
<1> QED
  BY <1>1, <1>6, <1>7, BesideConverges

\* Clearing the index, completely or in part.
LEMMA ClearConverges ==
  ASSUME Plain, PipelineInv, ConvergeInv, Beside, AtFront("truncate"), UNCHANGED <<settled, orphans>>,
         NEW S \in SUBSET Ids, docs' = Truncate(docs, sent[Oldest].pos, S),
         finished' = finished \/ (finished' = Oldest /\ S = Ids)
  PROVE  ConvergeInv'
<1> USE DEF PipelineInv, ConvergeInv, TraceInv, TargetInv
<1>1. UNCHANGED <<sent, buffer, wal, rows, cur, applied>> /\ LeftTrue'
  BY BesideKept
<1>2. /\ Oldest \in DOMAIN sent /\ sent[Oldest].kind = "truncate" /\ sent[Oldest].ops = <<>>
      /\ Window = {}
  <2>1. Oldest \in DOMAIN sent /\ sent[Oldest].kind = "truncate"
    BY DEF AtFront
  <2>2. ~IsWrite(Oldest)
    BY <2>1 DEF IsWrite
  <2>3. sent[Oldest] \in WellFormed
    BY <2>1 DEF DeliveryInv
  <2> QED
    BY <2>1, <2>2, <2>3, WindowFacts DEF WellFormed
<1>3. PICK p : p = sent[Oldest].pos
  OBVIOUS
<1>4. PICK t \in DOMAIN wal : Truncates(t) /\ p = Ver(t)
  BY <1>2, <1>3 DEF HandedTrue, Truncates
<1>5. /\ DOMAIN sent = 1 .. Len(sent) /\ Len(sent) \in Nat /\ finished \in Nat
      /\ DOMAIN wal = 1 .. Len(wal) /\ Len(wal) \in Nat /\ p \in Nat
  BY <1>4, WalFacts DEF DeliveryInv, DeliveryTypeOK, Ver
<1>6. orphans = {} /\ applied = {}
  <2>1. MaxRestarts = 0
    BY <1>4, WalFacts DEF Plain, Truncates
  <2> QED
    BY <2>1 DEF NoAttempts
<1>7. ASSUME NEW id \in Ids
      PROVE  /\ docs[id].ver \in Nat
             /\ \/ docs'[id] = docs[id] /\ (id \in S /\ docs[id].val # Absent => docs[id].ver > p)
                \/ /\ docs[id].val # Absent /\ docs[id].ver <= p
                   /\ docs'[id].val = Absent /\ docs'[id].ver = p
  <2>1. docs[id] \in Doc
    BY DEF DeliveryInv, DeliveryTypeOK, Docs
  <2>2. docs[id].ver \in Nat
    BY <2>1 DEF Doc
  <2>3. docs'[id] = IF id \in S /\ docs[id].val # Absent /\ docs[id].ver <= p
                      THEN [val |-> Absent, ver |-> p] ELSE docs[id]
    BY <1>3 DEF Truncate
  <2> QED
    BY <1>5, <2>2, <2>3
<1>8. SettledInWindow'
  BY <1>1, <1>2, WindowMoves
<1>9. DocsTrue'
  <2> SUFFICES ASSUME NEW id \in Ids PROVE DocTrue(docs'[id], id)
    BY <1>1, SourceSame DEF DocsTrue
  <2>1. DocTrue(docs[id], id)
    BY DEF DocsTrue
  <2> QED
    BY <1>4, <1>7, <2>1 DEF DocTrue
<1>10. \A i \in DOMAIN sent : \A m \in DOMAIN sent[i].ops : <<i, m>> \in settled => i <= finished
  BY <1>2 DEF SettledInWindow
<1>11. RemovedStays'
  <2> SUFFICES ASSUME NEW k \in DOMAIN wal, NEW id \in Ids, Removed(k, id), ~Pend(k, id)'
               PROVE  Tomb(k, id)' \/ Clean(id)'
    BY <1>1, PlaceSame DEF RemovedStays
  <2>0. LastAt(k, id) /\ Final(id) = Absent /\ Ver(k) \in Nat /\ k \in Nat
    BY <1>5 DEF Removed, Ver
  <2>1. ~RemOps(buffer, k, id)
    BY <1>1 DEF Pend, RemOps
  <2>2. ASSUME NEW x \in DOMAIN sent, PendAt(x, k, id)
        PROVE  x = Oldest /\ finished' = Oldest /\ S = Ids /\ p = Ver(k)
    <3>1. ~PendAt(x, k, id)'
      BY <1>1, <2>2 DEF Pend
    <3>2. sent[x].kind = "truncate" /\ sent[x].pos = Ver(k) /\ x > finished /\ ~(x > finished')
      BY <1>1, <2>2, <3>1 DEF PendAt
    <3> QED
      BY <1>3, <1>5, <3>2 DEF Oldest
  <2>3. CASE Tomb(k, id)
    BY <1>7, <2>3 DEF Tomb
  <2>4. CASE Clean(id)
    <3>1. docs'[id] = docs[id]
      BY <1>7, <2>4 DEF Clean
    <3> QED
      BY <1>1, <2>4, <3>1 DEF Clean, LiveIn, Unanswered, Positions
  <2>5. CASE Pend(k, id)
    <3>1. PICK x \in DOMAIN sent : PendAt(x, k, id)
      BY <2>1, <2>5 DEF Pend
    <3>2. finished' = Oldest /\ S = Ids /\ p = Ver(k)
      BY <2>2, <3>1
    <3>3. CASE docs[id].val # Absent
      <4>1. docs[id].ver < Ver(k)
        BY <1>7, <2>0, <3>3, DocDecides DEF DocsTrue
      <4> QED
        BY <1>7, <2>0, <3>2, <3>3, <4>1 DEF Tomb
    <3>4. CASE docs[id].val = Absent
      <4>1. docs'[id] = docs[id]
        BY <1>7, <3>4
      <4>2. ~LiveIn(buffer, id)
        BY <2>1 DEF OrderOK
      <4>3. ASSUME NEW i \in DOMAIN sent, LiveIn(sent[i].ops, id), Unanswered(i) PROVE FALSE
        <5>1. PICK m \in DOMAIN sent[i].ops : sent[i].ops[m].id = id
          BY <4>3 DEF LiveIn
        <5>2. <<i, m>> \notin settled
          BY <4>3, <5>1 DEF Unanswered, OpsOf, Positions
        <5>3. finished < i
          BY <1>5, <5>2, AheadIsSettled
        <5>4. i # Oldest
          BY <1>2, <5>1
        <5>5. PICK z \in i .. Len(sent) : RemAt(z, k, id)
          BY <2>1, <4>3 DEF OrderOK
        <5>6. z \in DOMAIN sent /\ z > Oldest /\ z > finished
          BY <1>5, <5>3, <5>4, <5>5 DEF Oldest
        <5>7. ~PendAt(z, k, id)
          BY <2>2, <5>6, <1>5 DEF Oldest
        <5>8. PICK n \in DOMAIN sent[z].ops : RemOp(sent[z].ops[n], k, id)
          BY <5>5, <5>6, <5>7 DEF RemAt, RemOps, PendAt
        <5>9. <<z, n>> \in settled
          BY <5>7, <5>8 DEF PendAt
        <5> QED
          BY <1>5, <1>10, <5>6, <5>8, <5>9
      <4> QED
        BY <1>1, <1>6, <3>4, <4>1, <4>2, <4>3 DEF Clean, LiveIn, Unanswered, Positions
    <3> QED
      BY <3>3, <3>4
  <2> QED
    BY <2>3, <2>4, <2>5 DEF RemovedStays
<1>12. UpsertStays'
  <2> SUFFICES ASSUME NEW k \in DOMAIN wal, NEW id \in Ids, LastAt(k, id), Final(id) # Absent,
                      NEW op \in OpsSettled, op.id = id, op.ver = Ver(k)
               PROVE  docs'[id].ver >= Ver(k) /\ docs'[id].val # Absent
    BY <1>1, <1>6, SourceSame DEF UpsertStays, OpsSettled
  <2>1. docs[id].ver >= Ver(k) /\ docs[id].val # Absent
    BY DEF UpsertStays
  <2>2. docs[id].ver > p
    <3> SUFFICES ASSUME ~(docs[id].ver > p) PROVE FALSE
      OBVIOUS
    <3>1. t >= k
      BY <1>4, <1>5, <1>7, <2>1 DEF Ver
    <3>2. Affects(t, id)
      BY <1>4 DEF Truncates, Affects, Touches
    <3>3. t = k
      BY <1>5, <3>1, <3>2 DEF LastAt
    <3>4. PICK s \in settled : op = sent[s[1]].ops[s[2]]
      BY DEF OpsSettled
    <3>5. s[1] \in DOMAIN sent /\ s[2] \in DOMAIN sent[s[1]].ops /\ s = <<s[1], s[2]>>
      BY DEF CrashOK, Positions, DeliveryInv, DeliveryTypeOK
    <3>6. s[1] \in 1 .. Oldest - 1
      BY <1>5, <1>10, <3>5 DEF Oldest
    <3>7. Ver(k) < sent[Oldest].pos
      BY <1>2, <1>5, <3>4, <3>5, <3>6 DEF TruncatesOrder
    <3> QED
      BY <1>3, <1>4, <1>5, <3>3, <3>7 DEF Ver
  <2> QED
    BY <1>5, <1>7, <2>1, <2>2
<1> HIDE DEF PipelineInv, ConvergeInv
<1> QED
  BY <1>1, <1>8, <1>9, <1>11, <1>12, BesideConverges

\* The target forgets a tombstone when nothing it overtook can still arrive.
LEMMA ForgetConverges == ASSUME Plain, PipelineInv, ConvergeInv, TargetForgets PROVE ConvergeInv'
<1> USE DEF PipelineInv, ConvergeInv, TargetInv
<1>1. Beside /\ UNCHANGED <<sent, finished, settled, orphans>>
  BY DEF TargetForgets, Beside, channelVars, accountVars, crashVars
<1>2. PICK f \in Ids : IsTombstone(docs[f]) /\ ~Lingering(f) /\ docs' = Collect(docs, f)
  BY DEF TargetForgets
<1>3. UNCHANGED <<buffer, wal, rows, cur, applied>> /\ LeftTrue'
  BY <1>1, BesideKept
<1>4. \A id \in Ids : docs'[id] = IF id = f THEN NoDoc ELSE docs[id]
  BY <1>2 DEF Collect, DeliveryInv, DeliveryTypeOK, Docs
<1>5. SettledInWindow'
  BY <1>1, WindowMoves
<1>6. DocsTrue'
  BY <1>3, <1>4, SourceSame DEF DocsTrue, DocTrue
<1>7. UpsertStays'
  <2> SUFFICES ASSUME NEW k \in DOMAIN wal, NEW id \in Ids, LastAt(k, id), Final(id) # Absent,
                      NEW op \in applied \cup OpsSettled, op.id = id, op.ver = Ver(k)
               PROVE  docs'[id].ver >= Ver(k) /\ docs'[id].val # Absent
    BY <1>1, <1>3, SourceSame DEF UpsertStays, OpsSettled
  <2>1. docs[id].ver >= Ver(k) /\ docs[id].val # Absent
    BY DEF UpsertStays
  <2> QED
    BY <1>2, <1>4, <2>1 DEF IsTombstone
<1>8. RemovedStays'
  <2>1. \A k, id : (Pend(k, id)' <=> Pend(k, id))
    BY <1>1, <1>3 DEF Pend, PendAt, RemOps
  <2>2. ASSUME NEW id \in Ids, docs'[id].val = Absent, ~LiveIn(buffer, id),
               \A ops \in orphans : ~LiveIn(ops, id),
               \A i \in DOMAIN sent : LiveIn(sent[i].ops, id) => ~Unanswered(i)
        PROVE  Clean(id)'
    BY <1>1, <1>3, <2>2 DEF Clean, LiveIn, Unanswered, Positions
  <2> SUFFICES ASSUME NEW k \in DOMAIN wal, NEW id \in Ids, Removed(k, id), ~Pend(k, id)
               PROVE  Tomb(k, id)' \/ Clean(id)'
    BY <1>3, <2>1, PlaceSame DEF RemovedStays
  <2>3. CASE Clean(id)
    <3>1. docs'[id].val = Absent
      BY <1>4, <2>3 DEF Clean, NoDoc
    <3> QED
      BY <2>2, <2>3, <3>1 DEF Clean
  <2>4. CASE Tomb(k, id) /\ id # f
    BY <1>4, <2>4 DEF Tomb
  <2>5. CASE id = f
    <3>1. docs'[id].val = Absent
      BY <1>4, <2>5 DEF NoDoc
    <3>2. \A ops \in orphans : ~LiveIn(ops, id)
      BY <1>2, <2>5 DEF Lingering, LiveIn
    <3> HIDE DEF PipelineInv, ConvergeInv
    <3>3. /\ ~LiveIn(buffer, id)
          /\ \A i \in DOMAIN sent : LiveIn(sent[i].ops, id) /\ Unanswered(i) =>
               /\ i \in Window
               /\ \E x \in Window : i <= x /\ \E m \in DOMAIN sent[x].ops : <<x, m>> \in settled
      BY AheadOfRemoval
    <3> USE DEF PipelineInv, ConvergeInv
    <3>4. ASSUME NEW i \in DOMAIN sent, LiveIn(sent[i].ops, id), Unanswered(i) PROVE FALSE
      <4>1. PICK x \in Window : i <= x /\ \E m \in DOMAIN sent[x].ops : <<x, m>> \in settled
        BY <3>3, <3>4
      <4>2. i \in Window /\ Open(i)
        BY <3>3, <3>4 DEF Open, Unanswered
      <4>3. CASE Concurrency > 1
        BY <1>2, <2>5, <3>4, <4>2, <4>3 DEF Lingering, LiveIn, Positions
      <4>4. CASE ~(Concurrency > 1)
        <5>1. x = i
          BY <4>1, <4>2, <4>4, WindowFacts, DeliveryAssumption
        <5> QED
          BY <3>4, <4>1, <5>1 DEF Unanswered, OpsOf, Positions
      <4> QED
        BY <4>3, <4>4
    <3> QED
      BY <2>2, <3>1, <3>2, <3>3, <3>4
  <2> QED
    BY <2>3, <2>4, <2>5 DEF RemovedStays
<1> HIDE DEF PipelineInv, ConvergeInv
<1> QED
  BY <1>1, <1>3, <1>5, <1>6, <1>7, <1>8, BesideConverges

\* The steps of the sink task and the checkpoint task.
LEMMA TasksConverge == ASSUME Plain, PipelineInv, ConvergeInv, TasksStep PROVE ConvergeInv'
<1>1. /\ DeliveryStep
      /\ UNCHANGED <<sourceVars, cur, engineVars, copyq, loadVars, crashVars>>
      /\ UNCHANGED <<orphans, applied, kept>>
  BY DEF TasksStep, crashVars
<1>2. Policy = "halt" /\ Policy # "quarantine"
  BY DEF Plain
<1>3. ASSUME NEW i \in DOMAIN sent, NEW S \in SUBSET Positions(i), Try(i, S) PROVE ConvergeInv'
  <2>1. Beside /\ finished' = finished /\ settled' = settled
    BY <1>1, <1>3 DEF Try, Beside, channelVars, accountVars
  <2> QED
    BY <1>3, <2>1, RequestConverges DEF Try
<1>4. ASSUME NEW i \in DOMAIN sent, NEW R \in SUBSET Positions(i), Answer(i, R) PROVE ConvergeInv'
  <2>1. PICK S \in SUBSET Positions(i) : S = Positions(i) \ R
    OBVIOUS
  <2>2. Beside /\ finished' = finished /\ settled' = settled \cup OpsOf(i, S) /\ Open(i)
        /\ docs' = Write(docs, sent[i].ops, S)
    BY <1>1, <1>4, <2>1 DEF Answer, Beside, channelVars, accountVars
  <2> QED
    BY <2>2, RequestConverges
<1>5. ASSUME AccountWrite \/ AccountPosition \/ AccountMark PROVE ConvergeInv'
  <2>1. /\ sent' = sent /\ docs' = docs /\ settled' = settled
        /\ finished' = Oldest /\ Oldest \in DOMAIN sent /\ sent[Oldest].kind # "truncate"
    BY <1>2, <1>5 DEF AccountWrite, AccountPosition, AccountMark, Account, AtFront, channelVars, targetVars
  <2>2. Beside
    BY <1>1, <2>1 DEF Beside
  <2> QED
    BY <1>1, <2>1, <2>2, QuietConverges
<1>6. CASE AccountTruncate
  <2>1. /\ sent' = sent /\ docs' = Truncate(docs, sent[Oldest].pos, Ids) /\ settled' = settled
        /\ finished' = Oldest /\ AtFront("truncate")
    BY <1>6 DEF AccountTruncate, Account, channelVars
  <2>2. Beside
    BY <1>1, <2>1 DEF Beside
  <2> QED
    BY <1>1, <2>1, <2>2, ClearConverges
<1>7. CASE GiveUpTruncate
  <2>1. /\ sent' = sent /\ settled' = settled /\ finished' = finished /\ AtFront("truncate")
    BY <1>7 DEF GiveUpTruncate, GiveUp, channelVars
  <2>2. PICK S \in SUBSET Ids : docs' = Truncate(docs, sent[Oldest].pos, S)
    BY <1>7 DEF GiveUpTruncate
  <2>3. Beside
    BY <1>1, <2>1 DEF Beside
  <2> QED
    BY <1>1, <2>1, <2>2, <2>3, ClearConverges
<1>8. ASSUME GiveUpWrite \/ SinkEnds \/ Persist \/ Publish PROVE ConvergeInv'
  <2>1. UNCHANGED <<sent, finished, docs, settled>>
    BY <1>2, <1>8 DEF GiveUpWrite, GiveUp, SinkEnds, Persist, Publish, channelVars, targetVars, accountVars
  <2>2. Beside
    BY <1>1, <2>1 DEF Beside
  <2> QED
    BY <1>1, <2>1, <2>2, QuietConverges
<1> QED
  BY <1>1, <1>3, <1>4, <1>5, <1>6, <1>7, <1>8 DEF DeliveryStep

\* A requested stop, and no step at all.
LEMMA StopConverges ==
  ASSUME PipelineInv, ConvergeInv, Shutdown \/ UNCHANGED vars PROVE ConvergeInv'
<1>1. UNCHANGED <<sent, finished, docs, settled, sourceVars, cur, engineVars, copyq, loadVars, crashVars>>
  BY DEF Shutdown, EngineCloses, vars, taskVars, accountVars, targetVars
<1>2. Beside /\ UNCHANGED orphans
  BY <1>1 DEF Beside, crashVars
<1> QED
  BY <1>1, <1>2, QuietConverges

-----------------------------------------------------------------------------
(* The engine.                                                             *)

\* What was buffered, with the row just taken, stays buffered or goes out in the
\* first command.
HandsOver(cmds, all) ==
  /\ cmds \in Seq(WellFormed) /\ sent' = sent \o cmds
  /\ \/ cmds = <<>> /\ buffer' = all
     \/ /\ buffer' = <<>>
        /\ all # <<>> => 1 \in DOMAIN cmds /\ cmds[1].ops = all
        /\ \A n \in DOMAIN cmds : cmds[n].ops # <<>> => n = 1 /\ cmds[n].ops = all

IsIn(op, ops) == \E m \in DOMAIN ops : ops[m] = op

\* A row just taken is true, streamed now or copied, and no write of a row whose
\* removal has been taken.
Fresh(op) ==
  /\ TakenTrue(op)'
  /\ \A k \in Nat : op.ver = Ver(k) => k = cur.txn
  /\ \A k \in DOMAIN wal, id \in Ids : Removed(k, id)' => ~(op.id = id /\ op.val # Absent)

\* A truncate just taken is newer than everything there is.
Tops(cmd, all) ==
  /\ \E k \in DOMAIN wal : \E j \in DOMAIN wal[k] :
       Seen(k, j)' /\ wal[k][j].kind = "truncate" /\ cmd.pos = Ver(k)
  /\ \A m \in DOMAIN all : \A k \in Nat : all[m].ver = Ver(k) => Ver(k) < cmd.pos
  /\ \A i \in DOMAIN sent : \A m \in DOMAIN sent[i].ops : \A k \in Nat :
       sent[i].ops[m].ver = Ver(k) => Ver(k) < cmd.pos

Flow(cmds, all) ==
  /\ HandsOver(cmds, all)
  /\ UNCHANGED <<taskVars, sourceVars, loadVars, crashVars>>
  /\ cur'.txn \in Nat /\ cur.txn <= cur'.txn
  /\ \A k \in DOMAIN wal : \A j \in DOMAIN wal[k] : Seen(k, j) => Seen(k, j)'
  /\ \A m \in DOMAIN buffer : IsIn(buffer[m], all)
  /\ \A n \in DOMAIN all : IsIn(all[n], buffer) \/ Fresh(all[n])
  /\ \A n \in DOMAIN cmds : cmds[n].kind = "truncate" => Tops(cmds[n], all)
  /\ \A k \in DOMAIN wal, id \in Ids : Removed(k, id)' =>
       \/ Removed(k, id) \/ RemOps(all, k, id)
       \/ \E n \in DOMAIN cmds : cmds[n].kind = "truncate" /\ cmds[n].pos = Ver(k)

\* Where the commands of such a step are, and what they carry.
LEMMA FlowFacts ==
  ASSUME PipelineInv, NEW cmds, NEW all, Flow(cmds, all)
  PROVE  /\ UNCHANGED <<finished, settled, docs, wal, rows, visible, slot, load, orphans, applied, kept>>
         /\ DOMAIN sent = 1 .. Len(sent) /\ DOMAIN sent' = 1 .. Len(sent') /\ Len(sent) \in Nat
         /\ Len(sent') \in Nat /\ Len(sent) <= Len(sent')
         /\ \A i \in DOMAIN sent : i \in DOMAIN sent' /\ sent'[i] = sent[i]
         /\ \A i \in DOMAIN sent' : ~(i <= Len(sent)) =>
              /\ \E n \in DOMAIN cmds : i = Len(sent) + n /\ sent'[i] = cmds[n] /\ n \in Nat /\ n > 0
              /\ sent'[i].ops # <<>> => i = Len(sent) + 1 /\ sent'[i].ops = all /\ buffer' = <<>>
         /\ \A n \in DOMAIN cmds :
              Len(sent) + n \in DOMAIN sent' /\ sent'[Len(sent) + n] = cmds[n] /\ n \in Nat /\ n > 0
         /\ cmds # <<>> => buffer' = <<>>
         /\ buffer' = all \/ buffer' = <<>>
         /\ all # <<>> => \/ buffer' = all /\ sent' = sent
                          \/ Len(sent) + 1 \in DOMAIN sent' /\ sent'[Len(sent) + 1].ops = all
<1>1. UNCHANGED <<finished, settled, docs, wal, rows, visible, slot, load, orphans, applied, kept>>
  BY DEF Flow, taskVars, accountVars, targetVars, sourceVars, loadVars, crashVars
<1>2. /\ cmds \in Seq(WellFormed) /\ sent' = sent \o cmds
      /\ \/ cmds = <<>> /\ buffer' = all
         \/ /\ buffer' = <<>>
            /\ all # <<>> => 1 \in DOMAIN cmds /\ cmds[1].ops = all
            /\ \A n \in DOMAIN cmds : cmds[n].ops # <<>> => n = 1 /\ cmds[n].ops = all
  BY DEF Flow, HandsOver
<1>3. /\ Len(sent) \in Nat /\ DOMAIN sent = 1 .. Len(sent)
      /\ Len(cmds) \in Nat /\ DOMAIN cmds = 1 .. Len(cmds)
      /\ Len(sent') = Len(sent) + Len(cmds) /\ DOMAIN sent' = 1 .. Len(sent')
      /\ \A i \in DOMAIN sent : i \in DOMAIN sent' /\ sent'[i] = sent[i]
      /\ \A n \in DOMAIN cmds : Len(sent) + n \in DOMAIN sent' /\ sent'[Len(sent) + n] = cmds[n]
      /\ \A i \in DOMAIN sent' : \/ i \in DOMAIN sent /\ sent'[i] = sent[i]
                                 \/ i - Len(sent) \in DOMAIN cmds /\ sent'[i] = cmds[i - Len(sent)]
  BY <1>2, SentGrows DEF PipelineInv
<1>4. cmds = <<>> => sent' = sent /\ DOMAIN cmds = {}
  BY <1>2 DEF PipelineInv, DeliveryInv
<1>5. ASSUME NEW i \in DOMAIN sent', ~(i <= Len(sent))
      PROVE  /\ \E n \in DOMAIN cmds : i = Len(sent) + n /\ sent'[i] = cmds[n] /\ n \in Nat /\ n > 0
             /\ sent'[i].ops # <<>> => i = Len(sent) + 1 /\ sent'[i].ops = all /\ buffer' = <<>>
  <2>1. PICK n : n = i - Len(sent)
    OBVIOUS
  <2>2. n \in DOMAIN cmds /\ sent'[i] = cmds[n] /\ i = Len(sent) + n /\ n \in Nat /\ n > 0
    BY <1>3, <1>5, <2>1
  <2> QED
    BY <1>2, <1>4, <2>2
<1>6. cmds # <<>> => buffer' = <<>>
  BY <1>2
<1>7. all # <<>> => \/ buffer' = all /\ sent' = sent
                    \/ Len(sent) + 1 \in DOMAIN sent' /\ sent'[Len(sent) + 1].ops = all
  BY <1>2, <1>3, <1>4
<1>8. Len(sent') \in Nat /\ Len(sent) <= Len(sent') /\ DOMAIN sent = 1 .. Len(sent)
      /\ DOMAIN sent' = 1 .. Len(sent') /\ Len(sent) \in Nat
  BY <1>3
<1>9. buffer' = all \/ buffer' = <<>>
  BY <1>2
<1>10. \A n \in DOMAIN cmds :
         Len(sent) + n \in DOMAIN sent' /\ sent'[Len(sent) + n] = cmds[n] /\ n \in Nat /\ n > 0
  BY <1>3
<1>11. \A i \in DOMAIN sent : i \in DOMAIN sent' /\ sent'[i] = sent[i]
  BY <1>3
<1> QED
  BY <1>1, <1>5, <1>6, <1>7, <1>8, <1>9, <1>10, <1>11, Zenon

\* What it does to what was handed over.
LEMMA FlowTraces ==
  ASSUME PipelineInv, ConvergeInv, NEW cmds, NEW all, Flow(cmds, all) PROVE TraceInv'
<1> USE DEF PipelineInv, ConvergeInv, TraceInv
<1>1. /\ UNCHANGED <<finished, settled, docs, wal, rows, visible, slot, load, orphans, applied, kept>>
      /\ DOMAIN sent = 1 .. Len(sent) /\ DOMAIN sent' = 1 .. Len(sent') /\ Len(sent) \in Nat
      /\ Len(sent') \in Nat /\ Len(sent) <= Len(sent')
      /\ \A i \in DOMAIN sent : i \in DOMAIN sent' /\ sent'[i] = sent[i]
      /\ \A i \in DOMAIN sent' : ~(i <= Len(sent)) =>
           /\ \E n \in DOMAIN cmds : i = Len(sent) + n /\ sent'[i] = cmds[n] /\ n \in Nat /\ n > 0
           /\ sent'[i].ops # <<>> => i = Len(sent) + 1 /\ sent'[i].ops = all /\ buffer' = <<>>
      /\ \A n \in DOMAIN cmds :
           Len(sent) + n \in DOMAIN sent' /\ sent'[Len(sent) + n] = cmds[n] /\ n \in Nat /\ n > 0
      /\ cmds # <<>> => buffer' = <<>>
      /\ buffer' = all \/ buffer' = <<>>
      /\ all # <<>> => \/ buffer' = all /\ sent' = sent
                       \/ Len(sent) + 1 \in DOMAIN sent' /\ sent'[Len(sent) + 1].ops = all
  BY FlowFacts
<1>2. /\ \A k \in DOMAIN wal : \A j \in DOMAIN wal[k] : Seen(k, j) => Seen(k, j)'
      /\ \A m \in DOMAIN buffer : IsIn(buffer[m], all)
      /\ \A n \in DOMAIN all : IsIn(all[n], buffer) \/ Fresh(all[n])
      /\ \A n \in DOMAIN cmds : cmds[n].kind = "truncate" => Tops(cmds[n], all)
      /\ \A k \in DOMAIN wal, id \in Ids : Removed(k, id)' =>
           \/ Removed(k, id) \/ RemOps(all, k, id)
           \/ \E n \in DOMAIN cmds : cmds[n].kind = "truncate" /\ cmds[n].pos = Ver(k)
  BY DEF Flow
<1>3. \A op : TakenTrue(op) => TakenTrue(op)'
  <2>1. \A op : CopyTrue(op)' <=> CopyTrue(op)
    BY <1>1, SourceSame
  <2> QED
    BY <1>1, <1>2, <2>1 DEF TakenTrue, Makes
<1>4. \A n \in DOMAIN all : TakenTrue(all[n])'
  BY <1>2, <1>3 DEF HandedTrue, IsIn, Fresh
<1>5. \A i \in DOMAIN sent' : \A m \in DOMAIN sent'[i].ops :
        (i \in DOMAIN sent /\ sent'[i] = sent[i]) \/ (i = Len(sent) + 1 /\ sent'[i].ops = all /\ buffer' = <<>>)
  BY <1>1
<1>6. HandedTrue'
  <2>1. \A m \in DOMAIN buffer' : \A op : op = buffer'[m] => TakenTrue(op)'
    BY <1>1, <1>4
  <2>2. \A i \in DOMAIN sent' : \A m \in DOMAIN sent'[i].ops :
          \A op : op = sent'[i].ops[m] => TakenTrue(op)'
    BY <1>3, <1>4, <1>5 DEF HandedTrue
  <2>3. ASSUME NEW i \in DOMAIN sent', sent'[i].kind = "truncate"
        PROVE  \E k \in DOMAIN wal : \E j \in DOMAIN wal[k] :
                 Seen(k, j)' /\ wal[k][j].kind = "truncate" /\ sent'[i].pos = Ver(k)
    <3>1. CASE i <= Len(sent)
      <4>1. i \in DOMAIN sent /\ sent'[i] = sent[i]
        BY <1>1, <3>1
      <4>2. \E k \in DOMAIN wal : \E j \in DOMAIN wal[k] :
              Seen(k, j) /\ wal[k][j].kind = "truncate" /\ sent[i].pos = Ver(k)
        BY <2>3, <4>1 DEF HandedTrue
      <4> QED
        BY <1>2, <4>1, <4>2
    <3>2. CASE ~(i <= Len(sent))
      BY <1>1, <1>2, <2>3, <3>2 DEF Tops
    <3> QED
      BY <3>1, <3>2
  <2> QED
    BY <1>1, <2>1, <2>2, <2>3 DEF HandedTrue
<1>7. OrderOK'
  <2> SUFFICES ASSUME NEW k \in DOMAIN wal, NEW id \in Ids, Removed(k, id)'
               PROVE  /\ LiveIn(buffer', id) => RemOps(buffer', k, id)
                      /\ \A i \in DOMAIN sent' : LiveIn(sent'[i].ops, id) =>
                           RemOps(buffer', k, id) \/ \E x \in i .. Len(sent') : RemAt(x, k, id)'
    BY <1>1 DEF OrderOK
  <2>1. LiveIn(all, id) => LiveIn(buffer, id)
    BY <1>2 DEF LiveIn, IsIn, Fresh
  <2>2. RemOps(buffer, k, id) => RemOps(all, k, id)
    BY <1>2 DEF RemOps, IsIn
  <2>3. \A x \in DOMAIN sent : RemAt(x, k, id) => RemAt(x, k, id)'
    BY <1>1 DEF RemAt
  <2>0. PICK z : z = Len(sent) + 1
    OBVIOUS
  <2>4. RemOps(all, k, id) => RemOps(buffer', k, id) \/ (z \in DOMAIN sent' /\ RemAt(z, k, id)')
    <3> SUFFICES ASSUME RemOps(all, k, id)
                 PROVE  RemOps(buffer', k, id) \/ (z \in DOMAIN sent' /\ RemAt(z, k, id)')
      OBVIOUS
    <3>1. all # <<>>
      BY DEF RemOps
    <3>2. z \in DOMAIN sent' /\ sent'[z].ops = all => RemAt(z, k, id)'
      BY DEF RemAt, RemOps
    <3> QED
      BY <1>1, <2>0, <3>1, <3>2
  <2>5. \A i \in DOMAIN sent' : LiveIn(sent'[i].ops, id) =>
          (i \in DOMAIN sent /\ LiveIn(sent[i].ops, id)) \/
          (i = Len(sent) + 1 /\ LiveIn(all, id) /\ buffer' = <<>>)
    BY <1>5 DEF LiveIn
  <2>6. CASE RemOps(all, k, id)
    <3>1. LiveIn(buffer', id) => RemOps(buffer', k, id)
      BY <1>1, <2>6 DEF LiveIn
    <3>2. ASSUME NEW i \in DOMAIN sent', LiveIn(sent'[i].ops, id)
          PROVE  RemOps(buffer', k, id) \/ \E x \in i .. Len(sent') : RemAt(x, k, id)'
      <4>1. i <= Len(sent) + 1 /\ i \in Nat
        BY <1>1, <2>5, <3>2
      <4>2. CASE z \in DOMAIN sent' /\ RemAt(z, k, id)'
        <5>1. z \in i .. Len(sent')
          BY <1>1, <2>0, <4>1, <4>2
        <5> QED
          BY <4>2, <5>1
      <4> QED
        BY <2>4, <2>6, <4>2
    <3> QED
      BY <3>1, <3>2
  <2>7. ASSUME NEW n \in DOMAIN cmds, cmds[n].kind = "truncate", cmds[n].pos = Ver(k)
        PROVE  /\ ~LiveIn(buffer', id)
               /\ \A i \in DOMAIN sent' : LiveIn(sent'[i].ops, id) =>
                    \E x \in i .. Len(sent') : RemAt(x, k, id)'
    <3>1. PICK x : x = Len(sent) + n
      OBVIOUS
    <3>2. x \in DOMAIN sent' /\ sent'[x] = cmds[n] /\ n \in Nat /\ n > 0
      BY <1>1, <3>1
    <3>3. RemAt(x, k, id)'
      BY <1>1, <2>7, <3>2 DEF RemAt
    <3>4. buffer' = <<>>
      BY <1>1, <2>7
    <3>5. ASSUME NEW i \in DOMAIN sent', LiveIn(sent'[i].ops, id) PROVE x \in i .. Len(sent')
      BY <1>1, <2>5, <3>1, <3>2, <3>5
    <3> QED
      BY <3>3, <3>4, <3>5 DEF LiveIn
  <2>8. CASE Removed(k, id) /\ ~RemOps(all, k, id)
    <3>1. ~RemOps(buffer, k, id) /\ ~LiveIn(buffer, id) /\ ~LiveIn(all, id)
      BY <2>1, <2>2, <2>8 DEF OrderOK
    <3>2. ~LiveIn(buffer', id)
      BY <1>1, <3>1 DEF LiveIn
    <3>3. ASSUME NEW i \in DOMAIN sent', LiveIn(sent'[i].ops, id)
          PROVE  \E x \in i .. Len(sent') : RemAt(x, k, id)'
      <4>1. i \in DOMAIN sent /\ LiveIn(sent[i].ops, id)
        BY <2>5, <3>1, <3>3
      <4>2. PICK x \in i .. Len(sent) : RemAt(x, k, id)
        BY <2>8, <3>1, <4>1 DEF OrderOK
      <4>3. x \in DOMAIN sent /\ x \in i .. Len(sent')
        BY <1>1, <4>1, <4>2
      <4> QED
        BY <2>3, <4>2, <4>3
    <3> QED
      BY <3>2, <3>3
  <2> QED
    BY <1>2, <2>6, <2>7, <2>8
<1>8. BehindPositions'
  <2>1. ASSUME NEW p \in DOMAIN sent, CarriesPosition(sent[p]) PROVE NewerThan(all, sent[p].pos)
    <3> SUFFICES ASSUME NEW n \in DOMAIN all, NEW k \in Nat, all[n].ver = Ver(k) PROVE Ver(k) > sent[p].pos
      BY DEF NewerThan
    <3>1. CASE IsIn(all[n], buffer)
      BY <2>1, <3>1 DEF BehindPositions, NewerThan, IsIn
    <3>2. CASE Fresh(all[n])
      <4>1. k = cur.txn /\ sent[p].pos \in Nat /\ sent[p].pos <= End(cur.txn - 1)
        BY <2>1, <3>2, SentType DEF Fresh, BufferOK
      <4> QED
        BY <4>1, StreamFacts DEF Ver, End
    <3> QED
      BY <1>2, <3>1, <3>2
  <2>2. ASSUME NEW p \in DOMAIN sent', CarriesPosition(sent'[p])
        PROVE  /\ NewerThan(buffer', sent'[p].pos)
               /\ \A i \in p + 1 .. Len(sent') : NewerThan(sent'[i].ops, sent'[p].pos)
    <3>1. CASE p \in DOMAIN sent
      <4>1. NewerThan(buffer', sent'[p].pos)
        BY <1>1, <2>1, <2>2, <3>1 DEF NewerThan
      <4>2. ASSUME NEW i \in p + 1 .. Len(sent') PROVE NewerThan(sent'[i].ops, sent'[p].pos)
        <5>1. i \in DOMAIN sent'
          BY <1>1, <3>1
        <5>2. CASE i <= Len(sent)
          <6>1. i \in DOMAIN sent /\ i \in p + 1 .. Len(sent)
            BY <1>1, <3>1, <5>2
          <6> QED
            BY <1>1, <2>2, <3>1, <6>1 DEF BehindPositions
        <5>3. CASE ~(i <= Len(sent))
          BY <1>1, <2>1, <2>2, <3>1, <5>1, <5>3 DEF NewerThan
        <5> QED
          BY <5>2, <5>3
      <4> QED
        BY <4>1, <4>2
    <3>2. CASE p \notin DOMAIN sent
      <4>1. p >= Len(sent) + 1 /\ cmds # <<>>
        BY <1>1, <3>2
      <4>2. buffer' = <<>>
        BY <1>1, <4>1
      <4>3. ASSUME NEW i \in p + 1 .. Len(sent') PROVE sent'[i].ops = <<>>
        <5>1. i \in DOMAIN sent' /\ ~(i <= Len(sent)) /\ i # Len(sent) + 1
          BY <1>1, <4>1
        <5> QED
          BY <1>1, <5>1
      <4> QED
        BY <4>2, <4>3 DEF NewerThan
    <3> QED
      BY <3>1, <3>2
  <2> QED
    BY <2>2 DEF BehindPositions, CarriesPosition
<1>9. TruncatesOrder'
  <2> SUFFICES ASSUME NEW x \in DOMAIN sent', sent'[x].kind = "truncate",
                      NEW i \in 1 .. x - 1, NEW m \in DOMAIN sent'[i].ops, NEW k \in Nat,
                      sent'[i].ops[m].ver = Ver(k)
               PROVE  Ver(k) < sent'[x].pos
    BY DEF TruncatesOrder
  <2>1. i \in DOMAIN sent'
    BY <1>1
  <2>2. CASE x \in DOMAIN sent
    <3>1. i \in DOMAIN sent /\ sent'[i] = sent[i] /\ sent'[x] = sent[x]
      BY <1>1, <2>2
    <3> QED
      BY <2>2, <3>1 DEF TruncatesOrder
  <2>3. CASE x \notin DOMAIN sent
    <3>1. PICK n \in DOMAIN cmds : sent'[x] = cmds[n]
      BY <1>1, <2>3
    <3>2. Tops(sent'[x], all)
      BY <1>2, <3>1
    <3> QED
      BY <1>5, <2>1, <3>2 DEF Tops
  <2> QED
    BY <2>2, <2>3
<1> QED
  BY <1>6, <1>7, <1>8, <1>9

\* What it leaves for the target to be given.
LEMMA FlowTargets ==
  ASSUME PipelineInv, ConvergeInv, NEW cmds, NEW all, Flow(cmds, all)
  PROVE  RowsOK' /\ TargetInv' /\ SlotClean' /\ SettledInWindow' /\ NoAttempts'
<1> USE DEF PipelineInv, ConvergeInv, TargetInv
<1>1. /\ UNCHANGED <<finished, settled, docs, wal, rows, visible, slot, load, orphans, applied, kept>>
      /\ DOMAIN sent = 1 .. Len(sent) /\ DOMAIN sent' = 1 .. Len(sent') /\ Len(sent) \in Nat
      /\ Len(sent') \in Nat /\ Len(sent) <= Len(sent')
      /\ \A i \in DOMAIN sent : i \in DOMAIN sent' /\ sent'[i] = sent[i]
      /\ \A i \in DOMAIN sent' : ~(i <= Len(sent)) =>
           /\ \E n \in DOMAIN cmds : i = Len(sent) + n /\ sent'[i] = cmds[n] /\ n \in Nat /\ n > 0
           /\ sent'[i].ops # <<>> => i = Len(sent) + 1 /\ sent'[i].ops = all /\ buffer' = <<>>
      /\ \A n \in DOMAIN cmds :
           Len(sent) + n \in DOMAIN sent' /\ sent'[Len(sent) + n] = cmds[n] /\ n \in Nat /\ n > 0
      /\ cmds # <<>> => buffer' = <<>>
      /\ buffer' = all \/ buffer' = <<>>
      /\ all # <<>> => \/ buffer' = all /\ sent' = sent
                       \/ Len(sent) + 1 \in DOMAIN sent' /\ sent'[Len(sent) + 1].ops = all
  BY FlowFacts
<1>2. /\ cur'.txn \in Nat /\ cur.txn <= cur'.txn
      /\ \A m \in DOMAIN buffer : IsIn(buffer[m], all)
      /\ \A n \in DOMAIN all : IsIn(all[n], buffer) \/ Fresh(all[n])
      /\ \A k \in DOMAIN wal, id \in Ids : Removed(k, id)' =>
           \/ Removed(k, id) \/ RemOps(all, k, id)
           \/ \E n \in DOMAIN cmds : cmds[n].kind = "truncate" /\ cmds[n].pos = Ver(k)
  BY DEF Flow
<1>3. finished \in Nat /\ finished <= Len(sent) /\ \A s \in settled : s[1] \in DOMAIN sent
  BY DEF DeliveryInv, DeliveryTypeOK, CrashOK
<1>4. OpsSettled' = OpsSettled
  BY <1>1, <1>3 DEF OpsSettled
<1>5. RowsOK' /\ DocsTrue' /\ LeftTrue'
  BY <1>1, SourceSame DEF DocsTrue, LeftTrue
<1>6. UpsertStays'
  BY <1>1, <1>4, SourceSame DEF UpsertStays
<1>7. NoAttempts'
  BY <1>1 DEF NoAttempts
<1>8. SettledInWindow'
  <2>1. ASSUME NEW x \in Window PROVE x \in Window'
    <3>1. /\ x \in DOMAIN sent /\ finished < x /\ x <= finished + Concurrency
          /\ \A j \in finished + 1 .. x : IsWrite(j)
      BY DEF Window
    <3>2. \A j \in finished + 1 .. x : IsWrite(j)'
      BY <1>1, <1>3, <3>1 DEF IsWrite
    <3> QED
      BY <1>1, <3>1, <3>2 DEF Window
  <2> QED
    BY <1>1, <2>1 DEF SettledInWindow
<1>9. SlotClean'
  <2> SUFFICES ASSUME NEW k \in DOMAIN wal, End(k) <= slot, ~(End(k) <= kept)
               PROVE  /\ k < cur'.txn
                      /\ \A m \in DOMAIN buffer' : buffer'[m].ver # Ver(k)
                      /\ \A i \in DOMAIN sent' : \A m \in DOMAIN sent'[i].ops :
                           sent'[i].ops[m].ver = Ver(k) => <<i, m>> \in settled
    BY <1>1 DEF SlotClean
  <2>1. /\ k < cur.txn /\ k \in Nat /\ cur.txn \in Nat
        /\ \A m \in DOMAIN buffer : buffer[m].ver # Ver(k)
        /\ \A i \in DOMAIN sent : \A m \in DOMAIN sent[i].ops :
             sent[i].ops[m].ver = Ver(k) => <<i, m>> \in settled
    BY StreamFacts DEF SlotClean
  <2>2. \A n \in DOMAIN all : all[n].ver # Ver(k)
    <3> SUFFICES ASSUME NEW n \in DOMAIN all, all[n].ver = Ver(k) PROVE FALSE
      OBVIOUS
    <3>1. CASE IsIn(all[n], buffer)
      BY <2>1, <3>1 DEF IsIn
    <3>2. CASE Fresh(all[n])
      BY <2>1, <3>2 DEF Fresh
    <3> QED
      BY <1>2, <3>1, <3>2
  <2>3. k < cur'.txn
    BY <1>2, <2>1
  <2>4. \A m \in DOMAIN buffer' : buffer'[m].ver # Ver(k)
    BY <1>1, <2>2
  <2>5. ASSUME NEW i \in DOMAIN sent', NEW m \in DOMAIN sent'[i].ops, sent'[i].ops[m].ver = Ver(k)
        PROVE  <<i, m>> \in settled
    <3>1. i \in DOMAIN sent /\ sent'[i] = sent[i]
      BY <1>1, <2>2, <2>5
    <3> QED
      BY <2>1, <2>5, <3>1
  <2> QED
    BY <2>3, <2>4, <2>5
<1>10. RemovedStays'
  <2> SUFFICES ASSUME NEW k \in DOMAIN wal, NEW id \in Ids, Removed(k, id)'
               PROVE  Pend(k, id)' \/ Tomb(k, id)' \/ Clean(id)'
    BY <1>1 DEF RemovedStays
  <2>1. PICK z : z = Len(sent) + 1
    OBVIOUS
  <2>2. \A m : <<z, m>> \notin settled
    BY <1>1, <1>3, <2>1
  <2>3. RemOps(all, k, id) => Pend(k, id)'
    <3> SUFFICES ASSUME RemOps(all, k, id) PROVE Pend(k, id)'
      OBVIOUS
    <3>1. all # <<>>
      BY DEF RemOps
    <3>2. CASE buffer' = all
      BY <3>2 DEF Pend, RemOps
    <3>3. CASE z \in DOMAIN sent' /\ sent'[z].ops = all
      <4>1. PendAt(z, k, id)'
        BY <1>1, <2>2, <3>3 DEF PendAt, RemOps
      <4> QED
        BY <3>3, <4>1 DEF Pend
    <3> QED
      BY <1>1, <2>1, <3>1, <3>2, <3>3
  <2>4. ASSUME NEW n \in DOMAIN cmds, cmds[n].kind = "truncate", cmds[n].pos = Ver(k) PROVE Pend(k, id)'
    <3>1. PICK x : x = Len(sent) + n
      OBVIOUS
    <3>2. x \in DOMAIN sent' /\ sent'[x] = cmds[n] /\ x > finished
      BY <1>1, <1>3, <3>1
    <3>3. PendAt(x, k, id)'
      BY <1>1, <2>4, <3>2 DEF PendAt
    <3> QED
      BY <3>2, <3>3 DEF Pend
  <2>5. CASE Removed(k, id) /\ Pend(k, id)
    <3>1. CASE RemOps(buffer, k, id)
      <4>1. RemOps(all, k, id)
        BY <1>2, <3>1 DEF RemOps, IsIn
      <4> QED
        BY <2>3, <4>1
    <3>2. ASSUME NEW x \in DOMAIN sent, PendAt(x, k, id) PROVE Pend(k, id)'
      <4>1. x \in DOMAIN sent' /\ PendAt(x, k, id)'
        BY <1>1, <3>2 DEF PendAt
      <4> QED
        BY <4>1 DEF Pend
    <3> QED
      BY <2>5, <3>1, <3>2 DEF Pend
  <2>6. CASE Tomb(k, id)
    BY <1>1, <2>6 DEF Tomb
  <2>7. CASE Clean(id)
    <3>1. ~LiveIn(all, id)
      BY <1>2, <2>7 DEF Clean, LiveIn, IsIn, Fresh
    <3>2. ~LiveIn(buffer', id)
      BY <1>1, <3>1 DEF LiveIn
    <3>3. ASSUME NEW i \in DOMAIN sent', LiveIn(sent'[i].ops, id) PROVE ~Unanswered(i)'
      <4>1. i \in DOMAIN sent /\ sent'[i] = sent[i]
        BY <1>1, <3>1, <3>3 DEF LiveIn
      <4>2. ~Unanswered(i)
        BY <2>7, <3>3, <4>1 DEF Clean
      <4> QED
        BY <1>1, <4>1, <4>2 DEF Unanswered, Positions
    <3> QED
      BY <1>1, <2>7, <3>2, <3>3 DEF Clean
  <2> QED
    BY <1>2, <2>3, <2>4, <2>5, <2>6, <2>7 DEF RemovedStays
<1> QED
  BY <1>5, <1>6, <1>7, <1>8, <1>9, <1>10

\* An engine step converges if the windows still cover what is being copied.
LEMMA FlowConverges ==
  ASSUME PipelineInv, ConvergeInv, NEW cmds, NEW all, Flow(cmds, all), CopiesTrue', WindowsCover'
  PROVE  ConvergeInv'
BY FlowTraces, FlowTargets DEF ConvergeInv

\* The handlers: a row.
LEMMA RowFlows ==
  ASSUME PipelineInv, NEW op \in Op, HandleRow(op),
         NEW all, all = IF Dead(op) THEN buffer ELSE Append(buffer, op)
  PROVE  \E cmds : HandsOver(cmds, all) /\ \A n \in DOMAIN cmds : cmds[n].kind # "truncate"
<1> USE DEF PipelineInv
<1>1. PICK full \in BOOLEAN : full <=> Len(all) >= BatchSize
  OBVIOUS
<1>2. /\ buffer' = IF full THEN <<>> ELSE all
      /\ sent' = sent \o (IF full THEN <<Batch(all, 0)>> ELSE <<>>)
  BY <1>1 DEF HandleRow, Hand
<1>3. all \in Seq(Op)
  BY DEF BufferOK
<1>4. CASE full
  <2>1. PICK c : c = Batch(all, 0)
    OBVIOUS
  <2>2. c \in WellFormed /\ c.ops = all /\ c.kind = "write"
    BY <1>3, <2>1 DEF Batch, WellFormed, Command
  <2>3. PICK cmds : cmds = <<c>>
    OBVIOUS
  <2>4. cmds \in Seq(WellFormed) /\ DOMAIN cmds = {1} /\ cmds[1] = c
    BY <2>2, <2>3, OneOf
  <2>5. buffer' = <<>> /\ sent' = sent \o cmds
    BY <1>2, <1>4, <2>1, <2>3
  <2> QED
    BY <2>2, <2>4, <2>5 DEF HandsOver
<1>5. CASE ~full
  <2>1. PICK cmds : cmds = <<>>
    OBVIOUS
  <2>2. cmds \in Seq(WellFormed) /\ DOMAIN cmds = {} /\ buffer' = all /\ sent' = sent \o cmds
    BY <1>2, <1>5, <2>1
  <2> QED
    BY <2>1, <2>2 DEF HandsOver
<1> QED
  BY <1>4, <1>5

\* What goes out with the whole buffer, and what behind it.
Parts(cmds, d, back) ==
  /\ HandsOver(cmds, buffer)
  /\ \A n \in DOMAIN cmds : cmds[n].kind = "truncate" => cmds[n] = d
  /\ back = <<d>> => \E n \in DOMAIN cmds : cmds[n] = d

\* One command for the buffer, if it holds anything, and one behind it.
LEMMA PartsFlow ==
  ASSUME PipelineInv, NEW c \in WellFormed, NEW d \in WellFormed,
         NEW front, front \in {<<>>, <<c>>}, NEW back, back \in {<<>>, <<d>>}, NEW cmds, cmds = front \o back,
         sent' = sent \o cmds, buffer' = <<>>,
         c.ops = buffer, c.kind # "truncate", buffer # <<>> => front = <<c>>, d.kind # "write"
  PROVE  Parts(cmds, d, back)
<1>1. cmds = front \o back
  OBVIOUS
<1>2. /\ cmds \in Seq(WellFormed)
      /\ \A n \in DOMAIN cmds : \/ n = 1 /\ front = <<c>> /\ cmds[n] = c
                                \/ n = Len(cmds) /\ back = <<d>> /\ cmds[n] = d
      /\ front = <<c>> => cmds # <<>> /\ 1 \in DOMAIN cmds /\ cmds[1] = c
  BY <1>1, TwoParts
<1>3. d.ops = <<>>
  BY DEF WellFormed
<1>4. \A n \in DOMAIN cmds : cmds[n].ops # <<>> => n = 1 /\ cmds[n].ops = buffer
  BY <1>2, <1>3
<1>5. back = <<d>> => \E n \in DOMAIN cmds : cmds[n] = d
  <2> SUFFICES ASSUME back = <<d>> PROVE \E n \in DOMAIN cmds : cmds[n] = d
    OBVIOUS
  <2>1. CASE front = <<>>
    <3>1. cmds = <<d>>
      BY <1>1, <2>1
    <3>2. 1 \in DOMAIN cmds /\ cmds[1] = d
      BY <3>1, OneOf
    <3> QED
      BY <3>2
  <2>2. CASE front = <<c>>
    <3>1. cmds = <<c>> \o <<d>>
      BY <1>1, <2>2
    <3>2. 2 \in DOMAIN cmds /\ cmds[2] = d
      BY <3>1, TwoOf
    <3> QED
      BY <3>2
  <2> QED
    BY <2>1, <2>2
<1>6. HandsOver(cmds, buffer)
  BY <1>1, <1>2, <1>4 DEF HandsOver
<1> QED
  BY <1>2, <1>5, <1>6 DEF Parts

\* A barrier behind what is buffered.
LEMMA BarrierFlows ==
  ASSUME PipelineInv, NEW d \in WellFormed, d.kind # "write",
         sent' = sent \o (Flushed \o <<d>>), buffer' = <<>>
  PROVE  \E cmds : /\ HandsOver(cmds, buffer)
                   /\ \A n \in DOMAIN cmds : cmds[n].kind = "truncate" => cmds[n] = d
                   /\ \E n \in DOMAIN cmds : cmds[n] = d
<1>1. PICK c : c = Batch(buffer, bufferPos)
  OBVIOUS
<1>2. /\ c \in WellFormed /\ c.kind = "write" /\ c.ops = buffer
      /\ Flushed \in {<<>>, <<c>>} /\ (buffer # <<>> => Flushed = <<c>>)
  BY <1>1, FlushedIs
<1>3. PICK front : front = Flushed
  OBVIOUS
<1>4. PICK back : back = <<d>>
  OBVIOUS
<1>5. PICK cmds : cmds = front \o back
  OBVIOUS
<1>6. /\ c \in WellFormed /\ front \in {<<>>, <<c>>} /\ back \in {<<>>, <<d>>}
      /\ sent' = sent \o cmds /\ c.ops = buffer /\ c.kind # "truncate" /\ (buffer # <<>> => front = <<c>>)
  BY <1>2, <1>3, <1>4, <1>5
<1>7. Parts(cmds, d, back)
  BY <1>5, <1>6, PartsFlow, Zenon
<1> QED
  BY <1>4, <1>7 DEF Parts

\* A COMMIT, a keepalive or a boundary.
LEMMA CommitFlows ==
  ASSUME PipelineInv, NEW pos \in Nat, HandleCommit(pos)
  PROVE  \E cmds : HandsOver(cmds, buffer) /\ \A n \in DOMAIN cmds : cmds[n].kind # "truncate"
<1> USE DEF PipelineInv
<1>1. CASE HoldCommit(pos)
  <2>1. PICK cmds : cmds = <<>>
    OBVIOUS
  <2>2. cmds \in Seq(WellFormed) /\ DOMAIN cmds = {} /\ buffer' = buffer /\ sent' = sent \o cmds
    BY <1>1, <2>1 DEF HoldCommit, Hand
  <2> QED
    BY <2>1, <2>2 DEF HandsOver
<1>2. CASE FlushCommit(pos)
  <2> DEFINE c == IF buffer # <<>> THEN Batch(buffer, Stamp(pos)) ELSE Position(pos)
             d == Mark(pendingMark)
             e == IF pendingMark > 0 THEN d ELSE Position(0)
             front == IF buffer # <<>> THEN <<Batch(buffer, Stamp(pos))>>
                      ELSE IF pos > 0 THEN <<Position(pos)>>
                      ELSE <<>>
             back == IF StaysOpen(pos) \/ pendingMark = 0 THEN <<>> ELSE <<Mark(pendingMark)>>
  <2>1. sent' = sent \o (front \o back) /\ buffer' = <<>>
    BY <1>2 DEF FlushCommit, Hand
  <2>2. bufferPos \in Nat /\ buffer \in Seq(Op) /\ pendingMark \in Nat /\ Stamp(pos) \in Nat
    BY DEF BufferOK, MarksOK, Stamp
  <2>3. c \in WellFormed /\ c.ops = buffer /\ c.kind # "truncate"
    BY <2>2 DEF Batch, Position, WellFormed, Command
  <2>4. front \in {<<>>, <<c>>} /\ (buffer # <<>> => front = <<c>>)
    OBVIOUS
  <2>5. e \in WellFormed /\ e.kind # "write" /\ e.kind # "truncate"
    BY <2>2 DEF Mark, Position, WellFormed, Command
  <2>6. back \in {<<>>, <<e>>}
    BY <2>2
  <2> HIDE DEF PipelineInv, c, d, e, front, back
  <2>7. PICK cmds : cmds = front \o back
    OBVIOUS
  <2>8. sent' = sent \o cmds /\ buffer' = <<>>
    BY <2>1, <2>7
  <2>9. Parts(cmds, e, back)
    BY <2>3, <2>4, <2>5, <2>6, <2>7, <2>8, PartsFlow, Zenon
  <2> QED
    BY <2>5, <2>9 DEF Parts
<1> QED
  BY <1>1, <1>2 DEF HandleCommit

-----------------------------------------------------------------------------
(* What is being copied, and the windows.                                  *)

\* The events left when the first is taken.
LEMMA TailOf ==
  ASSUME NEW S, NEW s \in Seq(S), s # <<>>
  PROVE  /\ Len(Tail(s)) = Len(s) - 1 /\ DOMAIN Tail(s) = 1 .. Len(s) - 1
         /\ \A x \in DOMAIN Tail(s) : Tail(s)[x] = s[x + 1]
OBVIOUS

\* What is being copied was, and is true.
LEMMA CopiesKept ==
  ASSUME PipelineInv, ConvergeInv, UNCHANGED <<taskVars, sourceVars, loadVars, crashVars>>,
         copyq' = copyq \/ (copyq # <<>> /\ copyq' = Tail(copyq)),
         loadRunning' = loadRunning \/ (load.pc = "done" /\ copyq' = <<>>)
  PROVE  CopiesTrue' /\ \A id, ver : Copying(id, ver)' => Copying(id, ver)
<1> USE DEF PipelineInv, ConvergeInv
<1>1. UNCHANGED <<wal, rows, visible, load>>
  BY DEF sourceVars, loadVars
<1>2. copyq \in Seq(CopyEvents) /\ Len(copyq) \in Nat /\ DOMAIN copyq = 1 .. Len(copyq)
  BY DEF LoadOK
<1>3. ASSUME NEW x \in DOMAIN copyq'
      PROVE  \E y \in DOMAIN copyq : copyq'[x] = copyq[y] /\ (y = Len(copyq) => x = Len(copyq'))
  <2>1. CASE copyq' = copyq
    BY <1>3, <2>1
  <2>2. CASE copyq # <<>> /\ copyq' = Tail(copyq)
    <3>1. /\ Len(copyq') = Len(copyq) - 1 /\ DOMAIN copyq' = 1 .. Len(copyq) - 1
          /\ \A y \in DOMAIN copyq' : copyq'[y] = copyq[y + 1]
      BY <1>2, <2>2, TailOf
    <3>2. x + 1 \in DOMAIN copyq /\ copyq'[x] = copyq[x + 1] /\ (x + 1 = Len(copyq) => x = Len(copyq'))
      BY <1>2, <1>3, <3>1
    <3> QED
      BY <3>2
  <2> QED
    BY <2>1, <2>2
<1>4. \A op : CopyTrue(op)' <=> CopyTrue(op)
  BY <1>1, SourceSame
<1>5. \A x \in DOMAIN copyq' : \A op : copyq'[x].ev = "row" /\ op = copyq'[x].op => CopyTrue(op)'
  BY <1>3, <1>4 DEF CopiesTrue
<1>6. \A x \in DOMAIN copyq' : copyq'[x].ev = "finished" => x = Len(copyq') /\ load.pc = "done"
  BY <1>3 DEF CopiesTrue
<1>7. ~loadRunning' => load.pc = "done" /\ copyq' = <<>>
  BY DEF CopiesTrue
<1>8. CopiesTrue'
  BY <1>1, <1>5, <1>6, <1>7 DEF CopiesTrue
<1>9. ASSUME NEW id, NEW ver, Copying(id, ver)' PROVE Copying(id, ver)
  BY <1>1, <1>3, <1>9 DEF Copying
<1> QED
  BY <1>8, <1>9

\* The windows still cover it if they only grow, and take in what was just removed.
LEMMA WindowsKept ==
  ASSUME PipelineInv, ConvergeInv, UNCHANGED <<taskVars, sourceVars, loadVars, crashVars>>,
         copyq' = copyq \/ (copyq # <<>> /\ copyq' = Tail(copyq)), loadRunning' = loadRunning,
         cleared' \in Nat, cleared' >= cleared,
         \A id \in Ids : superseded'[id] \in Nat /\ superseded'[id] >= superseded[id],
         \A k \in DOMAIN wal : \A j \in DOMAIN wal[k] : loadRunning /\ Seen(k, j)' =>
           \/ Seen(k, j)
           \/ /\ wal[k][j].kind = "truncate" => cleared' >= Ver(k)
              /\ \A id \in Ids : wal[k][j].kind = "delete" /\ wal[k][j].id = id => superseded'[id] >= Ver(k)
  PROVE  CopiesTrue' /\ WindowsCover'
<1>1. CopiesTrue' /\ \A id, ver : Copying(id, ver)' => Copying(id, ver)
  BY CopiesKept
<1> USE DEF PipelineInv, ConvergeInv
<1>2. wal' = wal
  BY DEF sourceVars
<1>3. WindowsCover'
  <2> SUFFICES ASSUME NEW id \in Ids, NEW ver \in Nat, Copying(id, ver)
               PROVE  /\ loadRunning
                      /\ \A k \in DOMAIN wal : \A j \in DOMAIN wal[k] : Seen(k, j)' /\ Ver(k) > ver =>
                           /\ wal[k][j].kind = "truncate" => cleared' >= Ver(k)
                           /\ wal[k][j].kind = "delete" /\ wal[k][j].id = id => superseded'[id] >= Ver(k)
    BY <1>1, <1>2 DEF WindowsCover
  <2>1. loadRunning
    BY DEF WindowsCover
  <2>2. ASSUME NEW k \in DOMAIN wal, NEW j \in DOMAIN wal[k], Seen(k, j), Ver(k) > ver
        PROVE  /\ wal[k][j].kind = "truncate" => cleared' >= Ver(k)
               /\ wal[k][j].kind = "delete" /\ wal[k][j].id = id => superseded'[id] >= Ver(k)
    <3>1. /\ wal[k][j].kind = "truncate" => cleared >= Ver(k)
          /\ wal[k][j].kind = "delete" /\ wal[k][j].id = id => superseded[id] >= Ver(k)
      BY <2>2 DEF WindowsCover
    <3>2. cleared \in Nat /\ superseded[id] \in Nat /\ Ver(k) \in Nat
      BY WalFacts DEF WindowsOK, Ver
    <3> QED
      BY <3>1, <3>2
  <2> QED
    BY <2>1, <2>2
<1> QED
  BY <1>1, <1>3

-----------------------------------------------------------------------------
(* The engine's steps.                                                     *)

\* A removal is taken when its change is.
LEMMA RemovedBefore ==
  ASSUME UNCHANGED <<wal, rows>>, NEW k, NEW id, Removed(k, id)',
         \A j \in DOMAIN wal[k] : Removes(wal[k][j], id) /\ Seen(k, j)' => Seen(k, j)
  PROVE  Removed(k, id)
<1>1. (LastAt(k, id)' <=> LastAt(k, id)) /\ Final(id)' = Final(id)
  BY SourceSame
<1> QED
  BY <1>1 DEF Removed

\* Commands without a truncate, and no change taken.
LEMMA FrameFlows ==
  ASSUME PipelineInv, UNCHANGED <<taskVars, sourceVars, loadVars, crashVars>>,
         cur'.txn \in Nat, cur.txn <= cur'.txn,
         \A k \in DOMAIN wal : \A j \in DOMAIN wal[k] : Seen(k, j)' <=> Seen(k, j),
         NEW cmds, HandsOver(cmds, buffer), \A n \in DOMAIN cmds : cmds[n].kind # "truncate"
  PROVE  Flow(cmds, buffer)
<1>1. UNCHANGED <<wal, rows>>
  BY DEF sourceVars
<1>2. \A k \in DOMAIN wal, id \in Ids : Removed(k, id)' => Removed(k, id)
  BY <1>1, RemovedBefore
<1>3. \A m \in DOMAIN buffer : IsIn(buffer[m], buffer)
  BY DEF IsIn
<1> QED
  BY <1>2, <1>3 DEF Flow

\* With nothing left on the channel and no range being read, nothing is copied.
LEMMA NothingCopied ==
  ASSUME PipelineInv, ConvergeInv, UNCHANGED <<taskVars, sourceVars, loadVars, crashVars>>,
         copyq # <<>>, copyq' = Tail(copyq), copyq' = <<>>, load.pc # "read",
         loadRunning' = loadRunning \/ load.pc = "done"
  PROVE  CopiesTrue' /\ WindowsCover'
<1>1. CopiesTrue'
  BY CopiesKept
<1>2. load' = load
  BY DEF loadVars
<1>3. \A id, ver : ~Copying(id, ver)'
  BY <1>2 DEF Copying
<1> QED
  BY <1>1, <1>3 DEF WindowsCover

\* The windows stay when nothing more is known and nothing forgotten.
LEMMA FrameConverges ==
  ASSUME PipelineInv, ConvergeInv, UNCHANGED <<taskVars, sourceVars, loadVars, crashVars>>,
         UNCHANGED <<superseded, cleared, loadRunning>>,
         copyq' = copyq \/ (copyq # <<>> /\ copyq' = Tail(copyq)),
         cur'.txn \in Nat, cur.txn <= cur'.txn,
         \A k \in DOMAIN wal : \A j \in DOMAIN wal[k] : Seen(k, j)' <=> Seen(k, j),
         NEW cmds, HandsOver(cmds, buffer), \A n \in DOMAIN cmds : cmds[n].kind # "truncate"
  PROVE  ConvergeInv'
<1>1. Flow(cmds, buffer)
  BY FrameFlows
<1>2. cleared \in Nat /\ \A id \in Ids : superseded[id] \in Nat
  BY DEF PipelineInv, WindowsOK
<1>3. cleared' \in Nat /\ cleared' >= cleared
  BY <1>2
<1>4. \A id \in Ids : superseded'[id] \in Nat /\ superseded'[id] >= superseded[id]
  BY <1>2
<1>5. CopiesTrue' /\ WindowsCover'
  BY <1>3, <1>4, WindowsKept
<1> QED
  BY <1>1, <1>5, FlowConverges

\* BEGIN, COMMIT and keepalives.
LEMMA FramesConverge ==
  ASSUME PipelineInv, ConvergeInv, TakeBegin \/ TakeCommit \/ TakeKeepalive PROVE ConvergeInv'
<1>0. /\ cur = [txn |-> cur.txn, pos |-> cur.pos]
      /\ cur.txn \in Nat \ {0} /\ cur.pos \in Nat /\ cur.txn <= Len(wal) + 1 /\ Len(wal) \in Nat
      /\ DOMAIN wal = 1 .. Len(wal)
      /\ \A k \in DOMAIN wal : DOMAIN wal[k] = 1 .. Len(wal[k]) /\ Len(wal[k]) \in Nat
  BY StreamFacts, WalFacts DEF PipelineInv
<1>1. CASE TakeBegin
  <2>1. /\ UNCHANGED <<taskVars, sourceVars, loadVars, crashVars>>
        /\ UNCHANGED <<superseded, cleared, loadRunning>> /\ copyq' = copyq /\ buffer' = buffer
        /\ sent' = sent \o <<>> /\ cur.pos = 0 /\ cur' = [cur EXCEPT !.pos = 1]
    BY <1>1 DEF TakeBegin, Hand
  <2>2. cur'.txn = cur.txn /\ cur'.pos = 1
    BY <1>0, <2>1
  <2>3. \A k \in DOMAIN wal : \A j \in DOMAIN wal[k] : Seen(k, j)' <=> Seen(k, j)
    BY <1>0, <2>1, <2>2 DEF Seen
  <2>4. PICK cmds : cmds = <<>>
    OBVIOUS
  <2>5. HandsOver(cmds, buffer) /\ \A n \in DOMAIN cmds : cmds[n].kind # "truncate"
    BY <2>1, <2>4 DEF HandsOver
  <2>6. cur'.txn \in Nat /\ cur.txn <= cur'.txn
    BY <1>0, <2>2
  <2> QED
    BY <2>1, <2>3, <2>5, <2>6, FrameConverges
<1>2. CASE TakeCommit
  <2>1. /\ UNCHANGED <<taskVars, sourceVars, loadVars, crashVars>> /\ copyq' = copyq
        /\ cur.pos = Len(wal[cur.txn]) + 1 /\ cur' = [txn |-> cur.txn + 1, pos |-> 0]
        /\ HandleCommit(End(cur.txn)) /\ cur.txn \in DOMAIN wal
    BY <1>0, <1>2 DEF TakeCommit, Streaming, Txn
  <2>2. UNCHANGED <<superseded, cleared, loadRunning>>
    BY <2>1 DEF HandleCommit, HoldCommit, FlushCommit
  <2>3. cur'.txn = cur.txn + 1 /\ cur'.pos = 0
    BY <2>1
  <2>4. \A k \in DOMAIN wal : \A j \in DOMAIN wal[k] : Seen(k, j)' <=> Seen(k, j)
    BY <1>0, <2>1, <2>3 DEF Seen
  <2>5. End(cur.txn) \in Nat /\ cur'.txn \in Nat /\ cur.txn <= cur'.txn
    BY <1>0, <2>3 DEF End
  <2>6. PICK cmds : HandsOver(cmds, buffer) /\ \A n \in DOMAIN cmds : cmds[n].kind # "truncate"
    BY <2>1, <2>5, CommitFlows
  <2> QED
    BY <2>1, <2>2, <2>4, <2>5, <2>6, FrameConverges
<1>3. CASE TakeKeepalive
  <2>1. /\ UNCHANGED <<taskVars, sourceVars, cur, copyq, loadVars, crashVars>>
        /\ HandleCommit(End(cur.txn - 1))
    BY <1>3 DEF TakeKeepalive, BetweenTxns
  <2>2. UNCHANGED <<superseded, cleared, loadRunning>>
    BY <2>1 DEF HandleCommit, HoldCommit, FlushCommit
  <2>3. \A k \in DOMAIN wal : \A j \in DOMAIN wal[k] : Seen(k, j)' <=> Seen(k, j)
    BY <2>1 DEF Seen
  <2>4. End(cur.txn - 1) \in Nat /\ cur'.txn \in Nat /\ cur.txn <= cur'.txn
    BY <1>0, <2>1 DEF End
  <2>5. PICK cmds : HandsOver(cmds, buffer) /\ \A n \in DOMAIN cmds : cmds[n].kind # "truncate"
    BY <2>1, <2>4, CommitFlows
  <2> QED
    BY <2>1, <2>2, <2>3, <2>4, <2>5, FrameConverges
<1> QED
  BY <1>1, <1>2, <1>3

\* The change the engine takes next, and no other, becomes one it has taken.
LEMMA ChangeSeen ==
  ASSUME PipelineInv, Streaming, cur.pos \in DOMAIN Txn, cur' = [cur EXCEPT !.pos = @ + 1]
  PROVE  /\ cur.txn \in DOMAIN wal /\ cur.pos \in DOMAIN wal[cur.txn] /\ wal[cur.txn] \in TxnShapes
         /\ cur'.txn = cur.txn /\ cur.txn \in Nat
         /\ \A k, j : k = cur.txn /\ j = cur.pos => Seen(k, j)'
         /\ \A k \in DOMAIN wal : \A j \in DOMAIN wal[k] :
              /\ Seen(k, j) => Seen(k, j)'
              /\ Seen(k, j)' => k <= cur.txn /\ (Seen(k, j) \/ (k = cur.txn /\ j = cur.pos))
<1>1. /\ cur = [txn |-> cur.txn, pos |-> cur.pos]
      /\ cur.txn \in Nat \ {0} /\ cur.pos \in Nat /\ Len(wal) \in Nat /\ DOMAIN wal = 1 .. Len(wal)
      /\ cur.txn \in DOMAIN wal /\ wal[cur.txn] \in TxnShapes
  BY StreamFacts DEF Txn
<1>2. \A k \in DOMAIN wal : DOMAIN wal[k] = 1 .. Len(wal[k]) /\ Len(wal[k]) \in Nat
  BY WalFacts DEF PipelineInv
<1>3. cur'.txn = cur.txn /\ cur'.pos = cur.pos + 1
  BY <1>1
<1> QED
  BY <1>1, <1>2, <1>3 DEF Seen, Txn

\* Everything taken ahead of a truncate is of an older transaction.
LEMMA AheadOfTruncate ==
  ASSUME Plain, PipelineInv, Streaming, cur.pos \in DOMAIN Txn, Txn[cur.pos].kind = "truncate",
         NEW op, TakenTrue(op), NEW k \in Nat, op.ver = Ver(k)
  PROVE  Ver(k) < Ver(cur.txn)
<1>1. /\ cur.txn \in Nat /\ cur.pos \in Nat /\ Len(wal) \in Nat /\ DOMAIN wal = 1 .. Len(wal)
      /\ cur.txn \in DOMAIN wal /\ wal[cur.txn] \in TxnShapes
  BY StreamFacts DEF Txn
<1>2. CASE CopyTrue(op)
  BY <1>1, <1>2 DEF CopyTrue, Ver, End
<1>3. ASSUME NEW n \in DOMAIN wal, NEW j \in DOMAIN wal[n], Seen(n, j), Makes(op, n, j)
      PROVE  Ver(k) < Ver(cur.txn)
  <2>1. op.ver = Ver(n) /\ wal[n][j].kind # "truncate" /\ n \in Nat
    BY <1>1, <1>3 DEF Makes
  <2>2. DOMAIN wal[n] = 1 .. Len(wal[n]) /\ Len(wal[n]) \in Nat
    BY WalFacts DEF PipelineInv
  <2>3. ~(n = cur.txn /\ j < cur.pos)
    <3> SUFFICES ASSUME n = cur.txn, j < cur.pos PROVE FALSE
      OBVIOUS
    <3>1. cur.pos \in DOMAIN wal[cur.txn] /\ j \in 1 .. cur.pos - 1
      BY <1>1, <2>2 DEF Txn
    <3>2. wal[cur.txn][cur.pos].kind # "truncate"
      BY <1>1, <2>1, <3>1 DEF Plain
    <3> QED
      BY <3>2 DEF Txn
  <2>4. n < cur.txn
    BY <1>3, <2>3 DEF Seen
  <2> QED
    BY <1>1, <2>1, <2>4 DEF Ver
<1> QED
  BY <1>2, <1>3 DEF TakenTrue

\* A TRUNCATE.
LEMMA TruncateConverges ==
  ASSUME Plain, PipelineInv, ConvergeInv, TakeChange, Txn[cur.pos].kind = "truncate" PROVE ConvergeInv'
<1>1. /\ Streaming /\ cur.pos \in DOMAIN Txn /\ HandleTruncate(Ver(cur.txn))
      /\ cur' = [cur EXCEPT !.pos = @ + 1]
      /\ UNCHANGED <<taskVars, sourceVars, copyq, loadVars, crashVars>>
  BY DEF TakeChange
<1>2. /\ cur.txn \in DOMAIN wal /\ cur.pos \in DOMAIN wal[cur.txn]
      /\ cur'.txn = cur.txn /\ cur.txn \in Nat
      /\ \A k, j : k = cur.txn /\ j = cur.pos => Seen(k, j)'
      /\ \A k \in DOMAIN wal : \A j \in DOMAIN wal[k] :
           /\ Seen(k, j) => Seen(k, j)'
           /\ Seen(k, j)' => k <= cur.txn /\ (Seen(k, j) \/ (k = cur.txn /\ j = cur.pos))
  BY <1>1, ChangeSeen
<1>3. wal[cur.txn][cur.pos].kind = "truncate"
  BY DEF Txn
<1>4. UNCHANGED <<wal, rows>>
  BY <1>1 DEF sourceVars
<1>5. PICK d : d = Clear(Ver(cur.txn))
  OBVIOUS
<1>6. d \in WellFormed /\ d.kind = "truncate" /\ d.pos = Ver(cur.txn) /\ d.kind # "write"
  BY <1>2, <1>5 DEF Clear, WellFormed, Command, Ver
<1>7. sent' = sent \o (Flushed \o <<d>>) /\ buffer' = <<>>
  BY <1>1, <1>5 DEF HandleTruncate, Hand
<1>8. PICK cmds : /\ HandsOver(cmds, buffer)
                  /\ \A n \in DOMAIN cmds : cmds[n].kind = "truncate" => cmds[n] = d
                  /\ \E n \in DOMAIN cmds : cmds[n] = d
  BY <1>6, <1>7, BarrierFlows
<1>9. Tops(d, buffer)
  <2>1. \A m \in DOMAIN buffer : \A k \in Nat : buffer[m].ver = Ver(k) => Ver(k) < d.pos
    BY <1>1, <1>6, AheadOfTruncate DEF ConvergeInv, TraceInv, HandedTrue
  <2>2. \A i \in DOMAIN sent : \A m \in DOMAIN sent[i].ops : \A k \in Nat :
          sent[i].ops[m].ver = Ver(k) => Ver(k) < d.pos
    BY <1>1, <1>6, AheadOfTruncate DEF ConvergeInv, TraceInv, HandedTrue
  <2> QED
    BY <1>2, <1>3, <1>6, <2>1, <2>2 DEF Tops
<1>10. \A k \in DOMAIN wal, id \in Ids : Removed(k, id)' => Removed(k, id) \/ k = cur.txn
  BY <1>2, <1>4, RemovedBefore
<1>11. \A m \in DOMAIN buffer : IsIn(buffer[m], buffer)
  BY DEF IsIn
<1>12. Flow(cmds, buffer)
  <2>1. \A k \in DOMAIN wal, id \in Ids : Removed(k, id)' =>
          Removed(k, id) \/ \E n \in DOMAIN cmds : cmds[n].kind = "truncate" /\ cmds[n].pos = Ver(k)
    BY <1>6, <1>8, <1>10
  <2>2. \A n \in DOMAIN cmds : cmds[n].kind = "truncate" => Tops(cmds[n], buffer)
    BY <1>8, <1>9
  <2>3. cur'.txn \in Nat /\ cur.txn <= cur'.txn
    BY <1>2
  <2> QED
    BY <1>1, <1>2, <1>8, <1>11, <2>1, <2>2, <2>3 DEF Flow
<1>13. CopiesTrue' /\ WindowsCover'
  <2>1. /\ cleared' = (IF loadRunning /\ Ver(cur.txn) > cleared THEN Ver(cur.txn) ELSE cleared)
        /\ superseded' = superseded /\ loadRunning' = loadRunning
    BY <1>1 DEF HandleTruncate
  <2>2. cleared \in Nat /\ Ver(cur.txn) \in Nat /\ \A id \in Ids : superseded[id] \in Nat
    BY <1>2 DEF PipelineInv, WindowsOK, Ver
  <2>3. cleared' \in Nat /\ cleared' >= cleared /\ (loadRunning => cleared' >= Ver(cur.txn))
    BY <2>1, <2>2
  <2>4. \A id \in Ids : superseded'[id] \in Nat /\ superseded'[id] >= superseded[id]
    BY <2>1, <2>2
  <2>5. \A k \in DOMAIN wal : \A j \in DOMAIN wal[k] : loadRunning /\ Seen(k, j)' =>
          \/ Seen(k, j)
          \/ /\ wal[k][j].kind = "truncate" => cleared' >= Ver(k)
             /\ \A id \in Ids : wal[k][j].kind = "delete" /\ wal[k][j].id = id => superseded'[id] >= Ver(k)
    BY <1>2, <1>3, <2>3
  <2> QED
    BY <1>1, <2>1, <2>3, <2>4, <2>5, WindowsKept
<1> QED
  BY <1>12, <1>13, FlowConverges

\* A row behind the buffer.
LEMMA Appended ==
  ASSUME PipelineInv, NEW op, NEW all, all = Append(buffer, op)
  PROVE  /\ \A m \in DOMAIN buffer : IsIn(buffer[m], all)
         /\ \A n \in DOMAIN all : IsIn(all[n], buffer) \/ all[n] = op
         /\ IsIn(op, all)
<1>1. buffer \in Seq(Op) /\ Len(buffer) \in Nat /\ DOMAIN buffer = 1 .. Len(buffer)
  BY DEF PipelineInv, BufferOK
<1>2. /\ DOMAIN all = 1 .. Len(buffer) + 1 /\ all[Len(buffer) + 1] = op
      /\ \A m \in 1 .. Len(buffer) : all[m] = buffer[m]
  BY <1>1
<1> QED
  BY <1>1, <1>2 DEF IsIn

\* A streamed row.
LEMMA StreamedConverges ==
  ASSUME Plain, PipelineInv, ConvergeInv, TakeChange, Txn[cur.pos].kind # "truncate" PROVE ConvergeInv'
<1>1. /\ Streaming /\ cur.pos \in DOMAIN Txn /\ HandleRow(OperationOf(Txn, cur.txn, cur.pos))
      /\ cur' = [cur EXCEPT !.pos = @ + 1]
      /\ UNCHANGED <<taskVars, sourceVars, copyq, loadVars, crashVars>>
  BY DEF TakeChange
<1>2. /\ cur.txn \in DOMAIN wal /\ cur.pos \in DOMAIN wal[cur.txn] /\ wal[cur.txn] \in TxnShapes
      /\ cur'.txn = cur.txn /\ cur.txn \in Nat
      /\ \A k, j : k = cur.txn /\ j = cur.pos => Seen(k, j)'
      /\ \A k \in DOMAIN wal : \A j \in DOMAIN wal[k] :
           /\ Seen(k, j) => Seen(k, j)'
           /\ Seen(k, j)' => k <= cur.txn /\ (Seen(k, j) \/ (k = cur.txn /\ j = cur.pos))
  BY <1>1, ChangeSeen
<1>3. UNCHANGED <<wal, rows>>
  BY <1>1 DEF sourceVars
<1>4. PICK op : op = OperationOf(Txn, cur.txn, cur.pos)
  OBVIOUS
<1>5. op \in Op /\ op.ver = Ver(cur.txn) /\ ~Dead(op) /\ HandleRow(op)
  BY <1>1, <1>4, StreamedOp
<1>6. Makes(op, cur.txn, cur.pos) /\ op.id \in Ids
  <2>1. op.id = wal[cur.txn][cur.pos].id /\ wal[cur.txn][cur.pos].kind # "truncate"
    BY <1>4 DEF OperationOf, Txn
  <2>2. wal[cur.txn][cur.pos].kind # "touch"
    BY <1>2 DEF Plain
  <2>3. op.val = IF wal[cur.txn][cur.pos].kind = "upsert"
                   THEN Body(<<cur.txn, cur.pos>>, <<cur.txn, cur.pos>>) ELSE Absent
    BY <1>4, <2>2 DEF OperationOf, Txn
  <2> QED
    BY <1>5, <2>1, <2>3 DEF Makes, Op
<1>7. Fresh(op)
  <2>1. \A k, j : k = cur.txn /\ j = cur.pos => Makes(op, k, j)' /\ Seen(k, j)'
    BY <1>2, <1>3, <1>6 DEF Makes
  <2>2. TakenTrue(op)'
    BY <1>2, <1>3, <2>1 DEF TakenTrue
  <2>3. OpTrue(op)
    BY <1>2, <1>6 DEF OpTrue, StreamTrue
  <2>4. \A k \in Nat : op.ver = Ver(k) => k = cur.txn
    BY <1>2, <1>5 DEF Ver
  <2>5. ASSUME NEW k \in DOMAIN wal, NEW id \in Ids, Removed(k, id)', op.id = id, op.val # Absent
        PROVE  FALSE
    <3>1. LastAt(k, id) /\ Final(id) = Absent /\ k <= cur.txn /\ k \in Nat
      <4>1. (LastAt(k, id)' <=> LastAt(k, id)) /\ Final(id)' = Final(id)
        BY <1>3, SourceSame
      <4>2. LastAt(k, id)' /\ Final(id)' = Absent /\ \E j \in DOMAIN wal[k] : Seen(k, j)'
        BY <1>3, <2>5 DEF Removed
      <4>3. k \in Nat
        BY WalFacts DEF PipelineInv
      <4> QED
        BY <1>2, <4>1, <4>2, <4>3
    <3>2. op.ver >= Ver(k)
      BY <1>2, <1>5, <3>1 DEF Ver
    <3>3. op.val = Final(op.id)
      BY <1>6, <2>3, <2>5, <3>1, <3>2, OpDecides DEF PipelineInv, ConvergeInv
    <3> QED
      BY <2>5, <3>1, <3>3
  <2> QED
    BY <2>2, <2>4, <2>5 DEF Fresh
<1>8. PICK all : all = Append(buffer, op)
  OBVIOUS
<1>9. /\ \A m \in DOMAIN buffer : IsIn(buffer[m], all)
      /\ \A n \in DOMAIN all : IsIn(all[n], buffer) \/ Fresh(all[n])
      /\ IsIn(op, all)
  BY <1>7, <1>8, Appended
<1>10. PICK cmds : HandsOver(cmds, all) /\ \A n \in DOMAIN cmds : cmds[n].kind # "truncate"
  BY <1>5, <1>8, RowFlows
<1>11. ASSUME NEW k \in DOMAIN wal, NEW id \in Ids, Removed(k, id)', ~Removed(k, id)
       PROVE  RemOps(all, k, id)
  <2>1. PICK j \in DOMAIN wal[k] : Removes(wal[k][j], id) /\ Seen(k, j)' /\ ~Seen(k, j)
    BY <1>3, <1>11, RemovedBefore
  <2>2. k = cur.txn /\ j = cur.pos
    BY <1>2, <2>1
  <2>3. wal[cur.txn][cur.pos].kind = "delete" /\ wal[cur.txn][cur.pos].id = id
    BY <1>6, <2>1, <2>2 DEF Makes, Removes
  <2>4. RemOp(op, k, id)
    BY <1>5, <1>6, <2>2, <2>3 DEF RemOp, Makes
  <2> QED
    BY <1>9, <2>4 DEF RemOps, IsIn
<1>12. Flow(cmds, all)
  <2>1. cur'.txn \in Nat /\ cur.txn <= cur'.txn
    BY <1>2
  <2> QED
    BY <1>1, <1>2, <1>9, <1>10, <1>11, <2>1 DEF Flow
<1>13. CopiesTrue' /\ WindowsCover'
  <2>1. /\ superseded' = (IF loadRunning /\ op.val = Absent /\ op.ver > superseded[op.id]
                            THEN [superseded EXCEPT ![op.id] = op.ver] ELSE superseded)
        /\ cleared' = cleared /\ loadRunning' = loadRunning
    BY <1>5 DEF HandleRow
  <2>2. cleared \in Nat /\ superseded \in [Ids -> Nat] /\ op.ver \in Nat
    BY <1>2, <1>5 DEF PipelineInv, WindowsOK, Ver
  <2>3. cleared' \in Nat /\ cleared' >= cleared
    BY <2>1, <2>2
  <2>4. \A id \in Ids : superseded'[id] \in Nat /\ superseded'[id] >= superseded[id]
    BY <2>1, <2>2
  <2>5. loadRunning /\ op.val = Absent => superseded'[op.id] >= op.ver
    BY <1>6, <2>1, <2>2
  <2>6. \A k \in DOMAIN wal : \A j \in DOMAIN wal[k] : loadRunning /\ Seen(k, j)' =>
          \/ Seen(k, j)
          \/ /\ wal[k][j].kind = "truncate" => cleared' >= Ver(k)
             /\ \A id \in Ids : wal[k][j].kind = "delete" /\ wal[k][j].id = id => superseded'[id] >= Ver(k)
    BY <1>2, <1>5, <1>6, <2>5 DEF Makes
  <2> QED
    BY <1>1, <2>1, <2>3, <2>4, <2>6, WindowsKept
<1> QED
  BY <1>12, <1>13, FlowConverges

\* A copied row is dropped, or is no row whose removal has been taken.
LEMMA CopiedIsFresh ==
  ASSUME Plain, PipelineInv, ConvergeInv, UNCHANGED <<wal, rows, cur>>, NEW op \in Op,
         copyq # <<>>, copyq[1].ev = "row", copyq[1].op = op, ~Dead(op)
  PROVE  Fresh(op)
<1> USE DEF PipelineInv, ConvergeInv
<1>1. copyq \in Seq(CopyEvents) /\ 1 \in DOMAIN copyq
  BY DEF LoadOK
<1>2. CopyTrue(op) /\ OpTrue(op) /\ op.id \in Ids /\ op.ver \in Nat /\ op.val # Absent
  BY <1>1 DEF CopiesTrue, CopyTrue, OpTrue, Op
<1>3. TakenTrue(op)'
  BY <1>2, PlaceSame DEF TakenTrue
<1>4. \A k \in Nat : op.ver # Ver(k)
  BY <1>2, WalFacts DEF CopyTrue, Ver, End
<1>5. ASSUME NEW k \in DOMAIN wal, NEW id \in Ids, Removed(k, id), op.id = id PROVE FALSE
  <2>1. LastAt(k, id) /\ Final(id) = Absent /\ k \in Nat /\ Ver(k) \in Nat
    BY <1>5, WalFacts DEF Removed, Ver
  <2>2. Ver(k) > op.ver
    <3> SUFFICES ASSUME ~(Ver(k) > op.ver) PROVE FALSE
      OBVIOUS
    <3>1. op.ver >= Ver(k)
      BY <1>2, <2>1
    <3>2. op.val = Final(op.id)
      BY <1>2, <1>5, <2>1, <3>1, OpDecides
    <3> QED
      BY <1>2, <1>5, <2>1, <3>2
  <2>3. PICK j \in DOMAIN wal[k] : Removes(wal[k][j], id) /\ Seen(k, j)
    BY <1>5 DEF Removed
  <2>4. Copying(id, op.ver)
    BY <1>1, <1>5 DEF Copying
  <2>5. /\ wal[k][j].kind = "truncate" => cleared >= Ver(k)
        /\ wal[k][j].kind = "delete" /\ wal[k][j].id = id => superseded[id] >= Ver(k)
    BY <1>2, <2>2, <2>3, <2>4 DEF WindowsCover
  <2>6. cleared \in Nat /\ superseded[id] \in Nat
    BY DEF WindowsOK
  <2>7. cleared > op.ver \/ superseded[id] > op.ver
    BY <1>2, <2>1, <2>2, <2>3, <2>5, <2>6 DEF Removes
  <2> QED
    BY <1>2, <1>5, <2>7 DEF Dead
<1>6. \A k \in DOMAIN wal, id \in Ids : Removed(k, id)' => Removed(k, id)
  BY PlaceSame
<1> QED
  BY <1>3, <1>4, <1>5, <1>6 DEF Fresh

\* The first event of the load's channel.
LEMMA FirstCopied ==
  ASSUME PipelineInv, ConvergeInv, copyq # <<>>
  PROVE  /\ Head(copyq) = copyq[1] /\ copyq[1] \in CopyEvents /\ 1 \in DOMAIN copyq
         /\ copyq[1].ev \in {"mark", "finished"} => Tail(copyq) = <<>> /\ load.pc # "read"
         /\ copyq[1].ev = "mark" => copyq[1].mark \in Nat \ {0}
         /\ copyq[1].ev = "finished" => load.pc = "done"
<1> USE DEF PipelineInv, ConvergeInv
<1>1. copyq \in Seq(CopyEvents) /\ Head(copyq) = copyq[1] /\ 1 \in DOMAIN copyq /\ Len(copyq) \in Nat
  BY DEF LoadOK
<1>2. copyq[1] \in CopyEvents
  BY <1>1
<1>3. copyq[1].ev = "mark" => 1 = Len(copyq) /\ load.pc = "wait" /\ copyq[1].mark = load.mark
  BY <1>1 DEF MarksOK
<1>4. copyq[1].ev = "finished" => 1 = Len(copyq) /\ load.pc = "done"
  BY <1>1 DEF CopiesTrue
<1>5. ASSUME 1 = Len(copyq) PROVE Tail(copyq) = <<>>
  <2>1. PICK rest : rest = Tail(copyq)
    OBVIOUS
  <2>2. rest \in Seq(CopyEvents) /\ Len(rest) = 0
    BY <1>1, <1>5, <2>1
  <2>3. rest = <<>>
    BY <2>2
  <2> QED
    BY <2>1, <2>3
<1>6. copyq[1].ev = "mark" => load.mark \in Nat \ {0}
  BY <1>1 DEF LoadOK, MarksOK
<1> QED
  BY <1>1, <1>2, <1>3, <1>4, <1>5, <1>6

\* A copied row.
LEMMA RowConverges ==
  ASSUME Plain, PipelineInv, ConvergeInv, TakeCopied, copyq[1].ev = "row" PROVE ConvergeInv'
<1>1. /\ copyq # <<>> /\ copyq' = Tail(copyq)
      /\ UNCHANGED <<taskVars, sourceVars, cur, loadVars, crashVars>>
  BY DEF TakeCopied
<1>2. Head(copyq) = copyq[1] /\ copyq[1] \in CopyEvents
  BY <1>1, FirstCopied
<1>3. PICK op : op = copyq[1].op
  OBVIOUS
<1>4. op \in Op /\ op.val # Absent /\ HandleRow(op)
  <2>1. op \in Op /\ op.val # Absent
    BY <1>2, <1>3 DEF CopyEvents
  <2>2. HandleRow(op)
    BY <1>2, <1>3 DEF TakeCopied
  <2> QED
    BY <2>1, <2>2
<1>5. UNCHANGED <<wal, rows, cur>>
  BY <1>1 DEF sourceVars
<1>6. PICK all : all = IF Dead(op) THEN buffer ELSE Append(buffer, op)
  OBVIOUS
<1>7. PICK cmds : HandsOver(cmds, all) /\ \A n \in DOMAIN cmds : cmds[n].kind # "truncate"
  BY <1>4, <1>6, RowFlows
<1>8. /\ \A m \in DOMAIN buffer : IsIn(buffer[m], all)
      /\ \A n \in DOMAIN all : IsIn(all[n], buffer) \/ Fresh(all[n])
  <2>1. CASE Dead(op)
    BY <1>6, <2>1 DEF IsIn
  <2>2. CASE ~Dead(op)
    <3>1. Fresh(op)
      BY <1>1, <1>3, <1>4, <1>5, <2>2, CopiedIsFresh
    <3>2. all = Append(buffer, op)
      BY <1>6, <2>2
    <3>3. /\ \A m \in DOMAIN buffer : IsIn(buffer[m], all)
          /\ \A n \in DOMAIN all : IsIn(all[n], buffer) \/ all[n] = op
      BY <3>2, Appended, Zenon
    <3> QED
      BY <3>1, <3>3
  <2> QED
    BY <2>1, <2>2
<1>9. Flow(cmds, all)
  <2>1. cur'.txn \in Nat /\ cur.txn <= cur'.txn
    BY <1>5, StreamFacts
  <2>2. \A k, j : Seen(k, j)' <=> Seen(k, j)
    BY <1>5 DEF Seen
  <2>3. \A k \in DOMAIN wal, id \in Ids : Removed(k, id)' => Removed(k, id)
    BY <1>5, PlaceSame
  <2> QED
    BY <1>1, <1>7, <1>8, <2>1, <2>2, <2>3 DEF Flow
<1>10. CopiesTrue' /\ WindowsCover'
  <2>1. UNCHANGED <<superseded, cleared, loadRunning>>
    BY <1>4 DEF HandleRow
  <2>2. cleared \in Nat /\ \A id \in Ids : superseded[id] \in Nat
    BY DEF PipelineInv, WindowsOK
  <2>3. cleared' \in Nat /\ cleared' >= cleared
    BY <2>1, <2>2
  <2>4. \A id \in Ids : superseded'[id] \in Nat /\ superseded'[id] >= superseded[id]
    BY <2>1, <2>2
  <2>5. \A k, j : Seen(k, j)' <=> Seen(k, j)
    BY <1>5 DEF Seen
  <2> QED
    BY <1>1, <2>1, <2>3, <2>4, <2>5, WindowsKept
<1> QED
  BY <1>9, <1>10, FlowConverges

\* A boundary, a mark and the end of the load.
LEMMA SignsConverge ==
  ASSUME PipelineInv, ConvergeInv, TakeCopied, copyq[1].ev # "row" PROVE ConvergeInv'
<1>1. /\ copyq # <<>> /\ copyq' = Tail(copyq)
      /\ UNCHANGED <<taskVars, sourceVars, cur, loadVars, crashVars>>
  BY DEF TakeCopied
<1>2. /\ Head(copyq) = copyq[1] /\ copyq[1] \in CopyEvents
      /\ copyq[1].ev \in {"mark", "finished"} => Tail(copyq) = <<>> /\ load.pc # "read"
      /\ copyq[1].ev = "mark" => copyq[1].mark \in Nat \ {0}
      /\ copyq[1].ev = "finished" => load.pc = "done"
  BY <1>1, FirstCopied
<1>3. cur'.txn \in Nat /\ cur.txn <= cur'.txn
  BY <1>1, StreamFacts
<1>4. \A k \in DOMAIN wal : \A j \in DOMAIN wal[k] : Seen(k, j)' <=> Seen(k, j)
  BY <1>1 DEF Seen
<1>5. CASE copyq[1].ev = "boundary"
  <2>1. HandleCommit(0)
    BY <1>2, <1>5 DEF TakeCopied
  <2>2. UNCHANGED <<superseded, cleared, loadRunning>>
    BY <2>1 DEF HandleCommit, HoldCommit, FlushCommit
  <2>3. PICK cmds : HandsOver(cmds, buffer) /\ \A n \in DOMAIN cmds : cmds[n].kind # "truncate"
    BY <2>1, CommitFlows
  <2> QED
    BY <1>1, <1>3, <1>4, <2>2, <2>3, FrameConverges
<1>6. CASE copyq[1].ev = "mark"
  <2>1. HandleMark(copyq[1].mark)
    BY <1>2, <1>6 DEF TakeCopied
  <2>2. CopiesTrue' /\ WindowsCover'
    <3>1. loadRunning' = loadRunning
      BY <2>1 DEF HandleMark
    <3> QED
      BY <1>1, <1>2, <1>6, <3>1, NothingCopied
  <2>3. \E cmds : HandsOver(cmds, buffer) /\ \A n \in DOMAIN cmds : cmds[n].kind # "truncate"
    <3>1. CASE txnOpen
      <4>1. sent' = sent \o <<>> /\ buffer' = buffer
        BY <2>1, <3>1 DEF HandleMark, Hand
      <4>2. PICK cmds : cmds = <<>>
        OBVIOUS
      <4>3. HandsOver(cmds, buffer) /\ \A n \in DOMAIN cmds : cmds[n].kind # "truncate"
        BY <4>1, <4>2 DEF HandsOver
      <4> QED
        BY <4>3
    <3>2. CASE ~txnOpen
      <4>1. PICK d : d = Mark(copyq[1].mark)
        OBVIOUS
      <4>2. d \in WellFormed /\ d.kind = "mark"
        BY <1>2, <1>6, <4>1 DEF Mark, WellFormed, Command
      <4>3. sent' = sent \o (Flushed \o <<d>>) /\ buffer' = <<>> /\ d.kind # "write"
        BY <2>1, <3>2, <4>1, <4>2 DEF HandleMark, Hand
      <4>4. PICK cmds : /\ HandsOver(cmds, buffer)
                        /\ \A n \in DOMAIN cmds : cmds[n].kind = "truncate" => cmds[n] = d
                        /\ \E n \in DOMAIN cmds : cmds[n] = d
        BY <4>2, <4>3, BarrierFlows
      <4>5. \A n \in DOMAIN cmds : cmds[n].kind # "truncate"
        BY <4>2, <4>4
      <4> QED
        BY <4>4, <4>5
    <3> QED
      BY <3>1, <3>2
  <2>4. PICK cmds : HandsOver(cmds, buffer) /\ \A n \in DOMAIN cmds : cmds[n].kind # "truncate"
    BY <2>3
  <2>5. Flow(cmds, buffer)
    BY <1>1, <1>3, <1>4, <2>4, FrameFlows
  <2> QED
    BY <2>2, <2>5, FlowConverges
<1>7. CASE copyq[1].ev = "finished"
  <2>1. HandleLoadFinished
    BY <1>2, <1>7 DEF TakeCopied
  <2>2. CopiesTrue' /\ WindowsCover'
    BY <1>1, <1>2, <1>7, NothingCopied
  <2>3. sent' = sent \o <<>> /\ buffer' = buffer
    BY <2>1 DEF HandleLoadFinished, Hand
  <2>4. PICK cmds : cmds = <<>>
    OBVIOUS
  <2>5. HandsOver(cmds, buffer) /\ \A n \in DOMAIN cmds : cmds[n].kind # "truncate"
    BY <2>3, <2>4 DEF HandsOver
  <2>6. Flow(cmds, buffer)
    BY <1>1, <1>3, <1>4, <2>5, FrameFlows
  <2> QED
    BY <2>2, <2>6, FlowConverges
<1>8. copyq[1].ev \in {"boundary", "mark", "finished"}
  BY <1>2 DEF CopyEvents
<1> QED
  BY <1>5, <1>6, <1>7, <1>8

\* The steps of the engine task.
LEMMA EngineConverges ==
  ASSUME Plain, PipelineInv, ConvergeInv, EngineStep PROVE ConvergeInv'
<1>1. CASE TakeBegin \/ TakeCommit \/ TakeKeepalive
  BY <1>1, FramesConverge
<1>2. CASE TakeChange
  BY <1>2, TruncateConverges, StreamedConverges
<1>3. CASE TakeCopied
  BY <1>3, RowConverges, SignsConverge
<1> QED
  BY <1>1, <1>2, <1>3 DEF EngineStep

-----------------------------------------------------------------------------
(* The attempt that follows.                                               *)

\* What the slot covers left nothing behind when an attempt ends that has
\* repeated what it was to repeat.
LEMMA SlotIsPast ==
  ASSUME PipelineInv, ConvergeInv, kept <= acked, NEW k \in DOMAIN wal, End(k) <= slot
  PROVE  /\ k < cur.txn
         /\ \A m \in DOMAIN buffer : buffer[m].ver # Ver(k)
         /\ \A i \in DOMAIN sent : \A m \in DOMAIN sent[i].ops :
              sent[i].ops[m].ver = Ver(k) => <<i, m>> \in settled
<1>1. CASE End(k) <= kept
  <2>1. kept \in Nat /\ acked \in Nat /\ End(k) \in Nat
    BY WalFacts DEF PipelineInv, SourceOK, DeliveryInv, DeliveryTypeOK, End
  <2>2. End(k) <= acked
    BY <1>1, <2>1
  <2> QED
    BY <2>2, AckedIsPast
<1>2. CASE ~(End(k) <= kept)
  BY <1>2 DEF ConvergeInv, SlotClean
<1> QED
  BY <1>1, <1>2

\* A removal the next attempt begins behind is remembered, or nothing is left that
\* could bring the row back.
LEMMA RemovalIsOver ==
  ASSUME PipelineInv, ConvergeInv, kept <= acked, NEW k \in DOMAIN wal, End(k) <= slot, NEW id \in Ids,
         Removed(k, id), \A n \in DOMAIN wal : ~Truncates(n)
  PROVE  Tomb(k, id) \/ Clean(id)
<1>1. /\ \A m \in DOMAIN buffer : buffer[m].ver # Ver(k)
      /\ \A i \in DOMAIN sent : \A m \in DOMAIN sent[i].ops :
           sent[i].ops[m].ver = Ver(k) => <<i, m>> \in settled
  BY SlotIsPast
<1>2. \A x \in DOMAIN sent : sent[x].kind # "truncate"
  BY DEF ConvergeInv, TraceInv, HandedTrue, Truncates
<1>3. ~Pend(k, id)
  BY <1>1, <1>2 DEF Pend, PendAt, RemOps, RemOp
<1> QED
  BY <1>3 DEF ConvergeInv, TargetInv, RemovedStays

\* The requests left open become the next attempt's orphans.
LEMMA AttemptConverges ==
  ASSUME Plain, PipelineInv, ConvergeInv, NewAttempt, kept <= acked, restarts \in Nat
  PROVE  ConvergeInv'
<1> USE DEF PipelineInv, ConvergeInv, TraceInv, TargetInv
<1>1. /\ FreshTasks /\ FreshEngine /\ restarts < MaxRestarts
      /\ cur' = [txn |-> ResumeAt, pos |-> 0]
      /\ orphans' = orphans \cup {sent[i].ops : i \in {n \in Window : Open(n)}}
      /\ applied' = applied \cup OpsSettled
      /\ load' = FreshLoad(IF NeedsLoad THEN "start" ELSE "report")
      /\ UNCHANGED <<wal, visible, rows, slot>>
  BY DEF NewAttempt, sourceVars
<1>2. /\ sent' = <<>> /\ settled' = {} /\ docs' = docs /\ finished' = 0
      /\ buffer' = <<>> /\ copyq' = <<>> /\ loadRunning' = TRUE
      /\ DOMAIN sent' = {} /\ DOMAIN buffer' = {} /\ DOMAIN copyq' = {}
      /\ cur'.txn = ResumeAt /\ cur'.pos = 0
  BY <1>1 DEF FreshTasks, FreshEngine
<1>3. MaxRestarts # 0 /\ \A k \in DOMAIN wal : ~Truncates(k)
  <2>1. MaxRestarts # 0
    BY <1>1, PipelineAssumption
  <2> QED
    BY <2>1, WalFacts DEF Plain, Truncates
<1>4. UNCHANGED <<wal, rows>>
  BY <1>1
<1>5. /\ ResumeAt \in Nat \ {0}
      /\ \A k \in Nat : k < ResumeAt <=> End(k) <= slot
  BY WalFacts DEF ResumeAt, SourceOK, End
<1>6. RowsOK'
  BY <1>4, SourceSame
<1>7. TraceInv'
  BY <1>2 DEF HandedTrue, OrderOK, BehindPositions, TruncatesOrder, LiveIn, NewerThan
<1>8. CopiesTrue' /\ WindowsCover'
  <2>1. load'.at = [id \in Ids |-> 0] /\ load'.pc # "read"
    BY <1>1 DEF FreshLoad
  <2>2. \A id, ver : ~Copying(id, ver)'
    BY <1>2, <2>1 DEF Copying
  <2> QED
    BY <1>2, <2>1, <2>2 DEF CopiesTrue, WindowsCover
<1>9. SlotClean'
  <2>1. \A k \in DOMAIN wal : End(k) <= slot => k < cur'.txn
    BY <1>2, <1>5, WalFacts
  <2> QED
    BY <1>1, <1>2, <2>1 DEF SlotClean
<1>10. SettledInWindow' /\ NoAttempts'
  BY <1>2, <1>3 DEF SettledInWindow, NoAttempts
<1>11. DocsTrue'
  BY <1>2, <1>4, SourceSame DEF DocsTrue
<1>12. \A op \in OpsSettled : OpTrue(op)
  BY TakenIsTrue DEF OpsSettled, CrashOK, Positions, HandedTrue
<1>13. LeftTrue'
  <2>1. \A ops \in orphans' : \A m \in DOMAIN ops : OpTrue(ops[m])
    <3> SUFFICES ASSUME NEW ops \in orphans', NEW m \in DOMAIN ops PROVE OpTrue(ops[m])
      OBVIOUS
    <3>1. CASE ops \in orphans
      BY <3>1 DEF LeftTrue
    <3>2. CASE \E i \in Window : ops = sent[i].ops
      BY <3>2, TakenIsTrue DEF HandedTrue, Window
    <3> QED
      BY <1>1, <3>1, <3>2
  <2>2. \A op \in applied' : OpTrue(op)
    BY <1>1, <1>12 DEF LeftTrue
  <2>3. \A op : OpTrue(op)' <=> OpTrue(op)
    BY <1>4, SourceSame
  <2> QED
    BY <2>1, <2>2, <2>3 DEF LeftTrue
<1>14. RemovedStays'
  <2> SUFFICES ASSUME NEW k \in DOMAIN wal, NEW id \in Ids, Removed(k, id)'
               PROVE  Tomb(k, id)' \/ Clean(id)'
    BY <1>4 DEF RemovedStays
  <2>1. k \in Nat
    BY WalFacts
  <2>2. End(k) <= slot
    <3>1. k < ResumeAt
      <4>1. PICK j \in DOMAIN wal[k] : Seen(k, j)'
        BY <1>4, <2>1 DEF Removed
      <4>2. j \in Nat /\ ~(j < 0)
        BY WalFacts
      <4> QED
        BY <1>2, <4>1, <4>2 DEF Seen
    <3> QED
      BY <1>5, <2>1, <3>1
  <2>3. Removed(k, id)
    <3>1. k < cur.txn
      BY <2>2, SlotIsPast
    <3> QED
      BY <1>4, <3>1, RemovedBefore DEF Seen
  <2>4. Tomb(k, id) \/ Clean(id)
    BY <1>3, <2>2, <2>3, RemovalIsOver
  <2>5. Tomb(k, id) => Tomb(k, id)'
    BY <1>2 DEF Tomb
  <2>6. ASSUME Clean(id) PROVE Clean(id)'
    <3>1. \A ops \in orphans' : ~LiveIn(ops, id)
      BY <1>1, <2>6 DEF Clean, Open, Unanswered, Window
    <3> QED
      BY <1>2, <2>6, <3>1 DEF Clean, LiveIn
  <2> QED
    BY <2>4, <2>5, <2>6
<1>15. UpsertStays'
  <2>1. OpsSettled' = {}
    BY <1>2 DEF OpsSettled
  <2>2. \A k, id : (LastAt(k, id)' <=> LastAt(k, id)) /\ Final(id)' = Final(id)
    BY <1>4, SourceSame
  <2> QED
    BY <1>1, <1>2, <2>1, <2>2 DEF UpsertStays
<1> QED
  BY <1>6, <1>7, <1>8, <1>9, <1>10, <1>11, <1>13, <1>14, <1>15

\* The first attempt.
LEMMA ConvergeInit == ASSUME Init PROVE ConvergeInv
<1> USE DEF Init
<1>1. /\ sent = <<>> /\ settled = {} /\ wal = <<>> /\ buffer = <<>> /\ copyq = <<>>
      /\ DOMAIN sent = {} /\ DOMAIN buffer = {} /\ DOMAIN copyq = {} /\ DOMAIN wal = {} /\ Len(wal) = 0
      /\ orphans = {} /\ applied = {} /\ load = FreshLoad("start") /\ loadRunning = TRUE
      /\ rows[0] = Initial /\ docs = [id \in Ids |-> NoDoc]
  BY DEF DeliveryInit
<1>2. RowsOK
  <2>1. Body(<<0, 0>>, <<0, 0>>) # Absent
    BY BodiesAssumption, AbsentIsNoBody
  <2> QED
    BY <1>1, <2>1 DEF RowsOK, Initial
<1>3. TraceInv
  BY <1>1 DEF TraceInv, HandedTrue, OrderOK, BehindPositions, TruncatesOrder
<1>4. CopiesTrue /\ WindowsCover
  BY <1>1 DEF CopiesTrue, WindowsCover, FreshLoad
<1>5. TargetInv
  BY <1>1 DEF TargetInv, DocsTrue, DocTrue, LeftTrue, RemovedStays, UpsertStays
<1>6. SlotClean /\ SettledInWindow /\ NoAttempts
  BY <1>1 DEF SlotClean, SettledInWindow, NoAttempts
<1> QED
  BY <1>2, <1>3, <1>4, <1>5, <1>6 DEF ConvergeInv

\* Attempts are counted, and the first one has no position to keep.
Counted == restarts \in Nat /\ (restarts = 0 => kept = 0)

\* Every step but that of a new attempt leaves both as they are.
LEMMA AttemptsCounted == ASSUME Counted, [Next]_vars PROVE Counted'
<1> USE DEF Counted
<1>1. CASE NewAttempt
  BY <1>1 DEF NewAttempt
<1>2. CASE LoadStep
  BY <1>2 DEF LoadStep, ReadPosition, CopyRange, StartTable, SendMark, RecordProgress, FinishTable,
              ClearProgress, ReportLoaded, crashVars
<1>3. CASE EngineStep
  BY <1>3 DEF EngineStep, TakeBegin, TakeChange, TakeCommit, TakeKeepalive, BetweenTxns, TakeCopied,
              crashVars
<1>4. CASE SourceCommits \/ BecomesVisible \/ ConfirmSlot \/ Shutdown \/ TasksStep
  BY <1>4 DEF SourceCommits, BecomesVisible, ConfirmSlot, Shutdown, TasksStep, crashVars
<1>5. CASE OrphanLands \/ TargetForgets \/ UNCHANGED vars
  BY <1>5 DEF OrphanLands, TargetForgets, vars, crashVars
<1> QED
  BY <1>1, <1>2, <1>3, <1>4, <1>5 DEF Next

\* A step keeps the invariant, as far as its attempt repeats what it was to repeat.
LEMMA ConvergeStep ==
  ASSUME Plain, PipelineInv, ConvergeInv, Counted, [Next]_vars, [Repeats]_vars
  PROVE  ConvergeInv'
<1>1. CASE SourceCommits \/ BecomesVisible \/ ConfirmSlot
  BY <1>1, CommitConverges, ServerConverges
<1>2. CASE LoadStep
  BY <1>2, LoadStepConverges
<1>3. CASE EngineStep
  BY <1>3, EngineConverges
<1>4. CASE TasksStep
  BY <1>4, TasksConverge
<1>5. CASE OrphanLands \/ TargetForgets
  BY <1>5, OrphanConverges, ForgetConverges
<1>6. CASE Shutdown \/ UNCHANGED vars
  BY <1>6, StopConverges
<1>7. CASE NewAttempt /\ ~UNCHANGED vars
  BY <1>7, AttemptConverges DEF Repeats, Counted
<1> QED
  BY <1>1, <1>2, <1>3, <1>4, <1>5, <1>6, <1>7 DEF Next

-----------------------------------------------------------------------------
(* What has gone through everything.                                       *)

\* A row nothing has concerned was loaded.
LEMMA LoadedConverges ==
  ASSUME Plain, PipelineInv, LoadInv, ConvergeInv, Quiet, NEW id \in Ids, LastAt(0, id)
  PROVE  docs[id].val = Final(id)
<1> USE DEF PipelineInv, ConvergeInv, TargetInv
<1>1. \A m \in DOMAIN wal : ~Affects(m, id)
  BY WalFacts DEF LastAt
<1>2. docs[id].ver > 0
  <2>1. PICK w \in DOMAIN Waves : id \in Waves[w]
    BY DEF Plain
  <2>2. Loaded(w)
    BY <2>1 DEF LoadInv, NotSkippedOK, LoadIsNotSkipped, Quiet, Plain
  <2>3. \A k \in 1 .. Len(wal) : \A j \in DOMAIN wal[k] :
          ~(wal[k][j].kind = "truncate" \/ wal[k][j] = [kind |-> "delete", id |-> id])
    BY <1>1, WalFacts DEF Affects, Touches
  <2> QED
    BY <2>1, <2>2, <2>3 DEF Loaded
<1>3. PICK doc : doc = docs[id]
  OBVIOUS
<1>4. DocTrue(doc, id) /\ doc.ver \in Nat /\ doc.ver > 0
  <2>1. docs[id].ver \in Nat
    BY DEF DeliveryInv, DeliveryTypeOK, Docs, Doc
  <2> QED
    BY <1>2, <1>3, <2>1 DEF DocsTrue
<1>5. CASE OpTrue([id |-> id, val |-> doc.val, ver |-> doc.ver])
  <2>1. PICK op : op = [id |-> id, val |-> doc.val, ver |-> doc.ver]
    OBVIOUS
  <2>2. op.id = id /\ op.val = doc.val /\ op.ver >= Ver(0) /\ OpTrue(op)
    BY <1>4, <1>5, <2>1 DEF Ver
  <2>3. op.val = Final(op.id)
    BY <2>2, OpDecides
  <2> QED
    BY <1>3, <2>2, <2>3
<1>6. ~(\E k \in DOMAIN wal : Truncates(k))
  BY <1>1 DEF Truncates, Affects, Touches
<1>7. doc # NoDoc
  BY <1>4 DEF NoDoc
<1> QED
  BY <1>4, <1>5, <1>6, <1>7 DEF DocTrue

\* A row that exists is what its last change made of it.
LEMMA UpsertConverges ==
  ASSUME Plain, PipelineInv, ConvergeInv, Quiet, NEW id \in Ids, NEW k \in DOMAIN wal, LastAt(k, id),
         Final(id) # Absent
  PROVE  docs[id].val = Final(id)
<1> USE DEF PipelineInv, ConvergeInv, TargetInv
<1>1. /\ k \in Nat /\ k > 0 /\ k <= Len(wal) /\ Len(wal) \in Nat /\ Affects(k, id)
      /\ \A m \in k + 1 .. Len(wal) : ~Affects(m, id)
  BY WalFacts DEF LastAt
<1>2. rows[k][id] # Absent
  <2>1. rows[Len(wal)][id] = rows[k][id]
    <3>1. k \in 0 .. Len(wal) /\ Len(wal) \in k .. Len(wal)
      BY <1>1
    <3> QED
      BY <1>1, <3>1, RowStays
  <2> QED
    BY <2>1 DEF Final
<1>3. PICK j \in DOMAIN wal[k] : Upserts(wal[k][j], id)
  BY <1>1, <1>2 DEF RowsOK
<1>4. IsRow(k, j) /\ Seen(k, j) /\ j \in Nat
  <2>1. cur.txn > Len(wal)
    BY <1>1, StreamFacts DEF Quiet, Streaming
  <2>2. k < cur.txn
    BY <1>1, <2>1, StreamFacts
  <2>3. j \in Nat
    BY WalFacts
  <2> QED
    BY <1>3, <2>2, <2>3 DEF IsRow, Seen, Upserts
<1>5. HandedBy(Len(sent), k, j)
  <2>1. ~InOps(buffer, k, j)
    BY DEF InOps, Quiet
  <2> QED
    BY <1>1, <1>4, <2>1 DEF StreamedOK
<1>6. \E op \in applied \cup OpsSettled : IsChange(op, k, j)
  <2>1. ASSUME NEW i \in 1 .. Len(sent), NEW m \in DOMAIN sent[i].ops, IsChange(sent[i].ops[m], k, j)
        PROVE  \E op \in OpsSettled : IsChange(op, k, j)
    <3>1. i \in DOMAIN sent /\ i <= finished
      BY DEF Quiet, DeliveryInv
    <3>2. <<i, m>> \in settled
      BY <3>1, AheadIsSettled
    <3>3. sent[i].ops[m] \in OpsSettled
      BY <3>2 DEF OpsSettled
    <3> QED
      BY <2>1, <3>3
  <2> QED
    BY <1>5, <2>1 DEF HandedBy, InOps
<1>7. docs[id].ver >= Ver(k) /\ docs[id].val # Absent
  BY <1>3, <1>6 DEF IsChange, Upserts, UpsertStays
<1>8. PICK doc : doc = docs[id]
  OBVIOUS
<1>9. DocTrue(doc, id) /\ doc.ver >= Ver(k) /\ doc.val # Absent
  BY <1>7, <1>8 DEF DocsTrue
<1>10. OpTrue([id |-> id, val |-> doc.val, ver |-> doc.ver])
  BY <1>9 DEF DocTrue, NoDoc
<1>11. PICK op : op = [id |-> id, val |-> doc.val, ver |-> doc.ver]
  OBVIOUS
<1>12. op.id = id /\ op.val = doc.val /\ op.ver >= Ver(k) /\ OpTrue(op)
  BY <1>9, <1>10, <1>11
<1>13. op.val = Final(op.id)
  BY <1>12, OpDecides
<1> QED
  BY <1>8, <1>12, <1>13

\* A row that is gone is gone from the target.
LEMMA RemovalConverges ==
  ASSUME Plain, PipelineInv, ConvergeInv, Quiet, NEW id \in Ids, NEW k \in DOMAIN wal, LastAt(k, id),
         Final(id) = Absent
  PROVE  docs[id].val = Absent
<1> USE DEF PipelineInv, ConvergeInv, TargetInv
<1>1. /\ k \in Nat /\ k > 0 /\ k <= Len(wal) /\ Len(wal) \in Nat
      /\ \A m \in k + 1 .. Len(wal) : ~Affects(m, id)
  BY WalFacts DEF LastAt
<1>2. rows[k][id] = Absent
  <2>1. rows[Len(wal)][id] = rows[k][id]
    <3>1. k \in 0 .. Len(wal) /\ Len(wal) \in k .. Len(wal)
      BY <1>1
    <3> QED
      BY <1>1, <3>1, RowStays
  <2> QED
    BY <2>1 DEF Final
<1>3. PICK j \in DOMAIN wal[k] : Touches(wal[k][j], id)
  BY <1>1 DEF LastAt, Affects
<1>4. Removes(wal[k][j], id)
  <2>1. wal[k] \in TxnShapes /\ wal[k][j] \in Change
    BY WalFacts
  <2>2. wal[k][j].kind # "touch"
    BY <2>1 DEF Plain
  <2>3. ~Upserts(wal[k][j], id)
    <3>1. Body(<<k, j>>, <<k, j>>) # Absent
      BY BodyIsThere
    <3>2. Upserts(wal[k][j], id) => rows[k][id] = Body(<<k, j>>, <<k, j>>)
      BY DEF RowsOK
    <3> QED
      BY <1>2, <3>1, <3>2
  <2>4. wal[k][j].kind \in {"upsert", "touch", "delete", "truncate"}
    BY <2>1 DEF Change
  <2> QED
    BY <1>3, <2>2, <2>3, <2>4 DEF Removes, Touches, Upserts
<1>5. Removed(k, id)
  <2>1. cur.txn > Len(wal)
    BY <1>1, StreamFacts DEF Quiet, Streaming
  <2>2. k < cur.txn
    BY <1>1, <2>1, StreamFacts
  <2> QED
    BY <1>4, <2>2 DEF Removed, Seen
<1>6. ~Pend(k, id)
  <2>1. ~RemOps(buffer, k, id)
    BY DEF RemOps, Quiet
  <2>2. \A x \in DOMAIN sent : x <= finished /\ ~(x > finished)
    BY DEF Quiet, DeliveryInv, DeliveryTypeOK
  <2>3. \A x \in DOMAIN sent : ~PendAt(x, k, id)
    BY <2>2, AheadIsSettled DEF PendAt
  <2> QED
    BY <2>1, <2>3 DEF Pend
<1>7. Tomb(k, id) \/ Clean(id)
  BY <1>5, <1>6 DEF RemovedStays
<1> QED
  BY <1>7 DEF Tomb, Clean

\* So the table and the index agree.
LEMMA ConvergedWhenQuiet ==
  ASSUME Plain, PipelineInv, LoadInv, ConvergeInv PROVE Converges
<1> SUFFICES ASSUME Quiet, NEW id \in Ids PROVE docs[id].val = Final(id)
  BY DEF Converges, Final
<1>1. PICK k \in 0 .. Len(wal) : LastAt(k, id)
  BY HasLast DEF PipelineInv
<1>2. CASE k = 0
  BY <1>1, <1>2, LoadedConverges
<1>3. CASE k # 0
  <2>1. k \in DOMAIN wal
    BY <1>3, WalFacts DEF PipelineInv
  <2> QED
    BY <1>1, <2>1, UpsertConverges, RemovalConverges
<1> QED
  BY <1>2, <1>3

\* The promise of the whole pipeline: once everything the source committed has
\* gone through, the index holds the table.  No change is lost, none is applied
\* over a newer one, and no removed row comes back, not by the load beside the
\* stream, the batching, a request repeated or left open, an attempt that starts
\* again behind the slot, or a tombstone the target has forgotten; as far as an
\* attempt that starts with a kept position repeats what that covers.
THEOREM PipelineConverges == Plain => (Spec /\ [][Repeats]_vars => []Converges)
<1> SUFFICES ASSUME Plain PROVE Spec /\ [][Repeats]_vars => []Converges
  OBVIOUS
<1> DEFINE Inv == ConvergeInv /\ Counted
<1>1. Init => Inv
  <2>1. Init => Counted
    BY DEF Init, Counted
  <2> QED
    BY <2>1, ConvergeInit
<1>2. PipelineInv /\ Inv /\ [Next]_vars /\ [Repeats]_vars => Inv'
  BY ConvergeStep, AttemptsCounted
<1>3. PipelineInv /\ LoadInv /\ Inv => Converges
  BY ConvergedWhenQuiet
<1>4. Spec => []LoadInv
  BY LoadInvariant DEF Plain
<1> HIDE DEF Inv
<1> QED
  BY <1>1, <1>2, <1>3, <1>4, PipelineInvariant, PTL DEF Spec

\* The first attempt, and the one that follows it, start with nothing kept, so of
\* them it is true without more.
THEOREM RestartConverges == Plain /\ MaxRestarts <= 1 => (Spec => []Converges)
<1> SUFFICES ASSUME Plain, MaxRestarts <= 1 PROVE Spec => []Converges
  OBVIOUS
<1>1. Init => Counted
  BY DEF Init, Counted
<1>2. Counted /\ [Next]_vars => Counted'
  BY AttemptsCounted
<1>3. PipelineInv /\ Counted /\ [Next]_vars => [Repeats]_vars
  <2> SUFFICES ASSUME PipelineInv, Counted, NewAttempt PROVE kept <= acked
    BY DEF Repeats
  <2>1. restarts < MaxRestarts /\ restarts \in Nat /\ MaxRestarts \in Nat
    BY PipelineAssumption DEF NewAttempt, Counted
  <2>2. kept = 0
    BY <2>1 DEF Counted
  <2>3. acked \in Nat
    BY DEF PipelineInv, DeliveryInv, DeliveryTypeOK
  <2> QED
    BY <2>2, <2>3
<1>4. Spec => [][Repeats]_vars
  BY <1>1, <1>2, <1>3, PipelineInvariant, PTL DEF Spec
<1>5. Spec /\ [][Repeats]_vars => []Converges
  BY PipelineConverges
<1> QED
  BY <1>4, <1>5, PTL
=============================================================================
