--------------------------- MODULE DeliveryProofs ---------------------------
(***************************************************************************)
(* Proofs about the delivery contract, for every set of commands, channel  *)
(* capacity, write concurrency and rejection policy.                       *)
(*                                                                         *)
(* The inductive invariant says what the safety properties leave implicit: *)
(* the commands accounted for form a prefix of those handed over, all of   *)
(* it settled; positions and marks come in order; and each published       *)
(* number is the position or mark of a command in that prefix, the         *)
(* acknowledged one being the highest.                                     *)
(***************************************************************************)
EXTENDS Delivery, TLAPS, WellFoundedInduction

\* The prefix that is accounted for has had its effect.
PrefixSettled == \A i \in 1 .. finished : OpsOf(i, Positions(i)) \subseteq settled

\* Positions never go back along the channel, and marks go up.
ChannelInOrder ==
  \A m, n \in DOMAIN sent : m < n =>
    /\ CarriesPosition(sent[m]) /\ CarriesPosition(sent[n]) => sent[m].pos <= sent[n].pos
    /\ sent[m].kind = "mark" /\ sent[n].kind = "mark" => sent[m].pos < sent[n].pos

\* What is published comes from the prefix that is accounted for.
AckedFromPrefix ==
  /\ acked = 0 \/ \E n \in 1 .. finished : CarriesPosition(sent[n]) /\ sent[n].pos = acked
  /\ \A n \in 1 .. finished : CarriesPosition(sent[n]) => sent[n].pos <= acked

MarkFromPrefix ==
  loadDone = 0 \/ \E n \in 1 .. finished : sent[n].kind = "mark" /\ sent[n].pos = loadDone

CheckpointFromPrefix ==
  /\ persisted <= acked
  /\ durable <= persisted

\* What a command is, whoever hands it over.
WellFormed == {c \in Command : /\ c.kind # "write" => c.ops = <<>>
                               /\ c.kind = "mark" => c.pos > 0}

DeliveryInv ==
  /\ DeliveryTypeOK
  /\ sent \in Seq(WellFormed)
  /\ PrefixSettled
  /\ ChannelInOrder
  /\ AckedFromPrefix
  /\ MarkFromPrefix
  /\ CheckpointFromPrefix

-----------------------------------------------------------------------------
(* Least and greatest elements of sets of numbers.                         *)

\* What an induction over the numbers would be used for: the first of them, or
\* the last, with some property.
LEMMA LeastOf ==
  ASSUME NEW T \in SUBSET Nat, T # {}
  PROVE  \E x \in T : \A y \in T : x <= y
<1> DEFINE Less == {p \in Nat \X Nat : p[1] < p[2]}
<1>1. IsWellFoundedOn(Less, Nat)
  BY NatLessThanWellFounded DEF OpToRel
<1>2. PICK x \in T : \A y \in T : <<y, x>> \notin Less
  <2> HIDE DEF Less
  <2> QED
    BY <1>1, WFMin
<1>3. \A y \in T : ~(y < x)
  BY <1>2
<1> QED
  BY <1>3

\* The last of a bounded set is the first one counted from its bound.
LEMMA GreatestOf ==
  ASSUME NEW n \in Nat, NEW T \in SUBSET (0 .. n), T # {}
  PROVE  \E x \in T : \A y \in T : y <= x
<1> DEFINE U == {n - y : y \in T}
<1>1. U \in SUBSET Nat /\ U # {}
  <2>1. \A y \in T : y \in Nat /\ y <= n /\ n - y \in Nat
    OBVIOUS
  <2>2. PICK y \in T : TRUE
    OBVIOUS
  <2>3. n - y \in U
    OBVIOUS
  <2> QED
    BY <2>1, <2>3
<1>2. PICK u \in U : \A v \in U : u <= v
  BY <1>1, LeastOf
<1>3. PICK x \in T : u = n - x
  OBVIOUS
<1>4. ASSUME NEW y \in T PROVE y <= x
  <2>1. u <= n - y
    BY <1>2
  <2> QED
    BY <1>3, <2>1
<1> QED
  BY <1>4

-----------------------------------------------------------------------------
(* The target's operators keep a store a store.                            *)

\* A bulk request turns a store into a store, whichever of its actions are
\* executed.
LEMMA WriteType ==
  ASSUME NEW d \in Docs, NEW ops \in Seq(Op), NEW S \in SUBSET (DOMAIN ops)
  PROVE  Write(d, ops, S) \in Docs
<1> SUFFICES ASSUME NEW id \in Ids
             PROVE  (IF Winner(d, ops, S, id) = {} THEN d[id]
                     ELSE LET k == CHOOSE w \in Winner(d, ops, S, id) : TRUE
                          IN  [val |-> ops[k].val, ver |-> ops[k].ver]) \in Doc
  BY DEF Write, Docs
<1>1. CASE Winner(d, ops, S, id) = {}
  BY <1>1 DEF Docs
<1>2. CASE Winner(d, ops, S, id) # {}
  <2> DEFINE k == CHOOSE w \in Winner(d, ops, S, id) : TRUE
  <2>1. k \in DOMAIN ops
    BY <1>2 DEF Winner
  <2>2. ops[k] \in Op
    BY <2>1
  <2> QED
    BY <1>2, <2>2 DEF Op, Doc
<1> QED
  BY <1>1, <1>2

\* Clearing an index turns a store into a store, also when it stops part-way.
LEMMA TruncateType ==
  ASSUME NEW d \in Docs, NEW ver \in Nat, NEW S
  PROVE  Truncate(d, ver, S) \in Docs
BY DEF Truncate, Docs, Doc

\* A command handed over is a command, its positions are natural numbers.
LEMMA SentType ==
  ASSUME DeliveryInv, NEW i \in DOMAIN sent
  PROVE  /\ sent[i] \in Command
         /\ i \in Nat \ {0} /\ i <= Len(sent)
         /\ Positions(i) \subseteq Nat
         /\ sent[i].ops \in Seq(Op)
         /\ sent[i].pos \in Nat
         /\ sent[i].kind = "mark" => sent[i].pos > 0
         /\ ~IsWrite(i) => Positions(i) = {}
<1>1. /\ sent[i] \in Command
      /\ sent[i].kind = "mark" => sent[i].pos > 0
      /\ sent[i].kind # "write" => sent[i].ops = <<>>
  <2>1. sent[i] \in WellFormed
    BY DEF DeliveryInv
  <2> QED
    BY <2>1 DEF WellFormed
<1>2. i \in Nat \ {0} /\ i <= Len(sent)
  BY DEF DeliveryInv
<1> QED
  BY <1>1, <1>2 DEF Command, Positions, IsWrite

-----------------------------------------------------------------------------
(* What a bulk request does to one document.                               *)

\* It leaves it alone, being newer than every operation that is executed, or
\* makes it what the last of the newest ones says.
WroteNothing(d, ops, S, id) ==
  /\ Write(d, ops, S)[id] = d[id]
  /\ \A j \in S : ops[j].id = id => ops[j].ver < d[id].ver

WroteLast(d, ops, S, id, k) ==
  /\ ops[k].id = id /\ ops[k].ver >= d[id].ver
  /\ Write(d, ops, S)[id] = [val |-> ops[k].val, ver |-> ops[k].ver]
  /\ \A j \in S : ops[j].id = id =>
       ops[j].ver < ops[k].ver \/ (ops[j].ver = ops[k].ver /\ j <= k)

\* Whichever of its operations are executed, and in whatever order the answers
\* come, these are the two outcomes.
LEMMA WriteEffect ==
  ASSUME NEW d \in Docs, NEW ops \in Seq(Op), NEW S \in SUBSET (DOMAIN ops), NEW id \in Ids
  PROVE  WroteNothing(d, ops, S, id) \/ \E k \in S : WroteLast(d, ops, S, id, k)
<1> DEFINE W == Winner(d, ops, S, id)
           T == {k \in S : ops[k].id = id /\ Taken(d, ops, S, k)}
<1>1. /\ S \subseteq 1 .. Len(ops) /\ Len(ops) \in Nat
      /\ \A k \in S : k \in Nat /\ ops[k] \in Op /\ ops[k].ver \in Nat
      /\ d[id].ver \in Nat
  <2>1. \A k \in S : k \in 1 .. Len(ops) /\ ops[k] \in Op
    OBVIOUS
  <2>2. d[id] \in Doc
    BY DEF Docs
  <2> QED
    BY <2>1, <2>2 DEF Op, Doc
<1>2. Write(d, ops, S)[id] =
        IF W = {} THEN d[id]
        ELSE LET k == CHOOSE w \in W : TRUE IN [val |-> ops[k].val, ver |-> ops[k].ver]
  BY DEF Write
<1>3. CASE W = {}
  <2>1. T = {}
    <3> SUFFICES ASSUME T # {} PROVE FALSE
      OBVIOUS
    <3>1. T \in SUBSET (0 .. Len(ops))
      BY <1>1
    <3>2. PICK k \in T : \A j \in T : j <= k
      BY <1>1, <3>1, GreatestOf
    <3>3. k \in W
      BY <1>1, <3>2 DEF Winner
    <3> QED
      BY <1>3, <3>3
  <2> DEFINE N == {k \in S : ops[k].id = id /\ ops[k].ver >= d[id].ver}
  <2>2. N = {}
    <3> SUFFICES ASSUME N # {} PROVE FALSE
      OBVIOUS
    <3>1. N \in SUBSET Nat
      BY <1>1
    <3>2. PICK k \in N : \A j \in N : k <= j
      BY <3>1, LeastOf
    <3>3. ASSUME NEW j \in S, j < k, ops[j].id = id PROVE ops[j].ver <= ops[k].ver
      BY <1>1, <3>2, <3>3
    <3>4. k \in T
      BY <3>2, <3>3 DEF Taken
    <3> QED
      BY <2>1, <3>4
  <2> QED
    BY <1>1, <1>2, <1>3, <2>2 DEF WroteNothing
<1>4. CASE W # {}
  <2> DEFINE k == CHOOSE w \in W : TRUE
  <2>1. k \in W
    BY <1>4
  <2>2. k \in S /\ ops[k].id = id /\ Taken(d, ops, S, k)
        /\ \A j \in S : j > k /\ ops[j].id = id => ~Taken(d, ops, S, j)
    BY <2>1 DEF Winner
  <2>3. Write(d, ops, S)[id] = [val |-> ops[k].val, ver |-> ops[k].ver]
    BY <1>2, <1>4
  <2> HIDE DEF k
  <2> DEFINE N == {j \in S : ops[j].id = id /\ j > k /\ ops[j].ver >= ops[k].ver}
  <2>4. N = {}
    <3> SUFFICES ASSUME N # {} PROVE FALSE
      OBVIOUS
    <3>1. N \in SUBSET Nat
      BY <1>1
    <3>2. PICK j \in N : \A i \in N : j <= i
      BY <3>1, LeastOf
    <3>3. ASSUME NEW i \in S, i < j, ops[i].id = ops[j].id PROVE ops[i].ver <= ops[j].ver
      <4>1. CASE i > k
        BY <1>1, <2>2, <3>2, <3>3, <4>1
      <4>2. CASE i = k
        BY <1>1, <3>2, <4>2
      <4>3. CASE i < k
        BY <1>1, <2>2, <3>2, <3>3, <4>3 DEF Taken
      <4> QED
        BY <1>1, <2>2, <4>1, <4>2, <4>3
    <3>4. Taken(d, ops, S, j)
      BY <1>1, <2>2, <3>2, <3>3 DEF Taken
    <3> QED
      BY <2>2, <3>2, <3>4
  <2>5. ASSUME NEW j \in S, ops[j].id = id
        PROVE  ops[j].ver < ops[k].ver \/ (ops[j].ver = ops[k].ver /\ j <= k)
    <3>1. CASE j > k
      BY <1>1, <2>2, <2>4, <2>5, <3>1
    <3>2. CASE j < k
      BY <1>1, <2>2, <2>5, <3>2 DEF Taken
    <3>3. CASE j = k
      BY <1>1, <2>2, <3>3
    <3> QED
      BY <1>1, <2>2, <3>1, <3>2, <3>3
  <2> QED
    BY <2>2, <2>3, <2>5 DEF WroteLast, Taken
<1> QED
  BY <1>3, <1>4

-----------------------------------------------------------------------------
(* The invariant is inductive: one lemma per group of actions.             *)

\* Nothing has been handed over.
LEMMA DeliveryInitInv == DeliveryInit => DeliveryInv
<1> SUFFICES ASSUME DeliveryInit
             PROVE  DeliveryInv
  OBVIOUS
<1>1. docs \in Docs
  BY DEF DeliveryInit, Docs, Doc, NoDoc
<1>2. sent \in Seq(Command) /\ sent \in Seq(WellFormed) /\ Len(sent) = 0 /\ DOMAIN sent = {}
  BY DEF DeliveryInit
<1>3. DeliveryTypeOK
  <2>1. closed \in BOOLEAN /\ settled \subseteq Nat \X Nat
    BY DEF DeliveryInit
  <2>2. /\ finished \in 0 .. Len(sent)
        /\ sink \in {"running", "halted", "done"}
        /\ acked \in Nat /\ loadDone \in Nat /\ persisted \in Nat /\ durable \in Nat
    BY <1>2 DEF DeliveryInit, StartOutcomes
  <2> QED
    BY <1>1, <1>2, <2>1, <2>2 DEF DeliveryTypeOK
<1> QED
  BY <1>2, <1>3 DEF DeliveryInv, DeliveryInit, PrefixSettled, ChannelInOrder, AckedFromPrefix,
                    MarkFromPrefix, CheckpointFromPrefix

\* Command c may come behind command b.
Follows(b, c) ==
  /\ CarriesPosition(b) /\ CarriesPosition(c) => b.pos <= c.pos
  /\ b.kind = "mark" /\ c.kind = "mark" => b.pos < c.pos

\* Handing over commands that are in order.
LEMMA HandsInv ==
  ASSUME DeliveryInv, NEW cmds \in Seq(WellFormed), sent' = sent \o cmds,
         UNCHANGED <<closed, finished, sink, docs, settled, acked, loadDone, persisted, durable>>,
         \A i \in DOMAIN sent, n \in DOMAIN cmds : Follows(sent[i], cmds[n]),
         \A m, n \in DOMAIN cmds : m < n => Follows(cmds[m], cmds[n])
  PROVE  DeliveryInv'
<1>1. /\ sent' \in Seq(WellFormed)
      /\ DOMAIN sent = 1 .. Len(sent) /\ Len(sent) \in Nat
      /\ DOMAIN cmds = 1 .. Len(cmds) /\ Len(cmds) \in Nat
      /\ Len(sent') = Len(sent) + Len(cmds)
      /\ DOMAIN sent' = 1 .. Len(sent) + Len(cmds)
      /\ \A i \in 1 .. Len(sent) : sent'[i] = sent[i]
      /\ \A i \in DOMAIN sent' : i > Len(sent) =>
           i - Len(sent) \in DOMAIN cmds /\ sent'[i] = cmds[i - Len(sent)]
  BY DEF DeliveryInv
<1>2. sent' \in Seq(Command)
  <2>1. WellFormed \subseteq Command
    BY DEF WellFormed
  <2> QED
    BY <1>1, <2>1
<1>3. finished \in Nat /\ finished <= Len(sent)
  BY <1>1 DEF DeliveryInv, DeliveryTypeOK
<1>4. \A i \in 1 .. finished : i \in 1 .. Len(sent) /\ sent'[i] = sent[i]
  BY <1>1, <1>3
<1>5. DeliveryTypeOK'
  BY <1>1, <1>2, <1>3 DEF DeliveryInv, DeliveryTypeOK
<1>6. PrefixSettled'
  BY <1>4 DEF DeliveryInv, PrefixSettled, OpsOf, Positions
<1>7. ChannelInOrder'
  <2> SUFFICES ASSUME NEW m \in DOMAIN sent', NEW n \in DOMAIN sent', m < n
               PROVE  Follows(sent'[m], sent'[n])
    BY DEF ChannelInOrder, Follows
  <2>1. CASE n <= Len(sent)
    <3>1. m \in DOMAIN sent /\ n \in DOMAIN sent /\ sent'[m] = sent[m] /\ sent'[n] = sent[n]
      BY <1>1, <2>1
    <3> QED
      BY <3>1 DEF DeliveryInv, ChannelInOrder, Follows
  <2>2. CASE m <= Len(sent) /\ n > Len(sent)
    BY <1>1, <2>2
  <2>3. CASE m > Len(sent) /\ n > Len(sent)
    BY <1>1, <2>3
  <2> QED
    BY <1>1, <2>1, <2>2, <2>3
<1>8. AckedFromPrefix' /\ MarkFromPrefix' /\ CheckpointFromPrefix'
  BY <1>4 DEF DeliveryInv, AckedFromPrefix, MarkFromPrefix, CheckpointFromPrefix
<1> QED
  BY <1>1, <1>5, <1>6, <1>7, <1>8 DEF DeliveryInv

\* The engine of the contract hands over one command at a time.
LEMMA SendsInv == ASSUME DeliveryInv, EngineSends PROVE DeliveryInv'
<1>1. PICK c \in Commands : InOrder(c) /\ sent' = Append(sent, c)
  BY DEF EngineSends
<1>2. c \in WellFormed
  BY DeliveryAssumption DEF WellFormed
<1>3. <<c>> \in Seq(WellFormed) /\ sent' = sent \o <<c>> /\ DOMAIN <<c>> = {1} /\ <<c>>[1] = c
  BY <1>1, <1>2 DEF DeliveryInv
<1>4. \A i \in DOMAIN sent : Follows(sent[i], c)
  BY <1>1 DEF InOrder, Follows
<1>5. UNCHANGED <<closed, finished, sink, docs, settled, acked, loadDone, persisted, durable>>
  BY DEF EngineSends, accountVars, targetVars, ckptDocVars
<1>6. PICK cmds : cmds = <<c>>
  OBVIOUS
<1>7. \A n \in DOMAIN cmds : n = 1 /\ cmds[n] = c
  BY <1>3, <1>6
<1>8. \A m, n \in DOMAIN cmds : ~(m < n)
  BY <1>7
<1> QED
  BY <1>3, <1>4, <1>5, <1>6, <1>7, <1>8, HandsInv

\* Steps that account for nothing: they leave the channel, the account and the
\* checkpoint alone, and what is settled stays settled.
LEMMA QuietInv ==
  ASSUME DeliveryInv,
         UNCHANGED <<sent, finished, acked, loadDone, persisted, durable>>,
         closed' \in BOOLEAN,
         sink' \in {"running", "halted", "done"},
         docs' \in Docs,
         settled \subseteq settled', settled' \subseteq Nat \X Nat
  PROVE  DeliveryInv'
<1>1. DeliveryTypeOK'
  BY DEF DeliveryInv, DeliveryTypeOK
<1>2. PrefixSettled'
  BY DEF DeliveryInv, PrefixSettled, OpsOf, Positions
<1>3. ChannelInOrder' /\ AckedFromPrefix' /\ MarkFromPrefix' /\ CheckpointFromPrefix'
  BY DEF DeliveryInv, ChannelInOrder, AckedFromPrefix, MarkFromPrefix, CheckpointFromPrefix
<1> QED
  BY <1>1, <1>2, <1>3 DEF DeliveryInv

\* The pairs a write adds to the settled ones are well-typed.
LEMMA OpsOfType ==
  ASSUME DeliveryInv, NEW i \in DOMAIN sent, NEW S \in SUBSET Positions(i)
  PROVE  OpsOf(i, S) \subseteq Nat \X Nat
BY SentType DEF OpsOf

\* The steps of the sink side that settle operations or give up.
LEMMA SettleInv ==
  ASSUME DeliveryInv,
         \/ EngineCloses
         \/ \E i \in DOMAIN sent : \E S \in SUBSET Positions(i) : Try(i, S)
         \/ \E i \in DOMAIN sent : \E R \in SUBSET Positions(i) : Answer(i, R)
         \/ GiveUpWrite \/ GiveUpTruncate \/ SinkEnds
  PROVE  DeliveryInv'
<1> USE DEF channelVars, accountVars, targetVars, ckptDocVars
<1>0. /\ closed \in BOOLEAN /\ docs \in Docs
      /\ sink \in {"running", "halted", "done"}
      /\ settled \subseteq Nat \X Nat
  BY DEF DeliveryInv, DeliveryTypeOK
<1>1. CASE EngineCloses
  <2>1. closed' \in BOOLEAN
    BY <1>1 DEF EngineCloses
  <2> QED
    BY <1>0, <1>1, <2>1, QuietInv DEF EngineCloses
<1>2. CASE \E i \in DOMAIN sent : \E S \in SUBSET Positions(i) : Try(i, S)
  <2> PICK i \in DOMAIN sent : \E S \in SUBSET Positions(i) : Try(i, S)
    BY <1>2
  <2> PICK S \in SUBSET Positions(i) : Try(i, S)
    OBVIOUS
  <2>1. docs' \in Docs
    BY <1>0, SentType, WriteType DEF Try, Positions
  <2> QED
    BY <1>0, <2>1, QuietInv DEF Try
<1>3. CASE \E i \in DOMAIN sent : \E R \in SUBSET Positions(i) : Answer(i, R)
  <2> PICK i \in DOMAIN sent : \E R \in SUBSET Positions(i) : Answer(i, R)
    BY <1>3
  <2> PICK R \in SUBSET Positions(i) : Answer(i, R)
    OBVIOUS
  <2>1. docs' \in Docs
    <3>1. Positions(i) \ R \in SUBSET DOMAIN sent[i].ops
      BY DEF Positions
    <3> QED
      BY <1>0, <3>1, SentType, WriteType DEF Answer
  <2>2. settled \subseteq settled' /\ settled' \subseteq Nat \X Nat
    BY <1>0, OpsOfType DEF Answer
  <2> QED
    BY <1>0, <2>1, <2>2, QuietInv DEF Answer
<1>4. CASE GiveUpWrite
  <2>1. settled \subseteq settled' /\ settled' \subseteq Nat \X Nat
    <3>1. CASE UNCHANGED settled
      BY <1>0, <3>1
    <3>2. CASE AtFront("write") /\ \E F \in SUBSET Positions(Oldest) : settled' = settled \cup OpsOf(Oldest, F)
      BY <1>0, <3>2, OpsOfType DEF AtFront
    <3> QED
      BY <1>4, <3>1, <3>2 DEF GiveUpWrite
  <2> QED
    BY <1>0, <1>4, <2>1, QuietInv DEF GiveUpWrite, GiveUp
<1>5. CASE GiveUpTruncate
  <2>1. docs' \in Docs
    BY <1>0, <1>5, SentType, TruncateType DEF GiveUpTruncate, AtFront
  <2> QED
    BY <1>0, <1>5, <2>1, QuietInv DEF GiveUpTruncate, GiveUp
<1>6. CASE SinkEnds
  BY <1>0, <1>6, QuietInv DEF SinkEnds
<1> QED
  BY <1>1, <1>2, <1>3, <1>4, <1>5, <1>6

\* Accounting for the oldest command: it joins the prefix, settled, and what it
\* publishes is the highest position or mark so far.
LEMMA AccountInv ==
  ASSUME DeliveryInv,
         AccountWrite \/ AccountPosition \/ AccountMark \/ AccountTruncate
  PROVE  DeliveryInv'
<1> USE DEF channelVars, accountVars, targetVars, ckptDocVars
<1>0. /\ sent' = sent /\ closed' = closed /\ sink' = sink
      /\ persisted' = persisted /\ durable' = durable
      /\ Oldest \in DOMAIN sent
      /\ finished' = Oldest
      /\ acked' = AckOf(sent[Oldest])
  BY DEF AccountWrite, AccountPosition, AccountMark, AccountTruncate, Account, AtFront
<1>1. /\ Oldest = finished + 1 /\ finished \in Nat /\ Oldest <= Len(sent)
      /\ DOMAIN sent = 1 .. Len(sent) /\ Len(sent) \in Nat
      /\ sent[Oldest] \in Command /\ sent[Oldest].pos \in Nat
      /\ acked \in Nat
  BY <1>0, SentType DEF DeliveryInv, DeliveryTypeOK, Oldest
<1>2. \A n \in 1 .. finished : n \in DOMAIN sent /\ n < Oldest /\ sent[n].pos \in Nat
  <2> SUFFICES ASSUME NEW n \in 1 .. finished
               PROVE  n \in DOMAIN sent /\ n < Oldest /\ sent[n].pos \in Nat
    OBVIOUS
  <2>1. n \in DOMAIN sent /\ n < Oldest
    BY <1>1
  <2> QED
    BY <2>1, SentType
<1>3. \A n \in 1 .. Oldest : n = Oldest \/ n \in 1 .. finished
  BY <1>1
<1>4. docs' \in Docs
  <2>1. docs \in Docs
    BY DEF DeliveryInv, DeliveryTypeOK
  <2>2. CASE AccountTruncate
    BY <2>1, <2>2, <1>1, TruncateType DEF AccountTruncate
  <2> QED
    BY <2>1, <2>2 DEF AccountWrite, AccountPosition, AccountMark
<1>5. /\ settled \subseteq settled' /\ settled' \subseteq Nat \X Nat
      /\ OpsOf(Oldest, Positions(Oldest)) \subseteq settled'
  <2>1. settled \subseteq Nat \X Nat
    BY DEF DeliveryInv, DeliveryTypeOK
  <2>2. CASE AccountWrite
    <3>1. OpsOf(Oldest, Positions(Oldest)) \subseteq Nat \X Nat
      BY <1>0, OpsOfType
    <3> QED
      BY <2>1, <2>2, <3>1 DEF AccountWrite
  <2>3. CASE AccountPosition \/ AccountMark \/ AccountTruncate
    <3>1. ~IsWrite(Oldest) /\ settled' = settled
      BY <2>3 DEF AccountPosition, AccountMark, AccountTruncate, AtFront, IsWrite
    <3>2. OpsOf(Oldest, Positions(Oldest)) = {}
      BY <1>0, <3>1, SentType DEF OpsOf
    <3> QED
      BY <2>1, <3>1, <3>2
  <2> QED
    BY <2>2, <2>3
<1>6. acked' \in Nat /\ acked <= acked' /\ AckedFromPrefix'
  <2>1. CASE CarriesPosition(sent[Oldest])
    <3>1. acked' = sent[Oldest].pos
      BY <1>0, <2>1 DEF AckOf
    <3>2. \A n \in 1 .. finished : CarriesPosition(sent[n]) => sent[n].pos <= sent[Oldest].pos
      BY <1>0, <1>2, <2>1 DEF DeliveryInv, ChannelInOrder
    <3>3. acked <= acked'
      BY <1>1, <1>2, <3>1, <3>2 DEF DeliveryInv, AckedFromPrefix
    <3>4. \A n \in 1 .. Oldest : CarriesPosition(sent[n]) => sent[n].pos <= acked'
      BY <1>1, <1>3, <3>1, <3>2
    <3> QED
      BY <1>0, <1>1, <2>1, <3>1, <3>3, <3>4 DEF AckedFromPrefix
  <2>2. CASE ~CarriesPosition(sent[Oldest])
    <3>1. acked' = acked
      BY <1>0, <2>2 DEF AckOf
    <3> QED
      BY <1>0, <1>1, <1>2, <1>3, <2>2, <3>1 DEF DeliveryInv, AckedFromPrefix
  <2> QED
    BY <2>1, <2>2
<1>7. loadDone' \in Nat /\ MarkFromPrefix'
  <2>1. CASE AccountMark
    BY <1>0, <1>1, <2>1 DEF AccountMark, AtFront, MarkFromPrefix
  <2>2. CASE loadDone' = loadDone
    BY <1>0, <1>1, <1>2, <2>2 DEF DeliveryInv, DeliveryTypeOK, MarkFromPrefix
  <2> QED
    BY <2>1, <2>2 DEF AccountWrite, AccountPosition, AccountTruncate
<1>8. DeliveryTypeOK'
  BY <1>0, <1>1, <1>4, <1>5, <1>6, <1>7 DEF DeliveryInv, DeliveryTypeOK
<1>9. PrefixSettled'
  BY <1>0, <1>3, <1>5 DEF DeliveryInv, PrefixSettled, OpsOf, Positions
<1>10. ChannelInOrder' /\ CheckpointFromPrefix'
  BY <1>0, <1>1, <1>6 DEF DeliveryInv, DeliveryTypeOK, ChannelInOrder, CheckpointFromPrefix
<1> QED
  BY <1>0, <1>6, <1>7, <1>8, <1>9, <1>10 DEF DeliveryInv

\* The checkpoint document takes an acknowledged position, and the durable
\* position follows it.
LEMMA CheckpointInv == ASSUME DeliveryInv, Persist \/ Publish PROVE DeliveryInv'
<1> USE DEF channelVars, accountVars, targetVars, ckptDocVars
<1>1. UNCHANGED <<sent, closed, finished, sink, docs, settled, acked, loadDone>>
  BY DEF Persist, Publish
<1>2. persisted' \in Nat /\ durable' \in Nat /\ CheckpointFromPrefix'
  <2>1. CASE Persist
    <3> PICK p \in Acknowledged : persisted <= p /\ persisted' = p
      BY <2>1 DEF Persist
    <3>1. PICK n \in 1 .. finished : CarriesPosition(sent[n]) /\ p = sent[n].pos
      BY DEF Acknowledged
    <3>2. n \in DOMAIN sent
      BY DEF DeliveryInv, DeliveryTypeOK
    <3>3. p \in Nat /\ p <= acked
      BY <3>1, <3>2, SentType DEF DeliveryInv, AckedFromPrefix
    <3> QED
      BY <2>1, <3>3, <1>1 DEF Persist, DeliveryInv, DeliveryTypeOK, CheckpointFromPrefix
  <2>2. CASE Publish
    BY <2>2, <1>1 DEF Publish, DeliveryInv, DeliveryTypeOK, CheckpointFromPrefix
  <2> QED
    BY <2>1, <2>2
<1>3. DeliveryTypeOK'
  BY <1>1, <1>2 DEF DeliveryInv, DeliveryTypeOK
<1>4. PrefixSettled' /\ ChannelInOrder' /\ AckedFromPrefix' /\ MarkFromPrefix'
  BY <1>1 DEF DeliveryInv, PrefixSettled, OpsOf, Positions, ChannelInOrder, AckedFromPrefix,
              MarkFromPrefix
<1> QED
  BY <1>1, <1>2, <1>3, <1>4 DEF DeliveryInv

\* Every step of the contract keeps it.
LEMMA DeliveryStepInv == DeliveryInv /\ [DeliveryNext]_deliveryVars => DeliveryInv'
<1> SUFFICES ASSUME DeliveryInv, [DeliveryNext]_deliveryVars
             PROVE  DeliveryInv'
  OBVIOUS
<1>1. CASE UNCHANGED deliveryVars
  <2>1. UNCHANGED <<sent, closed, finished, sink, docs, settled, acked, loadDone, persisted, durable>>
    BY <1>1 DEF deliveryVars, channelVars, accountVars, targetVars, ckptDocVars
  <2> QED
    BY <2>1, QuietInv DEF DeliveryInv, DeliveryTypeOK
<1>2. CASE DeliveryNext
  BY <1>2, SendsInv, SettleInv, AccountInv, CheckpointInv DEF DeliveryNext, DeliveryStep
<1> QED
  BY <1>1, <1>2

-----------------------------------------------------------------------------
(* The safety properties follow from the invariant.                        *)

\* A command that is the first to reach a published position is in the prefix:
\* otherwise the command that published the position would be ahead of it and
\* have a lower one.
LEMMA CoveredInv ==
  ASSUME DeliveryInv, NEW p \in Nat, p <= acked
  PROVE  CoveredBy(p)
<1> SUFFICES ASSUME NEW n \in DOMAIN sent, Reaches(n), sent[n].pos <= p, NEW i \in 1 .. n
             PROVE  Settled(i)
  BY DEF CoveredBy
<1>1. n \in Nat /\ sent[n].pos \in Nat /\ sent[n].pos > 0 /\ sent[n].pos <= acked
      /\ finished \in Nat /\ acked \in Nat
  BY SentType DEF Reaches, CarriesPosition, DeliveryInv, DeliveryTypeOK
<1>2. PICK m \in 1 .. finished : CarriesPosition(sent[m]) /\ sent[m].pos = acked
  BY <1>1 DEF DeliveryInv, AckedFromPrefix
<1>3. n <= finished
  <2> SUFFICES ASSUME n > finished PROVE FALSE
    BY <1>1
  <2>1. m \in 1 .. n - 1
    BY <1>1
  <2> QED
    BY <1>1, <1>2, <2>1 DEF Reaches
<1>4. i \in 1 .. finished
  BY <1>1, <1>3
<1> QED
  BY <1>1, <1>4 DEF DeliveryInv, PrefixSettled, Settled

\* A mark is reported from the settled prefix.
LEMMA MarkInv == ASSUME DeliveryInv PROVE MarkIsSettled
<1> SUFFICES ASSUME NEW n \in DOMAIN sent, sent[n].kind = "mark", sent[n].pos <= loadDone,
                    NEW i \in 1 .. n
             PROVE  Settled(i)
  BY DEF MarkIsSettled
<1>1. n \in Nat /\ sent[n].pos \in Nat /\ sent[n].pos > 0 /\ finished \in Nat /\ loadDone \in Nat
  BY SentType DEF DeliveryInv, DeliveryTypeOK
<1>2. PICK m \in 1 .. finished : sent[m].kind = "mark" /\ sent[m].pos = loadDone
  BY <1>1 DEF DeliveryInv, MarkFromPrefix
<1>3. n <= finished
  <2> SUFFICES ASSUME n > finished PROVE FALSE
    BY <1>1
  <2>1. m < n /\ m \in DOMAIN sent
    BY <1>1 DEF DeliveryInv
  <2> QED
    BY <1>1, <1>2, <2>1 DEF DeliveryInv, ChannelInOrder
<1>4. i \in 1 .. finished
  BY <1>1, <1>3
<1> QED
  BY <1>1, <1>4 DEF DeliveryInv, PrefixSettled, Settled

\* The invariant implies each property that is published.
LEMMA InvImplies ==
  DeliveryInv => DeliveryTypeOK /\ AckedIsSettled /\ DurableIsSettled /\ MarkIsSettled
<1> SUFFICES ASSUME DeliveryInv
             PROVE  DeliveryTypeOK /\ AckedIsSettled /\ DurableIsSettled /\ MarkIsSettled
  OBVIOUS
<1>1. DeliveryTypeOK /\ persisted <= acked /\ durable <= persisted
  BY DEF DeliveryInv, CheckpointFromPrefix
<1>2. AckedIsSettled /\ DurableIsSettled
  BY <1>1, CoveredInv DEF AckedIsSettled, DurableIsSettled, DeliveryTypeOK
<1> QED
  BY <1>1, <1>2, MarkInv

\* The invariant holds throughout an attempt.
THEOREM DeliveryInvariant == DeliverySpec => []DeliveryInv
<1>1. DeliveryInit => DeliveryInv
  BY DeliveryInitInv
<1>2. DeliveryInv /\ [DeliveryNext]_deliveryVars => DeliveryInv'
  BY DeliveryStepInv
<1> QED
  BY <1>1, <1>2, PTL DEF DeliverySpec

\* The contract of the sink side: however requests overtake each other, are
\* retried, refused or fail, nothing at or ahead of an acknowledged or persisted
\* position, or of a mark that is reported back, is missing from the target and
\* the quarantine store.
THEOREM DeliveryIsSafe ==
  DeliverySpec => [](DeliveryTypeOK /\ AckedIsSettled /\ DurableIsSettled /\ MarkIsSettled)
<1>1. DeliveryInv => DeliveryTypeOK /\ AckedIsSettled /\ DurableIsSettled /\ MarkIsSettled
  BY InvImplies
<1> QED
  BY <1>1, DeliveryInvariant, PTL
=============================================================================
