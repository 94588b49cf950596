--------------------------- MODULE SinkLoopProofs ---------------------------
(***************************************************************************)
(* The sink task and the checkpoint task implement the delivery contract,  *)
(* and so inherit its safety, for every set of commands, channel capacity, *)
(* write concurrency, policy and max_rejects.                              *)
(*                                                                         *)
(* The refinement mapping is the identity.  What the step proofs need is   *)
(* an invariant that ties the tasks' own state to the contract's: the open *)
(* requests form a window of writes with at most one barrier behind them,  *)
(* an unanswered request has settled nothing, an answered one everything   *)
(* it was not refused, and the checkpoint task holds an acknowledged       *)
(* position that the stored document has not passed.                       *)
(*                                                                         *)
(* And versions decide: whatever order open requests reach the target in,  *)
(* how often they are tried, and in which parts, every document ends as    *)
(* the newest operation on it made it.  A bulk request leaves a document   *)
(* at the last of its newest operations, or leaves it alone because it is  *)
(* newer than all of them.  The invariant of the last part names, for each *)
(* document, the operation it stands for, which no operation that has been *)
(* executed is newer than.                                                 *)
(***************************************************************************)
EXTENDS SinkLoop, DeliveryProofs, FiniteSetTheorems

Outcomes == [res : {"open", "answered", "failed"}, refused : SUBSET Nat]

\* What has been taken off the channel, and how far it is accounted for.
TakenOK ==
  /\ outcome \in Seq(Outcomes)
  /\ finished <= taken /\ taken <= Len(sent)
  /\ \A i \in 1 .. taken : outcome[i].refused \subseteq Positions(i)

\* The window: writes only, but for a barrier at its end.
WindowOK ==
  /\ taken <= finished + Concurrency
  /\ \A i \in finished + 1 .. taken - 1 : IsWrite(i)

\* Nothing of a command that is not taken or not answered is settled, and
\* everything of an answered one but its refusals is.
UnansweredUnsettled ==
  \A i \in Nat : /\ i > finished
                 /\ i <= taken => outcome[i].res # "answered"
                 => \A k \in Nat : <<i, k>> \notin settled

AnsweredSettled ==
  \A i \in finished + 1 .. taken :
    outcome[i].res = "answered" => OpsOf(i, Positions(i) \ outcome[i].refused) \subseteq settled

\* The checkpoint task.
CkptOK ==
  /\ ckpt \in [pc : {"sleep", "write", "stored", "ended"}, lsn : Nat, last : Nat,
               closing : BOOLEAN]
  /\ ckpt.pc \in {"write", "stored"} => ckpt.lsn \in Acknowledged /\ persisted <= ckpt.lsn
  /\ ckpt.pc = "stored" => persisted = ckpt.lsn

\* The part of the invariant the refinement rests on.
TasksInv == TakenOK /\ WindowOK /\ UnansweredUnsettled /\ AnsweredSettled /\ CkptOK

-----------------------------------------------------------------------------
(* Every step of the tasks is a step of the contract, or leaves its        *)
(* variables alone.                                                        *)

\* What the counters of the two tasks are.
LEMMA TypeFacts ==
  ASSUME DeliveryInv, TakenOK
  PROVE  /\ taken \in Nat /\ finished \in Nat /\ Len(sent) \in Nat
         /\ finished <= taken /\ taken <= Len(sent)
         /\ DOMAIN sent = 1 .. Len(sent)
         /\ DOMAIN outcome = 1 .. taken
         /\ Concurrency \in Nat
         /\ settled \subseteq Nat \X Nat
BY DeliveryAssumption DEF DeliveryInv, DeliveryTypeOK, TakenOK, taken

\* An open request is one the contract may try and answer.
LEMMA PendingIsOpen ==
  ASSUME DeliveryInv, TasksInv, NEW i \in 1 .. taken, Pending(i)
  PROVE  Open(i) /\ i \in DOMAIN sent
<1> USE TypeFacts DEF TasksInv
<1>1. i \in DOMAIN sent /\ finished < i /\ i <= finished + Concurrency
  BY DEF Pending, WindowOK
<1>2. \A j \in finished + 1 .. i : IsWrite(j)
  <2> SUFFICES ASSUME NEW j \in finished + 1 .. i PROVE IsWrite(j)
    OBVIOUS
  <2>1. CASE j = i
    BY <2>1 DEF Pending
  <2>2. CASE j # i
    BY <2>2 DEF WindowOK
  <2> QED
    BY <2>1, <2>2
<1>3. i \in Window
  BY <1>1, <1>2 DEF Window
<1>4. OpsOf(i, Positions(i)) \cap settled = {}
  <2>1. \A k \in Nat : <<i, k>> \notin settled
    BY <1>1 DEF Pending, UnansweredUnsettled
  <2>2. Positions(i) \subseteq Nat
    BY <1>1, SentType
  <2> QED
    BY <2>1, <2>2 DEF OpsOf
<1> QED
  BY <1>1, <1>3, <1>4 DEF Open

\* Accounting for the oldest write, or giving up on it.
LEMMA FinishRefines ==
  ASSUME DeliveryInv, TasksInv, FinishWrite
  PROVE  AccountWrite \/ GiveUpWrite
<1> DEFINE i == finished + 1
<1> USE DEF sinkVars, ckptVars, channelVars, accountVars, targetVars, ckptDocVars
<1>1. /\ i \in DOMAIN sent /\ i \in finished + 1 .. taken /\ i \in 1 .. taken
      /\ IsWrite(i) /\ Oldest = i /\ AtFront("write")
  BY TypeFacts DEF FinishWrite, TasksInv, Oldest, AtFront, IsWrite
<1>2. outcome[i].refused \subseteq Positions(i)
  BY <1>1 DEF TasksInv, TakenOK
<1>3. UNCHANGED <<sent, closed, docs, persisted, durable>> /\ sink = "running"
  BY DEF FinishWrite
<1>4. ASSUME Accept(i) PROVE AccountWrite
  <2>1. OpsOf(i, Positions(i) \ outcome[i].refused) \subseteq settled
    BY <1>1, <1>4 DEF Accept, TasksInv, AnsweredSettled
  <2>2. settled' = settled \cup OpsOf(i, Positions(i))
    <3>1. settled' = settled \cup OpsOf(i, outcome[i].refused)
      BY <1>4 DEF Accept
    <3> QED
      BY <1>2, <2>1, <3>1 DEF OpsOf
  <2>3. OpsOf(i, Positions(i)) \subseteq settled \/ Policy = "quarantine"
    <3>1. CASE outcome[i].refused = {}
      BY <2>1, <3>1 DEF OpsOf
    <3>2. CASE outcome[i].refused # {}
      BY <1>4, <3>2 DEF Accept
    <3> QED
      BY <3>1, <3>2
  <2>4. acked' = AckOf(sent[i])
    BY <1>1, <1>4 DEF Accept, PublishAck, AckOf, CarriesPosition, IsWrite
  <2>5. finished' = i /\ sink' = sink /\ loadDone' = loadDone
    BY <1>4 DEF Accept
  <2> QED
    BY <1>1, <1>3, <2>2, <2>3, <2>4, <2>5 DEF AccountWrite, Account
<1>5. ASSUME ExhaustBudget(i) \/ FilingFails(i) PROVE GiveUpWrite
  <2>1. \E F \in SUBSET Positions(i) : settled' = settled \cup OpsOf(i, F)
    BY <1>2, <1>5 DEF ExhaustBudget, FilingFails
  <2>2. /\ Policy = "quarantine" /\ sink' = "halted"
        /\ finished' = finished /\ acked' = acked /\ loadDone' = loadDone
    BY <1>5 DEF ExhaustBudget, FilingFails, Halt
  <2> QED
    BY <1>1, <1>3, <2>1, <2>2 DEF GiveUpWrite, GiveUp
<1>6. ASSUME Abandon(i) PROVE GiveUpWrite
  BY <1>3, <1>6 DEF Abandon, Halt, GiveUpWrite, GiveUp
<1>7. Accept(i) \/ ExhaustBudget(i) \/ FilingFails(i) \/ Abandon(i)
  BY DEF FinishWrite
<1> QED
  BY <1>4, <1>5, <1>6, <1>7

\* A barrier runs at the front of the contract's queue.
LEMMA BarrierIsOldest ==
  ASSUME DeliveryInv, TasksInv, NEW kind, AtBarrier(kind)
  PROVE  taken = Oldest /\ AtFront(kind)
BY TypeFacts DEF TasksInv, AtBarrier, HoldsBarrier, Oldest, AtFront

\* A step of the sink task is a step of the contract, or none.
LEMMA SinkStepRefines ==
  ASSUME DeliveryInv, TasksInv, SinkStep
  PROVE  DeliveryStep \/ UNCHANGED deliveryVars
<1> USE DEF sinkVars, ckptVars, channelVars, accountVars, targetVars, ckptDocVars, deliveryVars
<1>1. CASE TakeCommand
  BY <1>1 DEF TakeCommand
<1>2. ASSUME NEW i \in 1 .. taken, NEW S \in SUBSET Positions(i), TryWrite(i, S)
      PROVE  DeliveryStep
  <2>1. Open(i) /\ i \in DOMAIN sent
    BY <1>2, PendingIsOpen DEF TryWrite
  <2>2. Try(i, S)
    BY <1>2, <2>1 DEF TryWrite, Try
  <2> QED
    BY <2>1, <2>2 DEF DeliveryStep
<1>3. ASSUME NEW i \in 1 .. taken, NEW R \in SUBSET Positions(i), WriteAnswered(i, R)
      PROVE  DeliveryStep
  <2>1. Open(i) /\ i \in DOMAIN sent
    BY <1>3, PendingIsOpen DEF WriteAnswered
  <2>2. Answer(i, R)
    BY <1>3, <2>1 DEF WriteAnswered, Answer
  <2> QED
    BY <2>1, <2>2 DEF DeliveryStep
<1>4. ASSUME NEW i \in 1 .. taken, WriteFails(i)
      PROVE  UNCHANGED deliveryVars
  BY <1>4 DEF WriteFails
<1>5. CASE FinishWrite
  BY <1>5, FinishRefines DEF DeliveryStep
<1>6. CASE AckPosition
  <2>1. taken = Oldest /\ AtFront("position")
    BY <1>6, BarrierIsOldest DEF AckPosition
  <2>2. AccountPosition
    BY <1>6, <2>1 DEF AckPosition, PublishAck, AccountPosition, Account, AckOf, CarriesPosition, AtFront
  <2> QED
    BY <2>2 DEF DeliveryStep
<1>7. CASE ReportMark
  <2>1. taken = Oldest /\ AtFront("mark")
    BY <1>7, BarrierIsOldest DEF ReportMark
  <2>2. AccountMark
    BY <1>7, <2>1 DEF ReportMark, AccountMark, Account, AckOf, CarriesPosition, AtFront
  <2> QED
    BY <2>2 DEF DeliveryStep
<1>8. CASE TruncateIndex
  <2>1. taken = Oldest /\ AtFront("truncate")
    BY <1>8, BarrierIsOldest DEF TruncateIndex
  <2>2. AccountTruncate
    BY <1>8, <2>1 DEF TruncateIndex, AccountTruncate, Account, AckOf, CarriesPosition, AtFront
  <2> QED
    BY <2>2 DEF DeliveryStep
<1>9. CASE TruncateFails
  <2>1. taken = Oldest /\ AtFront("truncate")
    BY <1>9, BarrierIsOldest DEF TruncateFails
  <2>2. GiveUpTruncate
    BY <1>9, <2>1 DEF TruncateFails, Halt, GiveUpTruncate, GiveUp, AtFront
  <2> QED
    BY <2>2 DEF DeliveryStep
<1>10. CASE Drained
  <2>1. SinkEnds
    BY <1>10 DEF Drained, SinkEnds
  <2> QED
    BY <2>1 DEF DeliveryStep
<1> QED
  BY <1>1, <1>2, <1>3, <1>4, <1>5, <1>6, <1>7, <1>8, <1>9, <1>10 DEF SinkStep

\* A step of the checkpoint task is a step of the contract, or none.
LEMMA CkptStepRefines ==
  ASSUME DeliveryInv, TasksInv, CkptStep
  PROVE  DeliveryStep \/ UNCHANGED deliveryVars
<1> USE DEF sinkVars, ckptVars, channelVars, accountVars, targetVars, ckptDocVars, deliveryVars
<1>1. CASE CkptWake \/ CkptFails
  BY <1>1 DEF CkptWake, CkptFails
<1>2. CASE CkptLands
  <2>1. Persist
    BY <1>2 DEF CkptLands, Persist, TasksInv, CkptOK
  <2> QED
    BY <2>1 DEF DeliveryStep
<1>3. CASE CkptOk
  <2>1. Publish
    BY <1>3 DEF CkptOk, Publish, TasksInv, CkptOK
  <2> QED
    BY <2>1 DEF DeliveryStep
<1> QED
  BY <1>1, <1>2, <1>3 DEF CkptStep

\* Every step of the two tasks is one of the contract or none.
LEMMA NextRefines ==
  ASSUME DeliveryInv, TasksInv, [SinkNext]_sinkLoopVars
  PROVE  [DeliveryNext]_deliveryVars
<1>1. CASE UNCHANGED sinkLoopVars
  BY <1>1 DEF sinkLoopVars, sinkVars, ckptVars, channelVars, accountVars, targetVars, ckptDocVars,
              deliveryVars
<1>2. CASE Send \/ Close
  BY <1>2 DEF Send, Close, DeliveryNext
<1>3. CASE SinkStep \/ CkptStep
  BY <1>3, SinkStepRefines, CkptStepRefines DEF DeliveryNext
<1> QED
  BY <1>1, <1>2, <1>3 DEF SinkNext

-----------------------------------------------------------------------------
(* The tasks keep their invariant.                                         *)

WindowInv == TakenOK /\ WindowOK /\ UnansweredUnsettled /\ AnsweredSettled

\* Both tasks have just started.
LEMMA TasksInitInv == ASSUME SinkInit PROVE TasksInv
<1>1. sent = <<>> /\ outcome = <<>> /\ finished = 0 /\ settled = {} /\ persisted = 0
  BY DEF SinkInit, DeliveryInit
<1>2. outcome \in Seq(Outcomes) /\ taken = 0 /\ Len(sent) = 0
  BY <1>1 DEF taken
<1>3. WindowInv
  BY <1>1, <1>2, DeliveryAssumption DEF WindowInv, TakenOK, WindowOK, UnansweredUnsettled, AnsweredSettled
<1>4. CkptOK
  BY DEF SinkInit, CkptStart, CkptOK
<1> QED
  BY <1>3, <1>4 DEF TasksInv, WindowInv

\* Steps that neither take, answer nor account for anything.
LEMMA WindowUnchanged ==
  ASSUME WindowInv, UNCHANGED <<sent, outcome, finished, settled>>
  PROVE  WindowInv'
BY DEF WindowInv, TakenOK, WindowOK, UnansweredUnsettled, AnsweredSettled, taken, IsWrite, OpsOf, Positions

\* The checkpoint task's position stays acknowledged while the account grows.
LEMMA CkptUnchanged ==
  ASSUME DeliveryInv, CkptOK, UNCHANGED <<ckpt, persisted>>,
         finished' \in Nat, finished <= finished',
         \A i \in 1 .. finished : sent'[i] = sent[i]
  PROVE  CkptOK'
<1>1. finished \in Nat
  BY DEF DeliveryInv, DeliveryTypeOK
<1>2. Acknowledged \subseteq Acknowledged'
  <2> SUFFICES ASSUME NEW n \in 1 .. finished, CarriesPosition(sent[n])
               PROVE  sent[n].pos \in Acknowledged'
    BY DEF Acknowledged
  <2>1. n \in 1 .. finished' /\ sent'[n] = sent[n]
    BY <1>1
  <2> QED
    BY <2>1 DEF Acknowledged
<1> QED
  BY <1>2 DEF CkptOK

\* A command joins the channel.
LEMMA SendKeeps ==
  ASSUME DeliveryInv, TasksInv, Send
  PROVE  TasksInv'
<1> PICK c \in Commands : sent' = Append(sent, c)
  BY DEF Send, EngineSends
<1> USE TypeFacts DEF TasksInv
<1>1. /\ UNCHANGED <<outcome, finished, settled, ckpt, persisted>>
      /\ Len(sent') = Len(sent) + 1
      /\ \A i \in 1 .. Len(sent) : sent'[i] = sent[i]
  BY DEF Send, EngineSends, accountVars, targetVars, ckptDocVars, DeliveryInv
<1>2. \A i \in 1 .. taken : sent'[i] = sent[i] /\ IsWrite(i)' = IsWrite(i) /\ Positions(i)' = Positions(i)
  BY <1>1 DEF IsWrite, Positions
<1>3. taken' = taken
  BY <1>1 DEF taken
<1>4. TakenOK' /\ WindowOK'
  <2>1. TakenOK'
    <3>1. /\ outcome' \in Seq(Outcomes)
          /\ finished' <= taken' /\ taken' <= Len(sent')
      BY <1>1, <1>3 DEF TakenOK
    <3> QED
      BY <1>1, <1>2, <1>3, <3>1 DEF TakenOK
  <2>2. WindowOK'
    <3>1. \A i \in finished + 1 .. taken - 1 : IsWrite(i) /\ i \in 1 .. taken
      BY DEF WindowOK
    <3> QED
      BY <1>1, <1>2, <1>3, <3>1 DEF WindowOK
  <2> QED
    BY <2>1, <2>2
<1>5. UnansweredUnsettled' /\ AnsweredSettled'
  BY <1>1, <1>2, <1>3 DEF UnansweredUnsettled, AnsweredSettled, OpsOf
<1>6. CkptOK'
  BY <1>1, <1>2, CkptUnchanged
<1> QED
  BY <1>4, <1>5, <1>6

\* A command is taken: its request is open and has settled nothing.
LEMMA TakeKeeps ==
  ASSUME DeliveryInv, TasksInv, TakeCommand
  PROVE  TasksInv'
<1> USE TypeFacts DEF TasksInv
<1>1. /\ UNCHANGED <<sent, finished, settled, ckpt, persisted>>
      /\ outcome' = Append(outcome, [res |-> "open", refused |-> {}])
      /\ taken < Len(sent) /\ ~HoldsBarrier /\ taken - finished < Concurrency
  BY DEF TakeCommand, channelVars, targetVars, ckptVars, ckptDocVars, Inflight
<1>2. /\ taken' = taken + 1
      /\ outcome' \in Seq(Outcomes)
      /\ \A i \in 1 .. taken : outcome'[i] = outcome[i]
      /\ outcome'[taken + 1] = [res |-> "open", refused |-> {}]
  BY <1>1 DEF taken, TakenOK, Outcomes
<1>3. \A i \in 1 .. taken + 1 : i = taken + 1 \/ i \in 1 .. taken
  OBVIOUS
<1>4. TakenOK'
  BY <1>1, <1>2, <1>3 DEF TakenOK, Positions
<1>5. WindowOK'
  <2>1. \A i \in finished + 1 .. taken : IsWrite(i)
    <3> SUFFICES ASSUME NEW i \in finished + 1 .. taken PROVE IsWrite(i)
      OBVIOUS
    <3>1. CASE i = taken
      BY <1>1, <3>1 DEF HoldsBarrier
    <3>2. CASE i # taken
      BY <3>2 DEF WindowOK
    <3> QED
      BY <3>1, <3>2
  <2> QED
    BY <1>1, <1>2, <2>1 DEF WindowOK, IsWrite
<1>6. UnansweredUnsettled'
  <2> SUFFICES ASSUME NEW i \in Nat, i > finished, i <= taken + 1 => outcome'[i].res # "answered",
                      NEW k \in Nat
               PROVE  <<i, k>> \notin settled
    BY <1>1, <1>2 DEF UnansweredUnsettled
  <2>1. CASE i <= taken
    BY <1>2, <2>1 DEF UnansweredUnsettled
  <2>2. CASE i > taken
    BY <2>2 DEF UnansweredUnsettled
  <2> QED
    BY <2>1, <2>2
<1>7. AnsweredSettled'
  <2> SUFFICES ASSUME NEW i \in finished + 1 .. taken + 1, outcome'[i].res = "answered"
               PROVE  OpsOf(i, Positions(i) \ outcome'[i].refused) \subseteq settled
    BY <1>1, <1>2 DEF AnsweredSettled, OpsOf, Positions
  <2>1. i # taken + 1
    BY <1>2
  <2>2. i \in finished + 1 .. taken /\ i \in 1 .. taken
    BY <2>1
  <2> QED
    BY <1>2, <2>2 DEF AnsweredSettled
<1>8. CkptOK'
  BY <1>1, CkptUnchanged
<1> QED
  BY <1>4, <1>5, <1>6, <1>7, <1>8

\* A request is answered: everything it was not refused is settled.
LEMMA AnswerKeeps ==
  ASSUME DeliveryInv, TasksInv,
         NEW i \in 1 .. taken, NEW R \in SUBSET Positions(i), WriteAnswered(i, R)
  PROVE  TasksInv'
<1> USE TypeFacts DEF TasksInv
<1>1. /\ UNCHANGED <<sent, finished, ckpt, persisted>>
      /\ settled' = settled \cup OpsOf(i, Positions(i) \ R)
      /\ outcome' = [outcome EXCEPT ![i] = [res |-> "answered", refused |-> R]]
      /\ Pending(i)
  BY DEF WriteAnswered, channelVars, targetVars, ckptVars, ckptDocVars
<1>2. i \in DOMAIN sent /\ i \in DOMAIN outcome
  OBVIOUS
<1>3. R \subseteq Nat
  BY <1>2, SentType
<1>4. /\ outcome' \in Seq(Outcomes) /\ taken' = taken
      /\ outcome'[i] = [res |-> "answered", refused |-> R]
      /\ \A j \in 1 .. taken : j # i => outcome'[j] = outcome[j]
  BY <1>1, <1>2, <1>3 DEF TakenOK, Outcomes, taken
<1>5. \A j : IsWrite(j)' = IsWrite(j) /\ Positions(j)' = Positions(j)
  BY <1>1 DEF IsWrite, Positions
<1>6. TakenOK' /\ WindowOK'
  BY <1>1, <1>4, <1>5 DEF TakenOK, WindowOK
<1>7. UnansweredUnsettled'
  <2> SUFFICES ASSUME NEW j \in Nat, j > finished, j <= taken => outcome'[j].res # "answered",
                      NEW k \in Nat
               PROVE  <<j, k>> \notin settled'
    BY <1>1, <1>4 DEF UnansweredUnsettled
  <2>1. j # i
    BY <1>4
  <2>2. <<j, k>> \notin settled
    BY <1>4, <2>1 DEF UnansweredUnsettled
  <2> QED
    BY <1>1, <2>1, <2>2 DEF OpsOf
<1>8. AnsweredSettled'
  <2> SUFFICES ASSUME NEW j \in finished + 1 .. taken, outcome'[j].res = "answered"
               PROVE  OpsOf(j, Positions(j) \ outcome'[j].refused) \subseteq settled'
    BY <1>1, <1>4, <1>5 DEF AnsweredSettled, OpsOf
  <2>1. CASE j = i
    BY <1>1, <1>4, <2>1
  <2>2. CASE j # i
    <3>1. outcome'[j] = outcome[j]
      BY <1>4, <2>2
    <3> QED
      BY <1>1, <3>1 DEF AnsweredSettled
  <2> QED
    BY <2>1, <2>2
<1>9. CkptOK'
  BY <1>1, CkptUnchanged
<1> QED
  BY <1>6, <1>7, <1>8, <1>9

\* A request fails: it has settled nothing.
LEMMA FailKeeps ==
  ASSUME DeliveryInv, TasksInv, NEW i \in 1 .. taken, WriteFails(i)
  PROVE  TasksInv'
<1> USE TypeFacts DEF TasksInv
<1>1. /\ UNCHANGED <<sent, finished, settled, ckpt, persisted>>
      /\ outcome' = [outcome EXCEPT ![i] = [res |-> "failed", refused |-> {}]]
      /\ Pending(i)
  BY DEF WriteFails, channelVars, targetVars, ckptVars, ckptDocVars
<1>2. /\ outcome' \in Seq(Outcomes) /\ taken' = taken
      /\ outcome'[i] = [res |-> "failed", refused |-> {}]
      /\ \A j \in 1 .. taken : j # i => outcome'[j] = outcome[j]
  BY <1>1 DEF TakenOK, Outcomes, taken
<1>3. \A j : IsWrite(j)' = IsWrite(j) /\ Positions(j)' = Positions(j)
  BY <1>1 DEF IsWrite, Positions
<1>4. TakenOK' /\ WindowOK'
  BY <1>1, <1>2, <1>3 DEF TakenOK, WindowOK
<1>5. UnansweredUnsettled'
  <2> SUFFICES ASSUME NEW j \in Nat, j > finished, j <= taken => outcome'[j].res # "answered",
                      NEW k \in Nat
               PROVE  <<j, k>> \notin settled
    BY <1>1, <1>2 DEF UnansweredUnsettled
  <2>1. CASE j = i
    BY <1>1, <2>1 DEF UnansweredUnsettled, Pending
  <2>2. CASE j # i
    BY <1>2, <2>2 DEF UnansweredUnsettled
  <2> QED
    BY <2>1, <2>2
<1>6. AnsweredSettled'
  <2> SUFFICES ASSUME NEW j \in finished + 1 .. taken, outcome'[j].res = "answered"
               PROVE  OpsOf(j, Positions(j) \ outcome'[j].refused) \subseteq settled
    BY <1>1, <1>2, <1>3 DEF AnsweredSettled, OpsOf
  <2>1. j # i
    BY <1>2
  <2>2. outcome'[j] = outcome[j]
    BY <1>2, <2>1
  <2> QED
    BY <2>2 DEF AnsweredSettled
<1>7. CkptOK'
  BY <1>1, CkptUnchanged
<1> QED
  BY <1>4, <1>5, <1>6, <1>7

\* The oldest command is accounted for, or refused operations of it are filed:
\* only what is answered settles more, and nothing but the prefix and the oldest
\* command changes.
LEMMA FrontKeeps ==
  ASSUME DeliveryInv, TasksInv, UNCHANGED <<sent, outcome, ckpt, persisted>>,
         finished + 1 <= taken,
         finished' \in {finished, finished + 1},
         NEW F \in SUBSET Positions(finished + 1),
         settled' = settled \cup OpsOf(finished + 1, F),
         finished' = finished => F = {} \/ outcome[finished + 1].res = "answered"
  PROVE  TasksInv'
<1> DEFINE i == finished + 1
<1> USE TypeFacts DEF TasksInv
<1>1. taken' = taken /\ \A j : IsWrite(j)' = IsWrite(j) /\ Positions(j)' = Positions(j)
  BY DEF taken, IsWrite, Positions
<1>2. TakenOK' /\ WindowOK'
  BY <1>1 DEF TakenOK, WindowOK
<1>3. UnansweredUnsettled'
  <2> SUFFICES ASSUME NEW j \in Nat, j > finished', j <= taken => outcome[j].res # "answered",
                      NEW k \in Nat
               PROVE  <<j, k>> \notin settled'
    BY <1>1 DEF UnansweredUnsettled
  <2>1. <<j, k>> \notin settled
    BY DEF UnansweredUnsettled
  <2>2. j # i \/ F = {}
    OBVIOUS
  <2> QED
    BY <2>1, <2>2 DEF OpsOf
<1>4. AnsweredSettled'
  <2> SUFFICES ASSUME NEW j \in finished' + 1 .. taken, outcome[j].res = "answered"
               PROVE  OpsOf(j, Positions(j) \ outcome[j].refused) \subseteq settled'
    BY <1>1 DEF AnsweredSettled, OpsOf
  <2>1. j \in finished + 1 .. taken
    OBVIOUS
  <2> QED
    BY <2>1 DEF AnsweredSettled
<1>5. CkptOK'
  BY CkptUnchanged
<1> QED
  BY <1>2, <1>3, <1>4, <1>5

\* A write at the head of the window is finished.
LEMMA FinishKeeps ==
  ASSUME DeliveryInv, TasksInv, FinishWrite
  PROVE  TasksInv'
<1> DEFINE i == finished + 1
<1> USE DEF ckptVars, ckptDocVars, channelVars
<1>1. /\ UNCHANGED <<sent, outcome, ckpt, persisted>>
      /\ i <= taken /\ i \in 1 .. taken
      /\ outcome[i].refused \in SUBSET Positions(i)
  BY TypeFacts DEF FinishWrite, TasksInv, TakenOK
<1>2. CASE Accept(i)
  <2>1. finished' = i /\ settled' = settled \cup OpsOf(i, outcome[i].refused)
    BY <1>2 DEF Accept
  <2> QED
    BY <1>1, <2>1, FrontKeeps, TypeFacts DEF TasksInv
<1>3. CASE ExhaustBudget(i)
  <2>1. /\ finished' = finished /\ settled' = settled \cup OpsOf(i, outcome[i].refused)
        /\ outcome[i].res = "answered"
    BY <1>3 DEF ExhaustBudget
  <2> QED
    BY <1>1, <2>1, FrontKeeps
<1>4. CASE FilingFails(i)
  <2>1. PICK F \in SUBSET outcome[i].refused : settled' = settled \cup OpsOf(i, F)
    BY <1>4 DEF FilingFails
  <2>2. finished' = finished /\ outcome[i].res = "answered"
    BY <1>4 DEF FilingFails, Halt
  <2> QED
    BY <1>1, <2>1, <2>2, FrontKeeps
<1>5. CASE Abandon(i)
  <2>1. finished' = finished /\ settled' = settled
    BY <1>5 DEF Abandon, Halt
  <2>2. settled' = settled \cup OpsOf(i, {}) /\ {} \in SUBSET Positions(i)
    BY <2>1 DEF OpsOf
  <2> QED
    BY <1>1, <2>1, <2>2, FrontKeeps
<1> QED
  BY <1>2, <1>3, <1>4, <1>5 DEF FinishWrite

\* A barrier is passed with the window empty.
LEMMA BarrierKeeps ==
  ASSUME DeliveryInv, TasksInv, AckPosition \/ ReportMark \/ TruncateIndex \/ TruncateFails
  PROVE  TasksInv'
<1> USE DEF ckptVars, ckptDocVars, channelVars, targetVars
<1>1. /\ UNCHANGED <<sent, outcome, ckpt, persisted, settled>>
      /\ finished' \in {finished, taken}
      /\ taken = finished + 1
  BY DEF AckPosition, ReportMark, TruncateIndex, TruncateFails, AtBarrier, Halt
<1>2. settled' = settled \cup OpsOf(finished + 1, {}) /\ {} \in SUBSET Positions(finished + 1)
  BY <1>1 DEF OpsOf
<1>3. finished + 1 <= taken
  BY <1>1, TypeFacts DEF TasksInv
<1> QED
  BY <1>1, <1>2, <1>3, FrontKeeps

\* The checkpoint task: it takes up the acknowledged position, which the stored
\* document has not passed, and stores it.
LEMMA CkptKeeps ==
  ASSUME DeliveryInv, TasksInv, CkptStep
  PROVE  TasksInv'
<1> USE DEF ckptVars, ckptDocVars, channelVars, targetVars, sinkVars, accountVars
<1>1. UNCHANGED <<sent, outcome, finished, settled, acked>>
  BY DEF CkptStep, CkptWake, CkptLands, CkptOk, CkptFails
<1>2. WindowInv'
  BY <1>1, WindowUnchanged DEF WindowInv, TasksInv
<1>3. Acknowledged' = Acknowledged
  BY <1>1 DEF Acknowledged
<1>4. /\ acked \in Nat /\ persisted \in Nat /\ persisted <= acked
      /\ acked # 0 => acked \in Acknowledged
  BY DEF DeliveryInv, DeliveryTypeOK, CheckpointFromPrefix, AckedFromPrefix, Acknowledged
<1>5. CkptOK'
  <2> USE DEF TasksInv
  <2>1. CASE CkptWake
    <3>1. persisted' = persisted
      BY <2>1 DEF CkptWake
    <3>2. /\ ckpt'.pc \in {"sleep", "write", "ended"} /\ ckpt'.lsn \in Nat
          /\ ckpt'.pc = "write" => ckpt'.lsn = acked /\ acked # 0
      BY <2>1, <1>4 DEF CkptWake, CkptOK
    <3>3. ckpt' \in [pc : {"sleep", "write", "stored", "ended"}, lsn : Nat, last : Nat, closing : BOOLEAN]
      BY <2>1, <1>4 DEF CkptWake, CkptOK
    <3> QED
      BY <1>3, <1>4, <3>1, <3>2, <3>3 DEF CkptOK
  <2>2. CASE CkptLands
    BY <2>2, <1>3, <1>4 DEF CkptLands, CkptOK
  <2>3. CASE CkptOk
    BY <2>3, <1>3 DEF CkptOk, CkptOK, AfterWrite
  <2>4. CASE CkptFails
    BY <2>4, <1>3 DEF CkptFails, CkptOK, AfterWrite
  <2> QED
    BY <2>1, <2>2, <2>3, <2>4 DEF CkptStep
<1> QED
  BY <1>2, <1>5 DEF WindowInv, TasksInv

\* A request that is tried again or fails, the end of the channel and of the
\* task: nothing is taken, answered or accounted for.
LEMMA QuietKeeps ==
  ASSUME DeliveryInv, TasksInv, UNCHANGED <<sent, outcome, finished, settled, ckpt, persisted>>
  PROVE  TasksInv'
<1>1. WindowInv'
  BY WindowUnchanged DEF WindowInv, TasksInv
<1>2. CkptOK'
  BY CkptUnchanged, TypeFacts DEF TasksInv
<1> QED
  BY <1>1, <1>2 DEF WindowInv, TasksInv

\* Every step of the two tasks keeps TasksInv.
LEMMA TasksStepInv ==
  ASSUME DeliveryInv, TasksInv, [SinkNext]_sinkLoopVars
  PROVE  TasksInv'
<1> USE DEF sinkLoopVars, sinkVars, ckptVars, channelVars, accountVars, targetVars, ckptDocVars
<1>1. CASE UNCHANGED sinkLoopVars
  BY <1>1, QuietKeeps
<1>2. CASE Send
  BY <1>2, SendKeeps
<1>3. CASE Close
  BY <1>3, QuietKeeps DEF Close, EngineCloses
<1>4. CASE CkptStep
  BY <1>4, CkptKeeps
<1>5. CASE SinkStep
  <2>1. CASE TakeCommand
    BY <2>1, TakeKeeps
  <2>2. ASSUME NEW i \in 1 .. taken, NEW S \in SUBSET Positions(i), TryWrite(i, S)
        PROVE  TasksInv'
    BY <2>2, QuietKeeps DEF TryWrite
  <2>3. CASE \E i \in 1 .. taken : \E R \in SUBSET Positions(i) : WriteAnswered(i, R)
    BY <2>3, AnswerKeeps
  <2>4. CASE \E i \in 1 .. taken : WriteFails(i)
    BY <2>4, FailKeeps
  <2>5. CASE FinishWrite
    BY <2>5, FinishKeeps
  <2>6. CASE AckPosition \/ ReportMark \/ TruncateIndex \/ TruncateFails
    BY <2>6, BarrierKeeps
  <2>7. CASE Drained
    BY <2>7, QuietKeeps DEF Drained
  <2> QED
    BY <1>5, <2>1, <2>2, <2>3, <2>4, <2>5, <2>6, <2>7 DEF SinkStep
<1> QED
  BY <1>1, <1>2, <1>3, <1>4, <1>5 DEF SinkNext

-----------------------------------------------------------------------------
(* The quarantine store and its budget.                                    *)

StoreInv ==
  /\ filed \subseteq Ids /\ quarantined \in Nat
  /\ BudgetCoversStore

\* The ids of a command's operations are ids, and there are no more of them than
\* operations.
LEMMA IdsOfOps ==
  ASSUME DeliveryInv, NEW i \in DOMAIN sent, NEW F \in SUBSET Positions(i)
  PROVE  LET ids == {sent[i].ops[k].id : k \in F} IN
         /\ ids \subseteq Ids
         /\ IsFiniteSet(F) /\ IsFiniteSet(ids)
         /\ Cardinality(F) \in Nat /\ Cardinality(ids) \in Nat
         /\ Cardinality(ids) <= Cardinality(F)
<1> DEFINE idOf == [k \in F |-> sent[i].ops[k].id]
           ids == {sent[i].ops[k].id : k \in F}
<1>1. /\ sent[i].ops \in Seq(Op)
      /\ Positions(i) = 1 .. Len(sent[i].ops) /\ Len(sent[i].ops) \in Nat
  BY SentType DEF Positions
<1>2. ids \subseteq Ids
  <2> SUFFICES ASSUME NEW k \in F PROVE sent[i].ops[k].id \in Ids
    OBVIOUS
  <2>1. sent[i].ops[k] \in Op
    BY <1>1
  <2> QED
    BY <2>1 DEF Op
<1>3. IsFiniteSet(F)
  <2>1. IsFiniteSet(1 .. Len(sent[i].ops))
    BY <1>1, FS_Interval
  <2> QED
    BY <1>1, <2>1, FS_Subset
<1>4. idOf \in Surjection(F, ids)
  BY DEF Surjection
<1>5. IsFiniteSet(ids) /\ Cardinality(ids) <= Cardinality(F)
  BY <1>3, <1>4, FS_Surjection
<1> QED
  BY <1>2, <1>3, <1>5, FS_CardinalityType

\* Filing refusals adds at most as many records as there are refusals.
LEMMA FilingCounts ==
  ASSUME DeliveryInv, StoreInv, NEW i \in DOMAIN sent, NEW F \in SUBSET Positions(i)
  PROVE  LET ids == {sent[i].ops[k].id : k \in F} IN
         /\ filed \cup ids \subseteq Ids
         /\ Cardinality(F) \in Nat
         /\ Cardinality(filed) \in Nat /\ Cardinality(filed \cup ids) \in Nat
         /\ Cardinality(filed \cup ids) <= Cardinality(filed) + Cardinality(F)
<1> DEFINE ids == {sent[i].ops[k].id : k \in F}
<1>1. /\ ids \subseteq Ids /\ IsFiniteSet(ids)
      /\ Cardinality(F) \in Nat /\ Cardinality(ids) \in Nat
      /\ Cardinality(ids) <= Cardinality(F)
  BY IdsOfOps
<1>2. IsFiniteSet(filed)
  BY SinkLoopAssumption, FS_Subset DEF StoreInv
<1> HIDE DEF ids
<1>3. /\ IsFiniteSet(filed \cup ids) /\ IsFiniteSet(filed \cap ids)
      /\ Cardinality(filed \cup ids) = Cardinality(filed) + Cardinality(ids) - Cardinality(filed \cap ids)
  BY <1>1, <1>2, FS_Union, FS_Intersection
<1>4. /\ Cardinality(filed) \in Nat /\ Cardinality(filed \cup ids) \in Nat
      /\ Cardinality(filed \cap ids) \in Nat
  BY <1>2, <1>3, FS_CardinalityType
<1>5. /\ filed \cup ids \subseteq Ids
      /\ Cardinality(filed \cup ids) <= Cardinality(filed) + Cardinality(F)
  BY <1>1, <1>3, <1>4 DEF StoreInv
<1> QED
  BY <1>1, <1>4, <1>5 DEF ids

\* The count starts at what the quarantine store holds (list_rejects).
LEMMA StoreInitInv == ASSUME SinkInit PROVE StoreInv
<1>1. filed \subseteq Ids /\ IsFiniteSet(filed)
  BY SinkLoopAssumption, FS_Subset DEF SinkInit
<1>2. Cardinality(filed) \in Nat
  BY <1>1, FS_CardinalityType
<1> QED
  BY <1>1, <1>2 DEF SinkInit, StartCount, StoreInv, BudgetCoversStore

\* Accounting for a write counts every refusal it files; a filing that fails
\* part-way ends the task.
LEMMA FinishCounts ==
  ASSUME DeliveryInv, TasksInv, StoreInv, FinishWrite
  PROVE  StoreInv'
<1> DEFINE i == finished + 1
<1>1. /\ i \in DOMAIN sent /\ outcome[i].refused \in SUBSET Positions(i)
      /\ sink = "running" /\ sent' = sent
  BY TypeFacts DEF FinishWrite, TasksInv, TakenOK, channelVars
<1>2. CASE Accept(i) \/ ExhaustBudget(i)
  <2>1. /\ filed' = filed \cup {sent[i].ops[k].id : k \in outcome[i].refused}
        /\ quarantined' = quarantined + Cardinality(outcome[i].refused)
        /\ sink' \in {sink, "halted"}
    BY <1>2 DEF Accept, ExhaustBudget, Refused
  <2>2. /\ filed' \subseteq Ids
        /\ Cardinality(outcome[i].refused) \in Nat
        /\ Cardinality(filed) \in Nat /\ Cardinality(filed') \in Nat
        /\ Cardinality(filed') <= Cardinality(filed) + Cardinality(outcome[i].refused)
    BY <1>1, <2>1, FilingCounts
  <2> QED
    BY <1>1, <2>1, <2>2 DEF StoreInv, BudgetCoversStore
<1>3. CASE FilingFails(i)
  <2>1. PICK F \in SUBSET outcome[i].refused : filed' = filed \cup {sent[i].ops[k].id : k \in F}
    BY <1>3 DEF FilingFails
  <2>2. quarantined' = quarantined /\ sink' = "halted"
    BY <1>3 DEF FilingFails, Halt
  <2> QED
    BY <1>1, <2>1, <2>2, FilingCounts DEF StoreInv, BudgetCoversStore
<1>4. CASE Abandon(i)
  BY <1>4 DEF Abandon, Halt, StoreInv, BudgetCoversStore
<1> QED
  BY <1>2, <1>3, <1>4 DEF FinishWrite

\* Every step of the two tasks keeps StoreInv.
LEMMA StoreStepInv ==
  ASSUME DeliveryInv, TasksInv, StoreInv, [SinkNext]_sinkLoopVars
  PROVE  StoreInv'
<1>1. CASE FinishWrite
  BY <1>1, FinishCounts
<1>2. CASE ~FinishWrite
  <2>1. /\ UNCHANGED <<filed, quarantined>>
        /\ sink' = "running" => sink = "running"
    BY <1>2 DEF SinkNext, Send, EngineSends, Close, EngineCloses, SinkStep, TakeCommand, TryWrite,
                WriteAnswered, WriteFails, AckPosition, ReportMark, TruncateIndex, TruncateFails,
                AtBarrier, Halt, Drained, CkptStep, CkptWake, CkptLands, CkptOk, CkptFails,
                sinkLoopVars, sinkVars, ckptVars, accountVars
  <2> QED
    BY <2>1 DEF StoreInv, BudgetCoversStore
<1> QED
  BY <1>1, <1>2

-----------------------------------------------------------------------------
(* The theorems.                                                           *)

SinkInv == DeliveryInv /\ TasksInv /\ StoreInv

\* All three parts hold when the tasks start.
LEMMA SinkInitInv == SinkInit => SinkInv
BY DeliveryInitInv, TasksInitInv, StoreInitInv DEF SinkInit, SinkInv

\* All three parts are kept together.
LEMMA SinkStepInv == SinkInv /\ [SinkNext]_sinkLoopVars => SinkInv'
<1> SUFFICES ASSUME SinkInv, [SinkNext]_sinkLoopVars
             PROVE  SinkInv'
  OBVIOUS
<1>1. DeliveryInv'
  BY NextRefines, DeliveryStepInv DEF SinkInv
<1>2. TasksInv'
  BY TasksStepInv DEF SinkInv
<1>3. StoreInv'
  BY StoreStepInv DEF SinkInv
<1> QED
  BY <1>1, <1>2, <1>3 DEF SinkInv

\* The invariant of the two tasks and their contract holds throughout.
THEOREM SinkInvariant == SinkSpec => []SinkInv
<1>1. SinkInit => SinkInv
  BY SinkInitInv
<1>2. SinkInv /\ [SinkNext]_sinkLoopVars => SinkInv'
  BY SinkStepInv
<1> QED
  BY <1>1, <1>2, PTL DEF SinkSpec

\* The sink task, with its window of open requests and its barriers, and the
\* checkpoint task, with its stored and published positions, implement the
\* delivery contract.
THEOREM SinkImplementsDelivery == SinkSpec => DeliverySpec
<1>1. SinkInit => DeliveryInit
  BY DEF SinkInit
<1>2. SinkInv /\ [SinkNext]_sinkLoopVars => [DeliveryNext]_deliveryVars
  BY NextRefines DEF SinkInv
<1> QED
  BY <1>1, <1>2, SinkInvariant, PTL DEF SinkSpec, DeliverySpec

\* So nothing at or ahead of an acknowledged or persisted position, or of a load
\* mark that is reported back, is missing from the target and the quarantine
\* store.
THEOREM SinkIsSafe ==
  SinkSpec => [](AckedIsSettled /\ DurableIsSettled /\ MarkIsSettled)
BY SinkImplementsDelivery, DeliveryIsSafe, PTL

\* In particular the load may store its progress when a mark comes back: the rows
\* of the wave ahead of the mark are in the target or filed.
THEOREM ReportedMarkIsSettled == SinkSpec => []MarkIsSettled
BY SinkIsSafe, PTL

\* And the state of the tasks is well typed.
THEOREM SinkTypeCorrect == SinkSpec => []SinkTypeOK
<1>1. SinkInv => SinkTypeOK
  BY DEF SinkInv, DeliveryInv, TasksInv, TakenOK, CkptOK, StoreInv, SinkTypeOK, Outcomes
<1> QED
  BY <1>1, SinkInvariant, PTL

\* The quarantine budget is never handed back: the running count covers what the
\* store holds, however often a document is refused and whatever an earlier run
\* filed.
THEOREM BudgetIsNeverHandedBack == SinkSpec => []BudgetCoversStore
<1>1. SinkInv => BudgetCoversStore
  BY DEF SinkInv, StoreInv
<1> QED
  BY <1>1, SinkInvariant, PTL

-----------------------------------------------------------------------------
(* Versions: the invariant.                                                *)

\* The operations on a document, one by one.
WriteOp(c, i, k) == [cmd |-> i, op |-> k, ver |-> c.ops[k].ver, val |-> c.ops[k].val]
ClearOp(c, i) == [cmd |-> i, op |-> 0, ver |-> c.pos, val |-> Absent]

IsOpIn(s, id, q) ==
  \/ \E i \in DOMAIN s : \E k \in DOMAIN s[i].ops : s[i].ops[k].id = id /\ q = WriteOp(s[i], i, k)
  \/ \E i \in DOMAIN s : s[i].kind = "truncate" /\ q = ClearOp(s[i], i)

\* The ones that have been executed: a truncate that is accounted for, and the
\* operations of an answered write that were not refused.
DoneOps(id) ==
  {o \in OpsOn(id) :
     IF o.op = 0 THEN o.cmd <= finished
     ELSE /\ o.cmd <= taken /\ outcome[o.cmd].res = "answered"
          /\ o.op \notin outcome[o.cmd].refused}

\* Before the first operation.
NoOp == [cmd |-> 0, op |-> 0, ver |-> 0, val |-> Absent]

\* The document of id is what operation q made it, or was not there when q, a
\* truncate, found nothing to delete; and nothing newer than q was executed.
StandsFor(id, q) ==
  /\ q \in OpsOn(id) \cup {NoOp}
  /\ docs[id].val = q.val
  /\ \/ docs[id].ver = q.ver
     \/ docs[id].ver < q.ver /\ q.op = 0 /\ 0 < q.cmd /\ q.cmd <= finished
  /\ \A o \in DoneOps(id) : Older(o, q)

\* No operation older than a truncate follows it.
ClearedFirst ==
  \A m, n \in DOMAIN sent :
    m < n /\ sent[m].kind = "truncate" => \A k \in Positions(n) : sent[m].pos <= sent[n].ops[k].ver

FinishedAnswered == \A i \in 1 .. finished : IsWrite(i) => outcome[i].res = "answered"

\* What LaterWriteWins presupposes of the requests.
Apart == VersionsTellApart \/ Concurrency = 1

VersionInv ==
  /\ ClearedFirst
  /\ FinishedAnswered
  /\ Apart => \A id \in Ids : \E q : StandsFor(id, q)

-----------------------------------------------------------------------------
(* The operations.                                                         *)

\* The operations on a document, operation by operation.
LEMMA OpsOnIs ==
  ASSUME NEW id \in Ids, NEW q
  PROVE  q \in OpsOn(id) <=> IsOpIn(sent, id, q)
<1> DEFINE W == UNION {{WriteOp(sent[i], i, k) : k \in {m \in DOMAIN sent[i].ops : sent[i].ops[m].id = id}} :
                         i \in DOMAIN sent}
           C == {ClearOp(sent[i], i) : i \in {n \in DOMAIN sent : sent[n].kind = "truncate"}}
<1>1. OpsOn(id) = W \cup C
  BY DEF OpsOn, WriteOp, ClearOp, Positions
<1>2. q \in W <=> \E i \in DOMAIN sent : \E k \in DOMAIN sent[i].ops :
                    sent[i].ops[k].id = id /\ q = WriteOp(sent[i], i, k)
  OBVIOUS
<1>3. q \in C <=> \E i \in DOMAIN sent : sent[i].kind = "truncate" /\ q = ClearOp(sent[i], i)
  OBVIOUS
<1> HIDE DEF W, C
<1> QED
  BY <1>1, <1>2, <1>3 DEF IsOpIn

\* The same of the next state.
LEMMA OpsOnNext ==
  ASSUME NEW id \in Ids, NEW q
  PROVE  q \in OpsOn(id)' <=> IsOpIn(sent', id, q)
<1> DEFINE W == UNION {{WriteOp(sent'[i], i, k) : k \in {m \in DOMAIN sent'[i].ops : sent'[i].ops[m].id = id}} :
                         i \in DOMAIN sent'}
           C == {ClearOp(sent'[i], i) : i \in {n \in DOMAIN sent' : sent'[n].kind = "truncate"}}
<1>1. OpsOn(id)' = W \cup C
  BY DEF OpsOn, WriteOp, ClearOp, Positions
<1>2. q \in W <=> \E i \in DOMAIN sent' : \E k \in DOMAIN sent'[i].ops :
                    sent'[i].ops[k].id = id /\ q = WriteOp(sent'[i], i, k)
  OBVIOUS
<1>3. q \in C <=> \E i \in DOMAIN sent' : sent'[i].kind = "truncate" /\ q = ClearOp(sent'[i], i)
  OBVIOUS
<1> HIDE DEF W, C
<1> QED
  BY <1>1, <1>2, <1>3 DEF IsOpIn

\* An operation of a write, and what its fields are.
LEMMA WriteOpType ==
  ASSUME DeliveryInv, NEW i \in DOMAIN sent, NEW k \in Positions(i)
  PROVE  /\ i \in Nat \ {0} /\ k \in Nat \ {0} /\ IsWrite(i)
         /\ sent[i].ops[k].ver \in Nat
<1>1. sent[i].ops \in Seq(Op) /\ i \in Nat \ {0} /\ IsWrite(i)
  BY SentType
<1>2. k \in 1 .. Len(sent[i].ops)
  BY <1>1 DEF Positions
<1>3. sent[i].ops[k] \in Op
  BY <1>1, <1>2
<1> QED
  BY <1>1, <1>2, <1>3 DEF Op

\* An operation on a document is one of a write, or a truncation.
LEMMA OpType ==
  ASSUME DeliveryInv, NEW id \in Ids, NEW q \in OpsOn(id)
  PROVE  /\ q.cmd \in DOMAIN sent /\ q.cmd \in Nat \ {0} /\ q.op \in Nat /\ q.ver \in Nat
         /\ q.op = 0 => q = ClearOp(sent[q.cmd], q.cmd) /\ sent[q.cmd].kind = "truncate"
         /\ q.op # 0 => /\ q.op \in Positions(q.cmd) /\ q = WriteOp(sent[q.cmd], q.cmd, q.op)
                        /\ sent[q.cmd].ops[q.op].id = id /\ IsWrite(q.cmd)
<1>1. CASE \E i \in DOMAIN sent : \E k \in DOMAIN sent[i].ops :
             sent[i].ops[k].id = id /\ q = WriteOp(sent[i], i, k)
  <2>1. PICK i \in DOMAIN sent : \E k \in Positions(i) :
               sent[i].ops[k].id = id /\ q = WriteOp(sent[i], i, k)
    BY <1>1 DEF Positions
  <2>2. PICK k \in Positions(i) : sent[i].ops[k].id = id /\ q = WriteOp(sent[i], i, k)
    BY <2>1
  <2>3. q.cmd = i /\ q.op = k /\ q.ver = sent[i].ops[k].ver
    BY <2>2 DEF WriteOp
  <2> QED
    BY <2>2, <2>3, WriteOpType
<1>2. CASE \E i \in DOMAIN sent : sent[i].kind = "truncate" /\ q = ClearOp(sent[i], i)
  <2>1. PICK i \in DOMAIN sent : sent[i].kind = "truncate" /\ q = ClearOp(sent[i], i)
    BY <1>2
  <2>2. q.cmd = i /\ q.op = 0 /\ q.ver = sent[i].pos
    BY <2>1 DEF ClearOp
  <2> QED
    BY <2>1, <2>2, SentType
<1> QED
  BY <1>1, <1>2, OpsOnIs DEF IsOpIn

\* The operation a document stands for has a version and a place.
LEMMA StandsForType ==
  ASSUME DeliveryInv, NEW id \in Ids, NEW q, StandsFor(id, q)
  PROVE  q.ver \in Nat /\ q.cmd \in Nat /\ q.op \in Nat /\ docs[id].ver \in Nat
<1>1. docs[id] \in Doc
  BY DEF DeliveryInv, DeliveryTypeOK, Docs
<1>2. CASE q = NoOp
  BY <1>1, <1>2 DEF NoOp, Doc
<1>3. CASE q \in OpsOn(id)
  BY <1>1, <1>3, OpType DEF Doc
<1> QED
  BY <1>2, <1>3 DEF StandsFor

-----------------------------------------------------------------------------
(* Steps that leave the documents alone.                                   *)

\* Commands are only ever added.
LEMMA AddedOps ==
  ASSUME DeliveryInv, NEW c, sent' = sent \/ sent' = Append(sent, c), NEW id \in Ids
  PROVE  /\ OpsOn(id) \subseteq OpsOn(id)'
         /\ \A q \in OpsOn(id)' : q \notin OpsOn(id) => q.cmd = Len(sent) + 1
         /\ Apart' => Apart
<1>1. /\ DOMAIN sent \subseteq DOMAIN sent'
      /\ \A i \in DOMAIN sent : sent'[i] = sent[i]
      /\ \A i \in DOMAIN sent' : i \notin DOMAIN sent => i = Len(sent) + 1
  BY DEF DeliveryInv, DeliveryTypeOK
<1>2. ASSUME NEW q \in OpsOn(id) PROVE q \in OpsOn(id)'
  <2>1. IsOpIn(sent, id, q)
    BY OpsOnIs
  <2>2. IsOpIn(sent', id, q)
    BY <1>1, <2>1 DEF IsOpIn
  <2> QED
    BY <2>2, OpsOnNext
<1>3. ASSUME NEW q \in OpsOn(id)', q \notin OpsOn(id) PROVE q.cmd = Len(sent) + 1
  <2>1. IsOpIn(sent', id, q) /\ ~IsOpIn(sent, id, q)
    BY <1>3, OpsOnIs, OpsOnNext
  <2>2. \E i \in DOMAIN sent' : i \notin DOMAIN sent /\ q.cmd = i
    BY <1>1, <2>1 DEF IsOpIn, WriteOp, ClearOp
  <2> QED
    BY <1>1, <2>2
<1>4. Apart' => Apart
  BY <1>1 DEF Apart, VersionsTellApart, Positions
<1> QED
  BY <1>2, <1>3, <1>4

\* A step that executes nothing: it hands over a command or none, and accounts
\* for something else than a truncate, if for anything.
LEMMA NothingExecuted ==
  ASSUME DeliveryInv, TakenOK, VersionInv,
         NEW c, sent' = sent \/ sent' = Append(sent, c),
         docs' = docs,
         finished' \in Nat, finished <= finished',
         \A i \in DOMAIN sent : finished < i /\ i <= finished' => sent[i].kind # "truncate",
         finished' <= Len(sent), Len(outcome') \in Nat, Len(outcome') <= Len(sent),
         \A i \in 1 .. Len(outcome') : outcome'[i].res = "answered" =>
           i <= taken /\ outcome'[i] = outcome[i]
  PROVE  Apart' => \A id \in Ids : \E q : StandsFor(id, q)'
<1> SUFFICES ASSUME Apart', NEW id \in Ids PROVE \E q : StandsFor(id, q)'
  OBVIOUS
<1>1. /\ OpsOn(id) \subseteq OpsOn(id)'
      /\ \A q \in OpsOn(id)' : q \notin OpsOn(id) => q.cmd = Len(sent) + 1
      /\ Apart
  BY AddedOps
<1>2. PICK q : StandsFor(id, q)
  BY <1>1 DEF VersionInv
<1>3. ASSUME NEW o \in DoneOps(id)' PROVE o \in DoneOps(id)
  <2>1. /\ o \in OpsOn(id)'
        /\ IF o.op = 0 THEN o.cmd <= finished'
           ELSE /\ o.cmd <= Len(outcome') /\ outcome'[o.cmd].res = "answered"
                /\ o.op \notin outcome'[o.cmd].refused
    BY DEF DoneOps, taken
  <2>2. o \in OpsOn(id)
    BY <1>1, <2>1, TypeFacts
  <2>3. o.cmd \in DOMAIN sent /\ o.cmd \in Nat \ {0}
        /\ (o.op = 0 => sent[o.cmd].kind = "truncate")
    BY <2>2, OpType
  <2>4. CASE o.op = 0
    BY <2>1, <2>2, <2>3, <2>4, TypeFacts DEF DoneOps
  <2>5. CASE o.op # 0
    BY <2>1, <2>2, <2>3, <2>5, TypeFacts DEF DoneOps
  <2> QED
    BY <2>4, <2>5
<1>4. q \in (OpsOn(id) \cup {NoOp})'
  BY <1>1, <1>2 DEF StandsFor, NoOp
<1>5. \/ docs'[id].ver = q.ver
      \/ docs'[id].ver < q.ver /\ q.op = 0 /\ 0 < q.cmd /\ q.cmd <= finished'
  <2>1. \/ docs[id].ver = q.ver
        \/ docs[id].ver < q.ver /\ q.op = 0 /\ 0 < q.cmd /\ q.cmd <= finished
    BY <1>2 DEF StandsFor
  <2>2. q.cmd \in Nat /\ finished \in Nat
    BY <1>2, StandsForType, TypeFacts
  <2> QED
    BY <2>1, <2>2
<1> QED
  BY <1>2, <1>3, <1>4, <1>5 DEF StandsFor

-----------------------------------------------------------------------------
(* Writes.                                                                 *)

\* What is executed of other requests is no newer than what an open one writes
\* over it.
LEMMA OverwritesOlder ==
  ASSUME DeliveryInv, TasksInv, VersionInv, Apart,
         NEW id \in Ids, NEW q, StandsFor(id, q),
         NEW i \in 1 .. taken, Pending(i), NEW k \in Positions(i),
         sent[i].ops[k].id = id, docs[id].ver <= sent[i].ops[k].ver,
         NEW o \in DoneOps(id)
  PROVE  Older(o, WriteOp(sent[i], i, k))
<1> DEFINE r == WriteOp(sent[i], i, k)
<1>1. /\ i \in DOMAIN sent /\ i \in Nat /\ k \in Nat \ {0} /\ sent[i].ops[k].ver \in Nat
      /\ finished < i /\ outcome[i].res = "open" /\ IsWrite(i)
      /\ r.cmd = i /\ r.op = k /\ r.ver = sent[i].ops[k].ver
  <2>1. i \in DOMAIN sent /\ finished < i /\ outcome[i].res = "open"
    BY TypeFacts DEF Pending, TasksInv
  <2> QED
    BY <2>1, WriteOpType DEF WriteOp
<1>2. /\ o \in OpsOn(id) /\ o.cmd \in DOMAIN sent /\ o.cmd \in Nat /\ o.op \in Nat /\ o.ver \in Nat
      /\ Older(o, q)
  BY OpType DEF DoneOps, StandsFor
<1>3. /\ q.ver \in Nat /\ q.cmd \in Nat /\ q.op \in Nat /\ docs[id].ver \in Nat
  BY StandsForType
<1>4. q.ver <= r.ver
  <2>1. CASE docs[id].ver = q.ver
    BY <1>1, <2>1
  <2>2. CASE q.op = 0 /\ 0 < q.cmd /\ q.cmd <= finished
    <3>1. q \in OpsOn(id)
      BY <2>2 DEF StandsFor, NoOp
    <3>2. q.cmd \in DOMAIN sent /\ q = ClearOp(sent[q.cmd], q.cmd) /\ sent[q.cmd].kind = "truncate"
      BY <2>2, <3>1, OpType
    <3>3. q.ver = sent[q.cmd].pos
      BY <3>2 DEF ClearOp
    <3>4. q.cmd < i
      BY <1>1, <1>3, <2>2, TypeFacts DEF TasksInv
    <3> QED
      BY <1>1, <3>2, <3>3, <3>4 DEF VersionInv, ClearedFirst
  <2> QED
    BY <2>1, <2>2 DEF StandsFor
<1>5. o.ver <= r.ver
  BY <1>1, <1>2, <1>3, <1>4 DEF Older
<1>6. o.ver = r.ver => o.cmd < i
  <2>1. CASE o.op = 0
    BY <1>1, <1>2, <2>1, TypeFacts DEF DoneOps, TasksInv
  <2>2. CASE o.op # 0
    <3>1. /\ o.op \in Positions(o.cmd) /\ sent[o.cmd].ops[o.op].id = id
          /\ o.ver = sent[o.cmd].ops[o.op].ver
          /\ o.cmd <= taken /\ outcome[o.cmd].res = "answered"
      BY <1>2, <2>2, OpType DEF DoneOps, WriteOp
    <3>2. o.cmd # i
      BY <1>1, <3>1
    <3>3. CASE VersionsTellApart
      <4>1. sent[o.cmd].ops[o.op].ver # sent[i].ops[k].ver
        BY <1>1, <1>2, <3>1, <3>2, <3>3 DEF VersionsTellApart
      <4> QED
        BY <1>1, <3>1, <4>1
    <3>4. CASE Concurrency = 1
      BY <1>1, <1>2, <3>1, <3>2, <3>4, TypeFacts DEF TasksInv, WindowOK
    <3> QED
      BY <3>3, <3>4 DEF Apart
  <2> QED
    BY <2>1, <2>2
<1> QED
  BY <1>1, <1>2, <1>5, <1>6 DEF Older

\* A try of an open request, the last one or not: the document stays newer than
\* everything that was executed, or becomes what the last of the newest executed
\* operations of the request says.
LEMMA Executed ==
  ASSUME DeliveryInv, TasksInv, VersionInv, Apart, sent' = sent, finished' = finished,
         NEW i \in 1 .. taken, Pending(i), NEW S \in SUBSET Positions(i),
         docs' = Write(docs, sent[i].ops, S),
         Len(outcome') = taken,
         \A j \in 1 .. taken : j # i => outcome'[j] = outcome[j],
         outcome'[i].res = "answered" =>
           \A k \in Positions(i) : k \notin outcome'[i].refused => k \in S,
         NEW id \in Ids
  PROVE  \E q : StandsFor(id, q)'
<1> DEFINE Mine(o) == o.cmd = i /\ o.op \in S /\ sent[i].ops[o.op].id = id
                      /\ o.ver = sent[i].ops[o.op].ver
<1>1. /\ i \in DOMAIN sent /\ docs \in Docs /\ sent[i].ops \in Seq(Op)
      /\ S \in SUBSET (DOMAIN sent[i].ops)
  <2>1. i \in DOMAIN sent
    BY TypeFacts DEF TasksInv
  <2> QED
    BY <2>1, SentType DEF DeliveryInv, DeliveryTypeOK, Positions
<1>2. PICK q : StandsFor(id, q)
  BY DEF VersionInv
<1>3. OpsOn(id)' = OpsOn(id)
  BY DEF OpsOn, Positions
<1>4. ASSUME NEW o \in DoneOps(id)' PROVE o \in DoneOps(id) \/ Mine(o)
  <2>1. /\ o \in OpsOn(id)
        /\ IF o.op = 0 THEN o.cmd <= finished
           ELSE /\ o.cmd <= taken /\ outcome'[o.cmd].res = "answered"
                /\ o.op \notin outcome'[o.cmd].refused
    BY <1>3 DEF DoneOps, taken
  <2>2. /\ o.cmd \in Nat \ {0}
        /\ o.op # 0 => /\ o.op \in Positions(o.cmd) /\ o.ver = sent[o.cmd].ops[o.op].ver
                       /\ sent[o.cmd].ops[o.op].id = id
    BY <2>1, OpType DEF WriteOp
  <2>3. CASE o.op = 0
    BY <2>1, <2>3 DEF DoneOps
  <2>4. CASE o.op # 0 /\ o.cmd # i
    <3>1. o.cmd \in 1 .. taken
      BY <2>1, <2>2, <2>4, TypeFacts DEF TasksInv
    <3> QED
      BY <2>1, <2>4, <3>1 DEF DoneOps
  <2>5. CASE o.op # 0 /\ o.cmd = i
    BY <2>1, <2>2, <2>5
  <2> QED
    BY <2>3, <2>4, <2>5
<1>5. /\ q.ver \in Nat /\ q.cmd \in Nat /\ q.op \in Nat /\ docs[id].ver \in Nat
      /\ docs[id].ver <= q.ver
  BY <1>2, StandsForType DEF StandsFor
<1>6. ASSUME NEW k \in S PROVE k \in Nat \ {0} /\ sent[i].ops[k].ver \in Nat
  BY <1>1, WriteOpType DEF Positions
<1>7. CASE WroteNothing(docs, sent[i].ops, S, id)
  <2>1. docs'[id] = docs[id]
    BY <1>7 DEF WroteNothing
  <2>2. ASSUME NEW o \in DoneOps(id)' PROVE Older(o, q)
    <3>1. CASE o \in DoneOps(id)
      BY <1>2, <3>1 DEF StandsFor
    <3>2. CASE Mine(o)
      <4>1. sent[i].ops[o.op].ver < docs[id].ver
        BY <1>7, <3>2 DEF WroteNothing
      <4> QED
        BY <1>5, <1>6, <3>2, <4>1 DEF Older
    <3> QED
      BY <1>4, <3>1, <3>2
  <2>3. q \in OpsOn(id)' \cup {NoOp}
    BY <1>2, <1>3 DEF StandsFor
  <2> QED
    BY <1>2, <2>1, <2>2, <2>3 DEF StandsFor, NoOp
<1>8. ASSUME NEW k \in S, WroteLast(docs, sent[i].ops, S, id, k) PROVE \E r : StandsFor(id, r)'
  <2> DEFINE r == WriteOp(sent[i], i, k)
  <2>1. r.cmd = i /\ r.op = k /\ r.ver = sent[i].ops[k].ver /\ r.val = sent[i].ops[k].val
    BY DEF WriteOp
  <2>2. r \in OpsOn(id)'
    <3>1. IsOpIn(sent, id, r)
      BY <1>1, <1>8 DEF IsOpIn, WroteLast
    <3> QED
      BY <1>3, <3>1, OpsOnIs
  <2>3. docs'[id].val = r.val /\ docs'[id].ver = r.ver
    BY <1>8, <2>1 DEF WroteLast
  <2>4. ASSUME NEW o \in DoneOps(id)' PROVE Older(o, r)
    <3>1. CASE o \in DoneOps(id)
      <4>1. sent[i].ops[k].id = id /\ docs[id].ver <= sent[i].ops[k].ver /\ k \in Positions(i)
        BY <1>5, <1>6, <1>8 DEF WroteLast
      <4> QED
        BY <1>2, <3>1, <4>1, OverwritesOlder
    <3>2. CASE Mine(o)
      <4>1. \/ sent[i].ops[o.op].ver < sent[i].ops[k].ver
            \/ sent[i].ops[o.op].ver = sent[i].ops[k].ver /\ o.op <= k
        BY <1>8, <3>2 DEF WroteLast
      <4> QED
        BY <2>1, <3>2, <4>1 DEF Older
    <3> QED
      BY <1>4, <3>1, <3>2
  <2> HIDE DEF r
  <2>5. PICK x : x = r
    OBVIOUS
  <2>6. StandsFor(id, x)'
    BY <2>2, <2>3, <2>4, <2>5 DEF StandsFor
  <2> QED
    BY <2>6
<1> QED
  BY <1>1, <1>7, <1>8, WriteEffect

-----------------------------------------------------------------------------
(* Truncates.                                                              *)

\* Everything executed so far was handed over ahead of the truncate that runs.
LEMMA DoneBefore ==
  ASSUME DeliveryInv, TasksInv, taken = finished + 1, ~IsWrite(taken),
         NEW id \in Ids, NEW o \in DoneOps(id)
  PROVE  o.cmd < taken /\ o.cmd \in Nat /\ o.ver \in Nat /\ o.op \in Nat
<1>1. /\ o \in OpsOn(id) /\ o.cmd \in Nat \ {0} /\ o.ver \in Nat /\ o.op \in Nat
      /\ o.op # 0 => IsWrite(o.cmd)
  BY OpType DEF DoneOps
<1>2. IF o.op = 0 THEN o.cmd <= finished ELSE o.cmd <= taken
  BY DEF DoneOps
<1>3. o.op # 0 => o.cmd # taken
  BY <1>1
<1> QED
  BY <1>1, <1>2, <1>3, TypeFacts DEF TasksInv

\* A truncate that ends, or that fails with the documents in S deleted.
LEMMA Truncated ==
  ASSUME DeliveryInv, TasksInv, VersionInv, Apart, sent' = sent, outcome' = outcome,
         taken = finished + 1, sent[taken].kind = "truncate",
         NEW S \in SUBSET Ids, docs' = Truncate(docs, sent[taken].pos, S),
         \/ finished' = taken /\ S = Ids
         \/ finished' = finished,
         NEW id \in Ids
  PROVE  \E q : StandsFor(id, q)'
<1> DEFINE t == taken
           r == ClearOp(sent[t], t)
<1>1. /\ t \in DOMAIN sent /\ t \in Nat \ {0} /\ finished \in Nat /\ ~IsWrite(t)
      /\ sent[t].pos \in Nat
  <2>1. t \in DOMAIN sent /\ t \in Nat \ {0} /\ finished \in Nat
    BY TypeFacts DEF TasksInv
  <2> QED
    BY <2>1, SentType DEF IsWrite
<1>2. r.cmd = t /\ r.op = 0 /\ r.ver = sent[t].pos /\ r.val = Absent
  BY DEF ClearOp
<1>3. OpsOn(id)' = OpsOn(id) /\ r \in OpsOn(id)
  <2>1. IsOpIn(sent, id, r)
    BY <1>1 DEF IsOpIn
  <2> QED
    BY <2>1, OpsOnIs DEF OpsOn, Positions
<1>4. PICK q : StandsFor(id, q)
  BY DEF VersionInv
<1>5. /\ q.ver \in Nat /\ q.cmd \in Nat /\ q.op \in Nat /\ docs[id].ver \in Nat
      /\ docs[id].ver <= q.ver
      /\ q \in OpsOn(id) \cup {NoOp}
  BY <1>4, StandsForType DEF StandsFor
<1>6. ASSUME NEW o \in DoneOps(id)'
      PROVE  o \in DoneOps(id) \/ (finished' = t /\ o = r)
  <2>1. /\ o \in OpsOn(id)
        /\ IF o.op = 0 THEN o.cmd <= finished'
           ELSE /\ o.cmd <= taken /\ outcome[o.cmd].res = "answered"
                /\ o.op \notin outcome[o.cmd].refused
    BY <1>3 DEF DoneOps, taken
  <2>2. o.cmd \in Nat /\ (o.op = 0 => o = ClearOp(sent[o.cmd], o.cmd))
    BY <2>1, OpType
  <2>3. CASE o.op = 0 /\ o.cmd > finished
    <3>1. finished' = t /\ o.cmd = t
      BY <1>1, <2>1, <2>2, <2>3
    <3> QED
      BY <2>2, <2>3, <3>1
  <2>4. CASE ~(o.op = 0 /\ o.cmd > finished)
    BY <1>1, <2>1, <2>2, <2>4 DEF DoneOps
  <2> QED
    BY <2>3, <2>4
<1>7. ASSUME NEW o \in DoneOps(id)
      PROVE  /\ o.cmd < t /\ o.cmd \in Nat /\ o.ver \in Nat /\ o.op \in Nat
             /\ Older(o, q)
             /\ q.ver <= r.ver => Older(o, r)
  <2>1. o.cmd < t /\ o.cmd \in Nat /\ o.ver \in Nat /\ o.op \in Nat
    BY <1>1, DoneBefore
  <2>2. Older(o, q)
    BY <1>4 DEF StandsFor
  <2>3. q.ver <= r.ver => Older(o, r)
    BY <1>1, <1>2, <1>5, <2>1, <2>2 DEF Older
  <2> QED
    BY <2>1, <2>2, <2>3
<1>8. Older(r, r)
  BY <1>1, <1>2 DEF Older
<1>9. docs'[id] = IF id \in S /\ docs[id].val # Absent /\ docs[id].ver <= sent[t].pos
                    THEN [val |-> Absent, ver |-> sent[t].pos] ELSE docs[id]
  BY DEF Truncate
<1> HIDE DEF r, t
<1>10. CASE id \in S /\ docs[id].val # Absent /\ docs[id].ver <= r.ver
  <2>1. docs[id].ver = q.ver
    <3> SUFFICES ASSUME q.op = 0 /\ 0 < q.cmd PROVE FALSE
      BY <1>4 DEF StandsFor
    <3>1. q = ClearOp(sent[q.cmd], q.cmd)
      BY <1>5, OpType DEF NoOp
    <3>2. q.val = Absent
      BY <3>1 DEF ClearOp
    <3> QED
      BY <1>4, <1>10, <3>2 DEF StandsFor
  <2>2. docs'[id].val = r.val /\ docs'[id].ver = r.ver
    BY <1>2, <1>9, <1>10
  <2>3. \A o \in DoneOps(id)' : Older(o, r)
    BY <1>6, <1>7, <1>8, <1>10, <2>1
  <2>4. PICK x : x = r
    OBVIOUS
  <2>5. StandsFor(id, x)'
    BY <1>3, <2>2, <2>3, <2>4 DEF StandsFor
  <2> QED
    BY <2>5
<1>11. CASE ~(id \in S /\ docs[id].val # Absent /\ docs[id].ver <= r.ver)
  <2>1. docs'[id] = docs[id]
    BY <1>2, <1>9, <1>11
  <2>2. CASE finished' = finished \/ q.ver > r.ver
    <3>1. ASSUME NEW o \in DoneOps(id)' PROVE Older(o, q)
      <4>1. CASE o \in DoneOps(id)
        BY <1>7, <4>1
      <4>2. CASE finished' = t /\ o = r
        <5>1. q.ver > r.ver
          BY <1>1, <2>2, <4>2 DEF t
        <5> QED
          BY <1>1, <1>2, <1>5, <4>2, <5>1 DEF Older
      <4> QED
        BY <1>6, <4>1, <4>2
    <3>2. \/ docs'[id].ver = q.ver
          \/ docs'[id].ver < q.ver /\ q.op = 0 /\ 0 < q.cmd /\ q.cmd <= finished'
      BY <1>1, <1>4, <1>5, <2>1 DEF StandsFor, t
    <3>3. q \in (OpsOn(id) \cup {NoOp})'
      BY <1>3, <1>5 DEF NoOp
    <3>4. StandsFor(id, q)'
      BY <1>4, <2>1, <3>1, <3>2, <3>3 DEF StandsFor
    <3> QED
      BY <3>4
  <2>3. CASE finished' = t /\ S = Ids /\ q.ver <= r.ver
    <3>1. docs[id].ver <= r.ver /\ docs[id].val = Absent
      BY <1>1, <1>2, <1>5, <1>11, <2>3
    <3>2. \/ docs'[id].ver = r.ver
          \/ docs'[id].ver < r.ver /\ r.op = 0 /\ 0 < r.cmd /\ r.cmd <= finished'
      BY <1>1, <1>2, <1>5, <2>1, <2>3, <3>1
    <3>3. \A o \in DoneOps(id)' : Older(o, r)
      BY <1>6, <1>7, <1>8, <2>3
    <3>4. PICK x : x = r
      OBVIOUS
    <3>5. StandsFor(id, x)'
      BY <1>2, <1>3, <2>1, <3>1, <3>2, <3>3, <3>4 DEF StandsFor
    <3> QED
      BY <3>5
  <2> QED
    BY <1>1, <1>2, <1>5, <2>2, <2>3 DEF t
<1> QED
  BY <1>10, <1>11

-----------------------------------------------------------------------------
(* The invariant is inductive.                                             *)

\* Before the first request every document is absent and stands for no operation.
LEMMA VersionInitInv == ASSUME SinkInit PROVE VersionInv
<1>1. sent = <<>> /\ finished = 0 /\ docs = [id \in Ids |-> NoDoc] /\ DOMAIN sent = {}
  BY DEF SinkInit, DeliveryInit
<1>2. ASSUME NEW id \in Ids PROVE StandsFor(id, NoOp)
  <2>1. docs[id].val = NoOp.val /\ docs[id].ver = NoOp.ver
    BY <1>1 DEF NoDoc, NoOp
  <2>2. OpsOn(id) = {}
    BY <1>1, OpsOnIs DEF IsOpIn
  <2> QED
    BY <2>1, <2>2 DEF StandsFor, DoneOps
<1> QED
  BY <1>1, <1>2 DEF VersionInv, ClearedFirst, FinishedAnswered

\* The engine puts no row older than a truncate behind it, and nothing else adds
\* commands.
LEMMA ClearedFirstKept ==
  ASSUME DeliveryInv, ClearedFirst, [SinkNext]_sinkLoopVars
  PROVE  ClearedFirst'
<1>1. CASE sent' = sent
  BY <1>1 DEF ClearedFirst, Positions
<1>2. CASE Send
  <2>1. PICK c \in Commands : InOrder(c) /\ sent' = Append(sent, c)
    BY <1>2 DEF Send, EngineSends
  <2>2. /\ Len(sent) \in Nat /\ DOMAIN sent = 1 .. Len(sent)
        /\ DOMAIN sent' = 1 .. Len(sent) + 1
        /\ \A i \in DOMAIN sent : sent'[i] = sent[i]
        /\ sent'[Len(sent) + 1] = c
    BY <2>1 DEF DeliveryInv, DeliveryTypeOK
  <2> SUFFICES ASSUME NEW m \in DOMAIN sent', NEW n \in DOMAIN sent',
                      m < n, sent'[m].kind = "truncate", NEW k \in DOMAIN sent'[n].ops
               PROVE  sent'[m].pos <= sent'[n].ops[k].ver
    BY DEF ClearedFirst, Positions
  <2>3. m \in DOMAIN sent
    BY <2>2
  <2>4. CASE n \in DOMAIN sent
    BY <2>2, <2>3, <2>4 DEF ClearedFirst, Positions
  <2>5. CASE n = Len(sent) + 1
    <3>1. c.ops[k].ver \in Versions(c)
      BY <2>2, <2>5 DEF Versions
    <3> QED
      BY <2>1, <2>2, <2>3, <2>5, <3>1 DEF InOrder
  <2> QED
    BY <2>2, <2>4, <2>5
<1>3. sent' = sent \/ Send
  BY DEF SinkNext, Close, EngineCloses, SinkStep, TakeCommand, TryWrite, WriteAnswered, WriteFails,
         FinishWrite, AckPosition, ReportMark, TruncateIndex, TruncateFails, Drained, CkptStep,
         CkptWake, CkptLands, CkptOk, CkptFails, sinkLoopVars, channelVars
<1> QED
  BY <1>1, <1>2, <1>3

\* How a step may change the requests: one is taken, answered or fails, none
\* that is accounted for changes, and a write is accounted for once answered.
LEMMA OutcomesGrow ==
  ASSUME DeliveryInv, TasksInv, [SinkNext]_sinkLoopVars
  PROVE  /\ finished' \in Nat /\ finished <= finished' /\ finished' <= taken
         /\ \A i \in 1 .. finished : sent'[i] = sent[i] /\ outcome'[i] = outcome[i]
         /\ \A i \in 1 .. taken : sent'[i] = sent[i]
         /\ \/ finished' = finished
            \/ /\ finished' = finished + 1 /\ outcome' = outcome
               /\ IsWrite(finished') => outcome[finished'].res = "answered"
<1> USE TypeFacts DEF TasksInv
<1>1. CASE Send
  BY <1>1 DEF Send, EngineSends, accountVars, DeliveryInv, DeliveryTypeOK
<1>2. CASE TakeCommand
  BY <1>2 DEF TakeCommand, channelVars, taken, TakenOK
<1>3. ASSUME NEW i \in 1 .. taken,
             (\E R \in SUBSET Positions(i) : WriteAnswered(i, R)) \/ WriteFails(i)
      PROVE  /\ finished' = finished /\ sent' = sent
             /\ \A j \in 1 .. finished : outcome'[j] = outcome[j]
  <2>1. CASE WriteFails(i)
    BY <2>1 DEF WriteFails, Pending, channelVars, TakenOK
  <2>2. ASSUME NEW R \in SUBSET Positions(i), WriteAnswered(i, R)
        PROVE  /\ finished' = finished /\ sent' = sent
               /\ \A j \in 1 .. finished : outcome'[j] = outcome[j]
    BY <2>2 DEF WriteAnswered, Pending, channelVars, TakenOK
  <2> QED
    BY <1>3, <2>1, <2>2
<1>4. CASE FinishWrite
  <2>1. finished < taken /\ outcome' = outcome /\ sent' = sent
    BY <1>4 DEF FinishWrite, channelVars
  <2>2. \/ finished' = finished
        \/ finished' = finished + 1 /\ outcome[finished + 1].res = "answered"
    BY <1>4 DEF FinishWrite, Accept, ExhaustBudget, FilingFails, Abandon, Halt
  <2> QED
    BY <2>1, <2>2
<1>5. CASE AckPosition \/ ReportMark \/ TruncateIndex \/ TruncateFails
  <2>1. taken = finished + 1 /\ ~IsWrite(taken)
    BY <1>5 DEF AckPosition, ReportMark, TruncateIndex, TruncateFails, AtBarrier, HoldsBarrier
  <2>2. outcome' = outcome /\ sent' = sent /\ finished' \in {finished, taken}
    BY <1>5 DEF AckPosition, ReportMark, TruncateIndex, TruncateFails, Halt, channelVars
  <2> QED
    BY <2>1, <2>2
<1>6. CASE Close \/ (\E i \in 1 .. taken : \E S \in SUBSET Positions(i) : TryWrite(i, S))
           \/ Drained \/ CkptStep \/ UNCHANGED sinkLoopVars
  <2>1. UNCHANGED <<sent, outcome, finished>>
    BY <1>6 DEF Close, EngineCloses, TryWrite, Drained, CkptStep, CkptWake, CkptLands, CkptOk,
                CkptFails, sinkLoopVars, sinkVars, accountVars, channelVars
  <2> QED
    BY <2>1
<1> QED
  BY <1>1, <1>2, <1>3, <1>4, <1>5, <1>6 DEF SinkNext, SinkStep

\* A write is finished when its answer is in.
LEMMA FinishedAnsweredKept ==
  ASSUME DeliveryInv, TasksInv, FinishedAnswered, [SinkNext]_sinkLoopVars
  PROVE  FinishedAnswered'
<1> USE TypeFacts DEF TasksInv
<1>1. /\ finished' \in Nat /\ finished <= finished' /\ finished' <= taken
      /\ \A i \in 1 .. finished : sent'[i] = sent[i] /\ outcome'[i] = outcome[i]
      /\ \A i \in 1 .. taken : sent'[i] = sent[i]
      /\ \/ finished' = finished
         \/ /\ finished' = finished + 1 /\ outcome' = outcome
            /\ IsWrite(finished') => outcome[finished'].res = "answered"
  BY OutcomesGrow
<1> SUFFICES ASSUME NEW i \in 1 .. finished', sent'[i].kind = "write"
             PROVE  outcome'[i].res = "answered"
  BY DEF FinishedAnswered, IsWrite
<1>2. CASE i \in 1 .. finished
  BY <1>1, <1>2 DEF FinishedAnswered, IsWrite
<1>3. CASE i = finished + 1
  BY <1>1, <1>3 DEF IsWrite
<1> QED
  BY <1>1, <1>2, <1>3

\* The documents.
LEMMA StandsForKept ==
  ASSUME DeliveryInv, TasksInv, VersionInv, Apart', [SinkNext]_sinkLoopVars, NEW id \in Ids
  PROVE  \E q : StandsFor(id, q)'
<1>1. CASE Send
  <2>1. PICK c \in Commands : sent' = Append(sent, c)
    BY <1>1 DEF Send, EngineSends
  <2>2. UNCHANGED <<docs, finished, outcome>>
    BY <1>1 DEF Send, EngineSends, accountVars, targetVars
  <2> QED
    <3>1. /\ finished' \in Nat /\ finished <= finished' /\ finished' <= Len(sent)
          /\ Len(outcome') = taken /\ taken \in Nat /\ taken <= Len(sent)
          /\ \A i \in DOMAIN sent : finished < i /\ i <= finished' => sent[i].kind # "truncate"
      BY <2>2, TypeFacts DEF TasksInv, taken
    <3>2. \A i \in 1 .. Len(outcome') : i <= taken /\ outcome'[i] = outcome[i]
      BY <2>2, <3>1
    <3>3. \A j \in Ids : \E q : StandsFor(j, q)'
      BY <2>1, <2>2, <3>1, <3>2, NothingExecuted DEF TasksInv
    <3> QED
      BY <3>3
<1>2. ASSUME sent' = sent PROVE Apart
  BY <1>2 DEF Apart, VersionsTellApart, Positions
<1>3. ASSUME NEW i \in 1 .. taken, NEW S \in SUBSET Positions(i), TryWrite(i, S)
      PROVE  \E q : StandsFor(id, q)'
  <2>1. /\ Pending(i) /\ docs' = Write(docs, sent[i].ops, S)
        /\ UNCHANGED <<sent, finished, outcome>>
    BY <1>3 DEF TryWrite, channelVars, sinkVars, accountVars
  <2>2. outcome'[i].res # "answered" /\ Len(outcome') = taken
    BY <2>1 DEF Pending, taken
  <2> QED
    BY <1>2, <2>1, <2>2, Executed
<1>4. ASSUME NEW i \in 1 .. taken, NEW R \in SUBSET Positions(i), WriteAnswered(i, R)
      PROVE  \E q : StandsFor(id, q)'
  <2>1. /\ Pending(i) /\ docs' = Write(docs, sent[i].ops, Positions(i) \ R)
        /\ UNCHANGED <<sent, finished>>
        /\ outcome' = [outcome EXCEPT ![i] = [res |-> "answered", refused |-> R]]
    BY <1>4 DEF WriteAnswered, channelVars
  <2>2. /\ Len(outcome') = taken /\ outcome'[i].refused = R
        /\ \A j \in 1 .. taken : j # i => outcome'[j] = outcome[j]
    BY <2>1, TypeFacts DEF taken, TasksInv, TakenOK
  <2>3. Positions(i) \ R \in SUBSET Positions(i)
    OBVIOUS
  <2> QED
    BY <1>2, <2>1, <2>2, <2>3, Executed
<1>5. CASE TruncateIndex \/ TruncateFails
  <2>1. /\ UNCHANGED <<sent, outcome>> /\ taken = finished + 1 /\ sent[taken].kind = "truncate"
    BY <1>5 DEF TruncateIndex, TruncateFails, AtBarrier, channelVars
  <2>2. \E S \in SUBSET Ids : /\ docs' = Truncate(docs, sent[taken].pos, S)
                              /\ \/ finished' = taken /\ S = Ids
                                 \/ finished' = finished
    BY <1>5 DEF TruncateIndex, TruncateFails, Halt
  <2> QED
    BY <1>2, <2>1, <2>2, Truncated
<1>6. ASSUME UNCHANGED <<sent, docs>>,
             finished' \in Nat, finished <= finished',
             \A i \in DOMAIN sent : finished < i /\ i <= finished' => sent[i].kind # "truncate",
             finished' <= Len(sent), Len(outcome') \in Nat, Len(outcome') <= Len(sent),
             \A i \in 1 .. Len(outcome') : outcome'[i].res = "answered" =>
               i <= taken /\ outcome'[i] = outcome[i]
      PROVE  \E q : StandsFor(id, q)'
  BY <1>6, NothingExecuted DEF TasksInv
<1>7. CASE UNCHANGED <<sent, docs, finished, outcome>>
  BY <1>6, <1>7, TypeFacts DEF TasksInv, taken
<1>8. CASE TakeCommand
  <2>1. /\ UNCHANGED <<sent, docs, finished>> /\ taken < Len(sent)
        /\ outcome' = Append(outcome, [res |-> "open", refused |-> {}])
    BY <1>8 DEF TakeCommand, channelVars, targetVars
  <2>2. /\ Len(outcome') = taken + 1
        /\ \A i \in 1 .. taken : outcome'[i] = outcome[i]
        /\ outcome'[taken + 1].res = "open"
    BY <2>1, TypeFacts DEF taken, TasksInv, TakenOK
  <2> QED
    BY <1>6, <2>1, <2>2, TypeFacts DEF TasksInv
<1>9. ASSUME NEW i \in 1 .. taken, WriteFails(i) PROVE \E q : StandsFor(id, q)'
  <2>1. /\ UNCHANGED <<sent, docs, finished>>
        /\ outcome' = [outcome EXCEPT ![i] = [res |-> "failed", refused |-> {}]]
    BY <1>9 DEF WriteFails, channelVars, targetVars
  <2>2. /\ Len(outcome') = taken /\ outcome'[i].res = "failed"
        /\ \A j \in 1 .. taken : j # i => outcome'[j] = outcome[j]
    BY <2>1, TypeFacts DEF taken, TasksInv, TakenOK
  <2> QED
    BY <1>6, <2>1, <2>2, TypeFacts DEF TasksInv
<1>10. CASE FinishWrite \/ AckPosition \/ ReportMark
  <2>1. /\ UNCHANGED <<sent, docs, outcome>>
        /\ finished' \in {finished, finished + 1}
        /\ finished < taken /\ sent[finished + 1].kind # "truncate"
    <3>1. CASE FinishWrite
      BY <3>1 DEF FinishWrite, Accept, ExhaustBudget, FilingFails, Abandon, Halt, channelVars, IsWrite
    <3>2. CASE AckPosition
      BY <3>2, TypeFacts DEF TasksInv, AckPosition, AtBarrier, HoldsBarrier, channelVars, targetVars
    <3>3. CASE ReportMark
      BY <3>3, TypeFacts DEF TasksInv, ReportMark, AtBarrier, HoldsBarrier, channelVars, targetVars
    <3> QED
      BY <1>10, <3>1, <3>2, <3>3
  <2>2. /\ finished' \in Nat /\ finished <= finished' /\ finished' <= Len(sent)
        /\ \A i \in DOMAIN sent : finished < i /\ i <= finished' => sent[i].kind # "truncate"
    BY <2>1, TypeFacts DEF TasksInv
  <2> QED
    BY <1>6, <2>1, <2>2, TypeFacts DEF TasksInv, taken
<1>11. CASE Close \/ Drained \/ CkptStep \/ UNCHANGED sinkLoopVars
  <2>1. UNCHANGED <<sent, docs, finished, outcome>>
    BY <1>11 DEF Close, EngineCloses, Drained, CkptStep, CkptWake, CkptLands, CkptOk,
                 CkptFails, sinkLoopVars, sinkVars, accountVars, channelVars, targetVars
  <2> QED
    BY <1>7, <2>1
<1> QED
  BY <1>1, <1>3, <1>4, <1>5, <1>8, <1>9, <1>10, <1>11 DEF SinkNext, SinkStep

\* Every step of the two tasks keeps it.
LEMMA VersionStepInv ==
  ASSUME SinkInv, VersionInv, [SinkNext]_sinkLoopVars
  PROVE  VersionInv'
<1>1. ClearedFirst' /\ FinishedAnswered'
  BY ClearedFirstKept, FinishedAnsweredKept DEF SinkInv, VersionInv
<1>2. ASSUME Apart', NEW id \in Ids PROVE \E q : StandsFor(id, q)'
  BY <1>2, StandsForKept DEF SinkInv
<1> QED
  BY <1>1, <1>2 DEF VersionInv

-----------------------------------------------------------------------------
(* The theorems.                                                           *)

\* The newest operation on a document is the one it stands for, once everything
\* is accounted for.
LEMMA NewestStands ==
  ASSUME DeliveryInv, TasksInv, VersionInv, AllAccepted, Apart
  PROVE  HoldsLastOp
<1> SUFFICES ASSUME NEW id \in Ids, NEW p \in OpsOn(id), \A o \in OpsOn(id) : Older(o, p)
             PROVE  docs[id].val = p.val
  BY DEF HoldsLastOp
<1>1. PICK q : StandsFor(id, q)
  BY DEF VersionInv
<1>2. /\ p.cmd \in DOMAIN sent /\ p.cmd \in Nat \ {0} /\ p.op \in Nat /\ p.ver \in Nat
      /\ p.op = 0 => p = ClearOp(sent[p.cmd], p.cmd)
      /\ p.op # 0 => p = WriteOp(sent[p.cmd], p.cmd, p.op) /\ IsWrite(p.cmd)
  BY OpType
<1>3. p \in DoneOps(id)
  <2>1. p.cmd <= finished /\ p.cmd \in 1 .. finished /\ p.cmd <= taken /\ outcome[p.cmd].refused = {}
    BY <1>2, TypeFacts DEF AllAccepted, TasksInv
  <2> QED
    BY <1>2, <2>1 DEF DoneOps, VersionInv, FinishedAnswered
<1>4. Older(p, q)
  BY <1>1, <1>3 DEF StandsFor
<1>5. q \in OpsOn(id)
  <2>1. ~Older(p, NoOp)
    BY <1>2 DEF Older, NoOp
  <2> QED
    BY <1>1, <1>4, <2>1 DEF StandsFor
<1>6. /\ q.cmd \in Nat \ {0} /\ q.op \in Nat /\ q.ver \in Nat
      /\ q.op = 0 => q = ClearOp(sent[q.cmd], q.cmd)
      /\ q.op # 0 => q = WriteOp(sent[q.cmd], q.cmd, q.op)
  BY <1>5, OpType
<1>7. Older(q, p)
  BY <1>5
<1>8. q.cmd = p.cmd /\ q.op = p.op
  BY <1>2, <1>4, <1>6, <1>7 DEF Older
<1>9. q = p
  BY <1>2, <1>6, <1>8
<1> QED
  BY <1>1, <1>9 DEF StandsFor

\* Each document stands for an operation that nothing executed is newer than,
\* at every moment and not only when all is accounted for.
THEOREM VersionInvariant == SinkSpec => []VersionInv
<1>1. SinkInit => VersionInv
  BY VersionInitInv
<1>2. SinkInv /\ VersionInv /\ [SinkNext]_sinkLoopVars => VersionInv'
  BY VersionStepInv
<1> QED
  BY <1>1, <1>2, SinkInvariant, PTL DEF SinkSpec

\* However open requests overtake each other on the way to the target, are tried
\* again, in part, refused, or aborted, each document ends as the newest
\* operation handed over for it made it (sink/src/lib.rs and elasticsearch.rs,
\* version_type external_gte, under sink_loop's window of open requests), if the
\* versions tell the requests apart or one request is open at a time.
THEOREM NewestWriteWins == SinkSpec => []LaterWriteWins
<1>1. SinkInv /\ VersionInv => LaterWriteWins
  BY NewestStands DEF SinkInv, LaterWriteWins, Apart
<1> QED
  BY <1>1, SinkInvariant, VersionInvariant, PTL
=============================================================================
