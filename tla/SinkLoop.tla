------------------------------ MODULE SinkLoop ------------------------------
(***************************************************************************)
(* One attempt of the sink task and of the checkpoint task                 *)
(* (crates/engine/src/lib.rs, `sink_loop`, `Acks` and the checkpoint loop  *)
(* of `run`).                                                              *)
(*                                                                         *)
(* The engine hands commands to the sink task over a channel.  Write       *)
(* requests may be open concurrently, up to write_concurrency of them, and *)
(* reach the target in any order, but they are accounted for in the order  *)
(* they were handed over; every other command is a barrier.  Accounting    *)
(* for a command acknowledges its position, and the checkpoint task        *)
(* persists the acknowledged position and then publishes it as durable,    *)
(* which is what the source may confirm upstream.                          *)
(*                                                                         *)
(* Of the commands in `sent`, the ones after `taken` are in the channel,   *)
(* the ones in finished+1 .. taken are open (or the barrier being waited   *)
(* for), and the ones up to `finished` are accounted for.                  *)
(***************************************************************************)
EXTENDS Delivery

CONSTANT MaxRejects   \* [engine] max_rejects

ASSUME SinkLoopAssumption == MaxRejects \in Nat /\ IsFiniteSet(Ids)

VARIABLES
  outcome,     \* for each command taken off the channel, how its request stands
  filed,       \* ids with a record in the quarantine store
  quarantined, \* Acks::quarantined, the sink task's own count
  ckpt         \* the checkpoint task

sinkVars == <<outcome, filed, quarantined, accountVars>>
ckptVars == <<ckptDocVars, ckpt>>
sinkLoopVars == <<channelVars, sinkVars, targetVars, ckptVars>>

-----------------------------------------------------------------------------
(* Derived state.                                                          *)

taken == Len(outcome)

\* A request is open from the moment the command is taken until it is answered.
Pending(i) == i \in finished + 1 .. taken /\ IsWrite(i) /\ outcome[i].res = "open"

\* The sink task holds a barrier: it drains what is open and takes nothing.
HoldsBarrier == taken > finished /\ ~IsWrite(taken)

Inflight == taken - finished

-----------------------------------------------------------------------------
(* The engine's end of the channel, a send waiting for room.               *)

Send ==
  /\ Len(sent) - taken < ChannelCap
  /\ EngineSends
  /\ UNCHANGED <<outcome, filed, quarantined, ckpt>>

Close ==
  /\ EngineCloses
  /\ UNCHANGED <<outcome, filed, quarantined, ckpt>>

-----------------------------------------------------------------------------
(* The sink task.                                                          *)

\* Mutant: a command is taken while a barrier is being waited for.
TakePastBarrier ==
  /\ sink = "running"
  /\ taken < Len(sent)
  /\ Inflight < Concurrency
  /\ Inflight > 0 => outcome[finished + 1].res = "open"
  /\ outcome' = Append(outcome, [res |-> "open", refused |-> {}])
  /\ UNCHANGED <<channelVars, finished, sink, filed, quarantined, acked, loadDone,
                 targetVars, ckptVars>>

\* A command is received when no barrier is being waited for, the window has
\* room, and the oldest open write has not answered (the select is biased).
TakeCommand ==
  /\ sink = "running"
  /\ taken < Len(sent)
  /\ ~HoldsBarrier
  /\ Inflight < Concurrency
  /\ Inflight > 0 => outcome[finished + 1].res = "open"
  /\ outcome' = Append(outcome, [res |-> "open", refused |-> {}])
  /\ UNCHANGED <<channelVars, finished, sink, filed, quarantined, acked, loadDone,
                 targetVars, ckptVars>>

\* One try of an open request executes the actions at positions S and is not
\* the last one: its answer was lost or had a 429 or 5xx item, so it will be
\* retried.  A request that was aborted when the sink task halted can still
\* reach the target.
TryWrite(i, S) ==
  /\ sink # "done"
  /\ Pending(i)
  /\ docs' = Write(docs, sent[i].ops, S)
  /\ UNCHANGED <<channelVars, sinkVars, settled, ckptVars>>

\* The last try of a request: the target refuses the actions at positions R
\* for good and has executed the others.
WriteAnswered(i, R) ==
  /\ sink = "running"
  /\ Pending(i)
  /\ docs' = Write(docs, sent[i].ops, Positions(i) \ R)
  /\ settled' = settled \cup OpsOf(i, Positions(i) \ R)
  /\ outcome' = [outcome EXCEPT ![i] = [res |-> "answered", refused |-> R]]
  /\ UNCHANGED <<channelVars, finished, sink, filed, quarantined, acked, loadDone,
                 ckptVars>>

\* The request fails permanently, or the retries run out.
WriteFails(i) ==
  /\ sink = "running"
  /\ Pending(i)
  /\ outcome' = [outcome EXCEPT ![i] = [res |-> "failed", refused |-> {}]]
  /\ UNCHANGED <<channelVars, finished, sink, filed, quarantined, acked, loadDone,
                 targetVars, ckptVars>>

Halt ==
  /\ sink' = "halted"
  /\ UNCHANGED <<finished, quarantined, acked, loadDone>>

\* A zero position comes from a batch of the load, or a piece without a commit.
PublishAck(pos) == acked' = IF pos > 0 THEN pos ELSE acked

Refused(i) == {sent[i].ops[k].id : k \in outcome[i].refused}

\* Acks::apply for the oldest open write once it has answered without refusals,
\* or with refusals that are filed and leave budget to spare: the position is
\* acknowledged after the refusals are filed.
Accept(i) ==
  /\ outcome[i].res = "answered"
  /\ outcome[i].refused # {} =>
       /\ Policy = "quarantine"
       /\ quarantined + Cardinality(outcome[i].refused) < MaxRejects
  /\ filed' = filed \cup Refused(i)
  /\ settled' = settled \cup OpsOf(i, outcome[i].refused)
  /\ quarantined' = quarantined + Cardinality(outcome[i].refused)
  /\ PublishAck(sent[i].pos)
  /\ finished' = i
  /\ UNCHANGED <<sink, loadDone>>

\* The refusals are filed, and with them the budget is spent.
ExhaustBudget(i) ==
  /\ outcome[i].res = "answered" /\ outcome[i].refused # {}
  /\ Policy = "quarantine"
  /\ quarantined < MaxRejects
  /\ quarantined + Cardinality(outcome[i].refused) >= MaxRejects
  /\ filed' = filed \cup Refused(i)
  /\ settled' = settled \cup OpsOf(i, outcome[i].refused)
  /\ quarantined' = quarantined + Cardinality(outcome[i].refused)
  /\ sink' = "halted"
  /\ UNCHANGED <<finished, acked, loadDone>>

\* Filing goes one document at a time and fails after the ones in F.
FilingFails(i) ==
  /\ outcome[i].res = "answered" /\ outcome[i].refused # {}
  /\ Policy = "quarantine"
  /\ quarantined < MaxRejects
  /\ \E F \in SUBSET outcome[i].refused :
       /\ F # outcome[i].refused
       /\ filed' = filed \cup {sent[i].ops[k].id : k \in F}
       /\ settled' = settled \cup OpsOf(i, F)
  /\ Halt

\* The write failed, a refusal under the policy "halt", or a budget that was
\* spent before.
Abandon(i) ==
  /\ \/ outcome[i].res = "failed"
     \/ /\ outcome[i].res = "answered" /\ outcome[i].refused # {}
        /\ Policy = "halt" \/ quarantined >= MaxRejects
  /\ Halt
  /\ UNCHANGED <<filed, settled>>

\* Mutant: any open write that has answered is accounted for, not the oldest.
FinishAnyWrite ==
  /\ sink = "running"
  /\ \E i \in finished + 1 .. taken : IsWrite(i) /\ Accept(i)
  /\ UNCHANGED <<channelVars, outcome, docs, ckptVars>>

\* take_one and finish: writes are accounted for oldest first.
FinishWrite ==
  /\ sink = "running"
  /\ finished < taken
  /\ LET i == finished + 1 IN
       /\ IsWrite(i)
       /\ \/ Accept(i)
          \/ ExhaustBudget(i)
          \/ FilingFails(i)
          \/ Abandon(i)
  /\ UNCHANGED <<channelVars, outcome, docs, ckptVars>>

\* Mutant: a barrier runs without draining the open writes.
AtBarrierUndrained(kind) ==
  /\ sink = "running"
  /\ HoldsBarrier
  /\ sent[taken].kind = kind

\* A barrier runs once every write ahead of it is accounted for.
AtBarrier(kind) ==
  /\ sink = "running"
  /\ HoldsBarrier
  /\ taken = finished + 1
  /\ sent[taken].kind = kind

\* Mutant: the command behind the position is counted as accounted for.
AckPositionPastEnd ==
  /\ AtBarrier("position")
  /\ PublishAck(sent[taken].pos)
  /\ finished' = taken + 1
  /\ UNCHANGED <<channelVars, outcome, sink, filed, quarantined, loadDone,
                 targetVars, ckptVars>>

AckPosition ==
  /\ AtBarrier("position")
  /\ PublishAck(sent[taken].pos)
  /\ finished' = taken
  /\ UNCHANGED <<channelVars, outcome, sink, filed, quarantined, loadDone,
                 targetVars, ckptVars>>

ReportMark ==
  /\ AtBarrier("mark")
  /\ loadDone' = sent[taken].pos
  /\ finished' = taken
  /\ UNCHANGED <<channelVars, outcome, sink, filed, quarantined, acked,
                 targetVars, ckptVars>>

TruncateIndex ==
  /\ AtBarrier("truncate")
  /\ docs' = Truncate(docs, sent[taken].pos, Ids)
  /\ finished' = taken
  /\ UNCHANGED <<channelVars, outcome, sink, filed, quarantined, acked, loadDone,
                 settled, ckptVars>>

\* The truncate fails part-way, with the documents in S already deleted.
TruncateFails ==
  /\ AtBarrier("truncate")
  /\ \E S \in SUBSET Ids : docs' = Truncate(docs, sent[taken].pos, S)
  /\ Halt
  /\ UNCHANGED <<channelVars, outcome, filed, settled, ckptVars>>

\* The channel is closed and empty and the last writes are accounted for.
Drained ==
  /\ sink = "running"
  /\ closed
  /\ taken = Len(sent)
  /\ finished = taken
  /\ sink' = "done"
  /\ UNCHANGED <<channelVars, outcome, finished, filed, quarantined, acked, loadDone,
                 targetVars, ckptVars>>

-----------------------------------------------------------------------------
(* The checkpoint task: every interval, and one last time once the sink    *)
(* task has ended, it persists the acknowledged position if that changed   *)
(* and only then publishes it as durable.                                  *)

\* Mutant: the position is published as durable before it is stored.
CkptWakePublishes ==
  /\ ckpt.pc = "sleep"
  /\ acked # 0 /\ acked # ckpt.last
  /\ ckpt' = [ckpt EXCEPT !.pc = "write", !.lsn = acked, !.closing = sink # "running"]
  /\ durable' = acked
  /\ UNCHANGED <<channelVars, sinkVars, targetVars, persisted>>

CkptWake ==
  /\ ckpt.pc = "sleep"
  /\ LET closing == sink # "running"
         news    == acked # 0 /\ acked # ckpt.last
     IN  ckpt' = [ckpt EXCEPT !.pc = IF news THEN "write" ELSE IF closing THEN "ended" ELSE "sleep",
                              !.lsn = IF news THEN acked ELSE @,
                              !.closing = closing]
  /\ UNCHANGED <<channelVars, sinkVars, targetVars, persisted, durable>>

\* The checkpoint document is stored; whether the task learns of it is another
\* matter.
CkptLands ==
  /\ ckpt.pc = "write"
  /\ persisted' = ckpt.lsn
  /\ ckpt' = [ckpt EXCEPT !.pc = "stored"]
  /\ UNCHANGED <<channelVars, sinkVars, targetVars, durable>>

AfterWrite == IF ckpt.closing THEN "ended" ELSE "sleep"

CkptOk ==
  /\ ckpt.pc = "stored"
  /\ durable' = ckpt.lsn
  /\ ckpt' = [ckpt EXCEPT !.pc = AfterWrite, !.last = ckpt.lsn]
  /\ UNCHANGED <<channelVars, sinkVars, targetVars, persisted>>

\* The write failed, before or after it reached the target; the next interval
\* tries again.
CkptFails ==
  /\ ckpt.pc \in {"write", "stored"}
  /\ ckpt' = [ckpt EXCEPT !.pc = AfterWrite]
  /\ UNCHANGED <<channelVars, sinkVars, targetVars, persisted, durable>>

-----------------------------------------------------------------------------
\* Mutant: the budget starts afresh in each attempt.
StartCountAfresh == 0

\* The quarantine store may hold records of earlier runs, which list_rejects
\* counts before the first command is taken.
StartCount == IF Policy = "quarantine" THEN Cardinality(filed) ELSE 0

CkptStart == [pc |-> "sleep", lsn |-> 0, last |-> 0, closing |-> FALSE]

SinkInit ==
  /\ DeliveryInit
  /\ outcome = <<>>
  /\ filed \in SUBSET Ids
  /\ quarantined = StartCount
  /\ ckpt = CkptStart

SinkStep ==
  \/ TakeCommand
  \/ \E i \in 1 .. taken : \E S \in SUBSET Positions(i) : TryWrite(i, S)
  \/ \E i \in 1 .. taken : \E R \in SUBSET Positions(i) : WriteAnswered(i, R)
  \/ \E i \in 1 .. taken : WriteFails(i)
  \/ FinishWrite
  \/ AckPosition
  \/ ReportMark
  \/ TruncateIndex
  \/ TruncateFails
  \/ Drained

CkptStep == CkptWake \/ CkptLands \/ CkptOk \/ CkptFails

SinkNext == Send \/ Close \/ SinkStep \/ CkptStep

SinkSpec == SinkInit /\ [][SinkNext]_sinkLoopVars

-----------------------------------------------------------------------------
(* Properties.                                                             *)

SinkTypeOK ==
  /\ DeliveryTypeOK
  /\ outcome \in Seq([res : {"open", "answered", "failed"}, refused : SUBSET Nat])
  /\ finished <= taken /\ taken <= Len(sent)
  /\ \A i \in 1 .. taken : outcome[i].refused \subseteq Positions(i)
  /\ filed \subseteq Ids /\ quarantined \in Nat
  /\ ckpt \in [pc : {"sleep", "write", "stored", "ended"}, lsn : Nat, last : Nat,
               closing : BOOLEAN]

\* The quarantine budget is never handed back: while the task runs, its count
\* is at least what the quarantine store holds, whatever was filed twice or
\* filed by an earlier run.
BudgetCoversStore ==
  sink = "running" /\ Policy = "quarantine" => quarantined >= Cardinality(filed)

\* The operations on a document, a truncate being one on every document, and
\* the one that counts: the newest, and of equally new ones the last.
OpsOn(id) ==
  (UNION {{[cmd |-> i, op |-> k, ver |-> sent[i].ops[k].ver, val |-> sent[i].ops[k].val] :
             k \in {m \in Positions(i) : sent[i].ops[m].id = id}} : i \in DOMAIN sent})
  \cup {[cmd |-> i, op |-> 0, ver |-> sent[i].pos, val |-> Absent] :
           i \in {n \in DOMAIN sent : sent[n].kind = "truncate"}}

Older(o, p) ==
  \/ o.ver < p.ver
  \/ o.ver = p.ver /\ (o.cmd < p.cmd \/ (o.cmd = p.cmd /\ o.op <= p.op))

AllAccepted ==
  /\ finished = Len(sent)
  /\ \A i \in DOMAIN sent : outcome[i].refused = {}

\* No two commands write the same document at the same version.
VersionsTellApart ==
  \A i, j \in DOMAIN sent : i # j =>
    \A k \in Positions(i), m \in Positions(j) :
      sent[i].ops[k].id = sent[j].ops[m].id => sent[i].ops[k].ver # sent[j].ops[m].ver

HoldsLastOp ==
  \A id \in Ids : \A p \in OpsOn(id) :
    (\A o \in OpsOn(id) : Older(o, p)) => docs[id].val = p.val

\* Writes overtake each other on the way to the target, yet once everything is
\* accounted for each document is what the newest operation for it made it, as
\* long as the versions tell the operations of two requests apart or one
\* request is open at a time.
LaterWriteWins ==
  AllAccepted /\ (VersionsTellApart \/ Concurrency = 1) => HoldsLastOp
=============================================================================
