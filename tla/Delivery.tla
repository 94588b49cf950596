------------------------------ MODULE Delivery ------------------------------
(***************************************************************************)
(* What the sink side of one attempt promises the engine, the load and the *)
(* source (crates/engine/src/lib.rs, `SinkCommand`, `sink_loop`, the       *)
(* checkpoint loop of `run`): the contract, without the tasks that keep    *)
(* it.  SinkLoop models those tasks and is shown to implement this module; *)
(* Pipeline is built on it.                                                *)
(*                                                                         *)
(* The engine hands over commands, which are accounted for in that order.  *)
(* Up to Concurrency of the oldest writes are open at once: each is tried  *)
(* a number of times, in part, and then executed once in full, except for  *)
(* the operations the target refuses for good; every other command is a    *)
(* barrier.  A write is accounted for when each of its operations has      *)
(* reached the target or is filed as refused.  The                         *)
(* position of an accounted command is acknowledged; an acknowledged       *)
(* position is persisted, later, and only a persisted one is published as  *)
(* durable, which is what the source may confirm upstream.                 *)
(***************************************************************************)
EXTENDS Target, Integers, FiniteSets

CONSTANTS
  Commands,      \* the commands the engine may hand over
  MaxCommands,   \* bound: commands handed over in the attempt
  ChannelCap,    \* capacity of the command channel
  Concurrency,   \* [engine] write_concurrency
  Policy         \* [engine] on_permanent_rejection

\* One command.  pos is the position a write or a Position command carries (0
\* for a batch without a commit), the number of a load mark, or the version of
\* a truncate.
Command == [kind : {"write", "position", "mark", "truncate"},
            ops  : Seq(Op),
            pos  : Nat]

ASSUME DeliveryAssumption ==
  /\ Commands \subseteq Command
  /\ \A c \in Commands : /\ c.kind # "write" => c.ops = <<>>
                         /\ c.kind = "mark" => c.pos > 0   \* MarkSequence starts at 1
  /\ MaxCommands \in Nat
  /\ ChannelCap \in Nat \ {0}
  /\ Concurrency \in Nat \ {0}
  /\ Policy \in {"halt", "quarantine"}

VARIABLES
  sent,        \* every command of the attempt handed over, in order
  closed,      \* the engine has dropped its end of the channel
  finished,    \* how many commands are accounted for
  sink,        \* "running", "halted" (gave up) or "done" (channel drained)
  docs,        \* the target's documents
  settled,     \* <<command, op>> pairs of answered writes, executed or filed
  acked,       \* the acknowledged position (ack_tx and ckpt_done_tx), 0 for none
  loadDone,    \* load_done_tx: the last load mark reported back
  persisted,   \* the position in the checkpoint document, 0 for none
  durable      \* the durable position the source may confirm

channelVars == <<sent, closed>>
accountVars == <<finished, sink, acked, loadDone>>
targetVars == <<docs, settled>>
ckptDocVars == <<persisted, durable>>
deliveryVars == <<channelVars, accountVars, targetVars, ckptDocVars>>

-----------------------------------------------------------------------------
(* Derived state.                                                          *)

IsWrite(i) == sent[i].kind = "write"

Positions(i) == DOMAIN sent[i].ops

OpsOf(i, S) == {i} \X S

\* The writes that may be open: the oldest ones, up to the first barrier.
Window == {i \in DOMAIN sent : /\ finished < i /\ i <= finished + Concurrency
                               /\ \A j \in finished + 1 .. i : IsWrite(j)}

\* Command i has had its effect: every operation reached the target or was
\* filed as refused, and a barrier was carried out.
Settled(i) ==
  /\ OpsOf(i, Positions(i)) \subseteq settled
  /\ ~IsWrite(i) => i <= finished

CarriesPosition(c) == c.kind \in {"write", "position"} /\ c.pos > 0

\* Acks::apply publishes the position of a command that went through, if any.
AckOf(c) == IF CarriesPosition(c) THEN c.pos ELSE acked

-----------------------------------------------------------------------------
(* The engine, as the sink side sees it.  Stream positions never go back    *)
(* and may repeat (a keepalive), marks come from one sequence, and no row   *)
(* older than a truncate follows it (the engine drops those), but a copied  *)
(* row may be older than a streamed one ahead of it.                        *)

RoomFor(n) ==
  ~closed /\ sink = "running" /\ Len(sent) - finished + n <= ChannelCap + Concurrency

Versions(c) == {c.ops[k].ver : k \in DOMAIN c.ops}

InOrder(c) ==
  \A i \in DOMAIN sent :
    /\ CarriesPosition(c) /\ CarriesPosition(sent[i]) => sent[i].pos <= c.pos
    /\ c.kind = "mark" /\ sent[i].kind = "mark" => sent[i].pos < c.pos
    /\ sent[i].kind = "truncate" => \A v \in Versions(c) : sent[i].pos <= v

EngineSends ==
  /\ RoomFor(1)
  /\ Len(sent) < MaxCommands
  /\ \E c \in Commands : InOrder(c) /\ sent' = Append(sent, c)
  /\ UNCHANGED <<closed, accountVars, targetVars, ckptDocVars>>

EngineCloses ==
  /\ ~closed
  /\ closed' = TRUE
  /\ UNCHANGED <<sent, accountVars, targetVars, ckptDocVars>>

-----------------------------------------------------------------------------
(* The sink side.                                                          *)

\* An open write that has not been answered.
Open(i) == i \in Window /\ OpsOf(i, Positions(i)) \cap settled = {}

\* A try of an open write executes the operations at positions S and is not the
\* last one.  A request that was aborted when the sink side gave up can still do
\* so.
Try(i, S) ==
  /\ sink # "done"
  /\ Open(i)
  /\ docs' = Write(docs, sent[i].ops, S)
  /\ UNCHANGED <<channelVars, accountVars, settled, ckptDocVars>>

\* The last try executes everything but the operations at positions R, which the
\* target refuses.
Answer(i, R) ==
  /\ sink = "running"
  /\ Open(i)
  /\ docs' = Write(docs, sent[i].ops, Positions(i) \ R)
  /\ settled' = settled \cup OpsOf(i, Positions(i) \ R)
  /\ UNCHANGED <<channelVars, accountVars, ckptDocVars>>

\* The oldest command, about to be accounted for.
Oldest == finished + 1

AtFront(kind) ==
  sink = "running" /\ Oldest \in DOMAIN sent /\ sent[Oldest].kind = kind

Account ==
  /\ finished' = Oldest
  /\ acked' = AckOf(sent[Oldest])
  /\ UNCHANGED sink

\* Operations that were not executed are filed as refused first, which only the
\* policy "quarantine" does.
AccountWrite ==
  /\ AtFront("write")
  /\ OpsOf(Oldest, Positions(Oldest)) \subseteq settled \/ Policy = "quarantine"
  /\ settled' = settled \cup OpsOf(Oldest, Positions(Oldest))
  /\ Account
  /\ UNCHANGED <<channelVars, docs, loadDone, ckptDocVars>>

AccountPosition ==
  /\ AtFront("position")
  /\ Account
  /\ UNCHANGED <<channelVars, targetVars, loadDone, ckptDocVars>>

AccountMark ==
  /\ AtFront("mark")
  /\ Account
  /\ loadDone' = sent[Oldest].pos
  /\ UNCHANGED <<channelVars, targetVars, ckptDocVars>>

AccountTruncate ==
  /\ AtFront("truncate")
  /\ docs' = Truncate(docs, sent[Oldest].pos, Ids)
  /\ Account
  /\ UNCHANGED <<channelVars, settled, loadDone, ckptDocVars>>

GiveUp ==
  /\ sink = "running"
  /\ sink' = "halted"
  /\ UNCHANGED <<channelVars, finished, acked, loadDone, ckptDocVars>>

\* A write failed, was refused or could not be filed completely.
GiveUpWrite ==
  /\ GiveUp
  /\ \/ UNCHANGED settled
     \/ /\ AtFront("write") /\ Policy = "quarantine"
        /\ \E F \in SUBSET Positions(Oldest) : settled' = settled \cup OpsOf(Oldest, F)
  /\ UNCHANGED docs

\* A truncate failed with the documents in S already deleted.
GiveUpTruncate ==
  /\ AtFront("truncate")
  /\ GiveUp
  /\ \E S \in SUBSET Ids : docs' = Truncate(docs, sent[Oldest].pos, S)
  /\ UNCHANGED settled

\* The channel is closed and everything in it accounted for.
SinkEnds ==
  /\ sink = "running"
  /\ closed
  /\ finished = Len(sent)
  /\ sink' = "done"
  /\ UNCHANGED <<channelVars, finished, acked, loadDone, targetVars, ckptDocVars>>

\* The positions acknowledged so far.
Acknowledged == {sent[n].pos : n \in {m \in 1 .. finished : CarriesPosition(sent[m])}}

\* The checkpoint document never goes back within an attempt.
Persist ==
  /\ \E p \in Acknowledged : persisted <= p /\ persisted' = p
  /\ UNCHANGED <<channelVars, accountVars, targetVars, durable>>

Publish ==
  /\ durable' = persisted
  /\ UNCHANGED <<channelVars, accountVars, targetVars, persisted>>

-----------------------------------------------------------------------------
\* Under the policy "quarantine" the store of refused documents is counted
\* first, and the sink side gives up at once if that fails.
StartOutcomes == IF Policy = "quarantine" THEN {"running", "halted"} ELSE {"running"}

DeliveryInit ==
  /\ sent = <<>>
  /\ closed = FALSE
  /\ finished = 0
  /\ sink \in StartOutcomes
  /\ docs = [id \in Ids |-> NoDoc]
  /\ settled = {}
  /\ acked = 0
  /\ loadDone = 0
  /\ persisted = 0
  /\ durable = 0

DeliveryStep ==
  \/ \E i \in DOMAIN sent : \E S \in SUBSET Positions(i) : Try(i, S)
  \/ \E i \in DOMAIN sent : \E R \in SUBSET Positions(i) : Answer(i, R)
  \/ AccountWrite \/ AccountPosition \/ AccountMark \/ AccountTruncate
  \/ GiveUpWrite \/ GiveUpTruncate
  \/ SinkEnds
  \/ Persist \/ Publish

DeliveryNext == EngineSends \/ EngineCloses \/ DeliveryStep

DeliverySpec == DeliveryInit /\ [][DeliveryNext]_deliveryVars

-----------------------------------------------------------------------------
(* Properties.                                                             *)

DeliveryTypeOK ==
  /\ sent \in Seq(Command) /\ closed \in BOOLEAN
  /\ finished \in 0 .. Len(sent)
  /\ sink \in {"running", "halted", "done"}
  /\ docs \in Docs
  /\ settled \subseteq Nat \X Nat
  /\ acked \in Nat /\ loadDone \in Nat /\ persisted \in Nat /\ durable \in Nat

\* Command n is the first to carry its position: a transaction's COMMIT, and not
\* a keepalive that repeats it.
Reaches(n) ==
  /\ CarriesPosition(sent[n])
  /\ \A m \in 1 .. n - 1 : CarriesPosition(sent[m]) => sent[m].pos < sent[n].pos

\* Everything handed over up to the command that reaches position p has had its
\* effect.
CoveredBy(p) ==
  \A n \in DOMAIN sent :
    Reaches(n) /\ sent[n].pos <= p => \A i \in 1 .. n : Settled(i)

\* "A position is acknowledged only once every batch before it is durable":
\* however the open requests overtake each other, are retried, refused or fail,
\* nothing at or ahead of the acknowledged position is missing from the target
\* and from the quarantine store.
AckedIsSettled == CoveredBy(acked)

\* The checkpoint document never runs ahead of what is in the target, and the
\* source is never allowed to confirm a position the checkpoint does not hold.
DurableIsSettled == CoveredBy(persisted) /\ durable <= persisted /\ persisted <= acked

\* A load mark is reported back only after every row handed over ahead of it is
\* in the target: the load records its progress on the strength of this.
MarkIsSettled ==
  \A n \in DOMAIN sent :
    sent[n].kind = "mark" /\ sent[n].pos <= loadDone => \A i \in 1 .. n : Settled(i)
=============================================================================
