------------------------------- MODULE Target -------------------------------
(***************************************************************************)
(* The document store a pipeline writes to, as far as pg2osync relies on   *)
(* it: one document per id, every write carrying its source position as an *)
(* external version, and `version_type=external_gte`, under which a write  *)
(* is taken when its version is at least the stored one and declined       *)
(* otherwise.  A delete leaves a tombstone that keeps its version until    *)
(* the store collects it (`index.gc_deletes`).                             *)
(*                                                                         *)
(* The module has no variables: a store is a value of the set Docs and the *)
(* operators say what a request makes of it.                               *)
(***************************************************************************)
EXTENDS Naturals, Sequences

CONSTANTS
  Ids,      \* document ids of one index
  Vals,     \* document bodies
  Absent    \* the body of a document that is not there

ASSUME AbsentIsNoBody == Absent \notin Vals

\* One bulk action.  A delete is the write of the body Absent.
Op == [id : Ids, val : Vals \cup {Absent}, ver : Nat]

\* A stored document.  Absent with a version above 0 is a tombstone, NoDoc an
\* id the store knows nothing about.
Doc   == [val : Vals \cup {Absent}, ver : Nat]
NoDoc == [val |-> Absent, ver |-> 0]
Docs  == [Ids -> Doc]

\* Mutant: no version check, the last write to arrive is taken.
TakenOnArrival(docs, ops, S, k) == TRUE

\* The action at position k of ops is taken, given that exactly the actions at
\* the positions in S reach the store: it is at least as new as the stored
\* document and as every action for the same id ahead of it.
Taken(docs, ops, S, k) ==
  /\ ops[k].ver >= docs[ops[k].id].ver
  /\ \A j \in S : j < k /\ ops[j].id = ops[k].id => ops[j].ver <= ops[k].ver

\* The positions in S whose action is the last one taken for id (at most one).
Winner(docs, ops, S, id) ==
  {k \in S : /\ ops[k].id = id
             /\ Taken(docs, ops, S, k)
             /\ \A j \in S : j > k /\ ops[j].id = id => ~Taken(docs, ops, S, j)}

\* A bulk request of which the actions at positions S are executed, in order.
\* A declined action (version conflict) changes nothing and is not an error,
\* and neither is the delete of a document that is not there.
Write(docs, ops, S) ==
  [id \in Ids |->
     IF Winner(docs, ops, S, id) = {} THEN docs[id]
     ELSE LET k == CHOOSE w \in Winner(docs, ops, S, id) : TRUE
          IN  [val |-> ops[k].val, ver |-> ops[k].ver]]

\* Clearing an index at a position: the documents a search finds are deleted
\* at that position, so one written at a later position stays.  The deletes of
\* the ids in S are the ones that were executed.
Truncate(docs, ver, S) ==
  [id \in Ids |->
     IF id \in S /\ docs[id].val # Absent /\ docs[id].ver <= ver
       THEN [val |-> Absent, ver |-> ver]
       ELSE docs[id]]

\* The store forgets a tombstone, after which it accepts any version.
IsTombstone(doc) == doc.val = Absent /\ doc.ver > 0
Collect(docs, id) == [docs EXCEPT ![id] = NoDoc]

=============================================================================
