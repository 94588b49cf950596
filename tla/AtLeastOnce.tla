----------------------------- MODULE AtLeastOnce -----------------------------
(***************************************************************************)
(* What a source promises of the position a pipeline stores, without       *)
(* binlogs, GTIDs or servers: the transactions a restart leaves out are    *)
(* ones the target has, and a transaction left out once stays left out.    *)
(* README, "Delivery": at least once, made idempotent by the versions.     *)
(***************************************************************************)
EXTENDS Naturals

VARIABLES
  committed,  \* how many transactions the source has committed
  delivered,  \* the numbers of the ones the target has
  claimed     \* the numbers of the ones a restart would not ask for again

vars == <<committed, delivered, claimed>>

Init == committed = 0 /\ delivered = {} /\ claimed = {}

Commit == committed' = committed + 1 /\ UNCHANGED <<delivered, claimed>>

\* The target is given transactions, in any order and any number of times.
Deliver ==
  /\ delivered' \in SUBSET (1 .. committed) /\ delivered \subseteq delivered'
  /\ UNCHANGED <<committed, claimed>>

\* A position is stored.
Claim ==
  /\ claimed' \in SUBSET delivered /\ claimed \subseteq claimed'
  /\ UNCHANGED <<committed, delivered>>

\* The first position: the load answers for what was committed before it.
Begin ==
  /\ claimed = {} /\ delivered = {}
  /\ delivered' = 1 .. committed
  /\ claimed' \in SUBSET delivered'
  /\ UNCHANGED committed

Spec == Init /\ [][Commit \/ Deliver \/ Claim \/ Begin]_vars
=============================================================================
