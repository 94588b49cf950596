------------------------------ MODULE MCMySql ------------------------------
(* Instances of MySql for TLC.                                             *)
EXTENDS MySql

CONSTANT none

MCIds == {1, 2}

Source(mariadb, gtids, tagged, embed, second, tries) ==
  [mariadb |-> mariadb, gtids |-> gtids, tagged |-> tagged, embed |-> embed, second |-> second,
   rows |-> IF embed = "aggregates" THEN {1, 2} ELSE {1},
   txns |-> IF embed = "none" /\ tries = 1 THEN MaxTxns ELSE 2,
   rotations |-> IF tagged THEN 1 ELSE 0,
   attempts |-> tries]

\* Without GTIDs a failover to a server behind the checkpoint, and a DDL that is
\* not recognised between two rows; with them a failover to a server that numbers
\* its files lower or higher; each embedding on one of them.  A row that changes
\* parents is followed in one attempt.
MCSetups ==
  {Source(FALSE, FALSE, FALSE, "none", 1, 2), Source(FALSE, FALSE, FALSE, "none", 0, 1),
   Source(FALSE, TRUE, TRUE, "none", 1, 2), Source(FALSE, TRUE, FALSE, "children", 0, 1),
   Source(FALSE, TRUE, FALSE, "aggregates", 0, 1), Source(TRUE, TRUE, FALSE, "through", 5, 2)}

On(table, kind, key, kid) == [table |-> table, kind |-> kind, key |-> key, kid |-> kid]

MCShapes(setup_) ==
  CASE setup_.tagged -> {<<On("parent", "upsert", 1, 0)>>}
    [] setup_.embed = "none" /\ setup_.attempts = 1 -> {<<On("parent", "upsert", 1, 0)>>, <<Alters(FALSE)>>}
    [] setup_.embed = "none" -> {<<On("parent", "upsert", 1, 0)>>, <<Truncates>>, <<Alters(TRUE)>>}
    [] setup_.embed = "children" -> {<<On("child", "delete", 0, "k")>>, <<On("parent", "delete", 1, 0)>>,
                                     <<On("parent", "upsert", 1, 0), On("child", "upsert", 1, "k")>>}
    [] setup_.embed = "aggregates" -> {<<On("child", "upsert", 1, "k")>>, <<On("child", "upsert", 2, "k")>>}
    [] setup_.embed = "through" -> {<<On("child", "upsert", 0, "k")>>, <<On("junction", "upsert", 1, "k")>>}
=============================================================================
