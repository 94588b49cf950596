---------------------------- MODULE MCOperations ----------------------------
(* Instances of Operations for TLC.                                        *)
EXTENDS Operations

Setup(flavor, configured, changes, commands) ==
    [flavor |-> flavor, configured |-> configured, changes |-> changes, commands |-> commands,
     edits |-> 0, signals |-> 0, ends |-> 0, crashes |-> 0, expires |-> FALSE, swaps |-> FALSE]

Edited(s, edits, signals) == [s EXCEPT !.edits = edits, !.signals = signals]

MCSetups == {
    \* a table joins, is refused, fails, crashes and is tried again
    [Edited(Setup("postgres", FALSE, 2, {}), 1, 1) EXCEPT !.ends = 1],
    [Edited(Setup("postgres", FALSE, 1, {}), 1, 2) EXCEPT !.ends = 1],
    [Edited(Setup("postgres", FALSE, 2, {}), 1, 1) EXCEPT !.crashes = 1],
    [Edited(Setup("mysql", FALSE, 2, {}), 1, 2) EXCEPT !.ends = 1],
    [Edited(Setup("mysql", FALSE, 2, {}), 1, 1) EXCEPT !.crashes = 1],
    \* its deletes meet a target that forgets tombstones
    [Edited(Setup("postgres", FALSE, 2, {}), 1, 1) EXCEPT !.expires = TRUE],
    \* it leaves and joins again, and what it left behind is reconciled
    Edited(Setup("postgres", TRUE, 2, {"reconcile"}), 2, 2),
    Edited(Setup("mysql", TRUE, 2, {}), 2, 2),
    \* it is read again beside the stream
    [Setup("postgres", TRUE, 2, {"resnapshot", "reconcile"}) EXCEPT !.ends = 1],
    [Setup("mysql", TRUE, 2, {"resnapshot"}) EXCEPT !.crashes = 1],
    \* its index is rebuilt with the pipeline stopped
    [Setup("postgres", TRUE, 3, {"reindex"}) EXCEPT !.crashes = 1],
    [Setup("postgres", TRUE, 2, {"reindex"}) EXCEPT !.crashes = 1, !.swaps = TRUE]}
=============================================================================
