----------------------------- MODULE MCSinkLoop -----------------------------
(* Instances of SinkLoop for TLC.                                          *)
EXTENDS SinkLoop

CONSTANTS a, b, x, y, none

MCIds == {a, b}
MCVals == {x, y}

Up(id, val, ver) == [id |-> id, val |-> val, ver |-> ver]
Del(id, ver) == [id |-> id, val |-> none, ver |-> ver]
WriteOf(ops, pos) == [kind |-> "write", ops |-> ops, pos |-> pos]
Bare(kind, pos) == [kind |-> kind, ops |-> <<>>, pos |-> pos]

\* A one-document transaction, a piece without a commit (of a split transaction
\* or of the load), a transaction that deletes, an empty one, a load mark and a
\* truncate, in every order the engine can hand them over.
MCCommands ==
  {WriteOf(<<Up(a, x, 1)>>, 1), WriteOf(<<Up(a, y, 1)>>, 0),
   WriteOf(<<Del(a, 2), Up(b, y, 2)>>, 2),
   Bare("position", 2), Bare("mark", 1), Bare("truncate", 2)}
=============================================================================
