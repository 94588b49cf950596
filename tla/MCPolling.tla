----------------------------- MODULE MCPolling -----------------------------
(* Instances of Polling for TLC.                                           *)
EXTENDS Polling

MCTables == <<"a">>
MCRows == {<<"a", 1>>, <<"a", 2>>}
MCInitial == <<<<"a", 2>>>>
=============================================================================
