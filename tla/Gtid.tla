-------------------------------- MODULE Gtid --------------------------------
(***************************************************************************)
(* What has been consumed, in a form another server understands            *)
(* (crates/source-mysql/src/gtid.rs).                                      *)
(*                                                                         *)
(* A MySQL set maps the uuid of a server to a sorted sequence of closed    *)
(* intervals of transaction numbers.  A MariaDB position maps a            *)
(* replication domain to the last server and sequence number seen in it.   *)
(* A GTID is a pair of a server and a number; there is one domain.         *)
(***************************************************************************)
EXTENDS Integers, Sequences, FiniteSets, Functions, SequencesExt

----------------------------------------------------------------------------
(* MySqlGtidSet.                                                           *)

\* coalesce: an interval that starts inside the one before it, or right behind
\* it, is absorbed.
Coalesce(intervals) ==
  LET larger(a, b) == IF a > b THEN a ELSE b
      merge(merged, i) ==
        IF merged # <<>> /\ i[1] <= Last(merged)[2] + 1
        THEN [merged EXCEPT ![Len(merged)] = <<@[1], larger(@[2], i[2])>>]
        ELSE Append(merged, i)
  IN  FoldLeft(merge, <<>>, intervals)

\* Mutant: a number below everything seen so far is not looked for, only appended.
AddAtEnd(intervals, gno) ==
  IF intervals # <<>> /\ gno = Last(intervals)[2] + 1
  THEN [intervals EXCEPT ![Len(intervals)] = <<@[1], gno>>]
  ELSE Append(intervals, <<gno, gno>>)

\* MySqlGtidSet::add.
Add(intervals, gno) ==
  LET n  == Len(intervals)
      at == Cardinality({i \in DOMAIN intervals : intervals[i][1] <= gno})
  IN  CASE n > 0 /\ gno = intervals[n][2] + 1 -> [intervals EXCEPT ![n] = <<@[1], gno>>]
        [] at > 0 /\ gno <= intervals[at][2]  -> intervals
        [] at > 0 /\ gno = intervals[at][2] + 1 ->
             Coalesce([intervals EXCEPT ![at] = <<@[1], gno>>])
        [] at < n /\ gno + 1 = intervals[at + 1][1] ->
             Coalesce([intervals EXCEPT ![at + 1] = <<gno, @[2]>>])
        [] OTHER -> InsertAt(intervals, at + 1, <<gno, gno>>)

AddMySql(set, gtid) ==
  (gtid[1] :> Add(IF gtid[1] \in DOMAIN set THEN set[gtid[1]] ELSE <<>>, gtid[2])) @@ set

\* to_text and parse: the intervals of an entry come back sorted and merged, and a
\* domain's last number as it is.
Parse(text, mariadb) ==
  IF mariadb THEN text
  ELSE [uuid \in DOMAIN text |-> Coalesce(SortSeq(text[uuid], LAMBDA a, b : a[1] < b[1]))]

\* encode: the dump command takes half-open intervals.
Encode(set) == [uuid \in DOMAIN set |-> [i \in DOMAIN set[uuid] |-> <<set[uuid][i][1], set[uuid][i][2] + 1>>]]

\* What the server makes of them.
InEncoded(sids, gtid) ==
  gtid[1] \in DOMAIN sids /\ \E i \in DOMAIN sids[gtid[1]] : sids[gtid[1]][i][1] <= gtid[2] /\ gtid[2] < sids[gtid[1]][i][2]

----------------------------------------------------------------------------
(* MariaGtidPos.                                                           *)

Domain == "0"

\* MariaGtidPos::add: a late event never moves a domain back.
AddMaria(pos, gtid) ==
  IF Domain \in DOMAIN pos /\ gtid[2] < pos[Domain][2] THEN pos ELSE (Domain :> gtid) @@ pos

----------------------------------------------------------------------------
(* GtidTracker: what was decoded, folded into a position only once a       *)
(* checkpoint has got that far.                                            *)

None == <<>>

\* GtidTracker::new.
NewTracker(resume) == [position |-> resume, pending |-> <<>>, incomplete |-> FALSE]

\* record_mysql and record_mariadb.
Record(tracker, token, gtid) == [tracker EXCEPT !.pending = Append(@, <<token, gtid>>)]

MarkIncomplete(tracker) == [tracker EXCEPT !.incomplete = TRUE]

\* How many of the pending entries a checkpoint at the token covers.
Covered(tracker, token) ==
  LET beyond == {i \in DOMAIN tracker.pending : tracker.pending[i][1] > token}
  IN  IF beyond = {} THEN Len(tracker.pending)
      ELSE (CHOOSE i \in beyond : \A j \in beyond : i <= j) - 1

\* Mutant: the newest position, whatever the checkpoint is about.
FoldedNewest(tracker, token, mariadb) ==
  LET add(pos, entry) == IF mariadb THEN AddMaria(pos, entry[2]) ELSE AddMySql(pos, entry[2])
  IN  [tracker EXCEPT !.position = FoldLeft(add, @, tracker.pending), !.pending = <<>>]

\* position_at, what it does to the tracker.
Folded(tracker, token, mariadb) ==
  LET n == Covered(tracker, token)
      add(pos, entry) == IF mariadb THEN AddMaria(pos, entry[2]) ELSE AddMySql(pos, entry[2])
  IN  [tracker EXCEPT !.position = FoldLeft(add, @, SubSeq(tracker.pending, 1, n)),
                      !.pending = SubSeq(@, n + 1, Len(@))]

\* position_at, what it answers.
PositionOf(tracker) == IF tracker.incomplete THEN None ELSE tracker.position

\* Whether a server that resumes from the position leaves the transaction out.
Consumed(position, gtid, mariadb) ==
  IF mariadb THEN Domain \in DOMAIN position /\ gtid[2] <= position[Domain][2]
  ELSE InEncoded(Encode(position), gtid)
=============================================================================
