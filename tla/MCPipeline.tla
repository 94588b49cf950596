----------------------------- MODULE MCPipeline -----------------------------
(* Instances of Pipeline for TLC.                                          *)
EXTENDS Pipeline

CONSTANTS a, b, none, null

Row(kind, id) == [kind |-> kind, id |-> id]

MCOneId == {a}

\* The bodies of transactions of up to two changes.
MCStamps == (0 .. MaxTxns) \X (0 .. 2)
MCBodies == {Body(c, big) : c \in MCStamps, big \in MCStamps \cup {null}}

\* The ranges of the load, wave by wave: an empty one and then the row, or
\* the row alone.
MCEmptyFirst == <<{}, {a}>>
MCOneRange == <<{a}>>

\* The row is deleted, or the table truncated and the row put back.
MCTruncating == {<<Row("delete", a)>>, <<Row("truncate", a), Row("upsert", a)>>}

\* The row is written, or deleted.
MCChanging == {<<Row("upsert", a)>>, <<Row("delete", a)>>}

\* The row is written, and then updated with its large column left as it was: a
\* transaction that fills a batch, and together with a buffered row more than one.
MCSplitting == {<<Row("upsert", a), Row("touch", a)>>}
=============================================================================
