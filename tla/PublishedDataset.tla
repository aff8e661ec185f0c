-------------------------- MODULE PublishedDataset --------------------------
(***************************************************************************)
(* What a captured dataset promises its readers (src/data/src/shaurya/     *)
(* data/access.py, catalog.py): while it is active, rows are only added,   *)
(* in receive order and without a gap; a terminal status is the last word, *)
(* and a completed dataset has rows and keeps them.  A failed one may be   *)
(* published again with more rows: that is how a close is retried.         *)
(***************************************************************************)
EXTENDS Integers, Sequences

VARIABLES
    rows,      \* the receive sequences of the published rows, in order
    status     \* the lifecycle status in the catalogue

Gapless(s) == \A k \in 1..(Len(s) - 1) : s[k + 1] = s[k] + 1

DatasetInit == rows = << >> /\ status = "active"

RowsGrow ==
    /\ Len(rows') >= Len(rows) /\ SubSeq(rows', 1, Len(rows)) = rows
    /\ Gapless(rows')

\* New segments are published; the last of them may come with the end.
Advance ==
    /\ status = "active"
    /\ RowsGrow
    /\ status' \in {"active", "completed", "invalidated", "failed"}
    /\ status' = "completed" => rows' # << >>

\* A failed dataset fails again, with the rows a second close flushed.
FailAgain == status = "failed" /\ RowsGrow /\ UNCHANGED status

DatasetSpec == DatasetInit /\ [][Advance \/ FailAgain]_<<rows, status>>
=============================================================================
