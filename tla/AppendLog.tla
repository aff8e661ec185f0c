----------------------------- MODULE AppendLog -----------------------------
(***************************************************************************)
(* What the research evidence ledger promises its writers and readers      *)
(* (src/research/src/shaurya/research/ledger.py): a log of events to which *)
(* whole batches are appended at once, where an event that is already in   *)
(* the log is not appended again, and from which nothing is ever taken.    *)
(***************************************************************************)
EXTENDS Integers, Sequences

CONSTANTS
    Events,       \* what an envelope records: an id with a type and a content
    Batches,      \* the batches of events that are appended together
    IdOf          \* the event id of an event; two events may claim the same

VARIABLE log      \* the events of the ledger, in order

InLog(l) == {l[k] : k \in DOMAIN l}

\* An id of the batch is taken by other evidence: append_many raises.
Conflicts(l, b) ==
    \E e \in InLog(b), f \in InLog(l) : IdOf[e] = IdOf[f] /\ e # f

\* The events of a batch that the log does not have yet, in order and once:
\* an event the batch repeats is known after its first occurrence.
Additions(l, b) ==
    LET added[n \in 0..Len(b)] ==
          IF n = 0 THEN << >>
          ELSE IF b[n] \in InLog(l) \cup InLog(added[n - 1]) THEN added[n - 1]
               ELSE Append(added[n - 1], b[n])
    IN added[Len(b)]

LogInit == log = << >>

AppendBatch(b) ==
    /\ ~Conflicts(log, b)
    /\ log' = log \o Additions(log, b)

LogNext == \E b \in Batches : AppendBatch(b)

LogSpec == LogInit /\ [][LogNext]_log
=============================================================================
