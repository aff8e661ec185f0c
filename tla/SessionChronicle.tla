-------------------------- MODULE SessionChronicle --------------------------
(***************************************************************************)
(* What the daily research workflow promises the readers of its states     *)
(* (src/research/src/shaurya/research/executor.py, cli/research.py): the   *)
(* sessions are published one after the other, each at once and with all   *)
(* of its evidence in the order it was made, and no published session is   *)
(* ever changed.                                                           *)
(***************************************************************************)
EXTENDS Integers, Sequences

VARIABLE chronicle    \* the evidence of each published session, in order

\* The evidence of a session that was evaluated, in the order of its making.
Evidence == <<"artifacts", "evaluation", "exploration", "analysis",
              "diagnostics", "report", "publication", "snapshot">>

Kinds(s) == [k \in DOMAIN s |-> s[k].kind]

OfSession(e) == e.kind = "warmup" \/ \E k \in DOMAIN Evidence : e.kind = Evidence[k]

\* A session is skipped as a warm-up, or evaluated once and completely.  Only
\* what is recorded of failures and of mining may stand beside its evidence.
CompleteSession(d, s) ==
    LET own == SelectSeq(s, OfSession)
    IN /\ \A k \in DOMAIN own : own[k].day = d
       /\ Kinds(own) \in {<<"warmup">>, Evidence}

ChronicleInit == chronicle = << >>

PublishSession ==
    /\ Len(chronicle') = Len(chronicle) + 1
    /\ SubSeq(chronicle', 1, Len(chronicle)) = chronicle
    /\ CompleteSession(Len(chronicle'), chronicle'[Len(chronicle')])

ChronicleSpec == ChronicleInit /\ [][PublishSession]_chronicle
=============================================================================
