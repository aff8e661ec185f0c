-------------------------- MODULE LatestValueFeed --------------------------
(***************************************************************************)
(* What the low-latency row stream of a capture promises its consumers     *)
(* (src/data/src/shaurya/data/live_stream.py, the module docstring):       *)
(* canonical rows are accepted one after the other, and a consumer is      *)
(* shown, now and then, the most recent row of every instrument.           *)
(*                                                                         *)
(* A consumer never sees a state that was not the state of the market at   *)
(* some moment of the log, and never goes back to an earlier one.  It may  *)
(* skip rows (that is the coalescing) but it never misses the last one     *)
(* before the moment it is shown.                                          *)
(***************************************************************************)
EXTENDS Integers, Sequences

CONSTANTS Instruments, Clients

VARIABLES
    log,    \* the accepted rows in order: log[p] is the instrument of row p
    view    \* view[c][i]: the row of instrument i that c holds, 0 if none

feedVars == <<log, view>>

\* rows holds, for every instrument, its last row after position a and up to
\* position b, and 0 when it has none there.
IsDelta(rows, l, a, b) ==
    \A i \in Instruments :
        \/ /\ rows[i] = 0
           /\ \A p \in (a + 1)..b : l[p] # i
        \/ /\ rows[i] \in (a + 1)..b
           /\ l[rows[i]] = i
           /\ \A p \in (rows[i] + 1)..b : l[p] # i

\* The most recent row of every instrument at position n of the log.
IsViewAt(v, l, n) == IsDelta(v, l, 0, n)

NoRows == [i \in Instruments |-> 0]

FeedInit ==
    /\ log = << >>
    /\ view = [c \in Clients |-> NoRows]

FeedPublish ==
    /\ \E i \in Instruments : log' = Append(log, i)
    /\ UNCHANGED view

\* A consumer is brought to a later position of the log.
FeedCatchUp(c) ==
    /\ \E n \in 0..Len(log) :
         \E v \in [Instruments -> 0..n] :
            /\ IsViewAt(v, log, n)
            /\ \A i \in Instruments : view[c][i] <= v[i]
            /\ view' = [view EXCEPT ![c] = v]
    /\ UNCHANGED log

FeedNext == FeedPublish \/ \E c \in Clients : FeedCatchUp(c)

FeedSpec == FeedInit /\ [][FeedNext]_feedVars
=============================================================================
