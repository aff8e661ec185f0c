--------------------------- MODULE ExecutorServer ---------------------------
(***************************************************************************)
(* ExecutorServer::run(): the loop that owns the executor's state, the two *)
(* reader workers that fill its ingress stages, and the delivery of ledger *)
(* events to the strategy with its cursors.  A session handler is reduced  *)
(* to the number of records it appends and the safety reason it leaves;    *)
(* what the records say is the subject of ExecutionSession.                *)
(*                                                                         *)
(* Ledger sequences are numbers: the ledger holds 1 .. log, the executor   *)
(* has collected 1 .. collected for delivery, and the strategy has the set *)
(* got.  A stage is the number of items in it; a reader's try_push is      *)
(* never refused, because a stage is empty whenever its reader runs        *)
(* (StagesHoldOneItem) and every capacity is positive.                     *)
(***************************************************************************)
EXTENDS Integers, FiniteSets

CONSTANTS
  OutboundCapacity,  \* capacity of the outbound_event stage
  MaxRecords,        \* bound: ledger length while the server runs
  MaxBatch,          \* bound: records one handler appends
  MaxReconnects      \* bound: strategy reconnects

ASSUME CapacityAssumption == OutboundCapacity \in Nat \ {0}
ASSUME ServerBoundsAssumption ==
  MaxRecords \in Nat /\ MaxBatch \in Nat \ {0} /\ MaxReconnects \in Nat

VARIABLES
  pc,         \* serving, awaiting (a strategy), final, acking, ended
  stop,       \* stop_requested_
  readers,    \* results of the reader futures; ack is a control's sequence
  staged,     \* items in the market, strategy, risk and submission stages
  up,         \* the strategy's connection
  failed,     \* strategy_delivery_failed
  reason,     \* safety_reason_
  observed,   \* an observation has been accepted
  log,        \* last sequence of the ledger
  collected,  \* event_sequence_
  delivered,  \* last_delivered_event_sequence_
  acked,      \* last_acknowledged_event_sequence_
  outbound,   \* sequences in the OutboundEvent stage
  got,        \* sequences the strategy has
  dropped,    \* the outbound stage refused an event (history)
  core,       \* shutdown_core_succeeded_
  succeeded,  \* shutdown_succeeded_
  reconnects  \* strategy reconnects so far

vars == <<pc, stop, readers, staged, up, failed, reason, observed, log, collected, delivered,
          acked, outbound, got, dropped, core, succeeded, reconnects>>

Stages == {"market", "strategy", "risk", "submission"}

NoWork == [stage \in Stages |-> 0]

IdleReaders == [market |-> "idle", strategy |-> "idle", ack |-> 0]

Larger(a, b) == IF a >= b THEN a ELSE b

Smaller(a, b) == IF a <= b THEN a ELSE b

\* The cursors the strategy may present or acknowledge: it has every event up
\* to there.
Held == {n \in 0 .. log : 1 .. n \subseteq got}

\* stop_once()
StopOnce(r) == IF r = "none" THEN "other" ELSE r

\* The record of stop_once().
StopRecords(r) == IF r = "none" THEN 1 ELSE 0

-----------------------------------------------------------------------------
(***************************************************************************)
(* Collecting and sending events.                                          *)
(***************************************************************************)
\* Variant: records that were never collected are skipped.
NothingRefused(from, to) == FALSE

\* event_ledger_sequence_invalid: the new records do not continue the
\* sequence that was collected.
GapRefused(from, to) == to > from /\ from # collected

\* The last of from + 1 .. to that fits in the outbound stage beside what is
\* waiting there.
LastThatFits(from, to, waiting) == Smaller(to, from + OutboundCapacity - Cardinality(waiting))

\* What an acknowledgement of n leaves in the outbound stage.
Unacknowledged(n) == {q \in outbound : q > n}

\* collect_events_after(from) for records from + 1 .. to and the reason r.
Collect(from, to, r) ==
  LET full == LastThatFits(from, to, outbound) < to
  IN  /\ collected' = IF to > from THEN to ELSE collected
      /\ outbound' = outbound \cup (from + 1 .. LastThatFits(from, to, outbound))
      /\ dropped' = (dropped \/ full)
      /\ log' = to + IF full THEN StopRecords(r) ELSE 0
      /\ reason' = IF full THEN StopOnce(r) ELSE r

\* send_event() for from + 1 .. to, then the book (if any), until a write
\* fails; a failed write shuts the connection down.
Send(from, to, book) ==
  \E sent \in from .. to, broken \in BOOLEAN :
    /\ sent < to => broken
    /\ ~up => sent = from /\ (to > from \/ book => broken)
    /\ to = from /\ ~book => ~broken
    /\ delivered' = IF sent > from THEN Larger(delivered, sent) ELSE delivered
    /\ got' = got \cup (from + 1 .. sent)
    /\ up' = (up /\ ~broken)
    /\ failed' = (failed \/ broken)

\* shutdown(): what was left behind is collected, the stages are drained and
\* stop() runs, unless the deadline passes first.  The interrupted handler
\* had written n records; waiting is in the outbound stage.
Shutdown(n, waiting) ==
  /\ stop' = TRUE
  /\ readers' = IdleReaders
  /\ reason' = StopOnce(reason)
  /\ \E k \in StopRecords(reason) .. MaxBatch, inTime \in BOOLEAN :
       /\ inTime => k > 0
       /\ log' = log + n + k
       /\ staged' = IF inTime THEN NoWork ELSE staged
       /\ core' \in {success \in BOOLEAN : success => inTime}
  /\ collected' = log'
  /\ outbound' = waiting \cup (collected + 1 .. LastThatFits(collected, log', waiting))
  /\ dropped' = (dropped \/ LastThatFits(collected, log', waiting) < log')

\* An exception leaves run(): its guard shuts down, nothing is delivered.
Unwind(n) ==
  /\ Shutdown(n, outbound)
  /\ pc' = "ended"
  /\ UNCHANGED <<up, failed, observed, delivered, acked, got, succeeded, reconnects>>

\* Records from + 1 .. to of a handler are collected and sent.
Emit(from, to, r, book) ==
  /\ Collect(from, to, r)
  /\ Send(from, LastThatFits(from, to, outbound), book)
  /\ UNCHANGED <<pc, stop, readers, acked, core, succeeded, reconnects>>

-----------------------------------------------------------------------------
(***************************************************************************)
(* One iteration of the loop with staged work and no reader running.       *)
(***************************************************************************)
Staged ==
  /\ pc = "serving"
  /\ ~stop
  /\ readers = IdleReaders
  /\ staged # NoWork

\* try_pop()
Take(stage) == [staged EXCEPT ![stage] = @ - 1]

Batches == {n \in 1 .. MaxBatch : log + n <= MaxRecords}

\* A book that is unusable, or has become stale in the stage: stop_once()
\* and no event.  This is the only work that a failed delivery allows.
FaultyMarket ==
  /\ Staged
  /\ staged.market > 0
  /\ staged' = Take("market")
  /\ log' = log + StopRecords(reason)
  /\ reason' = StopOnce(reason)
  /\ UNCHANGED <<pc, stop, readers, up, failed, observed, collected, delivered, acked, outbound,
                 got, dropped, core, succeeded, reconnects>>

\* The handler may stop the executor (an unacknowledged ledger boundary).
Submission ==
  /\ Staged
  /\ ~failed
  /\ staged.submission > 0
  /\ \E n \in Batches, r \in {reason, StopOnce(reason)} :
       IF GapRefused(log, log + n)
       THEN Unwind(n)
       ELSE /\ Emit(log, log + n, r, FALSE)
            /\ staged' = Take("submission")
            /\ UNCHANGED observed

\* process_next_risk_work(): the freshness test may write a stop first.
RiskWork ==
  /\ Staged
  /\ ~failed
  /\ staged.submission = 0
  /\ staged.risk > 0
  /\ \E stale \in {s \in BOOLEAN : s => observed}, n \in Batches, approved \in BOOLEAN :
       LET from == log + IF stale THEN StopRecords(reason) ELSE 0
           r == IF stale THEN StopOnce(reason) ELSE reason
       IN  IF GapRefused(from, from + n)
           THEN Unwind(from + n - log)
           ELSE /\ Emit(from, from + n, r, FALSE)
                /\ staged' = [Take("risk") EXCEPT
                                !.submission = IF approved /\ reason' = "none" THEN 1 ELSE 0]
                /\ UNCHANGED observed

\* replay_intent(): an exact repetition is answered with the events of its
\* history, all of them or those before a failed write; last is the last one
\* written (0: none).
RepeatedIntent ==
  /\ Staged
  /\ ~failed
  /\ staged.submission = 0
  /\ staged.risk > 0
  /\ \E stale \in {s \in BOOLEAN : s => observed}, broken \in BOOLEAN :
       \E last \in (IF up THEN 0 .. collected ELSE {0}) : \E earlier \in SUBSET (1 .. last - 1) :
         /\ last = 0 => broken
         /\ log' = log + IF stale THEN StopRecords(reason) ELSE 0
         /\ reason' = IF stale THEN StopOnce(reason) ELSE reason
         /\ delivered' = Larger(delivered, last)
         /\ got' = got \cup earlier \cup ({last} \ {0})
         /\ up' = (up /\ ~broken)
         /\ failed' = (failed \/ broken)
  /\ staged' = Take("risk")
  /\ UNCHANGED <<pc, stop, readers, observed, collected, acked, outbound, dropped, core,
                 succeeded, reconnects>>

\* process_next_intent()
Intent ==
  /\ Staged
  /\ ~failed
  /\ staged.submission = 0
  /\ staged.risk = 0
  /\ staged.strategy > 0
  /\ staged' = [Take("strategy") EXCEPT !.risk = 1]
  /\ UNCHANGED <<pc, stop, readers, up, failed, reason, observed, log, collected, delivered, acked,
                 outbound, got, dropped, core, succeeded, reconnects>>

\* A usable book: the events, then the book if nothing stands against it.
Market ==
  /\ Staged
  /\ ~failed
  /\ staged.submission = 0 /\ staged.risk = 0 /\ staged.strategy = 0
  /\ staged.market > 0
  /\ \E n \in Batches, r \in {reason, StopOnce(reason)} :
       IF GapRefused(log, log + n)
       THEN Unwind(n)
       ELSE /\ Emit(log, log + n, r, r = "none" /\ LastThatFits(log, log + n, outbound) = log + n)
            /\ staged' = Take("market")
            /\ observed' = TRUE

-----------------------------------------------------------------------------
(***************************************************************************)
(* The readers.  Both run, and their results are consumed together.        *)
(***************************************************************************)
StartReaders ==
  /\ pc = "serving"
  /\ ~stop
  /\ readers = IdleReaders
  /\ staged = NoWork
  /\ readers' = [IdleReaders EXCEPT !.market = "reading", !.strategy = "reading"]
  /\ UNCHANGED <<pc, stop, staged, up, failed, reason, observed, log, collected, delivered, acked,
                 outbound, got, dropped, core, succeeded, reconnects>>

MarketReader ==
  /\ pc = "serving"
  /\ readers.market = "reading"
  /\ \E answer \in {"item", "timeout", "lost"} :
       /\ readers' = [readers EXCEPT !.market = answer]
       /\ staged' = [staged EXCEPT !.market = @ + IF answer = "item" THEN 1 ELSE 0]
  /\ UNCHANGED <<pc, stop, up, failed, reason, observed, log, collected, delivered, acked,
                 outbound, got, dropped, core, succeeded, reconnects>>

\* An acknowledgement may be old, but is never of an event that is missing.
\* What the strategy wrote before its connection ended can still be read.
StrategyReader ==
  /\ pc = "serving"
  /\ readers.strategy = "reading"
  /\ \E answer \in {"intent", "ack", "timeout", "lost"}, n \in Held :
       /\ answer = "timeout" => up
       /\ answer # "ack" => n = 0
       /\ readers' = [readers EXCEPT !.strategy = answer, !.ack = n]
       /\ staged' = [staged EXCEPT !.strategy = @ + IF answer = "intent" THEN 1 ELSE 0]
  /\ UNCHANGED <<pc, stop, up, failed, reason, observed, log, collected, delivered, acked,
                 outbound, got, dropped, core, succeeded, reconnects>>

\* check_market_freshness() while a reader is still running.
SilentMarket ==
  /\ pc = "serving"
  /\ ~stop
  /\ "reading" \in {readers.market, readers.strategy}
  /\ observed
  /\ reason = "none"
  /\ log' = log + StopRecords(reason)
  /\ reason' = StopOnce(reason)
  /\ UNCHANGED <<pc, stop, readers, staged, up, failed, observed, collected, delivered, acked,
                 outbound, got, dropped, core, succeeded, reconnects>>

ResultsReady ==
  /\ pc = "serving"
  /\ ~stop
  /\ readers.market \notin {"idle", "reading"}
  /\ readers.strategy \notin {"idle", "reading"}

\* record_peer_disconnect(MarketPublisher), then the error is thrown again.
MarketLost ==
  /\ ResultsReady
  /\ readers.market = "lost"
  /\ Unwind(StopRecords(reason))

\* record_peer_disconnect(StrategyClient); nothing but a strategy is awaited.
StrategyLost ==
  /\ ResultsReady
  /\ readers.market # "lost"
  /\ readers.strategy = "lost"
  /\ LET r == IF reason = "none" THEN "strategy" ELSE reason
         to == log + StopRecords(reason)
     IN  IF GapRefused(log, to)
         THEN Unwind(to - log)
         ELSE /\ Collect(log, to, r)
              /\ pc' = "awaiting"
              /\ readers' = IdleReaders
              /\ up' = FALSE
              /\ UNCHANGED <<stop, staged, failed, observed, delivered, acked, got, core,
                             succeeded, reconnects>>

\* acknowledge_events_through()
ValidAck(n) == n >= acked /\ n <= delivered

Acknowledge(n) ==
  /\ acked' = n
  /\ outbound' = Unacknowledged(n)

ResultsTaken ==
  /\ ResultsReady
  /\ readers.market # "lost"
  /\ readers.strategy # "lost"
  /\ IF readers.strategy = "ack" /\ ~ValidAck(readers.ack)
     THEN Unwind(0)
     ELSE /\ IF readers.strategy = "ack"
             THEN Acknowledge(readers.ack)
             ELSE UNCHANGED <<acked, outbound>>
          /\ readers' = IdleReaders
          /\ UNCHANGED <<pc, stop, staged, up, failed, reason, observed, log, collected,
                         delivered, got, dropped, core, succeeded, reconnects>>

\* The strategy closes its end.
StrategyGone ==
  /\ pc = "serving"
  /\ up
  /\ up' = FALSE
  /\ UNCHANGED <<pc, stop, readers, staged, failed, reason, observed, log, collected, delivered,
                 acked, outbound, got, dropped, core, succeeded, reconnects>>

-----------------------------------------------------------------------------
(***************************************************************************)
(* The strategy comes back with the cursor of what it really has: what was *)
(* written but not read is lost.                                           *)
(***************************************************************************)
\* Variant: authority is restored before the new records are collected.
RestorationsUncollected ==
  IF reason = "strategy"
  THEN [records : {1, 2}, reason : {"none"}, collected : {FALSE}]
  ELSE [records : {0}, reason : {reason}, collected : {FALSE}]

\* restore_strategy_authority_after_reconnect(): records, the reason they
\* leave, and whether they are collected.  A failed reconciliation is not.
Restorations ==
  IF reason = "strategy"
  THEN [records : {1, 2}, reason : {"none"}, collected : {TRUE}] \cup
       [records : {2, 3}, reason : {"other"}, collected : {TRUE}] \cup
       [records : {1}, reason : {"strategy"}, collected : {FALSE}]
  ELSE [records : {0}, reason : {reason}, collected : {FALSE}]

\* establish_acknowledgement_cursor()
ValidCursor(cursor) == cursor >= acked

\* reconnect(): the ledger after the strategy's own cursor is replayed.
ReplayFrom(cursor) == cursor

Reconnect ==
  /\ pc = "awaiting"
  /\ ~stop
  /\ reconnects < MaxReconnects
  /\ \E cursor \in Held, restored \in Restorations :
       IF ~ValidCursor(cursor)
       THEN Unwind(0)
       ELSE IF restored.collected /\ GapRefused(log, log + restored.records)
       THEN Unwind(restored.records)
       ELSE /\ pc' = "serving"
            /\ reconnects' = reconnects + 1
            /\ acked' = cursor
            /\ log' = log + restored.records
            /\ collected' = IF restored.collected THEN log' ELSE collected
            /\ LET fits == LastThatFits(log, log', Unacknowledged(cursor))
               IN  /\ outbound' = Unacknowledged(cursor) \cup
                                  (IF restored.collected THEN log + 1 .. fits ELSE {})
                   /\ dropped' = (dropped \/ (restored.collected /\ fits < log'))
            /\ reason' = restored.reason
            /\ \E sent \in ReplayFrom(cursor) .. log' :
                 /\ got' = (1 .. cursor) \cup (ReplayFrom(cursor) + 1 .. sent)
                 /\ delivered' = Larger(Larger(delivered, cursor), sent)
                 /\ up' = (sent = log')
                 /\ failed' = (sent # log')
            /\ UNCHANGED <<stop, readers, staged, observed, core, succeeded>>

\* The reconnect window ends, or the stop request is seen.
AwaitEnds ==
  /\ pc = "awaiting"
  /\ Unwind(0)

-----------------------------------------------------------------------------
(***************************************************************************)
(* The end of run() after a stop request.                                  *)
(***************************************************************************)
RequestStop ==
  /\ pc \in {"serving", "awaiting"}
  /\ ~stop
  /\ stop' = TRUE
  /\ UNCHANGED <<pc, readers, staged, up, failed, reason, observed, log, collected, delivered,
                 acked, outbound, got, dropped, core, succeeded, reconnects>>

\* The readers end first, and an acknowledgement among their results counts.
FinalShutdown ==
  /\ pc = "serving"
  /\ stop
  /\ "reading" \notin {readers.market, readers.strategy}
  /\ IF readers.strategy = "ack" /\ ~ValidAck(readers.ack)
     THEN Unwind(0)
     ELSE /\ acked' = IF readers.strategy = "ack" THEN readers.ack ELSE acked
          /\ Shutdown(0, Unacknowledged(acked'))
          /\ pc' = "final"
          /\ UNCHANGED <<up, failed, observed, delivered, got, succeeded, reconnects>>

\* Everything after the last delivered event is sent once more, from the
\* ledger; a failure ends run().
FinalSend ==
  /\ pc = "final"
  /\ Send(delivered, log, FALSE)
  /\ pc' = IF failed' THEN "ended" ELSE "acking"
  /\ UNCHANGED <<stop, readers, staged, reason, observed, log, collected, acked, outbound, dropped,
                 core, succeeded, reconnects>>

\* Variant: the final events need not be acknowledged.
SucceededOnceSent == core /\ staged' = NoWork

\* update_shutdown_success_locked()
FactualSuccess ==
  core /\ staged' = NoWork /\ outbound' = {} /\ acked' >= log'

FinalAck ==
  /\ pc = "acking"
  /\ ~succeeded
  /\ \E n \in Held :
       IF ValidAck(n)
       THEN Acknowledge(n) /\ UNCHANGED pc
       ELSE pc' = "ended" /\ UNCHANGED <<acked, outbound>>
  /\ UNCHANGED <<stop, readers, staged, up, failed, reason, observed, log, collected, delivered,
                 got, dropped, core, reconnects>>
  /\ succeeded' = (pc' = "acking" /\ FactualSuccess)

\* Variant: the server waits for its acknowledgements without a deadline.
FinalEndWhenAcked ==
  /\ pc = "acking"
  /\ succeeded
  /\ pc' = "ended"
  /\ UNCHANGED <<stop, readers, staged, up, failed, reason, observed, log, collected, delivered,
                 acked, outbound, got, dropped, core, succeeded, reconnects>>

\* Success, the absolute deadline, or a read error.
FinalEnd ==
  /\ pc \in {"final", "acking"}
  /\ pc' = "ended"
  /\ UNCHANGED <<stop, readers, staged, up, failed, reason, observed, log, collected, delivered,
                 acked, outbound, got, dropped, core, succeeded, reconnects>>

-----------------------------------------------------------------------------
\* The session has written its startup reconciliation, both peers are
\* authenticated and the strategy was sent the ledger, or the write failed.
Init ==
  /\ pc = "serving"
  /\ stop = FALSE
  /\ readers = IdleReaders
  /\ staged = NoWork
  /\ up \in BOOLEAN
  /\ failed = ~up
  /\ reason = "none"
  /\ observed = FALSE
  /\ log = 1
  /\ collected = 1
  /\ delivered = IF up THEN 1 ELSE 0
  /\ acked = 0
  /\ outbound = {}
  /\ got = 1 .. delivered
  /\ dropped = FALSE
  /\ core = FALSE
  /\ succeeded = FALSE
  /\ reconnects = 0

Process == FaultyMarket \/ Submission \/ RiskWork \/ RepeatedIntent \/ Intent \/ Market

Consume == MarketLost \/ StrategyLost \/ ResultsTaken

End == FinalShutdown \/ FinalSend \/ FinalAck \/ FinalEnd

Next ==
  \/ Process
  \/ StartReaders \/ MarketReader \/ StrategyReader \/ SilentMarket \/ Consume
  \/ StrategyGone \/ Reconnect \/ AwaitEnds
  \/ RequestStop \/ End

Spec == Init /\ [][Next]_vars

\* The loop keeps running, a reader ends by its I/O deadline, a queued book
\* ages, the reconnect window and the shutdown deadline pass.  Nothing is
\* assumed of the peers or of the operator.
Fairness ==
  /\ WF_vars(FaultyMarket)
  /\ WF_vars(Process)
  /\ WF_vars(StartReaders)
  /\ WF_vars(MarketReader)
  /\ WF_vars(StrategyReader)
  /\ WF_vars(Consume)
  /\ WF_vars(AwaitEnds)
  /\ WF_vars(FinalShutdown)
  /\ WF_vars(FinalSend)
  /\ WF_vars(FinalEnd)

FairSpec == Spec /\ Fairness

-----------------------------------------------------------------------------
\* The types of the variables.
TypeOK ==
  /\ pc \in {"serving", "awaiting", "final", "acking", "ended"}
  /\ stop \in BOOLEAN /\ up \in BOOLEAN /\ failed \in BOOLEAN /\ observed \in BOOLEAN
  /\ dropped \in BOOLEAN /\ core \in BOOLEAN /\ succeeded \in BOOLEAN
  /\ readers \in [market : {"idle", "reading", "item", "timeout", "lost"},
                  strategy : {"idle", "reading", "intent", "ack", "timeout", "lost"},
                  ack : Nat]
  /\ staged \in [Stages -> Nat]
  /\ reason \in {"none", "strategy", "other"}
  /\ log \in Nat /\ collected \in Nat /\ delivered \in Nat /\ acked \in Nat
  /\ outbound \subseteq Nat /\ got \subseteq Nat
  /\ reconnects \in Nat

\* Readers run only over empty stages and the stages feed each other one
\* item at a time, so no ingress stage ever holds two: with capacities of at
\* least one, the overflow branches of the loop are never taken.
StagesHoldOneItem ==
  /\ \A stage \in Stages : staged[stage] <= 1
  /\ staged.strategy + staged.risk + staged.submission <= 1
  /\ readers.market = "reading" => staged.market = 0
  /\ readers.strategy = "reading" =>
       staged.strategy = 0 /\ staged.risk = 0 /\ staged.submission = 0

\* Nothing is acknowledged before it is delivered or delivered before it is
\* in the ledger, also when a replay of the ledger has delivered records that
\* were not collected yet.
CursorsInOrder ==
  /\ acked <= delivered
  /\ delivered <= log
  /\ collected <= log
  /\ got \subseteq 1 .. delivered
  /\ outbound \subseteq 1 .. collected

\* Unless the outbound stage overflowed, what the strategy has never has a
\* gap: neither a record nobody collected, nor a deferred or failed write,
\* nor a reconnect makes a later event overtake an earlier one.
NoSilentGap == dropped \/ \A q \in got : 1 .. q \subseteq got

\* While order authority stands, every record of the ledger has been collected
\* for the strategy: each record that is left behind revokes authority, and
\* no reconnect gives it back before that record is collected.
AuthorityMeansCollected == reason = "none" => collected = log

\* A factual stop means that the strategy has the whole ledger, also the
\* events an overflow of the outbound stage kept from it, that every stage is
\* empty and that authority is revoked.
FactualStopIsComplete ==
  succeeded => 1 .. log \subseteq got /\ staged = NoWork /\ reason # "none"

\* A stop request ends the server, whatever the peers do.
StopEnds == stop ~> pc = "ended"

-----------------------------------------------------------------------------
\* IPC_AND_EXECUTOR.md: either peer disconnect immediately revokes order
\* authority.  At least, it is revoked at some time.
DisconnectRevokes == ~up /\ pc = "serving" ~> reason # "none" \/ pc # "serving"

\* test_executor_queues.cpp: an intent that meets a silent market is refused
\* and the executor is safety-stopped; it does not end the server.
StaleIntentIsAnswered ==
  [][staged.risk > 0 /\ staged'.risk = 0 /\ pc = "serving" /\ ~stop => pc' = "serving"]_vars
=============================================================================
