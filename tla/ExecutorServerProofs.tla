------------------------ MODULE ExecutorServerProofs ------------------------
(***************************************************************************)
(* The safety invariants of ExecutorServer, proved for every capacity of   *)
(* the outbound stage and every bound.                                     *)
(*                                                                         *)
(* The inductive invariant adds to the checked ones what makes the next    *)
(* event safe to send: as long as no write failed and nothing was dropped, *)
(* the strategy has exactly what was delivered, and in the loop that is    *)
(* at least what was collected (DeliveryInv); and once shutdown() has run, *)
(* authority is revoked (EndInv).                                          *)
(***************************************************************************)
EXTENDS ExecutorServer, FiniteSetTheorems, TLAPS

DeliveryInv ==
  ~dropped =>
    /\ \A q \in got : 1 .. q \subseteq got
    /\ ~failed => got = 1 .. delivered
    /\ ~failed /\ pc = "serving" => collected <= delivered

\* A failed write shuts the connection down.
ConnectionInv == failed => ~up

EndInv ==
  /\ pc \in {"final", "acking", "ended"} => reason # "none"
  /\ succeeded => pc \in {"acking", "ended"}

IInv ==
  /\ TypeOK
  /\ StagesHoldOneItem
  /\ CursorsInOrder
  /\ AuthorityMeansCollected
  /\ DeliveryInv
  /\ ConnectionInv
  /\ EndInv
  /\ FactualStopIsComplete

\* The part of the invariant that does not speak of the stages.
FlowTypeOK ==
  /\ pc \in {"serving", "awaiting", "final", "acking", "ended"}
  /\ stop \in BOOLEAN /\ up \in BOOLEAN /\ failed \in BOOLEAN /\ observed \in BOOLEAN
  /\ dropped \in BOOLEAN /\ core \in BOOLEAN /\ succeeded \in BOOLEAN
  /\ reason \in {"none", "strategy", "other"}
  /\ log \in Nat /\ collected \in Nat /\ delivered \in Nat /\ acked \in Nat
  /\ outbound \subseteq Nat /\ got \subseteq Nat
  /\ reconnects \in Nat

StageTypeOK ==
  /\ readers \in [market : {"idle", "reading", "item", "timeout", "lost"},
                  strategy : {"idle", "reading", "intent", "ack", "timeout", "lost"},
                  ack : Nat]
  /\ staged \in [Stages -> Nat]

FlowInv ==
  /\ FlowTypeOK
  /\ CursorsInOrder
  /\ AuthorityMeansCollected
  /\ DeliveryInv
  /\ ConnectionInv
  /\ EndInv

StageInv == StageTypeOK /\ StagesHoldOneItem

LEMMA Parts == IInv <=> StageInv /\ FlowInv /\ FactualStopIsComplete
BY DEF IInv, StageInv, FlowInv, StageTypeOK, FlowTypeOK, TypeOK

\* The outbound stage is finite, so that its room is a number.
LEMMA Fits ==
  ASSUME FlowInv, NEW from \in Nat, NEW to \in Nat, NEW waiting \in SUBSET outbound
  PROVE  /\ LastThatFits(from, to, waiting) \in Int
         /\ LastThatFits(from, to, waiting) <= to
<1>1. IsFiniteSet(1 .. collected)
  BY FS_Interval DEF FlowInv, FlowTypeOK
<1>2. waiting \subseteq 1 .. collected
  BY DEF FlowInv, CursorsInOrder
<1>3. Cardinality(waiting) \in Nat
  BY <1>1, <1>2, FS_Subset, FS_CardinalityType
<1> QED
  BY <1>3, CapacityAssumption DEF LastThatFits, Smaller

-----------------------------------------------------------------------------
\* shutdown(), from a loop that ends or that unwinds.
LEMMA ShutdownFlow ==
  ASSUME FlowInv, NEW n \in Nat, NEW waiting \in SUBSET outbound, Shutdown(n, waiting),
         pc' \in {"final", "ended"}, succeeded => pc' = "ended",
         acked' \in Nat, acked' <= delivered,
         UNCHANGED <<up, failed, observed, delivered, got, succeeded, reconnects>>
  PROVE  FlowInv'
<1> USE DEF FlowInv
<1>1. PICK k \in StopRecords(reason) .. MaxBatch : log' = log + n + k
  BY DEF Shutdown
<1>2. k \in Nat /\ log' \in Nat /\ log' >= log
  BY <1>1, ServerBoundsAssumption DEF StopRecords, FlowTypeOK
<1> DEFINE fits == LastThatFits(collected, log', waiting)
<1>3. fits \in Int /\ fits <= log'
  BY <1>2, Fits DEF FlowTypeOK
<1>4. /\ stop' = TRUE /\ collected' = log'
      /\ reason' = StopOnce(reason)
      /\ outbound' = waiting \cup (collected + 1 .. fits)
      /\ dropped' = (dropped \/ fits < log')
      /\ core' \in BOOLEAN
  BY DEF Shutdown
<1> HIDE DEF fits
<1>5. FlowTypeOK'
  <2>1. outbound' \subseteq Nat /\ log' \in Nat /\ collected' \in Nat
    BY <1>2, <1>3, <1>4 DEF FlowTypeOK
  <2>2. dropped' \in BOOLEAN /\ reason' \in {"none", "strategy", "other"}
    BY <1>4 DEF FlowTypeOK, StopOnce
  <2> QED
    BY <2>1, <2>2, <1>4 DEF FlowTypeOK
<1>6. CursorsInOrder'
  BY <1>2, <1>3, <1>4 DEF FlowTypeOK, CursorsInOrder
<1>7. AuthorityMeansCollected' /\ EndInv'
  BY <1>4 DEF AuthorityMeansCollected, EndInv, StopOnce, FlowTypeOK
<1>8. DeliveryInv'
  BY <1>4 DEF DeliveryInv
<1>9. ConnectionInv'
  BY DEF ConnectionInv
<1> QED
  BY <1>5, <1>6, <1>7, <1>8, <1>9

LEMMA UnwindFlow ==
  ASSUME FlowInv, NEW n \in Nat, Unwind(n)
  PROVE  FlowInv'
<1>1. acked' \in Nat /\ acked' <= delivered
  BY DEF FlowInv, FlowTypeOK, CursorsInOrder, Unwind
<1> QED
  BY <1>1, ShutdownFlow DEF Unwind

\* A handler of the loop whose records continue what was collected.
LEMMA EmitFlow ==
  ASSUME FlowInv, pc = "serving", ~failed,
         NEW from \in Nat, from = log, from = collected,
         NEW to \in Nat, to > from,
         NEW r \in {reason, StopOnce(reason)},
         NEW book, Emit(from, to, r, book),
         observed' \in BOOLEAN
  PROVE  FlowInv'
<1> USE DEF FlowInv
<1> DEFINE fits == LastThatFits(from, to, outbound)
<1>1. fits \in Int /\ fits <= to
  BY Fits
<1>2. PICK sent \in from .. fits, broken \in BOOLEAN :
        /\ sent < fits => broken
        /\ delivered' = IF sent > from THEN Larger(delivered, sent) ELSE delivered
        /\ got' = got \cup (from + 1 .. sent)
        /\ up' = (up /\ ~broken)
        /\ failed' = (failed \/ broken)
  BY DEF Emit, Send
<1>3. /\ collected' = to
      /\ outbound' = outbound \cup (from + 1 .. fits)
      /\ dropped' = (dropped \/ fits < to)
      /\ log' = to + IF fits < to THEN StopRecords(r) ELSE 0
      /\ reason' = IF fits < to THEN StopOnce(r) ELSE r
      /\ UNCHANGED <<pc, stop, readers, acked, core, succeeded, reconnects>>
  BY DEF Emit, Collect
<1> HIDE DEF fits
<1>4. sent \in Nat /\ from <= sent /\ sent <= fits /\ delivered' \in Nat
  BY <1>1, <1>2 DEF FlowTypeOK, Larger
<1>5. log' \in Nat /\ to <= log'
  BY <1>3 DEF StopRecords
<1>6. FlowTypeOK'
  <2>1. outbound' \subseteq Nat /\ got' \subseteq Nat
    BY <1>1, <1>2, <1>3, <1>4 DEF FlowTypeOK
  <2>2. dropped' \in BOOLEAN /\ reason' \in {"none", "strategy", "other"}
    BY <1>3 DEF FlowTypeOK, StopOnce
  <2>3. up' \in BOOLEAN /\ failed' \in BOOLEAN
    BY <1>2
  <2> QED
    BY <2>1, <2>2, <2>3, <1>3, <1>4, <1>5 DEF FlowTypeOK
<1>7. CursorsInOrder'
  <2>0. sent <= log' /\ delivered <= log' /\ delivered \in Nat
    BY <1>1, <1>4, <1>5 DEF FlowTypeOK, CursorsInOrder
  <2>1. delivered' <= log' /\ delivered <= delivered' /\ (sent > from => sent <= delivered')
    BY <2>0, <1>2, <1>4, <1>5 DEF Larger
  <2>2. got' \subseteq 1 .. delivered'
    BY <2>1, <1>2, <1>4 DEF FlowTypeOK, CursorsInOrder
  <2>3. outbound' \subseteq 1 .. collected'
    BY <1>1, <1>3 DEF FlowTypeOK, CursorsInOrder
  <2> QED
    BY <2>1, <2>2, <2>3, <1>3, <1>4, <1>5 DEF FlowTypeOK, CursorsInOrder
<1>8. AuthorityMeansCollected'
  BY <1>1, <1>3 DEF AuthorityMeansCollected, StopOnce
<1>9. EndInv'
  BY <1>3 DEF EndInv
<1>10. DeliveryInv'
  <2> SUFFICES ASSUME ~dropped'
      PROVE  /\ \A q \in got' : 1 .. q \subseteq got'
             /\ ~failed' => got' = 1 .. delivered'
             /\ ~failed' /\ pc' = "serving" => collected' <= delivered'
    BY DEF DeliveryInv
  <2>1. ~dropped /\ fits = to
    <3>1. ~dropped
      BY <1>3, Zenon
    <3>2. ~(fits < to)
      BY <1>3, Zenon
    <3> QED
      BY <3>1, <3>2, <1>1
  <2>2. got = 1 .. from /\ delivered = from
    BY <2>1 DEF DeliveryInv, CursorsInOrder, FlowTypeOK
  <2>3. delivered' = sent /\ got' = 1 .. sent
    BY <2>2, <1>2, <1>4 DEF Larger
  <2>4. ~failed' => sent = to
    BY <2>1, <1>2, <1>4
  <2> QED
    BY <2>3, <2>4, <1>3, <1>4
<1>11. ConnectionInv'
  BY <1>2 DEF ConnectionInv, FlowTypeOK
<1> QED
  BY <1>6, <1>7, <1>8, <1>9, <1>10, <1>11

-----------------------------------------------------------------------------
(***************************************************************************)
(* One lemma per action of the loop that writes or sends.                  *)
(***************************************************************************)
LEMMA SubmissionFlow ==
  ASSUME FlowInv, Submission
  PROVE  FlowInv'
<1> USE DEF FlowInv
<1>1. PICK n \in Batches, r \in {reason, StopOnce(reason)} :
        IF GapRefused(log, log + n)
        THEN Unwind(n)
        ELSE Emit(log, log + n, r, FALSE) /\ UNCHANGED observed
  BY DEF Submission
<1>2. n \in Nat /\ n > 0 /\ log \in Nat /\ log + n \in Nat /\ log + n > log
  BY ServerBoundsAssumption DEF Batches, FlowTypeOK
<1>3. CASE GapRefused(log, log + n)
  BY <1>1, <1>2, <1>3, UnwindFlow
<1>4. CASE ~GapRefused(log, log + n)
  <2>1. log = collected
    BY <1>2, <1>4 DEF GapRefused
  <2>2. observed' \in BOOLEAN
    BY <1>1, <1>4 DEF FlowTypeOK
  <2> QED
    BY <1>1, <1>2, <1>4, <2>1, <2>2, EmitFlow DEF Submission, Staged
<1> QED
  BY <1>3, <1>4

LEMMA MarketFlow ==
  ASSUME FlowInv, Market
  PROVE  FlowInv'
<1> USE DEF FlowInv
<1>1. PICK n \in Batches, r \in {reason, StopOnce(reason)} :
        IF GapRefused(log, log + n)
        THEN Unwind(n)
        ELSE /\ Emit(log, log + n, r,
                     r = "none" /\ LastThatFits(log, log + n, outbound) = log + n)
             /\ observed' = TRUE
  BY DEF Market
<1>2. n \in Nat /\ n > 0 /\ log \in Nat /\ log + n \in Nat /\ log + n > log
  BY ServerBoundsAssumption DEF Batches, FlowTypeOK
<1>3. CASE GapRefused(log, log + n)
  BY <1>1, <1>2, <1>3, UnwindFlow
<1>4. CASE ~GapRefused(log, log + n)
  <2>1. log = collected
    BY <1>2, <1>4 DEF GapRefused
  <2>2. observed' \in BOOLEAN
    BY <1>1, <1>4
  <2> QED
    BY <1>1, <1>2, <1>4, <2>1, <2>2, EmitFlow DEF Market, Staged
<1> QED
  BY <1>3, <1>4

\* A stop that the freshness test has just written is a gap, so that records
\* are only sent when there was none.
LEMMA RiskWorkFlow ==
  ASSUME FlowInv, RiskWork
  PROVE  FlowInv'
<1> USE DEF FlowInv
<1>1. PICK stale \in {s \in BOOLEAN : s => observed}, n \in Batches :
        LET from == log + IF stale THEN StopRecords(reason) ELSE 0
            r == IF stale THEN StopOnce(reason) ELSE reason
        IN  IF GapRefused(from, from + n)
            THEN Unwind(from + n - log)
            ELSE Emit(from, from + n, r, FALSE) /\ UNCHANGED observed
  BY DEF RiskWork
<1> DEFINE from == log + IF stale THEN StopRecords(reason) ELSE 0
           r == IF stale THEN StopOnce(reason) ELSE reason
<1>2. /\ n \in Nat /\ n > 0 /\ log \in Nat /\ from \in Nat /\ from >= log
      /\ from + n \in Nat /\ from + n > from /\ from + n - log \in Nat
  BY ServerBoundsAssumption DEF Batches, FlowTypeOK, StopRecords
<1>3. r \in {reason, StopOnce(reason)}
  OBVIOUS
<1> HIDE DEF from, r
<1>4. CASE GapRefused(from, from + n)
  <2>1. Unwind(from + n - log)
    BY <1>1, <1>4 DEF from
  <2> QED
    BY <1>2, <2>1, UnwindFlow
<1>5. CASE ~GapRefused(from, from + n)
  <2>1. from = collected /\ from = log
    BY <1>2, <1>5 DEF GapRefused, FlowTypeOK, CursorsInOrder
  <2>2. Emit(from, from + n, r, FALSE) /\ UNCHANGED observed
    BY <1>1, <1>5 DEF from, r
  <2>3. observed' \in BOOLEAN
    BY <2>2 DEF FlowTypeOK
  <2> QED
    BY <1>2, <1>3, <2>1, <2>2, <2>3, EmitFlow DEF RiskWork, Staged
<1> QED
  BY <1>4, <1>5

\* Without an overflow the history of an intent is nothing new.
LEMMA RepeatedIntentFlow ==
  ASSUME FlowInv, RepeatedIntent
  PROVE  FlowInv'
<1> USE DEF FlowInv
<1>1. PICK stale \in BOOLEAN, broken \in BOOLEAN, last \in 0 .. collected,
            earlier \in SUBSET Int :
        /\ earlier \subseteq 1 .. last - 1
        /\ log' = log + IF stale THEN StopRecords(reason) ELSE 0
        /\ reason' = IF stale THEN StopOnce(reason) ELSE reason
        /\ delivered' = Larger(delivered, last)
        /\ got' = got \cup earlier \cup ({last} \ {0})
        /\ up' = (up /\ ~broken)
        /\ failed' = (failed \/ broken)
  <2>1. (IF up THEN 0 .. collected ELSE {0}) \subseteq 0 .. collected
    BY DEF FlowTypeOK
  <2> QED
    <3>1. PICK stale \in BOOLEAN, broken \in BOOLEAN,
                last \in (IF up THEN 0 .. collected ELSE {0}) :
            \E earlier \in SUBSET (1 .. last - 1) :
              /\ log' = log + IF stale THEN StopRecords(reason) ELSE 0
              /\ reason' = IF stale THEN StopOnce(reason) ELSE reason
              /\ delivered' = Larger(delivered, last)
              /\ got' = got \cup earlier \cup ({last} \ {0})
              /\ up' = (up /\ ~broken)
              /\ failed' = (failed \/ broken)
      BY DEF RepeatedIntent
    <3>2. 1 .. last - 1 \subseteq Int /\ last \in 0 .. collected
      BY <2>1
    <3> QED
      BY <3>1, <3>2
<1>2. /\ pc = "serving" /\ ~failed
      /\ UNCHANGED <<pc, stop, readers, observed, collected, acked, outbound, dropped, core,
                     succeeded, reconnects>>
  BY DEF RepeatedIntent, Staged
<1>3. /\ log' \in Nat /\ log <= log' /\ last \in Nat /\ last <= collected
      /\ delivered' \in Nat /\ delivered <= delivered' /\ last <= delivered'
      /\ delivered' <= log'
  BY <1>1 DEF StopRecords, FlowTypeOK, CursorsInOrder, Larger
<1>4. got' \subseteq 1 .. delivered' /\ got' \subseteq got \cup (1 .. last)
  BY <1>1, <1>3 DEF FlowTypeOK, CursorsInOrder
<1>5. FlowTypeOK'
  <2>1. got' \subseteq Nat /\ reason' \in {"none", "strategy", "other"}
    BY <1>1, <1>3, <1>4 DEF FlowTypeOK, StopOnce
  <2>2. up' \in BOOLEAN /\ failed' \in BOOLEAN
    BY <1>1
  <2> QED
    BY <2>1, <2>2, <1>2, <1>3 DEF FlowTypeOK
<1>6. CursorsInOrder'
  BY <1>2, <1>3, <1>4 DEF FlowTypeOK, CursorsInOrder
<1>7. AuthorityMeansCollected'
  BY <1>1, <1>2 DEF AuthorityMeansCollected, StopOnce, StopRecords, FlowTypeOK
<1>8. EndInv'
  BY <1>2 DEF EndInv
<1>9. DeliveryInv'
  <2> SUFFICES ASSUME ~dropped
      PROVE  DeliveryInv'
    BY <1>2 DEF DeliveryInv
  <2>1. got = 1 .. delivered /\ collected <= delivered
    BY <1>2 DEF DeliveryInv
  <2>2. delivered' = delivered /\ got' = got
    <3>1. delivered' = delivered
      BY <2>1, <1>1, <1>3 DEF FlowTypeOK, Larger
    <3>2. got \subseteq got'
      BY <1>1
    <3> QED
      BY <3>1, <3>2, <2>1, <1>4
  <2> QED
    BY <2>1, <2>2, <1>2 DEF DeliveryInv
<1>10. ConnectionInv'
  BY <1>1, <1>2 DEF ConnectionInv, FlowTypeOK
<1> QED
  BY <1>5, <1>6, <1>7, <1>8, <1>9, <1>10

\* A stop that nobody collects revokes authority with the record it leaves.
LEMMA UncollectedStopFlow ==
  ASSUME FlowInv,
         log' = log + StopRecords(reason), reason' = StopOnce(reason),
         UNCHANGED <<pc, stop, up, failed, observed, collected, delivered, acked, outbound, got,
                     dropped, core, succeeded, reconnects>>
  PROVE  FlowInv'
BY DEF FlowInv, FlowTypeOK, CursorsInOrder, AuthorityMeansCollected, DeliveryInv,
       ConnectionInv, EndInv,
       StopOnce, StopRecords

LEMMA StrategyLostFlow ==
  ASSUME FlowInv, StrategyLost
  PROVE  FlowInv'
<1> USE DEF FlowInv
<1> DEFINE r == IF reason = "none" THEN "strategy" ELSE reason
           to == log + StopRecords(reason)
           fits == LastThatFits(log, to, outbound)
<1>1. log \in Nat /\ to \in Nat /\ to >= log /\ to - log \in Nat
  BY DEF FlowTypeOK, StopRecords
<1>2. fits \in Int /\ fits <= to
  BY <1>1, Fits
<1>3. r # "none" /\ r \in {"none", "strategy", "other"}
  BY DEF FlowTypeOK
<1>4. CASE GapRefused(log, to)
  BY <1>1, <1>4, UnwindFlow DEF StrategyLost
<1>5. CASE ~GapRefused(log, to)
  <2>1. /\ collected' = IF to > log THEN to ELSE collected
        /\ outbound' = outbound \cup (log + 1 .. fits)
        /\ dropped' = (dropped \/ fits < to)
        /\ log' = to + IF fits < to THEN StopRecords(r) ELSE 0
        /\ reason' = IF fits < to THEN StopOnce(r) ELSE r
        /\ pc' = "awaiting" /\ up' = FALSE
        /\ UNCHANGED <<stop, failed, observed, delivered, acked, got, core, succeeded, reconnects>>
        /\ pc = "serving"
    BY <1>5 DEF StrategyLost, Collect, ResultsReady
  <2> HIDE DEF fits, r, to
  <2>2. log' = to /\ reason' = r
    BY <1>1, <1>3, <2>1 DEF StopRecords, StopOnce
  <2>3. FlowTypeOK'
    <3>1. outbound' \subseteq Nat /\ collected' \in Nat /\ log' \in Nat
      BY <1>1, <1>2, <2>1, <2>2 DEF FlowTypeOK
    <3>2. dropped' \in BOOLEAN
      BY <2>1
    <3> QED
      BY <3>1, <3>2, <1>3, <2>1, <2>2 DEF FlowTypeOK
  <2>4. CursorsInOrder'
    <3>1. outbound' \subseteq 1 .. collected'
      BY <1>1, <1>2, <2>1 DEF FlowTypeOK, CursorsInOrder
    <3> QED
      BY <3>1, <1>1, <2>1, <2>2 DEF FlowTypeOK, CursorsInOrder
  <2>5. AuthorityMeansCollected' /\ EndInv'
    BY <1>3, <2>1, <2>2 DEF AuthorityMeansCollected, EndInv
  <2>6. DeliveryInv' /\ ConnectionInv'
    BY <2>1 DEF DeliveryInv, ConnectionInv
  <2> QED
    BY <2>3, <2>4, <2>5, <2>6
<1> QED
  BY <1>4, <1>5

LEMMA ResultsTakenFlow ==
  ASSUME FlowInv, StageInv, ResultsTaken
  PROVE  FlowInv'
<1> USE DEF FlowInv
<1>1. CASE readers.strategy = "ack" /\ ~ValidAck(readers.ack)
  BY <1>1, UnwindFlow DEF ResultsTaken
<1>2. CASE readers.strategy = "ack" /\ ValidAck(readers.ack)
  <2>1. readers.ack \in Nat /\ readers.ack <= delivered
    BY <1>2 DEF ValidAck, StageInv, StageTypeOK
  <2>2. /\ acked' = readers.ack /\ outbound' \subseteq outbound
        /\ UNCHANGED <<pc, stop, up, failed, reason, observed, log, collected, delivered, got,
                       dropped, core, succeeded, reconnects>>
    BY <1>2 DEF ResultsTaken, Acknowledge, Unacknowledged
  <2> QED
    BY <2>1, <2>2 DEF FlowTypeOK, CursorsInOrder, AuthorityMeansCollected, DeliveryInv,
                      ConnectionInv, EndInv
<1>3. CASE readers.strategy # "ack"
  <2>1. UNCHANGED <<pc, stop, up, failed, reason, observed, log, collected, delivered, acked,
                    outbound, got, dropped, core, succeeded, reconnects>>
    BY <1>3 DEF ResultsTaken
  <2> QED
    BY <2>1 DEF FlowTypeOK, CursorsInOrder, AuthorityMeansCollected, DeliveryInv,
                ConnectionInv, EndInv
<1> QED
  BY <1>1, <1>2, <1>3

\* A reconnect rebuilds what the strategy has from its own cursor.
LEMMA ReconnectFlow ==
  ASSUME FlowInv, Reconnect
  PROVE  FlowInv'
<1> USE DEF FlowInv
<1>1. PICK cursor \in Held, restored \in Restorations :
        IF ~ValidCursor(cursor)
        THEN Unwind(0)
        ELSE IF restored.collected /\ GapRefused(log, log + restored.records)
        THEN Unwind(restored.records)
        ELSE /\ pc' = "serving"
             /\ reconnects' = reconnects + 1
             /\ acked' = cursor
             /\ log' = log + restored.records
             /\ collected' = IF restored.collected THEN log' ELSE collected
             /\ LET fits == LastThatFits(log, log', Unacknowledged(cursor))
                IN  /\ outbound' = Unacknowledged(cursor) \cup
                                   (IF restored.collected THEN log + 1 .. fits ELSE {})
                    /\ dropped' = (dropped \/ (restored.collected /\ fits < log'))
             /\ reason' = restored.reason
             /\ \E sent \in ReplayFrom(cursor) .. log' :
                  /\ got' = (1 .. cursor) \cup (ReplayFrom(cursor) + 1 .. sent)
                  /\ delivered' = Larger(Larger(delivered, cursor), sent)
                  /\ up' = (sent = log')
                  /\ failed' = (sent # log')
             /\ UNCHANGED <<stop, readers, staged, observed, core, succeeded>>
  BY DEF Reconnect
<1>2. /\ restored.records \in Nat
      /\ restored.reason \in {"none", "strategy", "other"}
      /\ restored.collected \in BOOLEAN
      /\ ~restored.collected => restored.reason = reason \/ restored.reason = "strategy"
      /\ ~restored.collected /\ reason = "none" => restored.records = 0
      /\ restored.collected => restored.records > 0
  <2>1. \/ /\ restored.records = 0 /\ restored.reason = reason
           /\ restored.collected = FALSE
        \/ /\ restored.records \in {1, 2, 3} /\ restored.reason \in {"none", "other"}
           /\ restored.collected = TRUE
        \/ /\ restored.records = 1 /\ restored.reason = "strategy"
           /\ restored.collected = FALSE /\ reason = "strategy"
    <3>1. CASE reason # "strategy"
      <4>1. restored \in [records : {0}, reason : {reason}, collected : {FALSE}]
        BY <3>1 DEF Restorations
      <4> QED
        BY <4>1
    <3>2. CASE restored \in [records : {1, 2}, reason : {"none"}, collected : {TRUE}]
      BY <3>2
    <3>3. CASE restored \in [records : {2, 3}, reason : {"other"}, collected : {TRUE}]
      BY <3>3
    <3>4. CASE /\ restored \in [records : {1}, reason : {"strategy"}, collected : {FALSE}]
               /\ reason = "strategy"
      BY <3>4
    <3> QED
      BY <3>1, <3>2, <3>3, <3>4 DEF Restorations
  <2>2. CASE restored.collected = FALSE
    <3>1. /\ restored.records \in Nat
          /\ restored.reason \in {"none", "strategy", "other"}
          /\ restored.reason = reason \/ restored.reason = "strategy"
          /\ reason = "none" => restored.records = 0
      BY <2>1, <2>2 DEF FlowTypeOK
    <3> QED
      BY <2>2, <3>1, Zenon
  <2>3. CASE restored.collected = TRUE
    <3>1. restored.records \in {1, 2, 3} /\ restored.reason \in {"none", "other"}
      BY <2>1, <2>3
    <3>2. restored.records \in Nat /\ restored.records > 0
      BY <3>1
    <3> QED
      BY <2>3, <3>1, <3>2, Zenon
  <2> QED
    BY <2>1, <2>2, <2>3
<1>3. cursor \in Nat /\ cursor <= log
  BY DEF Held, FlowTypeOK
<1>4. CASE ~ValidCursor(cursor)
  BY <1>1, <1>4, UnwindFlow
<1>5. CASE ValidCursor(cursor) /\ restored.collected /\ GapRefused(log, log + restored.records)
  BY <1>1, <1>2, <1>5, UnwindFlow
<1>6. CASE ValidCursor(cursor) /\ ~(restored.collected /\ GapRefused(log, log + restored.records))
  <2> DEFINE fits == LastThatFits(log, log', Unacknowledged(cursor))
  <2>1. /\ pc' = "serving"
        /\ reconnects' = reconnects + 1
        /\ acked' = cursor
        /\ log' = log + restored.records
        /\ collected' = IF restored.collected THEN log' ELSE collected
        /\ outbound' = Unacknowledged(cursor) \cup
                       (IF restored.collected THEN log + 1 .. fits ELSE {})
        /\ dropped' = (dropped \/ (restored.collected /\ fits < log'))
        /\ reason' = restored.reason
        /\ UNCHANGED <<stop, observed, core, succeeded>>
    BY <1>1, <1>6
  <2>2. PICK sent \in cursor .. log' :
          /\ got' = (1 .. cursor) \cup (cursor + 1 .. sent)
          /\ delivered' = Larger(Larger(delivered, cursor), sent)
          /\ up' = (sent = log')
          /\ failed' = (sent # log')
    BY <1>1, <1>6 DEF ReplayFrom
  <2>3. log' \in Nat /\ log' >= log /\ sent \in Nat /\ cursor <= sent /\ sent <= log'
    BY <1>2, <1>3, <2>1, <2>2 DEF FlowTypeOK
  <2>4. fits \in Int /\ fits <= log'
    BY <2>3, Fits DEF Unacknowledged, FlowTypeOK
  <2> HIDE DEF fits
  <2>5. /\ delivered' \in Nat /\ delivered' <= log' /\ sent <= delivered' /\ cursor <= delivered'
        /\ got' = 1 .. sent
    <3>1. delivered \in Nat /\ delivered <= log'
      BY <2>3 DEF FlowTypeOK, CursorsInOrder
    <3>2. delivered' \in Nat /\ delivered' <= log' /\ sent <= delivered'
      BY <3>1, <1>3, <2>2, <2>3 DEF Larger
    <3> QED
      BY <3>2, <1>3, <2>2, <2>3
  <2>6. FlowTypeOK'
    <3>0. outbound' \subseteq outbound \cup (log + 1 .. fits)
      BY <2>1 DEF Unacknowledged
    <3>a. log + 1 .. fits \subseteq Nat
      BY <2>4 DEF FlowTypeOK
    <3>b. outbound' \subseteq Nat
      BY <3>0, <3>a DEF FlowTypeOK
    <3>1. got' \subseteq Nat /\ collected' \in Nat /\ reconnects' \in Nat
      BY <2>1, <2>3, <2>5 DEF FlowTypeOK
    <3>2. dropped' \in BOOLEAN /\ up' \in BOOLEAN /\ failed' \in BOOLEAN
      BY <2>1, <2>2
    <3> QED
      BY <3>b, <3>1, <3>2, <1>2, <1>3, <2>1, <2>3, <2>5 DEF FlowTypeOK
  <2>7. CursorsInOrder'
    <3>1. outbound' \subseteq 1 .. collected'
      <4>1. CASE restored.collected
        <5>1. outbound' \subseteq outbound \cup (log + 1 .. fits) /\ collected' = log'
          BY <4>1, <2>1 DEF Unacknowledged
        <5> QED
          BY <5>1, <2>3, <2>4 DEF FlowTypeOK, CursorsInOrder
      <4>2. CASE ~restored.collected
        <5>1. outbound' \subseteq outbound /\ collected' = collected
          BY <4>2, <2>1 DEF Unacknowledged
        <5> QED
          BY <5>1 DEF CursorsInOrder
      <4> QED
        BY <4>1, <4>2
    <3> QED
      BY <3>1, <2>1, <2>3, <2>5 DEF FlowTypeOK, CursorsInOrder
  <2>8. AuthorityMeansCollected'
    BY <1>2, <2>1 DEF AuthorityMeansCollected, FlowTypeOK
  <2>9. EndInv'
    BY <2>1 DEF EndInv, Reconnect
  <2>10. DeliveryInv'
    <3>1. ~failed' => sent = log'
      BY <2>2
    <3>2. ~failed' => delivered' = log' /\ sent = delivered'
      BY <3>1, <2>3, <2>5
    <3>3. collected' <= log'
      BY <2>7 DEF CursorsInOrder
    <3> QED
      BY <3>2, <3>3, <2>3, <2>5 DEF DeliveryInv
  <2>11. ConnectionInv'
    BY <2>2 DEF ConnectionInv
  <2> QED
    BY <2>6, <2>7, <2>8, <2>9, <2>10, <2>11
<1> QED
  BY <1>4, <1>5, <1>6

LEMMA FinalShutdownFlow ==
  ASSUME FlowInv, StageInv, FinalShutdown
  PROVE  FlowInv'
<1> USE DEF FlowInv
<1>1. CASE readers.strategy = "ack" /\ ~ValidAck(readers.ack)
  BY <1>1, UnwindFlow DEF FinalShutdown
<1>2. CASE ~(readers.strategy = "ack" /\ ~ValidAck(readers.ack))
  <2>1. acked' = IF readers.strategy = "ack" THEN readers.ack ELSE acked
    BY <1>2 DEF FinalShutdown
  <2>2. acked' \in Nat /\ acked' <= delivered
    BY <1>2, <2>1 DEF ValidAck, StageInv, StageTypeOK, FlowTypeOK, CursorsInOrder
  <2>3. Unacknowledged(acked') \in SUBSET outbound
    BY DEF Unacknowledged
  <2>4. /\ Shutdown(0, Unacknowledged(acked')) /\ pc' = "final"
        /\ UNCHANGED <<up, failed, observed, delivered, got, succeeded, reconnects>>
    BY <1>2 DEF FinalShutdown
  <2>5. ~succeeded
    BY DEF EndInv, FinalShutdown
  <2> QED
    BY <2>2, <2>3, <2>4, <2>5, ShutdownFlow
<1> QED
  BY <1>1, <1>2

LEMMA FinalSendFlow ==
  ASSUME FlowInv, FinalSend
  PROVE  FlowInv'
<1> USE DEF FlowInv
<1>1. PICK sent \in delivered .. log, broken \in BOOLEAN :
        /\ sent < log => broken
        /\ ~up => sent = delivered
        /\ delivered' = IF sent > delivered THEN Larger(delivered, sent) ELSE delivered
        /\ got' = got \cup (delivered + 1 .. sent)
        /\ up' = (up /\ ~broken)
        /\ failed' = (failed \/ broken)
  BY DEF FinalSend, Send
<1>2. /\ pc = "final" /\ pc' \in {"ended", "acking"}
      /\ UNCHANGED <<stop, reason, observed, log, collected, acked, outbound, dropped, core,
                     succeeded, reconnects>>
  BY DEF FinalSend
<1>3. sent \in Nat /\ delivered <= sent /\ sent <= log /\ delivered' = sent
  BY <1>1 DEF FlowTypeOK, Larger
<1>4. got' \subseteq 1 .. delivered'
  BY <1>1, <1>3 DEF FlowTypeOK, CursorsInOrder
<1>5. FlowTypeOK'
  <2>1. up' \in BOOLEAN /\ failed' \in BOOLEAN
    BY <1>1
  <2>2. got' \subseteq Nat /\ delivered' \in Nat
    BY <1>3, <1>4
  <2> QED
    BY <2>1, <2>2, <1>2 DEF FlowTypeOK
<1>6. CursorsInOrder'
  BY <1>2, <1>3, <1>4 DEF FlowTypeOK, CursorsInOrder
<1>7. AuthorityMeansCollected' /\ EndInv'
  BY <1>2 DEF AuthorityMeansCollected, EndInv
<1>8. DeliveryInv'
  <2> SUFFICES ASSUME ~dropped
      PROVE  DeliveryInv'
    BY <1>2 DEF DeliveryInv
  <2>1. CASE failed
    <3>1. sent = delivered /\ failed'
      BY <2>1, <1>1 DEF ConnectionInv
    <3>2. got' = got
      BY <3>1, <1>1 DEF FlowTypeOK
    <3> QED
      BY <3>1, <3>2 DEF DeliveryInv
  <2>2. CASE ~failed
    <3>1. got = 1 .. delivered
      BY <2>2 DEF DeliveryInv
    <3>2. got' = 1 .. delivered'
      BY <3>1, <1>1, <1>3 DEF FlowTypeOK
    <3> QED
      BY <3>2, <1>2, <1>3 DEF DeliveryInv
  <2> QED
    BY <2>1, <2>2
<1>9. ConnectionInv'
  BY <1>1 DEF ConnectionInv, FlowTypeOK
<1> QED
  BY <1>5, <1>6, <1>7, <1>8, <1>9

LEMMA FinalAckFlow ==
  ASSUME FlowInv, FinalAck
  PROVE  FlowInv'
<1> USE DEF FlowInv
<1>1. PICK n \in Held :
        IF ValidAck(n)
        THEN Acknowledge(n) /\ UNCHANGED pc
        ELSE pc' = "ended" /\ UNCHANGED <<acked, outbound>>
  BY DEF FinalAck
<1>2. /\ pc = "acking"
      /\ UNCHANGED <<stop, up, failed, reason, observed, log, collected, delivered, got, dropped,
                     core, reconnects>>
  BY DEF FinalAck
<1>3. n \in Nat
  BY DEF Held, FlowTypeOK
<1>4. /\ acked' \in Nat /\ acked' <= delivered /\ outbound' \subseteq outbound
      /\ pc' \in {"acking", "ended"}
  BY <1>1, <1>2, <1>3 DEF ValidAck, Acknowledge, Unacknowledged, FlowTypeOK, CursorsInOrder
<1>5. succeeded' \in BOOLEAN
  BY DEF FinalAck
<1>6. FlowTypeOK'
  BY <1>2, <1>4, <1>5 DEF FlowTypeOK
<1> QED
  BY <1>2, <1>4, <1>6 DEF CursorsInOrder, AuthorityMeansCollected, DeliveryInv,
                          ConnectionInv, EndInv

\* Steps that change neither the ledger, the cursors nor the reason.
LEMMA QuietFlow ==
  ASSUME FlowInv, stop' \in BOOLEAN, up' \in BOOLEAN, up' => up,
         pc' = pc \/ (pc \in {"final", "acking"} /\ pc' = "ended"),
         UNCHANGED <<failed, reason, observed, log, collected, delivered, acked, outbound, got,
                     dropped, core, succeeded, reconnects>>
  PROVE  FlowInv'
BY DEF FlowInv, FlowTypeOK, CursorsInOrder, AuthorityMeansCollected, DeliveryInv, ConnectionInv,
       EndInv

LEMMA FlowStep ==
  ASSUME FlowInv, StageInv, [Next]_vars
  PROVE  FlowInv'
<1>0. stop \in BOOLEAN /\ up \in BOOLEAN
  BY DEF FlowInv, FlowTypeOK
<1>1. CASE FaultyMarket
  BY <1>1, UncollectedStopFlow DEF FaultyMarket
<1>2. CASE Submission
  BY <1>2, SubmissionFlow
<1>3. CASE RiskWork
  BY <1>3, RiskWorkFlow
<1>4. CASE RepeatedIntent
  BY <1>4, RepeatedIntentFlow
<1>5. CASE Intent
  BY <1>0, <1>5, QuietFlow DEF Intent
<1>6. CASE Market
  BY <1>6, MarketFlow
<1>7. CASE StartReaders
  BY <1>0, <1>7, QuietFlow DEF StartReaders
<1>8. CASE MarketReader
  BY <1>0, <1>8, QuietFlow DEF MarketReader
<1>9. CASE StrategyReader
  BY <1>0, <1>9, QuietFlow DEF StrategyReader
<1>10. CASE SilentMarket
  BY <1>10, UncollectedStopFlow DEF SilentMarket
<1>11. CASE MarketLost
  <2>1. StopRecords(reason) \in Nat
    BY DEF StopRecords
  <2> QED
    BY <1>11, <2>1, UnwindFlow DEF MarketLost
<1>12. CASE StrategyLost
  BY <1>12, StrategyLostFlow
<1>13. CASE ResultsTaken
  BY <1>13, ResultsTakenFlow
<1>14. CASE StrategyGone
  BY <1>0, <1>14, QuietFlow DEF StrategyGone
<1>15. CASE Reconnect
  BY <1>15, ReconnectFlow
<1>16. CASE AwaitEnds
  BY <1>16, UnwindFlow DEF AwaitEnds
<1>17. CASE RequestStop
  BY <1>0, <1>17, QuietFlow DEF RequestStop
<1>18. CASE FinalShutdown
  BY <1>18, FinalShutdownFlow
<1>19. CASE FinalSend
  BY <1>19, FinalSendFlow
<1>20. CASE FinalAck
  BY <1>20, FinalAckFlow
<1>21. CASE FinalEnd
  BY <1>0, <1>21, QuietFlow DEF FinalEnd
<1>22. CASE UNCHANGED vars
  BY <1>0, <1>22, QuietFlow DEF vars
<1> QED
  BY <1>1, <1>2, <1>3, <1>4, <1>5, <1>6, <1>7, <1>8, <1>9, <1>10, <1>11, <1>12, <1>13, <1>14,
     <1>15, <1>16, <1>17, <1>18, <1>19, <1>20, <1>21, <1>22 DEF Next, Process, Consume, End

-----------------------------------------------------------------------------
(***************************************************************************)
(* The stages.                                                             *)
(***************************************************************************)
LEMMA ShutdownStages ==
  ASSUME StageInv, readers' = IdleReaders, staged' = NoWork \/ staged' = staged
  PROVE  StageInv'
BY DEF StageInv, StageTypeOK, StagesHoldOneItem, IdleReaders, NoWork, Stages

LEMMA UnwindStages ==
  ASSUME StageInv, NEW n, Unwind(n)
  PROVE  StageInv'
<1>1. readers' = IdleReaders /\ (staged' = NoWork \/ staged' = staged)
  BY DEF Unwind, Shutdown
<1> QED
  BY <1>1, ShutdownStages

\* The stages, one by one.
LEMMA StageValues ==
  ASSUME NEW w
  PROVE  (w \in [Stages -> Nat] /\ \A stage \in Stages : w[stage] <= 1) <=>
         /\ w = [stage \in Stages |-> w[stage]]
         /\ w["market"] \in {0, 1} /\ w["strategy"] \in {0, 1}
         /\ w["risk"] \in {0, 1} /\ w["submission"] \in {0, 1}
BY DEF Stages

LEMMA TakeValues ==
  ASSUME staged \in [Stages -> Nat], NEW stage \in Stages
  PROVE  /\ Take(stage) = [other \in Stages |-> Take(stage)[other]]
         /\ Take(stage)[stage] = staged[stage] - 1
         /\ \A other \in Stages : other # stage => Take(stage)[other] = staged[other]
BY DEF Take

\* A step of the loop takes one item, and may put one in the next stage.
LEMMA TakeStages ==
  ASSUME StageInv, readers = IdleReaders, UNCHANGED readers,
         \/ staged.market > 0 /\ staged' = Take("market")
         \/ staged.submission > 0 /\ staged' = Take("submission")
         \/ staged.strategy > 0 /\ staged' = [Take("strategy") EXCEPT !.risk = 1]
         \/ staged.risk > 0 /\ staged' = Take("risk")
         \/ /\ staged.risk > 0
            /\ \E k \in {0, 1} : staged' = [Take("risk") EXCEPT !.submission = k]
  PROVE  StageInv'
<1>1. /\ staged \in [Stages -> Nat] /\ \A stage \in Stages : staged[stage] <= 1
      /\ staged.strategy + staged.risk + staged.submission <= 1
  BY DEF StageInv, StageTypeOK, StagesHoldOneItem
<1>2. ASSUME staged' \in [Stages -> Nat], \A stage \in Stages : staged'[stage] <= 1,
             staged'.strategy + staged'.risk + staged'.submission <= 1
      PROVE  StageInv'
  BY <1>2 DEF StageInv, StageTypeOK, StagesHoldOneItem, IdleReaders
<1>3. /\ staged["market"] \in {0, 1} /\ staged["strategy"] \in {0, 1}
      /\ staged["risk"] \in {0, 1} /\ staged["submission"] \in {0, 1}
  BY <1>1, StageValues
<1>4. /\ "market" \in Stages /\ "strategy" \in Stages
      /\ "risk" \in Stages /\ "submission" \in Stages
  BY DEF Stages
<1> DEFINE OneItem ==
      /\ staged' = [stage \in Stages |-> staged'[stage]]
      /\ staged'["market"] \in {0, 1} /\ staged'["strategy"] \in {0, 1}
      /\ staged'["risk"] \in {0, 1} /\ staged'["submission"] \in {0, 1}
      /\ staged'["strategy"] + staged'["risk"] + staged'["submission"] <= 1
<1>5. OneItem
  <2>1. CASE staged.market > 0 /\ staged' = Take("market")
    BY <1>1, <1>3, <1>4, <2>1, TakeValues
  <2>2. CASE staged.submission > 0 /\ staged' = Take("submission")
    BY <1>1, <1>3, <1>4, <2>2, TakeValues
  <2>3. CASE staged.strategy > 0 /\ staged' = [Take("strategy") EXCEPT !.risk = 1]
    <3>1. /\ Take("strategy")["market"] = staged["market"]
          /\ Take("strategy")["submission"] = staged["submission"]
          /\ Take("strategy")["strategy"] = staged["strategy"] - 1
          /\ Take("strategy") = [other \in Stages |-> Take("strategy")[other]]
      BY <1>1, <1>4, TakeValues
    <3>2. /\ staged'["market"] = staged["market"] /\ staged'["risk"] = 1
          /\ staged'["submission"] = staged["submission"]
          /\ staged'["strategy"] = staged["strategy"] - 1
          /\ staged' = [stage \in Stages |-> staged'[stage]]
      BY <1>4, <2>3, <3>1
    <3> QED
      BY <1>1, <1>3, <2>3, <3>2
  <2>4. CASE staged.risk > 0 /\ staged' = Take("risk")
    BY <1>1, <1>3, <1>4, <2>4, TakeValues
  <2>5. ASSUME staged.risk > 0, NEW k \in {0, 1},
               staged' = [Take("risk") EXCEPT !.submission = k]
        PROVE  OneItem
    <3>1. /\ Take("risk")["market"] = staged["market"]
          /\ Take("risk")["strategy"] = staged["strategy"]
          /\ Take("risk")["risk"] = staged["risk"] - 1
          /\ Take("risk") = [other \in Stages |-> Take("risk")[other]]
      BY <1>1, <1>4, TakeValues
    <3>2. /\ staged'["market"] = staged["market"] /\ staged'["submission"] = k
          /\ staged'["strategy"] = staged["strategy"]
          /\ staged'["risk"] = staged["risk"] - 1
          /\ staged' = [stage \in Stages |-> staged'[stage]]
      BY <1>4, <2>5, <3>1
    <3> QED
      BY <1>1, <1>3, <2>5, <3>2
  <2> QED
    BY <2>1, <2>2, <2>3, <2>4, <2>5
<1> QED
  BY <1>2, <1>5, StageValues

LEMMA StageStep ==
  ASSUME FlowInv, StageInv, [Next]_vars
  PROVE  StageInv'
<1>1. CASE FaultyMarket
  BY <1>1, TakeStages DEF FaultyMarket, Staged
<1>2. CASE Submission
  <2>1. CASE \E n \in Batches : Unwind(n)
    BY <2>1, UnwindStages
  <2>2. CASE staged' = Take("submission") /\ UNCHANGED readers
    BY <1>2, <2>2, TakeStages DEF Submission, Staged
  <2> QED
    BY <1>2, <2>1, <2>2 DEF Submission, Emit
<1>3. CASE RiskWork
  <2>1. CASE \E n : Unwind(n)
    BY <2>1, UnwindStages
  <2>2. CASE /\ UNCHANGED readers
             /\ \E k \in {0, 1} : staged' = [Take("risk") EXCEPT !.submission = k]
    BY <1>3, <2>2, TakeStages DEF RiskWork, Staged
  <2> QED
    BY <1>3, <2>1, <2>2 DEF RiskWork, Emit
<1>4. CASE RepeatedIntent
  BY <1>4, TakeStages DEF RepeatedIntent, Staged
<1>5. CASE Intent
  BY <1>5, TakeStages DEF Intent, Staged
<1>6. CASE Market
  <2>1. CASE \E n \in Batches : Unwind(n)
    BY <2>1, UnwindStages
  <2>2. CASE staged' = Take("market") /\ UNCHANGED readers
    BY <1>6, <2>2, TakeStages DEF Market, Staged
  <2> QED
    BY <1>6, <2>1, <2>2 DEF Market, Emit
<1>7. CASE StartReaders
  BY <1>7 DEF StartReaders, StageInv, StageTypeOK, StagesHoldOneItem, IdleReaders, NoWork, Stages
<1>8. CASE MarketReader
  BY <1>8 DEF MarketReader, StageInv, StageTypeOK, StagesHoldOneItem, Stages
<1>9. CASE StrategyReader
  <2>0. Held \subseteq Nat
    BY DEF Held, FlowInv, FlowTypeOK
  <2>1. PICK answer \in {"intent", "ack", "timeout", "lost"}, n \in Held :
          /\ readers' = [readers EXCEPT !.strategy = answer, !.ack = n]
          /\ staged' = [staged EXCEPT !.strategy = @ + IF answer = "intent" THEN 1 ELSE 0]
    BY <1>9 DEF StrategyReader
  <2> QED
    <3>1. /\ readers.strategy = "reading" /\ staged.strategy = 0 /\ staged.risk = 0
          /\ staged.submission = 0
      BY <1>9 DEF StrategyReader, StageInv, StagesHoldOneItem
    <3>2. /\ readers'.strategy = answer /\ readers'.market = readers.market
          /\ answer # "reading" /\ readers'.strategy # "reading"
      BY <2>1 DEF StageInv, StageTypeOK
    <3>a. n \in Nat /\ readers' \in [market : {"idle", "reading", "item", "timeout", "lost"},
                  strategy : {"idle", "reading", "intent", "ack", "timeout", "lost"},
                  ack : Nat]
      BY <2>0, <2>1 DEF StageInv, StageTypeOK
    <3>b. staged' \in [Stages -> Nat]
      BY <2>1 DEF StageInv, StageTypeOK, Stages
    <3>3. StageTypeOK'
      BY <3>a, <3>b DEF StageTypeOK
    <3>4. /\ staged'.market = staged.market /\ staged'.risk = 0 /\ staged'.submission = 0
          /\ staged'.strategy \in {0, 1}
      BY <2>1, <3>1 DEF StageInv, StageTypeOK, Stages
    <3> QED
      BY <3>2, <3>3, <3>4 DEF StageInv, StageTypeOK, StagesHoldOneItem, Stages
<1>10. CASE SilentMarket
  BY <1>10 DEF SilentMarket, StageInv, StageTypeOK, StagesHoldOneItem
<1>11. CASE MarketLost
  BY <1>11, UnwindStages DEF MarketLost
<1>12. CASE StrategyLost
  <2>1. CASE \E n : Unwind(n)
    BY <2>1, UnwindStages
  <2>2. CASE readers' = IdleReaders /\ UNCHANGED staged
    BY <2>2, ShutdownStages
  <2> QED
    BY <1>12, <2>1, <2>2 DEF StrategyLost
<1>13. CASE ResultsTaken
  <2>1. CASE Unwind(0)
    BY <2>1, UnwindStages
  <2>2. CASE readers' = IdleReaders /\ UNCHANGED staged
    BY <2>2, ShutdownStages
  <2> QED
    BY <1>13, <2>1, <2>2 DEF ResultsTaken
<1>14. CASE StrategyGone
  BY <1>14 DEF StrategyGone, StageInv, StageTypeOK, StagesHoldOneItem
<1>15. CASE Reconnect
  <2>1. CASE \E n : Unwind(n)
    BY <2>1, UnwindStages
  <2>2. CASE UNCHANGED <<readers, staged>>
    BY <2>2 DEF StageInv, StageTypeOK, StagesHoldOneItem
  <2> QED
    BY <1>15, <2>1, <2>2 DEF Reconnect
<1>16. CASE AwaitEnds
  BY <1>16, UnwindStages DEF AwaitEnds
<1>17. CASE RequestStop
  BY <1>17 DEF RequestStop, StageInv, StageTypeOK, StagesHoldOneItem
<1>18. CASE FinalShutdown
  <2>1. readers' = IdleReaders /\ (staged' = NoWork \/ staged' = staged)
    BY <1>18 DEF FinalShutdown, Unwind, Shutdown
  <2> QED
    BY <2>1, ShutdownStages
<1>19. CASE FinalSend
  BY <1>19 DEF FinalSend, StageInv, StageTypeOK, StagesHoldOneItem
<1>20. CASE FinalAck
  BY <1>20 DEF FinalAck, StageInv, StageTypeOK, StagesHoldOneItem
<1>21. CASE FinalEnd
  BY <1>21 DEF FinalEnd, StageInv, StageTypeOK, StagesHoldOneItem
<1>22. CASE UNCHANGED vars
  BY <1>22 DEF vars, StageInv, StageTypeOK, StagesHoldOneItem
<1> QED
  BY <1>1, <1>2, <1>3, <1>4, <1>5, <1>6, <1>7, <1>8, <1>9, <1>10, <1>11, <1>12, <1>13, <1>14,
     <1>15, <1>16, <1>17, <1>18, <1>19, <1>20, <1>21, <1>22 DEF Next, Process, Consume, End

-----------------------------------------------------------------------------
(***************************************************************************)
(* The result of the stop.                                                 *)
(***************************************************************************)
\* Only an acknowledgement of the final exchange makes the stop factual.
LEMMA NotYetFactual ==
  ASSUME FlowInv, Next, ~FinalAck, ~FinalEnd
  PROVE  ~succeeded'
<1>1. UNCHANGED succeeded /\ pc \in {"serving", "awaiting", "final"}
  <2>1. CASE Process
    BY <2>1 DEF Process, FaultyMarket, Submission, RiskWork, RepeatedIntent, Intent, Market,
                Staged, Emit, Unwind
  <2>2. CASE StartReaders \/ MarketReader \/ StrategyReader \/ SilentMarket \/ StrategyGone
    BY <2>2 DEF StartReaders, MarketReader, StrategyReader, SilentMarket, StrategyGone
  <2>3. CASE Consume
    BY <2>3 DEF Consume, MarketLost, StrategyLost, ResultsTaken, ResultsReady, Unwind
  <2>4. CASE Reconnect \/ AwaitEnds
    BY <2>4 DEF Reconnect, AwaitEnds, Unwind
  <2>5. CASE RequestStop \/ FinalShutdown \/ FinalSend
    BY <2>5 DEF RequestStop, FinalShutdown, FinalSend, Unwind
  <2> QED
    BY <2>1, <2>2, <2>3, <2>4, <2>5 DEF Next, End
<1> QED
  BY <1>1 DEF FlowInv, EndInv

LEMMA FactualStep ==
  ASSUME FlowInv, FactualStopIsComplete, [Next]_vars
  PROVE  FactualStopIsComplete'
<1>1. CASE FinalAck
  <2> SUFFICES ASSUME succeeded'
      PROVE  1 .. log' \subseteq got' /\ staged' = NoWork /\ reason' # "none"
    BY DEF FactualStopIsComplete
  <2>1. /\ pc = "acking" /\ pc' = "acking" /\ staged' = NoWork /\ acked' >= log'
        /\ UNCHANGED <<log, got, reason>>
    BY <1>1 DEF FinalAck, FactualSuccess
  <2>2. acked' \in Held
    BY <1>1, <2>1 DEF FinalAck, Acknowledge
  <2>3. acked' = log
    BY <2>1, <2>2 DEF Held, FlowInv, FlowTypeOK
  <2> QED
    BY <2>1, <2>2, <2>3 DEF Held, FlowInv, EndInv
<1>2. CASE FinalEnd \/ UNCHANGED vars
  BY <1>2 DEF FinalEnd, vars, FactualStopIsComplete
<1>3. CASE Next /\ ~FinalAck /\ ~FinalEnd
  BY <1>3, NotYetFactual DEF FactualStopIsComplete
<1> QED
  BY <1>1, <1>2, <1>3

-----------------------------------------------------------------------------
LEMMA InitInv == Init => IInv
<1> SUFFICES ASSUME Init PROVE IInv
  OBVIOUS
<1>1. StageInv
  BY DEF Init, StageInv, StageTypeOK, StagesHoldOneItem, IdleReaders, NoWork, Stages
<1>2. delivered \in Nat /\ delivered <= 1 /\ got = 1 .. delivered
  BY DEF Init
<1>3. FlowInv
  <2>1. failed \in BOOLEAN /\ up \in BOOLEAN /\ ConnectionInv
    BY DEF Init, ConnectionInv
  <2>2. FlowTypeOK
    <3>1. /\ log \in Nat /\ collected \in Nat /\ acked \in Nat /\ reconnects \in Nat
          /\ outbound \subseteq Nat
      BY DEF Init
    <3>2. got \subseteq Nat
      BY <1>2
    <3>3. /\ stop \in BOOLEAN /\ observed \in BOOLEAN /\ dropped \in BOOLEAN
          /\ core \in BOOLEAN /\ succeeded \in BOOLEAN
          /\ pc = "serving" /\ reason = "none"
      BY DEF Init
    <3> QED
      BY <2>1, <1>2, <3>1, <3>2, <3>3 DEF FlowTypeOK
  <2>3. CursorsInOrder /\ AuthorityMeansCollected /\ EndInv
    BY <1>2 DEF Init, CursorsInOrder, AuthorityMeansCollected, EndInv
  <2>4. ~failed => delivered = 1
    BY DEF Init
  <2>5. DeliveryInv
    BY <1>2, <2>4 DEF Init, DeliveryInv
  <2> QED
    BY <2>1, <2>2, <2>3, <2>5 DEF FlowInv
<1> QED
  BY <1>1, <1>3, Parts DEF Init, FactualStopIsComplete

LEMMA StepInv == IInv /\ [Next]_vars => IInv'
<1> SUFFICES ASSUME IInv, [Next]_vars PROVE IInv'
  OBVIOUS
<1>1. StageInv /\ FlowInv /\ FactualStopIsComplete
  BY Parts
<1>2. StageInv' /\ FlowInv' /\ FactualStopIsComplete'
  BY <1>1, StageStep, FlowStep, FactualStep
<1> QED
  BY <1>2 DEF IInv, StageInv, FlowInv, StageTypeOK, FlowTypeOK, TypeOK

LEMMA Invariance == Spec => []IInv
BY InitInv, StepInv, PTL DEF Spec

\* ExecutorServer::run(): the types of its state.
THEOREM ServerTypes == Spec => []TypeOK
<1>1. IInv => TypeOK
  BY DEF IInv
<1> QED
  BY <1>1, Invariance, PTL

\* No ingress stage ever holds two items, whatever the readers deliver: the
\* overflow branches of run() are dead for every positive capacity.
THEOREM StagesNeverOverflow == Spec => []StagesHoldOneItem
<1>1. IInv => StagesHoldOneItem
  BY DEF IInv
<1> QED
  BY <1>1, Invariance, PTL

\* acknowledged <= delivered <= ledger, for every capacity of the outbound
\* stage and across every reconnect.
THEOREM CursorsStayInOrder == Spec => []CursorsInOrder
<1>1. IInv => CursorsInOrder
  BY DEF IInv
<1> QED
  BY <1>1, Invariance, PTL

\* Without an overflow of the outbound stage the strategy never has an event
\* without all earlier ones.
THEOREM DeliveryHasNoGap == Spec => []NoSilentGap
<1>1. IInv => NoSilentGap
  BY DEF IInv, DeliveryInv, NoSilentGap
<1> QED
  BY <1>1, Invariance, PTL

\* Order authority and an uncollected ledger record exclude each other.
THEOREM AuthorityIsCollected == Spec => []AuthorityMeansCollected
<1>1. IInv => AuthorityMeansCollected
  BY DEF IInv
<1> QED
  BY <1>1, Invariance, PTL

\* A stop that is reported as factual has delivered the whole ledger.
THEOREM FactualStops == Spec => []FactualStopIsComplete
<1>1. IInv => FactualStopIsComplete
  BY DEF IInv
<1> QED
  BY <1>1, Invariance, PTL
=============================================================================
