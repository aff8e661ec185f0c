-------------------------- MODULE ExecutionSession --------------------------
(***************************************************************************)
(* The shadow executor around its single state owner: ExecutionSession     *)
(* (prepare, submit, observe, reconnect, stop), the executor's safety      *)
(* reason and broker-submission stage, the paper broker behind the         *)
(* BrokerAdapter interface, and the ledger that survives a crash.          *)
(*                                                                         *)
(* Handlers run one at a time.  Each is an operator that returns an        *)
(* outcome: the ledger records it appends, in order, and the state it      *)
(* leaves.  Finish(outcome) takes the whole handler; CrashDuring(outcome)  *)
(* stops the process after any prefix of those records, before or after    *)
(* the broker call that sits between two of them.  A failed append is such *)
(* a crash: it closes the writer, every later append throws, and the       *)
(* executor ends at its next ledger verification.                          *)
(*                                                                         *)
(* The ledger is represented by what replay makes of it (durable) and by   *)
(* whether its last line is torn.                                          *)
(***************************************************************************)
EXTENDS LedgerReplay, FiniteSets

CONSTANTS
  Places, Modifies, Cancels, \* intent ids of the strategy, by action
  Target,                    \* the order each modify or cancel names
  Terms,                     \* quantity and price of each place or modify
  Contents,                  \* semantic fingerprints an intent id may carry
  MaxCrashes,                \* bound: process crashes
  MaxDisconnects,            \* bound: strategy disconnects
  MaxHealthLosses            \* bound: losses of the broker session's health

Intents == Places \cup Modifies \cup Cancels

ASSUME IntentsAssumption ==
  /\ Places \cap Modifies = {} /\ Places \cap Cancels = {} /\ Modifies \cap Cancels = {}
  /\ NoId \notin Intents \cup Contents
ASSUME TargetAssumption == Target \in [Modifies \cup Cancels -> Places]
ASSUME TermsAssumption ==
  Terms \in [Places \cup Modifies -> [quantity : Nat \ {0}, price : Nat \ {0}]]
ASSUME BoundsAssumption == {MaxCrashes, MaxDisconnects, MaxHealthLosses} \subseteq Nat

VARIABLES
  durable,    \* ReconstructedState of the records on disk
  torn,       \* an incomplete line ends the ledger
  phase,      \* down, up, draining (shutdown), stopping (inside stop())
  mem,        \* members of ExecutionSession and the executor's safety reason
  slot,       \* the BrokerSubmission stage: one prepared capability, or none
  broker,     \* the paper broker: health and order snapshots
  todo,       \* working orders stop() has not accounted for yet
  report,     \* SessionStopResult: how far the stop is accounted for
  attempts,   \* broker mutations called per intent (history)
  budget      \* crashes, disconnects and health losses still allowed

vars == <<durable, torn, phase, mem, slot, broker, todo, report, attempts, budget>>

\* stop() derives the id of its cancel from the session's and the order's: a
\* hash that no strategy chooses.
ShutdownIntent(o) == <<"shutdown", o>>
ASSUME ShutdownAssumption ==
  \A o \in Places : ShutdownIntent(o) \notin Intents \cup {NoId}

AllIntents == Intents \cup {ShutdownIntent(o) : o \in Places}

\* internal_order_id(): a place owns an order named after it.
OrderOf(i) == IF i \in Places THEN i ELSE Target[i]

EmptySlot == [intent |-> NoId, current |-> FALSE]

EmptyBroker == [health |-> "Ready", orders |-> << >>]

\* Reason the executor recorded first; only a strategy disconnect is curable.
Reasons == {"none", "strategy", "other"}

NoMemory ==
  [ready |-> FALSE, safety |-> FALSE, recon |-> FALSE, kill |-> FALSE,
   observed |-> FALSE, blocked |-> FALSE, reason |-> "none", behind |-> FALSE,
   connected |-> TRUE,
   received |-> << >>, orders |-> << >>, view |-> << >>, lastUpdate |-> 0]

-----------------------------------------------------------------------------
(***************************************************************************)
(* Outcomes of handlers.                                                   *)
(***************************************************************************)
Outcome(events, m, s) ==
  [events |-> events, mem |-> m, slot |-> s, broker |-> broker, called |-> {}, before |-> 0]

\* The outcome of a handler that calls the broker for an intent after the
\* first n of its records.
WithCall(outcome, intent, n, b) ==
  [outcome EXCEPT !.broker = b, !.called = {intent}, !.before = n]

Attempted(called) ==
  [i \in AllIntents |-> attempts[i] + IF i \in called THEN 1 ELSE 0]

Finish(outcome) ==
  /\ durable' = Replay(durable, outcome.events)
  /\ mem' = outcome.mem
  /\ slot' = outcome.slot
  /\ broker' = outcome.broker
  /\ attempts' = Attempted(outcome.called)
  /\ UNCHANGED torn

\* The process dies after k records; a torn line may follow them.
CrashDuring(outcome) ==
  /\ budget.crashes > 0
  /\ \E k \in 0 .. Len(outcome.events), t \in BOOLEAN, called \in SUBSET outcome.called :
       /\ t => k < Len(outcome.events)
       /\ k < outcome.before => called = {}
       /\ k > outcome.before => called = outcome.called
       /\ durable' = Replay(durable, SubSeq(outcome.events, 1, k))
       /\ torn' = t
       /\ attempts' = Attempted(called)
  /\ phase' = "down"
  /\ mem' = NoMemory
  /\ slot' = EmptySlot
  /\ broker' = EmptyBroker
  /\ todo' = {}
  /\ report' = "none"
  /\ budget' = [budget EXCEPT !.crashes = @ - 1]

\* A handler that is not a change of phase.
Run(outcome) ==
  \/ Finish(outcome) /\ UNCHANGED <<phase, todo, report, budget>>
  \/ CrashDuring(outcome)

\* A handler whose records collect_events_after() hands to the strategy.  It
\* throws (event_ledger_sequence_invalid) when an earlier record was never
\* collected; the server unwinds into shutdown(), which collects them all.
RunCollected(outcome) ==
  LET refused == mem.behind /\ outcome.events # << >>
  IN  \/ /\ Finish([outcome EXCEPT !.mem.behind = @ /\ ~refused])
         /\ phase' = IF refused THEN "draining" ELSE phase
         /\ UNCHANGED <<todo, report, budget>>
      \/ CrashDuring(outcome)

-----------------------------------------------------------------------------
(***************************************************************************)
(* Safety stops.  Every one bumps the authority generation, so a prepared  *)
(* capability that waits in the slot is no longer current.                 *)
(***************************************************************************)
SafetyStopped(m) ==
  [m EXCEPT !.ready = FALSE, !.safety = TRUE, !.recon = TRUE, !.kill = TRUE]

Revoked(s) == [s EXCEPT !.current = FALSE]

\* force_safety_stop()
SafetyStop(intent, orderId) == Event("safety_stop", intent, orderId)

\* stop_once(): the first reason is kept and only it stops the session.
StopOnceEvents(m) == IF m.reason = "none" THEN <<SafetyStop(NoId, NoId)>> ELSE << >>

StopOnce(m, reason) ==
  IF m.reason = "none" THEN [SafetyStopped(m) EXCEPT !.reason = reason] ELSE m

-----------------------------------------------------------------------------
(***************************************************************************)
(* The paper broker.                                                       *)
(***************************************************************************)
BrokerTerminal == {"filled", "cancelled", "rejected"}

\* Nothing is authoritative once the broker session is lost.
WorkingAt(b) ==
  IF b.health = "Lost"
  THEN {}
  ELSE {o \in DOMAIN b.orders : b.orders[o].state \notin BrokerTerminal}

Placed(terms) ==
  [quantity |-> terms.quantity, price |-> terms.price, cumulative |-> 0, state |-> "working"]

Reply(status, orders) == [status |-> status, orders |-> orders]

\* place(), modify() and cancel() of the paper broker for one intent.
BrokerReply(i) ==
  LET o == OrderOf(i)
      orders == broker.orders
      known == o \in DOMAIN orders
  IN  CASE broker.health # "Ready" -> Reply("Ambiguous", orders)
        [] i \in Places /\ broker.health = "Ready" ->
             IF known THEN Reply("Rejected", orders)
             ELSE Reply("Acknowledged", Put(orders, o, Placed(Terms[i])))
        [] i \in Modifies /\ broker.health = "Ready" ->
             IF \/ ~known
                \/ orders[o].state \in BrokerTerminal
                \/ Terms[i].quantity < orders[o].cumulative
             THEN Reply("Rejected", orders)
             ELSE Reply("Acknowledged",
                        [orders EXCEPT ![o].quantity = Terms[i].quantity,
                                       ![o].price = Terms[i].price])
        [] i \in Cancels /\ broker.health = "Ready" ->
             IF ~known \/ (orders[o].state \in BrokerTerminal \ {"cancelled"})
             THEN Reply("Rejected", orders)
             ELSE Reply("Acknowledged", [orders EXCEPT ![o].state = "cancelled"])

\* A qualifying cross fills the whole remainder (the frozen d51 model).
Filled(snapshot) == [snapshot EXCEPT !.cumulative = snapshot.quantity, !.state = "filled"]

\* What recover_paper_state() makes of a replayed aggregate.
RecoveredState ==
  [Acknowledged |-> "working", PartiallyFilled |-> "partially_filled", Filled |-> "filled",
   Cancelled |-> "cancelled", Rejected |-> "rejected", AmbiguousSubmission |-> "ambiguous"]

Snapshot(order) ==
  [quantity |-> order.effective, price |-> order.price,
   cumulative |-> order.cumulative, state |-> RecoveredState[order.state]]

\* Reconciler::compare() against the session's own view of the broker.
ExactAgreement == broker.health # "Lost" /\ mem.view = broker.orders

-----------------------------------------------------------------------------
(***************************************************************************)
(* serve(): the ledger is verified and replayed, the paper broker is       *)
(* rebuilt from it, and preflight() gives the session its authority.       *)
(***************************************************************************)
RecoveryIncomplete ==
  \E o \in DOMAIN durable.orders : durable.orders[o].state \notin DOMAIN RecoveredState

\* Variant: startup looks only at reconciliation facts.
StartupIgnoringStops == ~durable.recon /\ ~durable.global

StartupAuthority == ~durable.stopped /\ ~durable.recon /\ ~durable.global

LedgerRefused == torn \/ durable.faulty \/ RecoveryIncomplete

\* Variant: the sequence of broker updates restarts from zero.
RecoveredWithoutSequence ==
  LET snapshots == [o \in DOMAIN durable.orders |-> Snapshot(durable.orders[o])]
  IN  [Outcome(<<Event("reconciliation_completed", NoId, NoId)>>,
               [NoMemory EXCEPT
                  !.received = [i \in DOMAIN durable.intents |-> durable.intents[i].content],
                  !.orders = durable.orders,
                  !.view = snapshots],
               EmptySlot) EXCEPT !.broker = [health |-> "Ready", orders |-> snapshots]]

Recovered ==
  LET snapshots == [o \in DOMAIN durable.orders |-> Snapshot(durable.orders[o])]
  IN  [Outcome(<<Event("reconciliation_completed", NoId, NoId)>>,
               [NoMemory EXCEPT
                  !.received = [i \in DOMAIN durable.intents |-> durable.intents[i].content],
                  !.orders = durable.orders,
                  !.view = snapshots,
                  !.lastUpdate = durable.lastUpdate],
               EmptySlot) EXCEPT !.broker = [health |-> "Ready", orders |-> snapshots]]

Launch ==
  /\ phase = "down"
  /\ ~LedgerRefused
  /\ StartupAuthority
  /\ \/ /\ Finish(Recovered)
        /\ phase' = "up"
        /\ report' = "none"
        /\ UNCHANGED <<todo, budget>>
     \/ CrashDuring(Recovered)

\* The ledger does not open, does not replay, or leaves a mutation open: the
\* process ends before it has a session and nothing is written.
LaunchFailed ==
  /\ phase = "down"
  /\ LedgerRefused
  /\ UNCHANGED vars

\* preflight() refuses to start, and records that it did.
LaunchRefused ==
  /\ phase = "down"
  /\ ~LedgerRefused
  /\ ~StartupAuthority
  /\ Run(Outcome(<<SafetyStop(NoId, NoId)>>, mem, slot))

\* The offline repair copies the verified records and adds its incident.
Repair ==
  /\ phase = "down"
  /\ torn
  /\ durable' = Replay(durable, <<Event("ledger_repair_recorded", NoId, NoId)>>)
  /\ torn' = FALSE
  /\ UNCHANGED <<phase, mem, slot, broker, todo, report, attempts, budget>>

-----------------------------------------------------------------------------
(***************************************************************************)
(* process_next_risk_work() and prepare_intent().                          *)
(***************************************************************************)
AttemptType(i) ==
  IF i \in Places THEN "submission_started"
  ELSE IF i \in Modifies THEN "modify_requested" ELSE "cancel_requested"

\* The attempt record, and the outcome record of an acknowledged attempt.
WithTerms(event, i) ==
  IF i \in Cancels
  THEN event
  ELSE [event EXCEPT !.quantity = Terms[i].quantity, !.price = Terms[i].price]

IntentEvent(type, i) == WithTerms(Event(type, i, OrderOf(i)), i)

\* Authority of a place or a modify in the captured risk snapshot.
Authority(m) ==
  /\ m.ready /\ ~m.kill /\ ~m.safety /\ ~m.recon
  /\ broker.health = "Ready"

\* RiskEngine::evaluate(); the numeric limits are a free choice (within).
\* Without a route the broker's own orders are not authoritative either.
Approves(i, mapped, within) ==
  LET o == OrderOf(i)
      known == o \in WorkingAt(broker)
  IN  /\ mapped
      /\ \/ i \in Cancels /\ known
         \/ i \in Places /\ Authority(mem) /\ within
         \/ /\ i \in Modifies /\ Authority(mem) /\ within
            /\ known /\ Terms[i].quantity > broker.orders[o].cumulative

AttemptTransition(i) ==
  ApplyOrderUpdate(IF i \in Places
                   THEN NewOrder("Buy", Terms[i].quantity, Terms[i].price)
                   ELSE mem.orders[OrderOf(i)],
                   EvidenceOf(IntentEvent(AttemptType(i), i),
                              IF i \in Places THEN "SubmissionStarted"
                              ELSE EvidenceKind[AttemptType(i)]))

\* Variant: the capability is staged without its attempt record.
PreparedOffRecord(i, events, m, overflow) ==
  Outcome(SubSeq(events, 1, Len(events) - 1), m, [intent |-> i, current |-> TRUE])

\* The prepared capability is pushed to the BrokerSubmission stage unless a
\* safety reason stands, or collecting the events for the strategy overflows
\* the outbound queue.
Prepared(i, events, m, overflow) ==
  IF overflow
  THEN Outcome(events \o StopOnceEvents(m),
               [StopOnce(m, "other") EXCEPT !.behind = @ \/ m.reason = "none"], slot)
  ELSE Outcome(events, m, IF m.reason = "none" THEN [intent |-> i, current |-> TRUE] ELSE slot)

\* What follows an approval: the attempt is recorded and staged if the order
\* exists and its aggregate permits the attempt (transition).
Attempt(i, events, m, transition, overflow) ==
  LET o == OrderOf(i)
  IN  IF (i \notin Places /\ o \notin DOMAIN mem.orders) \/ transition.refused
      THEN Outcome(Append(events, SafetyStop(i, o)), SafetyStopped(m), slot)
      ELSE Prepared(i, Append(events, IntentEvent(AttemptType(i), i)),
                    [m EXCEPT !.orders = Put(@, o, transition.order)], overflow)

PrepareNew(i, c, mapped, within, overflow) ==
  LET received == <<[Event("intent_received", i, NoId) EXCEPT !.content = c],
                    IF mapped THEN Event("mapping_validated", i, OrderOf(i))
                    ELSE Event("mapping_refused", i, NoId)>>
      m == [mem EXCEPT !.received = Put(@, i, c)]
  IN  IF Approves(i, mapped, within)
      THEN Attempt(i, Append(received, Event("risk_approved", i, OrderOf(i))), m,
                   AttemptTransition(i), overflow)
      ELSE Outcome(Append(received, Event("risk_rejected", i, NoId)), m, slot)

NewIntent(i, c) ==
  {PrepareNew(i, c, mapped, within, overflow) : mapped, within, overflow \in BOOLEAN}

\* The same intent id with another payload.
Conflict(i) ==
  Outcome(<<SafetyStop(i, NoId), Event("risk_rejected", i, NoId)>>,
          [SafetyStopped(mem) EXCEPT !.blocked = TRUE], slot)

\* Variant: an earlier conflict is forgotten.
AfterConflict(i, c) ==
  IF i \notin DOMAIN mem.received
  THEN NewIntent(i, c)
  ELSE IF mem.received[i] # c THEN {Conflict(i)} ELSE {}

\* IdempotencyStore::check(), after the executor has answered an exact
\* repetition from the ledger without entering the session.
PrepareOutcomes(i, c) ==
  IF i \in DOMAIN mem.received
  THEN IF mem.received[i] # c THEN {Conflict(i)} ELSE {}
  ELSE IF mem.blocked /\ i \notin Cancels
  THEN {}
  ELSE NewIntent(i, c)

Prepare(i, c) ==
  /\ phase \in {"up", "draining"}
  /\ phase = "up" => mem.connected
  /\ slot = EmptySlot
  /\ \E outcome \in PrepareOutcomes(i, c) : RunCollected(outcome)

-----------------------------------------------------------------------------
(***************************************************************************)
(* process_next_broker_submission() and submit_prepared().                 *)
(***************************************************************************)
OutcomeType(i, status) ==
  CASE status = "Ambiguous" -> "ambiguous_submission"
    [] status = "Acknowledged" ->
         IF i \in Places THEN "broker_acknowledged"
         ELSE IF i \in Modifies THEN "modified" ELSE "cancelled"
    [] status = "Rejected" ->
         IF i \in Places THEN "broker_rejected"
         ELSE IF i \in Modifies THEN "modify_rejected" ELSE "cancel_rejected"

\* How an applied outcome changes the session's view of the broker.
ViewAfter(type, i) ==
  LET o == OrderOf(i)
  IN  CASE type = "broker_acknowledged" -> Put(mem.view, o, Placed(Terms[i]))
        [] type = "modified"  -> [mem.view EXCEPT ![o].quantity = Terms[i].quantity,
                                                  ![o].price = Terms[i].price]
        [] type = "cancelled" -> [mem.view EXCEPT ![o].state = "cancelled"]
        [] OTHER -> mem.view

\* prepared_authority_revoked_before_broker
SubmitRevoked(i) ==
  Outcome(<<Event("reconciliation_required", i, OrderOf(i))>>,
          [mem EXCEPT !.recon = TRUE, !.safety = TRUE], EmptySlot)

\* The ledger worker does not acknowledge the attempt record: no call.
SubmitUnacknowledged(i) ==
  Outcome(Append(StopOnceEvents(mem), SafetyStop(i, OrderOf(i))),
          SafetyStopped(StopOnce(mem, "other")), EmptySlot)

\* The answer of the broker is applied only if it is legal (result), certain,
\* durable and acknowledged by the ledger worker.
Answered(i, event, reply, result, acknowledged) ==
  LET o == OrderOf(i)
      uncertain == result.refused \/ reply.status = "Ambiguous" \/ ~acknowledged
      refusal == IF result.refused THEN <<SafetyStop(i, o)>> ELSE << >>
      stop == IF acknowledged THEN << >> ELSE StopOnceEvents(mem)
  IN  Outcome(Append(refusal, event) \o
                (IF uncertain THEN Append(stop, SafetyStop(i, o)) ELSE << >>),
              IF uncertain
              THEN SafetyStopped(IF acknowledged THEN mem ELSE StopOnce(mem, "other"))
              ELSE [mem EXCEPT !.orders[o] = result.order, !.view = ViewAfter(event.type, i)],
              EmptySlot)

\* The broker is called once.
SubmitCalled(i, acknowledged) ==
  LET reply == BrokerReply(i)
      event == IntentEvent(OutcomeType(i, reply.status), i)
      result == ApplyOrderUpdate(mem.orders[OrderOf(i)],
                                 EvidenceOf(event, EvidenceKind[event.type]))
  IN  WithCall(Answered(i, event, reply, result, acknowledged), i, 0,
               [broker EXCEPT !.orders = reply.orders])

\* Variant: the capability is not consumed by the call.
KeepingSlot(i) ==
  IF slot.current THEN {[SubmitCalled(i, TRUE) EXCEPT !.slot = slot]} ELSE {}

\* Variant: authority is not tested again at submission.
Unchecked(i) == {SubmitCalled(i, acknowledged) : acknowledged \in BOOLEAN}

SubmitOutcomes(i) ==
  IF ~slot.current \/ (~mem.ready /\ i \notin Cancels)
  THEN {SubmitRevoked(i)}
  ELSE {SubmitUnacknowledged(i)} \cup
       {SubmitCalled(i, acknowledged) : acknowledged \in BOOLEAN}

\* Variant: shutdown does not drain the submission stage.
SubmitWhileServing ==
  /\ phase = "up"
  /\ slot # EmptySlot
  /\ \E outcome \in SubmitOutcomes(slot.intent) : RunCollected(outcome)

Submit ==
  /\ phase \in {"up", "draining"}
  /\ slot # EmptySlot
  /\ \E outcome \in SubmitOutcomes(slot.intent) : RunCollected(outcome)

-----------------------------------------------------------------------------
(***************************************************************************)
(* process_next_market(): the observation is recorded, the paper broker    *)
(* fills what it crosses, the session is activated, and the fills that     *)
(* went through the reserved broker-update channel are applied.            *)
(***************************************************************************)
Orderings(S) ==
  {q \in [1 .. Cardinality(S) -> S] : \A j, k \in DOMAIN q : q[j] = q[k] => j = k}

\* After a restart the first observation only sets the volume baseline of the
\* restored orders; it fills none of them.
Fillable == IF broker.health = "Ready" /\ mem.observed THEN WorkingAt(broker) ELSE {}

\* Updates reserved before the broker sees the observation.
PossibleUpdates == Cardinality({o \in DOMAIN mem.orders : mem.orders[o].state \in Working})

FillEvent(o, sequence) ==
  [Event("filled", o, o) EXCEPT !.cumulative = broker.orders[o].quantity,
                                !.sequence = sequence]

\* drain_broker_updates() for one fill; the first refusal ends the drain.
Drained(acc, o, event, result) ==
  IF result.refused
  THEN [events |-> Append(acc.events, SafetyStop(NoId, NoId)),
        mem |-> SafetyStopped(acc.mem), draining |-> FALSE]
  ELSE [events |-> Append(acc.events, event),
        mem |-> [acc.mem EXCEPT !.orders[o] = result.order,
                                !.view[o] = Snapshot(result.order),
                                !.lastUpdate = event.sequence],
        draining |-> TRUE]

DrainFill(acc, o) ==
  LET event == FillEvent(o, acc.mem.lastUpdate + 1)
  IN  IF acc.draining
      THEN Drained(acc, o, event,
                   ApplyOrderUpdate(acc.mem.orders[o], EvidenceOf(event, "FillUpdate")))
      ELSE acc

Drain(events, m, fills) ==
  LET drained[n \in 0 .. Len(fills)] ==
        IF n = 0 THEN [events |-> events, mem |-> m, draining |-> TRUE]
        ELSE DrainFill(drained[n - 1], fills[n])
  IN  drained[Len(fills)]

\* activate()
MayActivate(m) == ~m.ready /\ ~m.safety /\ ~m.recon

AfterDrain(acc) == Outcome(acc.events, acc.mem, slot)

Observed(fills) ==
  LET overrun == Len(fills) > PossibleUpdates
      dispatched == IF overrun THEN SubSeq(fills, 1, PossibleUpdates) ELSE fills
      accepted == <<Event("market_observation_accepted", NoId, NoId)>>
      seen == [mem EXCEPT !.observed = TRUE]
      started == IF overrun
                 THEN [events |-> accepted \o StopOnceEvents(seen), mem |-> StopOnce(seen, "other")]
                 ELSE IF MayActivate(seen)
                 THEN [events |-> Append(accepted, Event("session_started", NoId, NoId)),
                       mem |-> [seen EXCEPT !.ready = TRUE]]
                 ELSE [events |-> accepted, mem |-> seen]
  IN  [AfterDrain(Drain(started.events, started.mem, dispatched)) EXCEPT
         !.broker.orders = [o \in DOMAIN broker.orders |->
                              IF \E k \in DOMAIN fills : fills[k] = o
                              THEN Filled(broker.orders[o]) ELSE broker.orders[o]]]

Observe ==
  /\ phase = "up"
  /\ mem.connected
  /\ slot = EmptySlot
  /\ \E crossed \in SUBSET Fillable : \E fills \in Orderings(crossed) : RunCollected(Observed(fills))

\* A stale or unusable book or a silent market: stop_once() with a reason that
\* only a new process clears, in a record that no handler collects.
Fault ==
  /\ phase = "up"
  /\ mem.connected
  /\ mem.reason = "none"
  /\ Run(Outcome(StopOnceEvents(mem), [StopOnce(mem, "other") EXCEPT !.behind = TRUE],
                 Revoked(slot)))

\* The broker session degrades under the session's feet.
LoseHealth(health) ==
  /\ phase # "down"
  /\ broker.health = "Ready"
  /\ budget.losses > 0
  /\ broker' = [broker EXCEPT !.health = health]
  /\ budget' = [budget EXCEPT !.losses = @ - 1]
  /\ UNCHANGED <<durable, torn, phase, mem, slot, todo, report, attempts>>

-----------------------------------------------------------------------------
(***************************************************************************)
(* The strategy disconnects; the server waits for it and nothing else      *)
(* until it is back, then tries to restore authority.                      *)
(***************************************************************************)
Disconnect ==
  /\ phase = "up"
  /\ mem.connected
  /\ slot = EmptySlot
  /\ budget.disconnects > 0
  /\ LET gone == Outcome(StopOnceEvents(mem),
                         [StopOnce(mem, "strategy") EXCEPT !.connected = FALSE], slot)
     IN  \/ /\ Finish(gone)
            /\ budget' = [budget EXCEPT !.disconnects = @ - 1]
            /\ UNCHANGED <<phase, todo, report>>
         \/ CrashDuring(gone)

\* Variant: any reason is cured by a reconnect.
RestoredAlways(fresh) ==
  Outcome(<<Event("reconciliation_completed", NoId, NoId), Event("session_started", NoId, NoId)>>,
          [mem EXCEPT !.connected = TRUE, !.kill = FALSE, !.safety = FALSE, !.recon = FALSE,
                      !.ready = mem.observed, !.reason = "none"], slot)

\* reconcile_after_strategy_reconnect() and the freshness test that follows.
\* The stop of a failed reconciliation is not collected.
Restored(fresh) ==
  LET back == [mem EXCEPT !.connected = TRUE]
      clear == [back EXCEPT !.kill = FALSE, !.safety = FALSE, !.recon = FALSE,
                            !.ready = mem.observed]
      events == <<Event("reconciliation_completed", NoId, NoId)>> \o
                (IF mem.observed THEN <<Event("session_started", NoId, NoId)>> ELSE << >>)
  IN  IF mem.reason # "strategy"
      THEN Outcome(<< >>, back, slot)
      ELSE IF ~ExactAgreement \/ broker.health # "Ready"
      THEN Outcome(<<SafetyStop(NoId, NoId)>>, [SafetyStopped(back) EXCEPT !.behind = TRUE], slot)
      ELSE IF fresh
      THEN Outcome(events, [clear EXCEPT !.reason = "none"], slot)
      ELSE Outcome(Append(events, SafetyStop(NoId, NoId)),
                   [SafetyStopped(clear) EXCEPT !.reason = "other"], slot)

Reconnect ==
  /\ phase = "up"
  /\ ~mem.connected
  /\ \E fresh \in {f \in BOOLEAN : f => mem.observed} : Run(Restored(fresh))

-----------------------------------------------------------------------------
(***************************************************************************)
(* shutdown() drains the stages, then ExecutionSession::stop() cancels     *)
(* what still works at the broker.                                         *)
(***************************************************************************)
\* A stop request, a lost market peer, or an exception of the run loop.
ShutdownBegin ==
  /\ phase = "up"
  /\ LET begun == Outcome(StopOnceEvents(mem),
                          [StopOnce(mem, "other") EXCEPT !.behind = FALSE], Revoked(slot))
     IN  \/ Finish(begun) /\ phase' = "draining" /\ UNCHANGED <<todo, report, budget>>
         \/ CrashDuring(begun)

StopBegin ==
  /\ phase = "draining"
  /\ slot = EmptySlot
  /\ LET uncertain == broker.health = "Lost"
         begun == Outcome(<<Event("session_stopping", NoId, NoId)>>,
                          [mem EXCEPT !.ready = FALSE, !.kill = TRUE,
                                      !.recon = @ \/ uncertain,
                                      !.safety = @ \/ uncertain], slot)
     IN  \/ /\ Finish(begun)
            /\ phase' = "stopping"
            /\ todo' = WorkingAt(broker)
            /\ report' = IF uncertain THEN "incomplete" ELSE "complete"
            /\ UNCHANGED budget
         \/ CrashDuring(begun)

\* The deadline or the rate limit leaves an order unattempted.
CancelUnattempted(o) ==
  Outcome(<<Event("reconciliation_required", ShutdownIntent(o), o)>>,
          [mem EXCEPT !.recon = TRUE, !.safety = TRUE], slot)

\* The records of a shutdown cancel up to the broker call; the order state
\* machine is not consulted.
CancelRecords(o) ==
  LET i == ShutdownIntent(o)
  IN  <<Event("intent_received", i, NoId), Event("mapping_validated", i, o),
        Event("risk_approved", i, o), Event("cancel_requested", i, o)>>

CancelAttempted(o, acknowledged) ==
  LET i == ShutdownIntent(o)
      confirmed == broker.health = "Ready"
      answer == Event(IF confirmed THEN "cancelled" ELSE "ambiguous_submission", i, o)
  IN  WithCall(Outcome(Append(CancelRecords(o), answer),
                       IF ~confirmed \/ ~acknowledged
                       THEN [mem EXCEPT !.recon = TRUE, !.safety = TRUE]
                       ELSE IF o \in DOMAIN mem.view
                       THEN [mem EXCEPT !.view[o].state = "cancelled"]
                       ELSE mem,
                       slot),
               i, 4,
               IF confirmed THEN [broker EXCEPT !.orders[o].state = "cancelled"] ELSE broker)

\* The ledger worker does not acknowledge the request: no call.
CancelUnacknowledged(o) ==
  Outcome(CancelRecords(o) \o CancelUnattempted(o).events, CancelUnattempted(o).mem, slot)

\* One iteration of the loop over the working orders.  The risk engine
\* refuses once the broker session is lost, after the mapping record.
CancelOnStop(o) ==
  /\ phase = "stopping"
  /\ o \in todo
  /\ \E outcome \in
       {CancelUnattempted(o)} \cup
       (IF broker.health = "Lost"
        THEN {Outcome(SubSeq(CancelRecords(o), 1, 2) \o CancelUnattempted(o).events,
                      CancelUnattempted(o).mem, slot)}
        ELSE {CancelAttempted(o, TRUE), CancelAttempted(o, FALSE), CancelUnacknowledged(o)}) :
       \/ /\ Finish(outcome)
          /\ todo' = todo \ {o}
          /\ report' = IF outcome.called # {} /\ broker.health = "Ready" THEN report ELSE "incomplete"
          /\ UNCHANGED <<phase, budget>>
       \/ CrashDuring(outcome)

\* The records that end a stop; a broker that is not ready adds a stop.
StopRecords(inTime) ==
  (IF inTime /\ broker.health # "Ready" THEN <<SafetyStop(NoId, NoId)>> ELSE << >>)
    \o <<Event("session_stopped", NoId, NoId)>>

\* Variant: confirmed cancels are enough.
ReconciledByCancels(inTime) == inTime /\ report = "complete" /\ broker.health = "Ready"

\* reconciliation_exact: every cancel is confirmed and the final comparison,
\* made before the deadline, agrees.
ReconciledStop(inTime) ==
  inTime /\ report = "complete" /\ broker.health = "Ready" /\ ExactAgreement

StopEnd ==
  /\ phase = "stopping"
  /\ todo = {}
  /\ \E inTime \in BOOLEAN :
       LET ended == Outcome(StopRecords(inTime), NoMemory, EmptySlot)
       IN  \/ /\ Finish([ended EXCEPT !.broker = EmptyBroker])
              /\ phase' = "down"
              /\ report' = IF ReconciledStop(inTime) THEN "reconciled" ELSE "uncertain"
              /\ UNCHANGED <<todo, budget>>
           \/ CrashDuring(ended)

\* The absolute deadline passes before stop() is reached.
ShutdownTimeout ==
  /\ phase = "draining"
  /\ phase' = "down"
  /\ mem' = NoMemory
  /\ slot' = EmptySlot
  /\ broker' = EmptyBroker
  /\ UNCHANGED <<durable, torn, todo, report, attempts, budget>>

-----------------------------------------------------------------------------
Init ==
  /\ durable = EmptyReplay
  /\ torn = FALSE
  /\ phase = "down"
  /\ mem = NoMemory
  /\ slot = EmptySlot
  /\ broker = EmptyBroker
  /\ todo = {}
  /\ report = "none"
  /\ attempts = [i \in AllIntents |-> 0]
  /\ budget = [crashes |-> MaxCrashes, disconnects |-> MaxDisconnects, losses |-> MaxHealthLosses]

Next ==
  \/ Launch \/ LaunchRefused \/ LaunchFailed \/ Repair
  \/ \E i \in Intents, c \in Contents : Prepare(i, c)
  \/ Submit
  \/ Observe \/ Fault
  \/ \E health \in {"Unknown", "Lost"} : LoseHealth(health)
  \/ Disconnect \/ Reconnect
  \/ ShutdownBegin \/ StopBegin
  \/ \E o \in Places : CancelOnStop(o)
  \/ StopEnd \/ ShutdownTimeout

\* shutdown() runs to its end: it drains the submission stage and stop()
\* iterates over the orders.  Nothing is assumed while the session serves,
\* of the strategy, the market or the operator.
Fairness ==
  /\ WF_vars(phase = "draining" /\ Submit)
  /\ WF_vars(StopBegin)
  /\ \A o \in Places : WF_vars(CancelOnStop(o))
  /\ WF_vars(StopEnd)

Spec == Init /\ [][Next]_vars

FairSpec == Spec /\ Fairness

-----------------------------------------------------------------------------
Snapshots ==
  [quantity : Nat, price : Nat, cumulative : Nat,
   state : {"working", "partially_filled", "ambiguous"} \cup BrokerTerminal]

\* The types of the variables that are not records of another module.
TypeOK ==
  /\ torn \in BOOLEAN
  /\ phase \in {"down", "up", "draining", "stopping"}
  /\ mem.reason \in Reasons
  /\ DOMAIN mem.orders \subseteq Places
  /\ \A o \in DOMAIN mem.view : mem.view[o] \in Snapshots
  /\ slot \in [intent : Intents \cup {NoId}, current : BOOLEAN]
  /\ broker.health \in {"Ready", "Unknown", "Lost"}
  /\ \A o \in DOMAIN broker.orders : broker.orders[o] \in Snapshots
  /\ todo \subseteq Places
  /\ report \in {"none", "complete", "incomplete", "reconciled", "uncertain"}
  /\ attempts \in [AllIntents -> Nat]

\* No intent reaches the broker twice, whatever is repeated, replayed after
\* a reconnect, recovered after a crash or cancelled again by shutdown.
AtMostOneAttempt == \A i \in AllIntents : attempts[i] <= 1

\* The records of an intent that come before its attempt.
BeforeAttempt ==
  {"intent_received", "mapping_validated", "mapping_refused", "risk_approved", "risk_rejected"}

\* Whatever the broker was asked, and every order it holds, is already on
\* record in the ledger: a crash at any point forgets no exposure.
AttemptsAreOnRecord ==
  durable.faulty \/
  /\ \A i \in AllIntents : attempts[i] > 0 =>
       i \in DOMAIN durable.intents /\ durable.intents[i].disposition \notin BeforeAttempt
  /\ DOMAIN broker.orders \subseteq DOMAIN durable.orders

\* While the session may trade, what it believes is what the broker holds, and
\* what the ledger replays: only a conflict of payloads makes a ledger that does
\* not replay any more, and a reconnect restores the session all the same.
ReadyMeansAgreement ==
  mem.ready /\ slot = EmptySlot =>
    /\ mem.view = broker.orders
    /\ \A o \in DOMAIN mem.view : mem.view[o] = Snapshot(mem.orders[o])
    /\ \/ durable.faulty /\ mem.blocked
       \/ /\ ~durable.faulty
          /\ mem.orders = durable.orders
          /\ mem.lastUpdate = durable.lastUpdate

\* A safety stop in memory is on record, so that no restart overlooks it.
SafetyStopIsOnRecord ==
  mem.safety => durable.stopped \/ durable.recon \/ durable.faulty

\* Replay never drops a reconciliation an intent or the session still needs.
ReconciliationIsKept ==
  durable.global \/ (\E i \in DOMAIN durable.intents : durable.intents[i].ambiguous) =>
    durable.recon

\* A stop that reported reconciled leaves no working order on record: the
\* comparison with the broker would have met any fill or answer that was lost.
ReconciledStopIsSettled ==
  report = "reconciled" /\ ~durable.faulty =>
    \A o \in DOMAIN durable.orders : durable.orders[o].state \notin Working

\* What every moment of a session, its crashes and its shutdown keeps: a broker
\* answer that could not be recorded stops the session on record, replay keeps
\* what still needs a reconciliation, and stop() reports reconciled only when
\* no order is left working.
StopsAreSettled ==
  /\ TypeOK
  /\ SafetyStopIsOnRecord
  /\ ReconciliationIsKept
  /\ ReconciledStopIsSettled

\* A place or a modify goes to the broker only in a state that has full
\* authority at that moment, not only when it was prepared.
OnlyAuthorizedAttempts ==
  [][\A i \in Places \cup Modifies : attempts'[i] > attempts[i] =>
       mem.ready /\ ~mem.kill /\ ~mem.safety /\ ~mem.recon]_vars

\* Once two payloads claimed one intent id, nothing new is placed or
\* modified again, not even after a reconnect restored the session.
ConflictBlocksForever ==
  [][mem.blocked => \A i \in Places \cup Modifies : attempts'[i] = attempts[i]]_vars

\* A stop for any reason but a strategy disconnect outlasts every reconnect.
HardStopIsFinal ==
  [][mem.reason = "other" /\ phase' # "down" => ~mem'.ready /\ mem'.reason = "other"]_vars

\* A process starts to serve only from a ledger without a recorded stop and
\* with a broker answer on record for every place that was ever attempted.
RestartFailsClosed ==
  [][phase = "down" /\ phase' = "up" =>
       /\ ~durable.stopped
       /\ \A p \in Places : attempts[p] > 0 =>
            p \in DOMAIN durable.orders /\ durable.intents[p].outcome]_vars

\* A shutdown that began ends.
ShutdownEnds == phase \in {"draining", "stopping"} ~> phase = "down"

-----------------------------------------------------------------------------
\* LEDGER_AND_RECOVERY.md: replay of a clean ledger rebuilds the intents,
\* orders, safety stops and reconciliation facts.
CleanLedgerReplays == ~durable.faulty

\* IPC_AND_EXECUTOR.md: recovery fails closed on incomplete broker evidence.
\* A modify or cancel request without an answer is such evidence.
RecoveryFailsClosed ==
  [][phase = "down" /\ phase' = "up" =>
       \A o \in DOMAIN durable.orders : durable.orders[o].pending = "None"]_vars

\* RISK_RULES.md: a known nonterminal target may be cancelled during
\* stale-market or kill conditions.  A cancel that was approved under the
\* kill switch, and whose request is on record, is staged for the broker.
ApprovedCancelIsStaged ==
  [][\A i \in Cancels :
       /\ mem.kill
       /\ phase' # "down"
       /\ i \notin DOMAIN durable.intents
       /\ i \in DOMAIN durable'.intents
       /\ durable'.intents[i].disposition = "cancel_requested"
       => slot'.intent = i]_vars
=============================================================================
