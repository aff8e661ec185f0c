# Shaurya: TLA+ models, model checking and proofs

Shaurya is a trading system in three independent projects: `src/data` (Python: capture, storage and
distribution of market data), `src/research` (Python: offline studies over that data) and
`src/execution` (C++20: the order control plane, with a Python operator CLI). This directory models
the parts of each in which order, failure and concurrency decide whether the program is right. Paths
without a directory are in `src/execution/src`; `data/...` is in `src/data/src/shaurya`, `research/...`
and `cli/...` in `src/research/src/shaurya`, `portable_ops.py` in `src/execution/ops/libexec`.

## 1. Inventory

### 1.1 Components and what makes them correct

| Component | State | Operations | Correct when |
|---|---|---|---|
| Order state machine (`order_state_machine.cpp`) | `OrderAggregate`: quantities, cumulative fill, state, pending mutation, applied update ids | `apply_order_update()` for 14 kinds of evidence | every fill reaches the position once; terminal states are final; an unknown outcome is resolved only by reconciliation |
| Ledger replay (`ledger_replay.cpp`) | `ReconstructedState`: intents, orders, positions, reconciliation and stop flags | `replay_record()` per event type | every ledger the session writes can be replayed, and replay agrees with what the session believed |
| Execution session (`execution_session.cpp`) | authority flags, generation, idempotency store, order aggregates, its view of the broker | `preflight`, `activate`, `observe_market`, `prepare_intent`, `submit_prepared`, `drain_broker_updates`, `kill_switch`, `reconcile_after_strategy_reconnect`, `stop` | one attempt per intent; every attempt on record before it happens; no attempt without authority at that moment; every stop on record |
| Executor (`executor.cpp`, `DefaultExecutor`) | safety reason, bounded stages, `event_sequence_` | accept and process intents, market work, submissions; collect events; recover the paper broker; reconnect; shutdown | one owner of the state; the first stop reason wins; a restart fails closed |
| Executor server (`executor.cpp`, `ExecutorServer::run`) | two reader workers, delivery and acknowledgement cursors, the failed-delivery flag | the loop, `reconnect`, acknowledgements, final delivery | no event overtakes another; a stop is called factual only when the strategy has everything; a stop request ends |
| Idempotency store (`idempotency_store.cpp`) | fingerprint per intent id, conflict flag | `check`, `record_durable`, `record_conflict_durable` | exact repeats are recognised; a conflict blocks |
| Paper broker (`paper_broker.cpp`) | orders, fills, health, positions | `place`, `modify`, `cancel`, `observe`, snapshots | never fills more than the quantity, never revives a terminal order |
| Reconciler (`reconciliation.cpp`) | none (pure) | `compare` | exact agreement or a named difference |
| Risk engine (`risk.cpp`) | rate window (held by the session) | `evaluate` | what the limits bound stays bounded although every order is approved on another snapshot; no overflow approves |
| Execution ledger (`execution_ledger.cpp`), repair (`ledger_repair.cpp`) | hash-chained lines in one file, file identity | `append`, `verify`, `repair` | what was acknowledged survives a crash; a torn tail is never mistaken for a record |
| IPC (`ipc_protocol.cpp`, `ipc_transport.cpp`, `peer_identity.cpp`) | sockets, roles, nonces, peer identity | handshake, frames, deadlines | one peer per role; a frame is whole or the connection ends |
| Contracts, canonical JSON, instrument resolver | immutable | parse, serialize, resolve | total and deterministic |
| Release installer (`portable_ops.py`) | pointers, index, manifest, two journals, release trees | install, rollback, uninstall, recovery | the command always runs a whole release; an interruption is made good |
| Kotak adapter, parity harness, attestation, remote protocol | launch-time only | refuse live use, replay fixtures, attest | live mutation is impossible in this build |
| Live row stream (`data/live_stream.py`) | latest rows, pending rows per client, watermarks | publish, handle a client, close, poll | a consumer holds the market of one moment; the last rows always come |
| Capture session, writer, follower (`data/access.py`, `data/parquet.py`) | open buffer, closed segments, handle | write, rotate, publish, close, poll | a completed dataset is whole and final; a follower reads all of it once |
| Catalogue and claims (`data/catalog.py`) | append-only handles, claim files, acquisition lock | create, claim, probe, orphan, release | overlapping requests share one capture; a dead one is found |
| Market data acquisition and values (`data/*`, `data_cli`) | connection, parsers | fetch, parse, classify, price | rows are canonical; gaps are flagged |
| Evidence ledger (`research/ledger.py`) | one file, the journal of a pending append | `append_many`, `read`, recovery | appends are atomic and idempotent; what was read stays |
| Daily research workflow (`research/executor.py`, `cli/research.py`, `research/state.py`) | ledger, report files, immutable states, workflow lock | `daily`, `mine-alpha`, accounting for failures | every session is published once, whole and in order, whatever was interrupted |
| Research framework, signals, surfaces, analytics | frozen inputs | plan, fit, evaluate, render | a hypothesis is fixed before its evidence |

### 1.2 How they interact

The strategy and the market publisher each hold one socket. `ExecutorServer::run` is the single
owner of the execution state. It starts one reader per socket only when every stage is empty, waits
for both results, and then moves one item per iteration through the stages
market / strategy intent → risk work → broker submission → outbound event. The executor calls the
session; the session appends to the ledger *before* and *after* it calls the broker adapter, and a
ledger worker has to acknowledge each boundary. Fills come back through a broker-update channel
reserved before the broker sees an observation. Records of the ledger are collected by sequence
(`collect_events_after`), pushed to the outbound stage and written to the strategy, which
acknowledges by sequence. After a crash the next process verifies and replays the ledger, rebuilds
the paper broker from it and reconciles before it serves.

A capture writes every accepted row into its segment writer and offers it to the live row stream;
closed segments are published through its handle in the catalogue, where followers in other processes
find them. Before it opens a connection it takes the acquisition lock, looks for an active dataset that
covers the request, and claims the request. Research reads completed datasets. `daily` runs one session
after another: it appends evidence to the ledger in a fixed order, writes a report, snapshots the ledger
and publishes an immutable state, which the next session starts from. The three projects meet only
through files and one local socket.

### 1.3 What is hard here

* a crash between a record and the broker call it announces, or between the call and its answer;
* authority that is revoked while a prepared capability waits in the submission stage;
* evidence repeated, late, out of order or contradictory; a modify that changes the quantity under a fill;
* one record that nobody collects, after which the sequence of every later record is in doubt;
* a write to the strategy that fails half-way, a replay after the reconnect, old acknowledgements;
* a loop in which suspended work suspends the readers, and only a reader notices a lost connection;
* a shutdown that succeeds for some orders and not for others, under an absolute deadline;
* limits checked on one snapshot and relied upon after fills, modifies and restarts; machine integers;
* awaits between registration, snapshot and first rows; a timeout that races with a row; a close that
  waits for peers;
* processes that find each other only through lock files, claims and pids, any of which may be stale;
* a journal, a partial write, a sync and an unlink, with a death or a power loss between any two;
* a retry that meets the files and events of the attempt before it, or of another process.

`PROJECT.json` lists each of them at its line under `hazards`, with the properties that would
catch it, or a note that says what the code does where it goes wrong (section 5).

## 2. Modules

| Module | Models | Extends |
|---|---|---|
| `OrderLifecycle` | `apply_order_update()` as the pure operator `ApplyOrderUpdate`, one operator per kind of evidence | – |
| `OrderStateMachine` | one aggregate and its position under all evidence in all orders | `OrderLifecycle` |
| `OrderStateMachineProofs` | inductive invariant and theorems | `OrderStateMachine`, TLAPS |
| `LedgerReplay` | `replay_record()` as `ReplayRecord`; `Replay` folds it over records | `OrderLifecycle` |
| `ExecutionSession` | session, executor's safety reason and submission stage, paper broker, durable ledger, crash, restart, repair, stop | `LedgerReplay` |
| `ExecutionSessionProofs` | lemmas about replay and every handler, inductive invariant, theorems | `ExecutionSession`, TLAPS |
| `SessionReplayProofs` | what replay and every handler make of orders, second half of the invariant, theorems | `ExecutionSessionProofs` |
| `RiskEngine` | the numeric rules of `evaluate()` over the session's snapshot and the paper broker | – |
| `RiskEngineProofs` | inductive invariant and theorems | `RiskEngine`, TLAPS |
| `ExecutorServer` | the server loop, its readers, stages, cursors and delivery | – |
| `ExecutorServerProofs` | inductive invariant and theorems | `ExecutorServer`, TLAPS |
| `LatestValueFeed` | abstract: what the row stream promises its consumers | – |
| `LiveRowStream` | publisher, handlers, close and subscribers; refines `LatestValueFeed` | – |
| `DatasetAcquisition` | the acquisition lock, claims, handles and their owners | – |
| `PublishedDataset` | abstract: what a catalogued dataset promises its readers | – |
| `SegmentedCapture` | writer, capture session, catalogue handle, follower; refines `PublishedDataset` | – |
| `MarketDataProofs` | inductive invariants, theorems and two refinements of the modules above | `LiveRowStream`, `DatasetAcquisition`, `SegmentedCapture`, TLAPS |
| `AppendLog` | abstract: atomic, idempotent appends of batches | – |
| `EvidenceLedger` | file, journal and recovery of the ledger; refines `AppendLog` | – |
| `SessionChronicle` | abstract: whole sessions published in order | – |
| `DailyResearch` | `daily`, `mine-alpha`, states and reports over an `AppendLog`; refines `SessionChronicle` | – |
| `ResearchProofs` | inductive invariants and theorems of the ledger and of the workflow, the ledger's refinement | `EvidenceLedger`, `DailyResearch`, TLAPS |
| `ReleaseSwitch` | abstract: the command switches between whole releases | – |
| `ReleaseInstall` | install, rollback, uninstall and recovery; refines `ReleaseSwitch` | – |
| `ReleaseInstallProofs` | inductive invariant, theorems, the refinement | `ReleaseInstall`, TLAPS |
| `MC*` | constants for TLC, where a `.cfg` cannot state them | the module they check |

Operators called *Variant* in a module are plausible bugs of the code beside them. No specification
uses them: each is what its neighbour could have been, and the `mutants` of `PROJECT.json` show that
TLC refutes the named property when it takes its neighbour's place.

### 2.1 OrderLifecycle, OrderStateMachine

Aggregate fields keep the source's meaning: `original`, `effective`, `cumulative`, `state`,
`pending`, `pendingQuantity/Price`, `cancelWasRequested`, `brokerOrderId`, `applied` (pairs of
update id and fingerprint). A result has the new aggregate, the signed position delta and whether
the update was applied, repeated or refused, and whether a refusal is an incident. Evidence comes
from the set a caller can build (`Updates`): a field is present only where its kind reads it. The 64-bit overflow test of the delta is left out, quantities
being far from it.

### 2.2 LedgerReplay

One instrument and one route, so route tokens cannot conflict and one number is the position. A
`LedgerError` is the absorbing flag `faulty`: `replay_ledger()` throws and hands out nothing. Payload
parsing and the fold's per-type payload checks are left out; the order of checks, the dispositions
of an intent and the clearing of reconciliation facts are kept.

### 2.3 ExecutionSession

`durable` is what replay makes of the records on disk; `torn` says an incomplete line follows. Each
handler is an operator that returns an *outcome*: its records in order, the memory, slot and broker
it leaves, and between which records the broker is called. `Finish` takes all of it. `CrashDuring`
stops after any prefix of the records, with a torn line or without, and with the broker called or not
where the prefix ends at the call. An append that fails is such a crash: the writer closes, every
later append throws, and the executor ends at its next verification. The broker dies with the process
(the paper broker is in-process) and `Launch` rebuilds it with `recover_paper_state()`.

| Action | Code |
|---|---|
| `Launch`, `LaunchRefused`, `LaunchFailed` | `serve()`, replay, `recover_paper_state()`, `preflight()` |
| `Prepare(i, c)` | `process_next_risk_work()`, `prepare_intent()`, idempotency, risk, attempt record, push to the stage |
| `Submit` | `process_next_broker_submission()`, `submit_prepared()` |
| `Observe` | `process_next_market()`, `observe_market()`, `activate()`, `drain_broker_updates()` |
| `Fault` | `check_market_freshness()` and unusable books: `stop_once()` |
| `Disconnect`, `Reconnect` | `record_peer_disconnect()`, `restore_strategy_authority_after_reconnect()` |
| `ShutdownBegin`, `StopBegin`, `CancelOnStop`, `StopEnd`, `ShutdownTimeout` | `shutdown()`, `stop()` |
| `LoseHealth` | the adapter's health as the session sees it |
| `Repair` | `ledger_repair.cpp`: verified prefix and its incident record |

`mem.behind` is the executor's `event_sequence_` lagging behind the ledger: the next handler whose
records are collected throws, and the server unwinds into `shutdown()`. What the model chooses freely:
whether the numeric risk limits hold (`within`), whether an instrument maps (`mapped`), whether the
outbound stage overflows, which working orders a book crosses and in which order their fills arrive,
whether the ledger worker acknowledges. Quantities are small, the side is Buy, and intent contents are
model values: only their equality matters. An order that was placed is named after its intent. A
handler is atomic except for crashes, because one thread owns the session. The id of a shutdown cancel is a
hash of session and order; `ShutdownAssumption` says that no strategy chooses it.

The numeric limits are the subject of `RiskEngine`; here their answer is the free choice `within`.

### 2.4 ExecutorServer

The ledger is its length `log`; a session handler is the number of records it appends and the reason
it leaves. `collected`, `delivered`, `acked` are the three cursors of the code, `outbound` the outbound
stage, `got` what the strategy really has. `Unwind` is an exception leaving `run()`: its guard calls
`shutdown()` and nothing is delivered any more. The strategy is an environment: it acknowledges, or
presents as its cursor, only what it holds without a gap (`Held`), possibly something old; it may close
its end at any moment, and what it wrote before can still be read. What was written to it and not yet
read is lost when the connection ends. `accept_authenticated()` is one step inside `Reconnect`, and a
reader's "timeout" covers its idle poll and its I/O deadline. A blocked intent that writes nothing is a
stutter of this module.

### 2.5 RiskEngine

One instrument with lot and tick 1. The signed and unsigned 64-bit integers shrink to `MaxInt` and
`MaxUint`; `InInt`, `InUint`, `Saturated` and `Wrapped` are the code's overflow helpers, and every sum is
tested where the code tests it and saturates where the code saturates (the held premium, the requirement of
`sell_availability`). `Prepare` is `evaluate()` and the durable attempt (the clock may have moved
since the snapshot), `Submit` the broker call, `Observe` a crossing book under the d51 model, `ScriptedFill`
a partial fill of the scripted one, `Restart` the rebuilt broker and rate window. Fills of several orders
happen in the order of their ids, and a position that does not fit loses the broker's health. Rules that
compare an input with a constant (Greeks, P&L, tick and lot alignment) hold. `recent`, the rate window, is the
set of the attempts whose times the deque holds.

### 2.6 LiveRowStream, LatestValueFeed

The publisher runs on one event loop, so an action is the code between two awaits. A row is its position in
the log. `wire` is what was written to a connection and not read; `MaxBuffered` messages fit into the
transport before `drain()` blocks. `waits` tells the Python versions apart in which `Server.wait_closed()`
waits for open connections. The `from` and `upto` of a message, `sent` and `cut` are history: they say which
part of the log its rows cover. The promise, `LatestValueFeed`, is that a consumer goes from one moment of
the log to a later one; the refinement maps its view to `seen`.

### 2.7 DatasetAcquisition

A process asks for a wide request or for a narrow one that a wide dataset satisfies. `Create(p)` is
`DataCaptureSession.create` under the acquisition lock, one step per access to the catalogue; `End(p)` is
the close, outside the lock. A claim is created empty and then written (`"torn"` in between). A dead owner's
pid may be given to another program (`Reuse`), at any time. A registration that raises after its rename
leaves an active handle of which nobody knows: `RegistrationFails`.

### 2.8 SegmentedCapture, PublishedDataset

A row is its receive sequence, a segment the sequence of its rows. `WriteRow` is a `write()` to a young
buffer, `WriteLateRow` one to a buffer of `max_duration`, which is rotated with the row still in hand and, where that
row alone fills a segment, once more. Every rotation (`"early"`, `"due"`, `"close"`), every append to the catalogue and every read of the follower may
fail, before or after its rename; `CloseRaised` is the caller, who may close once more. The catalogue's
handle refines `PublishedDataset`: gapless rows that only grow, a last word, and for a failed dataset the
second close.

### 2.9 EvidenceLedger, AppendLog

The file and the directory entry of the journal exist twice, as the page cache has them and as the storage
has. A record is two halves of a line, so that a write stops inside one. `Crash` frees the lock and keeps the
cache; `PowerLoss` leaves anything between the durable and the cached version; with `PowerFailsAnytime = FALSE` it does not come
while the cache holds a suffix that a recovery accepted without syncing it (section 5). `Committed` is the log that
file and journal stand for, and refines `AppendLog`, of which `DailyResearch` uses `Additions`. A batch may repeat an event; it is added once.

### 2.10 DailyResearch, SessionChronicle

An event is its kind, its session and the content that can differ between two attempts. A worker is one
process; `lock` is the workflow lock that only `execute_daily` takes: `Start`, the warm-up, the accounting of
a failure and `mine-alpha` run outside. `Record`'s appends, the report and the snapshot are one step each, and a process
may die, or a call fail, before any of them. `FailuresUpTo` is what makes two attempts differ: an accounted failure changes the report
and the state. Three kinds of events recorded outside the lock can block a session for good; `Intrudes` names them:

* an event out of session: of a mining that failed or came after the first session's state, of a failure of another
  session, or any event before a warm-up session (that of its own earlier attempt included);
* a failure accounted for after the session's history was read, if its report was written and does not count it;
* an event between the materialization of the ledger and the snapshot event.

No constant excludes any of them. The chronicle is what each state's span of the ledger holds.

### 2.11 ReleaseInstall, ReleaseSwitch

One action per change of the prefix. `End` returns to idle, also after an exception. A removal of a tree
takes two steps, between which it is partial. `refused` records an operation that raised although the
operator did nothing wrong; `unsafe` a power failure at one of the points named in `Unrecoverable`, or an
uninstall that leaves a fallback pointer. The refinement maps to the release that `bin/kotak` executes and
the ones a rollback can choose.

## 3. Runs

Every run checks one configuration of constants with TLC.

| Run | Instance | Shows |
|---|---|---|
| `order_state_machine` | quantities up to 3, one price, update id and broker id | exact position, Filled iff complete; terminal is final, ambiguity gate |
| `session` | places p1 and p2, a modify and a cancel of p1, one crash, one disconnect, one loss of health | `StopsAreSettled` (stops on record, reconciliation kept, a reconciled stop is settled), single attempts, attempts on record, agreement of memory, ledger and broker while ready, authority at the attempt, hard stops outlast reconnects, restarts fail closed |
| `session_conflict` | p1 and its modify, two contents for every id, one disconnect, `FairSpec` | a conflict blocks places and modifies for good; a shutdown that began ends |
| `server` | outbound capacity 1, ledger bound 4, up to 2 records per handler, one reconnect, `FairSpec` | no silent gap, authority means collected, a factual stop is complete; a stop request ends the server |
| `risk_engine` | three orders of 2, 3 or 4 at 1 or 2 on 3-bit integers, premium limit 7 (the largest value), two per window of 2, three instants | `LimitsHold` (working premium and order count bounded), never short by more than what the saturated sell requirement hides, attempts per window bounded, what is approved is exact except for that one sell |
| `flat_account` | three orders of 1 | violated: a flat account trades (section 5) |
| `live_stream` | one client, three instruments of which two fit, three rows, `FairSpec` | `poll()` never fails, what a consumer holds goes from one moment to a later one (refinement), it catches up, close ends |
| `dataset_acquisition` | three processes, two of which want the wide request, one failing registration, one reused pid, `FairSpec` | dead captures are found, no duplicate; requests are served |
| `segmented_capture` | segments of 2 rows, 5 rows, two failing calls, `FairCapture` | `CaptureIsSound` (completed is whole, the follower misses nothing, a close is recorded), refinement; a capture is followed to its end |
| `evidence_ledger` | four events, two of one id, three overlapping batches, two deaths at any point, two power losses except while an accepted suffix is unsynced (`PowerFailsAnytime = FALSE`) | `LedgerIsSound` (readable, acknowledged and observed evidence is kept), refinement |
| `daily_research` | two workers, three sessions, up to one warm-up, session 3 fails, one reason of failures, two deaths, failing calls or minings at any point, `FairResearch` | `PublicationIsSound` (one consistent publication), a session is blocked if and only if an event outside the lock intruded, refinement; sessions are completed unless one did |
| `release_install` | two versions, five operations, three power failures | `PrefixIsSound` (what is installed is whole), interruptions recover, refinement |

An invariant named above is a conjunction of named parts, the module's type invariant among them: TLC
checks all parts in one pass, and to see which one a change breaks, name the parts in the `.cfg`. The type
invariants of `OrderStateMachine`, `ExecutorServer`, `LiveRowStream` and `DatasetAcquisition`, and those of
their invariants that only serve the theorems (section 4), are in no run.

**Bounds and why they are enough.** Two places are needed because a fill of one order during the
attempt of another is where view and ledger can part, and because shutdown may succeed for one order
and not for the other; a modify and a cancel of the same order meet in every order. The modify raises
the quantity from 1 to 2, so that a fill before and after it differ. One crash at any record of any
handler, including the first records of a restarted process, reaches two process lifetimes (a stop
gives further ones: restarts are unbounded). `session_conflict` has no crash: the ledger of a conflict
cannot be replayed (section 5), so nothing would follow. With an outbound capacity of 1 the stage is
full after any unacknowledged event, which is the interesting case; `MaxRecords` bounds only when a
handler may still begin a batch. The quantities 0..3 let a modify go below, to and above a partial fill.
In `risk_engine` quantities of 4 exceed `MaxInt`, two orders of 3 exceed every limit, a third order
exists to exceed the number outstanding, and a premium limit of `MaxUint` lets a sell requirement overflow: position 3
with sells of 2 and 2 is reached. Three instruments against a bound of two make publisher and
client refuse; a second client adds no interaction (handlers share only the log) and is covered by the
proofs, as larger instances of the order, server, stream, acquisition and capture modules are. Two rows per segment and five
rows give three segments with a failure in the middle. Two failures are what a failing close and the
failing publication of that failure take; two deaths, what a retry that dies again takes. In `daily_research` two
interruptions reach every kind of intrusion, also two at once, and one reason for the failures of a session is enough for
each of them; the theorems cover more. A third power
failure in `release_install` interrupts the recovery of a recovery.

**Deadlock** is checked where the system always has a next step or its end is an action of its own
(`Ended`, `Stopped`, `Done`). `MCExecutorServer.cfg`, `MCLiveRowStream.cfg`, `MCRiskEngine.cfg` and
`MCFlatAccount.cfg` say `CHECK_DEADLOCK FALSE`: `run()` ends, the stream ends when it is closed, and the
clock and the orders of the risk instances run out.

**Fairness.** In the session: weak fairness of the drain of the submission stage during shutdown, of
`StopBegin`, of each `CancelOnStop` and of `StopEnd`, since `shutdown()` is one call that runs these to
the end and every wait in it has a deadline. Nothing is assumed while the session serves. In the
server: the loop iterates (`Process`, `StartReaders`, `Consume`), a reader ends by its I/O deadline, a
book that is queued becomes stale (`FaultyMarket`), the reconnect window ends (`AwaitEnds`), and the
absolute shutdown deadline passes (`FinalShutdown`, `FinalSend`, `FinalEnd`). Neither a peer nor the
operator is assumed to do anything. In the row stream: the event loop runs ready coroutines and fires timers;
`SendRows` is strongly fair, because a heartbeat can win the race with an offered row once but asyncio
does not repeat it for ever; a subscriber that has not left polls. In the capture: the process goes on,
its duration ends (`Close`), the follower polls again. In the acquisition: a process goes on, a capture
ends, the command is started again. In the research workflow: the scheduler runs `daily` again, a running
process goes on, and `flock` serves a waiting process some time when it is freed again and again (strong
fairness of `TakeLock`). Deaths, failing calls and minings are bounded and never fair.

## 4. Proofs

TLAPS checks `OrderStateMachineProofs`, `ExecutionSessionProofs`, `SessionReplayProofs`, `ExecutorServerProofs`,
`RiskEngineProofs`, `MarketDataProofs`, `ResearchProofs` and `ReleaseInstallProofs` to the last leaf. Loops over
records, fills or orders are functions on an initial segment of the naturals; `NatSetInduction` (an instance of the least-element principle `WFMin`) proves what they keep, step by step.

**Order state machine.** Assumptions: `NoIdAssumption` (the absent id is no id), `MaxQuantityAssumption`
(positive), `PricesAssumption` (positive prices). Theorems: `TypeCorrect`, `PositionExact`,
`FilledIsComplete`, `PendingIsLive`, `UpdateIdsAreBound` (invariants) and `TerminalStays`,
`FillsAreMonotonic`, `AmbiguousStaysGated` (action properties). `FilledExactlyWhenComplete` is not
inductive alone: `ModifyAccepted` tests no state, so that a filled order with a modify in flight could
leave `Filled`. The inductive invariant is the conjunction of the types, the position, `LifecycleInv`
(positive quantities, filled iff complete, a pending mutation only on a live order and with terms) and
`OneContentPerUpdateId`. The argument is about one call: `Sound(o, u, r)` bounds what the result `r` of
evidence `u` on order `o` may be; there is one lemma per kind of evidence, `ApplyOrderUpdateSound`
collects them, and every theorem is read off it.

**Execution session.** Assumptions: `IntentsAssumption` (places, modifies and cancels are different intents),
`TargetAssumption`, `TermsAssumption` (positive quantities and prices), `ShutdownAssumption`. Theorems:
`NeverAttemptedTwice`, `LedgerKnowsEveryAttempt`, `EverySafetyStopIsOnRecord`, `ReplayKeepsReconciliation`
(invariants) and `EveryAttemptIsAuthorized`, `ConflictIsForever`, `HardStopOutlastsReconnects` (action
properties), for any set of intents, any number of crashes and any interleaving. `AtMostOneAttempt` rests on
the ledger: a restarted session knows which intents it has seen only from replay. So the inductive invariant
`IInv` (theorem `SessionIsSound`) relates three places:

* `Session`: a session that stopped is not ready (`GoodMem`); a staged capability that is no longer current, or a
  staged place or modify of a session that is no longer ready, waits beside a reason for it, and none is staged
  once the session is blocked (`GoodSlot`);
* `Recorded`: the ledger knows every stop the process relies on (`Marked`: a safety stop in memory, or a record
  nobody collected), and keeps what still needs a reconciliation;
* `Once` and `ShutdownOnce`: an intent that is staged was not called, one that was called was called once, and of
  either the ledger has the decision and the request (`OnRecord`) and the process has it as received, so that it can
  never be fresh again, in this process or a later one;
* `BrokerOnRecord`: an order the broker holds is in the ledger, or the ledger is faulty.

The proof is about outcomes first. `ReplayIsSound` says what any sequence of records does to a ledger: flags stay,
decisions and requests stay, a safety stop marks it. For each handler a lemma shows that its outcome is
`Sound`: which records it appends for which intent, what it stages, when it calls the broker. Then
`FinishKeeps`, `CrashKeeps`, `RunKeeps` and `RunCollectedKeeps` show, once for all handlers, that taking a sound
outcome whole, after any prefix of its records, or with records nobody collected, keeps `IInv`.

`SessionReplayProofs` adds what the session's data is, with the theorems `SessionIsTyped` and `RestartsFailClosed`.
Its invariant `Backed` (theorem `SessionIsBacked`, on top of `IInv`):

* `GoodLedger`: unless replay refuses it, the ledger replays to good aggregates (`GoodOrder`: fills fit the state and
  the effective quantity, a mutation waits only on a live order) of places;
* `Restartable`: a ledger that is not refused, without a stop and without a required reconciliation, has an answer for
  every order that was acknowledged, and no order whose outcome is unknown;
* `Carries`: a place that was attempted is on record with its order, so that a later process finds it;
* `Shape`: the same of memory, with the view, the stage and the broker naming only orders of the session.

One lemma per kind of evidence says what `apply_order_update()` makes of a good order, `RecordKeepsLedger` what one
more record makes of the ledger, `ReplayKeepsLedger` what a batch does, after any prefix of it; a batch may complete a
reconciliation only as `Completes` says. For each handler a lemma shows that it writes such records (`TypedRecords`)
and leaves such data (`Shape`), whatever the broker answers. `RestartsFailClosed` follows: `recover_paper_state()`
refuses a ledger with an unanswered submission, and `Restartable` says that it then has none.

`SessionAgrees` (`ReadyMeansAgreement`) needs a third invariant, `Believes`: while the server runs, either the session is
closed for good (a reason other than the strategy), or a safety stop stands beside a broker that is not healthy, so that
no reconnect restores authority, or `Agrees` holds. `Agrees` has three parts. `Same`: memory holds the orders, the intents
and the last update of the ledger (`Matches`), or replay refuses the ledger and the session is blocked. `Seen`: the view of the
session is what the broker holds, namely the snapshots of all its orders but those whose submission is on its way.
`Staged`: the order of a staged attempt waits for just that answer (`Awaits`), so that the broker's acknowledgement cannot
be refused. One lemma per answer (`PlaceAnswer`, `ModifyAnswer`, `CancelAnswer`, `FillAnswer`) shows that order, view and
broker move alike; `LedgerTakes` that the ledger follows; `NeverOverruns` that an observation never brings more fills than
there are working orders; `DrainAgrees` that all its fills are applied.

`StopsStaySettled` (`StopsAreSettled`) needs a fourth, `Settles`, because a session that is closed for good need not agree
any more and is stopped all the same. What remains of the agreement is enough for `ReconciledStopIsSettled`: an order that works
on record works at the broker with the same quantity (`Tracked`), or the comparison that ends the stop cannot agree, since the
ledger is refused, the broker is not healthy, or the view misses an order, its end or its terms (`Accounted`, `Missed`). `Reflects`
says that the view shows no end the broker does not know of, so that what the view misses is met when the two are compared;
`Unrevoked` that a capability is current only while nothing has stopped the session. While the server runs every handler keeps
the three (`Accounts`). At the stop `StopAccounts` takes over: while the report may still become `reconciled`, what works
on record is on the list of orders left to cancel, and each cancellation takes one off both (`StopBeginSettles`,
`CancelOnStopSettles`, `StopEndSettles`).

**Risk engine.** Assumption: `LimitsAssumption` (positive limits, quantities and prices; the position limit
fits into the signed integers, whose largest value is half that of the unsigned). Theorems: `LimitsAlwaysHold`, `AccountIsNeverShort`,
`RateIsAlwaysBounded`, `ApprovalsAreExact`, for any number of orders, any limits and widths. What `evaluate()`
tested is a snapshot, and fills, modifies and a mark that moves come between the test and the broker call. The
inductive invariant is `Types`, `Exposure`, `Remembered` and `RateIsBounded`: `Exposure` says that the limits
hold both for the orders as they are and for the orders as they will be once the prepared intent is submitted
(`Within(SubmittedTo(order, i), position)`). A fill moves premium from the working orders to the position and
selling reduces both what may be sold and what is held, in either picture. `Remembered` says that pruning the
rate window kept every attempt of the last window. `sell_availability` saturates its requirement, so it alone does not
bound what is sold. The premium does: a sell approved with a saturated requirement needs a position of `MaxInt`, whose premium
and that of the sells then add up to at least `2 * MaxInt + 1`, the largest unsigned number, so that the overflow is of one unit and
the premium limit is that number (`SaturationSlack`, `SaturatedSell`). Every other sell has its inventory.

**Server.** Assumptions: `CapacityAssumption` (the outbound stage holds at least one event) and
`ServerBoundsAssumption`. Theorems: `ServerTypes`, `StagesNeverOverflow`, `CursorsStayInOrder`,
`DeliveryHasNoGap`, `AuthorityIsCollected`, `FactualStops`. The inductive invariant adds three parts.
`DeliveryInv`: if nothing was dropped, what the strategy has is contiguous; without a failed write it
is exactly `1..delivered`, and in the loop at least what was collected; this is what makes the next
event safe to send. `ConnectionInv`: a failed write has shut the connection. `EndInv`: after
`shutdown()` authority is revoked, and success is claimed only there. The invariant splits into the part
about stages and readers (`StageInv`) and the part about records, cursors and delivery (`FlowInv`), with
one lemma per action for each. A by-product: while authority stands everything is collected, so the
gap test that follows a lost strategy (`StrategyLost`) never fails when the disconnect is what writes
the stop.

**Row stream.** Assumption: `LiveStreamAssumption` (finitely many instruments, bounds are naturals).
Theorems: `Typed`, `ConsumersSeeMoments`, `PollNeverFails`, `OfferNeverDrops`, `NoWakeupIsLost`,
`PendingCompletesTheLog`, and the refinement `StreamIsAFeed`. A consumer's view depends on every message on
its wire, so the inductive invariant has `WireOK`: the messages form a chain, each covering the log from
where the one before it ended, from the consumer's `cut` to the handler's `sent`, with watermarks that do not
go back; `PendingOK` says the pending rows are the delta from there to the end of the log. Deltas compose
(`DeltasCompose`), a new row extends one (`DeltaExtends`); publishing extends the end of the chain, sending
moves the pending rows onto it, reading takes its first link. `NothingIsDropped` needs `LatestOK`: what is
pending is among the latest rows, and those are within the bound that `publish()` checks first.

**Acquisition.** Assumption: `ProcessesAssumption` (no process is called `"none"` or `"torn"`; bounds).
Theorems: `AcquisitionTyped`, `ClaimsAreKept`, `DeadCapturesAreFound` and the action property `CapturesAreShared`.
The argument: whoever is inside `create()` is alone there, so that what it has found stays true until it
registers. `InCreate` says what it has found at each step: no running capture that satisfies it, an owner of
the claim that is past its registration and, once probed, dead; `ClaimsAreTaken` and `DatasetsAreTheirs`
relate claims, handles and steps of the others.

**Capture.** Assumption: `CaptureAssumption` (a segment holds at least one row, which the writer's constructor
enforces, `data/parquet.py:445`; bounds are naturals). Theorems: `CaptureStaysSound` and the refinement
`CaptureImplementsDataset`, for segments of every size and any number of rows and failing calls. `CaptureInv` adds to
the promised parts: what `write()` took is the rows of the segments followed by the buffer, each segment is a run of
consecutive sequences, and the *published* segments follow each other (`RowsAreKept`; the writer's own need not, after a
row was lost); once a close has rotated the buffer is empty, and behind a `completed` or `invalidated` status nothing moves any
more, however often `close()` is called again (`EndIsFlushed`); no row the follower returned is beyond the last segment it
counted (`FollowerIsBehind`), which is why nothing comes twice even after a `poll()` that raised. Below it are lemmas on
`FlattenSeq`: its steps (`FlattenAppend`), its cut at a follower's position (`FlattenSlices`), and that segments which follow each
other flatten to one run (`ChainFlattens`); the refinement is `RowsGrowWithSegments` on top of these.

**Evidence ledger.** Assumptions: `BatchesAssumption` (a batch is a non-empty sequence of events that does
not contradict itself), bounds.
Theorems `LedgerStaysSound` (readable, whole batches, what was acknowledged or observed is kept) and
`LedgerImplementsAppendLog`, both under the hypothesis `~PowerFailsAnytime`: power is not lost
while bytes from before the pending append are still unsynced. Without it both are false (section 5). The invariant names the log
`B` that the files hold and the additions `A` that a journal announces: the file is a prefix of `B \o A` that
contains `B`, the storage a prefix that is complete only if the file is (`Holds`), a journal only on storage is left
over from an append that was undone or is complete (`Durable`), and `Reached` says what the holder of the lock
has established at each step. A crash or a power loss then changes only how much of `A` the file has, and
recovery completes or undoes it: the committed log is `B` or `B \o A`, which the refinement reads off.

**Daily workflow.** Assumption: `ResearchAssumption` (no worker is called `"nobody"`; bounds and reasons are naturals).
Theorems `PublicationStaysSound` and `IntrusionsBlockRetries`, for any number of workers, sessions, warm-ups, minings, deaths and
failed calls anywhere, without a further hypothesis. Neither is inductive: whether an attempt finds what it wrote depends on what
every earlier attempt left. `ResearchInv` has two halves. The files (`FilesOK`): what each published session has, in which order a
session's events stand, which failures its report counts, which events recorded in the lock can follow the last state (only the next session's).
The workers (`WorkerOK`): who is inside is the holder of the lock, and each stage implies the events behind it. An attempt
that meets the events of an earlier one adds nothing; if it adds one, it is the next session's, and only events of
`UnlockedKinds` can have come in between. The equivalence `OnlyIntrusionsBlockRetries` is read off the files: a tail is refused by an event out of
session, which `FilesOK` shows to be unlocked; a report by a failure it does not count, which came after the history was read; a snapshot by an
event between what it holds and its event.

**Release installer.** Assumption: `ReleasesAssumption` (no version is the absent one; bounds). Theorems:
`InterruptionsAreRecovered`, `PrefixStaysSound` and the refinement `CommandIsSwitched`, for any versions and any
number of operations and crashes. Neither invariant says anything of a prefix in the middle of an operation, so
the inductive one is mostly about that. It distinguishes what is on disk: nothing pending (`Settled`: pointers, index,
record, launcher and trees agree), a journal (`Journaled`: what it would restore agrees, and every tree but the new
release's is as it says), or a removal (`Uninstalling`: each pointer and record is either moved or still as the
removal has it; after its commit, all are gone). On top of it `Restored`, `Switched` and `Prepared` say which steps the running
process has behind it, in the order of the code; a crash only forgets these. `Recoverable` is the theorem's core:
unless power failed at one of the points of `Unrecoverable`, a partial tree exists only while the step that removes
or fills it runs, and the fallback is the journal's. For the refinement, `Shown` reads what the command runs off the
journal, the removal or the settled pointers; only `Commit` and `OpenRemoval` change it.

**Proved, and in no run.** `TypeOK` of the order, server and stream modules, `AcquisitionTypeOK`, `PendingOnlyOnLiveOrders`, `OneContentPerUpdateId` and
`FillsOnlyGrow`; `StagesHoldOneItem` and `CursorsInOrder`; `SeenIsAMoment`, `NothingIsDropped`, `NoLostWakeup`
and `NothingIsForgotten`; `CaptureOwnsItsClaim`. They hold in the instances of section 3 too: name them in the
`.cfg` to see it.

**Only model-checked.** Liveness (`ShutdownEnds`, `StopEnds`, `CatchesUp`, `CloseEnds`, `CaptureIsFollowed`,
`RequestsAreServed`, `SessionsAreCompleted`): out of the prover's reach. Of `DailyResearch` the refinement
`ImplementsChronicle`: it cuts the ledger at the states and filters each piece with `SelectSeq`, about which the prover has
no facts. Every other invariant and action property of the passing runs is part of a theorem.

## 5. What the runs found

`flat_account` (a `findings` entry): after a round trip the paper broker keeps an entry of zero in
`positions_` (`paper_broker.cpp:336`), `capture_risk_snapshot()` takes a quantity of zero for a malformed
position (`execution_session.cpp:574`), and every later place or modify is refused as
`reconciliation_required`, also after a restart. RISK_RULES.md:8 asks for a session without reconciliation
debt; this one has none, and it never trades again.

Further disagreements between the code and what its documents or tests say are stated as properties in the
modules, where they can be checked: add the property to the configuration named (under INVARIANT where it has no
primes or temporal operators, else under PROPERTY) and TLC prints the behaviour.

| Property, module | Add to | The code does |
|---|---|---|
| `OnlyReconciliationResolves`, `OrderStateMachine` | `MCOrderStateMachine.cfg` | `ModifyAccepted` and `ModifyRejected` test only the pending mutation (`order_state_machine.cpp:172`): a late ordinary answer takes an order out of `reconciliation_required`. ORDER_LIFECYCLE.md:24 allows only reconciliation evidence to. |
| `CleanLedgerReplays`, `ExecutionSession` | `MCExecutionSession.cfg` | `stop()` writes `reconciliation_required` for an unattempted order under an intent no record introduced (`execution_session.cpp:1371`), and replay refuses that ledger. LEDGER_AND_RECOVERY.md:52 says a clean ledger replays. |
| `CleanLedgerReplays`, `ExecutionSession` | `MCSessionConflict.cfg` | A conflicting payload for a decided intent appends a second risk decision, and replay refuses it (`ledger_replay.cpp:62`): the verified ledger never starts a process again. The running session does not notice: a disconnect and a reconnect restore it, and it goes on to cancel on a ledger that no longer replays (`ReadyMeansAgreement` names this exception). |
| `RecoveryFailsClosed`, `ExecutionSession` | `MCExecutionSession.cfg` | `recover_paper_state()` (`executor.cpp:599`) ignores a pending mutation: a ledger that ends in an unanswered modify or cancel request is recovered and served. IPC_AND_EXECUTOR.md:77 says recovery fails closed on incomplete evidence. |
| `ApprovedCancelIsStaged`, `ExecutionSession` | `MCExecutionSession.cfg` | A cancel approved under the kill switch is on record as `cancel_requested` and then dropped before the submission stage (`executor.cpp:1142`); RISK_RULES.md:19 says it stays possible. |
| `DisconnectRevokes`, `ExecutorServer` | `MCExecutorServer.cfg` | After a failed write with an intent staged, the loop neither works nor reads (`executor.cpp:1788`), so the disconnect never revokes authority (IPC_AND_EXECUTOR.md:45). |
| `StaleIntentIsAnswered`, `ExecutorServer` | `MCExecutorServer.cfg` | The stop written by the freshness test is collected by nobody, the records of the intent do not continue the sequence and the server unwinds (`executor.cpp:1311`); `test_executor_queues.cpp:253` expects a refusal. |
| `EveryCloseIsRecorded`, `SegmentedCapture` | `MCSegmentedCapture.cfg` | `write()` notes a row's sequence before the rotation its age makes due (`data/parquet.py:506`). If the rotation raises, the row is gone, the next segment does not follow, and the handle validator (`contracts/data.py:350`) refuses every later publication, that of the failure included: the handle stays active. DAT.md, lifecycle item 4, says a terminal handle is published. |
| `SellsAreHeld`, `RiskEngine` | `MCRiskEngine.cfg` | A sell requirement that overflows is taken for INT64_MAX (`risk.cpp:423`): with a position of INT64_MAX and a premium limit of UINT64_MAX a sell is approved for which one unit of inventory is missing. RISK_RULES.md:14 says "For SELL, require available long inventory in the same canonical instrument after working SELLs." |
| `LedgerReadable` (a part of `LedgerIsSound`), `EvidenceLedger` | `MCEvidenceLedger.cfg` with `PowerFailsAnytime = TRUE` | A recovery that finds a whole suffix unlinks the journal without syncing the ledger (`research/ledger.py:122`). A process death before the sync and a power loss after that recovery leave a torn line no journal explains. The docstring (`ledger.py:100`) takes a whole suffix for a durable one. |
| `NoRetryIsRefused`, `DailyResearch` | `MCDailyResearch.cfg` | Three events recorded without the workflow lock make the next attempt at a session, and every later one, fail. A failure after the report was written changes what the retry's report counts (`research/executor.py:1257`); one recorded between the materialization and the snapshot event makes a snapshot that never verifies (`executor.py:1300`). A death between a warm-up's event and its state (`cli/research.py:858`) leaves a tail that is not the state's. Mining that fails or comes between sessions (`cli/research.py:334`, `:1049`) leaves one that `_tail_is_resumable` refuses (`executor.py:463`). `specs/spec-post-market-research-pipeline.md:99` calls publication idempotent across its injected crash boundaries; these are not among them. TLC prints the shortest of these; a behaviour of another kind is found by naming as the invariant that no event is of that case of `Intrudes`. |
| `NextInstallCompletes`, `ReleaseInstall` | `MCReleaseInstall.cfg` | A power failure between the last two unlinks (`portable_ops.py:1646`) leaves a fallback pointer that every later install refuses; so do one inside the removal of a tree by a recovery (`:1331`) and one before the journal (`:1603`, the staging tree stays and uninstall refuses). `tests/ops/test_portable_release.sh:147` says the next install recovers. |

Properties whose subject is an unreplayable ledger are stated for ledgers that replay (`durable.faulty`
is the exception they name); the exceptions named in `CloseIsRecorded`, `CaptureIsFollowed`,
`InterruptionsRecover`, `NeverShort` (`SaturationSlack`), `ApprovedIsExact` (`SaturatedSell`), `OnlyIntrusionsBlockRetries` and
`SessionsAreCompleted` (`Intrudes`) and `RequestsAreServed` are those of this table and the torn claim of
`data/catalog.py:665`, which stays malformed for ever.

Three more facts a reader of the code may want, each visible in a behaviour of the models: the held position
may exceed `maximum_absolute_instrument_position`, because working orders of both sides are netted before they
fill; `PaperBroker::modify` accepts a quantity equal to what is filled; a follower whose `poll()` raises has
already counted the segments it read before and does not return their rows (`data/access.py:393`).

## 6. What is not modelled, and why

* **Contracts, canonical JSON, payload parsing**: stateless text processing, tested with golden files.
* **Instrument resolver, routing snapshot**: immutable after start; only "mapped or not" matters here.
* **Kotak adapter**: refuses every mutation in this build. **Parity harness, attestation, `main`**: a test
  tool, constants of the build, the process entry.
* **Greeks, P&L, drawdown, tick and lot rules**: they compare an input with a constant of the
  configuration. **Volumes and prices** of fills: a free choice of the orders that fill.
* **Broker updates other than fills**: no adapter of the build produces them in a session; the order
  state machine covers them all.
* **Updates left in the channel after a refused one**: the session is stopped, and they are never applied.
* **A working order that is missing from the session's own view**: the handler's guard cannot fire, the
  view being kept with the orders (`ReadyMeansAgreement`).
* **Execution ledger file, IPC framing and handshake**: an atomic append and an atomic frame.
* **Dhan client, stream parsing, option chains, historical data, data CLI**: requests to a broker and
  parsing of its answers. The reconnect is an input of `SegmentedCapture`.
* **Tape files, legacy adoption, filtered reads, quality and pricing**: sequential, one process.
* **Research framework, signals, surfaces, analytics**: floating-point computations over frozen inputs, which
  make up most of the repository's Python. They have no protocol, TLC has no floating point, and what
  their order of evidence promises is the subject of `DailyResearch`.
* **Release packaging, remote protocol, routing export**: one-shot commands without state.

## 7. Plan

Done: the execution plane (`OrderLifecycle` to `ExecutorServer`, `RiskEngine`), the row stream, acquisition
and capture of the data project, ledger and daily workflow of the research project, the release installer; proofs
about ten components.

1. `ExecutionLedger` – the C++ ledger file: partial writes, fsync, chain, verification status, repair; its
   abstract specification is the durable log that `ExecutionSession` assumes.
2. `IpcTransport` – framing under deadlines, roles, peer continuity across a reconnect.
