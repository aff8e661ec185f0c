--------------------------- MODULE DailyResearch ---------------------------
(***************************************************************************)
(* One research session after another: the `daily` and `mine-alpha`        *)
(* commands (src/research/src/shaurya/cli/research.py), the publication of *)
(* a session by execute_daily (research/executor.py) and the immutable     *)
(* states of StateStore (research/state.py).                               *)
(*                                                                         *)
(* The evidence ledger is the log AppendLog promises (EvidenceLedger       *)
(* implements it): an append is one step and a repeated event is not added *)
(* again.  An event is its kind, its session and the content that can      *)
(* differ between two attempts; what an attempt computes from the frozen   *)
(* plan, sources and registries is the same every time and left out.  The  *)
(* position of an event stands for its hash, as the hashes form a chain.   *)
(***************************************************************************)
EXTENDS Integers, Sequences, FiniteSets

CONSTANTS
    Workers,          \* processes that run `daily`: a scheduler's and an operator's
    LastDay,          \* bound: sessions are 1..LastDay; session 0 is the bootstrap
    WarmupCounts,     \* how many of the first sessions may be warm-ups
    FailingDays,      \* sessions with a record whose terminal status is FAILED
    Reasons,          \* bound: the reasons a session's attempts fail for
    MaxInterruptions  \* bound: process deaths, failed system calls and minings

ASSUME ResearchAssumption ==
    /\ LastDay \in Nat /\ WarmupCounts \subseteq Nat /\ Reasons \subseteq Nat
    /\ MaxInterruptions \in Nat
    /\ "nobody" \notin Workers

VARIABLES
    log,          \* the events of the evidence ledger
    states,       \* the immutable state of each published session
    reports,      \* the report file of each session
    lock,         \* who holds <ledger>.workflow.lock
    stage,        \* where a worker is
    day,          \* the session it runs
    failuresSeen, \* what its _ledger_history found
    position,     \* the ledger position it remembers
    miner,        \* where `mine-alpha` is
    warmups,      \* constant: sessions too early for a legal outer fold
    interruptions

memory == <<lock, day, failuresSeen, position>>
other == <<miner, warmups, interruptions>>
researchVars == <<log, states, reports, stage, memory, other>>

Days == 1..LastDay
Nobody == "nobody"
NoState == [tail |-> -1, failures |-> {}]
NoReport == {-1}   \* a report's content is the set of failures it counts

Event(kind, d, content) == [kind |-> kind, day |-> d, content |-> content]
Frozen == {}
Plain(kind, d) == Event(kind, d, Frozen)

Ledger == INSTANCE AppendLog WITH Events <- {}, Batches <- {}, IdOf <- [e \in {} |-> e]

\* The ledger after an append of e.
With(e) == log \o Ledger!Additions(log, <<e>>)

InTheLog(e) == \E k \in DOMAIN log : log[k] = e
PlaceOf(e) == CHOOSE k \in DOMAIN log : log[k] = e
OfKind(kind, d) == {k \in DOMAIN log : log[k].kind = kind /\ log[k].day = d}

Published(d) == states[d] # NoState

\* What each append of execute_daily is followed by.
NextStep ==
    [artifacts |-> "evaluation", evaluation |-> "exploration",
     exploration |-> "analysis", analysis |-> "history",
     diagnostics |-> "report", publication |-> "snapshot"]

ResearchInit ==
    /\ log = << >>
    /\ states = [d \in 0..LastDay |-> IF d = 0 THEN [tail |-> 0, failures |-> {}] ELSE NoState]
    /\ reports = [d \in Days |-> NoReport]
    /\ lock = Nobody
    /\ stage = [w \in Workers |-> "idle"]
    /\ day = [w \in Workers |-> 0]
    /\ failuresSeen = [w \in Workers |-> {}]
    /\ position = [w \in Workers |-> 0]
    /\ miner = "idle" /\ warmups \in WarmupCounts
    /\ interruptions = 0

Goto(w, s) == stage' = [stage EXCEPT ![w] = s]

\* The process goes on at s.
Continue(w, s) == Goto(w, s) /\ UNCHANGED memory

\* What the process held and remembered is gone.
Release(w) ==
    /\ lock' = IF lock = w THEN Nobody ELSE lock
    /\ failuresSeen' = [failuresSeen EXCEPT ![w] = {}]
    /\ position' = [position EXCEPT ![w] = 0]

\* The attempt raised: the lock is released and the failure accounted for.
GiveUp(w) == Goto(w, "accounting") /\ Release(w) /\ UNCHANGED day

\* The process ends.
End(w) == Goto(w, "idle") /\ Release(w) /\ day' = [day EXCEPT ![w] = 0]

-----------------------------------------------------------------------------
(* The daily command.                                                      *)

\* _daily: a session that is published is a no-op; else the state intended
\* for it must be there.
Start(w, d) ==
    /\ stage[w] = "idle"
    /\ ~Published(d) /\ Published(d - 1)
    /\ Goto(w, IF d <= warmups THEN "warming" ELSE "waiting")
    /\ day' = [day EXCEPT ![w] = d]
    /\ UNCHANGED <<log, states, reports, lock, failuresSeen, position, other>>

\* _advance_warmup_state: the tail must be the one of the previous state.
CheckWarmup(w) ==
    /\ stage[w] = "warming"
    /\ IF Len(log) = states[day[w] - 1].tail THEN Continue(w, "skipping") ELSE End(w)
    /\ UNCHANGED <<log, states, reports, other>>

\* The lineage event of a skipped session.
SkipWarmup(w) ==
    /\ stage[w] = "skipping"
    /\ LET e == Plain("warmup", day[w])
       IN /\ log' = With(e)
          /\ position' = [position EXCEPT ![w] =
                              IF InTheLog(e) THEN PlaceOf(e) ELSE Len(log) + 1]
    /\ Goto(w, "state")
    /\ UNCHANGED <<states, reports, lock, day, failuresSeen, other>>

\* _workflow_locked: an exclusive flock around execute_daily.
TakeLock(w) ==
    /\ stage[w] = "waiting" /\ lock = Nobody
    /\ lock' = w
    /\ Goto(w, "checking")
    /\ UNCHANGED <<log, states, reports, day, failuresSeen, position, other>>

\* Events the session may find after the tail of the state it starts from.
Resumable(d, e) ==
    \/ e.day = d
    \/ e.kind = "mining" /\ d = 1

\* Variant: like a warm-up session, an evaluation wants the very tail.
TailIsUntouched(d) == Len(log) = states[d - 1].tail

\* _tail_is_resumable.
TailIsResumable(d) ==
    \A k \in DOMAIN log : k > states[d - 1].tail => Resumable(d, log[k])

CheckTail(w) ==
    /\ stage[w] = "checking"
    /\ IF TailIsResumable(day[w])
       THEN Continue(w, "artifacts") ELSE GiveUp(w)
    /\ UNCHANGED <<log, states, reports, other>>

\* The appends whose content is frozen.  A session with a failed record keeps
\* its evidence and raises.
Record(w) ==
    /\ stage[w] \in DOMAIN NextStep
    /\ log' = With(Plain(stage[w], day[w]))
    /\ IF stage[w] = "evaluation" /\ day[w] \in FailingDays
       THEN GiveUp(w) ELSE Continue(w, NextStep[stage[w]])
    /\ UNCHANGED <<states, reports, other>>

\* The sessions with an accounted failure: each interrupts the candidates'
\* score timelines, and so changes the report and the state.
FailuresUpTo(d) == {k \in 1..d : OfKind("failed", k) # {}}

ReadHistory(w) ==
    /\ stage[w] = "history"
    /\ failuresSeen' = [failuresSeen EXCEPT ![w] = FailuresUpTo(day[w])]
    /\ Goto(w, "diagnostics")
    /\ UNCHANGED <<log, states, reports, lock, day, position, other>>

\* write_daily_report creates the file once; other content is refused.
WriteReport(w) ==
    /\ stage[w] = "report"
    /\ IF reports[day[w]] \in {NoReport, failuresSeen[w]}
       THEN /\ reports' = [reports EXCEPT ![day[w]] = failuresSeen[w]]
            /\ Continue(w, "report event")
       ELSE GiveUp(w) /\ UNCHANGED reports
    /\ UNCHANGED <<log, states, other>>

RecordReport(w) ==
    /\ stage[w] = "report event"
    /\ log' = With(Event("report", day[w], failuresSeen[w]))
    /\ Continue(w, "publication")
    /\ UNCHANGED <<states, reports, other>>

Snapshots(d) == OfKind("snapshot", d)

\* Variant: the snapshot is compared with the ledger as it is now.
SnapshotIsCurrent(k) == log[k].content = {Len(log)}

\* verify_snapshot for the events before the snapshot event.
SnapshotVerifies(k) == log[k].content = {k - 1}

\* Variant: every attempt materializes the ledger as it finds it.
AlwaysMaterialize(w) ==
    /\ stage[w] = "snapshot"
    /\ Goto(w, "materialized")
    /\ position' = [position EXCEPT ![w] = Len(log)]
    /\ UNCHANGED <<log, states, reports, lock, day, failuresSeen, other>>

\* A snapshot event that is there is verified against the events before it;
\* else the ledger as it is now is materialized.
FindSnapshot(w) ==
    /\ stage[w] = "snapshot"
    /\ IF Snapshots(day[w]) = {}
       THEN /\ Goto(w, "materialized")
            /\ position' = [position EXCEPT ![w] = Len(log)]
            /\ UNCHANGED <<lock, day, failuresSeen>>
       ELSE IF Cardinality(Snapshots(day[w])) = 1
               /\ \A k \in Snapshots(day[w]) : SnapshotVerifies(k)
            THEN Continue(w, "tail")
            ELSE GiveUp(w)
    /\ UNCHANGED <<log, states, reports, other>>

\* Variant: the state is bound to the tail that was materialized.
RecordSnapshotLate(w) ==
    /\ stage[w] = "materialized"
    /\ log' = With(Event("snapshot", day[w], {position[w]}))
    /\ Continue(w, "state")
    /\ UNCHANGED <<states, reports, other>>

\* daily_snapshot_published.
RecordSnapshot(w) ==
    /\ stage[w] = "materialized"
    /\ log' = With(Event("snapshot", day[w], {position[w]}))
    /\ Continue(w, "tail")
    /\ UNCHANGED <<states, reports, other>>

ReadTail(w) ==
    /\ stage[w] = "tail"
    /\ position' = [position EXCEPT ![w] = Len(log)]
    /\ Goto(w, "state")
    /\ UNCHANGED <<log, states, reports, lock, day, failuresSeen, other>>

StateOf(w) == [tail |-> position[w], failures |-> failuresSeen[w]]

\* StateStore.write: one state for each date, created once; the same state
\* again is a success and another one is refused.
WriteState(w) ==
    /\ stage[w] = "state"
    /\ states' = IF Published(day[w]) THEN states
                 ELSE [states EXCEPT ![day[w]] = StateOf(w)]
    /\ IF Published(day[w]) /\ states[day[w]] # StateOf(w) /\ lock = w
       THEN GiveUp(w) ELSE End(w)
    /\ UNCHANGED <<log, reports, other>>

\* _account_failed_command after an attempt raised, without the workflow lock:
\* nothing is accounted for a session that is published by now.
AccountForFailure(w) ==
    /\ stage[w] = "accounting"
    /\ IF Published(day[w]) THEN End(w) ELSE Continue(w, "recording")
    /\ UNCHANGED <<log, states, reports, other>>

RecordFailure(w) ==
    /\ stage[w] = "recording"
    /\ \E reason \in Reasons : log' = With(Event("failed", day[w], {reason}))
    /\ End(w)
    /\ UNCHANGED <<states, reports, other>>

-----------------------------------------------------------------------------
(* mine-alpha, which works with the bootstrap state and without the         *)
(* workflow lock.                                                          *)

MiningKinds == {"mining", "mining failed"}

\* _mine: the ledger may hold only what was mined since the state.  Nobody
\* needs to run it; it counts as an interruption, so that the bound ends it.
StartMining ==
    /\ miner = "idle" /\ interruptions < MaxInterruptions
    /\ interruptions' = interruptions + 1
    /\ LET accepted == \A k \in DOMAIN log : log[k].kind \in MiningKinds
       IN miner' = IF accepted THEN "mined" ELSE "failed"
    /\ UNCHANGED <<log, states, reports, stage, memory, warmups>>

\* The candidates it found, or the accounting of its failure.  (It may also be
\* killed, below.)
RecordMining ==
    /\ miner # "idle"
    /\ \E kind \in IF miner = "failed" THEN {"mining failed"} ELSE MiningKinds :
         log' = With(Plain(kind, 0))
    /\ miner' = "idle"
    /\ UNCHANGED <<states, reports, stage, memory, warmups, interruptions>>

-----------------------------------------------------------------------------
(* Faults.                                                                 *)

\* A process dies; the kernel frees its lock.  Nothing is accounted for.
WorkerDies(w) ==
    /\ stage[w] # "idle" /\ interruptions < MaxInterruptions
    /\ interruptions' = interruptions + 1
    /\ End(w)
    /\ UNCHANGED <<log, states, reports, miner, warmups>>

\* A system call of execute_daily raises an OSError: the lock is released and
\* the failure accounted for.
Fail(w) ==
    /\ lock = w /\ interruptions < MaxInterruptions
    /\ interruptions' = interruptions + 1
    /\ GiveUp(w)
    /\ UNCHANGED <<log, states, reports, miner, warmups>>

\* Nothing of a mining that is killed remains.
MinerDies ==
    /\ miner # "idle"
    /\ miner' = "idle"
    /\ UNCHANGED <<log, states, reports, stage, memory, warmups, interruptions>>

Work(w) ==
    \/ CheckWarmup(w) \/ SkipWarmup(w) \/ CheckTail(w) \/ Record(w)
    \/ ReadHistory(w) \/ WriteReport(w) \/ RecordReport(w)
    \/ FindSnapshot(w) \/ RecordSnapshot(w) \/ ReadTail(w) \/ WriteState(w)
    \/ AccountForFailure(w) \/ RecordFailure(w)

Schedule(w) == \E d \in Days : Start(w, d)

ResearchNext ==
    \/ \E w \in Workers : Schedule(w) \/ TakeLock(w) \/ Work(w) \/ WorkerDies(w) \/ Fail(w)
    \/ StartMining \/ RecordMining \/ MinerDies

ResearchSpec == ResearchInit /\ [][ResearchNext]_researchVars

\* The scheduler runs `daily` again and again, a running process goes on, and
\* flock serves a waiting process some time when the lock is freed again and
\* again.
FairResearch ==
    /\ ResearchSpec
    /\ \A w \in Workers :
         WF_researchVars(Schedule(w)) /\ WF_researchVars(Work(w)) /\ SF_researchVars(TakeLock(w))

-----------------------------------------------------------------------------
(* Properties.                                                             *)

WorkerSteps == {"idle", "warming", "skipping", "waiting", "checking", "history", "report",
          "report event", "snapshot", "materialized", "tail", "state", "accounting",
          "recording"} \cup DOMAIN NextStep

\* Types of the files, the workers and the miner.
ResearchTypeOK ==
    /\ \A k \in DOMAIN log : log[k].day \in 0..LastDay
    /\ \A d \in 0..LastDay : states[d].tail \in -1..Len(log) /\ states[d].failures \subseteq Days
    /\ \A d \in Days : reports[d] = NoReport \/ reports[d] \subseteq Days
    /\ lock \in Workers \cup {Nobody}
    /\ stage \in [Workers -> WorkerSteps] /\ day \in [Workers -> 0..LastDay]
    /\ failuresSeen \in [Workers -> SUBSET Days]
    /\ position \in [Workers -> 0..Len(log)]
    /\ miner \in {"idle", "mined", "failed"}
    /\ warmups \in WarmupCounts /\ interruptions \in 0..MaxInterruptions

\* The events recorded without the workflow lock: of failures, of mining and
\* of warm-up sessions.
UnlockedKinds == {"failed", "warmup"} \cup MiningKinds

\* The report event of a session is of the report file that is there.  There
\* is at most one snapshot event, of a prefix of the events before it, and
\* what is between the two was recorded without the workflow lock: no event
\* of another attempt at execute_daily is (write_daily_report, FindSnapshot's
\* branch of _publish, verify_snapshot).
PublicationIsConsistent ==
    \A d \in Days :
        /\ \A k \in OfKind("report", d) : log[k].content = reports[d]
        /\ Cardinality(Snapshots(d)) <= 1
        /\ \A k \in Snapshots(d) : \E n \in 0..k - 1 :
             /\ log[k].content = {n}
             /\ \A j \in n + 1..k - 1 : log[j].kind \in UnlockedKinds

\* However the attempts of two workers interleave, crash and are repeated, a
\* session is not published twice or differently (_workflow_locked,
\* _atomic_create_once).
PublicationIsSound == ResearchTypeOK /\ PublicationIsConsistent

\* Does `daily` for session d pass its checks of what earlier attempts left in
\* the ledger and in the files, once nothing else is running?
WillBeAccepted(d) ==
    IF d <= warmups THEN Len(log) = states[d - 1].tail
    ELSE /\ TailIsResumable(d)
         /\ reports[d] \in {NoReport, FailuresUpTo(d)}
         /\ \A k \in Snapshots(d) : SnapshotVerifies(k)

\* Event k was recorded beside the workflow lock, and is out of session d (or
\* d is a warm-up), or is a failure accounted for after d's history was read
\* and not in d's report, or came between d's snapshot and its event.
Intrudes(d, k) ==
    /\ k > states[d - 1].tail /\ log[k].kind \in UnlockedKinds
    /\ \/ d <= warmups \/ ~Resumable(d, log[k])
       \/ /\ log[k].kind = "failed" /\ reports[d] # NoReport /\ log[k].day \notin reports[d]
          /\ \E j \in 1..k - 1 : log[j] = Plain("analysis", d)
       \/ \E m \in Snapshots(d) : k < m /\ \A n \in log[m].content : n < k

Disturbed(d) == \E k \in DOMAIN log : Intrudes(d, k)

NextUp(d) == ~Published(d) /\ Published(d - 1)

\* An attempt at the next session is refused because of what is in the ledger
\* and in the files if and only if an event that was recorded without the
\* workflow lock came at one of those three moments.  Whatever an attempt
\* leaves behind inside the lock, wherever it died or failed, never blocks the
\* next one (_tail_is_resumable, _atomic_create_once, verify_snapshot).
OnlyIntrusionsBlockRetries ==
    \A d \in Days : NextUp(d) => (WillBeAccepted(d) <=> ~Disturbed(d))

\* No command is running.
Quiet == miner = "idle" /\ \A w \in Workers : stage[w] = "idle"

\* Stated only, no run checks it: the same without exception.  The events that
\* the code records without the lock refute it in the ways Intrudes names.
NoRetryIsRefused == Quiet => \A d \in Days : NextUp(d) => WillBeAccepted(d)

\* The sessions from the first one on that have a state.
Sessions == CHOOSE n \in 0..LastDay :
                /\ \A d \in 1..n : Published(d)
                /\ n < LastDay => ~Published(n + 1)

Chronicle == INSTANCE SessionChronicle WITH
    chronicle <- [d \in 1..Sessions |-> SubSeq(log, states[d - 1].tail + 1, states[d].tail)]

\* The states and the ledger, through crashes, retries, a second process and
\* events recorded without the lock, publish whole sessions in order and
\* change none of them (StateStore.write, _advance_warmup_state, _publish).
ImplementsChronicle == Chronicle!ChronicleSpec

\* However often attempts die and calls fail, the scheduler's `daily` gets
\* every session up to one whose evaluation failed published, unless from some
\* moment on the next one is blocked by an intrusion (_workflow_locked, _daily).
SessionsAreCompleted ==
    \A d \in Days : (\A k \in 1..d : k \notin FailingDays) =>
        <>Published(d) \/ \E k \in 1..d : <>[](NextUp(k) /\ Disturbed(k))
=============================================================================
