--------------------------- MODULE EvidenceLedger ---------------------------
(***************************************************************************)
(* The append-only evidence ledger of the research program                 *)
(* (src/research/src/shaurya/research/ledger.py): one JSON-lines file and  *)
(* the journal <file>.txn of an append in flight, both used under an       *)
(* exclusive flock of the file.                                            *)
(*                                                                         *)
(* The lock makes every operation exclusive, so one holder is modelled; it *)
(* may die at any step (the kernel frees the lock), fail with an OSError,  *)
(* which leaves the same files behind, or lose power.  A record is two     *)
(* halves of a line, so that a write can stop inside it.  The file and the *)
(* directory entry of the journal have a cached and a durable version;     *)
(* fsync makes the durable one equal to the cached one, and after a power  *)
(* loss anything between the two may be found.  Hash chains, sequence      *)
(* numbers and timestamps are left out: they are functions of the order.   *)
(***************************************************************************)
EXTENDS Integers, Sequences

CONSTANTS
    Events, Batches, IdOf,   \* as in AppendLog
    PowerFailsAnytime,       \* FALSE: not while an accepted append is unsynced
    MaxCrashes,              \* bound: process deaths and failed system calls
    MaxPowerLosses           \* bound

\* append_many returns at once for an empty batch and refuses a batch whose
\* events claim one id for different evidence (ledger.py:139-158).
ASSUME BatchesAssumption ==
    /\ IdOf \in [Events -> {IdOf[e] : e \in Events}]
    /\ \A b \in Batches :
         /\ b \in Seq(Events) /\ b # << >>
         /\ \A j, k \in DOMAIN b : IdOf[b[j]] = IdOf[b[k]] => b[j] = b[k]

ASSUME BoundsAssumption ==
    PowerFailsAnytime \in BOOLEAN /\ MaxCrashes \in Nat /\ MaxPowerLosses \in Nat

VARIABLES
    step,         \* where the holder of the lock is; "free" without one
    op,           \* the batch it appends; << >> for read()
    additions,    \* the envelopes it will add
    file, disk,   \* the cached and the durable bytes of the ledger
    journal,      \* the cached directory entry of <file>.txn and its content
    journalDisk,  \* the durable one
    acked,        \* history: events some append_many has returned
    observed,     \* history: the longest log a read() has returned
    broken,       \* history: recovery or decoding has raised ValueError
    crashes, losses

files == <<file, disk, journal, journalDisk>>
history == <<acked, observed, broken>>
faults == <<crashes, losses>>
vars == <<step, op, additions, files, history, faults>>

Read == << >>
NoJournal == [start |-> 0, bytes |-> << >>]

\* The lines of a sequence of events, as the halves that are written.
Halves(s) ==
    [k \in 1..(2 * Len(s)) |-> <<s[(k + 1) \div 2], IF k % 2 = 1 THEN "head" ELSE "tail">>]

Upto(bytes, n) == SubSeq(bytes, 1, n)
After(bytes, n) == SubSeq(bytes, n + 1, Len(bytes))
StartsWith(s, t) == Len(t) <= Len(s) /\ Upto(s, Len(t)) = t

\* The events of the complete lines of a file.
Records(bytes) == [k \in 1..(Len(bytes) \div 2) |-> bytes[2 * k][1]]

InRecords(s) == {s[k] : k \in DOMAIN s}
IdsOnce(s) == \A j, k \in DOMAIN s : IdOf[s[j]] = IdOf[s[k]] => j = k

\* _decode accepts the file: whole lines, no event id twice.
Decodes(bytes) == bytes = Halves(Records(bytes)) /\ IdsOnce(Records(bytes))

Init ==
    /\ step = "free" /\ op = Read /\ additions = << >>
    /\ file = << >> /\ disk = << >>
    /\ journal = NoJournal /\ journalDisk = NoJournal
    /\ acked = {} /\ observed = << >> /\ broken = FALSE
    /\ crashes = 0 /\ losses = 0

-----------------------------------------------------------------------------
(* append_many and read under the lock.                                    *)

\* The file is opened and locked; a batch whose events conflict with each
\* other was refused before.
Lock(b) ==
    /\ step = "free"
    /\ step' = "recovering" /\ op' = b
    /\ UNCHANGED <<additions, files, history, faults>>

\* A ValueError of the recovery or of the decoding.
Raise ==
    /\ broken' = TRUE
    /\ step' = "free"
    /\ UNCHANGED <<op, additions, files, acked, observed, faults>>

\* Variant: a reader does not look for a journal.
IgnorePending ==
    /\ step = "recovering"
    /\ step' = "decoding"
    /\ UNCHANGED <<op, additions, files, history, faults>>

\* _recover_pending_locked with no journal.
NothingPending ==
    /\ step = "recovering" /\ journal = NoJournal
    /\ step' = "decoding"
    /\ UNCHANGED <<op, additions, files, history, faults>>

Suffix == After(file, journal.start)

\* The suffix is the whole append: only the journal is taken away.
AcceptSuffix ==
    /\ Suffix = journal.bytes
    /\ step' = "resolved"
    /\ UNCHANGED <<op, additions, files, history, faults>>

\* The suffix is a strict prefix of the append: it is cut off.
RollBack ==
    /\ Suffix # journal.bytes
    /\ file' = Upto(file, journal.start)
    /\ step' = "truncated"
    /\ UNCHANGED <<op, additions, disk, journal, journalDisk, history, faults>>

\* _recover_pending_locked with a journal.
Recover ==
    /\ step = "recovering" /\ journal # NoJournal
    /\ IF journal.start <= Len(file) /\ StartsWith(journal.bytes, Suffix)
       THEN AcceptSuffix \/ RollBack
       ELSE Raise

SyncRollBack ==
    /\ step = "truncated"
    /\ disk' = file
    /\ step' = "resolved"
    /\ UNCHANGED <<op, additions, file, journal, journalDisk, history, faults>>

\* journal.unlink(), at the end of the recovery and of an append.
Unlink ==
    /\ step \in {"resolved", "synced"}
    /\ journal' = NoJournal
    /\ step' = IF step = "resolved" THEN "recovered" ELSE "cleaned"
    /\ UNCHANGED <<op, additions, file, disk, journalDisk, history, faults>>

\* The directory is synced: after the link, after the unlink of a recovery,
\* and after that of an append, which then returns its envelopes.
SyncDirectory ==
    /\ step \in {"linked", "recovered", "cleaned"}
    /\ journalDisk' = journal
    /\ step' = CASE step = "linked" -> "writing"
                 [] step = "recovered" -> "decoding"
                 [] step = "cleaned" -> "free"
    /\ acked' = IF step = "cleaned" THEN acked \cup InRecords(op) ELSE acked
    /\ UNCHANGED <<op, additions, file, disk, journal, observed, broken, faults>>

Log == INSTANCE AppendLog WITH log <- Records(file)

\* read() returns what it decoded.
Answer ==
    /\ op = Read
    /\ observed' = IF Len(Records(file)) > Len(observed) THEN Records(file) ELSE observed
    /\ step' = "free"
    /\ UNCHANGED <<op, additions, files, acked, broken, faults>>

\* append_many raises when an id is taken by other evidence, returns when
\* every event is there, and else prepares the envelopes of the others.
PrepareWith(new, taken) ==
    /\ op # Read
    /\ additions' = IF taken THEN << >> ELSE new
    /\ step' = IF taken \/ new = << >> THEN "free" ELSE "prepared"
    /\ acked' = IF ~taken /\ new = << >> THEN acked \cup InRecords(op) ELSE acked
    /\ UNCHANGED <<op, files, observed, broken, faults>>

\* Variant: the events of a retried batch are appended again.
PrepareAll == PrepareWith(op, Log!Conflicts(Records(file), op))

Prepare == PrepareWith(Log!Additions(Records(file), op), Log!Conflicts(Records(file), op))

\* The file is read and decoded under the lock.
Decode ==
    /\ step = "decoding"
    /\ IF Decodes(file) THEN Answer \/ Prepare ELSE Raise

\* _atomic_create_once: the journal is written and synced under another name,
\* then linked.
LinkJournal ==
    /\ step = "prepared"
    /\ journal' = [start |-> Len(file), bytes |-> Halves(additions)]
    /\ step' = "linked"
    /\ UNCHANGED <<op, additions, file, disk, journalDisk, history, faults>>

\* handle.write and flush reach the page cache piece by piece.
WriteHalf ==
    /\ step = "writing" /\ Suffix # journal.bytes
    /\ file' = Append(file, journal.bytes[Len(Suffix) + 1])
    /\ UNCHANGED <<step, op, additions, disk, journal, journalDisk, history, faults>>

\* fsync of the ledger, then the decoding that verifies it.
SyncAppend ==
    /\ step = "writing" /\ Suffix = journal.bytes
    /\ disk' = file
    /\ step' = "synced"
    /\ UNCHANGED <<op, additions, file, journal, journalDisk, history, faults>>

-----------------------------------------------------------------------------
(* Faults.                                                                 *)

\* The holder dies or a system call raises: the lock is freed.
Crash ==
    /\ step # "free" /\ crashes < MaxCrashes
    /\ crashes' = crashes + 1
    /\ step' = "free"
    /\ UNCHANGED <<op, additions, files, history, losses>>

\* Bytes before the pending append are not yet durable.
Exposed == Len(disk) < IF journal = NoJournal THEN Len(file) ELSE journal.start

\* What is found after a power loss lies between the durable and the cached
\* state: one of them is always a prefix of the other.
PowerLoss ==
    /\ losses < MaxPowerLosses
    /\ PowerFailsAnytime \/ ~Exposed
    /\ LET long == IF Len(file) > Len(disk) THEN file ELSE disk
           short == IF Len(file) > Len(disk) THEN disk ELSE file
       IN \E n \in Len(short)..Len(long) :
            file' = Upto(long, n) /\ disk' = Upto(long, n)
    /\ \E j \in {journal, journalDisk} : journal' = j /\ journalDisk' = j
    /\ losses' = losses + 1
    /\ step' = "free"
    /\ UNCHANGED <<op, additions, history, crashes>>

Next ==
    \/ \E b \in Batches \cup {Read} : Lock(b)
    \/ NothingPending \/ Recover \/ SyncRollBack \/ Unlink \/ SyncDirectory
    \/ Decode \/ LinkJournal \/ WriteHalf \/ SyncAppend
    \/ Crash \/ PowerLoss

Spec == Init /\ [][Next]_vars

-----------------------------------------------------------------------------
(* Properties.                                                             *)

Steps == {"free", "recovering", "truncated", "resolved", "recovered", "decoding",
          "prepared", "linked", "writing", "synced", "cleaned"}
Half == Events \X {"head", "tail"}
JournalType == [start : Nat, bytes : Seq(Half)]

\* Types of the holder's, the files' and the history variables.
TypeOK ==
    /\ step \in Steps
    /\ op \in Seq(Events) /\ additions \in Seq(Events)
    /\ file \in Seq(Half) /\ disk \in Seq(Half)
    /\ journal \in JournalType /\ journalDisk \in JournalType
    /\ acked \subseteq Events /\ observed \in Seq(Events) /\ broken \in BOOLEAN
    /\ crashes \in Nat /\ losses \in Nat

\* The log the files stand for: a pending append belongs to it once all of
\* it is durable, because every recovery will then keep it.
Committed ==
    IF journal = NoJournal \/ Len(disk) >= journal.start + Len(journal.bytes)
    THEN Records(file) ELSE Records(Upto(file, journal.start))

\* Whatever dies and whenever, the next holder finds a ledger it can recover
\* and decode (_recover_pending_locked, _decode).
LedgerReadable == ~broken

\* Evidence whose append_many returned is in the ledger for good.
AcknowledgedIsKept == acked \subseteq InRecords(Committed)

\* What a read() has returned is never taken back or reordered: no reader
\* sees an append that a crash then undoes.
ObservedIsKept == StartsWith(Committed, observed)

\* No process death inside append_many or a recovery leaves a torn ledger, takes
\* back what append_many acknowledged, or what a read() has shown; nor does a
\* power loss, with PowerFailsAnytime = FALSE: unless it comes while a suffix
\* that _recover_pending_locked found whole, and unlinked the journal of, was
\* never synced.  With TRUE it is violated (LedgerReadable).
LedgerIsSound ==
    /\ TypeOK
    /\ LedgerReadable
    /\ AcknowledgedIsKept
    /\ ObservedIsKept

CommittedLog == INSTANCE AppendLog WITH log <- Committed

\* The file, the journal and their recovery implement atomic, idempotent
\* appends: a retried batch is there once, and never in part.  The power losses
\* that LedgerIsSound leaves out are left out here too.
ImplementsAppendLog == CommittedLog!LogSpec
=============================================================================
