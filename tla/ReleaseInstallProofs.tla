------------------------ MODULE ReleaseInstallProofs ------------------------
(***************************************************************************)
(* Proofs about ReleaseInstall: whatever is interrupted, and wherever, the *)
(* prefix stays whole or empty, recovery never refuses an interruption it  *)
(* is there for, and the command is switched from one whole release to     *)
(* another in one step, for every set of versions and any number of        *)
(* operations and crashes.                                                 *)
(*                                                                         *)
(* What is on disk is one of three: settled (no journal, no removal), an   *)
(* installation whose journal says what to restore, or an uninstallation   *)
(* whose removal record says what is to go.  The invariant says for each   *)
(* what the files hold, and for the process that is running which of its   *)
(* steps are already behind it.                                            *)
(***************************************************************************)
EXTENDS ReleaseInstall, SequenceTheorems, TLAPS


\* The values of the variables and of the records kept on disk.
Optionals == Versions \cup {NoVersion}

Installs ==
    [kind : {"installed"}, current : Optionals, previous : Optionals, owned : SUBSET Versions,
     created : BOOLEAN]
Journals ==
    [kind : {"install"}, current : Optionals, previous : Optionals, index : SUBSET Versions,
     installed : Installs \cup {None}, new : Versions, created : BOOLEAN, launcher : BOOLEAN]
Removals == [kind : {"staging", "commit"}, of : Installs]
Operations == [kind : {"install", "rollback", "uninstall"}, version : Optionals, gone : BOOLEAN]

\* The steps between which a pointer, a record or a tree is restored or switched.
Restoring ==
    {"r_current", "r_previous", "r_index", "r_installed", "r_launcher", "r_release", "r_removing",
     "r_stage", "r_unstaging", "r_journal"}
Switching == {"publish", "launcher", "current", "previous", "index", "installed", "commit"}
Preparing == {"validate", "prepare", "extract", "fallback", "journal"}
Removing == {"move", "delete", "unlink", "directory", "close"}
Steps ==
    {"idle", "recover", "remove", "r_fallback", "release"}
        \cup Restoring \cup Switching \cup Preparing \cup Removing

\* Types.
Typed ==
    /\ {current, previous, fallback} \subseteq Optionals
    /\ index \subseteq Versions
    /\ installed \in Installs \cup {None}
    /\ journal \in Journals \cup {None}
    /\ removal \in Removals \cup {None}
    /\ moved \subseteq {"current", "index", "installed", "previous"}
    /\ releases \in [Versions -> Trees] /\ stage \in Trees
    /\ stray \in BOOLEAN /\ directory \in BOOLEAN /\ launcher \in BOOLEAN
    /\ refused \in BOOLEAN /\ unsafe \in BOOLEAN
    /\ step \in Steps
    /\ op \in Operations \cup {None}
    /\ operations \in 0..MaxOperations /\ crashes \in 0..MaxCrashes

\* Where the operation is, and what it works on.
OnCourse ==
    /\ step = "idle" <=> op = None
    /\ step \in {"r_fallback", "release"} \cup Restoring \cup Switching \cup Preparing \cup {"recover"}
         => op.kind # "uninstall" /\ op.version \in Versions
    /\ step \in Restoring \cup Switching => journal # None
    /\ step \in {"r_fallback", "release", "remove"} \cup Preparing => journal = None
    /\ step \in {"recover", "r_fallback", "release"} \cup Restoring \cup Switching \cup Preparing
         => removal = None
    /\ step \in Removing => removal # None
    /\ step \in Removing \cup {"remove"} /\ op.kind # "uninstall" => op.version \in Versions
    /\ step = "remove" /\ removal = None => op.kind = "uninstall" /\ installed # None
    /\ op # None /\ op.kind = "uninstall" /\ step # "idle" => ~op.gone

\* Pointers and records that agree: of an installed release, or of none.
Agree(c, p, i, r) ==
    IF r = None THEN c = NoVersion /\ p = NoVersion /\ i = {}
    ELSE /\ c \in i /\ (p = NoVersion \/ p \in i)
         /\ r.current = c /\ r.previous = p /\ r.owned = i

WholeAre(s) == \A v \in Versions : releases[v] = IF v \in s THEN "whole" ELSE "absent"

\* Nothing is pending.
Settled ==
    journal = None /\ removal = None =>
        /\ moved = {}
        /\ Agree(current, previous, index, installed)
        /\ installed # None => launcher /\ directory
        /\ WholeAre(index)

\* An installation is pending.
Journaled ==
    journal # None =>
        /\ removal = None /\ moved = {} /\ directory
        /\ fallback = journal.current
        /\ Agree(journal.current, journal.previous, journal.index, journal.installed)
        /\ journal.installed # None => ~journal.launcher
        /\ launcher \/ journal.launcher
        /\ journal.created <=> journal.new \notin journal.index
        /\ \A v \in Versions :
               v # journal.new => releases[v] = IF v \in journal.index THEN "whole" ELSE "absent"
        /\ ~journal.created => releases[journal.new] = "whole" /\ stage = "absent"
        /\ releases[journal.new] = "absent" \/ stage = "absent"

\* What recovery has restored by now.
Restored ==
    /\ step \in Restoring \ {"r_current"} => current = journal.current
    /\ step \in Restoring \ {"r_current", "r_previous"} => previous = journal.previous
    /\ step \in Restoring \ {"r_current", "r_previous", "r_index"} => index = journal.index
    /\ step \in Restoring \ {"r_current", "r_previous", "r_index", "r_installed"}
         => installed = journal.installed
    /\ step = "r_removing" => journal.created /\ stage = "absent"
    /\ step \in {"r_stage", "r_unstaging", "r_journal"} /\ journal.created
         => releases[journal.new] = "absent"
    /\ step = "r_journal" => stage = "absent"

\* What the installation has switched by now.
Switched ==
    /\ step \in Switching => op.version = journal.new
    /\ step = "publish" =>
         /\ journal.created => stage = "whole" /\ releases[journal.new] = "absent"
    /\ step \in Switching \ {"publish"} => releases[journal.new] = "whole" /\ stage = "absent"
    /\ step \in Switching \ {"publish", "launcher"} => launcher
    /\ step \in {"previous", "index", "installed", "commit"} => current = op.version
    /\ step \in {"index", "installed", "commit"} => previous = journal.current
    /\ step \in Switching \ {"installed", "commit"} => index = journal.index
    /\ step \in {"installed", "commit"} => index = journal.index \cup {journal.new}
    /\ step = "commit" =>
         /\ installed # None
         /\ installed.current = current /\ installed.previous = previous /\ installed.owned = index

\* What the installation has prepared by now.
Prepared ==
    /\ stage # "absent" /\ journal = None => step \in {"extract", "fallback", "journal"}
    /\ step \in {"recover", "validate", "prepare"} /\ ~op.gone => directory
    /\ step \in {"recover", "validate", "prepare"} /\ op.gone => journal = None /\ index = {}
    /\ step \in {"extract", "fallback", "journal", "r_fallback"} \cup Restoring => directory /\ ~op.gone
    /\ step = "extract" => stage = "partial" /\ op.version \notin index
    /\ step \in {"fallback", "journal"} =>
         IF op.version \in index THEN stage = "absent" ELSE stage = "whole"
    /\ step = "journal" => fallback = current
    /\ step = "prepare" => fallback = NoVersion

\* An uninstall is pending.
Staging ==
    /\ launcher /\ directory
    /\ WholeAre(removal.of.owned)
    /\ current = IF "current" \in moved THEN NoVersion ELSE removal.of.current
    /\ previous = IF "previous" \in moved THEN NoVersion ELSE removal.of.previous
    /\ index = IF "index" \in moved THEN {} ELSE removal.of.owned
    /\ installed = IF "installed" \in moved THEN None ELSE removal.of

Committed ==
    /\ Agree(current, previous, index, installed) /\ installed = None
    /\ \A v \in Versions \ removal.of.owned : releases[v] = "absent"

Uninstalling ==
    removal # None =>
        /\ journal = None /\ stage = "absent"
        /\ Agree(removal.of.current, removal.of.previous, removal.of.owned, removal.of)
        /\ step \in {"idle", "remove"} \cup Removing
        /\ step = "move" => removal.kind = "staging"
        /\ step \in Removing \ {"move"} => removal.kind = "commit"
        /\ step \in {"unlink", "directory", "close"} => \A v \in Versions : releases[v] = "absent"
        /\ step \in {"directory", "close"} => moved = {}
        /\ IF removal.kind = "staging" THEN Staging ELSE Committed

\* A transaction that was not interrupted where it does not recover.
Recoverable ==
    ~unsafe =>
        /\ ~refused /\ ~stray
        /\ stage = "partial" => step \in {"extract", "r_unstaging"}
        /\ journal # None /\ releases[journal.new] = "partial" => step = "r_removing"
        /\ removal # None \/ step = "remove" => fallback = NoVersion
        /\ journal = None /\ step # "release" => fallback \in {NoVersion, current}

\* The inductive invariant.
IInv ==
    /\ Typed
    /\ OnCourse
    /\ Settled
    /\ Journaled
    /\ Restored
    /\ Switched
    /\ Prepared
    /\ Uninstalling
    /\ Recoverable
-----------------------------------------------------------------------------
\* What the fields of a journal are.
LEMMA JournalFields ==
  ASSUME Typed, journal # None
  PROVE  /\ journal \in Journals
         /\ journal.current \in Optionals /\ journal.previous \in Optionals
         /\ journal.index \subseteq Versions /\ journal.installed \in Installs \cup {None}
         /\ journal.new \in Versions /\ journal.created \in BOOLEAN /\ journal.launcher \in BOOLEAN
BY DEF Typed, Journals

\* What an uninstallation moves: the previous pointer only if there is one.
LEMMA ItemsAre ==
  /\ \A k \in 1..Len(Items) : Items[k] \in {"current", "index", "installed", "previous"}
  /\ \A n \in {"current", "index", "installed"} : \E k \in 1..Len(Items) : Items[k] = n
  /\ removal.of.previous # NoVersion => \E k \in 1..Len(Items) : Items[k] = "previous"
<1> DEFINE Names == {"current", "index", "installed", "previous"}
           first == <<"current", "index", "installed">>
           last == IF removal.of.previous = NoVersion THEN << >> ELSE <<"previous">>
<1>1. Items = first \o last
  BY DEF Items
<1>2. first \in Seq(Names)
  OBVIOUS
<1>3. last \in Seq(Names)
  <2>1. << >> \in Seq(Names) /\ <<"previous">> \in Seq(Names)
    OBVIOUS
  <2> QED
    BY <2>1
<1>4. /\ Len(first) = 3 /\ first[1] = "current" /\ first[2] = "index" /\ first[3] = "installed"
      /\ Len(last) = IF removal.of.previous = NoVersion THEN 0 ELSE 1
      /\ removal.of.previous # NoVersion => last[1] = "previous"
  OBVIOUS
<1> HIDE DEF first, last
<1>5. /\ Len(Items) = Len(first) + Len(last)
      /\ \A k \in 1..Len(first) : Items[k] = first[k]
      /\ \A k \in Len(first) + 1 .. Len(first) + Len(last) : Items[k] = last[k - Len(first)]
  BY <1>1, <1>2, <1>3, ConcatProperties
<1> QED
  BY <1>4, <1>5

\* The removal is committed when every one of them was moved.
LEMMA CommitsAll ==
  ASSUME CommitRemoval
  PROVE  /\ {"current", "index", "installed"} \subseteq moved
         /\ removal.of.previous = NoVersion \/ "previous" \in moved
BY ItemsAre DEF CommitRemoval
\* An installation or rollback starts on whatever the prefix holds.
LEMMA StartInstallKeeps ==
  ASSUME IInv, StartInstall
  PROVE  IInv'
<1> USE ReleasesAssumption DEF StartInstall, Start, pointers, records, uninstall, trees,
      history, Steps, Restoring, Switching, Preparing, Removing
<1>1. Typed'
  BY DEF IInv, Typed, Optionals, Trees, Operations
<1>2. OnCourse'
  BY DEF IInv, OnCourse, Uninstalling, None
<1>3. Settled'
  BY DEF IInv, Settled, WholeAre
<1>4. Journaled'
  BY DEF IInv, Journaled
<1>5. Restored'
  BY DEF IInv, Restored
<1>6. Switched'
  BY DEF IInv, Switched
<1>7. Prepared'
  BY DEF IInv, Prepared
<1>8. Uninstalling'
  BY DEF IInv, Uninstalling, WholeAre, Staging, Committed
<1>9. Recoverable'
  BY DEF IInv, Recoverable
<1> QED
  BY <1>1, <1>2, <1>3, <1>4, <1>5, <1>6, <1>7, <1>8, <1>9 DEF IInv

\* An uninstallation starts.
LEMMA StartUninstallKeeps ==
  ASSUME IInv, StartUninstall
  PROVE  IInv'
<1> USE ReleasesAssumption DEF StartUninstall, Start, Uninstallable, Valid, pointers, records,
      uninstall, trees, history, Steps, Restoring, Switching, Preparing, Removing
<1>1. Typed'
  BY DEF IInv, Typed, Optionals, Trees, Operations
<1>2. OnCourse'
  BY DEF IInv, OnCourse, Uninstalling, None
<1>3. Settled'
  BY DEF IInv, Settled, WholeAre
<1>4. Journaled'
  BY DEF IInv, Journaled
<1>5. Restored'
  BY DEF IInv, Restored
<1>6. Switched'
  BY DEF IInv, Switched
<1>7. Prepared'
  BY DEF IInv, Prepared
<1>8. Uninstalling'
  BY DEF IInv, Uninstalling, WholeAre, Staging, Committed
<1>9. Recoverable'
  BY DEF IInv, Recoverable
<1> QED
  BY <1>1, <1>2, <1>3, <1>4, <1>5, <1>6, <1>7, <1>8, <1>9 DEF IInv

\* Recovery begins, refuses, or finds nothing to recover.
LEMMA RecoverKeeps ==
  ASSUME IInv, Recover
  PROVE  IInv'
<1> USE ReleasesAssumption DEF Recover, Refuse, End, Valid, pointers, records, uninstall, trees,
      history, Steps, Restoring, Switching, Preparing, Removing
<1>1. Typed'
  BY DEF IInv, Typed
<1>2. OnCourse'
  BY DEF IInv, OnCourse
<1>3. Settled'
  BY DEF IInv, Settled, WholeAre
<1>4. Journaled'
  BY DEF IInv, Journaled
<1>5. Restored'
  BY DEF IInv, Restored
<1>6. Switched'
  BY DEF IInv, Switched
<1>7. Prepared'
  BY DEF IInv, Prepared
<1>8. Uninstalling'
  BY DEF IInv, Uninstalling, WholeAre, Staging, Committed
<1>9. Recoverable'
  BY DEF IInv, Recoverable, Journaled, Agree, Typed, Optionals
<1> QED
  BY <1>1, <1>2, <1>3, <1>4, <1>5, <1>6, <1>7, <1>8, <1>9 DEF IInv

\* Recovery puts the two pointers back to what the journal recorded.
LEMMA RestorePointersKeeps ==
  ASSUME IInv, RestorePointers
  PROVE  IInv'
<1> USE ReleasesAssumption DEF RestorePointers, Go, pointers, records, uninstall, trees,
      history, Steps, Restoring, Switching, Preparing, Removing
<1>1. Typed'
  <2>1. journal.current \in Optionals /\ journal.previous \in Optionals
    BY JournalFields DEF IInv, OnCourse
  <2>2. /\ UNCHANGED <<fallback, index, installed, journal, removal, moved, releases, stage, stray,
                       directory, launcher, refused, unsafe, op, operations, crashes>>
        /\ step' \in Steps
    BY DEF history
  <2>3. current' \in {current, journal.current} /\ previous' \in {previous, journal.previous}
    OBVIOUS
  <2> QED
    BY <2>1, <2>2, <2>3 DEF IInv, Typed
<1>2. OnCourse'
  BY DEF IInv, OnCourse
<1>3. Settled'
  BY DEF IInv, Settled, WholeAre, OnCourse
<1>4. Journaled'
  BY DEF IInv, Journaled
<1>5. Restored'
  BY DEF IInv, Restored
<1>6. Switched'
  BY DEF IInv, Switched
<1>7. Prepared'
  BY DEF IInv, Prepared
<1>8. Uninstalling'
  BY DEF IInv, Uninstalling, WholeAre, Staging, Committed
<1>9. Recoverable'
  BY DEF IInv, Recoverable, OnCourse
<1> QED
  BY <1>1, <1>2, <1>3, <1>4, <1>5, <1>6, <1>7, <1>8, <1>9 DEF IInv

\* Recovery puts the index, the installation record and the launcher back.
LEMMA RestoreRecordsKeeps ==
  ASSUME IInv, RestoreRecords
  PROVE  IInv'
<1> USE ReleasesAssumption DEF RestoreRecords, Go, pointers, records, uninstall, trees, history,
      Steps, Restoring, Switching, Preparing, Removing
<1>1. Typed'
  <2>1. journal.index \subseteq Versions /\ journal.installed \in Installs \cup {None}
    BY JournalFields DEF IInv, OnCourse
  <2>2. /\ UNCHANGED <<current, previous, fallback, journal, removal, moved, releases, stage, stray,
                       directory, refused, unsafe, op, operations, crashes>>
        /\ step' \in Steps
    BY DEF history
  <2>3. /\ index' \in {index, journal.index} /\ installed' \in {installed, journal.installed}
        /\ launcher' \in {launcher, launcher /\ ~journal.launcher}
    BY Zenon
  <2>4. launcher' \in BOOLEAN
    BY <2>3 DEF IInv, Typed
  <2> QED
    BY <2>1, <2>2, <2>3, <2>4 DEF IInv, Typed
<1>2. OnCourse'
  BY DEF IInv, OnCourse
<1>3. Settled'
  BY DEF IInv, Settled, WholeAre, OnCourse
<1>4. Journaled'
  BY DEF IInv, Journaled
<1>5. Restored'
  BY DEF IInv, Restored
<1>6. Switched'
  BY DEF IInv, Switched
<1>7. Prepared'
  BY DEF IInv, Prepared
<1>8. Uninstalling'
  BY DEF IInv, Uninstalling, WholeAre, Staging, Committed
<1>9. Recoverable'
  BY DEF IInv, Recoverable
<1> QED
  BY <1>1, <1>2, <1>3, <1>4, <1>5, <1>6, <1>7, <1>8, <1>9 DEF IInv

\* Recovery takes away the release that was being published, if it had created it.
LEMMA RemoveReleaseKeeps ==
  ASSUME IInv, RemoveRelease
  PROVE  IInv'
<1> USE ReleasesAssumption DEF RemoveRelease, Refuse, End, Go, pointers, records, uninstall,
      trees, history, Steps, Restoring, Switching, Preparing, Removing
<1>1. Typed'
  BY DEF IInv, Typed, Optionals, Trees, Operations
<1>2. OnCourse'
  BY DEF IInv, OnCourse
<1>3. Settled'
  BY DEF IInv, Settled, WholeAre, OnCourse
<1>4. Journaled'
  <2>1. UNCHANGED <<pointers, records, uninstall, stage, directory, launcher>>
    OBVIOUS
  <2>2. CASE UNCHANGED releases
    BY <2>1, <2>2 DEF IInv, Journaled
  <2>3. CASE releases' # releases
    <3>1. /\ journal.created /\ releases[journal.new] = "whole"
          /\ releases' = [releases EXCEPT ![journal.new] = "partial"]
      BY <2>3
    <3>2. journal # None /\ journal.new \in Versions /\ releases \in [Versions -> Trees]
      BY JournalFields DEF IInv, OnCourse, Typed
    <3>3. /\ releases'[journal.new] = "partial"
          /\ \A v \in Versions : v # journal.new => releases'[v] = releases[v]
      BY <3>1, <3>2
    <3>4. stage = "absent"
      BY <3>1, <3>2 DEF IInv, Journaled
    <3> QED
      BY <2>1, <3>1, <3>2, <3>3, <3>4 DEF IInv, Journaled
  <2> QED
    BY <2>2, <2>3
<1>5. Restored'
  BY DEF IInv, Restored, OnCourse, Journaled, Typed, Trees, Journals
<1>6. Switched'
  BY DEF IInv, Switched
<1>7. Prepared'
  BY DEF IInv, Prepared
<1>8. Uninstalling'
  BY DEF IInv, Uninstalling, WholeAre, Staging, Committed
<1>9. Recoverable'
  BY DEF IInv, Recoverable, OnCourse, None, Journaled
<1> QED
  BY <1>1, <1>2, <1>3, <1>4, <1>5, <1>6, <1>7, <1>8, <1>9 DEF IInv

\* The tree of that release is gone.
LEMMA ReleaseRemovedKeeps ==
  ASSUME IInv, ReleaseRemoved
  PROVE  IInv'
<1> USE ReleasesAssumption DEF ReleaseRemoved, Go, pointers, records, uninstall, trees, history,
      Steps, Restoring, Switching, Preparing, Removing
<1>1. Typed'
  BY DEF IInv, Typed, Trees, OnCourse
<1>2. OnCourse'
  BY DEF IInv, OnCourse
<1>3. Settled'
  BY DEF IInv, Settled, WholeAre, OnCourse
<1>4. Journaled'
  BY DEF IInv, Journaled, Restored
<1>5. Restored'
  BY DEF IInv, Restored, OnCourse, Typed, Journals
<1>6. Switched'
  BY DEF IInv, Switched
<1>7. Prepared'
  BY DEF IInv, Prepared
<1>8. Uninstalling'
  BY DEF IInv, Uninstalling, WholeAre, Staging, Committed
<1>9. Recoverable'
  <2>1. journal # None /\ journal.new \in Versions /\ releases \in [Versions -> Trees]
    BY JournalFields DEF IInv, OnCourse, Typed
  <2>2. releases'[journal.new] = "absent"
    BY <2>1
  <2> QED
    BY <2>1, <2>2 DEF IInv, Recoverable, OnCourse
<1> QED
  BY <1>1, <1>2, <1>3, <1>4, <1>5, <1>6, <1>7, <1>8, <1>9 DEF IInv

\* Recovery takes away the staged release.
LEMMA RemoveStageKeeps ==
  ASSUME IInv, RemoveStage
  PROVE  IInv'
<1> USE ReleasesAssumption DEF RemoveStage, Refuse, End, Go, pointers, records, uninstall,
      trees, history, Steps, Restoring, Switching, Preparing, Removing
<1>1. Typed'
  <2>1. /\ UNCHANGED <<pointers, records, uninstall, releases, stray, directory, launcher, unsafe,
                       operations, crashes>>
        /\ stage' \in {stage, "partial"} /\ step' \in Steps /\ op' \in {op, None}
    OBVIOUS
  <2>2. refused' = refused \/ refused' = TRUE
    OBVIOUS
  <2> HIDE DEF RemoveStage
  <2>3. refused' \in BOOLEAN
    BY <2>2 DEF IInv, Typed
  <2> QED
    BY <2>1, <2>3 DEF IInv, Typed, Trees
<1>2. OnCourse'
  BY DEF IInv, OnCourse
<1>3. Settled'
  BY DEF IInv, Settled, WholeAre
<1>4. Journaled'
  BY DEF IInv, Journaled
<1>5. Restored'
  BY DEF IInv, Restored, Typed, Trees
<1>6. Switched'
  BY DEF IInv, Switched
<1>7. Prepared'
  BY DEF IInv, Prepared
<1>8. Uninstalling'
  BY DEF IInv, Uninstalling, WholeAre, Staging, Committed
<1>9. Recoverable'
  BY DEF IInv, Recoverable
<1> QED
  BY <1>1, <1>2, <1>3, <1>4, <1>5, <1>6, <1>7, <1>8, <1>9 DEF IInv

\* The staged tree is gone.
LEMMA StageRemovedKeeps ==
  ASSUME IInv, StageRemoved
  PROVE  IInv'
<1> USE ReleasesAssumption DEF StageRemoved, Go, pointers, records, uninstall, trees, history,
      Steps, Restoring, Switching, Preparing, Removing
<1>1. Typed'
  BY DEF IInv, Typed, Optionals, Trees, Operations
<1>2. OnCourse'
  BY DEF IInv, OnCourse
<1>3. Settled'
  BY DEF IInv, Settled, WholeAre
<1>4. Journaled'
  BY DEF IInv, Journaled
<1>5. Restored'
  BY DEF IInv, Restored
<1>6. Switched'
  BY DEF IInv, Switched
<1>7. Prepared'
  BY DEF IInv, Prepared
<1>8. Uninstalling'
  BY DEF IInv, Uninstalling, WholeAre, Staging, Committed
<1>9. Recoverable'
  BY DEF IInv, Recoverable
<1> QED
  BY <1>1, <1>2, <1>3, <1>4, <1>5, <1>6, <1>7, <1>8, <1>9 DEF IInv

\* The journal is removed, and the fallback if it was in use.
LEMMA RecoveredKeeps ==
  ASSUME IInv, Recovered
  PROVE  IInv'
<1> USE ReleasesAssumption DEF Recovered, Go, pointers, records, uninstall, trees, history,
      Steps, Restoring, Switching, Preparing, Removing
<1>1. Typed'
  <2>1. /\ UNCHANGED <<current, previous, index, installed, removal, moved, releases, stage, stray,
                       directory, launcher, refused, unsafe, op, operations, crashes>>
        /\ step' \in Steps
    BY DEF history
  <2>2. journal' \in {journal, None} /\ fallback' \in {fallback, NoVersion}
    OBVIOUS
  <2> QED
    BY <2>1, <2>2 DEF IInv, Typed, Optionals
<1>2. OnCourse'
  BY DEF IInv, OnCourse
<1>3. Settled'
  <2>1. UNCHANGED <<current, previous, index, installed, removal, moved, releases, directory, launcher>>
    OBVIOUS
  <2>2. CASE step = "r_journal"
    <3>1. /\ journal # None /\ stage = "absent" /\ removal = None /\ moved = {} /\ directory
          /\ current = journal.current /\ previous = journal.previous /\ index = journal.index
          /\ installed = journal.installed
      BY <2>2 DEF IInv, OnCourse, Restored, Journaled
    <3>2. Agree(current, previous, index, installed)
      BY <3>1 DEF IInv, Journaled
    <3>3. installed # None => launcher
      BY <3>1 DEF IInv, Journaled
    <3>4. WholeAre(index)
      BY <2>2, <3>1 DEF IInv, Journaled, Restored, WholeAre
    <3> QED
      BY <2>1, <3>1, <3>2, <3>3, <3>4 DEF Settled, WholeAre
  <2>3. CASE step = "r_fallback"
    <3>1. journal = None /\ UNCHANGED journal
      BY <2>3 DEF IInv, OnCourse
    <3> QED
      BY <2>1, <3>1 DEF IInv, Settled, WholeAre
  <2> QED
    BY <2>2, <2>3
<1>4. Journaled'
  BY DEF IInv, Journaled, OnCourse
<1>5. Restored'
  BY DEF IInv, Restored
<1>6. Switched'
  BY DEF IInv, Switched
<1>7. Prepared'
  <2>1. UNCHANGED <<stage, directory, op, index>>
    OBVIOUS
  <2>2. CASE step = "r_journal"
    <3>1. stage = "absent" /\ directory /\ ~op.gone /\ step' = "r_fallback"
      BY <2>2 DEF IInv, Prepared, Restored
    <3> QED
      BY <2>1, <2>2, <3>1 DEF Prepared
  <2>3. CASE step = "r_fallback"
    <3>1. journal' = None /\ step' = "validate" /\ stage = "absent" /\ directory /\ ~op.gone
      BY <2>3 DEF IInv, OnCourse, Prepared
    <3> QED
      BY <2>1, <2>3, <3>1 DEF IInv, Prepared
  <2> QED
    BY <2>2, <2>3
<1>8. Uninstalling'
  BY DEF IInv, Uninstalling, WholeAre, Staging, Committed
<1>9. Recoverable'
  BY DEF IInv, Recoverable, Journaled, Restored
<1> QED
  BY <1>1, <1>2, <1>3, <1>4, <1>5, <1>6, <1>7, <1>8, <1>9 DEF IInv

\* The pointers are validated, and a fallback without a journal goes.
LEMMA ValidateKeeps ==
  ASSUME IInv, Validate
  PROVE  IInv'
<1> USE ReleasesAssumption DEF Validate, Valid, Refuse, End, Go, pointers, records, uninstall,
      trees, history, Steps, Restoring, Switching, Preparing, Removing
<1>1. Typed'
  BY DEF IInv, Typed, Optionals, Trees, Operations
<1>2. OnCourse'
  BY DEF IInv, OnCourse
<1>3. Settled'
  BY DEF IInv, Settled, WholeAre
<1>4. Journaled'
  BY DEF IInv, Journaled, OnCourse
<1>5. Restored'
  BY DEF IInv, Restored
<1>6. Switched'
  BY DEF IInv, Switched
<1>7. Prepared'
  BY DEF IInv, Prepared
<1>8. Uninstalling'
  BY DEF IInv, Uninstalling, WholeAre, Staging, Committed
<1>9. Recoverable'
  BY DEF IInv, Recoverable, OnCourse, Settled, Agree, WholeAre, Typed
<1> QED
  BY <1>1, <1>2, <1>3, <1>4, <1>5, <1>6, <1>7, <1>8, <1>9 DEF IInv

\* A release that is there is used, and an archive starts to be unpacked.
LEMMA PrepareKeeps ==
  ASSUME IInv, Prepare
  PROVE  IInv'
<1> USE ReleasesAssumption DEF Prepare, Refuse, End, Go, pointers, records, uninstall, trees,
      history, Steps, Restoring, Switching, Preparing, Removing
<1>1. Typed'
  <2>1. /\ UNCHANGED <<pointers, records, uninstall, releases, stray, directory, launcher, unsafe,
                       operations, crashes>>
        /\ stage' \in {stage, "partial"} /\ step' \in Steps /\ op' \in {op, None}
    OBVIOUS
  <2>2. refused' = refused \/ refused' = TRUE
    OBVIOUS
  <2> HIDE DEF Prepare
  <2>3. refused' \in BOOLEAN
    BY <2>2 DEF IInv, Typed
  <2> QED
    BY <2>1, <2>3 DEF IInv, Typed, Trees
<1>2. OnCourse'
  BY DEF IInv, OnCourse
<1>3. Settled'
  BY DEF IInv, Settled, WholeAre
<1>4. Journaled'
  BY DEF IInv, Journaled, OnCourse
<1>5. Restored'
  BY DEF IInv, Restored
<1>6. Switched'
  BY DEF IInv, Switched
<1>7. Prepared'
  BY DEF IInv, Prepared, OnCourse, Settled, WholeAre
<1>8. Uninstalling'
  BY DEF IInv, Uninstalling, WholeAre, Staging, Committed
<1>9. Recoverable'
  BY DEF IInv, Recoverable, OnCourse, Settled, WholeAre, Typed, Operations
<1> QED
  BY <1>1, <1>2, <1>3, <1>4, <1>5, <1>6, <1>7, <1>8, <1>9 DEF IInv

\* The release is staged as a whole.
LEMMA ExtractKeeps ==
  ASSUME IInv, Extract
  PROVE  IInv'
<1> USE ReleasesAssumption DEF Extract, Go, pointers, records, uninstall, trees, history, Steps,
      Restoring, Switching, Preparing, Removing
<1>1. Typed'
  BY DEF IInv, Typed, Optionals, Trees, Operations
<1>2. OnCourse'
  BY DEF IInv, OnCourse
<1>3. Settled'
  BY DEF IInv, Settled, WholeAre
<1>4. Journaled'
  BY DEF IInv, Journaled, OnCourse
<1>5. Restored'
  BY DEF IInv, Restored
<1>6. Switched'
  BY DEF IInv, Switched
<1>7. Prepared'
  BY DEF IInv, Prepared
<1>8. Uninstalling'
  BY DEF IInv, Uninstalling, WholeAre, Staging, Committed
<1>9. Recoverable'
  BY DEF IInv, Recoverable
<1> QED
  BY <1>1, <1>2, <1>3, <1>4, <1>5, <1>6, <1>7, <1>8, <1>9 DEF IInv

\* The fallback keeps the running release.
LEMMA KeepFallbackKeeps ==
  ASSUME IInv, KeepFallback
  PROVE  IInv'
<1> USE ReleasesAssumption DEF KeepFallback, Go, pointers, records, uninstall, trees, history,
      Steps, Restoring, Switching, Preparing, Removing
<1>1. Typed'
  BY DEF IInv, Typed
<1>2. OnCourse'
  BY DEF IInv, OnCourse
<1>3. Settled'
  BY DEF IInv, Settled, WholeAre
<1>4. Journaled'
  BY DEF IInv, Journaled, OnCourse
<1>5. Restored'
  BY DEF IInv, Restored
<1>6. Switched'
  BY DEF IInv, Switched
<1>7. Prepared'
  BY DEF IInv, Prepared
<1>8. Uninstalling'
  BY DEF IInv, Uninstalling, WholeAre, Staging, Committed
<1>9. Recoverable'
  BY DEF IInv, Recoverable, OnCourse
<1> QED
  BY <1>1, <1>2, <1>3, <1>4, <1>5, <1>6, <1>7, <1>8, <1>9 DEF IInv

\* The journal records what recovery would have to restore.
LEMMA WriteJournalKeeps ==
  ASSUME IInv, WriteJournal
  PROVE  IInv'
<1> USE ReleasesAssumption DEF WriteJournal, Go, pointers, records, uninstall, trees, history,
      Steps, Restoring, Switching, Preparing, Removing
<1>1. Typed'
  BY DEF IInv, Typed, OnCourse, Journals
<1>2. OnCourse'
  BY DEF IInv, OnCourse, Operations, None
<1>3. Settled'
  BY DEF IInv, Settled, WholeAre, OnCourse
<1>4. Journaled'
  BY DEF IInv, Journaled, OnCourse, Settled, Prepared, WholeAre
<1>5. Restored'
  BY DEF IInv, Restored
<1>6. Switched'
  BY DEF IInv, Switched, OnCourse, Prepared, Settled, WholeAre
<1>7. Prepared'
  BY DEF IInv, Prepared, OnCourse, None
<1>8. Uninstalling'
  BY DEF IInv, Uninstalling, WholeAre, Staging, Committed
<1>9. Recoverable'
  BY DEF IInv, Recoverable, OnCourse, Settled, WholeAre
<1> QED
  BY <1>1, <1>2, <1>3, <1>4, <1>5, <1>6, <1>7, <1>8, <1>9 DEF IInv

\* The staged tree is renamed into place.
LEMMA PublishKeeps ==
  ASSUME IInv, Publish
  PROVE  IInv'
<1> USE ReleasesAssumption DEF Publish, Go, pointers, records, uninstall, trees, history, Steps,
      Restoring, Switching, Preparing, Removing
<1>1. Typed'
  BY DEF IInv, Typed, Optionals, Trees, Operations
<1>2. OnCourse'
  BY DEF IInv, OnCourse
<1>3. Settled'
  BY DEF IInv, Settled, WholeAre, OnCourse
<1>4. Journaled'
  BY DEF IInv, Journaled, Switched, Typed
<1>5. Restored'
  BY DEF IInv, Restored
<1>6. Switched'
  BY DEF IInv, Switched, OnCourse, Journaled, Typed
<1>7. Prepared'
  BY DEF IInv, Prepared
<1>8. Uninstalling'
  BY DEF IInv, Uninstalling, WholeAre, Staging, Committed
<1>9. Recoverable'
  BY DEF IInv, Recoverable, Switched, Typed
<1> QED
  BY <1>1, <1>2, <1>3, <1>4, <1>5, <1>6, <1>7, <1>8, <1>9 DEF IInv

\* The launcher is placed.
LEMMA PlaceLauncherKeeps ==
  ASSUME IInv, PlaceLauncher
  PROVE  IInv'
<1> USE ReleasesAssumption DEF PlaceLauncher, Go, pointers, records, uninstall, trees, history,
      Steps, Restoring, Switching, Preparing, Removing
<1>1. Typed'
  BY DEF IInv, Typed
<1>2. OnCourse'
  BY DEF IInv, OnCourse
<1>3. Settled'
  BY DEF IInv, Settled, WholeAre
<1>4. Journaled'
  BY DEF IInv, Journaled
<1>5. Restored'
  BY DEF IInv, Restored
<1>6. Switched'
  BY DEF IInv, Switched
<1>7. Prepared'
  BY DEF IInv, Prepared
<1>8. Uninstalling'
  BY DEF IInv, Uninstalling, WholeAre, Staging, Committed
<1>9. Recoverable'
  BY DEF IInv, Recoverable
<1> QED
  BY <1>1, <1>2, <1>3, <1>4, <1>5, <1>6, <1>7, <1>8, <1>9 DEF IInv

\* A pointer is switched.
LEMMA SwitchPointersKeeps ==
  ASSUME IInv, SwitchPointers
  PROVE  IInv'
<1> USE ReleasesAssumption DEF SwitchPointers, Go, pointers, records, uninstall, trees, history,
      Steps, Restoring, Switching, Preparing, Removing
<1>1. Typed'
  <2>1. journal.current \in Optionals /\ op.version \in Optionals
    BY JournalFields DEF IInv, OnCourse, Optionals
  <2>2. /\ UNCHANGED <<fallback, records, uninstall, trees, refused, unsafe, op, operations, crashes>>
        /\ step' \in Steps
    OBVIOUS
  <2>3. current' \in {current, op.version} /\ previous' \in {previous, journal.current}
    OBVIOUS
  <2> QED
    BY <2>1, <2>2, <2>3 DEF IInv, Typed
<1>2. OnCourse'
  BY DEF IInv, OnCourse
<1>3. Settled'
  BY DEF IInv, Settled, WholeAre, OnCourse
<1>4. Journaled'
  BY DEF IInv, Journaled
<1>5. Restored'
  BY DEF IInv, Restored
<1>6. Switched'
  BY DEF IInv, Switched
<1>7. Prepared'
  BY DEF IInv, Prepared
<1>8. Uninstalling'
  BY DEF IInv, Uninstalling, WholeAre, Staging, Committed
<1>9. Recoverable'
  BY DEF IInv, Recoverable, OnCourse
<1> QED
  BY <1>1, <1>2, <1>3, <1>4, <1>5, <1>6, <1>7, <1>8, <1>9 DEF IInv

\* The index or the installation record is written.
LEMMA WriteRecordsKeeps ==
  ASSUME IInv, WriteRecords
  PROVE  IInv'
<1> USE ReleasesAssumption DEF WriteRecords, Go, pointers, records, uninstall, trees, history,
      Steps, Restoring, Switching, Preparing, Removing
<1>1. Typed'
  <2>1. /\ UNCHANGED <<pointers, journal, uninstall, trees, refused, unsafe, op, operations, crashes>>
        /\ step' \in Steps
    OBVIOUS
  <2>2. CASE step = "index"
    <3>1. op.version \in Versions
      BY <2>2 DEF IInv, OnCourse
    <3>2. index' = index \cup {op.version} /\ UNCHANGED installed
      BY <2>2
    <3> QED
      BY <2>1, <3>1, <3>2 DEF IInv, Typed
  <2>3. CASE step = "installed"
    <3> DEFINE created == IF journal.installed = None THEN journal.launcher
                          ELSE journal.installed.created
    <3>1. journal.installed \in Installs \cup {None} /\ journal.launcher \in BOOLEAN
      BY <2>3, JournalFields DEF IInv, OnCourse
    <3>2. created \in BOOLEAN
      BY <3>1 DEF Installs
    <3>3. /\ installed' = [kind |-> "installed", current |-> current, previous |-> previous,
                          owned |-> index, created |-> created]
          /\ UNCHANGED index
      BY <2>3
    <3> HIDE DEF created
    <3>4. installed' \in Installs
      BY <3>2, <3>3 DEF IInv, Typed, Installs
    <3> QED
      BY <2>1, <3>3, <3>4 DEF IInv, Typed
  <2> QED
    BY <2>2, <2>3
<1>2. OnCourse'
  BY DEF IInv, OnCourse
<1>3. Settled'
  BY DEF IInv, Settled, WholeAre, OnCourse
<1>4. Journaled'
  BY DEF IInv, Journaled
<1>5. Restored'
  BY DEF IInv, Restored
<1>6. Switched'
  BY DEF IInv, Switched, OnCourse, None
<1>7. Prepared'
  BY DEF IInv, Prepared
<1>8. Uninstalling'
  BY DEF IInv, Uninstalling, WholeAre, Staging, Committed
<1>9. Recoverable'
  BY DEF IInv, Recoverable
<1> QED
  BY <1>1, <1>2, <1>3, <1>4, <1>5, <1>6, <1>7, <1>8, <1>9 DEF IInv

\* The journal is unlinked: what was switched is what is settled.
LEMMA CommitKeeps ==
  ASSUME IInv, Commit
  PROVE  IInv'
<1> USE ReleasesAssumption DEF Commit, Go, pointers, records, uninstall, trees, history, Steps,
      Restoring, Switching, Preparing, Removing
<1>1. Typed'
  BY DEF IInv, Typed
<1>2. OnCourse'
  BY DEF IInv, OnCourse
<1>3. Settled'
  BY DEF IInv, Settled, WholeAre, Agree, Journaled, Switched
<1>4. Journaled'
  BY DEF IInv, Journaled
<1>5. Restored'
  BY DEF IInv, Restored
<1>6. Switched'
  BY DEF IInv, Switched
<1>7. Prepared'
  BY DEF IInv, Prepared, Switched
<1>8. Uninstalling'
  BY DEF IInv, Uninstalling, WholeAre, Staging, Committed
<1>9. Recoverable'
  BY DEF IInv, Recoverable
<1> QED
  BY <1>1, <1>2, <1>3, <1>4, <1>5, <1>6, <1>7, <1>8, <1>9 DEF IInv

\* The fallback is released.
LEMMA ReleaseFallbackKeeps ==
  ASSUME IInv, ReleaseFallback
  PROVE  IInv'
<1> USE ReleasesAssumption DEF ReleaseFallback, End, pointers, records, uninstall, trees,
      history, Steps, Restoring, Switching, Preparing, Removing
<1>1. Typed'
  BY DEF IInv, Typed, Optionals, Trees, Operations
<1>2. OnCourse'
  BY DEF IInv, OnCourse
<1>3. Settled'
  BY DEF IInv, Settled, WholeAre
<1>4. Journaled'
  BY DEF IInv, Journaled, OnCourse
<1>5. Restored'
  BY DEF IInv, Restored
<1>6. Switched'
  BY DEF IInv, Switched
<1>7. Prepared'
  BY DEF IInv, Prepared
<1>8. Uninstalling'
  BY DEF IInv, Uninstalling, WholeAre, Staging, Committed
<1>9. Recoverable'
  BY DEF IInv, Recoverable
<1> QED
  BY <1>1, <1>2, <1>3, <1>4, <1>5, <1>6, <1>7, <1>8, <1>9 DEF IInv

\* The removal is staged, or an earlier one is taken up.
LEMMA OpenRemovalKeeps ==
  ASSUME IInv, OpenRemoval
  PROVE  IInv'
<1> USE ReleasesAssumption DEF OpenRemoval, Go, pointers, records, uninstall, trees, history,
      Steps, Restoring, Switching, Preparing, Removing
<1>1. Typed'
  <2>1. removal' \in Removals
    <3>1. CASE removal = None
      <4>1. installed \in Installs
        BY <3>1 DEF IInv, Typed, OnCourse
      <4> QED
        BY <3>1, <4>1 DEF Removals
    <3>2. CASE removal # None
      BY <3>2 DEF IInv, Typed
    <3> QED
      BY <3>1, <3>2
  <2>2. /\ UNCHANGED <<pointers, records, moved, trees, refused, unsafe, op, operations, crashes>>
        /\ step' \in {"move", "delete"}
    OBVIOUS
  <2> QED
    BY <2>1, <2>2 DEF IInv, Typed
<1>2. OnCourse'
  BY DEF IInv, OnCourse, Operations, None
<1>3. Settled'
  BY DEF IInv, Settled, WholeAre
<1>4. Journaled'
  BY DEF IInv, OnCourse, Journaled
<1>5. Restored'
  BY DEF IInv, Restored
<1>6. Switched'
  BY DEF IInv, Switched
<1>7. Prepared'
  BY DEF IInv, Prepared
<1>8. Uninstalling'
  <2>1. UNCHANGED <<pointers, records, trees, moved>> /\ step = "remove"
    OBVIOUS
  <2>2. CASE removal = None
    <3>1. /\ installed # None /\ journal = None /\ stage = "absent" /\ moved = {}
          /\ Agree(current, previous, index, installed) /\ launcher /\ directory /\ WholeAre(index)
      BY <2>1, <2>2 DEF IInv, OnCourse, Prepared, Settled
    <3>2. installed.current = current /\ installed.previous = previous /\ installed.owned = index
      BY <3>1 DEF Agree
    <3>3. removal' = [kind |-> "staging", of |-> installed] /\ step' = "move"
      BY <2>2
    <3>4. removal'.kind = "staging" /\ removal'.of = installed /\ removal' # None
      BY <3>3 DEF None
    <3>5. Staging'
      BY <2>1, <3>1, <3>2, <3>4 DEF Staging, WholeAre
    <3> QED
      BY <2>1, <3>1, <3>2, <3>3, <3>4, <3>5 DEF Uninstalling
  <2>3. CASE removal # None
    <3>1. removal' = removal /\ step' = IF removal.kind = "staging" THEN "move" ELSE "delete"
      BY <2>3
    <3>2. removal.kind # "staging" => removal.kind = "commit"
      BY <2>3 DEF IInv, Typed, Removals
    <3> QED
      BY <2>1, <2>3, <3>1, <3>2 DEF IInv, Uninstalling, Staging, Committed, WholeAre
  <2> QED
    BY <2>2, <2>3
<1>9. Recoverable'
  BY DEF IInv, Recoverable
<1> QED
  BY <1>1, <1>2, <1>3, <1>4, <1>5, <1>6, <1>7, <1>8, <1>9 DEF IInv

\* Everything was moved: the prefix has no pointers or records left.
LEMMA CommitRemovalKeeps ==
  ASSUME IInv, CommitRemoval
  PROVE  IInv'
<1> USE ReleasesAssumption DEF CommitRemoval, Go, pointers, records, uninstall, trees, history,
      Steps, Restoring, Switching, Preparing, Removing
<1>1. Typed'
  BY DEF IInv, Typed, OnCourse, Removals
<1>2. OnCourse'
  BY DEF IInv, OnCourse, Operations, None
<1>3. Settled'
  BY DEF IInv, Settled, WholeAre, OnCourse, None
<1>4. Journaled'
  BY DEF IInv, Journaled, OnCourse
<1>5. Restored'
  BY DEF IInv, Restored
<1>6. Switched'
  BY DEF IInv, Switched
<1>7. Prepared'
  BY DEF IInv, Prepared
<1>8. Uninstalling'
  <2>1. /\ UNCHANGED <<pointers, records, trees, moved>> /\ step = "move" /\ step' = "delete"
        /\ removal' = [removal EXCEPT !.kind = "commit"] /\ removal # None
    BY DEF IInv, OnCourse
  <2>2. removal \in Removals /\ removal.kind = "staging"
    BY <2>1 DEF IInv, Typed, Uninstalling
  <2>3. removal'.kind = "commit" /\ removal'.of = removal.of
    BY <2>1, <2>2 DEF Removals
  <2>4. Staging /\ Agree(removal.of.current, removal.of.previous, removal.of.owned, removal.of)
    BY <2>1, <2>2 DEF IInv, Uninstalling
  <2>5. {"current", "index", "installed"} \subseteq moved
    BY CommitsAll
  <2>6. removal.of.previous = NoVersion \/ "previous" \in moved
    BY CommitsAll
  <2>7. current = NoVersion /\ previous = NoVersion /\ index = {} /\ installed = None
    BY <2>4, <2>5, <2>6 DEF Staging
  <2>8. Committed'
    BY <2>1, <2>3, <2>4, <2>7 DEF Staging, Committed, Agree, WholeAre
  <2> QED
    BY <2>1, <2>2, <2>3, <2>4, <2>8 DEF IInv, Uninstalling
<1>9. Recoverable'
  BY DEF IInv, Recoverable, OnCourse
<1> QED
  BY <1>1, <1>2, <1>3, <1>4, <1>5, <1>6, <1>7, <1>8, <1>9 DEF IInv

\* An owned release is deleted.
LEMMA DeleteReleaseKeeps ==
  ASSUME IInv, DeleteRelease
  PROVE  IInv'
<1> USE ReleasesAssumption DEF DeleteRelease, pointers, records, uninstall, trees, history,
      Steps, Restoring, Switching, Preparing, Removing
<1>1. Typed'
  BY DEF IInv, Typed, Trees, OnCourse, Installs, Removals
<1>2. OnCourse'
  BY DEF IInv, OnCourse
<1>3. Settled'
  BY DEF IInv, Settled, WholeAre, OnCourse
<1>4. Journaled'
  BY DEF IInv, Journaled, OnCourse
<1>5. Restored'
  BY DEF IInv, Restored
<1>6. Switched'
  BY DEF IInv, Switched
<1>7. Prepared'
  BY DEF IInv, Prepared
<1>8. Uninstalling'
  BY DEF IInv, Uninstalling, WholeAre, Staging, Committed
<1>9. Recoverable'
  BY DEF IInv, Recoverable, OnCourse, None, Journaled
<1> QED
  BY <1>1, <1>2, <1>3, <1>4, <1>5, <1>6, <1>7, <1>8, <1>9 DEF IInv

\* The launcher is deleted, if the installation had created it.
LEMMA DeleteLauncherKeeps ==
  ASSUME IInv, DeleteLauncher
  PROVE  IInv'
<1> USE ReleasesAssumption DEF DeleteLauncher, Go, pointers, records, uninstall, trees, history,
      Steps, Restoring, Switching, Preparing, Removing
<1>1. Typed'
  BY DEF IInv, Typed
<1>2. OnCourse'
  BY DEF IInv, OnCourse
<1>3. Settled'
  BY DEF IInv, Settled, WholeAre, OnCourse
<1>4. Journaled'
  BY DEF IInv, Journaled, OnCourse
<1>5. Restored'
  BY DEF IInv, Restored
<1>6. Switched'
  BY DEF IInv, Switched
<1>7. Prepared'
  BY DEF IInv, Prepared
<1>8. Uninstalling'
  BY DEF IInv, Uninstalling, WholeAre, Staging, Committed
<1>9. Recoverable'
  BY DEF IInv, Recoverable
<1> QED
  BY <1>1, <1>2, <1>3, <1>4, <1>5, <1>6, <1>7, <1>8, <1>9 DEF IInv

\* What was moved is deleted.
LEMMA DeleteMetadataKeeps ==
  ASSUME IInv, DeleteMetadata
  PROVE  IInv'
<1> USE ReleasesAssumption DEF DeleteMetadata, Go, pointers, records, uninstall, trees, history,
      Steps, Restoring, Switching, Preparing, Removing
<1>1. Typed'
  BY DEF IInv, Typed
<1>2. OnCourse'
  BY DEF IInv, OnCourse
<1>3. Settled'
  BY DEF IInv, Settled, WholeAre
<1>4. Journaled'
  BY DEF IInv, Journaled
<1>5. Restored'
  BY DEF IInv, Restored
<1>6. Switched'
  BY DEF IInv, Switched
<1>7. Prepared'
  BY DEF IInv, Prepared
<1>8. Uninstalling'
  BY DEF IInv, Uninstalling, WholeAre, Staging, Committed
<1>9. Recoverable'
  BY DEF IInv, Recoverable
<1> QED
  BY <1>1, <1>2, <1>3, <1>4, <1>5, <1>6, <1>7, <1>8, <1>9 DEF IInv

\* The directory is deleted.
LEMMA DeleteDirectoryKeeps ==
  ASSUME IInv, DeleteDirectory
  PROVE  IInv'
<1> USE ReleasesAssumption DEF DeleteDirectory, Refuse, End, Go, pointers, records, uninstall,
      trees, history, Steps, Restoring, Switching, Preparing, Removing
<1>1. Typed'
  BY DEF IInv, Typed
<1>2. OnCourse'
  BY DEF IInv, OnCourse
<1>3. Settled'
  BY DEF IInv, Settled, WholeAre, OnCourse
<1>4. Journaled'
  BY DEF IInv, Journaled, OnCourse
<1>5. Restored'
  BY DEF IInv, Restored
<1>6. Switched'
  BY DEF IInv, Switched
<1>7. Prepared'
  BY DEF IInv, Prepared
<1>8. Uninstalling'
  BY DEF IInv, Uninstalling, WholeAre, Staging, Committed
<1>9. Recoverable'
  BY DEF IInv, Recoverable, OnCourse, Uninstalling
<1> QED
  BY <1>1, <1>2, <1>3, <1>4, <1>5, <1>6, <1>7, <1>8, <1>9 DEF IInv

\* The removal is closed, and an installation begins again.
LEMMA CloseRemovalKeeps ==
  ASSUME IInv, CloseRemoval
  PROVE  IInv'
<1> USE ReleasesAssumption DEF CloseRemoval, End, pointers, records, uninstall, trees, history,
      Steps, Restoring, Switching, Preparing, Removing
<1>1. Typed'
  <2>1. op \in Operations
    BY DEF IInv, Typed, OnCourse
  <2>2. [op EXCEPT !.gone = TRUE] \in Operations
    BY <2>1 DEF Operations
  <2>3. /\ UNCHANGED <<pointers, records, moved, trees, refused, unsafe, operations, crashes>>
        /\ step' \in {"idle", "recover"} /\ op' \in {None, [op EXCEPT !.gone = TRUE]} /\ removal' = None
    OBVIOUS
  <2> QED
    BY <2>2, <2>3 DEF IInv, Typed
<1>2. OnCourse'
  <2>1. op \in Operations /\ op # None /\ step = "close"
    BY DEF IInv, Typed, OnCourse
  <2>2. CASE op.kind = "uninstall"
    BY <2>2 DEF OnCourse
  <2>3. CASE op.kind # "uninstall"
    <3> DEFINE o == [op EXCEPT !.gone = TRUE]
    <3>1. o.kind = op.kind /\ o.version = op.version /\ o # None
      BY <2>1 DEF Operations, None
    <3>2. op' = o /\ step' = "recover" /\ removal' = None
      BY <2>3
    <3> HIDE DEF o
    <3>3. op.version \in Versions
      BY <2>1, <2>3 DEF IInv, OnCourse
    <3> QED
      BY <2>3, <3>1, <3>2, <3>3 DEF OnCourse
  <2> QED
    BY <2>2, <2>3
<1>3. Settled'
  BY DEF IInv, Settled, WholeAre, Agree, Uninstalling, Committed
<1>4. Journaled'
  BY DEF IInv, Journaled
<1>5. Restored'
  BY DEF IInv, Restored
<1>6. Switched'
  BY DEF IInv, Switched
<1>7. Prepared'
  BY DEF IInv, Prepared, OnCourse, Typed, Agree, Operations, Uninstalling, Committed
<1>8. Uninstalling'
  BY DEF IInv, Uninstalling, WholeAre, Staging, Committed
<1>9. Recoverable'
  BY DEF IInv, Recoverable
<1> QED
  BY <1>1, <1>2, <1>3, <1>4, <1>5, <1>6, <1>7, <1>8, <1>9 DEF IInv

\* The process dies between two steps.
LEMMA CrashKeeps ==
  ASSUME IInv, Crash
  PROVE  IInv'
<1> USE ReleasesAssumption DEF Crash, End, Unrecoverable, pointers, records, uninstall, trees,
      history, Steps, Restoring, Switching, Preparing, Removing
<1>1. Typed'
  <2>1. /\ UNCHANGED <<pointers, records, uninstall, releases, directory, launcher, refused, operations>>
        /\ step' = "idle" /\ op' = None
        /\ stage' \in {stage, "absent"} /\ stray' \in {stray, TRUE}
    BY Zenon
  <2>2. unsafe' \in BOOLEAN
    OBVIOUS
  <2>3. crashes' \in 0..MaxCrashes
    BY DEF IInv, Typed
  <2> HIDE DEF Crash
  <2> QED
    BY <2>1, <2>2, <2>3 DEF IInv, Typed, Trees
<1>2. OnCourse'
  BY DEF IInv, OnCourse
<1>3. Settled'
  BY DEF IInv, Settled, WholeAre
<1>4. Journaled'
  BY DEF IInv, Journaled
<1>5. Restored'
  BY DEF IInv, Restored
<1>6. Switched'
  BY DEF IInv, Switched
<1>7. Prepared'
  BY DEF IInv, Prepared
<1>8. Uninstalling'
  BY DEF IInv, Uninstalling, WholeAre, Staging, Committed
<1>9. Recoverable'
  BY DEF IInv, Recoverable, OnCourse
<1> QED
  BY <1>1, <1>2, <1>3, <1>4, <1>5, <1>6, <1>7, <1>8, <1>9 DEF IInv

\* Another pointer or record is moved into the removal.
LEMMA MoveKeeps ==
  ASSUME IInv, Move
  PROVE  IInv'
<1>1. PICK k \in 1..Len(Items) :
        /\ moved' = moved \cup {Items[k]}
        /\ current' = IF Items[k] = "current" THEN NoVersion ELSE current
        /\ index' = IF Items[k] = "index" THEN {} ELSE index
        /\ installed' = IF Items[k] = "installed" THEN None ELSE installed
        /\ previous' = IF Items[k] = "previous" THEN NoVersion ELSE previous
  BY DEF Move
<1> DEFINE n == Items[k]
<1>2. n \in {"current", "index", "installed", "previous"}
  BY ItemsAre
<1> HIDE DEF n
<1>3. /\ moved' = moved \cup {n}
      /\ current' = IF n = "current" THEN NoVersion ELSE current
      /\ index' = IF n = "index" THEN {} ELSE index
      /\ installed' = IF n = "installed" THEN None ELSE installed
      /\ previous' = IF n = "previous" THEN NoVersion ELSE previous
  BY <1>1 DEF n
<1>4. /\ step = "move" /\ UNCHANGED <<step, op, fallback, journal, removal>>
      /\ UNCHANGED <<releases, stage, stray, directory, launcher>>
      /\ UNCHANGED <<refused, unsafe, operations, crashes>>
  BY DEF Move, history, trees
<1>5. /\ removal # None /\ removal.kind = "staging" /\ journal = None /\ stage = "absent"
      /\ Staging
  BY <1>4 DEF IInv, OnCourse, Uninstalling, Removing
<1>6. Typed'
  BY <1>2, <1>3, <1>4 DEF IInv, Typed, Optionals
<1>7. OnCourse'
  BY <1>4, <1>5 DEF IInv, OnCourse, Removing, Preparing, Switching, Restoring
<1>8. Settled' /\ Journaled' /\ Restored' /\ Switched' /\ Prepared'
  BY <1>4, <1>5 DEF Settled, Journaled, Restored, Switched, Prepared, Switching, Restoring
<1>9. Uninstalling'
  <2>1. Staging'
    BY <1>2, <1>3, <1>4, <1>5 DEF Staging, WholeAre
  <2> QED
    BY <2>1, <1>4, <1>5 DEF IInv, Uninstalling, Removing
<1>10. Recoverable'
  BY <1>4, <1>5 DEF IInv, Recoverable
<1> QED
  BY <1>6, <1>7, <1>8, <1>9, <1>10 DEF IInv

\* Nothing is installed at first.
LEMMA InitHolds == Init => IInv
<1> SUFFICES ASSUME Init PROVE IInv
  OBVIOUS
<1> USE ReleasesAssumption DEF Init, Steps, Restoring, Switching, Preparing, Removing
<1>1. Typed
  <2>1. releases \in [Versions -> Trees] /\ stage \in Trees /\ step \in Steps
    BY DEF Trees
  <2>2. stray \in BOOLEAN /\ directory \in BOOLEAN /\ launcher \in BOOLEAN /\ refused \in BOOLEAN
        /\ unsafe \in BOOLEAN
    OBVIOUS
  <2>3. {current, previous, fallback} \subseteq Optionals /\ index \subseteq Versions /\ moved = {}
    BY DEF Optionals
  <2> QED
    BY <2>1, <2>2, <2>3 DEF Typed
<1>2. OnCourse /\ Restored /\ Switched /\ Prepared
  BY DEF OnCourse, Restored, Switched, Prepared
<1>3. Settled /\ Journaled /\ Uninstalling /\ Recoverable
  BY DEF Settled, Journaled, Uninstalling, Recoverable, Agree, WholeAre
<1> QED
  BY <1>1, <1>2, <1>3 DEF IInv

\* Every step keeps the invariant, crashes included.
LEMMA StepKeeps == IInv /\ [Next]_vars => IInv'
<1> SUFFICES ASSUME IInv, [Next]_vars PROVE IInv'
  OBVIOUS
<1>1. CASE StartInstall \/ StartUninstall
  BY <1>1, StartInstallKeeps, StartUninstallKeeps
<1>2. CASE Recovery
  BY <1>2, RecoverKeeps, RestorePointersKeeps, RestoreRecordsKeeps, RemoveReleaseKeeps,
     ReleaseRemovedKeeps, RemoveStageKeeps, StageRemovedKeeps, RecoveredKeeps DEF Recovery
<1>3. CASE Install
  BY <1>3, ValidateKeeps, PrepareKeeps, ExtractKeeps, KeepFallbackKeeps, WriteJournalKeeps,
     PublishKeeps, PlaceLauncherKeeps, SwitchPointersKeeps, WriteRecordsKeeps, CommitKeeps,
     ReleaseFallbackKeeps DEF Install
<1>4. CASE Uninstall
  BY <1>4, OpenRemovalKeeps, MoveKeeps, CommitRemovalKeeps, DeleteReleaseKeeps, DeleteLauncherKeeps,
     DeleteMetadataKeeps, DeleteDirectoryKeeps, CloseRemovalKeeps DEF Uninstall
<1>5. CASE UNCHANGED vars
  BY <1>5 DEF vars, pointers, records, uninstall, trees, history, IInv, Typed, OnCourse, Settled,
       Journaled, Restored, Switched, Prepared, Uninstalling, Recoverable, WholeAre, Staging, Committed
<1> QED
  BY <1>1, <1>2, <1>3, <1>4, <1>5, CrashKeeps DEF Next, Done

\* The invariant holds of every reachable state.
LEMMA Inductive == Spec => []IInv
BY InitHolds, StepKeeps, PTL DEF Spec

\* An install, its recovery or an uninstall interrupted at any point outside
\* Unrecoverable is never refused by the operation after it: _recover_install
\* and _recover_uninstall find nothing they cannot restore.
THEOREM InterruptionsAreRecovered == Spec => []InterruptionsRecover
<1>1. IInv => InterruptionsRecover
  BY DEF IInv, Typed, Recoverable, InterruptionsRecover
<1> QED
  BY <1>1, Inductive, PTL

\* With nothing running or pending the prefix holds a release that attests
\* itself and can be uninstalled, or nothing at all.
THEOREM PrefixStaysSound == Spec => []PrefixIsSound
<1>1. IInv => TypeOK
  <2> SUFFICES ASSUME IInv PROVE TypeOK
    OBVIOUS
  <2>1. Optional(current) /\ Optional(previous) /\ Optional(fallback) /\ index \subseteq Versions
    BY DEF IInv, Typed, Optional, Optionals
  <2>2. /\ installed.kind \in {"none", "installed"} /\ journal.kind \in {"none", "install"}
        /\ removal.kind \in {"none", "staging", "commit"}
    BY DEF IInv, Typed, Installs, Journals, Removals, None
  <2>3. moved # {} => removal # None
    BY DEF IInv, Settled, Journaled
  <2>4. {stray, directory, launcher, refused, unsafe} \subseteq BOOLEAN
    BY DEF IInv, Typed
  <2> QED
    BY <2>1, <2>2, <2>3, <2>4 DEF IInv, Typed, OnCourse, TypeOK
<1>2. IInv => InstalledIsWhole
  <2> SUFFICES ASSUME IInv, step = "idle", journal = None, removal = None, ~unsafe
               PROVE  IF current # NoVersion THEN Attested /\ Uninstallable
                      ELSE /\ index = {} /\ installed = None /\ previous = NoVersion
                           /\ \A v \in Versions : releases[v] = "absent"
    BY DEF InstalledIsWhole
  <2>1. /\ stage = "absent" /\ ~stray /\ WholeAre(index)
        /\ Agree(current, previous, index, installed)
        /\ installed # None => launcher
    BY DEF IInv, Prepared, Recoverable, Settled
  <2>2. index \subseteq Versions /\ current \in Optionals
    BY DEF IInv, Typed
  <2>3. CASE installed = None
    BY <2>1, <2>3 DEF Agree, WholeAre
  <2>4. CASE installed # None
    <3>1. current # NoVersion
      BY <2>1, <2>2, <2>4, ReleasesAssumption DEF Agree
    <3>2. {v \in Versions : releases[v] # "absent"} = index /\ \A v \in index : releases[v] = "whole"
      BY <2>1, <2>2 DEF WholeAre
    <3> QED
      BY <2>1, <2>4, <3>1, <3>2 DEF Agree, Attested, Uninstallable, Valid
  <2> QED
    BY <2>3, <2>4
<1> QED
  BY <1>1, <1>2, Inductive, PTL DEF PrefixIsSound


\* What the command runs and what can be gone back to, by what is pending.
Shown ==
    IF removal # None THEN [running |-> NoVersion, owned |-> {}]
    ELSE IF journal # None THEN [running |-> journal.current, owned |-> journal.index]
    ELSE [running |-> current, owned |-> index]

\* The command, seen through its launcher and pointers, is what is shown.
LEMMA ShownIs == IInv => Running = Shown.running /\ Owned = Shown.owned
<1> SUFFICES ASSUME IInv PROVE Running = Shown.running /\ Owned = Shown.owned
  OBVIOUS
<1>1. CASE removal # None
  <2>1. journal = None
    BY <1>1 DEF IInv, Uninstalling
  <2> QED
    BY <1>1, <2>1 DEF Shown, Running, Executed, Owned
<1>2. CASE removal = None /\ journal = None
  <2>1. /\ WholeAre(index) /\ Agree(current, previous, index, installed) /\ index \subseteq Versions
        /\ installed # None => launcher
    BY <1>2 DEF IInv, Settled, Typed
  <2>2. Owned = index
    BY <1>2, <2>1 DEF Owned, WholeAre
  <2>3. Running = current
    BY <1>2, <2>1 DEF Running, Executed, WholeAre, Agree
  <2> QED
    BY <1>2, <2>2, <2>3 DEF Shown
<1>3. CASE removal = None /\ journal # None
  <2> DEFINE c == journal.current
             i == journal.index
  <2>1. /\ Agree(c, journal.previous, i, journal.installed) /\ i \subseteq Versions
        /\ fallback = c
        /\ journal.installed # None => launcher
        /\ \A v \in i : releases[v] = "whole"
    BY <1>3, JournalFields DEF IInv, Journaled, Typed
  <2>2. Owned = i
    BY <1>3, <2>1 DEF Owned
  <2>3. Running = c
    BY <1>3, <2>1 DEF Running, Executed, Agree
  <2> QED
    BY <1>3, <2>2, <2>3 DEF Shown
<1> QED
  BY <1>1, <1>2, <1>3

\* A step shows the same, the release that is committed, or nothing.
LEMMA ShownSteps ==
  ASSUME IInv, Next
  PROVE  \/ Shown' = Shown
         \/ \E v \in Versions :
                Shown' = [running |-> v, owned |-> Shown.owned \cup {v}]
         \/ Shown' = [running |-> NoVersion, owned |-> {}]
<1>1. CASE StartInstall \/ StartUninstall \/ Crash \/ Done
  BY <1>1 DEF StartInstall, StartUninstall, Start, Crash, Done, Shown, pointers, records, uninstall, vars
<1>2. CASE Recover \/ RestorePointers \/ RestoreRecords \/ RemoveRelease \/ ReleaseRemoved \/ RemoveStage
           \/ StageRemoved
  <2>1. UNCHANGED <<journal, removal>>
    BY <1>2 DEF Recover, RestorePointers, RestoreRecords, RemoveRelease, ReleaseRemoved, RemoveStage,
                StageRemoved, Refuse, Go, pointers, records, uninstall
  <2>2. journal # None \/ UNCHANGED <<current, index>>
    BY <1>2 DEF Recover, RestorePointers, RestoreRecords, RemoveRelease, ReleaseRemoved, RemoveStage,
                StageRemoved, Refuse, Go, pointers, records, uninstall, IInv, OnCourse, Restoring
  <2> QED
    BY <2>1, <2>2 DEF Shown
<1>3. CASE Recovered
  <2>1. UNCHANGED <<current, index, removal>>
    BY <1>3 DEF Recovered, pointers, records, uninstall
  <2>2. CASE step = "r_journal"
    BY <1>3, <2>1, <2>2 DEF Recovered, Go, IInv, OnCourse, Restored, Restoring, Shown
  <2>3. CASE step = "r_fallback"
    BY <1>3, <2>1, <2>3 DEF Recovered, Go, records, Shown, IInv, OnCourse
  <2> QED
    BY <1>3, <2>2, <2>3 DEF Recovered, Go
<1>4. CASE Validate \/ Prepare \/ Extract \/ KeepFallback \/ Publish \/ PlaceLauncher \/ ReleaseFallback
  <2>1. UNCHANGED <<journal, removal, current, index>>
    BY <1>4 DEF Validate, Prepare, Extract, KeepFallback, Publish, PlaceLauncher, ReleaseFallback,
                Refuse, Go, pointers, records, uninstall
  <2> QED
    BY <2>1 DEF Shown
<1>5. CASE WriteJournal
  <2>1. /\ journal = None /\ removal = None /\ removal' = None
        /\ journal'.current = current /\ journal'.index = index /\ journal' # None
    BY <1>5 DEF WriteJournal, Go, uninstall, IInv, OnCourse, Preparing, None
  <2> QED
    BY <2>1 DEF Shown
<1>6. CASE SwitchPointers \/ WriteRecords
  <2>1. UNCHANGED <<journal, removal>> /\ journal # None
    BY <1>6 DEF SwitchPointers, WriteRecords, Go, records, uninstall, IInv, OnCourse, Switching
  <2> QED
    BY <2>1 DEF Shown
<1>7. CASE Commit
  <2>1. /\ journal # None /\ removal = None /\ journal' = None /\ removal' = None
        /\ current' = journal.new /\ index' = journal.index \cup {journal.new}
        /\ journal.new \in Versions
    BY <1>7, JournalFields
       DEF Commit, Go, pointers, uninstall, IInv, OnCourse, Switched, Switching
  <2> QED
    BY <2>1 DEF Shown
<1>8. CASE OpenRemoval
  <2>1. removal' # None
    BY <1>8 DEF OpenRemoval, uninstall, None
  <2> QED
    BY <2>1 DEF Shown
<1>9. CASE Move \/ CommitRemoval \/ DeleteRelease \/ DeleteLauncher \/ DeleteMetadata \/ DeleteDirectory
  <2>1. removal # None
    BY <1>9 DEF Move, CommitRemoval, DeleteRelease, DeleteLauncher, DeleteMetadata, DeleteDirectory, Go,
                IInv, OnCourse, Removing
  <2>2. removal' # None
    <3>1. CASE CommitRemoval
      BY <2>1, <3>1 DEF CommitRemoval, IInv, Typed, Removals, None
    <3> QED
      BY <1>9, <2>1, <3>1 DEF Move, DeleteRelease, DeleteLauncher, DeleteMetadata, DeleteDirectory, Refuse,
                              uninstall
  <2> QED
    BY <2>1, <2>2 DEF Shown
<1>10. CASE CloseRemoval
  <2>1. /\ removal # None /\ removal' = None /\ journal' = None
        /\ UNCHANGED <<current, index>> /\ removal.kind = "commit"
    BY <1>10 DEF CloseRemoval, pointers, records, IInv, OnCourse, Uninstalling, Removing
  <2>2. current = NoVersion /\ index = {}
    BY <2>1 DEF IInv, Uninstalling, Committed, Agree
  <2> QED
    BY <2>1, <2>2 DEF Shown
<1> QED
  BY <1>1, <1>2, <1>3, <1>4, <1>5, <1>6, <1>7, <1>8, <1>9, <1>10 DEF Next, Recovery, Install, Uninstall

\* The refinement: between any two steps of the installer the command runs the
\* release it ran, or the one just committed, or an uninstall has begun.
THEOREM CommandIsSwitched == Spec => ImplementsSwitch
<1> DEFINE Switches == Switch!RemoveAll \/ \E v \in Versions : Switch!SwitchTo(v)
<1>1. Init => Switch!SwitchInit
  BY DEF Init, Running, Executed, Owned, Switch!SwitchInit
<1>2. IInv => Running = Shown.running /\ Owned = Shown.owned
  BY ShownIs
<1>3. IInv' => (Running = Shown.running /\ Owned = Shown.owned)'
  BY <1>2, PTL
<1>4. IInv /\ IInv' /\ [Next]_vars => [Switches]_<<Running, Owned>>
  <2> SUFFICES ASSUME IInv, IInv', [Next]_vars PROVE [Switches]_<<Running, Owned>>
    OBVIOUS
  <2>1. Running = Shown.running /\ Owned = Shown.owned
    BY ShownIs
  <2>2. (Running = Shown.running /\ Owned = Shown.owned)'
    BY <1>3
  <2>3. CASE UNCHANGED vars
    BY <2>3 DEF vars, pointers, records, uninstall, trees, Running, Executed, Owned
  <2>4. CASE Next
    <3>1. CASE Shown' = Shown
      BY <2>1, <2>2, <3>1
    <3>2. ASSUME NEW v \in Versions, Shown' = [running |-> v, owned |-> Shown.owned \cup {v}]
          PROVE  Switch!SwitchTo(v)
      <4>1. Shown'.running = v /\ Shown'.owned = Shown.owned \cup {v}
        BY <3>2
      <4> QED
        BY <2>1, <2>2, <4>1 DEF Switch!SwitchTo
    <3>3. CASE Shown' = [running |-> NoVersion, owned |-> {}]
      <4>1. Shown'.running = NoVersion /\ Shown'.owned = {}
        BY <3>3
      <4> QED
        BY <2>1, <2>2, <4>1 DEF Switch!RemoveAll
    <3> QED
      BY <2>4, <3>1, <3>2, <3>3, ShownSteps
  <2> QED
    BY <2>3, <2>4
<1> QED
  BY <1>1, <1>4, Inductive, PTL DEF Spec, ImplementsSwitch, Switch!SwitchSpec
=============================================================================
