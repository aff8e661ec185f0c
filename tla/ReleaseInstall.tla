---------------------------- MODULE ReleaseInstall ----------------------------
(***************************************************************************)
(* Installing, rolling back and uninstalling releases of the operator CLI  *)
(* (install_release, recover_transaction, run_uninstall_transaction and    *)
(* uninstall_release_locked, src/execution/ops/libexec/portable_ops.py),   *)
(* with the power failing between any two changes of the prefix.           *)
(*                                                                         *)
(* The prefix lock lets one operation run at a time; a second one is       *)
(* refused at once and left out.  An atomic replacement is one step, the   *)
(* extraction or removal of a release two: in between it is "partial".  A  *)
(* version stands for its archive, manifest and digest; nobody else        *)
(* changes the prefix.  An exception leaves the prefix as a crash does.    *)
(***************************************************************************)
EXTENDS Integers, Sequences, FiniteSets

CONSTANTS
    Versions,
    NoVersion,
    MaxOperations,   \* bound: operations that are started
    MaxCrashes       \* bound: power failures

ASSUME ReleasesAssumption ==
    NoVersion \notin Versions /\ MaxOperations \in Nat /\ MaxCrashes \in Nat

VARIABLES
    current, previous,   \* the release pointers
    fallback,            \* transaction-current
    index,               \* release-index.json; {} for none
    installed,           \* installed-manifest.json
    journal,             \* transaction.json
    removal,             \* uninstall-transaction.json
    moved,               \* what the uninstall has moved to its stage
    releases,            \* each version's tree
    stage,               \* the staging tree of the operation, or of the journal
    stray,               \* a staging tree on nobody's record exists
    directory,           \* releases/ exists
    launcher,            \* bin/kotak exists
    step, op,            \* the running operation; gone: its releases_fd is unlinked
    refused,             \* history: an operation that should work was refused
    unsafe,              \* history: it was interrupted where it does not recover
    operations, crashes

pointers == <<current, previous, fallback>>
records == <<index, installed, journal>>
uninstall == <<removal, moved>>
trees == <<releases, stage, stray, directory, launcher>>
history == <<refused, unsafe, operations, crashes>>
vars == <<pointers, records, uninstall, trees, step, op, history>>

None == [kind |-> "none"]
Optional(v) == v \in Versions \cup {NoVersion}

Init ==
    /\ current = NoVersion /\ previous = NoVersion /\ fallback = NoVersion
    /\ index = {} /\ installed = None /\ journal = None /\ removal = None /\ moved = {}
    /\ releases = [v \in Versions |-> "absent"] /\ stage = "absent" /\ stray = FALSE
    /\ directory = FALSE
    /\ launcher \in BOOLEAN   \* one may be there that nobody claims
    /\ step = "idle" /\ op = None
    /\ refused = FALSE /\ unsafe = FALSE /\ operations = 0 /\ crashes = 0

\* One change of the operation, and where it goes on.
Go(from, to) == step = from /\ step' = to /\ UNCHANGED <<op, history>>

End == step' = "idle" /\ op' = None

\* The operation raises.
Refuse ==
    /\ End
    /\ refused' = TRUE
    /\ UNCHANGED <<pointers, records, uninstall, trees, unsafe, operations, crashes>>

\* validated_pointer_at: no pointer, or one to a whole release of the index.
Valid(v, owned) == v = NoVersion \/ (v \in owned /\ releases[v] = "whole")

-----------------------------------------------------------------------------
(* Starting.                                                               *)

Start(o) ==
    /\ step = "idle" /\ operations < MaxOperations
    /\ operations' = operations + 1
    /\ op' = o
    /\ UNCHANGED <<pointers, records, uninstall, releases, stage, stray, launcher, refused, crashes>>

\* install_release: an archive, or a rollback to a release of the index.
StartInstall ==
    /\ \E v \in Versions, k \in {"install", "rollback"} :
           /\ k = "rollback" => v \in index
           /\ Start([kind |-> k, version |-> v, gone |-> FALSE])
    /\ directory \/ (current = NoVersion /\ previous = NoVersion /\ index = {} /\ installed = None)
    /\ directory' = TRUE
    /\ step' = IF removal = None THEN "recover" ELSE "remove"
    /\ UNCHANGED unsafe

\* uninstall_release_locked: the installed state is all as its manifest says.
Uninstallable ==
    /\ installed # None /\ launcher
    /\ current = installed.current /\ previous = installed.previous /\ index = installed.owned
    /\ Valid(current, index) /\ Valid(previous, index)
    /\ \A v \in index : releases[v] = "whole"

\* An uninstall that finds anything else is refused and has changed nothing.  The
\* code does not look for the pending transaction of an install: the operator
\* runs the installer again first.  Nor does it look for a fallback pointer whose
\* journal was not written: the pointer stays.
StartUninstall ==
    /\ removal # None \/ (Uninstallable /\ journal = None)
    /\ Start([kind |-> "uninstall", version |-> NoVersion, gone |-> FALSE])
    /\ step' = "remove"
    /\ unsafe' = (unsafe \/ fallback # NoVersion)
    /\ UNCHANGED directory

-----------------------------------------------------------------------------
(* recover_transaction.                                                    *)

Recover ==
    /\ step = "recover"
    /\ IF journal # None /\ (fallback # journal.current \/ ~Valid(fallback, journal.index))
       THEN Refuse
       ELSE /\ step' = IF journal = None THEN "validate" ELSE "r_current"
            /\ UNCHANGED <<op, history, pointers, records, uninstall, trees>>

\* Variant: the pointer to the release before is not restored.
RestorePointersButPrevious ==
    \/ /\ Go("r_current", "r_previous")
       /\ current' = journal.current
       /\ UNCHANGED <<previous, fallback, records, uninstall, trees>>
    \/ /\ Go("r_previous", "r_index")
       /\ UNCHANGED <<pointers, records, uninstall, trees>>

RestorePointers ==
    \/ /\ Go("r_current", "r_previous")
       /\ current' = journal.current
       /\ UNCHANGED <<previous, fallback, records, uninstall, trees>>
    \/ /\ Go("r_previous", "r_index")
       /\ previous' = journal.previous
       /\ UNCHANGED <<current, fallback, records, uninstall, trees>>

RestoreRecords ==
    \/ /\ Go("r_index", "r_installed")
       /\ index' = journal.index
       /\ UNCHANGED <<pointers, installed, journal, uninstall, trees>>
    \/ /\ Go("r_installed", "r_launcher")
       /\ installed' = journal.installed
       /\ UNCHANGED <<pointers, index, journal, uninstall, trees>>
    \/ /\ Go("r_launcher", "r_release")
       /\ launcher' = (launcher /\ ~journal.launcher)
       /\ UNCHANGED <<pointers, records, uninstall, releases, stage, stray, directory>>

\* The published release, or its staging tree, is removed if it is whole; one
\* whose removal was interrupted is taken for a changed one.
RemoveRelease ==
    /\ step = "r_release"
    /\ LET v == journal.new
           there == IF journal.created THEN releases[v] ELSE "absent"
       IN CASE ~directory \/ there = "partial" -> Refuse
            [] there = "whole" ->
                 /\ Go("r_release", "r_removing")
                 /\ releases' = [releases EXCEPT ![v] = "partial"]
                 /\ UNCHANGED <<pointers, records, uninstall, stage, stray, directory, launcher>>
            [] OTHER ->
                 Go("r_release", "r_stage") /\ UNCHANGED <<pointers, records, uninstall, trees>>

ReleaseRemoved ==
    /\ Go("r_removing", "r_stage")
    /\ releases' = [releases EXCEPT ![journal.new] = "absent"]
    /\ UNCHANGED <<pointers, records, uninstall, stage, stray, directory, launcher>>

RemoveStage ==
    /\ step = "r_stage"
    /\ CASE stage = "partial" -> Refuse
         [] stage = "whole" ->
              /\ Go("r_stage", "r_unstaging")
              /\ stage' = "partial"
              /\ UNCHANGED <<pointers, records, uninstall, releases, stray, directory, launcher>>
         [] OTHER ->
              Go("r_stage", "r_journal") /\ UNCHANGED <<pointers, records, uninstall, trees>>

StageRemoved ==
    /\ Go("r_unstaging", "r_journal")
    /\ stage' = "absent"
    /\ UNCHANGED <<pointers, records, uninstall, releases, stray, directory, launcher>>

\* Variant: the fallback pointer goes first.
RecoveredPointerFirst ==
    \/ /\ Go("r_journal", "r_fallback")
       /\ fallback' = NoVersion
       /\ UNCHANGED <<current, previous, records, uninstall, trees>>
    \/ /\ Go("r_fallback", "validate")
       /\ journal' = None
       /\ UNCHANGED <<pointers, index, installed, uninstall, trees>>

\* The journal goes, and then the fallback pointer.
Recovered ==
    \/ /\ Go("r_journal", "r_fallback")
       /\ journal' = None
       /\ UNCHANGED <<pointers, index, installed, uninstall, trees>>
    \/ /\ Go("r_fallback", "validate")
       /\ fallback' = NoVersion
       /\ UNCHANGED <<current, previous, records, uninstall, trees>>

-----------------------------------------------------------------------------
(* The install proper.                                                     *)

\* The pointers must be valid, and a fallback pointer without a journal must
\* be the current release.
Validate ==
    /\ step = "validate"
    /\ IF Valid(current, index) /\ Valid(previous, index)
          /\ (fallback = NoVersion \/ fallback = current)
       THEN /\ Go("validate", "prepare")
            /\ fallback' = NoVersion
            /\ UNCHANGED <<current, previous, records, uninstall, trees>>
       ELSE Refuse

\* A rollback needs a whole release of the index; an archive is unpacked
\* unless its release is there, whole and of the index.
Prepare ==
    /\ step = "prepare"
    /\ LET v == op.version
           there == releases[v]
           ready == v \in index /\ there = "whole"
       IN CASE ready ->
                 Go("prepare", "fallback") /\ UNCHANGED <<pointers, records, uninstall, trees>>
            [] (op.kind = "rollback" /\ v \notin index) \/ op.gone ->
                 End /\ UNCHANGED <<pointers, records, uninstall, trees, history>>
            [] op.kind = "install" /\ there = "absent" /\ ~op.gone ->
                 /\ Go("prepare", "extract")
                 /\ stage' = "partial"
                 /\ UNCHANGED <<pointers, records, uninstall, releases, stray, directory, launcher>>
            [] OTHER -> Refuse

Extract ==
    /\ Go("extract", "fallback")
    /\ stage' = "whole"
    /\ UNCHANGED <<pointers, records, uninstall, releases, stray, directory, launcher>>

\* Variant: the journal is written, but no fallback pointer before it.
KeepNothing ==
    /\ Go("fallback", "journal")
    /\ UNCHANGED <<pointers, records, uninstall, trees>>

\* transaction-current
KeepFallback ==
    /\ Go("fallback", "journal")
    /\ fallback' = current
    /\ UNCHANGED <<current, previous, records, uninstall, trees>>

\* transaction.json: all that recovery restores.
WriteJournal ==
    /\ Go("journal", "publish")
    /\ journal' = [kind |-> "install", current |-> current, previous |-> previous, index |-> index,
                   installed |-> installed, new |-> op.version, created |-> stage = "whole",
                   launcher |-> ~launcher]
    /\ UNCHANGED <<pointers, index, installed, uninstall, trees>>

Publish ==
    /\ Go("publish", "launcher")
    /\ IF stage = "whole"
       THEN stage' = "absent" /\ releases' = [releases EXCEPT ![op.version] = "whole"]
       ELSE UNCHANGED <<stage, releases>>
    /\ UNCHANGED <<pointers, records, uninstall, stray, directory, launcher>>

PlaceLauncher ==
    /\ Go("launcher", "current")
    /\ launcher' = TRUE
    /\ UNCHANGED <<pointers, records, uninstall, releases, stage, stray, directory>>

SwitchPointers ==
    \/ /\ Go("current", "previous")
       /\ current' = op.version
       /\ UNCHANGED <<previous, fallback, records, uninstall, trees>>
    \/ /\ Go("previous", "index")
       /\ previous' = journal.current
       /\ UNCHANGED <<current, fallback, records, uninstall, trees>>

WriteRecords ==
    \/ /\ Go("index", "installed")
       /\ index' = index \cup {op.version}
       /\ UNCHANGED <<pointers, installed, journal, uninstall, trees>>
    \/ /\ Go("installed", "commit")
       /\ installed' = [kind |-> "installed", current |-> current, previous |-> previous,
                        owned |-> index,
                        created |-> IF journal.installed = None THEN journal.launcher
                                    ELSE journal.installed.created]
       /\ UNCHANGED <<pointers, index, journal, uninstall, trees>>

\* The journal goes: this is the switch.
Commit ==
    /\ Go("commit", "release")
    /\ journal' = None
    /\ UNCHANGED <<pointers, index, installed, uninstall, trees>>

ReleaseFallback ==
    /\ step = "release"
    /\ fallback' = NoVersion
    /\ End
    /\ UNCHANGED <<current, previous, records, uninstall, trees, history>>

-----------------------------------------------------------------------------
(* run_uninstall_transaction.                                              *)

\* The journal is written, or the one of an earlier attempt is resumed.
OpenRemoval ==
    /\ IF removal = None THEN removal' = [kind |-> "staging", of |-> installed] /\ UNCHANGED moved
       ELSE UNCHANGED uninstall
    /\ Go("remove", IF removal'.kind = "staging" THEN "move" ELSE "delete")
    /\ UNCHANGED <<pointers, records, trees>>

\* What is to be moved to the stage, in this order.
Items ==
    <<"current", "index", "installed">>
        \o IF removal.of.previous = NoVersion THEN << >> ELSE <<"previous">>

\* The metadata is moved to the stage, one file after the other, then the
\* releases.  (A release keeps its state wherever it is.)
Move ==
    /\ step = "move"
    /\ \E k \in 1..Len(Items) :
           /\ Items[k] \notin moved
           /\ \A j \in 1..(k - 1) : Items[j] \in moved
           /\ moved' = moved \cup {Items[k]}
           /\ current' = IF Items[k] = "current" THEN NoVersion ELSE current
           /\ index' = IF Items[k] = "index" THEN {} ELSE index
           /\ installed' = IF Items[k] = "installed" THEN None ELSE installed
           /\ previous' = IF Items[k] = "previous" THEN NoVersion ELSE previous
    /\ UNCHANGED <<step, op, history, fallback, journal, removal, trees>>

\* The releases follow, and the removal is committed.
CommitRemoval ==
    /\ Go("move", "delete")
    /\ \A k \in 1..Len(Items) : Items[k] \in moved
    /\ removal' = [removal EXCEPT !.kind = "commit"]
    /\ UNCHANGED <<pointers, records, moved, trees>>

\* The release trees are removed; a tree that is partly gone is gone on with.
DeleteRelease ==
    /\ step = "delete"
    /\ \E v \in removal.of.owned :
           /\ releases[v] # "absent"
           /\ releases' = [releases EXCEPT ![v] = IF @ = "whole" THEN "partial" ELSE "absent"]
    /\ UNCHANGED <<pointers, records, uninstall, stage, stray, directory, launcher, step, op, history>>

\* The launcher, if the installer made it, and the metadata are unlinked.
DeleteLauncher ==
    /\ Go("delete", "unlink")
    /\ \A v \in removal.of.owned : releases[v] = "absent"
    /\ launcher' = (launcher /\ ~removal.of.created)
    /\ UNCHANGED <<pointers, records, uninstall, releases, stage, stray, directory>>

DeleteMetadata ==
    /\ Go("unlink", "directory")
    /\ moved' = {}
    /\ UNCHANGED <<pointers, records, removal, trees>>

\* rmdir of releases/, which fails if anything is left in it.
DeleteDirectory ==
    /\ step = "directory"
    /\ IF directory /\ (stray \/ stage # "absent" \/ \E v \in Versions : releases[v] # "absent")
       THEN Refuse
       ELSE /\ Go("directory", "close")
            /\ directory' = FALSE
            /\ UNCHANGED <<pointers, records, uninstall, releases, stage, stray, launcher>>

\* The journal goes.  An install goes on, holding on to the directory that was
\* removed: it cannot extract anything, and has to be started again.
CloseRemoval ==
    /\ step = "close"
    /\ removal' = None
    /\ IF op.kind = "uninstall" THEN End
       ELSE step' = "recover" /\ op' = [op EXCEPT !.gone = TRUE]
    /\ UNCHANGED <<pointers, records, moved, trees, history>>

-----------------------------------------------------------------------------

\* Where an interruption is not recovered from: a staging tree is not on
\* record yet, a tree of the transaction is half removed, or the fallback
\* pointer is not the new release's and its journal has gone.
Unrecoverable ==
    \/ (stage # "absent" /\ journal = None)
    \/ step \in {"r_removing", "r_unstaging"}
    \/ (step = "release" /\ fallback \notin {NoVersion, current})

\* The power fails.
Crash ==
    /\ step # "idle" /\ crashes < MaxCrashes
    /\ crashes' = crashes + 1
    /\ End
    /\ unsafe' = (unsafe \/ Unrecoverable)
    /\ IF stage # "absent" /\ journal = None THEN stray' = TRUE /\ stage' = "absent"
       ELSE UNCHANGED <<stray, stage>>
    /\ UNCHANGED <<pointers, records, uninstall, releases, directory, launcher, refused, operations>>

Done == step = "idle" /\ operations = MaxOperations /\ UNCHANGED vars

Recovery ==
    Recover \/ RestorePointers \/ RestoreRecords \/ RemoveRelease \/ ReleaseRemoved \/ RemoveStage
    \/ StageRemoved \/ Recovered
Install ==
    Validate \/ Prepare \/ Extract \/ KeepFallback \/ WriteJournal \/ Publish \/ PlaceLauncher
    \/ SwitchPointers \/ WriteRecords \/ Commit \/ ReleaseFallback
Uninstall ==
    OpenRemoval \/ Move \/ CommitRemoval \/ DeleteRelease \/ DeleteLauncher
    \/ DeleteMetadata \/ DeleteDirectory \/ CloseRemoval

Next == StartInstall \/ StartUninstall \/ Recovery \/ Install \/ Uninstall \/ Crash \/ Done

Spec == Init /\ [][Next]_vars

-----------------------------------------------------------------------------
(* Properties.                                                             *)

Trees == {"absent", "partial", "whole"}

\* Types of the prefix's entries and of the operation.
TypeOK ==
    /\ Optional(current) /\ Optional(previous) /\ Optional(fallback)
    /\ index \subseteq Versions
    /\ installed.kind \in {"none", "installed"}
    /\ journal.kind \in {"none", "install"}
    /\ removal.kind \in {"none", "staging", "commit"}
    /\ moved \subseteq {"current", "index", "installed", "previous"}
    /\ moved # {} => removal # None
    /\ releases \in [Versions -> Trees] /\ stage \in Trees
    /\ {stray, directory, launcher, refused, unsafe} \subseteq BOOLEAN
    /\ step = "idle" <=> op = None
    /\ operations \in 0..MaxOperations /\ crashes \in 0..MaxCrashes

\* What bin/kotak executes.
Executed ==
    IF journal # None THEN fallback ELSE IF removal # None THEN NoVersion ELSE current

Running ==
    IF launcher /\ Executed # NoVersion /\ releases[Executed] = "whole" THEN Executed ELSE NoVersion

Owned ==
    IF removal # None THEN {}
    ELSE {v \in IF journal # None THEN journal.index ELSE index : releases[v] = "whole"}

Switch == INSTANCE ReleaseSwitch WITH running <- Running, owned <- Owned

\* At every moment of an install, its recovery or an uninstall the command runs
\* the whole release it ran before, or the new one, or the uninstall has begun.
ImplementsSwitch == Switch!SwitchSpec

\* attest_installed_release, of the release the command runs.
Attested ==
    /\ journal = None /\ removal = None
    /\ ~stray /\ stage = "absent" /\ {v \in Versions : releases[v] # "absent"} = index
    /\ \A v \in index : releases[v] = "whole"
    /\ current \in index
    /\ installed # None /\ launcher
    /\ installed.current = current /\ installed.owned = index

\* With nothing running or pending, what is installed attests itself, can be
\* uninstalled, and its previous release can be gone back to, and what is not
\* installed has left nothing behind.
InstalledIsWhole ==
    step = "idle" /\ journal = None /\ removal = None /\ ~unsafe =>
        IF current # NoVersion THEN Attested /\ Uninstallable
        ELSE /\ index = {} /\ installed = None /\ previous = NoVersion
             /\ \A v \in Versions : releases[v] = "absent"

\* Installs, updates and uninstalls, interrupted and recovered, leave a prefix
\* that is either whole or empty.
PrefixIsSound == TypeOK /\ InstalledIsWhole

\* An interruption at any other point than the three of Unrecoverable is made
\* good by the next operation, unless that is an uninstall that leaves the
\* fallback pointer of an install behind.
InterruptionsRecover == refused => unsafe

\* tests/ops/test_portable_release.sh:147: "Every update interruption keeps the
\* old launcher runnable; the next install recovers then completes."
NextInstallCompletes == [][op.kind = "install" => refused' = refused]_vars
=============================================================================
