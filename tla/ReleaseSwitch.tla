---------------------------- MODULE ReleaseSwitch ----------------------------
(***************************************************************************)
(* What the release installer promises (src/execution/ops/README.md): the  *)
(* command is switched from one whole release to another in one instant,   *)
(* the releases it came from are kept, and an uninstall takes all of them  *)
(* at once.                                                                *)
(***************************************************************************)
CONSTANTS Versions, NoVersion

VARIABLES
    running,   \* the release the command runs
    owned      \* the releases a rollback can choose from

SwitchInit == running = NoVersion /\ owned = {}

SwitchTo(v) ==
    /\ running' = v
    /\ owned' = owned \cup {v}

RemoveAll == running' = NoVersion /\ owned' = {}

SwitchSpec ==
    SwitchInit /\ [][RemoveAll \/ \E v \in Versions : SwitchTo(v)]_<<running, owned>>
=============================================================================
