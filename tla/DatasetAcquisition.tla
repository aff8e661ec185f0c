-------------------------- MODULE DatasetAcquisition --------------------------
(***************************************************************************)
(* How processes that want the same market data come to share one capture: *)
(* DataCaptureSession.create and the end of close (src/data/src/shaurya/   *)
(* data/access.py) over the catalogue's acquisition lock, claims and       *)
(* handles (data/catalog.py).                                              *)
(*                                                                         *)
(* A process asks for the wide request or for the narrow one, which a wide *)
(* dataset satisfies; the dataset it captures carries its name.  A claim   *)
(* is a file per request, created empty and then written: "torn" between   *)
(* the two.  What one read of the catalogue finds is taken at once, but    *)
(* the probe of the owner's pid and what follows from it come later, and   *)
(* the owner, who closes without the acquisition lock, goes on meanwhile.  *)
(***************************************************************************)
EXTENDS Integers, FiniteSets

CONSTANTS
    Processes,          \* the capturing processes, one life each
    Wide,               \* those that ask for the wide request
    RegistrationFails,  \* processes whose registration fails once
    MaxReuses           \* bound: pids the system gives to other programs

ASSUME ProcessesAssumption ==
    /\ Wide \subseteq Processes /\ RegistrationFails \subseteq Processes
    /\ "none" \notin Processes /\ "torn" \notin Processes
    /\ MaxReuses \in Nat

VARIABLES
    step,       \* where each process is
    lock,       \* who holds the acquisition lock
    claim,      \* the claim file of each request: "none", "torn" or its owner
    status,     \* the catalogue's status of each process's dataset
    owner,      \* the owner claim_handle read in the claim
    statusRead, \* the status of the owner's dataset it read
    pids,       \* processes whose pid answers a signal
    failing,    \* processes whose registration will still fail
    reuses

catalogue == <<claim, status>>
read == <<owner, statusRead>>
acquisitionVars == <<step, lock, catalogue, read, pids, failing, reuses>>

Requests == {"wide", "narrow"}
Want(p) == IF p \in Wide THEN "wide" ELSE "narrow"

\* satisfies: the dataset of q covers what p asks for.
Satisfies(q, p) == Want(q) = "wide" \/ Want(q) = Want(p)

AcquisitionInit ==
    /\ step = [p \in Processes |-> "start"] /\ lock = "none"
    /\ claim = [r \in Requests |-> "none"]
    /\ status = [p \in Processes |-> "none"]
    /\ owner = [p \in Processes |-> "none"] /\ statusRead = [p \in Processes |-> "none"]
    /\ pids = Processes /\ failing = RegistrationFails /\ reuses = 0

Goto(p, s) == step' = [step EXCEPT ![p] = s]

\* create() ends, by a return or an exception, and lets the lock go.
LeaveCreate(p, s) == Goto(p, s) /\ lock' = "none"

SetClaim(p, c) == claim' = [claim EXCEPT ![Want(p)] = c]

-----------------------------------------------------------------------------
(* create().                                                               *)

\* acquisition_lock
Enter(p) ==
    /\ step[p] = "start" /\ lock = "none"
    /\ lock' = p
    /\ Goto(p, "active")
    /\ UNCHANGED <<catalogue, read, pids, failing, reuses>>

\* Variant: only a dataset of the same request counts.
CheckSameRequest(p) ==
    /\ step[p] = "active"
    /\ IF \E q \in pids : status[q] = "active" /\ Want(q) = Want(p)
       THEN LeaveCreate(p, "refused")
       ELSE Goto(p, "read") /\ UNCHANGED lock
    /\ UNCHANGED <<catalogue, read, pids, failing, reuses>>

\* active_satisfying: a live dataset that is wide enough refuses the process.
CheckActive(p) ==
    /\ step[p] = "active"
    /\ IF \E q \in pids : status[q] = "active" /\ Satisfies(q, p)
       THEN LeaveCreate(p, "refused")
       ELSE Goto(p, "read") /\ UNCHANGED lock
    /\ UNCHANGED <<catalogue, read, pids, failing, reuses>>

\* claim_handle reads the claim, and the owner's handle.  A torn claim is
\* malformed.
ReadClaim(p) ==
    /\ step[p] = "read"
    /\ LET c == claim[Want(p)]
       IN CASE c = "none" -> Goto(p, "claim") /\ UNCHANGED <<lock, read>>
            [] c = "torn" -> LeaveCreate(p, "failed") /\ UNCHANGED read
            [] OTHER -> /\ owner' = [owner EXCEPT ![p] = c]
                        /\ statusRead' = [statusRead EXCEPT ![p] = status[c]]
                        /\ Goto(p, "probe")
                        /\ UNCHANGED lock
    /\ UNCHANGED <<catalogue, pids, failing, reuses>>

\* Variant: the claim of a dataset that has ended is left to its owner.
ProbeLeavingEnded(p) ==
    /\ step[p] = "probe"
    /\ IF owner[p] \in pids THEN LeaveCreate(p, "refused")
       ELSE /\ Goto(p, IF statusRead[p] = "active" THEN "orphan" ELSE "claim")
            /\ UNCHANGED lock
    /\ UNCHANGED <<catalogue, read, pids, failing, reuses>>

\* Variant: a dead owner's dataset is left as it is.
ProbeWithoutOrphan(p) ==
    /\ step[p] = "probe"
    /\ IF owner[p] \in pids THEN LeaveCreate(p, "refused") ELSE Goto(p, "unclaim") /\ UNCHANGED lock
    /\ UNCHANGED <<catalogue, read, pids, failing, reuses>>

\* claim_handle probes the owner: while its pid answers, the process is
\* refused with the handle it read, be it terminal.  (An owner in good health
\* that has no handle yet still holds the lock.)
Probe(p) ==
    /\ step[p] = "probe"
    /\ IF owner[p] \in pids
       THEN LeaveCreate(p, IF statusRead[p] = "none" THEN "failed" ELSE "refused")
       ELSE /\ Goto(p, IF statusRead[p] = "active" THEN "orphan" ELSE "unclaim")
            /\ UNCHANGED lock
    /\ UNCHANGED <<catalogue, read, pids, failing, reuses>>

\* publish(orphaned): _validate_transition refuses to end a dataset twice.
Orphan(p) ==
    /\ step[p] = "orphan"
    /\ IF status[owner[p]] = "active"
       THEN /\ status' = [status EXCEPT ![owner[p]] = "orphaned"]
            /\ Goto(p, "unclaim") /\ UNCHANGED lock
       ELSE LeaveCreate(p, "failed") /\ UNCHANGED status
    /\ UNCHANGED <<claim, read, pids, failing, reuses>>

\* release_claim of a dead owner's claim.
Unclaim(p) ==
    /\ step[p] = "unclaim"
    /\ SetClaim(p, "none")
    /\ Goto(p, "claim")
    /\ UNCHANGED <<lock, status, read, pids, failing, reuses>>

\* acquire_claim, first half: O_CREAT | O_EXCL.
CreateClaim(p) ==
    /\ step[p] = "claim"
    /\ IF claim[Want(p)] = "none" THEN SetClaim(p, "torn") /\ Goto(p, "write") /\ UNCHANGED lock
       ELSE LeaveCreate(p, "failed") /\ UNCHANGED claim
    /\ UNCHANGED <<status, read, pids, failing, reuses>>

\* acquire_claim, second half: the owner is in the file.
WriteClaim(p) ==
    /\ step[p] = "write"
    /\ SetClaim(p, p)
    /\ Goto(p, "register")
    /\ UNCHANGED <<lock, status, read, pids, failing, reuses>>

\* register: the dataset is active in the catalogue.
Register(p) ==
    /\ step[p] = "register"
    /\ status' = [status EXCEPT ![p] = "active"]
    /\ LeaveCreate(p, "capturing")
    /\ UNCHANGED <<claim, read, pids, failing, reuses>>

\* The registration raises, before or after its event has its name: the claim
\* goes back, an event that is there stays.  The process ends.
RegisterFails(p) ==
    /\ step[p] = "register" /\ p \in failing
    /\ failing' = failing \ {p}
    /\ \/ UNCHANGED status
       \/ status' = [status EXCEPT ![p] = "active"]
    /\ SetClaim(p, "none")
    /\ LeaveCreate(p, "done")
    /\ UNCHANGED <<read, pids, reuses>>

\* The command is started again by the one who was refused.
Retry(p) ==
    /\ step[p] \in {"refused", "failed"}
    /\ Goto(p, "start")
    /\ UNCHANGED <<lock, catalogue, read, pids, failing, reuses>>

-----------------------------------------------------------------------------
(* The end of a capture.                                                   *)

\* close() publishes a terminal handle.
PublishEnd(p) ==
    /\ step[p] = "capturing"
    /\ IF status[p] = "active"
       THEN /\ \E s \in {"completed", "invalidated", "failed"} : status' = [status EXCEPT ![p] = s]
            /\ Goto(p, "releasing")
       ELSE Goto(p, "done") /\ UNCHANGED status
    /\ UNCHANGED <<lock, claim, read, pids, failing, reuses>>

\* Not even the failure can be published: the claim is retained.
EndIsRefused(p) ==
    /\ step[p] = "capturing"
    /\ Goto(p, "done")
    /\ UNCHANGED <<lock, catalogue, read, pids, failing, reuses>>

\* close() releases the request's claim, outside the lock.
Release(p) ==
    /\ step[p] = "releasing"
    /\ SetClaim(p, "none")
    /\ Goto(p, "done")
    /\ UNCHANGED <<lock, status, read, pids, failing, reuses>>

\* The process is gone, and the system lets its lock go.
Exit(p) ==
    /\ Goto(p, "dead")
    /\ pids' = pids \ {p}
    /\ lock' = IF lock = p THEN "none" ELSE lock
    /\ UNCHANGED <<catalogue, read, failing, reuses>>

Finish(p) == step[p] = "done" /\ Exit(p)
Crash(p) == step[p] \notin {"done", "dead"} /\ Exit(p)

\* Another program gets the pid of a dead process.
Reuse(p) ==
    /\ step[p] = "dead" /\ p \notin pids /\ reuses < MaxReuses
    /\ reuses' = reuses + 1
    /\ pids' = pids \cup {p}
    /\ UNCHANGED <<step, lock, catalogue, read, failing>>

Create(p) ==
    \/ Enter(p) \/ CheckActive(p) \/ ReadClaim(p) \/ Probe(p) \/ Orphan(p) \/ Unclaim(p)
    \/ CreateClaim(p) \/ WriteClaim(p) \/ Register(p) \/ RegisterFails(p) \/ Retry(p)

End(p) == PublishEnd(p) \/ EndIsRefused(p) \/ Release(p) \/ Finish(p)

Stopped == step = [p \in Processes |-> "dead"] /\ UNCHANGED acquisitionVars

AcquisitionNext == Stopped \/ \E p \in Processes : Create(p) \/ End(p) \/ Crash(p) \/ Reuse(p)

AcquisitionSpec == AcquisitionInit /\ [][AcquisitionNext]_acquisitionVars

\* A process goes on, a capture ends at the end of its time, and the command
\* is started again until it has its data.
FairAcquisition ==
    /\ AcquisitionSpec
    /\ \A p \in Processes : WF_acquisitionVars(Create(p)) /\ WF_acquisitionVars(End(p))

-----------------------------------------------------------------------------
(* Properties.                                                             *)

Steps ==
    {"start", "active", "read", "probe", "orphan", "unclaim", "claim", "write", "register",
     "refused", "failed", "capturing", "releasing", "done", "dead"}

Inside ==
    {"active", "read", "probe", "orphan", "unclaim", "claim", "write", "register"}

\* Types of the processes', the claims' and the catalogue's variables; create()
\* is what the lock is held for, and nothing else is.
AcquisitionTypeOK ==
    /\ step \in [Processes -> Steps]
    /\ lock \in Processes \cup {"none"}
    /\ \A p \in Processes : step[p] \in Inside <=> lock = p
    /\ claim \in [Requests -> Processes \cup {"none", "torn"}]
    /\ status \in
         [Processes -> {"none", "active", "completed", "invalidated", "failed", "orphaned"}]
    /\ owner \in [Processes -> Processes \cup {"none"}]
    /\ statusRead \in
         [Processes -> {"none", "active", "completed", "invalidated", "failed", "orphaned"}]
    /\ pids \subseteq Processes /\ failing \subseteq Processes /\ reuses \in 0..MaxReuses

\* A capture that runs, or has yet to release its claim, owns the claim of its
\* request: release_claim moves whatever file is there.
CaptureOwnsItsClaim ==
    \A p \in Processes : step[p] \in {"capturing", "releasing"} => claim[Want(p)] = p

\* A dataset left active, by a crash or by an end that could not be published,
\* can be found through the claim of its request and is orphaned by the next
\* one; only a registration that raised can leave one that nobody will find.
AbandonedIsFound ==
    \A p \in Processes :
        status[p] = "active" /\ p \notin RegistrationFails \ failing => claim[Want(p)] = p

\* A capture starts only where no running one has what it asks for.
NoDuplicateCapture ==
    [][\A p, q \in Processes :
           step[p] # "capturing" /\ step'[p] = "capturing" /\ step'[q] = "capturing" /\ p # q
           => ~Satisfies(q, p)]_acquisitionVars

\* A command that is started again and again gets its capture, unless the
\* claim was torn or another process, or a pid taken for one, is there.
RequestsAreServed ==
    \A p \in Processes :
        []<>(\/ step[p] \in {"capturing", "releasing", "done", "dead"}
             \/ claim[Want(p)] = "torn"
             \/ pids # {p})
=============================================================================
