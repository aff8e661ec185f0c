---------------------- MODULE OrderStateMachineProofs -----------------------
(***************************************************************************)
(* The invariants and action properties of OrderStateMachine, proved for   *)
(* every quantity bound, price set, update-id set and broker-id set.       *)
(*                                                                         *)
(* The argument is about one call of ApplyOrderUpdate.  Sound(o, u, r)     *)
(* says what the result r of applying u to the order o may do; one lemma   *)
(* per kind of evidence shows it, ApplyOrderUpdateSound puts them          *)
(* together, and each theorem reads its conclusion off Sound.              *)
(***************************************************************************)
EXTENDS OrderStateMachine, TLAPS

\* The inductive part that speaks of the aggregate alone.
LifecycleInv(o) ==
  /\ o.effective > 0
  /\ o.original > 0
  /\ o.cumulative <= o.effective
  /\ (o.state = "Filled") <=> (o.cumulative = o.effective)
  /\ o.pending # "None" => o.state \in Working \cup {"ReconciliationRequired"}
  /\ o.pending = "Modify" => o.pendingQuantity > 0 /\ o.pendingPrice \in Prices
  /\ o.pending = "Cancel" => o.cancelWasRequested

Reconciles == {"ReconcileWorking", "ReconcileCancelled", "ReconcileRejected"}

\* What a change of the aggregate from o to n, caused by evidence of the
\* given kind, may be (the applied evidence is accounted for separately).
SoundChange(o, n, kind, delta) ==
  /\ n \in Orders
  /\ LifecycleInv(n)
  /\ n.side = o.side
  /\ n.applied = o.applied
  /\ n.cumulative >= o.cumulative
  /\ delta = SignOf(o.side) * (n.cumulative - o.cumulative)
  /\ o.state \in Terminal =>
       n.state = o.state /\ n.cumulative = o.cumulative /\ n.effective = o.effective
  /\ o.state = "AmbiguousSubmission" /\ n.state # o.state => kind \in Reconciles

\* The same for the whole result of a transition, evidence included.
Sound(o, u, r) ==
  /\ r.order \in Orders
  /\ LifecycleInv(r.order)
  /\ r.order.side = o.side
  /\ r.order.cumulative >= o.cumulative
  /\ r.delta = SignOf(o.side) * (r.order.cumulative - o.cumulative)
  /\ o.state \in Terminal =>
       /\ r.order.state = o.state
       /\ r.order.cumulative = o.cumulative
       /\ r.order.effective = o.effective
  /\ o.state = "AmbiguousSubmission" /\ r.order.state # o.state =>
       r.applied /\ u.kind \in Reconciles
  /\ o.applied \subseteq r.order.applied
  /\ \/ r.order.applied = o.applied
     \/ /\ u.id # NoId
        /\ r.order.applied = o.applied \cup {<<u.id, Fingerprint(u)>>}
  /\ r.applied \in BOOLEAN

-----------------------------------------------------------------------------
LEMMA UpdateTypes ==
  ASSUME NEW u \in Updates
  PROVE  /\ u.kind \in OrderEventKinds
         /\ u.id \in UpdateIds \cup {NoId}
         /\ u.brokerOrderId \in BrokerOrderIds \cup {NoId}
         /\ u.cumulative \in Quantities \cup {Absent}
         /\ u.quantity \in Quantities
         /\ u.price \in Prices \cup {0}
         /\ Fingerprint(u) \in Fingerprints
BY DEF Updates, Evidence, Fingerprint, Fingerprints

LEMMA SignOfType ==
  ASSUME NEW s \in Sides
  PROVE  SignOf(s) \in Int /\ SignOf(s) * 0 = 0
BY DEF Sides, SignOf

\* Refusals and repeats change nothing.
LEMMA UnchangedSound ==
  ASSUME NEW o \in Orders, NEW u \in Updates, LifecycleInv(o),
         NEW r, r.order = o, r.delta = 0, r.applied \in BOOLEAN
  PROVE  Sound(o, u, r)
<1>1. o.side \in Sides /\ o.cumulative \in Int
  BY MaxQuantityAssumption DEF Orders, Quantities
<1>2. 0 = SignOf(o.side) * (o.cumulative - o.cumulative)
  BY <1>1, SignOfType
<1>. QED
  BY <1>1, <1>2 DEF Sound

LEMMA RefuseSound ==
  ASSUME NEW o \in Orders, NEW u \in Updates, LifecycleInv(o), NEW i
  PROVE  Sound(o, u, Refuse(o, i)) /\ Sound(o, u, Repeated(o))
BY UnchangedSound DEF Refuse, Repeated

\* Recording the evidence of a sound change gives a sound result.
LEMMA ApplyEvidenceSound ==
  ASSUME NEW o \in Orders, NEW u \in Updates, NEW n, NEW delta,
         SoundChange(o, n, u.kind, delta)
  PROVE  Sound(o, u, ApplyEvidence(n, u, delta))
<1>. DEFINE r == ApplyEvidence(n, u, delta)
<1>1. r.applied = TRUE /\ r.delta = delta
  BY DEF ApplyEvidence
<1>2. CASE u.id = NoId
  <2>1. r.order = n
    BY <1>2 DEF ApplyEvidence
  <2>. QED
    BY <1>1, <2>1 DEF Sound, SoundChange
<1>3. CASE u.id # NoId
  <2>. DEFINE e == <<u.id, Fingerprint(u)>>
  <2>1. r.order = [n EXCEPT !.applied = @ \cup {e}]
    BY <1>3 DEF ApplyEvidence
  <2>2. e \in UpdateIds \X Fingerprints
    BY <1>3, UpdateTypes
  <2>3. n \in Orders /\ n.applied = o.applied
    BY DEF SoundChange
  <2>4. r.order \in Orders /\ r.order.applied = o.applied \cup {e}
    BY <2>1, <2>2, <2>3 DEF Orders
  <2>5. /\ r.order.side = n.side /\ r.order.cumulative = n.cumulative
        /\ r.order.state = n.state /\ r.order.effective = n.effective
        /\ r.order.original = n.original /\ r.order.pending = n.pending
        /\ r.order.pendingQuantity = n.pendingQuantity
        /\ r.order.pendingPrice = n.pendingPrice
        /\ r.order.cancelWasRequested = n.cancelWasRequested
    BY <2>1, <2>3 DEF Orders
  <2>6. LifecycleInv(r.order)
    BY <2>5 DEF SoundChange, LifecycleInv
  <2>. QED
    BY <1>1, <1>3, <2>4, <2>5, <2>6 DEF Sound, SoundChange
<1>. QED
  BY <1>2, <1>3

-----------------------------------------------------------------------------
(***************************************************************************)
(* Most evidence moves the state and the pending mutation of a live order  *)
(* and leaves its quantities alone; QuietChange covers all of it.          *)
(***************************************************************************)
LEMMA QuietChange ==
  ASSUME NEW o \in Orders, NEW u \in Updates, LifecycleInv(o), NEW n \in Orders,
         n.side = o.side, n.applied = o.applied, n.cumulative = o.cumulative,
         n.effective = o.effective, n.original = o.original,
         o.state \notin Terminal, n.state # "Filled",
         n.pending # "None" => n.state \in Working \cup {"ReconciliationRequired"},
         n.pending = "Modify" => n.pendingQuantity > 0 /\ n.pendingPrice \in Prices,
         n.pending = "Cancel" => n.cancelWasRequested,
         o.state = "AmbiguousSubmission" /\ n.state # o.state => u.kind \in Reconciles
  PROVE  Sound(o, u, ApplyEvidence(n, u, 0))
<1>1. o.side \in Sides /\ o.cumulative \in Int
  BY MaxQuantityAssumption DEF Orders, Quantities
<1>2. 0 = SignOf(o.side) * (n.cumulative - o.cumulative)
  BY <1>1, SignOfType
<1>3. LifecycleInv(n)
  BY DEF LifecycleInv, Terminal
<1>4. SoundChange(o, n, u.kind, 0)
  BY <1>1, <1>2, <1>3 DEF SoundChange
<1>. QED
  BY <1>4, ApplyEvidenceSound

LEMMA WithoutPendingType ==
  ASSUME NEW o \in Orders
  PROVE  /\ WithoutPending(o) \in Orders
         /\ WithoutPending(o).side = o.side
         /\ WithoutPending(o).applied = o.applied
         /\ WithoutPending(o).cumulative = o.cumulative
         /\ WithoutPending(o).effective = o.effective
         /\ WithoutPending(o).original = o.original
         /\ WithoutPending(o).state = o.state
         /\ WithoutPending(o).pending = "None"
<1>1. 0 \in Quantities /\ 0 \in Prices \cup {0} /\ "None" \in PendingMutations
  BY MaxQuantityAssumption DEF Quantities, PendingMutations
<1>2. WithoutPending(o) \in Orders
  BY <1>1 DEF WithoutPending, Orders
<1>. QED
  BY <1>2 DEF WithoutPending, Orders

\* Evidence that only confirms what is known is recorded and changes nothing.
LEMMA ConfirmationSound ==
  ASSUME NEW o \in Orders, NEW u \in Updates, LifecycleInv(o)
  PROVE  Sound(o, u, ApplyEvidence(o, u, 0))
<1>1. o.side \in Sides /\ o.cumulative \in Int
  BY MaxQuantityAssumption DEF Orders, Quantities
<1>2. 0 = SignOf(o.side) * (o.cumulative - o.cumulative)
  BY <1>1, SignOfType
<1>3. SoundChange(o, o, u.kind, 0)
  BY <1>1, <1>2 DEF SoundChange
<1>. QED
  BY <1>3, ApplyEvidenceSound

-----------------------------------------------------------------------------
(***************************************************************************)
(* One lemma per kind of evidence.                                         *)
(***************************************************************************)
LEMMA OnSubmissionStartedSound ==
  ASSUME NEW o \in Orders, NEW u \in Updates, LifecycleInv(o)
  PROVE  Sound(o, u, OnSubmissionStarted(o, u))
<1>. DEFINE n == [o EXCEPT !.state = "SubmissionStarted"]
<1>1. CASE o.state = "Prepared"
  <2>1. n \in Orders
    BY <1>1 DEF Orders, OrderStates, PendingMutations, WithoutPending
  <2>2. Sound(o, u, ApplyEvidence(n, u, 0))
    BY <1>1, <2>1, QuietChange
       DEF Orders, LifecycleInv, Working, Terminal, Unresolved, WithoutPending, Reconciles
  <2>. QED
    BY <1>1, <2>2 DEF OnSubmissionStarted
<1>2. CASE ~(o.state = "Prepared")
  BY <1>2, RefuseSound, ConfirmationSound DEF OnSubmissionStarted
<1>. QED
  BY <1>1, <1>2

LEMMA OnBrokerAcknowledgedSound ==
  ASSUME NEW o \in Orders, NEW u \in Updates, LifecycleInv(o)
  PROVE  Sound(o, u, OnBrokerAcknowledged(o, u))
<1>. DEFINE n == [o EXCEPT !.brokerOrderId = u.brokerOrderId, !.state = WorkingState(o)]
<1>1. CASE o.state = "SubmissionStarted" /\ u.brokerOrderId # NoId
  <2>1. n \in Orders
    BY <1>1, UpdateTypes DEF Orders, OrderStates, PendingMutations, WithoutPending, WorkingState
  <2>2. Sound(o, u, ApplyEvidence(n, u, 0))
    BY <1>1, <2>1, QuietChange, UpdateTypes
       DEF Orders, LifecycleInv, Working, Terminal, Unresolved, WithoutPending, Reconciles, WorkingState
  <2>. QED
    BY <1>1, <2>2 DEF OnBrokerAcknowledged
<1>2. CASE ~(o.state = "SubmissionStarted" /\ u.brokerOrderId # NoId)
  BY <1>2, RefuseSound, ConfirmationSound DEF OnBrokerAcknowledged
<1>. QED
  BY <1>1, <1>2

LEMMA OnBrokerRejectedSound ==
  ASSUME NEW o \in Orders, NEW u \in Updates, LifecycleInv(o)
  PROVE  Sound(o, u, OnBrokerRejected(o, u))
<1>. DEFINE n == [o EXCEPT !.state = "Rejected"]
<1>1. CASE o.state \in {"Prepared", "SubmissionStarted"}
  <2>1. n \in Orders
    BY <1>1 DEF Orders, OrderStates, PendingMutations, WithoutPending
  <2>2. Sound(o, u, ApplyEvidence(n, u, 0))
    BY <1>1, <2>1, QuietChange
       DEF Orders, LifecycleInv, Working, Terminal, Unresolved, WithoutPending, Reconciles
  <2>. QED
    BY <1>1, <2>2 DEF OnBrokerRejected
<1>2. CASE ~(o.state \in {"Prepared", "SubmissionStarted"})
  BY <1>2, RefuseSound, ConfirmationSound DEF OnBrokerRejected
<1>. QED
  BY <1>1, <1>2

LEMMA OnModifyRequestedSound ==
  ASSUME NEW o \in Orders, NEW u \in Updates, LifecycleInv(o)
  PROVE  Sound(o, u, OnModifyRequested(o, u))
<1>. DEFINE n == [o EXCEPT !.pending = "Modify",
                             !.pendingQuantity = u.quantity,
                             !.pendingPrice = u.price]
<1>1. CASE /\ o.state \in Working
             /\ o.pending = "None"
             /\ ~(u.quantity < o.cumulative)
             /\ u.quantity # 0
             /\ u.price # 0
  <2>1. n \in Orders
    BY <1>1, UpdateTypes DEF Orders, PendingMutations
  <2>3. u.quantity > 0 /\ u.price \in Prices
    BY <1>1, UpdateTypes, MaxQuantityAssumption DEF Quantities
  <2>4. /\ n.side = o.side /\ n.applied = o.applied /\ n.cumulative = o.cumulative
        /\ n.effective = o.effective /\ n.original = o.original /\ n.state = o.state
        /\ n.pending = "Modify" /\ n.pendingQuantity = u.quantity /\ n.pendingPrice = u.price
    BY DEF Orders
  <2>2. Sound(o, u, ApplyEvidence(n, u, 0))
    BY <1>1, <2>1, <2>3, <2>4, QuietChange DEF Working, Terminal
  <2>. QED
    BY <1>1, <2>2 DEF OnModifyRequested
<1>2. CASE ~(/\ o.state \in Working
             /\ o.pending = "None"
             /\ ~(u.quantity < o.cumulative)
             /\ u.quantity # 0
             /\ u.price # 0)
  BY <1>2, RefuseSound, ConfirmationSound DEF OnModifyRequested
<1>. QED
  BY <1>1, <1>2

LEMMA OnModifyRejectedSound ==
  ASSUME NEW o \in Orders, NEW u \in Updates, LifecycleInv(o)
  PROVE  Sound(o, u, OnModifyRejected(o, u))
<1>. DEFINE n == [WithoutPending(o) EXCEPT !.state = WorkingState(o)]
<1>1. CASE o.pending = "Modify"
  <2>1. n \in Orders
    BY WithoutPendingType DEF Orders, OrderStates, WorkingState
  <2>2. Sound(o, u, ApplyEvidence(n, u, 0))
    BY <1>1, <2>1, WithoutPendingType, QuietChange
       DEF Orders, LifecycleInv, Working, Terminal, Unresolved, WithoutPending, Reconciles, WorkingState, Quantities
  <2>. QED
    BY <1>1, <2>2 DEF OnModifyRejected
<1>2. CASE ~(o.pending = "Modify")
  BY <1>2, RefuseSound, ConfirmationSound DEF OnModifyRejected
<1>. QED
  BY <1>1, <1>2

LEMMA OnCancelRequestedSound ==
  ASSUME NEW o \in Orders, NEW u \in Updates, LifecycleInv(o)
  PROVE  Sound(o, u, OnCancelRequested(o, u))
<1>. DEFINE n == [o EXCEPT !.pending = "Cancel", !.cancelWasRequested = TRUE]
<1>1. CASE o.state \in Working /\ o.pending = "None"
  <2>1. n \in Orders
    BY <1>1 DEF Orders, OrderStates, PendingMutations, WithoutPending
  <2>2. Sound(o, u, ApplyEvidence(n, u, 0))
    BY <1>1, <2>1, QuietChange
       DEF Orders, LifecycleInv, Working, Terminal, Unresolved, WithoutPending, Reconciles
  <2>. QED
    BY <1>1, <2>2 DEF OnCancelRequested
<1>2. CASE ~(o.state \in Working /\ o.pending = "None")
  BY <1>2, RefuseSound, ConfirmationSound DEF OnCancelRequested
<1>. QED
  BY <1>1, <1>2

LEMMA OnCancelAcceptedSound ==
  ASSUME NEW o \in Orders, NEW u \in Updates, LifecycleInv(o)
  PROVE  Sound(o, u, OnCancelAccepted(o, u))
<1>. DEFINE n == [o EXCEPT !.pending = "None", !.state = "Cancelled"]
<1>1. CASE o.pending = "Cancel" /\ o.state \notin {"Filled", "Cancelled"}
  <2>1. n \in Orders
    BY <1>1 DEF Orders, OrderStates, PendingMutations, WithoutPending
  <2>2. Sound(o, u, ApplyEvidence(n, u, 0))
    BY <1>1, <2>1, QuietChange
       DEF Orders, LifecycleInv, Working, Terminal, Unresolved, WithoutPending, Reconciles
  <2>. QED
    BY <1>1, <2>2 DEF OnCancelAccepted
<1>2. CASE ~(o.pending = "Cancel" /\ o.state \notin {"Filled", "Cancelled"})
  BY <1>2, RefuseSound, ConfirmationSound DEF OnCancelAccepted
<1>. QED
  BY <1>1, <1>2

LEMMA OnCancelRejectedSound ==
  ASSUME NEW o \in Orders, NEW u \in Updates, LifecycleInv(o)
  PROVE  Sound(o, u, OnCancelRejected(o, u))
<1>. DEFINE n == [o EXCEPT !.pending = "None", !.state = "ReconciliationRequired"]
<1>1. CASE o.pending = "Cancel"
  <2>1. n \in Orders
    BY <1>1 DEF Orders, OrderStates, PendingMutations, WithoutPending
  <2>2. Sound(o, u, ApplyEvidence(n, u, 0))
    BY <1>1, <2>1, QuietChange
       DEF Orders, LifecycleInv, Working, Terminal, Unresolved, WithoutPending, Reconciles
  <2>. QED
    BY <1>1, <2>2 DEF OnCancelRejected
<1>2. CASE ~(o.pending = "Cancel")
  BY <1>2, RefuseSound, ConfirmationSound DEF OnCancelRejected
<1>. QED
  BY <1>1, <1>2

LEMMA OnSubmissionAmbiguousSound ==
  ASSUME NEW o \in Orders, NEW u \in Updates, LifecycleInv(o)
  PROVE  Sound(o, u, OnSubmissionAmbiguous(o, u))
<1>. DEFINE n == [o EXCEPT !.state = IF o.state = "SubmissionStarted"
                                      THEN "AmbiguousSubmission"
                                      ELSE "ReconciliationRequired"]
<1>1. CASE o.state = "SubmissionStarted" \/ o.pending # "None"
  <2>1. n \in Orders
    BY <1>1 DEF Orders, OrderStates, PendingMutations, WithoutPending
  <2>2. Sound(o, u, ApplyEvidence(n, u, 0))
    BY <1>1, <2>1, QuietChange
       DEF Orders, LifecycleInv, Working, Terminal, Unresolved, WithoutPending, Reconciles
  <2>. QED
    BY <1>1, <2>2 DEF OnSubmissionAmbiguous
<1>2. CASE ~(o.state = "SubmissionStarted" \/ o.pending # "None")
  BY <1>2, RefuseSound, ConfirmationSound DEF OnSubmissionAmbiguous
<1>. QED
  BY <1>1, <1>2

LEMMA OnReconcileTerminalSound ==
  ASSUME NEW o \in Orders, NEW u \in Updates, LifecycleInv(o),
         NEW t \in {"Cancelled", "Rejected"}, u.kind \in Reconciles
  PROVE  Sound(o, u, OnReconcileTerminal(o, u, t))
<1>. DEFINE n == [o EXCEPT !.pending = "None", !.state = t]
<1>1. CASE o.state \in Unresolved
  <2>1. n \in Orders
    BY DEF Orders, OrderStates, PendingMutations
  <2>3. /\ n.side = o.side /\ n.applied = o.applied /\ n.cumulative = o.cumulative
        /\ n.effective = o.effective /\ n.original = o.original
        /\ n.state = t /\ n.pending = "None"
    BY DEF Orders
  <2>2. Sound(o, u, ApplyEvidence(n, u, 0))
    BY <1>1, <2>1, <2>3, QuietChange DEF Unresolved, Terminal
  <2>. QED
    BY <1>1, <2>2 DEF OnReconcileTerminal, Unresolved
<1>2. CASE ~(o.state \in Unresolved)
  BY <1>2, RefuseSound, ConfirmationSound DEF OnReconcileTerminal
<1>. QED
  BY <1>1, <1>2

\* A fill or a reconciliation that moves the cumulative quantity returns the
\* signed difference as its delta.
FillChange(o, u, n) ==
  /\ n \in Orders
  /\ n.side = o.side /\ n.applied = o.applied /\ n.cumulative = u.cumulative
  /\ n.effective = o.effective /\ n.original = o.original
  /\ o.state \notin Terminal
  /\ u.cumulative >= o.cumulative
  /\ u.cumulative <= o.effective
  /\ (n.state = "Filled") <=> (n.cumulative = n.effective)
  /\ \/ n.pending = "None"
     \/ /\ n.state \in Working \cup {"ReconciliationRequired"}
        /\ n.pending = o.pending
        /\ n.pendingQuantity = o.pendingQuantity
        /\ n.pendingPrice = o.pendingPrice
        /\ n.cancelWasRequested = o.cancelWasRequested
  /\ o.state = "AmbiguousSubmission" => u.kind \in Reconciles

LEMMA FillSound ==
  ASSUME NEW o \in Orders, NEW u \in Updates, LifecycleInv(o), NEW n,
         FillChange(o, u, n)
  PROVE  Sound(o, u, ApplyEvidence(n, u, (u.cumulative - o.cumulative) * SignOf(o.side)))
<1>1. /\ o.side \in Sides /\ o.cumulative \in Int /\ o.effective \in Int
      /\ n.cumulative \in Int /\ n.cumulative = u.cumulative
  BY MaxQuantityAssumption DEF Orders, Quantities, FillChange
<1>2. (u.cumulative - o.cumulative) * SignOf(o.side) =
        SignOf(o.side) * (n.cumulative - o.cumulative)
  <2>1. CASE o.side = "Buy"
    BY <1>1, <2>1 DEF SignOf
  <2>2. CASE o.side = "Sell"
    BY <1>1, <2>2 DEF SignOf
  <2>. QED
    BY <1>1, <2>1, <2>2 DEF Sides
<1>3. LifecycleInv(n)
  BY <1>1 DEF LifecycleInv, FillChange
<1>4. SoundChange(o, n, u.kind, (u.cumulative - o.cumulative) * SignOf(o.side))
  BY <1>1, <1>2, <1>3 DEF SoundChange, FillChange
<1>. QED
  BY <1>4, ApplyEvidenceSound

LEMMA OnFillUpdateSound ==
  ASSUME NEW o \in Orders, NEW u \in Updates, LifecycleInv(o)
  PROVE  Sound(o, u, OnFillUpdate(o, u))
<1>. DEFINE f == [o EXCEPT !.cumulative = u.cumulative]
            full == [WithoutPending(f) EXCEPT !.state = "Filled"]
            part == [f EXCEPT !.state = "PartiallyFilled"]
            d == (u.cumulative - o.cumulative) * SignOf(o.side)
<1>0. o.cumulative \in Int /\ o.effective \in Int /\ u.cumulative \in Int
  BY UpdateTypes, MaxQuantityAssumption DEF Orders, Quantities, Absent
<1>1. CASE \/ o.state \notin Working
           \/ u.cumulative - o.cumulative < 0
           \/ u.cumulative > o.effective
           \/ u.cumulative - o.cumulative = 0
  BY <1>1, RefuseSound, ConfirmationSound DEF OnFillUpdate
<1>2. CASE /\ o.state \in Working
           /\ ~(u.cumulative - o.cumulative < 0)
           /\ ~(u.cumulative > o.effective)
           /\ ~(u.cumulative - o.cumulative = 0)
  <2>1. u.cumulative \in Quantities
    BY <1>0, <1>2, UpdateTypes, MaxQuantityAssumption DEF Orders, Quantities, Absent
  <2>2. f \in Orders
    BY <2>1 DEF Orders
  <2>3. CASE u.cumulative = o.effective
    <3>1. full \in Orders
      BY <2>2, WithoutPendingType DEF Orders, OrderStates
    <3>2. /\ full.side = o.side /\ full.applied = o.applied
          /\ full.cumulative = u.cumulative /\ full.effective = o.effective
          /\ full.original = o.original /\ full.state = "Filled" /\ full.pending = "None"
      BY <2>2, WithoutPendingType DEF Orders
    <3>3. FillChange(o, u, full)
      BY <1>0, <1>2, <2>3, <3>1, <3>2 DEF FillChange, Working, Terminal
    <3>4. Sound(o, u, ApplyEvidence(full, u, d))
      BY <3>3, FillSound
    <3>. QED
      BY <1>2, <2>3, <3>4 DEF OnFillUpdate
  <2>4. CASE u.cumulative # o.effective
    <3>1. part \in Orders
      BY <2>2 DEF Orders, OrderStates
    <3>2. /\ part.side = o.side /\ part.applied = o.applied
          /\ part.cumulative = u.cumulative /\ part.effective = o.effective
          /\ part.original = o.original /\ part.state = "PartiallyFilled"
          /\ part.pending = o.pending /\ part.pendingQuantity = o.pendingQuantity
          /\ part.pendingPrice = o.pendingPrice
          /\ part.cancelWasRequested = o.cancelWasRequested
      BY DEF Orders
    <3>3. FillChange(o, u, part)
      BY <1>0, <1>2, <2>4, <3>1, <3>2 DEF FillChange, Working, Terminal
    <3>4. Sound(o, u, ApplyEvidence(part, u, d))
      BY <3>3, FillSound
    <3>. QED
      BY <1>2, <2>4, <3>4 DEF OnFillUpdate
  <2>. QED
    BY <2>3, <2>4
<1>. QED
  BY <1>1, <1>2

LEMMA OnReconcileWorkingSound ==
  ASSUME NEW o \in Orders, NEW u \in Updates, LifecycleInv(o), u.kind \in Reconciles
  PROVE  Sound(o, u, OnReconcileWorking(o, u))
<1>. DEFINE w == [WithoutPending(o) EXCEPT !.brokerOrderId = u.brokerOrderId,
                                           !.cumulative = u.cumulative]
            n == [w EXCEPT !.state = SettledState(w)]
            d == (u.cumulative - o.cumulative) * SignOf(o.side)
<1>0. o.cumulative \in Int /\ o.effective \in Int /\ u.cumulative \in Int
  BY UpdateTypes, MaxQuantityAssumption DEF Orders, Quantities, Absent
<1>1. CASE \/ o.state \notin Unresolved
           \/ u.brokerOrderId = NoId
           \/ u.cumulative < o.cumulative
           \/ u.cumulative > o.effective
  BY <1>1, RefuseSound DEF OnReconcileWorking
<1>2. CASE /\ o.state \in Unresolved
           /\ u.brokerOrderId # NoId
           /\ ~(u.cumulative < o.cumulative)
           /\ ~(u.cumulative > o.effective)
  <2>1. u.cumulative \in Quantities
    BY <1>0, <1>2, UpdateTypes, MaxQuantityAssumption DEF Orders, Quantities, Absent
  <2>2. w \in Orders
    BY <2>1, UpdateTypes, WithoutPendingType DEF Orders
  <2>3. /\ w.side = o.side /\ w.applied = o.applied /\ w.cumulative = u.cumulative
        /\ w.effective = o.effective /\ w.original = o.original /\ w.pending = "None"
        /\ w.cancelWasRequested = o.cancelWasRequested
    BY WithoutPendingType DEF Orders, WithoutPending
  <2>4. SettledState(w) \in OrderStates
    BY DEF SettledState, WorkingState, OrderStates
  <2>5. n \in Orders /\ n.state = SettledState(w)
    BY <2>2, <2>4 DEF Orders
  <2>6. /\ n.side = o.side /\ n.applied = o.applied /\ n.cumulative = u.cumulative
        /\ n.effective = o.effective /\ n.original = o.original /\ n.pending = "None"
        /\ n.cancelWasRequested = o.cancelWasRequested
    BY <2>2, <2>3 DEF Orders
  <2>7. (n.state = "Filled") <=> (n.cumulative = n.effective)
    BY <2>3, <2>5, <2>6 DEF SettledState, WorkingState
  <2>8. FillChange(o, u, n)
    BY <1>0, <1>2, <2>5, <2>6, <2>7 DEF FillChange, Unresolved, Terminal
  <2>9. Sound(o, u, ApplyEvidence(n, u, d))
    BY <2>8, FillSound
  <2>. QED
    BY <1>2, <2>9 DEF OnReconcileWorking
<1>. QED
  BY <1>1, <1>2

LEMMA OnModifyAcceptedSound ==
  ASSUME NEW o \in Orders, NEW u \in Updates, LifecycleInv(o)
  PROVE  Sound(o, u, OnModifyAccepted(o, u))
<1>. DEFINE w == [WithoutPending(o) EXCEPT !.effective = u.quantity, !.price = u.price]
            n == [w EXCEPT !.state = SettledState(w)]
<1>1. CASE \/ o.pending # "Modify" \/ u.quantity = 0 \/ u.price = 0
           \/ u.quantity # o.pendingQuantity \/ u.price # o.pendingPrice
           \/ u.quantity < o.cumulative
  BY <1>1, RefuseSound DEF OnModifyAccepted
<1>2. CASE ~(\/ o.pending # "Modify" \/ u.quantity = 0 \/ u.price = 0
             \/ u.quantity # o.pendingQuantity \/ u.price # o.pendingPrice
             \/ u.quantity < o.cumulative)
  <2>1. /\ u.quantity \in Quantities /\ u.quantity > 0 /\ u.price \in Prices
        /\ o.cumulative \in Int /\ o.cumulative <= u.quantity /\ o.side \in Sides
    BY <1>2, UpdateTypes, MaxQuantityAssumption DEF Orders, Quantities
  <2>2. w \in Orders
    BY <2>1, WithoutPendingType DEF Orders
  <2>3. /\ w.side = o.side /\ w.applied = o.applied /\ w.cumulative = o.cumulative
        /\ w.effective = u.quantity /\ w.original = o.original /\ w.pending = "None"
    BY WithoutPendingType DEF Orders
  <2>4. SettledState(w) \in OrderStates
    BY DEF SettledState, WorkingState, OrderStates
  <2>5. n \in Orders /\ n.state = SettledState(w)
    BY <2>2, <2>4 DEF Orders
  <2>6. /\ n.side = o.side /\ n.applied = o.applied /\ n.cumulative = o.cumulative
        /\ n.effective = u.quantity /\ n.original = o.original /\ n.pending = "None"
    BY <2>2, <2>3 DEF Orders
  <2>7. LifecycleInv(n)
    BY <2>1, <2>3, <2>5, <2>6 DEF LifecycleInv, SettledState, WorkingState
  <2>8. 0 = SignOf(o.side) * (n.cumulative - o.cumulative)
    BY <2>1, <2>6, SignOfType
  <2>9. o.state \notin Terminal /\ o.state # "AmbiguousSubmission"
    BY <1>2 DEF LifecycleInv, Working, Terminal
  <2>10. SoundChange(o, n, u.kind, 0)
    BY <2>1, <2>5, <2>6, <2>7, <2>8, <2>9 DEF SoundChange
  <2>. QED
    BY <1>2, <2>10, ApplyEvidenceSound DEF OnModifyAccepted
<1>. QED
  BY <1>1, <1>2

-----------------------------------------------------------------------------
LEMMA TransitionSound ==
  ASSUME NEW o \in Orders, NEW u \in Updates, LifecycleInv(o)
  PROVE  Sound(o, u, Transition(o, u))
<1>1. CASE u.kind \in Reconciles
  BY <1>1, OnReconcileWorkingSound, OnReconcileTerminalSound DEF Transition, Reconciles
<1>2. CASE u.kind \in OrderEventKinds \ Reconciles
  BY <1>2, OnSubmissionStartedSound, OnBrokerAcknowledgedSound, OnBrokerRejectedSound,
     OnFillUpdateSound, OnModifyRequestedSound, OnModifyAcceptedSound,
     OnModifyRejectedSound, OnCancelRequestedSound, OnCancelAcceptedSound,
     OnCancelRejectedSound, OnSubmissionAmbiguousSound
     DEF Transition, OrderEventKinds, Reconciles
<1>. QED
  BY <1>1, <1>2, UpdateTypes

LEMMA ApplyOrderUpdateSound ==
  ASSUME NEW o \in Orders, NEW u \in Updates, LifecycleInv(o)
  PROVE  /\ Sound(o, u, ApplyOrderUpdate(o, u))
         /\ DuplicateEvidence(o, u) => ApplyOrderUpdate(o, u).order = o
BY TransitionSound, RefuseSound DEF ApplyOrderUpdate, Refuse, Repeated

-----------------------------------------------------------------------------
(***************************************************************************)
(* The inductive invariant.  PositionAppliedExactlyOnce needs the side and *)
(* the cumulative fill to move together, and every lemma above needs the   *)
(* aggregate to satisfy LifecycleInv before the step.                      *)
(***************************************************************************)
IInv ==
  /\ TypeOK
  /\ LifecycleInv(order)
  /\ PositionAppliedExactlyOnce
  /\ OneContentPerUpdateId

\* What one step of the aggregate does, stated for its result.
LEMMA StepSound ==
  ASSUME TypeOK, LifecycleInv(order), NEW u \in Updates, Apply(u)
  PROVE  LET r == ApplyOrderUpdate(order, u)
         IN  /\ Sound(order, u, r)
             /\ DuplicateEvidence(order, u) => r.order = order
             /\ order' = r.order
             /\ position' = position + r.delta
             /\ lastApplied' = IF r.applied THEN u.kind ELSE lastApplied
BY ApplyOrderUpdateSound DEF TypeOK, Apply

LEMMA InitInv == Init => IInv
<1>. SUFFICES ASSUME Init PROVE IInv
  OBVIOUS
<1>1. PICK side \in Sides, quantity \in 1 .. MaxQuantity, price \in Prices :
        order = NewOrder(side, quantity, price)
  BY DEF Init
<1>2. order \in Orders
  BY <1>1, MaxQuantityAssumption
     DEF NewOrder, Orders, Quantities, OrderStates, PendingMutations
<1>3. LifecycleInv(order)
  BY <1>1, MaxQuantityAssumption DEF NewOrder, LifecycleInv
<1>4. order.cumulative = 0 /\ order.applied = {} /\ order.side \in Sides
  BY <1>1 DEF NewOrder
<1>5. PositionAppliedExactlyOnce
  BY <1>4, SignOfType DEF PositionAppliedExactlyOnce, Init
<1>. QED
  BY <1>2, <1>3, <1>4, <1>5 DEF IInv, TypeOK, OneContentPerUpdateId, Init

LEMMA NextInv == IInv /\ [Next]_vars => IInv'
<1>. SUFFICES ASSUME IInv, [Next]_vars PROVE IInv'
  OBVIOUS
<1>1. CASE UNCHANGED vars
  BY <1>1 DEF IInv, vars, TypeOK, LifecycleInv, PositionAppliedExactlyOnce,
              OneContentPerUpdateId
<1>2. CASE Next
  <2>1. PICK u \in Updates : Apply(u)
    BY <1>2 DEF Next
  <2>. DEFINE r == ApplyOrderUpdate(order, u)
  <2>2. /\ Sound(order, u, r) /\ (DuplicateEvidence(order, u) => r.order = order)
        /\ order' = r.order /\ position' = position + r.delta
        /\ lastApplied' = IF r.applied THEN u.kind ELSE lastApplied
    BY <2>1, StepSound DEF IInv
  <2>. HIDE DEF r
  <2>3. /\ order \in Orders /\ order' \in Orders /\ order'.side = order.side
        /\ order.side \in Sides /\ order.cumulative \in Int /\ order'.cumulative \in Int
        /\ r.delta = SignOf(order.side) * (order'.cumulative - order.cumulative)
    BY <2>2, MaxQuantityAssumption DEF IInv, TypeOK, Sound, Orders, Quantities
  <2>4. /\ SignOf(order.side) * (order'.cumulative - order.cumulative) \in Int
        /\ SignOf(order.side) * order.cumulative
             + SignOf(order.side) * (order'.cumulative - order.cumulative)
             = SignOf(order.side) * order'.cumulative
    <3>1. CASE order.side = "Buy"
      BY <2>3, <3>1 DEF SignOf
    <3>2. CASE order.side = "Sell"
      BY <2>3, <3>2 DEF SignOf
    <3>. QED
      BY <2>3, <3>1, <3>2 DEF Sides
  <2>5. TypeOK'
    BY <2>2, <2>3, <2>4, UpdateTypes DEF IInv, TypeOK
  <2>6. LifecycleInv(order)'
    BY <2>2 DEF Sound, LifecycleInv
  <2>7. PositionAppliedExactlyOnce'
    BY <2>2, <2>3, <2>4 DEF IInv, PositionAppliedExactlyOnce
  <2>8. OneContentPerUpdateId'
    <3>1. CASE DuplicateEvidence(order, u)
      BY <2>2, <3>1 DEF IInv, OneContentPerUpdateId
    <3>2. CASE ~DuplicateEvidence(order, u)
      <4>1. \/ order'.applied = order.applied
            \/ /\ u.id # NoId
               /\ order'.applied = order.applied \cup {<<u.id, Fingerprint(u)>>}
        BY <2>2 DEF Sound
      <4>2. u.id = NoId \/ \A a \in order.applied : a[1] # u.id
        BY <3>2 DEF DuplicateEvidence, AppliedAs
      <4>. QED
        BY <4>1, <4>2 DEF IInv, OneContentPerUpdateId
    <3>. QED
      BY <3>1, <3>2
  <2>. QED
    BY <2>5, <2>6, <2>7, <2>8 DEF IInv
<1>. QED
  BY <1>1, <1>2

LEMMA Invariance == Spec => []IInv
BY InitInv, NextInv, PTL DEF Spec

-----------------------------------------------------------------------------
\* The aggregate, the position and the history keep their types, whatever
\* evidence apply_order_update() is given.
THEOREM TypeCorrect == Spec => []TypeOK
<1>1. IInv => TypeOK
  BY DEF IInv
<1>. QED
  BY <1>1, Invariance, PTL

\* The deltas handed to the caller add up to the signed cumulative fill.
THEOREM PositionExact == Spec => []PositionAppliedExactlyOnce
<1>1. IInv => PositionAppliedExactlyOnce
  BY DEF IInv
<1>. QED
  BY <1>1, Invariance, PTL

\* No overfill, and Filled means complete.
THEOREM FilledIsComplete == Spec => []FilledExactlyWhenComplete
<1>1. IInv => FilledExactlyWhenComplete
  BY DEF IInv, LifecycleInv, FilledExactlyWhenComplete
<1>. QED
  BY <1>1, Invariance, PTL

\* No terminal order keeps a modify or a cancel in flight.
THEOREM PendingIsLive == Spec => []PendingOnlyOnLiveOrders
<1>1. IInv => PendingOnlyOnLiveOrders
  BY DEF IInv, LifecycleInv, PendingOnlyOnLiveOrders
<1>. QED
  BY <1>1, Invariance, PTL

\* An update id names one content only.
THEOREM UpdateIdsAreBound == Spec => []OneContentPerUpdateId
<1>1. IInv => OneContentPerUpdateId
  BY DEF IInv
<1>. QED
  BY <1>1, Invariance, PTL

\* No evidence moves a Filled, Cancelled or Rejected order or its position.
THEOREM TerminalStays == Spec => TerminalIsFinal
<1>. DEFINE A == order.state \in Terminal =>
                   /\ order'.state = order.state
                   /\ order'.cumulative = order.cumulative
                   /\ order'.effective = order.effective
                   /\ position' = position
<1>1. ASSUME IInv, [Next]_vars PROVE [A]_vars
  <2>1. CASE UNCHANGED vars
    BY <2>1
  <2>2. CASE Next
    <3>1. PICK u \in Updates : Apply(u)
      BY <2>2 DEF Next
    <3>2. /\ Sound(order, u, ApplyOrderUpdate(order, u))
          /\ order' = ApplyOrderUpdate(order, u).order
          /\ position' = position + ApplyOrderUpdate(order, u).delta
      BY <1>1, <3>1, StepSound DEF IInv
    <3>3. order.side \in Sides /\ order.cumulative \in Int /\ position \in Int
      BY <1>1, MaxQuantityAssumption DEF IInv, TypeOK, Orders, Quantities
    <3>4. SignOf(order.side) * (order.cumulative - order.cumulative) = 0
      BY <3>3, SignOfType
    <3>. QED
      BY <3>2, <3>3, <3>4 DEF Sound
  <2>. QED
    BY <1>1, <2>1, <2>2
<1>. QED
  BY <1>1, Invariance, PTL DEF Spec, TerminalIsFinal

\* Fills never regress and applied evidence is never forgotten.
THEOREM FillsAreMonotonic == Spec => FillsOnlyGrow
<1>. DEFINE A == /\ order'.cumulative >= order.cumulative
                 /\ order.applied \subseteq order'.applied
<1>1. ASSUME IInv, [Next]_vars PROVE [A]_vars
  <2>1. CASE UNCHANGED vars
    BY <2>1
  <2>2. CASE Next
    <3>1. PICK u \in Updates : Apply(u)
      BY <2>2 DEF Next
    <3>2. /\ Sound(order, u, ApplyOrderUpdate(order, u))
          /\ order' = ApplyOrderUpdate(order, u).order
      BY <1>1, <3>1, StepSound DEF IInv
    <3>. QED
      BY <3>2 DEF Sound
  <2>. QED
    BY <1>1, <2>1, <2>2
<1>. QED
  BY <1>1, Invariance, PTL DEF Spec, FillsOnlyGrow

\* Only reconciliation evidence moves an order out of AmbiguousSubmission.
THEOREM AmbiguousStaysGated == Spec => AmbiguousSubmissionGate
<1>. DEFINE A == order.state = "AmbiguousSubmission" /\ order'.state # "AmbiguousSubmission" =>
                   lastApplied' \in {"ReconcileWorking", "ReconcileCancelled", "ReconcileRejected"}
<1>1. ASSUME IInv, [Next]_vars PROVE [A]_vars
  <2>1. CASE UNCHANGED vars
    BY <2>1
  <2>2. CASE Next
    <3>1. PICK u \in Updates : Apply(u)
      BY <2>2 DEF Next
    <3>2. /\ Sound(order, u, ApplyOrderUpdate(order, u))
          /\ order' = ApplyOrderUpdate(order, u).order
          /\ lastApplied' = IF ApplyOrderUpdate(order, u).applied THEN u.kind ELSE lastApplied
      BY <1>1, <3>1, StepSound DEF IInv
    <3>. QED
      BY <3>2 DEF Sound, Reconciles
  <2>. QED
    BY <1>1, <2>1, <2>2
<1>. QED
  BY <1>1, Invariance, PTL DEF Spec, AmbiguousSubmissionGate
=============================================================================
