------------------------ MODULE ExecutionSessionProofs ------------------------
(***************************************************************************)
(* Proofs about ExecutionSession, for any set of intents, any ledger and   *)
(* any number of crashes: authority, stops and single attempts.            *)
(*                                                                         *)
(* Handlers are operators that return outcomes.  For each handler a lemma  *)
(* says what its outcomes have in common (Sound); for each way an outcome  *)
(* is taken (Finish, CrashDuring, Run, RunCollected) a lemma says that it  *)
(* keeps the invariant.                                                    *)
(***************************************************************************)
EXTENDS ExecutionSession, FiniteSetTheorems, WellFoundedInduction, TLAPS

-----------------------------------------------------------------------------
(* Functions defined by recursion over a sequence.                         *)

\* A set of numbers with 0 and every successor is Nat: the induction with
\* which the loops over records and fills are followed.
LEMMA NatSetInduction ==
    ASSUME NEW T \in SUBSET Nat, 0 \in T, \A n \in T : n + 1 \in T
    PROVE  T = Nat
<1> DEFINE R == OpToRel(<, Nat)
           U == Nat \ T
<1>1. \A x, y \in Nat : <<x, y>> \in R <=> x < y
  BY DEF OpToRel
<1>2. IsWellFoundedOn(R, Nat)
  BY NatLessThanWellFounded
<1> SUFFICES ASSUME U # {} PROVE FALSE
  OBVIOUS
<1>3. \E x \in U : \A y \in U : ~(<<y, x>> \in R)
  <2> HIDE DEF R, U
  <2>1. U \subseteq Nat
    BY DEF U
  <2> QED BY <1>2, <2>1, WFMin
<1>4. PICK x \in U : \A y \in U : ~(y < x)
  BY <1>1, <1>3
<1>5. x # 0 /\ x - 1 \in Nat /\ x - 1 < x
  BY <1>4
<1>6. x - 1 \in T
  BY <1>4, <1>5
<1> QED BY <1>5, <1>6

\* A finite sequence, of anything.
IsSequence(s) == \E S : s \in Seq(S)

\* Records are appended and cut in the usual ways.
LEMMA AppendedSequences ==
    /\ IsSequence(<< >>)
    /\ \A a : IsSequence(<<a>>)
    /\ \A s, a : IsSequence(s) =>
         /\ IsSequence(Append(s, a)) /\ Len(Append(s, a)) = Len(s) + 1
         /\ Append(s, a)[Len(s) + 1] = a
         /\ \A k \in 1..Len(s) : Append(s, a)[k] = s[k]
    /\ \A s : IsSequence(s) => Len(s) \in Nat
<1>1. IsSequence(<< >>)
  <2>1. << >> \in Seq(Nat)
    OBVIOUS
  <2> QED BY <2>1 DEF IsSequence
<1>2. ASSUME NEW a PROVE IsSequence(<<a>>)
  <2>1. <<a>> \in Seq({a})
    OBVIOUS
  <2> QED BY <2>1 DEF IsSequence
<1>3. ASSUME NEW s, NEW a, IsSequence(s)
      PROVE  /\ IsSequence(Append(s, a)) /\ Len(Append(s, a)) = Len(s) + 1
             /\ Append(s, a)[Len(s) + 1] = a
             /\ \A k \in 1..Len(s) : Append(s, a)[k] = s[k]
  <2>1. PICK S : s \in Seq(S)
    BY <1>3 DEF IsSequence
  <2>2. s \in Seq(S \cup {a})
    <3>1. s \in [1..Len(s) -> S] /\ Len(s) \in Nat
      BY <2>1
    <3>2. s \in [1..Len(s) -> S \cup {a}]
      BY <3>1
    <3> QED BY <3>1, <3>2
  <2>3. Append(s, a) \in Seq(S \cup {a})
    BY <2>2
  <2>4. IsSequence(Append(s, a))
    BY <2>3 DEF IsSequence
  <2> QED BY <2>2, <2>4
<1>4. ASSUME NEW s, IsSequence(s) PROVE Len(s) \in Nat
  <2>1. PICK S : s \in Seq(S)
    BY <1>4 DEF IsSequence
  <2> QED BY <2>1
<1> QED BY <1>1, <1>2, <1>3, <1>4

\* Two sequences of records are joined.
LEMMA JoinedSequences ==
    \A s, t : IsSequence(s) /\ IsSequence(t) =>
         /\ IsSequence(s \o t) /\ Len(s \o t) = Len(s) + Len(t)
         /\ \A k \in 1..Len(s) : (s \o t)[k] = s[k]
         /\ \A k \in 1..Len(t) : (s \o t)[Len(s) + k] = t[k]
<1> SUFFICES ASSUME NEW s, NEW t, IsSequence(s), IsSequence(t)
    PROVE  /\ IsSequence(s \o t) /\ Len(s \o t) = Len(s) + Len(t)
           /\ \A k \in 1..Len(s) : (s \o t)[k] = s[k]
           /\ \A k \in 1..Len(t) : (s \o t)[Len(s) + k] = t[k]
  OBVIOUS
<1>1. PICK S : s \in Seq(S)
  BY DEF IsSequence
<1>2. PICK T : t \in Seq(T)
  BY DEF IsSequence
<1>3. s \in Seq(S \cup T) /\ t \in Seq(S \cup T)
  <2>1. s \in [1..Len(s) -> S] /\ Len(s) \in Nat /\ t \in [1..Len(t) -> T] /\ Len(t) \in Nat
    BY <1>1, <1>2
  <2>2. s \in [1..Len(s) -> S \cup T] /\ t \in [1..Len(t) -> S \cup T]
    BY <2>1
  <2> QED BY <2>1, <2>2
<1>4. s \o t \in Seq(S \cup T)
  BY <1>3
<1>5. IsSequence(s \o t)
  BY <1>4 DEF IsSequence
<1>6. Len(s \o t) = Len(s) + Len(t)
  BY <1>3
<1>7. /\ \A k \in 1..Len(s) : (s \o t)[k] = s[k]
      /\ \A k \in 1..Len(t) : (s \o t)[Len(s) + k] = t[k]
  BY <1>3
<1> QED BY <1>5, <1>6, <1>7

\* A crash keeps the first k records.
LEMMA Prefixes ==
    ASSUME NEW s, IsSequence(s), NEW k \in 0..Len(s)
    PROVE  /\ IsSequence(SubSeq(s, 1, k)) /\ Len(SubSeq(s, 1, k)) = k
           /\ \A j \in 1..k : SubSeq(s, 1, k)[j] = s[j]
<1>1. PICK S : s \in Seq(S)
  BY DEF IsSequence
<1>2. Len(s) \in Nat
  BY <1>1
<1>3. SubSeq(s, 1, k) \in Seq(S) /\ Len(SubSeq(s, 1, k)) = k
  BY <1>1, <1>2
<1>4. \A j \in 1..k : SubSeq(s, 1, k)[j] = s[j]
  BY <1>1, <1>2
<1> QED BY <1>3, <1>4 DEF IsSequence

\* One record is replayed as it is, however TLC is told to evaluate it.
LEMMA ReplayedRecordIs ==
    ASSUME NEW before, NEW event
    PROVE  ReplayedRecord(before, event) = ReplayRecord(before, event)
<1>1. {ReplayRecord(state, event) : state \in {before}} = {ReplayRecord(before, event)}
  OBVIOUS
<1>2. ReplayedRecord(before, event) \in {ReplayRecord(before, event)}
  BY <1>1 DEF ReplayedRecord
<1> QED BY <1>2

\* replay_ledger() goes record by record (Replay).
IsReplay(r, state, events) ==
    /\ r[0] = state
    /\ \A n \in 1..Len(events) : r[n] = ReplayRecord(r[n - 1], events[n])
    /\ Replay(state, events) = r[Len(events)]

\* The replay loop, as a sequence of states: the recursive function exists
\* because every prefix of it does.
LEMMA ReplaySteps ==
    ASSUME NEW state, NEW events, Len(events) \in Nat
    PROVE  \E r : IsReplay(r, state, events)
<1> DEFINE N == Len(events)
           Steps(r, m) == r[0] = state /\ \A n \in 1..m : r[n] = ReplayRecord(r[n - 1], events[n])
           Solves(r) == r = [n \in 0..N |->
                              IF n = 0 THEN state ELSE ReplayedRecord(r[n - 1], events[n])]
           replayed == CHOOSE r : Solves(r)
           T == {m \in Nat : \E r : Steps(r, m)}
<1>1. 0 \in T
  <2> DEFINE r == [n \in {0} |-> state]
  <2>1. r[0] = state /\ 1..0 = {}
    OBVIOUS
  <2>2. Steps(r, 0)
    BY <2>1
  <2> HIDE DEF r, Steps
  <2> QED BY <2>2
<1>2. ASSUME NEW m \in T PROVE m + 1 \in T
  <2>1. PICK r : Steps(r, m)
    BY <1>2
  <2> DEFINE q == [n \in 0..(m + 1) |->
                    IF n = m + 1 THEN ReplayRecord(r[m], events[m + 1]) ELSE r[n]]
  <2>2. m \in Nat
    BY <1>2
  <2>3. q[0] = state
    BY <2>1, <2>2
  <2>4. ASSUME NEW n \in 1..(m + 1) PROVE q[n] = ReplayRecord(q[n - 1], events[n])
    <3>1. n - 1 \in 0..m /\ n \in 0..(m + 1) /\ n - 1 # m + 1 /\ n - 1 \in 0..(m + 1)
      BY <2>2
    <3>2. q[n - 1] = r[n - 1]
      BY <3>1
    <3>3. CASE n = m + 1
      <4>1. q[n] = ReplayRecord(r[m], events[m + 1]) /\ n - 1 = m
        BY <3>1, <3>3, <2>2
      <4> QED BY <4>1, <3>2, <3>3
    <3>4. CASE n # m + 1
      <4>1. n \in 1..m /\ q[n] = r[n]
        BY <3>1, <3>4, <2>2
      <4> QED BY <4>1, <3>2, <2>1
    <3> QED BY <3>3, <3>4
  <2>5. Steps(q, m + 1)
    <3> HIDE DEF q
    <3> QED BY <2>3, <2>4
  <2> HIDE DEF q, Steps
  <2> QED BY <2>2, <2>5
<1>3. N \in T
  <2> HIDE DEF Steps
  <2>1. T = Nat
    BY <1>1, <1>2, NatSetInduction
  <2> QED BY <2>1
<1>4. PICK h : Steps(h, N)
  BY <1>3
<1> DEFINE g == [n \in 0..N |-> h[n]]
<1>5. Solves(g)
  <2>1. \A n \in 0..N : g[n] = IF n = 0 THEN state ELSE ReplayedRecord(g[n - 1], events[n])
    <3> TAKE n \in 0..N
    <3>1. CASE n = 0
      BY <1>4, <3>1
    <3>2. CASE n # 0
      <4>1. n \in 1..N /\ n - 1 \in 0..N
        BY <3>2
      <4>2. g[n] = h[n] /\ g[n - 1] = h[n - 1]
        BY <4>1
      <4>3. h[n] = ReplayRecord(h[n - 1], events[n])
        BY <1>4, <4>1
      <4>4. ReplayedRecord(h[n - 1], events[n]) = ReplayRecord(h[n - 1], events[n])
        BY ReplayedRecordIs
      <4> QED BY <3>2, <4>1, <4>2, <4>3, <4>4
    <3> QED BY <3>1, <3>2
  <2> QED BY <2>1
<1>6. Solves(replayed)
  <2> HIDE DEF Solves, g
  <2> QED BY <1>5
<1>7. Replay(state, events) = replayed[N]
  BY DEF Replay
<1> HIDE DEF replayed
<1>8. replayed[0] = state /\ \A n \in 1..N : replayed[n] = ReplayRecord(replayed[n - 1], events[n])
  <2>1. replayed = [n \in 0..N |->
                     IF n = 0 THEN state ELSE ReplayedRecord(replayed[n - 1], events[n])]
    BY <1>6
  <2>2. ASSUME NEW n \in 1..N PROVE replayed[n] = ReplayRecord(replayed[n - 1], events[n])
    <3>1. n \in 0..N /\ n # 0
      OBVIOUS
    <3>2. replayed[n] = ReplayedRecord(replayed[n - 1], events[n])
      <4> HIDE DEF N
      <4> QED BY <2>1, <3>1
    <3> QED BY <3>2, ReplayedRecordIs
  <2>3. replayed[0] = state
    BY <2>1
  <2> QED BY <2>2, <2>3
<1> QED BY <1>7, <1>8 DEF IsReplay

-----------------------------------------------------------------------------
(* Replay of one record (replay_record).                                   *)

\* The fields of ReconstructedState and of what it knows of an intent.
ReplayFields ==
    {"intents", "orders", "position", "lastUpdate", "recon", "global", "stopped", "session", "faulty"}

IntentFields == {"content", "disposition", "order", "ambiguous", "decided", "outcome"}

\* The intents of a replay are records with their two flags.
GoodIntents(s) ==
    \A i \in DOMAIN s.intents :
       /\ DOMAIN s.intents[i] = IntentFields
       /\ s.intents[i].ambiguous \in BOOLEAN
       /\ s.intents[i].decided \in BOOLEAN

\* What every state of a replay is.
GoodReplay(s) ==
    /\ DOMAIN s = ReplayFields
    /\ {s.recon, s.global, s.stopped, s.faulty} \subseteq BOOLEAN
    /\ IsFiniteSet(DOMAIN s.orders)
    /\ GoodIntents(s)

\* ReconciliationIsKept, of any state of a replay.
Remembers(s) ==
    s.global \/ (\E i \in DOMAIN s.intents : s.intents[i].ambiguous) => s.recon

\* No restart overlooks the stop of s.
Stopped(s) == s.stopped \/ s.faulty

\* The risk decision about i is on record.
Decided(s, i) == s.faulty \/ (i \in DOMAIN s.intents /\ s.intents[i].decided)

\* The attempt of i is on record.
Requested(s, i) ==
    s.faulty \/ (i \in DOMAIN s.intents /\ s.intents[i].disposition \notin BeforeAttempt)

\* The order is on record.
Carries(s, o) == s.faulty \/ o \in DOMAIN s.orders

\* The records of a mapping, and those of an attempt.
Mapping == {"mapping_validated", "mapping_refused"}

AttemptTypes == {"submission_started", "modify_requested", "cancel_requested"}

\* Whatever is replayed after s, nothing in s is undone.
Follows(s, t) ==
    /\ s.faulty => t.faulty
    /\ s.stopped => t.stopped
    /\ DOMAIN s.intents \subseteq DOMAIN t.intents
    /\ DOMAIN s.orders \subseteq DOMAIN t.orders
    /\ \A i : Decided(s, i) => Decided(t, i)

\* A record other than a mapping leaves an attempt on record.
KeepsRequest(s, t, i) == Decided(s, i) /\ Requested(s, i) => Requested(t, i)

\* The steps of one record, one after the other.
LEMMA FollowsIsTransitive ==
    ASSUME NEW s, NEW t, NEW u, Follows(s, t), Follows(t, u)
    PROVE  Follows(s, u)
BY DEF Follows

\* A LedgerError only sets the fault.
LEMMA FaultySound ==
    ASSUME NEW s, GoodReplay(s)
    PROVE  /\ GoodReplay(Faulty(s)) /\ Follows(s, Faulty(s)) /\ Faulty(s).faulty
           /\ Remembers(s) => Remembers(Faulty(s))
BY DEF GoodReplay, GoodIntents, ReplayFields, Follows, Faulty, Decided, Remembers

\* What update_intent() changes: disposition, order and ambiguity of the
\* intent that the record names.
LEMMA UpdateIntentSound ==
    ASSUME NEW s, GoodReplay(s), NEW event, NEW ambiguous \in BOOLEAN,
           NEW t, t = UpdateIntent(s, event, ambiguous)
    PROVE  /\ GoodReplay(t) /\ Follows(s, t)
           /\ DOMAIN t.intents = DOMAIN s.intents
           /\ t.orders = s.orders /\ t.recon = s.recon /\ t.global = s.global
           /\ t.stopped = s.stopped
           /\ \A i \in DOMAIN s.intents :
                /\ t.intents[i].decided = s.intents[i].decided
                /\ i # event.intent => t.intents[i] = s.intents[i]
                /\ t.intents[i].ambiguous => s.intents[i].ambiguous \/ ambiguous
           /\ ~t.faulty /\ event.intent # NoId =>
                /\ event.intent \in DOMAIN t.intents
                /\ t.intents[event.intent].disposition = event.type
           /\ event.intent = NoId => t = s
<1>1. CASE event.intent = NoId \/ s.faulty
  <2>1. t = s
    BY <1>1 DEF UpdateIntent
  <2>2. Follows(s, s)
    BY DEF Follows
  <2>3. ~t.faulty /\ event.intent # NoId => FALSE
    BY <1>1, <2>1
  <2> QED BY <2>1, <2>2, <2>3
<1>2. CASE ~(event.intent = NoId \/ s.faulty) /\ event.intent \notin DOMAIN s.intents
  <2>1. t = Faulty(s)
    BY <1>2 DEF UpdateIntent
  <2>2. /\ t.faulty /\ t.intents = s.intents /\ t.orders = s.orders /\ t.recon = s.recon
        /\ t.global = s.global /\ t.stopped = s.stopped
    BY <2>1 DEF Faulty, GoodReplay, ReplayFields
  <2>3. GoodReplay(t) /\ Follows(s, t)
    BY <2>1, FaultySound
  <2> QED BY <1>2, <2>2, <2>3
<1>3. CASE ~(event.intent = NoId \/ s.faulty) /\ event.intent \in DOMAIN s.intents
  <2> DEFINE e == event.intent
  <2>1. t = [s EXCEPT !.intents[e].disposition = event.type,
                      !.intents[e].order = IF event.order = NoId THEN @ ELSE event.order,
                      !.intents[e].ambiguous = ambiguous]
    BY <1>3 DEF UpdateIntent
  <2>0. DOMAIN s = ReplayFields /\ DOMAIN s.intents[e] = IntentFields
    BY <1>3 DEF GoodReplay, GoodIntents
  <2>2. /\ DOMAIN t = ReplayFields
        /\ t.orders = s.orders /\ t.recon = s.recon /\ t.global = s.global
        /\ t.stopped = s.stopped /\ t.faulty = s.faulty
    BY <2>0, <2>1 DEF ReplayFields
  <2>3. DOMAIN t.intents = DOMAIN s.intents
    BY <2>0, <2>1 DEF ReplayFields
  <2>4. ASSUME NEW i \in DOMAIN s.intents, i # e PROVE t.intents[i] = s.intents[i]
    BY <2>0, <2>1, <2>4 DEF ReplayFields
  <2>5. /\ DOMAIN t.intents[e] = IntentFields
        /\ t.intents[e].disposition = event.type
        /\ t.intents[e].ambiguous = ambiguous
        /\ t.intents[e].decided = s.intents[e].decided
    BY <1>3, <2>0, <2>1 DEF ReplayFields, IntentFields
  <2> HIDE DEF e
  <2>6. GoodIntents(t)
    BY <2>3, <2>4, <2>5, <1>3 DEF GoodReplay, GoodIntents, e
  <2>7. GoodReplay(t)
    BY <2>2, <2>6 DEF GoodReplay
  <2>8. \A i \in DOMAIN s.intents :
          /\ t.intents[i].decided = s.intents[i].decided
          /\ i # e => t.intents[i] = s.intents[i]
          /\ t.intents[i].ambiguous => s.intents[i].ambiguous \/ ambiguous
    BY <2>4, <2>5
  <2>9. Follows(s, t)
    BY <2>2, <2>3, <2>8 DEF Follows, Decided
  <2> QED BY <1>3, <2>2, <2>3, <2>5, <2>7, <2>8, <2>9 DEF e
<1> QED BY <1>1, <1>2, <1>3

\* What the replay of one record keeps, and what the record leaves behind.
RecordSound(s, event, t) ==
    /\ GoodReplay(t) /\ Follows(s, t)
    /\ Remembers(s) => Remembers(t)
    /\ \A i : ~(event.type \in Mapping /\ event.intent = i) => KeepsRequest(s, t, i)
    /\ event.type = "safety_stop" => Stopped(t)
    /\ event.type = "risk_approved" => Decided(t, event.intent)
    /\ event.type \in AttemptTypes /\ event.intent # NoId => Requested(t, event.intent)
    /\ event.type = "submission_started" => Carries(t, event.order)

\* A fault is sound whatever the record was.
LEMMA FaultIsSound ==
    ASSUME NEW s, GoodReplay(s), NEW event, NEW u, GoodReplay(u),
           Remembers(s) => Remembers(u), Follows(s, u)
    PROVE  RecordSound(s, event, Faulty(u))
<1>1. /\ GoodReplay(Faulty(u)) /\ Follows(u, Faulty(u)) /\ Faulty(u).faulty
      /\ Remembers(u) => Remembers(Faulty(u))
  BY FaultySound
<1> DEFINE t == Faulty(u)
<1> HIDE DEF t
<1>2. Follows(s, t)
  BY <1>1, FollowsIsTransitive DEF t
<1>3. RecordSound(s, event, t)
  BY <1>1, <1>2 DEF t, RecordSound, KeepsRequest, Stopped, Decided, Requested, Carries
<1> QED BY <1>3 DEF t

\* An intent is received once; another payload under its id is an error.
LEMMA IntentReceivedSound ==
    ASSUME NEW s, GoodReplay(s), ~s.faulty, NEW event, event.type = "intent_received"
    PROVE  RecordSound(s, event, OnIntentReceived(s, event))
<1> DEFINE e == event.intent
           new == [content |-> event.content, disposition |-> "intent_received",
                   order |-> NoId, ambiguous |-> FALSE, decided |-> FALSE, outcome |-> FALSE]
           t == OnIntentReceived(s, event)
<1>0. DOMAIN s = ReplayFields
  BY DEF GoodReplay
<1>1. CASE e \notin DOMAIN s.intents
  <2>1. t = [s EXCEPT !.intents = Put(@, e, new)]
    BY <1>1 DEF OnIntentReceived
  <2> DEFINE p == Put(s.intents, e, new)
  <2>2. /\ DOMAIN p = DOMAIN s.intents \cup {e} /\ p[e] = new
        /\ \A i \in DOMAIN s.intents \ {e} : p[i] = s.intents[i]
    BY DEF Put
  <2>3. /\ DOMAIN new = IntentFields /\ new.ambiguous = FALSE /\ new.decided = FALSE
    BY DEF IntentFields
  <2>4. /\ DOMAIN t = ReplayFields /\ t.intents = p /\ t.orders = s.orders
        /\ t.recon = s.recon /\ t.global = s.global /\ t.stopped = s.stopped
        /\ t.faulty = s.faulty
    BY <1>0, <2>1 DEF ReplayFields
  <2> HIDE DEF t, p, e, new
  <2>5. \A i \in DOMAIN s.intents : i # e /\ t.intents[i] = s.intents[i]
    BY <1>1, <2>2, <2>4
  <2>6. GoodReplay(t)
    <3>1. GoodIntents(t)
      <4> SUFFICES ASSUME NEW i \in DOMAIN t.intents
          PROVE  /\ DOMAIN t.intents[i] = IntentFields
                 /\ t.intents[i].ambiguous \in BOOLEAN
                 /\ t.intents[i].decided \in BOOLEAN
        BY DEF GoodIntents
      <4>1. CASE i = e
        BY <2>2, <2>3, <2>4, <4>1
      <4>2. CASE i # e
        BY <2>2, <2>4, <2>5, <4>2 DEF GoodReplay, GoodIntents
      <4> QED BY <4>1, <4>2
    <3> QED BY <2>4, <3>1 DEF GoodReplay
  <2>7. Follows(s, t)
    BY <2>2, <2>4, <2>5 DEF Follows, Decided
  <2>8. Remembers(s) => Remembers(t)
    BY <2>2, <2>3, <2>4, <2>5 DEF Remembers
  <2>9. \A i : KeepsRequest(s, t, i)
    BY <2>2, <2>4, <2>5 DEF KeepsRequest, Decided, Requested
  <2> QED BY <2>6, <2>7, <2>8, <2>9 DEF t, RecordSound, AttemptTypes
<1>2. CASE e \in DOMAIN s.intents /\ s.intents[e].content # event.content
  <2> DEFINE u == [s EXCEPT !.stopped = TRUE]
  <2>1. t = Faulty(u)
    BY <1>2 DEF OnIntentReceived
  <2>2. /\ DOMAIN u = ReplayFields /\ u.intents = s.intents /\ u.orders = s.orders
        /\ u.recon = s.recon /\ u.global = s.global /\ u.stopped = TRUE
        /\ u.faulty = s.faulty
    BY <1>0 DEF ReplayFields
  <2> HIDE DEF u, t
  <2>3. GoodReplay(u)
    BY <2>2 DEF GoodReplay, GoodIntents
  <2>4. Follows(s, u) /\ (Remembers(s) => Remembers(u))
    BY <2>2 DEF Follows, Decided, Remembers
  <2>5. RecordSound(s, event, t)
    BY <2>1, <2>3, <2>4, FaultIsSound
  <2> QED BY <2>5 DEF t
<1>3. CASE e \in DOMAIN s.intents /\ s.intents[e].content = event.content
  <2>1. OnIntentReceived(s, event) = s
    BY <1>3 DEF OnIntentReceived
  <2>2. Follows(s, s) /\ \A i : KeepsRequest(s, s, i)
    BY DEF Follows, KeepsRequest
  <2>3. RecordSound(s, event, s)
    BY <2>2 DEF RecordSound, AttemptTypes
  <2> QED BY <2>1, <2>3
<1> QED BY <1>1, <1>2, <1>3

\* A change of disposition that is no step back is sound.
LEMMA DispositionSound ==
    ASSUME NEW s, GoodReplay(s), NEW event, NEW ambiguous \in BOOLEAN,
           NEW u, GoodReplay(u), Follows(s, u), u.intents = s.intents,
           u.faulty => s.faulty,
           NEW t, t = UpdateIntent(u, event, ambiguous)
    PROVE  /\ GoodReplay(t) /\ Follows(s, t)
           /\ event.type \notin BeforeAttempt => \A i : KeepsRequest(s, t, i)
           /\ \A i : i # event.intent => KeepsRequest(s, t, i)
           /\ event.type \notin BeforeAttempt /\ event.intent # NoId => Requested(t, event.intent)
<1>1. /\ GoodReplay(t) /\ Follows(u, t)
      /\ DOMAIN t.intents = DOMAIN u.intents
      /\ \A i \in DOMAIN u.intents : i # event.intent => t.intents[i] = u.intents[i]
      /\ ~t.faulty /\ event.intent # NoId =>
           /\ event.intent \in DOMAIN t.intents
           /\ t.intents[event.intent].disposition = event.type
      /\ event.intent = NoId => t = u
  BY UpdateIntentSound
<1>2. Follows(s, t)
  BY <1>1, FollowsIsTransitive
<1>3. \A i : i # event.intent => KeepsRequest(s, t, i)
  BY <1>1, <1>2 DEF KeepsRequest, Requested, Follows
<1>4. event.intent = NoId => KeepsRequest(s, t, event.intent)
  BY <1>1, <1>2 DEF KeepsRequest, Requested, Follows
<1>5. event.type \notin BeforeAttempt /\ event.intent # NoId => Requested(t, event.intent)
  BY <1>1 DEF Requested
<1>6. event.type \notin BeforeAttempt => KeepsRequest(s, t, event.intent)
  BY <1>4, <1>5 DEF KeepsRequest
<1> QED BY <1>1, <1>2, <1>3, <1>5, <1>6

\* The first risk decision is taken, a second one is an error.
LEMMA RiskDecisionSound ==
    ASSUME NEW s, GoodReplay(s), ~s.faulty, NEW event,
           event.type \in {"risk_approved", "risk_rejected"}
    PROVE  RecordSound(s, event, OnRiskDecision(s, event))
<1> DEFINE e == event.intent
           t == OnRiskDecision(s, event)
<1>0. DOMAIN s = ReplayFields
  BY DEF GoodReplay
<1>1. CASE e \notin DOMAIN s.intents \/ s.intents[e].decided
  <2>1. t = Faulty(s)
    BY <1>1 DEF OnRiskDecision
  <2>2. Follows(s, s)
    BY DEF Follows
  <2> QED BY <2>1, <2>2, FaultIsSound
<1>2. CASE e \in DOMAIN s.intents /\ ~s.intents[e].decided
  <2> DEFINE u == [s EXCEPT !.intents[e].decided = TRUE]
  <2>1. t = UpdateIntent(u, event, FALSE)
    BY <1>2 DEF OnRiskDecision
  <2>2. DOMAIN s.intents[e] = IntentFields
    BY <1>2 DEF GoodReplay, GoodIntents
  <2>3. /\ DOMAIN u = ReplayFields /\ DOMAIN u.intents = DOMAIN s.intents /\ u.orders = s.orders
        /\ u.recon = s.recon /\ u.global = s.global /\ u.stopped = s.stopped
        /\ u.faulty = s.faulty
    BY <1>0 DEF ReplayFields
  <2>4. ASSUME NEW i \in DOMAIN s.intents, i # e PROVE u.intents[i] = s.intents[i]
    BY <1>0, <2>4 DEF ReplayFields
  <2>5. /\ DOMAIN u.intents[e] = IntentFields /\ u.intents[e].decided = TRUE
        /\ u.intents[e].ambiguous = s.intents[e].ambiguous
    BY <1>0, <1>2, <2>2 DEF ReplayFields, IntentFields
  <2> HIDE DEF u, t
  <2>6. GoodIntents(u)
    <3> SUFFICES ASSUME NEW i \in DOMAIN u.intents
        PROVE  /\ DOMAIN u.intents[i] = IntentFields
               /\ u.intents[i].ambiguous \in BOOLEAN
               /\ u.intents[i].decided \in BOOLEAN
      BY DEF GoodIntents
    <3>1. i \in DOMAIN s.intents
      BY <2>3
    <3>2. CASE i = e
      BY <2>5, <3>1, <3>2 DEF GoodReplay, GoodIntents
    <3>3. CASE i # e
      BY <2>4, <3>1, <3>3 DEF GoodReplay, GoodIntents
    <3> QED BY <3>2, <3>3
  <2>7. GoodReplay(u)
    BY <2>3, <2>6 DEF GoodReplay
  <2>8. Follows(s, u)
    BY <2>3, <2>4, <2>5 DEF Follows, Decided
  <2>9. /\ GoodReplay(t) /\ Follows(u, t)
        /\ DOMAIN t.intents = DOMAIN u.intents /\ t.recon = u.recon /\ t.global = u.global
        /\ \A i \in DOMAIN u.intents :
             /\ t.intents[i].decided = u.intents[i].decided
             /\ i # e => t.intents[i] = u.intents[i]
             /\ t.intents[i].ambiguous => u.intents[i].ambiguous \/ FALSE
    <3> DEFINE no == FALSE
    <3>1. no \in BOOLEAN /\ t = UpdateIntent(u, event, no)
      BY <2>1
    <3> HIDE DEF no
    <3>2. /\ GoodReplay(t) /\ Follows(u, t)
          /\ DOMAIN t.intents = DOMAIN u.intents /\ t.recon = u.recon /\ t.global = u.global
          /\ \A i \in DOMAIN u.intents :
               /\ t.intents[i].decided = u.intents[i].decided
               /\ i # event.intent => t.intents[i] = u.intents[i]
               /\ t.intents[i].ambiguous => u.intents[i].ambiguous \/ no
      BY <2>7, <3>1, UpdateIntentSound
    <3> QED BY <3>2 DEF no
  <2>10. Follows(s, t)
    BY <2>8, <2>9, FollowsIsTransitive
  <2>11. Remembers(s) => Remembers(t)
    BY <2>3, <2>4, <2>5, <2>9 DEF Remembers
  <2>12. Decided(t, e)
    BY <1>2, <2>3, <2>5, <2>9 DEF Decided
  <2>13. \A i : KeepsRequest(s, t, i)
    BY <1>2, <2>3, <2>4, <2>9, <2>10 DEF KeepsRequest, Requested, Decided, Follows
  <2> QED BY <2>9, <2>10, <2>11, <2>12, <2>13 DEF t, RecordSound, AttemptTypes
<1> QED BY <1>1, <1>2

\* An order is submitted once, with the name it keeps.
LEMMA OrderSubmittedSound ==
    ASSUME NEW s, GoodReplay(s), ~s.faulty, NEW event, event.type = "submission_started"
    PROVE  RecordSound(s, event, OnOrderSubmitted(s, event))
<1> DEFINE started == ApplyOrderUpdate(NewOrder(event.side, event.quantity, event.price),
                                       EvidenceOf(event, "SubmissionStarted"))
           u == [s EXCEPT !.orders = Put(@, event.order, started.order)]
           t == OnOrderSubmitted(s, event)
           no == FALSE
<1>0. DOMAIN s = ReplayFields
  BY DEF GoodReplay
<1>1. t = IF started.refused \/ event.order \in DOMAIN s.orders THEN Faulty(s)
          ELSE UpdateIntent(u, event, no)
  BY DEF OnOrderSubmitted
<1>2. /\ DOMAIN u = ReplayFields /\ u.intents = s.intents
      /\ DOMAIN u.orders = DOMAIN s.orders \cup {event.order}
      /\ u.recon = s.recon /\ u.global = s.global /\ u.stopped = s.stopped
      /\ u.faulty = s.faulty
  <2> HIDE DEF started
  <2> QED BY <1>0 DEF ReplayFields, Put
<1>3. no \in BOOLEAN /\ ~no
  OBVIOUS
<1> HIDE DEF started, u, t, no
<1>4. CASE started.refused \/ event.order \in DOMAIN s.orders
  <2>1. Follows(s, s)
    BY DEF Follows
  <2>2. RecordSound(s, event, t)
    BY <1>1, <1>4, <2>1, FaultIsSound
  <2> QED BY <2>2 DEF t
<1>5. CASE ~(started.refused \/ event.order \in DOMAIN s.orders)
  <2>1. t = UpdateIntent(u, event, no)
    BY <1>1, <1>5
  <2>2. IsFiniteSet(DOMAIN u.orders)
    BY <1>2, FS_AddElement DEF GoodReplay
  <2>3. GoodReplay(u)
    BY <1>2, <2>2 DEF GoodReplay, GoodIntents
  <2>4. Follows(s, u)
    BY <1>2 DEF Follows, Decided
  <2>5. /\ GoodReplay(t) /\ Follows(s, t)
        /\ event.type \notin BeforeAttempt => \A i : KeepsRequest(s, t, i)
        /\ event.type \notin BeforeAttempt /\ event.intent # NoId => Requested(t, event.intent)
    BY <1>2, <1>3, <2>1, <2>3, <2>4, DispositionSound
  <2>6. /\ DOMAIN t.intents = DOMAIN u.intents /\ t.recon = u.recon /\ t.global = u.global
        /\ t.orders = u.orders
        /\ \A i \in DOMAIN u.intents : t.intents[i].ambiguous => u.intents[i].ambiguous \/ no
    BY <1>3, <2>1, <2>3, UpdateIntentSound
  <2>7. Remembers(s) => Remembers(t)
    BY <1>2, <1>3, <2>6 DEF Remembers
  <2>8. event.type \notin BeforeAttempt
    BY DEF BeforeAttempt
  <2>9. Carries(t, event.order)
    BY <1>2, <2>6 DEF Carries
  <2> QED BY <2>5, <2>7, <2>8, <2>9 DEF t, RecordSound
<1> QED BY <1>4, <1>5

\* An aggregate moves, or replay fails; nothing else changes but the position.
LEMMA MoveOrderSound ==
    ASSUME NEW s, GoodReplay(s), NEW event, NEW kind,
           NEW t, t = MoveOrder(s, event, kind)
    PROVE  /\ GoodReplay(t) /\ Follows(s, t)
           /\ t.intents = s.intents /\ DOMAIN t.orders = DOMAIN s.orders
           /\ t.recon = s.recon /\ t.global = s.global
           /\ t.faulty = s.faulty \/ t = Faulty(s)
<1> DEFINE result == ApplyOrderUpdate(s.orders[event.order], EvidenceOf(event, kind))
           u == [s EXCEPT !.orders[event.order] = result.order, !.position = @ + result.delta]
<1>0. DOMAIN s = ReplayFields
  BY DEF GoodReplay
<1>1. t = Faulty(s) \/ t = u
  BY DEF MoveOrder, Moved
<1>2. /\ DOMAIN u = ReplayFields /\ u.intents = s.intents
      /\ DOMAIN u.orders = DOMAIN s.orders
      /\ u.recon = s.recon /\ u.global = s.global /\ u.stopped = s.stopped
      /\ u.faulty = s.faulty
  <2> HIDE DEF result
  <2> QED BY <1>0 DEF ReplayFields
<1> HIDE DEF u
<1>3. CASE t = Faulty(s)
  <2>1. /\ t.intents = s.intents /\ DOMAIN t.orders = DOMAIN s.orders
        /\ t.recon = s.recon /\ t.global = s.global
    BY <1>0, <1>3 DEF Faulty, ReplayFields
  <2> QED BY <1>3, <2>1, FaultySound
<1>4. CASE t = u
  <2>1. GoodReplay(t)
    BY <1>2, <1>4 DEF GoodReplay, GoodIntents
  <2>2. Follows(s, t)
    BY <1>2, <1>4 DEF Follows, Decided
  <2> QED BY <1>2, <1>4, <2>1, <2>2
<1> QED BY <1>1, <1>3, <1>4

\* Fills, requests and broker outcomes (OnOrderEvidence): the answer that
\* leaves an intent ambiguous asks for a reconciliation.
LEMMA OrderEvidenceSound ==
    ASSUME NEW s, GoodReplay(s), ~s.faulty, NEW event, event.type \in DOMAIN EvidenceKind
    PROVE  RecordSound(s, event, OnOrderEvidence(s, event))
<1> DEFINE kind == EvidenceKind[event.type]
           unsure == event.type \in AmbiguousOutcomes
           u == MoveOrder(s, event, kind)
           v == UpdateIntent(u, event, unsure)
           w == [v EXCEPT !.intents[event.intent].outcome = TRUE, !.recon = @ \/ unsure]
           t == OnOrderEvidence(s, event)
<1>1. t = IF event.type \notin BrokerOutcomes \/ v.faulty THEN v ELSE w
  BY DEF OnOrderEvidence, RecordOutcome
<1>2. unsure \in BOOLEAN /\ (unsure => event.type \in BrokerOutcomes)
  BY DEF AmbiguousOutcomes, BrokerOutcomes
<1>3. event.type \notin BeforeAttempt \cup Mapping
      /\ event.type \notin {"safety_stop", "submission_started", "risk_approved"}
  BY DEF EvidenceKind, BeforeAttempt, Mapping
<1>4. event.type \notin BrokerOutcomes \/ event.type \notin AttemptTypes
  BY DEF BrokerOutcomes, AttemptTypes
<1> HIDE DEF kind, unsure
<1>5. /\ GoodReplay(u) /\ Follows(s, u)
      /\ u.intents = s.intents /\ DOMAIN u.orders = DOMAIN s.orders
      /\ u.recon = s.recon /\ u.global = s.global
      /\ u.faulty = s.faulty \/ u = Faulty(s)
  BY MoveOrderSound
<1> HIDE DEF u
<1>6. CASE u.faulty
  <2>1. v = u
    BY <1>6 DEF UpdateIntent
  <2>2. t = u
    BY <1>1, <1>6, <2>1
  <2>3. /\ \A i : KeepsRequest(s, t, i) /\ Decided(t, i) /\ Requested(t, i) /\ Carries(t, i)
        /\ Stopped(t)
    BY <1>6, <2>2 DEF KeepsRequest, Decided, Requested, Carries, Stopped
  <2>4. Remembers(s) => Remembers(t)
    BY <1>5, <2>2 DEF Remembers
  <2> HIDE DEF t
  <2>5. RecordSound(s, event, t)
    BY <1>5, <2>2, <2>3, <2>4 DEF RecordSound
  <2> QED BY <2>5 DEF t
<1>7. CASE ~u.faulty
  <2>1. /\ GoodReplay(v) /\ Follows(s, v)
        /\ \A i : KeepsRequest(s, v, i)
        /\ event.intent # NoId => Requested(v, event.intent)
    BY <1>2, <1>3, <1>5, <1>7, DispositionSound
  <2>2. /\ DOMAIN v.intents = DOMAIN u.intents /\ v.recon = u.recon /\ v.global = u.global
        /\ v.orders = u.orders
        /\ \A i \in DOMAIN u.intents : v.intents[i].ambiguous => u.intents[i].ambiguous \/ unsure
    BY <1>2, <1>5, UpdateIntentSound
  <2> HIDE DEF v
  <2>3. CASE event.type \notin BrokerOutcomes \/ v.faulty
    <3>1. t = v
      BY <1>1, <2>3
    <3>2. Remembers(s) => Remembers(v)
      <4>1. CASE ~unsure
        BY <1>5, <2>2, <4>1 DEF Remembers
      <4>2. CASE v.faulty
        <5>1. v = u \/ v = Faulty(u)
          BY <1>7, <4>2, <2>3 DEF v, UpdateIntent, GoodReplay, ReplayFields
        <5>2. v.intents = u.intents
          BY <5>1, <1>5 DEF Faulty, GoodReplay, ReplayFields
        <5> QED BY <1>5, <2>2, <5>2 DEF Remembers
      <4> QED BY <1>2, <2>3, <4>1, <4>2
    <3>3. RecordSound(s, event, v)
      BY <1>3, <2>1, <3>2 DEF RecordSound
    <3> HIDE DEF t
    <3>4. RecordSound(s, event, t)
      BY <3>1, <3>3
    <3> QED BY <3>4 DEF t
  <2>4. CASE ~(event.type \notin BrokerOutcomes \/ v.faulty)
    <3>1. t = w
      BY <1>1, <2>4
    <3>2. DOMAIN v = ReplayFields
      BY <2>1 DEF GoodReplay
    <3>3. /\ DOMAIN w = ReplayFields /\ w.orders = v.orders /\ w.recon = (v.recon \/ unsure)
          /\ w.global = v.global /\ w.stopped = v.stopped /\ w.faulty = v.faulty
          /\ DOMAIN w.intents = DOMAIN v.intents
      BY <3>2 DEF ReplayFields
    <3>4. ASSUME NEW i \in DOMAIN v.intents
          PROVE  /\ DOMAIN w.intents[i] = IntentFields
                 /\ w.intents[i].ambiguous = v.intents[i].ambiguous
                 /\ w.intents[i].decided = v.intents[i].decided
                 /\ w.intents[i].disposition = v.intents[i].disposition
      <4>1. DOMAIN v.intents[i] = IntentFields
        BY <2>1, <3>4 DEF GoodReplay, GoodIntents
      <4>2. CASE i = event.intent
        BY <3>2, <3>4, <4>1, <4>2 DEF ReplayFields, IntentFields
      <4>3. CASE i # event.intent
        <5>1. w.intents[i] = v.intents[i]
          BY <3>2, <3>4, <4>3 DEF ReplayFields
        <5> QED BY <4>1, <5>1
      <4> QED BY <4>2, <4>3
    <3> HIDE DEF w, t
    <3>5. GoodIntents(w)
      <4> SUFFICES ASSUME NEW i \in DOMAIN w.intents
          PROVE  /\ DOMAIN w.intents[i] = IntentFields
                 /\ w.intents[i].ambiguous \in BOOLEAN
                 /\ w.intents[i].decided \in BOOLEAN
        BY DEF GoodIntents
      <4>1. i \in DOMAIN v.intents
        BY <3>3
      <4>2. v.intents[i].ambiguous \in BOOLEAN /\ v.intents[i].decided \in BOOLEAN
        BY <2>1, <4>1 DEF GoodReplay, GoodIntents
      <4> QED BY <3>4, <4>1, <4>2
    <3>6. w.recon \in BOOLEAN
      BY <1>2, <2>1, <3>3 DEF GoodReplay
    <3>7. GoodReplay(w)
      BY <2>1, <3>3, <3>5, <3>6 DEF GoodReplay
    <3>8. \A i : Decided(v, i) => Decided(w, i)
      BY <3>3, <3>4 DEF Decided
    <3>9. Follows(s, w)
      BY <2>1, <3>3, <3>8 DEF Follows
    <3>10. \A i : Requested(v, i) => Requested(w, i)
      BY <3>3, <3>4 DEF Requested
    <3>11. \A i : KeepsRequest(s, w, i)
      BY <2>1, <3>10 DEF KeepsRequest
    <3>12. Remembers(s) => Remembers(w)
      <4> SUFFICES ASSUME Remembers(s), w.global \/ \E i \in DOMAIN w.intents : w.intents[i].ambiguous
          PROVE  w.recon
        BY DEF Remembers
      <4>1. s.global \/ unsure \/ \E i \in DOMAIN s.intents : s.intents[i].ambiguous
        BY <1>5, <2>2, <3>3, <3>4
      <4>2. s.recon \/ unsure
        BY <4>1 DEF Remembers
      <4> QED BY <1>5, <2>2, <3>3, <4>2
    <3>13. RecordSound(s, event, w)
      BY <1>3, <1>4, <2>4, <3>7, <3>9, <3>11, <3>12 DEF RecordSound
    <3>14. RecordSound(s, event, t)
      BY <3>1, <3>13
    <3> QED BY <3>14 DEF t
  <2> QED BY <2>3, <2>4
<1> QED BY <1>6, <1>7

\* The validation of a mapping names its intent and nothing else.
LEMMA MappingSound ==
    ASSUME NEW s, GoodReplay(s), NEW event, event.type \in Mapping
    PROVE  RecordSound(s, event, UpdateIntent(s, event, FALSE))
<1> DEFINE no == FALSE
           t == UpdateIntent(s, event, no)
<1>1. no \in BOOLEAN /\ ~no
  OBVIOUS
<1>2. Follows(s, s)
  BY DEF Follows
<1> HIDE DEF no, t
<1>3. GoodReplay(t) /\ Follows(s, t) /\ \A i : i # event.intent => KeepsRequest(s, t, i)
  BY <1>1, <1>2, DispositionSound DEF t
<1>4. /\ DOMAIN t.intents = DOMAIN s.intents /\ t.recon = s.recon /\ t.global = s.global
      /\ \A i \in DOMAIN s.intents : t.intents[i].ambiguous => s.intents[i].ambiguous \/ no
  BY <1>1, UpdateIntentSound DEF t
<1>5. Remembers(s) => Remembers(t)
  BY <1>1, <1>4 DEF Remembers
<1>6. event.type \notin AttemptTypes \cup {"safety_stop", "risk_approved", "submission_started"}
  BY DEF Mapping, AttemptTypes
<1>7. RecordSound(s, event, t)
  BY <1>3, <1>5, <1>6 DEF RecordSound
<1> QED BY <1>7 DEF t, no

\* A reconciliation that is required is remembered.
LEMMA ReconciliationRequiredSound ==
    ASSUME NEW s, GoodReplay(s), NEW event, event.type = "reconciliation_required"
    PROVE  RecordSound(s, event, OnReconciliationRequired(s, event))
<1> DEFINE u == [s EXCEPT !.recon = TRUE, !.global = @ \/ event.intent = NoId]
           yes == TRUE
           t == UpdateIntent(u, event, yes)
<1>0. DOMAIN s = ReplayFields
  BY DEF GoodReplay
<1>1. OnReconciliationRequired(s, event) = t
  BY DEF OnReconciliationRequired
<1>2. /\ DOMAIN u = ReplayFields /\ u.intents = s.intents /\ u.orders = s.orders
      /\ u.recon = TRUE /\ u.global \in BOOLEAN /\ u.stopped = s.stopped /\ u.faulty = s.faulty
  BY <1>0 DEF ReplayFields, GoodReplay
<1>3. yes \in BOOLEAN
  OBVIOUS
<1> HIDE DEF u, yes, t
<1>4. GoodReplay(u)
  BY <1>2 DEF GoodReplay, GoodIntents
<1>5. Follows(s, u)
  BY <1>2 DEF Follows, Decided
<1>6. event.type \notin BeforeAttempt \cup AttemptTypes \cup {"safety_stop", "risk_approved"}
  BY DEF BeforeAttempt, AttemptTypes
<1>7. GoodReplay(t) /\ Follows(s, t) /\ \A i : KeepsRequest(s, t, i)
  BY <1>2, <1>3, <1>4, <1>5, <1>6, DispositionSound DEF t
<1>8. t.recon = u.recon
  BY <1>3, <1>4, UpdateIntentSound DEF t
<1>9. RecordSound(s, event, t)
  BY <1>2, <1>6, <1>7, <1>8 DEF RecordSound, Remembers, AttemptTypes
<1> QED BY <1>1, <1>9

\* A completed reconciliation forgets only what nobody needs any more.
LEMMA ReconciliationCompletedSound ==
    ASSUME NEW s, GoodReplay(s), ~s.faulty, NEW event,
           event.type = "reconciliation_completed"
    PROVE  RecordSound(s, event, OnReconciliationCompleted(s, event))
<1> DEFINE kind == AuthoritativeKind[event.authoritative]
           moved == MoveOrder(s, event, kind)
           no == FALSE
           u == IF event.order = NoId THEN s ELSE UpdateIntent(moved, event, no)
           global == s.global /\ event.intent # NoId
           t == StillReconciling(u, global)
<1>1. OnReconciliationCompleted(s, event) = t
  BY DEF OnReconciliationCompleted
<1>2. no \in BOOLEAN /\ global \in BOOLEAN
  BY DEF GoodReplay
<1>3. event.type \notin BeforeAttempt \cup AttemptTypes \cup {"safety_stop", "risk_approved"}
  BY DEF BeforeAttempt, AttemptTypes
<1> HIDE DEF kind, no, global
<1>4. GoodReplay(u) /\ Follows(s, u) /\ \A i : KeepsRequest(s, u, i)
  <2>1. CASE event.order = NoId
    <3>1. Follows(s, s) /\ \A i : KeepsRequest(s, s, i)
      BY DEF Follows, KeepsRequest
    <3>2. u = s
      BY <2>1
    <3> HIDE DEF u
    <3> QED BY <3>1, <3>2
  <2>2. CASE event.order # NoId
    <3>1. /\ GoodReplay(moved) /\ Follows(s, moved) /\ moved.intents = s.intents
          /\ moved.faulty = s.faulty \/ moved = Faulty(s)
      BY MoveOrderSound
    <3> DEFINE v == UpdateIntent(moved, event, no)
    <3> HIDE DEF moved, v
    <3>2. CASE moved.faulty
      <4>1. v = moved
        BY <3>2 DEF v, UpdateIntent
      <4>2. \A i : KeepsRequest(s, moved, i)
        BY <3>2 DEF KeepsRequest, Requested
      <4>3. u = moved
        BY <2>2, <4>1 DEF v
      <4> HIDE DEF u
      <4> QED BY <3>1, <4>2, <4>3
    <3>3. CASE ~moved.faulty
      <4>1. GoodReplay(v) /\ Follows(s, v) /\ \A i : KeepsRequest(s, v, i)
        BY <1>2, <1>3, <3>1, <3>3, DispositionSound DEF v
      <4>2. u = v
        BY <2>2 DEF v
      <4> HIDE DEF u
      <4> QED BY <4>1, <4>2
    <3> QED BY <3>2, <3>3
  <2> QED BY <2>1, <2>2
<1> HIDE DEF u
<1> DEFINE recon == global \/ \E i \in DOMAIN u.intents : u.intents[i].ambiguous
<1>5. t = [u EXCEPT !.global = global, !.recon = recon]
  BY DEF StillReconciling
<1>6. recon \in BOOLEAN
  BY <1>2
<1>7. DOMAIN u = ReplayFields
  BY <1>4 DEF GoodReplay
<1> HIDE DEF recon, t
<1>8. /\ DOMAIN t = ReplayFields /\ t.intents = u.intents /\ t.orders = u.orders
      /\ t.recon = recon /\ t.global = global /\ t.stopped = u.stopped /\ t.faulty = u.faulty
  BY <1>5, <1>7 DEF ReplayFields
<1>9. GoodReplay(t)
  BY <1>2, <1>4, <1>6, <1>8 DEF GoodReplay, GoodIntents
<1>10. Follows(u, t) /\ \A i : Requested(u, i) => Requested(t, i)
  BY <1>8 DEF Follows, Decided, Requested
<1>11. Follows(s, t)
  BY <1>4, <1>10, FollowsIsTransitive
<1>12. \A i : KeepsRequest(s, t, i)
  BY <1>4, <1>10 DEF KeepsRequest
<1>13. Remembers(t)
  BY <1>8 DEF Remembers, recon
<1>14. RecordSound(s, event, t)
  BY <1>3, <1>9, <1>11, <1>12, <1>13 DEF RecordSound, AttemptTypes
<1> QED BY <1>1, <1>14

\* A record that touches neither an intent nor an order.
LEMMA FlagsSound ==
    ASSUME NEW s, GoodReplay(s), NEW event, NEW t,
           DOMAIN t = ReplayFields, t.intents = s.intents, t.orders = s.orders,
           {t.recon, t.global, t.stopped} \subseteq BOOLEAN, t.faulty = s.faulty,
           s.stopped => t.stopped, t.recon \/ (t.recon = s.recon /\ t.global = s.global),
           event.type \notin AttemptTypes \cup {"risk_approved"},
           event.type = "safety_stop" => t.stopped
    PROVE  RecordSound(s, event, t)
<1>1. GoodReplay(t)
  BY DEF GoodReplay, GoodIntents
<1>2. Follows(s, t) /\ \A i : KeepsRequest(s, t, i)
  BY DEF Follows, Decided, Requested, KeepsRequest
<1>3. Remembers(s) => Remembers(t)
  BY DEF Remembers
<1> QED BY <1>1, <1>2, <1>3 DEF RecordSound, Stopped, AttemptTypes

\* replay_record()'s dispatch on the type of the event.
LEMMA ReplayEventSound ==
    ASSUME NEW s, GoodReplay(s), ~s.faulty, NEW event
    PROVE  RecordSound(s, event, ReplayEvent(s, event))
<1> DEFINE t == ReplayEvent(s, event)
           type == event.type
           flags == [s EXCEPT !.stopped = TRUE]
           session == [s EXCEPT !.session = type]
           repaired == [s EXCEPT !.recon = TRUE, !.global = TRUE]
           Phases == {"session_started", "session_stopping", "session_stopped"}
           Decisions == {"risk_approved", "risk_rejected"}
<1>0. DOMAIN s = ReplayFields
  BY DEF GoodReplay
<1>1. CASE type = "intent_received"
  <2>1. t = OnIntentReceived(s, event)
    BY <1>1 DEF ReplayEvent, EvidenceKind
  <2> QED BY <1>1, <2>1, IntentReceivedSound
<1>2. CASE type \in Mapping
  <2>1. t = UpdateIntent(s, event, FALSE)
    BY <1>2 DEF ReplayEvent, EvidenceKind, Mapping
  <2> QED BY <1>2, <2>1, MappingSound
<1>3. CASE type \in Decisions
  <2>1. t = OnRiskDecision(s, event)
    BY <1>3 DEF ReplayEvent, EvidenceKind
  <2> QED BY <1>3, <2>1, RiskDecisionSound
<1>4. CASE type = "submission_started"
  <2>1. t = OnOrderSubmitted(s, event)
    BY <1>4 DEF ReplayEvent, EvidenceKind
  <2> QED BY <1>4, <2>1, OrderSubmittedSound
<1>5. CASE type \in DOMAIN EvidenceKind
  <2>1. t = OnOrderEvidence(s, event)
    BY <1>5 DEF ReplayEvent, EvidenceKind
  <2> QED BY <1>5, <2>1, OrderEvidenceSound
<1>6. CASE type = "reconciliation_required"
  <2>1. t = OnReconciliationRequired(s, event)
    BY <1>6 DEF ReplayEvent, EvidenceKind
  <2> QED BY <1>6, <2>1, ReconciliationRequiredSound
<1>7. CASE type = "reconciliation_completed"
  <2>1. t = OnReconciliationCompleted(s, event)
    BY <1>7 DEF ReplayEvent, EvidenceKind
  <2> QED BY <1>7, <2>1, ReconciliationCompletedSound
<1>8. CASE type = "safety_stop"
  <2>1. t = flags
    BY <1>8 DEF ReplayEvent, EvidenceKind
  <2>2. /\ DOMAIN flags = ReplayFields /\ flags.intents = s.intents /\ flags.orders = s.orders
        /\ flags.recon = s.recon /\ flags.global = s.global /\ flags.stopped = TRUE
        /\ flags.faulty = s.faulty
    BY <1>0 DEF ReplayFields
  <2> HIDE DEF flags
  <2>3. type \notin AttemptTypes \cup {"risk_approved"}
    BY <1>8 DEF AttemptTypes
  <2>4. {flags.recon, flags.global, flags.stopped} \subseteq BOOLEAN
    BY <2>2 DEF GoodReplay
  <2>5. RecordSound(s, event, flags)
    BY <2>2, <2>3, <2>4, FlagsSound
  <2> QED BY <2>1, <2>5
<1>9. CASE type \in Phases
  <2>1. t = session
    BY <1>9 DEF ReplayEvent, EvidenceKind
  <2>2. /\ DOMAIN session = ReplayFields /\ session.intents = s.intents /\ session.orders = s.orders
        /\ session.recon = s.recon /\ session.global = s.global /\ session.stopped = s.stopped
        /\ session.faulty = s.faulty
    BY <1>0 DEF ReplayFields
  <2> HIDE DEF session
  <2>3. type \notin AttemptTypes \cup {"risk_approved", "safety_stop"}
    BY <1>9 DEF AttemptTypes
  <2>4. {session.recon, session.global, session.stopped} \subseteq BOOLEAN
    BY <2>2 DEF GoodReplay
  <2>5. RecordSound(s, event, session)
    BY <2>2, <2>3, <2>4, FlagsSound
  <2> QED BY <2>1, <2>5
<1>10. CASE type = "ledger_repair_recorded"
  <2>1. t = repaired
    BY <1>10 DEF ReplayEvent, EvidenceKind
  <2>2. /\ DOMAIN repaired = ReplayFields /\ repaired.intents = s.intents
        /\ repaired.orders = s.orders /\ repaired.recon = TRUE /\ repaired.global = TRUE
        /\ repaired.stopped = s.stopped /\ repaired.faulty = s.faulty
    BY <1>0 DEF ReplayFields
  <2> HIDE DEF repaired
  <2>3. type \notin AttemptTypes \cup {"risk_approved", "safety_stop"}
    BY <1>10 DEF AttemptTypes
  <2>4. {repaired.recon, repaired.global, repaired.stopped} \subseteq BOOLEAN
    BY <2>2 DEF GoodReplay
  <2>5. RecordSound(s, event, repaired)
    BY <2>2, <2>3, <2>4, FlagsSound
  <2> QED BY <2>1, <2>5
<1>11. CASE type \notin Mapping \cup Decisions \cup Phases \cup DOMAIN EvidenceKind \cup
                        {"intent_received", "submission_started", "reconciliation_required",
                         "reconciliation_completed", "safety_stop", "ledger_repair_recorded"}
  <2>1. t = s
    BY <1>11 DEF ReplayEvent, Mapping
  <2>2. type \notin AttemptTypes \cup {"risk_approved", "safety_stop"}
    BY <1>11 DEF AttemptTypes, EvidenceKind
  <2>3. {s.recon, s.global, s.stopped} \subseteq BOOLEAN
    BY DEF GoodReplay
  <2>4. RecordSound(s, event, s)
    BY <1>0, <2>2, <2>3, FlagsSound
  <2> QED BY <2>1, <2>4
<1> HIDE DEF t, type, Phases, Decisions
<1>12. RecordSound(s, event, t)
  BY <1>1, <1>2, <1>3, <1>4, <1>5, <1>6, <1>7, <1>8, <1>9, <1>10, <1>11 DEF t
<1> QED BY <1>12 DEF t

\* One record, whatever it says (replay_record).
LEMMA ReplayRecordSound ==
    ASSUME NEW s, GoodReplay(s), NEW event
    PROVE  RecordSound(s, event, ReplayRecord(s, event))
<1> DEFINE u == RecordSource(s, event)
           t == ReplayEvent(u, event)
<1>0. DOMAIN s = ReplayFields
  BY DEF GoodReplay
<1>1. CASE s.faulty
  <2>1. ReplayRecord(s, event) = s
    BY <1>1 DEF ReplayRecord
  <2>2. Follows(s, s) /\ \A i : KeepsRequest(s, s, i)
    BY DEF Follows, KeepsRequest
  <2>3. RecordSound(s, event, s)
    BY <1>1, <2>2 DEF RecordSound, Stopped, Decided, Requested, Carries
  <2> QED BY <2>1, <2>3
<1>2. CASE ~s.faulty /\ SourceFault(s, event)
  <2>1. ReplayRecord(s, event) = Faulty(s)
    BY <1>2 DEF ReplayRecord
  <2>2. Follows(s, s)
    BY DEF Follows
  <2> QED BY <2>1, <2>2, FaultIsSound
<1>3. CASE ~s.faulty /\ ~SourceFault(s, event)
  <2>1. ReplayRecord(s, event) = t
    BY <1>3 DEF ReplayRecord
  <2>2. /\ DOMAIN u = ReplayFields /\ u.intents = s.intents /\ u.orders = s.orders
        /\ u.recon = s.recon /\ u.global = s.global /\ u.stopped = s.stopped
        /\ u.faulty = s.faulty
    BY <1>0 DEF RecordSource, ReplayFields
  <2> HIDE DEF u
  <2>3. GoodReplay(u)
    BY <2>2 DEF GoodReplay, GoodIntents
  <2>4. RecordSound(u, event, t)
    BY <1>3, <2>2, <2>3, ReplayEventSound
  <2>5. Follows(s, u) /\ (Remembers(s) => Remembers(u))
    BY <2>2 DEF Follows, Decided, Remembers
  <2> HIDE DEF t
  <2>6. Follows(s, t)
    BY <2>4, <2>5, FollowsIsTransitive DEF RecordSound
  <2>7. \A i : KeepsRequest(u, t, i) => KeepsRequest(s, t, i)
    BY <2>2 DEF KeepsRequest, Decided, Requested
  <2>8. RecordSound(s, event, t)
    BY <2>4, <2>5, <2>6, <2>7 DEF RecordSound
  <2> QED BY <2>1, <2>8
<1> QED BY <1>1, <1>2, <1>3

-----------------------------------------------------------------------------
(* Replay of a sequence of records (replay_ledger).                        *)

\* A crash after this forgets neither the decision nor the attempt of i.
OnRecord(s, i) == Decided(s, i) /\ Requested(s, i)

\* The record is a mapping of i, none of the records is, one is a stop, and
\* one submits the order.
Maps(event, i) == event.type \in Mapping /\ event.intent = i

NeverMaps(events, i) == \A k \in 1..Len(events) : ~Maps(events[k], i)

HasStop(events) == \E k \in 1..Len(events) : events[k].type = "safety_stop"

Submits(events, o) ==
    \E k \in 1..Len(events) : events[k].type = "submission_started" /\ events[k].order = o

\* The approval of i and, later, its attempt, without another mapping.
Requests(events, i) ==
    \E j, k \in 1..Len(events) :
       /\ j < k
       /\ events[j].type = "risk_approved" /\ events[j].intent = i
       /\ events[k].type \in AttemptTypes /\ events[k].intent = i
       /\ \A n \in (k + 1)..Len(events) : ~Maps(events[n], i)

\* What the replay of t from s, by these records, is good for.
ReplaySound(s, events, t) ==
    /\ GoodReplay(t) /\ Follows(s, t)
    /\ Remembers(s) => Remembers(t)
    /\ HasStop(events) => Stopped(t)
    /\ \A i : OnRecord(s, i) /\ NeverMaps(events, i) => OnRecord(t, i)
    /\ \A i : i # NoId /\ Requests(events, i) => OnRecord(t, i)
    /\ \A o : Submits(events, o) => Carries(t, o)

\* From any record on, what is replayed stays sound.
LEMMA ReplayKeeps ==
    ASSUME NEW state, NEW events, Len(events) \in Nat, NEW r, IsReplay(r, state, events),
           NEW j \in 0..Len(events), GoodReplay(r[j])
    PROVE  \A n \in j..Len(events) :
             /\ GoodReplay(r[n]) /\ Follows(r[j], r[n])
             /\ Remembers(r[j]) => Remembers(r[n])
<1> DEFINE N == Len(events)
           P(n) == /\ GoodReplay(r[n]) /\ Follows(r[j], r[n])
                   /\ Remembers(r[j]) => Remembers(r[n])
           T == {n \in Nat : n \in j..N => P(n)}
<1>0. \A n \in 1..N : r[n] = ReplayRecord(r[n - 1], events[n])
  BY DEF IsReplay
<1>1. P(j)
  <2>1. Follows(r[j], r[j])
    BY DEF Follows
  <2> QED BY <2>1
<1>2. 0 \in T
  BY <1>1
<1>3. ASSUME NEW n \in T PROVE n + 1 \in T
  <2>1. n \in Nat
    BY <1>3
  <2>2. CASE n + 1 = j
    <3>1. P(n + 1)
      BY <1>1, <2>2
    <3> HIDE DEF P
    <3> QED BY <2>1, <3>1
  <2>3. CASE n + 1 \in j..N /\ n + 1 # j
    <3>1. n \in j..N /\ n + 1 \in 1..N /\ (n + 1) - 1 = n
      BY <2>1, <2>3
    <3>2. P(n)
      <4> HIDE DEF P
      <4> QED BY <1>3, <3>1
    <3>3. r[n + 1] = ReplayRecord(r[n], events[n + 1])
      BY <1>0, <3>1
    <3>4. RecordSound(r[n], events[n + 1], r[n + 1])
      BY <3>2, <3>3, ReplayRecordSound
    <3>5. GoodReplay(r[n + 1]) /\ Follows(r[n], r[n + 1])
          /\ (Remembers(r[n]) => Remembers(r[n + 1]))
      BY <3>4 DEF RecordSound
    <3>6. P(n + 1)
      BY <3>2, <3>5, FollowsIsTransitive
    <3> HIDE DEF P
    <3> QED BY <2>1, <3>6
  <2>4. CASE n + 1 \notin j..N
    <3> HIDE DEF P
    <3> QED BY <2>1, <2>4
  <2> QED BY <2>2, <2>3, <2>4
<1>4. T = Nat
  <2> HIDE DEF P
  <2> QED BY <1>2, <1>3, NatSetInduction
<1>5. \A n \in j..N : P(n)
  <2> HIDE DEF P
  <2> QED BY <1>4
<1> QED BY <1>5

\* An attempt that is on record at j stays there while nothing is mapped for
\* its intent.
LEMMA ReplayKeepsRequests ==
    ASSUME NEW state, NEW events, Len(events) \in Nat, NEW r, IsReplay(r, state, events),
           NEW j \in 0..Len(events), GoodReplay(r[j]), NEW i, OnRecord(r[j], i),
           \A n \in (j + 1)..Len(events) : ~Maps(events[n], i)
    PROVE  OnRecord(r[Len(events)], i)
<1> DEFINE N == Len(events)
           T == {n \in Nat : n \in j..N => OnRecord(r[n], i)}
<1>1. /\ \A n \in 1..N : r[n] = ReplayRecord(r[n - 1], events[n])
      /\ \A n \in j..N : GoodReplay(r[n])
  BY ReplayKeeps DEF IsReplay
<1>2. 0 \in T
  OBVIOUS
<1>3. ASSUME NEW n \in T PROVE n + 1 \in T
  <2>1. n \in Nat
    BY <1>3
  <2>2. CASE n + 1 \in j..N /\ n + 1 # j
    <3>1. n \in j..N /\ n + 1 \in 1..N /\ (n + 1) - 1 = n /\ n + 1 \in (j + 1)..N
      BY <2>1, <2>2
    <3>2. OnRecord(r[n], i) /\ GoodReplay(r[n]) /\ ~Maps(events[n + 1], i)
      BY <1>1, <1>3, <3>1
    <3>3. r[n + 1] = ReplayRecord(r[n], events[n + 1])
      BY <1>1, <3>1
    <3>4. RecordSound(r[n], events[n + 1], r[n + 1])
      BY <3>2, <3>3, ReplayRecordSound
    <3>5. OnRecord(r[n + 1], i)
      BY <3>2, <3>4 DEF RecordSound, Follows, KeepsRequest, OnRecord, Maps
    <3> QED BY <2>1, <3>5
  <2>3. CASE n + 1 = j
    BY <2>1, <2>3
  <2>4. CASE n + 1 \notin j..N
    BY <2>1, <2>4
  <2> QED BY <2>2, <2>3, <2>4
<1>4. T = Nat
  BY <1>2, <1>3, NatSetInduction
<1>5. N \in j..N
  OBVIOUS
<1> QED BY <1>4, <1>5

\* replay_ledger() forgets nothing that this module relies on.
LEMMA ReplayIsSound ==
    ASSUME NEW state, GoodReplay(state), NEW events, Len(events) \in Nat
    PROVE  ReplaySound(state, events, Replay(state, events))
<1> DEFINE N == Len(events)
<1>1. PICK r : IsReplay(r, state, events)
  BY ReplaySteps
<1>2. r[0] = state /\ Replay(state, events) = r[N]
      /\ \A n \in 1..N : r[n] = ReplayRecord(r[n - 1], events[n])
  BY <1>1 DEF IsReplay
<1>3. \A n \in 0..N : GoodReplay(r[n]) /\ Follows(r[0], r[n]) /\ (Remembers(r[0]) => Remembers(r[n]))
  <2>1. 0 \in 0..N /\ GoodReplay(r[0])
    BY <1>2
  <2> QED BY <1>1, <2>1, ReplayKeeps
<1>4. \A k \in 1..N : RecordSound(r[k - 1], events[k], r[k]) /\ Follows(r[k], r[N])
  <2> TAKE k \in 1..N
  <2>1. k \in 0..N /\ k - 1 \in 0..N /\ N \in k..N
    OBVIOUS
  <2>2. GoodReplay(r[k - 1]) /\ GoodReplay(r[k])
    BY <1>3, <2>1
  <2>3. RecordSound(r[k - 1], events[k], r[k])
    BY <1>2, <2>2, ReplayRecordSound
  <2>4. \A n \in k..N : Follows(r[k], r[n])
    BY <1>1, <2>1, <2>2, ReplayKeeps
  <2> QED BY <2>1, <2>3, <2>4
<1>5. HasStop(events) => Stopped(r[N])
  BY <1>4 DEF HasStop, RecordSound, Stopped, Follows
<1>6. ASSUME NEW i, OnRecord(state, i), NeverMaps(events, i) PROVE OnRecord(r[N], i)
  <2>1. 0 \in 0..N /\ GoodReplay(r[0]) /\ OnRecord(r[0], i)
    BY <1>2, <1>6
  <2>2. \A n \in (0 + 1)..N : ~Maps(events[n], i)
    BY <1>6 DEF NeverMaps
  <2> QED BY <1>1, <2>1, <2>2, ReplayKeepsRequests
<1>7. ASSUME NEW i, i # NoId, Requests(events, i) PROVE OnRecord(r[N], i)
  <2>1. PICK j \in 1..N, k \in 1..N :
          /\ j < k
          /\ events[j].type = "risk_approved" /\ events[j].intent = i
          /\ events[k].type \in AttemptTypes /\ events[k].intent = i
          /\ \A n \in (k + 1)..N : ~Maps(events[n], i)
    BY <1>7 DEF Requests
  <2>2. Decided(r[j], i)
    BY <1>4, <2>1 DEF RecordSound
  <2>3. j \in 0..N /\ k \in j..N /\ k \in 0..N
    BY <2>1
  <2>4. Follows(r[j], r[k]) /\ GoodReplay(r[k])
    <3>1. GoodReplay(r[j])
      BY <1>3, <2>3
    <3>2. \A n \in j..N : Follows(r[j], r[n])
      BY <1>1, <2>3, <3>1, ReplayKeeps
    <3> QED BY <1>3, <2>3, <3>2
  <2>5. Requested(r[k], i)
    BY <1>4, <1>7, <2>1 DEF RecordSound
  <2>6. OnRecord(r[k], i)
    BY <2>2, <2>4, <2>5 DEF OnRecord, Follows
  <2> QED BY <1>1, <2>1, <2>3, <2>4, <2>6, ReplayKeepsRequests
<1>8. ASSUME NEW o, Submits(events, o) PROVE Carries(r[N], o)
  <2>1. PICK k \in 1..N : events[k].type = "submission_started" /\ events[k].order = o
    BY <1>8 DEF Submits
  <2> QED BY <1>4, <2>1 DEF RecordSound, Carries, Follows
<1>9. N \in 0..N
  OBVIOUS
<1>10. GoodReplay(r[N]) /\ Follows(state, r[N]) /\ (Remembers(state) => Remembers(r[N]))
  BY <1>2, <1>3, <1>9
<1>11. ReplaySound(state, events, r[N])
  BY <1>5, <1>6, <1>7, <1>8, <1>10 DEF ReplaySound
<1> QED BY <1>2, <1>11

-----------------------------------------------------------------------------
(* Records of handlers.                                                    *)

\* Every mapping among the records is of an intent in S.
MapsWithin(events, S) ==
    \A k \in 1..Len(events) : events[k].type \in Mapping => events[k].intent \in S

\* One more record.
LEMMA AppendedRecords ==
    ASSUME NEW s, IsSequence(s), NEW a
    PROVE  /\ IsSequence(Append(s, a))
           /\ HasStop(s) \/ a.type = "safety_stop" => HasStop(Append(s, a))
           /\ \A S : MapsWithin(s, S) /\ (a.type \in Mapping => a.intent \in S)
                       => MapsWithin(Append(s, a), S)
<1> DEFINE q == Append(s, a)
           n == Len(s)
<1>1. /\ IsSequence(q) /\ Len(q) = n + 1 /\ n \in Nat
      /\ q[n + 1] = a /\ \A k \in 1..n : q[k] = s[k]
  BY AppendedSequences
<1> HIDE DEF q, n
<1>2. n + 1 \in 1..(n + 1) /\ \A k \in 1..(n + 1) : k = n + 1 \/ k \in 1..n
  BY <1>1
<1>3. \A k \in 1..n : k \in 1..(n + 1)
  BY <1>1
<1>4. HasStop(s) \/ a.type = "safety_stop" => HasStop(q)
  BY <1>1, <1>2, <1>3 DEF HasStop, n
<1>5. ASSUME NEW S, MapsWithin(s, S), a.type \in Mapping => a.intent \in S
      PROVE  MapsWithin(q, S)
  BY <1>1, <1>2, <1>5 DEF MapsWithin, n
<1> QED BY <1>1, <1>4, <1>5 DEF q

\* The records of two parts of a handler.
LEMMA JoinedRecords ==
    ASSUME NEW s, IsSequence(s), NEW t, IsSequence(t)
    PROVE  /\ IsSequence(s \o t)
           /\ HasStop(s) \/ HasStop(t) => HasStop(s \o t)
           /\ \A S : MapsWithin(s, S) /\ MapsWithin(t, S) => MapsWithin(s \o t, S)
<1> DEFINE q == s \o t
           n == Len(s)
           m == Len(t)
<1>1. /\ IsSequence(q) /\ Len(q) = n + m
      /\ \A k \in 1..n : q[k] = s[k]
      /\ \A k \in 1..m : q[n + k] = t[k]
  BY JoinedSequences
<1>2. n \in Nat /\ m \in Nat
  BY AppendedSequences
<1> HIDE DEF q, n, m
<1>3. /\ \A k \in 1..n : k \in 1..(n + m)
      /\ \A k \in 1..m : n + k \in 1..(n + m)
      /\ \A k \in 1..(n + m) : k \in 1..n \/ (k - n \in 1..m /\ n + (k - n) = k)
  BY <1>2
<1>4. HasStop(s) \/ HasStop(t) => HasStop(q)
  BY <1>1, <1>3 DEF HasStop, n, m
<1>5. ASSUME NEW S, MapsWithin(s, S), MapsWithin(t, S)
      PROVE  MapsWithin(q, S)
  <2> SUFFICES ASSUME NEW k \in 1..(n + m), q[k].type \in Mapping PROVE q[k].intent \in S
    BY <1>1 DEF MapsWithin
  <2>1. CASE k \in 1..n
    BY <1>1, <1>5, <2>1 DEF MapsWithin, n
  <2>2. CASE k - n \in 1..m /\ n + (k - n) = k
    <3>1. q[k] = t[k - n]
      BY <1>1, <2>2
    <3> QED BY <1>5, <2>2, <3>1 DEF MapsWithin, m
  <2> QED BY <1>3, <2>1, <2>2
<1> QED BY <1>1, <1>4, <1>5 DEF q

\* No record and one record.
LEMMA FewRecords ==
    /\ IsSequence(<< >>) /\ \A S : MapsWithin(<< >>, S)
    /\ \A a : /\ IsSequence(<<a>>)
              /\ a.type = "safety_stop" => HasStop(<<a>>)
              /\ \A S : (a.type \in Mapping => a.intent \in S) => MapsWithin(<<a>>, S)
<1>1. \A S : MapsWithin(<< >>, S)
  BY DEF MapsWithin
<1>2. ASSUME NEW a PROVE a.type = "safety_stop" => HasStop(<<a>>)
  BY DEF HasStop
<1>3. ASSUME NEW a, NEW S, a.type \in Mapping => a.intent \in S PROVE MapsWithin(<<a>>, S)
  BY <1>3 DEF MapsWithin
<1>4. IsSequence(<< >>) /\ \A a : IsSequence(<<a>>)
  BY AppendedSequences
<1> QED BY <1>1, <1>2, <1>3, <1>4

\* A crash after k records maps nothing that the whole handler does not map.
LEMMA CutRecords ==
    ASSUME NEW s, IsSequence(s), NEW k \in 0..Len(s)
    PROVE  /\ IsSequence(SubSeq(s, 1, k)) /\ Len(SubSeq(s, 1, k)) \in Nat
           /\ \A S : MapsWithin(s, S) => MapsWithin(SubSeq(s, 1, k), S)
<1> DEFINE q == SubSeq(s, 1, k)
<1>1. IsSequence(q) /\ Len(q) = k /\ (\A j \in 1..k : q[j] = s[j]) /\ Len(s) \in Nat
  BY Prefixes, AppendedSequences
<1> HIDE DEF q
<1>2. k \in Nat /\ \A j \in 1..k : j \in 1..Len(s)
  BY <1>1
<1>3. \A S : MapsWithin(s, S) => MapsWithin(q, S)
  BY <1>1, <1>2 DEF MapsWithin
<1> QED BY <1>1, <1>2, <1>3 DEF q

\* stop_once() records its stop.
LEMMA StopOnceRecords ==
    ASSUME NEW m
    PROVE  /\ IsSequence(StopOnceEvents(m))
           /\ m.reason = "none" => HasStop(StopOnceEvents(m))
           /\ \A S : MapsWithin(StopOnceEvents(m), S)
<1>1. CASE m.reason = "none"
  <2> DEFINE a == SafetyStop(NoId, NoId)
  <2>1. StopOnceEvents(m) = <<a>>
    BY <1>1 DEF StopOnceEvents
  <2>2. a.type = "safety_stop" /\ a.type \notin Mapping
    BY DEF SafetyStop, Event, Mapping
  <2> HIDE DEF a
  <2> QED BY <2>1, <2>2, FewRecords
<1>2. CASE m.reason # "none"
  <2>1. StopOnceEvents(m) = << >>
    BY <1>2 DEF StopOnceEvents
  <2> QED BY <1>2, <2>1, FewRecords
<1> QED BY <1>1, <1>2

-----------------------------------------------------------------------------
(* Memory of the session and its stops.                                    *)

\* The fields of the session's memory.
MemFields ==
    {"ready", "safety", "recon", "kill", "observed", "blocked", "reason", "behind", "connected",
     "received", "orders", "view", "lastUpdate"}

\* A session that stopped, for a reason or in any other way, is not ready.
GoodMem(m) ==
    /\ DOMAIN m = MemFields
    /\ m.ready \in BOOLEAN /\ m.safety \in BOOLEAN /\ m.recon \in BOOLEAN /\ m.kill \in BOOLEAN
    /\ m.observed \in BOOLEAN /\ m.blocked \in BOOLEAN /\ m.behind \in BOOLEAN
    /\ m.connected \in BOOLEAN
    /\ m.reason \in Reasons
    /\ m.safety => ~m.ready
    /\ m.reason # "none" => m.safety
    /\ IsFiniteSet(DOMAIN m.orders)

\* Before stop() nothing but a safety stop sets the other two flags.
Live(m) == m.kill \/ m.recon => m.safety

\* A capability that lost its authority, or a place or modify whose session
\* is not ready any more, waits for a session that recorded why.
GoodSlot(m, s) ==
    /\ s \in [intent : Intents \cup {NoId}, current : BOOLEAN]
    /\ s.intent = NoId => s = EmptySlot
    /\ s.intent # NoId /\ ~s.current => m.reason # "none"
    /\ s.intent \in Places \cup Modifies /\ ~m.ready => m.reason # "none"
    /\ m.blocked => s.intent \notin Places \cup Modifies

\* The broker holds finitely many orders.
GoodBroker(b) ==
    /\ DOMAIN b = {"health", "orders"}
    /\ IsFiniteSet(DOMAIN b.orders)

\* A stop that the ledger must know of, or a record not collected after one.
Marked(m) == m.safety \/ m.behind

\* What a safety stop leaves alone.
SameButStopped(m, n) ==
    /\ n.observed = m.observed /\ n.blocked = m.blocked /\ n.behind = m.behind
    /\ n.connected = m.connected /\ n.received = m.received /\ n.orders = m.orders
    /\ n.view = m.view /\ n.lastUpdate = m.lastUpdate

\* force_safety_stop().
LEMMA SafetyStoppedIs ==
    ASSUME NEW m, GoodMem(m), NEW n, n = SafetyStopped(m)
    PROVE  /\ GoodMem(n) /\ Live(n) /\ n.safety /\ ~n.ready
           /\ SameButStopped(m, n) /\ n.reason = m.reason
<1>1. DOMAIN m = MemFields
  BY DEF GoodMem
<1>2. /\ DOMAIN n = MemFields
      /\ n.ready = FALSE /\ n.safety = TRUE /\ n.recon = TRUE /\ n.kill = TRUE
      /\ SameButStopped(m, n) /\ n.reason = m.reason
  BY <1>1 DEF MemFields, SafetyStopped, SameButStopped
<1> QED BY <1>2 DEF GoodMem, Live, SameButStopped

\* stop_once().
LEMMA StopOnceIs ==
    ASSUME NEW m, GoodMem(m), NEW reason \in Reasons \ {"none"}, NEW n, n = StopOnce(m, reason)
    PROVE  /\ GoodMem(n) /\ n.safety /\ ~n.ready
           /\ Live(m) => Live(n)
           /\ SameButStopped(m, n)
           /\ n.reason = (IF m.reason = "none" THEN reason ELSE m.reason)
           /\ m.reason # "none" => n = m
<1>1. CASE m.reason = "none"
  <2> DEFINE u == SafetyStopped(m)
  <2>1. /\ GoodMem(u) /\ Live(u) /\ u.safety /\ ~u.ready
        /\ SameButStopped(m, u) /\ u.reason = m.reason
    BY SafetyStoppedIs
  <2>2. n = [u EXCEPT !.reason = reason]
    BY <1>1 DEF StopOnce
  <2> HIDE DEF u
  <2>3. DOMAIN u = MemFields
    BY <2>1 DEF GoodMem
  <2>4. /\ DOMAIN n = MemFields /\ n.ready = u.ready /\ n.safety = u.safety
        /\ n.recon = u.recon /\ n.kill = u.kill /\ n.reason = reason
        /\ SameButStopped(u, n)
    BY <2>2, <2>3 DEF MemFields, SameButStopped
  <2>5. GoodMem(n)
    BY <2>1, <2>4 DEF GoodMem, SameButStopped
  <2>6. SameButStopped(m, n)
    BY <2>1, <2>4 DEF SameButStopped
  <2>7. Live(n) /\ n.safety /\ ~n.ready
    BY <2>1, <2>4 DEF Live
  <2> QED BY <1>1, <2>4, <2>5, <2>6, <2>7
<1>2. CASE m.reason # "none"
  <2>1. n = m
    BY <1>2 DEF StopOnce
  <2>2. SameButStopped(m, m)
    BY DEF SameButStopped
  <2>3. m.safety /\ ~m.ready
    BY <1>2 DEF GoodMem
  <2> QED BY <1>2, <2>1, <2>2, <2>3
<1> QED BY <1>1, <1>2

-----------------------------------------------------------------------------
(* What all outcomes of handlers have in common.                           *)

\* The fields of an outcome.
OutcomeFields == {"events", "mem", "slot", "broker", "called", "before"}

\* The session in each phase of its process.
Fits(p, m, s) ==
    /\ p \in {"up", "draining"} => Live(m)
    /\ p = "stopping" => ~m.ready
    /\ p = "up" /\ ~m.connected => s = EmptySlot
    /\ p = "down" => m = NoMemory /\ s = EmptySlot

\* The session is what its handlers may rely on.
Session ==
    /\ phase \in {"down", "up", "draining", "stopping"}
    /\ GoodMem(mem) /\ GoodSlot(mem, slot) /\ GoodBroker(broker)
    /\ Fits(phase, mem, slot)

\* What a process never forgets.
KeepsStops(m, n) ==
    /\ m.reason = "other" => n.reason = "other"
    /\ m.blocked => n.blocked
    /\ DOMAIN m.received \subseteq DOMAIN n.received

\* The intents the session has not received.
Fresh == Intents \ DOMAIN mem.received

\* A new stop is on record.
StopsOnRecord(events, m) ==
    Marked(m) => Marked(mem) \/ phase \in {"draining", "stopping"} \/ HasStop(events)

\* The intent staged by the handler, if any, is new and its attempt on record.
StagesOnRecord(out) ==
    LET i == out.slot.intent
    IN  i \notin {NoId, slot.intent} =>
          /\ i \in Fresh /\ i \in DOMAIN out.mem.received
          /\ Requests(out.events, i)
          /\ i \in Places => Submits(out.events, i)

\* The broker is called for the staged capability, which the call consumes.
CallsStaged(out) ==
    \A i \in out.called :
       /\ slot.intent = i /\ i \in Intents /\ out.slot = EmptySlot
       /\ i \notin Cancels => mem.ready

\* The broker learns of no order but the one that is placed.
PlacesStaged(out) ==
    \A o \in DOMAIN out.broker.orders \ DOMAIN broker.orders : o \in Places /\ o = slot.intent

\* What the parts of an outcome are, whatever else happens.
PartsSound(events, m, s) ==
    /\ IsSequence(events)
    /\ GoodMem(m) /\ GoodSlot(m, s) /\ Fits(phase, m, s)
    /\ KeepsStops(mem, m)
    /\ StopsOnRecord(events, m)
    /\ MapsWithin(events, Fresh)

\* What the outcome of every handler is.
Sound(out) ==
    /\ DOMAIN out = OutcomeFields /\ out.before \in Nat
    /\ PartsSound(out.events, out.mem, out.slot)
    /\ GoodBroker(out.broker)
    /\ StagesOnRecord(out) /\ CallsStaged(out) /\ PlacesStaged(out)

\* A handler that neither stages nor calls.
LEMMA QuietSound ==
    ASSUME Session, NEW events, NEW m, NEW s, PartsSound(events, m, s),
           s.intent \in {NoId, slot.intent}
    PROVE  Sound(Outcome(events, m, s))
<1> DEFINE out == Outcome(events, m, s)
<1>1. /\ DOMAIN out = OutcomeFields /\ out.events = events /\ out.mem = m /\ out.slot = s
      /\ out.broker = broker /\ out.called = {} /\ out.before = 0
  BY DEF Outcome, OutcomeFields
<1> HIDE DEF out
<1>2. GoodBroker(out.broker)
  BY <1>1 DEF Session
<1>3. StagesOnRecord(out) /\ CallsStaged(out) /\ PlacesStaged(out)
  BY <1>1 DEF StagesOnRecord, CallsStaged, PlacesStaged
<1>4. Sound(out)
  BY <1>1, <1>2, <1>3 DEF Sound
<1> QED BY <1>4 DEF out

\* Two records.
LEMMA TwoRecords ==
    ASSUME NEW a, NEW b
    PROVE  /\ IsSequence(<<a, b>>) /\ Len(<<a, b>>) = 2
           /\ a.type = "safety_stop" => HasStop(<<a, b>>)
           /\ \A S : /\ a.type \in Mapping => a.intent \in S
                     /\ b.type \in Mapping => b.intent \in S
                     => MapsWithin(<<a, b>>, S)
<1> DEFINE q == <<a, b>>
<1>1. q \in Seq({a, b}) /\ Len(q) = 2 /\ q[1] = a /\ q[2] = b
  OBVIOUS
<1>2. IsSequence(q)
  BY <1>1 DEF IsSequence
<1> HIDE DEF q
<1>3. a.type = "safety_stop" => HasStop(q)
  BY <1>1 DEF HasStop
<1>4. \A S : /\ a.type \in Mapping => a.intent \in S
             /\ b.type \in Mapping => b.intent \in S
             => MapsWithin(q, S)
  <2>1. \A k \in 1..2 : k = 1 \/ k = 2
    OBVIOUS
  <2> QED BY <1>1, <2>1 DEF MapsWithin
<1> QED BY <1>1, <1>2, <1>3, <1>4 DEF q

\* An intent id comes back with another payload (Conflict).
LEMMA ConflictSound ==
    ASSUME Session, phase \in {"up", "draining"}, slot = EmptySlot, NEW i
    PROVE  Sound(Conflict(i))
<1> DEFINE a == SafetyStop(i, NoId)
           b == Event("risk_rejected", i, NoId)
           u == SafetyStopped(mem)
           m == [u EXCEPT !.blocked = TRUE]
           e == <<a, b>>
<1>1. Conflict(i) = Outcome(e, m, slot)
  BY DEF Conflict
<1>2. a.type = "safety_stop" /\ a.type \notin Mapping /\ b.type \notin Mapping
  BY DEF SafetyStop, Event, Mapping
<1>3. /\ GoodMem(u) /\ Live(u) /\ u.safety /\ ~u.ready
      /\ SameButStopped(mem, u) /\ u.reason = mem.reason
  BY SafetyStoppedIs DEF Session
<1> HIDE DEF a, b, u
<1>4. IsSequence(e) /\ HasStop(e) /\ MapsWithin(e, Fresh)
  BY <1>2, TwoRecords
<1>5. DOMAIN u = MemFields
  BY <1>3 DEF GoodMem
<1>6. /\ DOMAIN m = MemFields /\ m.ready = u.ready /\ m.safety = u.safety /\ m.recon = u.recon
      /\ m.kill = u.kill /\ m.observed = u.observed /\ m.blocked = TRUE /\ m.reason = u.reason
      /\ m.behind = u.behind /\ m.connected = u.connected /\ m.received = u.received
      /\ m.orders = u.orders
  BY <1>5 DEF MemFields
<1> HIDE DEF e, m
<1>7. GoodMem(m) /\ Live(m)
  BY <1>3, <1>6 DEF GoodMem, Live
<1>8. slot.intent = NoId /\ NoId \notin Places \cup Modifies
  BY IntentsAssumption DEF EmptySlot, Intents
<1>9. GoodSlot(m, slot)
  BY <1>8 DEF GoodSlot, Session
<1>10. Fits(phase, m, slot) /\ KeepsStops(mem, m)
  BY <1>3, <1>6, <1>7 DEF Fits, KeepsStops, SameButStopped
<1>11. StopsOnRecord(e, m)
  BY <1>4 DEF StopsOnRecord
<1>12. PartsSound(e, m, slot)
  BY <1>4, <1>7, <1>9, <1>10, <1>11 DEF PartsSound
<1>13. Sound(Outcome(e, m, slot))
  BY <1>12, QuietSound
<1> QED BY <1>1, <1>13

\* The session's memory of a new intent (and of the order it moves).
Received(m, n, i) ==
    /\ GoodMem(n) /\ n.ready = m.ready /\ n.safety = m.safety /\ n.recon = m.recon
    /\ n.kill = m.kill /\ n.observed = m.observed /\ n.blocked = m.blocked
    /\ n.reason = m.reason /\ n.behind = m.behind /\ n.connected = m.connected
    /\ DOMAIN n.received = DOMAIN m.received \cup {i}

\* What a record of the attempt of i names.
LEMMA IntentEventIs ==
    ASSUME NEW type, NEW i, NEW e, e = IntentEvent(type, i)
    PROVE  e.type = type /\ e.intent = i /\ e.order = OrderOf(i)
<1> DEFINE u == Event(type, i, OrderOf(i))
<1>1. u.type = type /\ u.intent = i /\ u.order = OrderOf(i)
  BY DEF Event
<1>2. CASE i \in Cancels
  BY <1>1, <1>2 DEF IntentEvent, WithTerms
<1>3. CASE i \notin Cancels
  <2> DEFINE q == Terms[i].quantity
             p == Terms[i].price
  <2>1. e = [u EXCEPT !.quantity = q, !.price = p]
    BY <1>3 DEF IntentEvent, WithTerms
  <2> HIDE DEF q, p
  <2>2. DOMAIN u = {"type", "intent", "order", "content", "side", "quantity", "price",
                    "cumulative", "sequence", "authoritative"}
    BY DEF Event
  <2> HIDE DEF u
  <2> QED BY <1>1, <2>1, <2>2
<1> QED BY <1>2, <1>3

\* The four records of an attempt, in their order.
LEMMA AttemptRecords ==
    ASSUME NEW x, NEW y, NEW a, NEW b, NEW i,
           a.type = "risk_approved", a.intent = i, b.type \in AttemptTypes, b.intent = i
    PROVE  LET q == Append(Append(<<x, y>>, a), b)
           IN  /\ Requests(q, i)
               /\ b.type = "submission_started" /\ b.order = i => Submits(q, i)
<1> DEFINE p == <<x, y>>
           r == Append(p, a)
           q == Append(r, b)
<1>1. IsSequence(p) /\ Len(p) = 2
  BY TwoRecords
<1> HIDE DEF p
<1>2. IsSequence(r) /\ Len(r) = 3 /\ r[3] = a
  <2>1. IsSequence(r) /\ Len(r) = Len(p) + 1 /\ r[Len(p) + 1] = a
    BY <1>1, AppendedSequences
  <2> QED BY <1>1, <2>1
<1> HIDE DEF r
<1>3. Len(q) = 4 /\ q[4] = b /\ q[3] = a
  <2> DEFINE n == Len(r)
  <2>0. IsSequence(r)
    BY <1>2
  <2>1. /\ IsSequence(q) /\ Len(q) = n + 1 /\ n \in Nat
        /\ q[n + 1] = b /\ \A k \in 1..n : q[k] = r[k]
    BY <2>0, AppendedSequences
  <2> HIDE DEF q, n
  <2>2. n = 3 /\ 3 \in 1..3
    BY <1>2 DEF n
  <2> QED BY <1>2, <2>1, <2>2
<1> HIDE DEF q
<1>4. 3 \in 1..Len(q) /\ 4 \in 1..Len(q) /\ 3 < 4 /\ (4 + 1)..Len(q) = {}
  BY <1>3
<1>5. Requests(q, i)
  BY <1>3, <1>4 DEF Requests
<1>6. b.type = "submission_started" /\ b.order = i => Submits(q, i)
  BY <1>3, <1>4 DEF Submits
<1> QED BY <1>5, <1>6 DEF q, r, p

\* What follows an approval: the attempt is recorded and staged, or the
\* session stops, or it stops because nobody collects its records.
LEMMA AttemptSound ==
    ASSUME Session, phase \in {"up", "draining"}, phase = "up" => mem.connected,
           slot = EmptySlot, NEW i \in Fresh,
           i \in Places \cup Modifies => mem.ready /\ ~mem.blocked,
           NEW x, NEW y, x.type \notin Mapping, y.type \in Mapping => y.intent = i,
           NEW m, Received(mem, m, i), NEW transition, NEW overflow \in BOOLEAN
    PROVE  Sound(Attempt(i, Append(<<x, y>>, Event("risk_approved", i, OrderOf(i))),
                         m, transition, overflow))
<1> DEFINE a == Event("risk_approved", i, OrderOf(i))
           b == IntentEvent(AttemptType(i), i)
           stop == SafetyStop(i, OrderOf(i))
           e == Append(<<x, y>>, a)
           f == Append(e, b)
           n == [m EXCEPT !.orders = Put(@, OrderOf(i), transition.order)]
           out == Attempt(i, e, m, transition, overflow)
<1>1. a.type = "risk_approved" /\ a.intent = i /\ a.type \notin Mapping
  BY DEF Event, Mapping
<1>2. stop.type = "safety_stop" /\ stop.type \notin Mapping
  BY DEF SafetyStop, Event, Mapping
<1>3. /\ b.type = AttemptType(i) /\ b.intent = i /\ b.order = OrderOf(i)
      /\ b.type \in AttemptTypes /\ b.type \notin Mapping
  BY IntentEventIs DEF AttemptType, AttemptTypes, Mapping
<1>4. i \in Intents /\ i # NoId /\ i \notin DOMAIN mem.received
      /\ (i \in Places => OrderOf(i) = i /\ AttemptType(i) = "submission_started")
  BY IntentsAssumption DEF Fresh, OrderOf, AttemptType
<1>5. slot.intent = NoId /\ NoId \notin Places \cup Modifies
  BY IntentsAssumption DEF EmptySlot, Intents
<1>6. out = IF (i \notin Places /\ OrderOf(i) \notin DOMAIN mem.orders) \/ transition.refused
            THEN Outcome(Append(e, stop), SafetyStopped(m), slot)
            ELSE Prepared(i, f, n, overflow)
  BY DEF Attempt
<1>7. Requests(f, i) /\ (i \in Places => Submits(f, i))
  <2> HIDE DEF a, b
  <2> QED BY <1>1, <1>3, <1>4, AttemptRecords
<1>8. IsSequence(e) /\ MapsWithin(e, Fresh)
  <2> DEFINE p == <<x, y>>
  <2>1. IsSequence(p) /\ MapsWithin(p, Fresh)
    BY TwoRecords
  <2>2. e = Append(p, a)
    OBVIOUS
  <2> HIDE DEF p, a, e
  <2> QED BY <1>1, <2>1, <2>2, AppendedRecords
<1>9. IsSequence(f) /\ MapsWithin(f, Fresh)
  <2> HIDE DEF e, b
  <2> QED BY <1>3, <1>8, AppendedRecords
<1>10. GoodMem(m) /\ Live(m)
  BY DEF Received, Session, Fits, Live
<1>11. Received(mem, n, i)
  <2>1. DOMAIN m = MemFields /\ IsFiniteSet(DOMAIN m.orders)
    BY <1>10 DEF GoodMem
  <2> DEFINE o == OrderOf(i)
             v == transition.order
  <2> HIDE DEF o, v
  <2>2. /\ DOMAIN n = MemFields /\ n.ready = m.ready /\ n.safety = m.safety /\ n.recon = m.recon
        /\ n.kill = m.kill /\ n.observed = m.observed /\ n.blocked = m.blocked
        /\ n.reason = m.reason /\ n.behind = m.behind /\ n.connected = m.connected
        /\ n.received = m.received /\ DOMAIN n.orders = DOMAIN m.orders \cup {o}
    BY <2>1 DEF MemFields, Put, o, v
  <2> HIDE DEF n
  <2>3. IsFiniteSet(DOMAIN n.orders)
    BY <2>1, <2>2, FS_AddElement
  <2>4. GoodMem(n)
    BY <1>10, <2>2, <2>3 DEF GoodMem
  <2> QED BY <2>2, <2>4 DEF Received
<1>12. GoodMem(n) /\ Live(n)
  BY <1>11 DEF Received, Session, Fits, Live
<1> HIDE DEF a, b, stop, e, f, n, out
<1>13. CASE (i \notin Places /\ OrderOf(i) \notin DOMAIN mem.orders) \/ transition.refused
  <2> DEFINE u == SafetyStopped(m)
             g == Append(e, stop)
  <2>1. out = Outcome(g, u, slot)
    BY <1>6, <1>13
  <2>2. IsSequence(g) /\ HasStop(g) /\ MapsWithin(g, Fresh)
    BY <1>2, <1>8, AppendedRecords
  <2>3. /\ GoodMem(u) /\ Live(u) /\ u.safety /\ ~u.ready
        /\ SameButStopped(m, u) /\ u.reason = m.reason
    BY <1>10, SafetyStoppedIs
  <2> HIDE DEF u, g
  <2>4. GoodSlot(u, slot)
    BY <1>5 DEF GoodSlot, Session
  <2>5. Fits(phase, u, slot) /\ KeepsStops(mem, u)
    BY <2>3 DEF Fits, KeepsStops, SameButStopped, Received
  <2>6. PartsSound(g, u, slot)
    BY <2>2, <2>3, <2>4, <2>5 DEF PartsSound, StopsOnRecord
  <2>7. slot.intent \in {NoId, slot.intent}
    OBVIOUS
  <2> QED BY <2>1, <2>6, <2>7, QuietSound DEF out, e, a
<1>14. CASE /\ ~((i \notin Places /\ OrderOf(i) \notin DOMAIN mem.orders) \/ transition.refused)
            /\ overflow
  <2> DEFINE u == StopOnce(n, "other")
             w == [u EXCEPT !.behind = @ \/ n.reason = "none"]
             stops == StopOnceEvents(n)
             g == f \o stops
             other == "other"
  <2>1. out = Outcome(g, w, slot)
    BY <1>6, <1>14 DEF Prepared
  <2>2. IsSequence(stops) /\ (n.reason = "none" => HasStop(stops)) /\ MapsWithin(stops, Fresh)
    BY StopOnceRecords
  <2>3. IsSequence(g) /\ (n.reason = "none" => HasStop(g)) /\ MapsWithin(g, Fresh)
    <3> HIDE DEF stops
    <3> QED BY <1>9, <2>2, JoinedRecords
  <2>4. other \in Reasons \ {"none"} /\ u = StopOnce(n, other)
    BY DEF Reasons
  <2> HIDE DEF other, u, g
  <2>5. /\ GoodMem(u) /\ u.safety /\ ~u.ready
        /\ Live(n) => Live(u)
        /\ SameButStopped(n, u)
        /\ u.reason = (IF n.reason = "none" THEN other ELSE n.reason)
    BY <1>12, <2>4, StopOnceIs
  <2>6. DOMAIN u = MemFields
    BY <2>5 DEF GoodMem
  <2>7. /\ DOMAIN w = MemFields /\ w.ready = u.ready /\ w.safety = u.safety /\ w.recon = u.recon
        /\ w.kill = u.kill /\ w.observed = u.observed /\ w.blocked = u.blocked
        /\ w.reason = u.reason /\ w.behind = (u.behind \/ n.reason = "none")
        /\ w.connected = u.connected /\ w.received = u.received /\ w.orders = u.orders
    BY <2>6 DEF MemFields
  <2> HIDE DEF w
  <2>8. GoodMem(w) /\ Live(w)
    <3>1. w.behind \in BOOLEAN
      BY <2>5, <2>7 DEF GoodMem
    <3> QED BY <1>12, <2>5, <2>7, <3>1 DEF GoodMem, Live
  <2>9. GoodSlot(w, slot)
    BY <1>5 DEF GoodSlot, Session
  <2>10. KeepsStops(mem, w)
    BY <1>11, <2>4, <2>5, <2>7 DEF KeepsStops, SameButStopped, Received, other
  <2>11. Fits(phase, w, slot)
    BY <2>8 DEF Fits
  <2>12. StopsOnRecord(g, w)
    <3>1. CASE n.reason = "none"
      BY <2>3, <3>1 DEF StopsOnRecord
    <3>2. CASE n.reason # "none"
      BY <1>11, <3>2 DEF StopsOnRecord, Marked, Received, GoodMem
    <3> QED BY <3>1, <3>2
  <2>13. PartsSound(g, w, slot)
    BY <2>3, <2>8, <2>9, <2>10, <2>11, <2>12 DEF PartsSound
  <2>14. slot.intent \in {NoId, slot.intent}
    OBVIOUS
  <2> QED BY <2>1, <2>13, <2>14, QuietSound DEF out, e, a
<1>15. CASE /\ ~((i \notin Places /\ OrderOf(i) \notin DOMAIN mem.orders) \/ transition.refused)
            /\ ~overflow
  <2> DEFINE new == [intent |-> i, current |-> TRUE]
             s == IF n.reason = "none" THEN new ELSE slot
  <2>1. out = Outcome(f, n, s)
    BY <1>6, <1>15 DEF Prepared
  <2>2. new.intent = i /\ new.current = TRUE /\ new \in [intent : Intents \cup {NoId}, current : BOOLEAN]
    BY <1>4
  <2> HIDE DEF new
  <2>3. KeepsStops(mem, n)
    BY <1>11 DEF KeepsStops, Received
  <2>4. StopsOnRecord(f, n)
    BY <1>11 DEF StopsOnRecord, Marked, Received
  <2>5. GoodSlot(n, slot)
    BY <1>5 DEF GoodSlot, Session
  <2>6. GoodSlot(n, new)
    BY <1>4, <1>11, <2>2 DEF GoodSlot, Received
  <2>7. GoodSlot(n, s) /\ s \in {new, slot}
    BY <2>5, <2>6
  <2>8. Fits(phase, n, s)
    BY <1>11, <1>12 DEF Fits, Received
  <2> HIDE DEF s
  <2>9. PartsSound(f, n, s)
    BY <1>9, <1>12, <2>3, <2>4, <2>7, <2>8 DEF PartsSound
  <2> DEFINE w == Outcome(f, n, s)
  <2>10. /\ DOMAIN w = OutcomeFields /\ w.events = f /\ w.mem = n /\ w.slot = s
         /\ w.broker = broker /\ w.called = {} /\ w.before = 0
    BY DEF Outcome, OutcomeFields
  <2> HIDE DEF w
  <2>11. GoodBroker(w.broker)
    BY <2>10 DEF Session
  <2>12. i \in DOMAIN n.received
    BY <1>11 DEF Received
  <2>13. StagesOnRecord(w)
    BY <1>5, <1>7, <2>2, <2>7, <2>10, <2>12 DEF StagesOnRecord
  <2>14. CallsStaged(w) /\ PlacesStaged(w)
    BY <2>10 DEF CallsStaged, PlacesStaged
  <2>15. Sound(w)
    BY <2>9, <2>10, <2>11, <2>13, <2>14 DEF Sound
  <2> QED BY <2>1, <2>15 DEF w, out, e, a
<1> QED BY <1>13, <1>14, <1>15

\* A new intent: refused on record, or approved and attempted.
LEMMA PrepareNewSound ==
    ASSUME Session, phase \in {"up", "draining"}, phase = "up" => mem.connected,
           slot = EmptySlot, NEW i \in Fresh, NEW c, ~(mem.blocked /\ i \notin Cancels),
           NEW mapped \in BOOLEAN, NEW within \in BOOLEAN, NEW overflow \in BOOLEAN
    PROVE  Sound(PrepareNew(i, c, mapped, within, overflow))
<1> DEFINE u == Event("intent_received", i, NoId)
           x == [u EXCEPT !.content = c]
           y == IF mapped THEN Event("mapping_validated", i, OrderOf(i))
                ELSE Event("mapping_refused", i, NoId)
           a == Event("risk_approved", i, OrderOf(i))
           b == Event("risk_rejected", i, NoId)
           p == <<x, y>>
           m == [mem EXCEPT !.received = Put(@, i, c)]
           transition == AttemptTransition(i)
           out == PrepareNew(i, c, mapped, within, overflow)
<1>1. out = IF Approves(i, mapped, within)
            THEN Attempt(i, Append(p, a), m, transition, overflow)
            ELSE Outcome(Append(p, b), m, slot)
  BY DEF PrepareNew
<1>2. x.type = "intent_received" /\ x.type \notin Mapping
  <2>1. DOMAIN u = {"type", "intent", "order", "content", "side", "quantity", "price",
                    "cumulative", "sequence", "authoritative"} /\ u.type = "intent_received"
    BY DEF Event
  <2> HIDE DEF u
  <2> QED BY <2>1 DEF Mapping
<1>3. y.intent = i
  BY DEF Event
<1>4. b.type \notin Mapping
  BY DEF Event, Mapping
<1>5. Received(mem, m, i)
  <2>1. GoodMem(mem) /\ DOMAIN mem = MemFields
    BY DEF Session, GoodMem
  <2>2. /\ DOMAIN m = MemFields /\ m.ready = mem.ready /\ m.safety = mem.safety
        /\ m.recon = mem.recon
        /\ m.kill = mem.kill /\ m.observed = mem.observed /\ m.blocked = mem.blocked
        /\ m.reason = mem.reason /\ m.behind = mem.behind /\ m.connected = mem.connected
        /\ m.orders = mem.orders /\ DOMAIN m.received = DOMAIN mem.received \cup {i}
    BY <2>1 DEF MemFields, Put
  <2> HIDE DEF m
  <2>3. GoodMem(m)
    BY <2>1, <2>2 DEF GoodMem
  <2> QED BY <2>2, <2>3 DEF Received
<1>6. Approves(i, mapped, within) /\ i \in Places \cup Modifies => mem.ready /\ ~mem.blocked
  BY IntentsAssumption DEF Approves, Authority
<1> HIDE DEF transition, m
<1>7. CASE Approves(i, mapped, within)
  <2>1. out = Attempt(i, Append(<<x, y>>, Event("risk_approved", i, OrderOf(i))),
                      m, transition, overflow)
    BY <1>1, <1>7
  <2> HIDE DEF x, y, out
  <2> QED BY <1>2, <1>3, <1>5, <1>6, <1>7, <2>1, AttemptSound DEF out
<1>8. CASE ~Approves(i, mapped, within)
  <2> DEFINE e == Append(p, b)
  <2>1. out = Outcome(e, m, slot)
    BY <1>1, <1>8
  <2>2. IsSequence(p) /\ MapsWithin(p, Fresh)
    <3> HIDE DEF x, y
    <3> QED BY <1>2, <1>3, TwoRecords
  <2>3. IsSequence(e) /\ MapsWithin(e, Fresh)
    <3> HIDE DEF p, b
    <3> QED BY <1>4, <2>2, AppendedRecords
  <2> HIDE DEF e, out
  <2>4. slot.intent = NoId /\ NoId \notin Places \cup Modifies
    BY IntentsAssumption DEF EmptySlot, Intents
  <2>5. GoodSlot(m, slot)
    BY <2>4 DEF GoodSlot, Session
  <2>6. KeepsStops(mem, m) /\ StopsOnRecord(e, m)
    BY <1>5 DEF KeepsStops, StopsOnRecord, Marked, Received
  <2>7. GoodMem(m) /\ Fits(phase, m, slot)
    BY <1>5 DEF Received, Session, Fits, Live
  <2>8. PartsSound(e, m, slot)
    BY <2>3, <2>5, <2>6, <2>7 DEF PartsSound
  <2>9. slot.intent \in {NoId, slot.intent}
    OBVIOUS
  <2>10. Sound(Outcome(e, m, slot))
    BY <2>8, <2>9, QuietSound
  <2> QED BY <2>1, <2>10 DEF out
<1> QED BY <1>7, <1>8

\* process_next_risk_work() and prepare_intent().
LEMMA PrepareSound ==
    ASSUME Session, NEW i \in Intents, NEW c, phase \in {"up", "draining"},
           phase = "up" => mem.connected, slot = EmptySlot,
           NEW outcome \in PrepareOutcomes(i, c)
    PROVE  Sound(outcome)
<1>1. CASE outcome = Conflict(i)
  BY <1>1, ConflictSound
<1>2. CASE outcome # Conflict(i)
  <2>1. i \in Fresh /\ ~(mem.blocked /\ i \notin Cancels) /\ outcome \in NewIntent(i, c)
    BY <1>2 DEF PrepareOutcomes, Fresh
  <2>2. PICK mapped \in BOOLEAN, within \in BOOLEAN, overflow \in BOOLEAN :
          outcome = PrepareNew(i, c, mapped, within, overflow)
    BY <2>1 DEF NewIntent
  <2> QED BY <2>1, <2>2, PrepareNewSound
<1> QED BY <1>1, <1>2

\* An empty stage suits every session.
LEMMA EmptySlotGood ==
    ASSUME NEW m
    PROVE  /\ GoodSlot(m, EmptySlot) /\ EmptySlot.intent = NoId
           /\ NoId \notin Places \cup Modifies
BY IntentsAssumption DEF GoodSlot, EmptySlot, Intents

\* Only a stop on record revokes a prepared capability (SubmitRevoked).
LEMMA SubmitRevokedSound ==
    ASSUME Session, phase \in {"up", "draining"}, slot # EmptySlot, NEW i, i = slot.intent,
           ~slot.current \/ (~mem.ready /\ i \notin Cancels)
    PROVE  Sound(SubmitRevoked(i))
<1> DEFINE a == Event("reconciliation_required", i, OrderOf(i))
           e == <<a>>
           m == [mem EXCEPT !.recon = TRUE, !.safety = TRUE]
<1>1. SubmitRevoked(i) = Outcome(e, m, EmptySlot)
  BY DEF SubmitRevoked
<1>2. a.type \notin Mapping
  BY DEF Event, Mapping
<1> HIDE DEF a
<1>3. IsSequence(e) /\ MapsWithin(e, Fresh)
  BY <1>2, FewRecords
<1>4. mem.reason # "none" /\ mem.safety /\ ~mem.ready
  BY DEF Session, GoodSlot, Intents, GoodMem
<1>5. DOMAIN mem = MemFields
  BY DEF Session, GoodMem
<1>6. /\ DOMAIN m = MemFields /\ m.ready = mem.ready /\ m.safety = TRUE /\ m.recon = TRUE
      /\ m.kill = mem.kill /\ m.observed = mem.observed /\ m.blocked = mem.blocked
      /\ m.reason = mem.reason /\ m.behind = mem.behind /\ m.connected = mem.connected
      /\ m.received = mem.received /\ m.orders = mem.orders
  BY <1>5 DEF MemFields
<1> HIDE DEF e, m
<1>7. GoodMem(m) /\ Live(m)
  BY <1>4, <1>6 DEF Session, GoodMem, Live
<1>8. KeepsStops(mem, m) /\ StopsOnRecord(e, m) /\ Fits(phase, m, EmptySlot)
  BY <1>4, <1>6, <1>7 DEF KeepsStops, StopsOnRecord, Marked, Fits
<1>9. PartsSound(e, m, EmptySlot)
  BY <1>3, <1>7, <1>8, EmptySlotGood DEF PartsSound
<1>10. EmptySlot.intent \in {NoId, slot.intent}
  BY EmptySlotGood
<1> QED BY <1>1, <1>9, <1>10, QuietSound

\* The session after a stop with a reason and another stop.
LEMMA StoppedTwice ==
    ASSUME NEW m, GoodMem(m), Live(m), NEW n, n = SafetyStopped(StopOnce(m, "other"))
    PROVE  /\ GoodMem(n) /\ Live(n) /\ n.safety /\ ~n.ready
           /\ SameButStopped(m, n) /\ (m.reason = "other" => n.reason = "other")
<1> DEFINE other == "other"
           u == StopOnce(m, other)
<1>1. other \in Reasons \ {"none"} /\ n = SafetyStopped(u)
  BY DEF Reasons
<1> HIDE DEF other, u
<1>2. /\ GoodMem(u) /\ SameButStopped(m, u)
      /\ u.reason = (IF m.reason = "none" THEN other ELSE m.reason)
  BY <1>1, StopOnceIs DEF u
<1>3. /\ GoodMem(n) /\ Live(n) /\ n.safety /\ ~n.ready
      /\ SameButStopped(u, n) /\ n.reason = u.reason
  BY <1>1, <1>2, SafetyStoppedIs
<1>4. SameButStopped(m, n)
  BY <1>2, <1>3 DEF SameButStopped
<1> QED BY <1>2, <1>3, <1>4

\* The attempt record is not acknowledged (SubmitUnacknowledged).
LEMMA SubmitUnacknowledgedSound ==
    ASSUME Session, phase \in {"up", "draining"}, NEW i
    PROVE  Sound(SubmitUnacknowledged(i))
<1> DEFINE a == SafetyStop(i, OrderOf(i))
           stops == StopOnceEvents(mem)
           e == Append(stops, a)
           m == SafetyStopped(StopOnce(mem, "other"))
<1>1. SubmitUnacknowledged(i) = Outcome(e, m, EmptySlot)
  BY DEF SubmitUnacknowledged
<1>2. a.type = "safety_stop" /\ a.type \notin Mapping
  BY DEF SafetyStop, Event, Mapping
<1>3. IsSequence(stops) /\ MapsWithin(stops, Fresh)
  BY StopOnceRecords
<1> HIDE DEF a, stops
<1>4. IsSequence(e) /\ HasStop(e) /\ MapsWithin(e, Fresh)
  BY <1>2, <1>3, AppendedRecords
<1>5. GoodMem(mem) /\ Live(mem)
  BY DEF Session, Fits
<1>6. /\ GoodMem(m) /\ Live(m) /\ m.safety /\ ~m.ready
      /\ SameButStopped(mem, m) /\ (mem.reason = "other" => m.reason = "other")
  BY <1>5, StoppedTwice
<1> HIDE DEF e, m
<1>7. KeepsStops(mem, m) /\ StopsOnRecord(e, m) /\ Fits(phase, m, EmptySlot)
  BY <1>4, <1>6 DEF KeepsStops, StopsOnRecord, Fits, SameButStopped
<1>8. PartsSound(e, m, EmptySlot)
  BY <1>4, <1>6, <1>7, EmptySlotGood DEF PartsSound
<1>9. EmptySlot.intent \in {NoId, slot.intent}
  BY EmptySlotGood
<1> QED BY <1>1, <1>8, <1>9, QuietSound

\* The paper broker adds no order but the one a place names.
LEMMA BrokerReplySound ==
    ASSUME Session, NEW i \in Intents, NEW orders, orders = BrokerReply(i).orders
    PROVE  /\ IsFiniteSet(DOMAIN orders)
           /\ \A o \in DOMAIN orders \ DOMAIN broker.orders : i \in Places /\ o = i
<1> DEFINE o == OrderOf(i)
           before == broker.orders
           known == o \in DOMAIN before
           terms == Placed(Terms[i])
           quantity == Terms[i].quantity
           price == Terms[i].price
           put == Put(before, o, terms)
           modified == [before EXCEPT ![o].quantity = quantity, ![o].price = price]
           cancelled == [before EXCEPT ![o].state = "cancelled"]
<1>1. IsFiniteSet(DOMAIN before)
  BY DEF Session, GoodBroker
<1>2. orders \in {before, modified, cancelled} \/ (i \in Places /\ orders = put)
  <2>1. CASE broker.health # "Ready"
    <3>1. BrokerReply(i).orders = before
      BY <2>1 DEF BrokerReply, Reply
    <3> QED BY <3>1
  <2>2. CASE broker.health = "Ready" /\ i \in Places
    <3>0. i \notin Modifies /\ i \notin Cancels
      BY <2>2, IntentsAssumption
    <3>1. BrokerReply(i) = IF known THEN Reply("Rejected", before) ELSE Reply("Acknowledged", put)
      BY <2>2, <3>0 DEF BrokerReply
    <3>2. BrokerReply(i).orders \in {before, put}
      <4> HIDE DEF put, before, known
      <4> QED BY <3>1 DEF Reply
    <3> QED BY <2>2, <3>2
  <2>3. CASE broker.health = "Ready" /\ i \in Modifies
    <3> DEFINE refused == \/ ~known
                          \/ before[o].state \in BrokerTerminal
                          \/ Terms[i].quantity < before[o].cumulative
    <3>1. i \notin Places /\ i \notin Cancels
      BY <2>3, IntentsAssumption
    <3>2. BrokerReply(i) = IF refused THEN Reply("Rejected", before)
                           ELSE Reply("Acknowledged", modified)
      BY <2>3, <3>1 DEF BrokerReply
    <3>3. BrokerReply(i).orders \in {before, modified}
      <4> HIDE DEF modified, before, refused
      <4> QED BY <3>2 DEF Reply
    <3> QED BY <3>3
  <2>4. CASE broker.health = "Ready" /\ i \in Cancels
    <3> DEFINE refused == ~known \/ (before[o].state \in BrokerTerminal \ {"cancelled"})
    <3>1. i \notin Places /\ i \notin Modifies
      BY <2>4, IntentsAssumption
    <3>2. BrokerReply(i) = IF refused THEN Reply("Rejected", before)
                           ELSE Reply("Acknowledged", cancelled)
      BY <2>4, <3>1 DEF BrokerReply
    <3>3. BrokerReply(i).orders \in {before, cancelled}
      <4> HIDE DEF cancelled, before, refused
      <4> QED BY <3>2 DEF Reply
    <3> QED BY <3>3
  <2> QED BY <2>1, <2>2, <2>3, <2>4 DEF Intents
<1>3. /\ DOMAIN modified = DOMAIN before /\ DOMAIN cancelled = DOMAIN before
      /\ DOMAIN put = DOMAIN before \cup {o}
  BY DEF Put
<1>4. i \in Places => o = i
  BY DEF OrderOf
<1>5. IsFiniteSet(DOMAIN before \cup {o})
  BY <1>1, FS_AddElement
<1> HIDE DEF modified, cancelled, put, before, o
<1> QED BY <1>1, <1>2, <1>3, <1>4, <1>5 DEF before

\* The broker is called once; what it answers is applied, or the session
\* stops (SubmitCalled, Answered).
LEMMA SubmitCalledSound ==
    ASSUME Session, phase \in {"up", "draining"}, NEW i \in Intents, i = slot.intent,
           i \notin Cancels => mem.ready, NEW acknowledged \in BOOLEAN
    PROVE  Sound(SubmitCalled(i, acknowledged))
<1> DEFINE o == OrderOf(i)
           reply == BrokerReply(i)
           b == [broker EXCEPT !.orders = reply.orders]
           event == IntentEvent(OutcomeType(i, reply.status), i)
           result == ApplyOrderUpdate(mem.orders[o], EvidenceOf(event, EvidenceKind[event.type]))
           uncertain == result.refused \/ reply.status = "Ambiguous" \/ ~acknowledged
           a == SafetyStop(i, o)
           refusal == IF result.refused THEN <<a>> ELSE << >>
           told == Append(refusal, event)
           stop == IF acknowledged THEN << >> ELSE StopOnceEvents(mem)
           stops == IF uncertain THEN Append(stop, a) ELSE << >>
           e == told \o stops
           view == ViewAfter(event.type, i)
           applied == [mem EXCEPT !.orders[o] = result.order, !.view = view]
           m == IF uncertain
                THEN SafetyStopped(IF acknowledged THEN mem ELSE StopOnce(mem, "other"))
                ELSE applied
           answered == Outcome(e, m, EmptySlot)
           out == SubmitCalled(i, acknowledged)
<1>1. out = WithCall(answered, i, 0, b)
  BY DEF SubmitCalled, Answered
<1>2. a.type = "safety_stop" /\ a.type \notin Mapping
  BY DEF SafetyStop, Event, Mapping
<1>3. event.type \notin Mapping
  <2> DEFINE status == reply.status
  <2>1. event.type = OutcomeType(i, status)
    BY IntentEventIs
  <2>2. status \in {"Ambiguous", "Acknowledged", "Rejected"}
    <3>1. CASE broker.health # "Ready"
      BY <3>1 DEF BrokerReply, Reply
    <3>2. CASE broker.health = "Ready" /\ i \in Places
      BY <3>2 DEF BrokerReply, Reply
    <3>3. CASE broker.health = "Ready" /\ i \in Modifies
      BY <3>3, IntentsAssumption DEF BrokerReply, Reply
    <3>4. CASE broker.health = "Ready" /\ i \in Cancels
      BY <3>4, IntentsAssumption DEF BrokerReply, Reply
    <3> QED BY <3>1, <3>2, <3>3, <3>4 DEF Intents
  <2> HIDE DEF status, event
  <2>3. CASE status = "Ambiguous"
    BY <2>1, <2>3 DEF OutcomeType, Mapping
  <2>4. CASE status = "Acknowledged"
    BY <2>1, <2>4 DEF OutcomeType, Mapping
  <2>5. CASE status = "Rejected"
    BY <2>1, <2>5 DEF OutcomeType, Mapping
  <2> QED BY <2>2, <2>3, <2>4, <2>5
<1>4. GoodBroker(b) /\ \A p \in DOMAIN b.orders \ DOMAIN broker.orders : i \in Places /\ p = i
  <2> DEFINE orders == reply.orders
  <2>1. /\ IsFiniteSet(DOMAIN orders)
        /\ \A p \in DOMAIN orders \ DOMAIN broker.orders : i \in Places /\ p = i
    BY BrokerReplySound
  <2> HIDE DEF orders
  <2>2. DOMAIN broker = {"health", "orders"}
    BY DEF Session, GoodBroker
  <2>3. b = [broker EXCEPT !.orders = orders]
    BY DEF orders
  <2> HIDE DEF b, reply
  <2>4. DOMAIN b = {"health", "orders"} /\ b.orders = orders
    BY <2>2, <2>3
  <2> QED BY <2>1, <2>4 DEF GoodBroker
<1> HIDE DEF reply, b, event, result, a, view
<1>5. IsSequence(refusal) /\ MapsWithin(refusal, Fresh)
  BY <1>2, FewRecords
<1> HIDE DEF refusal
<1>6. IsSequence(told) /\ MapsWithin(told, Fresh)
  BY <1>3, <1>5, AppendedRecords
<1>7. IsSequence(stop) /\ MapsWithin(stop, Fresh)
  BY FewRecords, StopOnceRecords
<1> HIDE DEF told, stop
<1>8. IsSequence(stops) /\ MapsWithin(stops, Fresh) /\ (uncertain => HasStop(stops))
  <2>1. CASE uncertain
    <3>1. stops = Append(stop, a)
      BY <2>1
    <3> HIDE DEF stops
    <3> QED BY <1>2, <1>7, <3>1, AppendedRecords
  <2>2. CASE ~uncertain
    <3>1. stops = << >>
      BY <2>2
    <3> HIDE DEF stops
    <3> QED BY <2>2, <3>1, FewRecords
  <2> QED BY <2>1, <2>2
<1> HIDE DEF stops
<1>9. IsSequence(e) /\ MapsWithin(e, Fresh) /\ (uncertain => HasStop(e))
  BY <1>6, <1>8, JoinedRecords
<1>10. GoodMem(mem) /\ Live(mem) /\ DOMAIN mem = MemFields
  BY DEF Session, Fits, GoodMem
<1>11. GoodMem(m) /\ Live(m) /\ KeepsStops(mem, m) /\ (uncertain \/ Marked(m) = Marked(mem))
  <2>1. CASE uncertain /\ acknowledged
    <3>1. m = SafetyStopped(mem)
      BY <2>1
    <3> HIDE DEF m
    <3> QED BY <1>10, <2>1, <3>1, SafetyStoppedIs DEF KeepsStops, SameButStopped
  <2>2. CASE uncertain /\ ~acknowledged
    <3>1. m = SafetyStopped(StopOnce(mem, "other"))
      BY <2>2
    <3> HIDE DEF m
    <3>2. /\ GoodMem(m) /\ Live(m) /\ SameButStopped(mem, m)
          /\ mem.reason = "other" => m.reason = "other"
      BY <1>10, <3>1, StoppedTwice
    <3> QED BY <2>2, <3>2 DEF KeepsStops, SameButStopped
  <2>3. CASE ~uncertain
    <3>1. m = [mem EXCEPT !.orders[o] = result.order, !.view = view]
      BY <2>3
    <3>2. /\ DOMAIN m = MemFields /\ m.ready = mem.ready /\ m.safety = mem.safety
          /\ m.recon = mem.recon /\ m.kill = mem.kill /\ m.observed = mem.observed
          /\ m.blocked = mem.blocked /\ m.reason = mem.reason /\ m.behind = mem.behind
          /\ m.connected = mem.connected /\ m.received = mem.received
          /\ DOMAIN m.orders = DOMAIN mem.orders
      <4> HIDE DEF m, o
      <4> QED BY <1>10, <3>1 DEF MemFields
    <3> HIDE DEF m
    <3> QED BY <1>10, <3>2 DEF GoodMem, Live, KeepsStops, Marked
  <2> QED BY <2>1, <2>2, <2>3
<1> HIDE DEF e, m, uncertain
<1>12. StopsOnRecord(e, m) /\ Fits(phase, m, EmptySlot)
  BY <1>9, <1>11 DEF StopsOnRecord, Fits
<1>13. PartsSound(e, m, EmptySlot)
  BY <1>9, <1>11, <1>12, EmptySlotGood DEF PartsSound
<1>14. /\ DOMAIN answered = OutcomeFields /\ answered.events = e /\ answered.mem = m
       /\ answered.slot = EmptySlot
  BY DEF Outcome, OutcomeFields
<1> HIDE DEF answered
<1>15. /\ DOMAIN out = OutcomeFields /\ out.events = e /\ out.mem = m
       /\ out.slot = EmptySlot /\ out.broker = b /\ out.called = {i} /\ out.before = 0
  BY <1>1, <1>14 DEF WithCall, OutcomeFields
<1> HIDE DEF out
<1>16. StagesOnRecord(out)
  BY <1>15, EmptySlotGood DEF StagesOnRecord
<1>17. CallsStaged(out)
  BY <1>15 DEF CallsStaged
<1>18. PlacesStaged(out)
  BY <1>4, <1>15 DEF PlacesStaged
<1>19. Sound(out)
  BY <1>4, <1>13, <1>15, <1>16, <1>17, <1>18 DEF Sound
<1> QED BY <1>19 DEF out

\* process_next_broker_submission() and submit_prepared().
LEMMA SubmitSound ==
    ASSUME Session, phase \in {"up", "draining"}, slot # EmptySlot,
           NEW outcome \in SubmitOutcomes(slot.intent)
    PROVE  Sound(outcome)
<1> DEFINE i == slot.intent
<1>1. i \in Intents
  BY DEF Session, GoodSlot
<1>2. CASE ~slot.current \/ (~mem.ready /\ i \notin Cancels)
  <2>1. outcome = SubmitRevoked(i)
    BY <1>2 DEF SubmitOutcomes
  <2> QED BY <1>2, <2>1, SubmitRevokedSound
<1>3. CASE ~(~slot.current \/ (~mem.ready /\ i \notin Cancels))
  <2>1. \/ outcome = SubmitUnacknowledged(i)
        \/ \E acknowledged \in BOOLEAN : outcome = SubmitCalled(i, acknowledged)
    BY <1>3 DEF SubmitOutcomes
  <2>2. CASE outcome = SubmitUnacknowledged(i)
    BY <2>2, SubmitUnacknowledgedSound
  <2>3. ASSUME NEW acknowledged \in BOOLEAN, outcome = SubmitCalled(i, acknowledged)
        PROVE  Sound(outcome)
    <3>1. i \notin Cancels => mem.ready
      BY <1>3
    <3> QED BY <1>1, <2>3, <3>1, SubmitCalledSound
  <2> QED BY <2>1, <2>2, <2>3
<1> QED BY <1>2, <1>3

-----------------------------------------------------------------------------
(* process_next_market() and drain_broker_updates().                       *)

\* The drain goes fill by fill (Drain).
IsDrain(r, events, m, fills) ==
    /\ r[0] = [events |-> events, mem |-> m, draining |-> TRUE]
    /\ \A n \in 1..Len(fills) : r[n] = DrainFill(r[n - 1], fills[n])
    /\ Drain(events, m, fills) = r[Len(fills)]

\* Every fill is taken after the one before it.
LEMMA DrainSteps ==
    ASSUME NEW events, NEW m, NEW fills, Len(fills) \in Nat
    PROVE  \E r : IsDrain(r, events, m, fills)
<1> DEFINE N == Len(fills)
           state == [events |-> events, mem |-> m, draining |-> TRUE]
           Steps(r, l) == r[0] = state /\ \A n \in 1..l : r[n] = DrainFill(r[n - 1], fills[n])
           Solves(r) == r = [n \in 0..N |->
                              IF n = 0 THEN state ELSE DrainFill(r[n - 1], fills[n])]
           drained == CHOOSE r : Solves(r)
           T == {l \in Nat : \E r : Steps(r, l)}
<1>1. 0 \in T
  <2> DEFINE r == [n \in {0} |-> state]
  <2>1. r[0] = state /\ 1..0 = {}
    OBVIOUS
  <2>2. Steps(r, 0)
    BY <2>1
  <2> HIDE DEF r, Steps
  <2> QED BY <2>2
<1>2. ASSUME NEW l \in T PROVE l + 1 \in T
  <2>1. PICK r : Steps(r, l)
    BY <1>2
  <2> DEFINE q == [n \in 0..(l + 1) |->
                    IF n = l + 1 THEN DrainFill(r[l], fills[l + 1]) ELSE r[n]]
  <2>2. l \in Nat
    BY <1>2
  <2>3. q[0] = state
    BY <2>1, <2>2
  <2>4. ASSUME NEW n \in 1..(l + 1) PROVE q[n] = DrainFill(q[n - 1], fills[n])
    <3>1. n - 1 \in 0..l /\ n \in 0..(l + 1) /\ n - 1 # l + 1 /\ n - 1 \in 0..(l + 1)
      BY <2>2
    <3>2. q[n - 1] = r[n - 1]
      BY <3>1
    <3>3. CASE n = l + 1
      <4>1. q[n] = DrainFill(r[l], fills[l + 1]) /\ n - 1 = l
        BY <3>1, <3>3, <2>2
      <4> QED BY <4>1, <3>2, <3>3
    <3>4. CASE n # l + 1
      <4>1. n \in 1..l /\ q[n] = r[n]
        BY <3>1, <3>4, <2>2
      <4> QED BY <4>1, <3>2, <2>1
    <3> QED BY <3>3, <3>4
  <2>5. Steps(q, l + 1)
    <3> HIDE DEF q
    <3> QED BY <2>3, <2>4
  <2> HIDE DEF q, Steps
  <2> QED BY <2>2, <2>5
<1>3. N \in T
  <2> HIDE DEF Steps
  <2>1. T = Nat
    BY <1>1, <1>2, NatSetInduction
  <2> QED BY <2>1
<1>4. PICK h : Steps(h, N)
  BY <1>3
<1> DEFINE g == [n \in 0..N |-> h[n]]
<1>5. Solves(g)
  <2>1. \A n \in 0..N : g[n] = IF n = 0 THEN state ELSE DrainFill(g[n - 1], fills[n])
    <3> TAKE n \in 0..N
    <3>1. CASE n = 0
      BY <1>4, <3>1
    <3>2. CASE n # 0
      <4>1. n \in 1..N /\ n - 1 \in 0..N
        BY <3>2
      <4>2. g[n] = h[n] /\ g[n - 1] = h[n - 1]
        BY <4>1
      <4> QED BY <1>4, <3>2, <4>1, <4>2
    <3> QED BY <3>1, <3>2
  <2> QED BY <2>1
<1>6. Solves(drained)
  <2> HIDE DEF Solves, g
  <2> QED BY <1>5
<1>7. Drain(events, m, fills) = drained[N]
  BY DEF Drain
<1> HIDE DEF drained
<1>8. drained[0] = state /\ \A n \in 1..N : drained[n] = DrainFill(drained[n - 1], fills[n])
  <2>1. drained = [n \in 0..N |->
                     IF n = 0 THEN state ELSE DrainFill(drained[n - 1], fills[n])]
    BY <1>6
  <2>2. ASSUME NEW n \in 1..N PROVE drained[n] = DrainFill(drained[n - 1], fills[n])
    <3>1. n \in 0..N /\ n # 0
      OBVIOUS
    <3> HIDE DEF N, state
    <3> QED BY <2>1, <3>1
  <2>3. drained[0] = state
    BY <2>1
  <2> QED BY <2>2, <2>3
<1> QED BY <1>7, <1>8 DEF IsDrain

\* What the drain has made of the session m after some of the fills.
DrainedTo(acc, m) ==
    /\ DOMAIN acc = {"events", "mem", "draining"}
    /\ IsSequence(acc.events) /\ MapsWithin(acc.events, Fresh)
    /\ GoodMem(acc.mem) /\ Live(acc.mem)
    /\ acc.mem.reason = m.reason /\ acc.mem.blocked = m.blocked
    /\ acc.mem.behind = m.behind /\ acc.mem.connected = m.connected
    /\ acc.mem.received = m.received
    /\ acc.mem.safety => m.safety \/ HasStop(acc.events)

\* One fill is applied, or it ends the drain with a stop on record.
LEMMA DrainFillSound ==
    ASSUME NEW m, NEW acc, DrainedTo(acc, m), NEW o
    PROVE  DrainedTo(DrainFill(acc, o), m)
<1> DEFINE event == FillEvent(o, acc.mem.lastUpdate + 1)
           result == ApplyOrderUpdate(acc.mem.orders[o], EvidenceOf(event, "FillUpdate"))
           a == SafetyStop(NoId, NoId)
           stopped == [events |-> Append(acc.events, a), mem |-> SafetyStopped(acc.mem),
                       draining |-> FALSE]
           n == [acc.mem EXCEPT !.orders[o] = result.order, !.view[o] = Snapshot(result.order),
                                !.lastUpdate = event.sequence]
           filled == [events |-> Append(acc.events, event), mem |-> n, draining |-> TRUE]
<1>1. DrainFill(acc, o) \in {acc, stopped, filled}
  BY DEF DrainFill, Drained
<1>2. a.type = "safety_stop" /\ a.type \notin Mapping
  BY DEF SafetyStop, Event, Mapping
<1>3. event.type \notin Mapping
  <2> DEFINE u == Event("filled", o, o)
             quantity == broker.orders[o].quantity
             sequence == acc.mem.lastUpdate + 1
  <2>1. u.type = "filled" /\ DOMAIN u = {"type", "intent", "order", "content", "side", "quantity",
                                         "price", "cumulative", "sequence", "authoritative"}
    BY DEF Event
  <2>2. event = [u EXCEPT !.cumulative = quantity, !.sequence = sequence]
    BY DEF FillEvent
  <2> HIDE DEF u, event, quantity, sequence
  <2>3. event.type = "filled"
    BY <2>1, <2>2
  <2> QED BY <2>3 DEF Mapping
<1>4. /\ IsSequence(acc.events) /\ MapsWithin(acc.events, Fresh)
      /\ GoodMem(acc.mem) /\ Live(acc.mem)
      /\ acc.mem.safety => m.safety \/ HasStop(acc.events)
  BY DEF DrainedTo
<1>5. DrainedTo(stopped, m)
  <2> DEFINE e == Append(acc.events, a)
             w == SafetyStopped(acc.mem)
             before == acc.events
             old == acc.mem
  <2>1. IsSequence(before) /\ MapsWithin(before, Fresh) /\ e = Append(before, a)
    BY <1>4
  <2>2. GoodMem(old) /\ w = SafetyStopped(old)
    BY <1>4
  <2>3. stopped.events = e /\ stopped.mem = w /\ DOMAIN stopped = {"events", "mem", "draining"}
    OBVIOUS
  <2> HIDE DEF a, e, w, before, old, stopped
  <2>4. IsSequence(e) /\ MapsWithin(e, Fresh) /\ HasStop(e)
    BY <1>2, <2>1, AppendedRecords
  <2>5. /\ GoodMem(w) /\ Live(w) /\ SameButStopped(old, w) /\ w.reason = old.reason
    BY <2>2, SafetyStoppedIs
  <2> QED BY <2>3, <2>4, <2>5 DEF DrainedTo, SameButStopped, old
<1>6. DrainedTo(filled, m)
  <2> DEFINE e == Append(acc.events, event)
             before == acc.events
             old == acc.mem
             order == result.order
             snapshot == Snapshot(order)
             sequence == event.sequence
  <2>1. IsSequence(before) /\ MapsWithin(before, Fresh) /\ e = Append(before, event)
    BY <1>4
  <2>2. filled.events = e /\ filled.mem = n /\ DOMAIN filled = {"events", "mem", "draining"}
    OBVIOUS
  <2>3. n = [old EXCEPT !.orders[o] = order, !.view[o] = snapshot, !.lastUpdate = sequence]
    OBVIOUS
  <2>4. GoodMem(old) /\ DOMAIN old = MemFields
    BY <1>4 DEF GoodMem
  <2> HIDE DEF event, e, before, old, filled, n, order, snapshot, sequence
  <2>5. IsSequence(e) /\ MapsWithin(e, Fresh) /\ (HasStop(before) => HasStop(e))
    BY <1>3, <2>1, AppendedRecords
  <2>6. /\ DOMAIN n = MemFields /\ n.ready = old.ready /\ n.safety = old.safety
        /\ n.recon = old.recon /\ n.kill = old.kill /\ n.observed = old.observed
        /\ n.blocked = old.blocked /\ n.reason = old.reason /\ n.behind = old.behind
        /\ n.connected = old.connected /\ n.received = old.received
        /\ DOMAIN n.orders = DOMAIN old.orders
    BY <2>3, <2>4 DEF MemFields
  <2>7. GoodMem(n) /\ (Live(old) => Live(n))
    BY <2>4, <2>6 DEF GoodMem, Live
  <2> QED BY <1>4, <2>2, <2>5, <2>6, <2>7 DEF DrainedTo, before, old
<1> HIDE DEF stopped, filled
<1> QED BY <1>1, <1>5, <1>6

\* The whole drain.
LEMMA DrainSound ==
    ASSUME NEW m, NEW events, NEW fills, Len(fills) \in Nat,
           IsSequence(events), MapsWithin(events, Fresh), GoodMem(m), Live(m)
    PROVE  LET acc == Drain(events, m, fills)
           IN  DrainedTo(acc, m) /\ (HasStop(events) => HasStop(acc.events))
<1> DEFINE N == Len(fills)
           P(acc) == DrainedTo(acc, m) /\ (HasStop(events) => HasStop(acc.events))
<1>1. PICK r : IsDrain(r, events, m, fills)
  BY DrainSteps
<1> DEFINE T == {n \in Nat : n \in 0..N => P(r[n])}
           start == [events |-> events, mem |-> m, draining |-> TRUE]
<1>2. 0 \in T
  <2>1. r[0] = start
    BY <1>1 DEF IsDrain
  <2>2. start.events = events /\ start.mem = m /\ DOMAIN start = {"events", "mem", "draining"}
    OBVIOUS
  <2> HIDE DEF start
  <2>3. P(start)
    BY <2>2 DEF DrainedTo
  <2> HIDE DEF P
  <2> QED BY <2>1, <2>3
<1>3. ASSUME NEW n \in T PROVE n + 1 \in T
  <2>1. n \in Nat
    BY <1>3
  <2>2. CASE n + 1 \in 0..N
    <3>1. n \in 0..N /\ n + 1 \in 1..N /\ (n + 1) - 1 = n
      BY <2>1, <2>2
    <3>2. P(r[n])
      <4> HIDE DEF P
      <4> QED BY <1>3, <3>1
    <3> DEFINE acc == r[n]
               o == fills[n + 1]
    <3>3. r[n + 1] = DrainFill(acc, o)
      BY <1>1, <3>1 DEF IsDrain
    <3> HIDE DEF o, acc
    <3>4. DrainedTo(DrainFill(acc, o), m)
      BY <3>2, DrainFillSound DEF acc
    <3>5. HasStop(acc.events) => HasStop(DrainFill(acc, o).events)
      <4> DEFINE event == FillEvent(o, acc.mem.lastUpdate + 1)
                 before == acc.events
      <4>1. DrainFill(acc, o).events \in {before, Append(before, event),
                                          Append(before, SafetyStop(NoId, NoId))}
        BY DEF DrainFill, Drained
      <4>2. IsSequence(before)
        BY <3>2 DEF DrainedTo, acc
      <4> HIDE DEF event, before
      <4> QED BY <4>1, <4>2, AppendedRecords DEF before
    <3>6. P(r[n + 1])
      BY <3>2, <3>3, <3>4, <3>5 DEF acc
    <3> HIDE DEF P
    <3> QED BY <2>1, <3>6
  <2>3. CASE n + 1 \notin 0..N
    <3> HIDE DEF P
    <3> QED BY <2>1, <2>3
  <2> QED BY <2>2, <2>3
<1>4. P(r[N])
  <2> HIDE DEF P
  <2>1. T = Nat
    BY <1>2, <1>3, NatSetInduction
  <2>2. N \in 0..N
    OBVIOUS
  <2> QED BY <2>1, <2>2
<1>5. Drain(events, m, fills) = r[N]
  BY <1>1 DEF IsDrain
<1> QED BY <1>4, <1>5

\* The session as an observation finds it: recorded, perhaps activated, or
\* stopped because there are more fills than reserved updates.
Started(events, m) ==
    /\ IsSequence(events) /\ MapsWithin(events, Fresh)
    /\ GoodMem(m) /\ Live(m) /\ KeepsStops(mem, m)
    /\ m.connected = mem.connected
    /\ StopsOnRecord(events, m)

\* The observation is accepted, and the session is stopped by an overrun,
\* activated, or left as it is.
LEMMA StartedSound ==
    ASSUME Session, phase = "up", NEW overrun \in BOOLEAN
    PROVE  LET accepted == <<Event("market_observation_accepted", NoId, NoId)>>
               seen == [mem EXCEPT !.observed = TRUE]
           IN  /\ overrun => Started(accepted \o StopOnceEvents(seen), StopOnce(seen, "other"))
               /\ MayActivate(seen) =>
                    Started(Append(accepted, Event("session_started", NoId, NoId)),
                            [seen EXCEPT !.ready = TRUE])
               /\ Started(accepted, seen)
<1> DEFINE a == Event("market_observation_accepted", NoId, NoId)
           b == Event("session_started", NoId, NoId)
           accepted == <<a>>
           seen == [mem EXCEPT !.observed = TRUE]
           stops == StopOnceEvents(seen)
           other == "other"
           stopped == StopOnce(seen, other)
           active == [seen EXCEPT !.ready = TRUE]
           e == accepted \o stops
           f == Append(accepted, b)
<1>1. a.type \notin Mapping /\ b.type \notin Mapping
  BY DEF Event, Mapping
<1>2. GoodMem(mem) /\ Live(mem) /\ DOMAIN mem = MemFields
  BY DEF Session, Fits, GoodMem
<1>3. /\ DOMAIN seen = MemFields /\ seen.ready = mem.ready /\ seen.safety = mem.safety
      /\ seen.recon = mem.recon /\ seen.kill = mem.kill /\ seen.observed = TRUE
      /\ seen.blocked = mem.blocked /\ seen.reason = mem.reason /\ seen.behind = mem.behind
      /\ seen.connected = mem.connected /\ seen.received = mem.received
      /\ seen.orders = mem.orders
  BY <1>2 DEF MemFields
<1>4. other \in Reasons \ {"none"}
  BY DEF Reasons
<1> HIDE DEF seen, a, b, other
<1>5. IsSequence(accepted) /\ MapsWithin(accepted, Fresh)
  BY <1>1, FewRecords
<1>6. /\ IsSequence(stops) /\ MapsWithin(stops, Fresh)
      /\ seen.reason = "none" => HasStop(stops)
  BY StopOnceRecords
<1> HIDE DEF accepted, stops
<1>7. IsSequence(e) /\ MapsWithin(e, Fresh) /\ (seen.reason = "none" => HasStop(e))
  BY <1>5, <1>6, JoinedRecords
<1>8. IsSequence(f) /\ MapsWithin(f, Fresh)
  BY <1>1, <1>5, AppendedRecords
<1> HIDE DEF e, f
<1>9. GoodMem(seen) /\ Live(seen)
  BY <1>2, <1>3 DEF GoodMem, Live
<1>10. Started(accepted, seen)
  BY <1>3, <1>5, <1>9 DEF Started, KeepsStops, StopsOnRecord, Marked
<1>11. Started(e, stopped)
  <2>1. /\ GoodMem(stopped) /\ stopped.safety /\ ~stopped.ready
        /\ Live(seen) => Live(stopped)
        /\ SameButStopped(seen, stopped)
        /\ stopped.reason = (IF seen.reason = "none" THEN other ELSE seen.reason)
    BY <1>4, <1>9, StopOnceIs
  <2> HIDE DEF stopped
  <2>2. KeepsStops(mem, stopped)
    BY <1>3, <2>1 DEF KeepsStops, SameButStopped
  <2>3. StopsOnRecord(e, stopped)
    BY <1>2, <1>3, <1>7 DEF StopsOnRecord, Marked, GoodMem
  <2> QED BY <1>3, <1>7, <1>9, <2>1, <2>2, <2>3 DEF Started, SameButStopped
<1>12. MayActivate(seen) => Started(f, active)
  <2> SUFFICES ASSUME MayActivate(seen) PROVE Started(f, active)
    OBVIOUS
  <2>1. /\ DOMAIN active = MemFields /\ active.ready = TRUE /\ active.safety = seen.safety
        /\ active.recon = seen.recon /\ active.kill = seen.kill /\ active.observed = seen.observed
        /\ active.blocked = seen.blocked /\ active.reason = seen.reason
        /\ active.behind = seen.behind /\ active.connected = seen.connected
        /\ active.received = seen.received /\ active.orders = seen.orders
    BY <1>3 DEF MemFields
  <2> HIDE DEF active
  <2>2. GoodMem(active) /\ Live(active)
    BY <1>9, <2>1 DEF GoodMem, Live, MayActivate
  <2> QED BY <1>3, <1>8, <2>1, <2>2 DEF Started, KeepsStops, StopsOnRecord, Marked
<1> QED BY <1>10, <1>11, <1>12 DEF e, f, accepted, stops, seen, a, b, other

\* process_next_market(): the observation, the activation and the fills.
LEMMA ObservedSound ==
    ASSUME Session, phase = "up", mem.connected, slot = EmptySlot,
           NEW crossed \in SUBSET Fillable, NEW fills \in Orderings(crossed)
    PROVE  Sound(Observed(fills))
<1> DEFINE overrun == Len(fills) > PossibleUpdates
           dispatched == IF overrun THEN SubSeq(fills, 1, PossibleUpdates) ELSE fills
           accepted == <<Event("market_observation_accepted", NoId, NoId)>>
           seen == [mem EXCEPT !.observed = TRUE]
           started == IF overrun
                      THEN [events |-> accepted \o StopOnceEvents(seen),
                            mem |-> StopOnce(seen, "other")]
                      ELSE IF MayActivate(seen)
                      THEN [events |-> Append(accepted, Event("session_started", NoId, NoId)),
                            mem |-> [seen EXCEPT !.ready = TRUE]]
                      ELSE [events |-> accepted, mem |-> seen]
           acc == Drain(started.events, started.mem, dispatched)
           orders == [o \in DOMAIN broker.orders |->
                        IF \E k \in DOMAIN fills : fills[k] = o
                        THEN Filled(broker.orders[o]) ELSE broker.orders[o]]
           quiet == Outcome(acc.events, acc.mem, slot)
           out == Observed(fills)
<1>1. out = [quiet EXCEPT !.broker.orders = orders]
  BY DEF Observed, AfterDrain
<1>2. DOMAIN orders = DOMAIN broker.orders
  OBVIOUS
<1> HIDE DEF orders
<1>3. IsSequence(fills) /\ Len(fills) \in Nat
  <2> DEFINE n == Cardinality(crossed)
  <2>1. crossed \subseteq DOMAIN broker.orders
    BY DEF Fillable, WorkingAt
  <2>2. IsFiniteSet(crossed)
    BY <2>1, FS_Subset DEF Session, GoodBroker
  <2>3. n \in Nat
    BY <2>2, FS_CardinalityType
  <2>4. fills \in [1..n -> crossed]
    BY DEF Orderings
  <2> HIDE DEF n
  <2>5. fills \in Seq(crossed) /\ Len(fills) = n
    BY <2>3, <2>4
  <2> QED BY <2>3, <2>5 DEF IsSequence
<1>4. PossibleUpdates \in Nat
  <2> DEFINE S == {o \in DOMAIN mem.orders : mem.orders[o].state \in Working}
  <2>1. S \subseteq DOMAIN mem.orders /\ IsFiniteSet(DOMAIN mem.orders)
    BY DEF Session, GoodMem
  <2> HIDE DEF S
  <2>2. IsFiniteSet(S)
    BY <2>1, FS_Subset
  <2>3. Cardinality(S) \in Nat
    BY <2>2, FS_CardinalityType
  <2> QED BY <2>3 DEF PossibleUpdates, S
<1>5. Len(dispatched) \in Nat
  <2>1. CASE overrun
    <3> DEFINE k == PossibleUpdates
    <3>1. k \in 0..Len(fills) /\ dispatched = SubSeq(fills, 1, k)
      BY <1>3, <1>4, <2>1
    <3> HIDE DEF k, dispatched
    <3> QED BY <1>3, <3>1, Prefixes
  <2>2. CASE ~overrun
    BY <1>3, <2>2
  <2> QED BY <2>1, <2>2
<1>6. overrun \in BOOLEAN
  OBVIOUS
<1> HIDE DEF overrun, dispatched
<1>7. Started(started.events, started.mem)
  BY <1>6, StartedSound
<1> DEFINE e == started.events
           m == started.mem
<1>8. Started(e, m) /\ acc = Drain(e, m, dispatched)
  BY <1>7
<1> HIDE DEF e, m, acc
<1>9. DrainedTo(acc, m) /\ (HasStop(e) => HasStop(acc.events))
  <2>1. IsSequence(e) /\ MapsWithin(e, Fresh) /\ GoodMem(m) /\ Live(m)
    BY <1>8 DEF Started
  <2> QED BY <1>5, <1>8, <2>1, DrainSound
<1> DEFINE g == acc.events
           n == acc.mem
<1>10. IsSequence(g) /\ MapsWithin(g, Fresh) /\ GoodMem(n) /\ Live(n) /\ n.connected
  BY <1>8, <1>9 DEF DrainedTo, Started
<1>11. KeepsStops(mem, n)
  BY <1>8, <1>9 DEF DrainedTo, Started, KeepsStops
<1>12. StopsOnRecord(g, n)
  BY <1>8, <1>9 DEF DrainedTo, Started, StopsOnRecord, Marked
<1>13. GoodSlot(n, slot)
  BY EmptySlotGood
<1>14. Fits(phase, n, slot)
  BY <1>10 DEF Fits
<1>15. quiet = Outcome(g, n, slot)
  OBVIOUS
<1> HIDE DEF g, n, quiet
<1>16. PartsSound(g, n, slot)
  BY <1>10, <1>11, <1>12, <1>13, <1>14 DEF PartsSound
<1>17. slot.intent \in {NoId, slot.intent}
  OBVIOUS
<1>18. Sound(quiet)
  BY <1>15, <1>16, <1>17, QuietSound
<1>19. /\ DOMAIN quiet = OutcomeFields /\ quiet.events = g /\ quiet.mem = n /\ quiet.slot = slot
       /\ quiet.broker = broker /\ quiet.called = {} /\ quiet.before = 0
  BY <1>15 DEF Outcome, OutcomeFields
<1> HIDE DEF out
<1>20. DOMAIN broker = {"health", "orders"}
  BY DEF Session, GoodBroker
<1>21. /\ DOMAIN out = OutcomeFields /\ out.events = g /\ out.mem = n /\ out.slot = slot
       /\ out.called = {} /\ out.before = 0
       /\ DOMAIN out.broker = {"health", "orders"} /\ out.broker.orders = orders
  BY <1>1, <1>19, <1>20 DEF OutcomeFields
<1>22. GoodBroker(out.broker)
  BY <1>2, <1>21 DEF Session, GoodBroker
<1>23. StagesOnRecord(out) /\ CallsStaged(out) /\ PlacesStaged(out)
  BY <1>2, <1>21 DEF StagesOnRecord, CallsStaged, PlacesStaged
<1>24. Sound(out)
  BY <1>16, <1>21, <1>22, <1>23 DEF Sound
<1> QED BY <1>24 DEF out

-----------------------------------------------------------------------------
(* Faults, disconnects, reconnects and the start of a shutdown.            *)

\* stop_once() of a session that serves, and what the handler around it
\* notes about the strategy and about records not collected.
LEMMA StopPartsSound ==
    ASSUME Session, phase = "up", NEW reason \in Reasons \ {"none"}, NEW n, NEW m,
           n = StopOnce(mem, reason),
           DOMAIN m = MemFields, m.ready = n.ready, m.safety = n.safety, m.recon = n.recon,
           m.kill = n.kill, m.observed = n.observed, m.blocked = n.blocked,
           m.reason = n.reason, m.received = n.received, m.orders = n.orders,
           m.behind \in BOOLEAN, m.connected \in BOOLEAN,
           ~m.connected => slot = EmptySlot
    PROVE  /\ PartsSound(StopOnceEvents(mem), m, Revoked(slot))
           /\ Revoked(slot).intent = slot.intent
           /\ slot = EmptySlot => Revoked(slot) = slot
<1>1. GoodMem(mem) /\ Live(mem) /\ GoodSlot(mem, slot)
  BY DEF Session, Fits
<1>2. /\ GoodMem(n) /\ n.safety /\ ~n.ready /\ Live(n) /\ SameButStopped(mem, n)
      /\ n.reason = (IF mem.reason = "none" THEN reason ELSE mem.reason)
  BY <1>1, StopOnceIs
<1>3. GoodMem(m) /\ Live(m) /\ m.safety /\ ~m.ready /\ m.reason # "none"
  BY <1>2 DEF GoodMem, Live
<1> DEFINE e == StopOnceEvents(mem)
           s == Revoked(slot)
<1>4. /\ IsSequence(e) /\ MapsWithin(e, Fresh)
      /\ mem.reason = "none" => HasStop(e)
  BY StopOnceRecords
<1>5. slot \in [intent : Intents \cup {NoId}, current : BOOLEAN]
      /\ (slot.intent = NoId => slot = EmptySlot)
  BY <1>1 DEF GoodSlot
<1>6. /\ s \in [intent : Intents \cup {NoId}, current : BOOLEAN] /\ s.intent = slot.intent
  BY <1>5 DEF Revoked
<1>7. slot = EmptySlot => s = slot
  <2>1. s.current = FALSE
    BY <1>5 DEF Revoked
  <2>2. slot = EmptySlot => slot.current = FALSE
    BY DEF EmptySlot
  <2> HIDE DEF s
  <2> QED BY <1>5, <1>6, <2>1, <2>2
<1> HIDE DEF e, s
<1>8. m.blocked => s.intent \notin Places \cup Modifies
  BY <1>1, <1>2, <1>6 DEF GoodSlot, SameButStopped
<1>9. GoodSlot(m, s)
  BY <1>3, <1>5, <1>6, <1>7, <1>8 DEF GoodSlot
<1>10. KeepsStops(mem, m)
  BY <1>2 DEF KeepsStops, SameButStopped
<1>11. StopsOnRecord(e, m)
  BY <1>1, <1>4 DEF StopsOnRecord, Marked, GoodMem
<1>12. Fits(phase, m, s)
  BY <1>3, <1>7 DEF Fits
<1>13. PartsSound(e, m, s)
  BY <1>3, <1>4, <1>9, <1>10, <1>11, <1>12 DEF PartsSound
<1> QED BY <1>6, <1>7, <1>13 DEF e, s

\* A stale book or a silent market (Fault).
LEMMA FaultSound ==
    ASSUME Session, phase = "up", mem.connected
    PROVE  Sound(Outcome(StopOnceEvents(mem), [StopOnce(mem, "other") EXCEPT !.behind = TRUE],
                         Revoked(slot)))
<1> DEFINE other == "other"
           n == StopOnce(mem, other)
           m == [n EXCEPT !.behind = TRUE]
           e == StopOnceEvents(mem)
           s == Revoked(slot)
<1>1. other \in Reasons \ {"none"}
  BY DEF Reasons
<1> HIDE DEF other, n
<1>2. GoodMem(n) /\ SameButStopped(mem, n)
  BY <1>1, StopOnceIs DEF Session, n
<1>3. /\ DOMAIN m = MemFields /\ m.ready = n.ready /\ m.safety = n.safety /\ m.recon = n.recon
      /\ m.kill = n.kill /\ m.observed = n.observed /\ m.blocked = n.blocked
      /\ m.reason = n.reason /\ m.received = n.received /\ m.orders = n.orders
      /\ m.behind = TRUE /\ m.connected = n.connected
  BY <1>2 DEF MemFields, GoodMem
<1>4. n = StopOnce(mem, other) /\ m.behind \in BOOLEAN /\ m.connected \in BOOLEAN /\ m.connected
  BY <1>2, <1>3 DEF n, GoodMem, SameButStopped
<1> HIDE DEF m
<1>5. PartsSound(e, m, s) /\ s.intent = slot.intent
  BY <1>1, <1>3, <1>4, StopPartsSound
<1> HIDE DEF e, s
<1>6. Sound(Outcome(e, m, s))
  BY <1>5, QuietSound
<1> QED BY <1>6 DEF e, s, m, n, other

\* The strategy disconnects (Disconnect).
LEMMA DisconnectSound ==
    ASSUME Session, phase = "up", slot = EmptySlot
    PROVE  Sound(Outcome(StopOnceEvents(mem),
                         [StopOnce(mem, "strategy") EXCEPT !.connected = FALSE], slot))
<1> DEFINE strategy == "strategy"
           n == StopOnce(mem, strategy)
           m == [n EXCEPT !.connected = FALSE]
           e == StopOnceEvents(mem)
           s == Revoked(slot)
<1>1. strategy \in Reasons \ {"none"}
  BY DEF Reasons
<1> HIDE DEF strategy, n
<1>2. GoodMem(n) /\ SameButStopped(mem, n)
  BY <1>1, StopOnceIs DEF Session, n
<1>3. /\ DOMAIN m = MemFields /\ m.ready = n.ready /\ m.safety = n.safety /\ m.recon = n.recon
      /\ m.kill = n.kill /\ m.observed = n.observed /\ m.blocked = n.blocked
      /\ m.reason = n.reason /\ m.received = n.received /\ m.orders = n.orders
      /\ m.behind = n.behind /\ m.connected = FALSE
  BY <1>2 DEF MemFields, GoodMem
<1>4. n = StopOnce(mem, strategy) /\ m.behind \in BOOLEAN /\ m.connected \in BOOLEAN
  BY <1>2, <1>3 DEF n, GoodMem
<1> HIDE DEF m
<1>5. PartsSound(e, m, s) /\ s = slot
  BY <1>1, <1>3, <1>4, StopPartsSound
<1> HIDE DEF e, s
<1>6. slot.intent \in {NoId, slot.intent} /\ PartsSound(e, m, slot)
  BY <1>5
<1>7. Sound(Outcome(e, m, slot))
  BY <1>6, QuietSound
<1> QED BY <1>7 DEF e, m, n, strategy

\* shutdown() begins (ShutdownBegin).
LEMMA ShutdownBeginSound ==
    ASSUME Session, phase = "up"
    PROVE  Sound(Outcome(StopOnceEvents(mem), [StopOnce(mem, "other") EXCEPT !.behind = FALSE],
                         Revoked(slot)))
<1> DEFINE other == "other"
           n == StopOnce(mem, other)
           m == [n EXCEPT !.behind = FALSE]
           e == StopOnceEvents(mem)
           s == Revoked(slot)
<1>1. other \in Reasons \ {"none"}
  BY DEF Reasons
<1> HIDE DEF other, n
<1>2. GoodMem(n) /\ SameButStopped(mem, n)
  BY <1>1, StopOnceIs DEF Session, n
<1>3. /\ DOMAIN m = MemFields /\ m.ready = n.ready /\ m.safety = n.safety /\ m.recon = n.recon
      /\ m.kill = n.kill /\ m.observed = n.observed /\ m.blocked = n.blocked
      /\ m.reason = n.reason /\ m.received = n.received /\ m.orders = n.orders
      /\ m.behind = FALSE /\ m.connected = n.connected
  BY <1>2 DEF MemFields, GoodMem
<1>4. n = StopOnce(mem, other) /\ m.behind \in BOOLEAN /\ m.connected \in BOOLEAN
  BY <1>2, <1>3 DEF n, GoodMem
<1>5. ~m.connected => slot = EmptySlot
  BY <1>2, <1>3 DEF SameButStopped, Session, Fits
<1> HIDE DEF m
<1>6. PartsSound(e, m, s) /\ s.intent = slot.intent
  BY <1>1, <1>3, <1>4, <1>5, StopPartsSound
<1> HIDE DEF e, s
<1>7. Sound(Outcome(e, m, s))
  BY <1>6, QuietSound
<1> QED BY <1>7 DEF e, s, m, n, other

\* A reconnect restores only a session whose one reason is the strategy, and
\* records a stop if it cannot (Restored).
LEMMA RestoredSound ==
    ASSUME Session, phase = "up", ~mem.connected, NEW fresh \in BOOLEAN
    PROVE  Sound(Restored(fresh))
<1> DEFINE back == [mem EXCEPT !.connected = TRUE]
           clear == [back EXCEPT !.kill = FALSE, !.safety = FALSE, !.recon = FALSE,
                                 !.ready = mem.observed]
           a == Event("reconciliation_completed", NoId, NoId)
           b == Event("session_started", NoId, NoId)
           stop == SafetyStop(NoId, NoId)
           started == IF mem.observed THEN <<b>> ELSE << >>
           e == <<a>> \o started
           f == Append(e, stop)
           one == <<stop>>
           failed == [SafetyStopped(back) EXCEPT !.behind = TRUE]
           cured == [clear EXCEPT !.reason = "none"]
           stale == [SafetyStopped(clear) EXCEPT !.reason = "other"]
           none == << >>
<1>1. Restored(fresh) =
        IF mem.reason # "strategy" THEN Outcome(none, back, slot)
        ELSE IF ~ExactAgreement \/ broker.health # "Ready" THEN Outcome(one, failed, slot)
        ELSE IF fresh THEN Outcome(e, cured, slot)
        ELSE Outcome(f, stale, slot)
  BY DEF Restored
<1>2. /\ a.type \notin Mapping /\ b.type \notin Mapping
      /\ stop.type = "safety_stop" /\ stop.type \notin Mapping
  BY DEF Event, SafetyStop, Mapping
<1> HIDE DEF a, b, stop
<1>3. IsSequence(started) /\ MapsWithin(started, Fresh)
  BY <1>2, FewRecords
<1>4. IsSequence(e) /\ MapsWithin(e, Fresh)
  <2> DEFINE first == <<a>>
  <2>1. IsSequence(first) /\ MapsWithin(first, Fresh)
    BY <1>2, FewRecords
  <2>2. e = first \o started
    OBVIOUS
  <2> HIDE DEF started, first, e
  <2> QED BY <1>3, <2>1, <2>2, JoinedRecords
<1>5. IsSequence(f) /\ MapsWithin(f, Fresh) /\ HasStop(f)
  <2> HIDE DEF e
  <2> QED BY <1>2, <1>4, AppendedRecords
<1>6. IsSequence(one) /\ MapsWithin(one, Fresh) /\ HasStop(one)
  BY <1>2, FewRecords
<1>7. IsSequence(none) /\ MapsWithin(none, Fresh)
  BY FewRecords
<1> HIDE DEF e, f, one, none
<1>8. GoodMem(mem) /\ Live(mem) /\ DOMAIN mem = MemFields /\ slot = EmptySlot
  BY DEF Session, Fits, GoodMem
<1>9. /\ DOMAIN back = MemFields /\ back.ready = mem.ready /\ back.safety = mem.safety
      /\ back.recon = mem.recon /\ back.kill = mem.kill /\ back.observed = mem.observed
      /\ back.blocked = mem.blocked /\ back.reason = mem.reason /\ back.behind = mem.behind
      /\ back.connected = TRUE /\ back.received = mem.received /\ back.orders = mem.orders
  BY <1>8 DEF MemFields
<1> HIDE DEF back
<1>10. /\ DOMAIN clear = MemFields /\ clear.ready = mem.observed /\ clear.safety = FALSE
       /\ clear.recon = FALSE /\ clear.kill = FALSE /\ clear.observed = back.observed
       /\ clear.blocked = back.blocked /\ clear.reason = back.reason
       /\ clear.behind = back.behind /\ clear.connected = back.connected
       /\ clear.received = back.received /\ clear.orders = back.orders
  BY <1>9 DEF MemFields
<1> HIDE DEF clear
<1>11. \A m : GoodSlot(m, slot)
  BY <1>8, EmptySlotGood
<1>12. slot.intent \in {NoId, slot.intent}
  OBVIOUS
<1>13. CASE mem.reason # "strategy"
  <2>1. Restored(fresh) = Outcome(none, back, slot)
    BY <1>1, <1>13
  <2>2. GoodMem(back) /\ Live(back)
    BY <1>8, <1>9 DEF GoodMem, Live
  <2>3. KeepsStops(mem, back) /\ StopsOnRecord(none, back) /\ Fits(phase, back, slot)
    BY <1>9, <2>2 DEF KeepsStops, StopsOnRecord, Marked, Fits
  <2>4. PartsSound(none, back, slot)
    BY <1>7, <1>11, <2>2, <2>3 DEF PartsSound
  <2> QED BY <1>12, <2>1, <2>4, QuietSound
<1>14. CASE mem.reason = "strategy" /\ (~ExactAgreement \/ broker.health # "Ready")
  <2>1. Restored(fresh) = Outcome(one, failed, slot)
    BY <1>1, <1>14
  <2> DEFINE u == SafetyStopped(back)
  <2>2. GoodMem(back)
    BY <1>8, <1>9 DEF GoodMem
  <2>3. /\ GoodMem(u) /\ Live(u) /\ u.safety /\ ~u.ready
        /\ SameButStopped(back, u) /\ u.reason = back.reason
    BY <2>2, SafetyStoppedIs
  <2>4. failed = [u EXCEPT !.behind = TRUE]
    OBVIOUS
  <2> HIDE DEF u, failed
  <2>5. /\ DOMAIN failed = MemFields /\ failed.ready = u.ready /\ failed.safety = u.safety
        /\ failed.recon = u.recon /\ failed.kill = u.kill /\ failed.observed = u.observed
        /\ failed.blocked = u.blocked /\ failed.reason = u.reason /\ failed.behind = TRUE
        /\ failed.connected = u.connected /\ failed.received = u.received
        /\ failed.orders = u.orders
    BY <2>3, <2>4 DEF MemFields, GoodMem
  <2>6. GoodMem(failed) /\ Live(failed)
    BY <2>3, <2>5 DEF GoodMem, Live
  <2>7. KeepsStops(mem, failed) /\ StopsOnRecord(one, failed) /\ Fits(phase, failed, slot)
    BY <1>6, <1>9, <2>3, <2>5, <2>6 DEF KeepsStops, StopsOnRecord, Fits, SameButStopped
  <2>8. PartsSound(one, failed, slot)
    BY <1>6, <1>11, <2>6, <2>7 DEF PartsSound
  <2> QED BY <1>12, <2>1, <2>8, QuietSound
<1>15. CASE mem.reason = "strategy" /\ ~(~ExactAgreement \/ broker.health # "Ready") /\ fresh
  <2>1. Restored(fresh) = Outcome(e, cured, slot)
    BY <1>1, <1>15
  <2>2. /\ DOMAIN cured = MemFields /\ cured.ready = mem.observed /\ cured.safety = FALSE
        /\ cured.recon = FALSE /\ cured.kill = FALSE /\ cured.observed = clear.observed
        /\ cured.blocked = clear.blocked /\ cured.reason = "none"
        /\ cured.behind = clear.behind /\ cured.connected = clear.connected
        /\ cured.received = clear.received /\ cured.orders = clear.orders
    BY <1>10 DEF MemFields
  <2> HIDE DEF cured
  <2>3. GoodMem(cured) /\ Live(cured)
    BY <1>8, <1>9, <1>10, <2>2 DEF GoodMem, Live, Reasons
  <2>4. KeepsStops(mem, cured)
    BY <1>9, <1>10, <1>15, <2>2 DEF KeepsStops
  <2>5. StopsOnRecord(e, cured) /\ Fits(phase, cured, slot)
    BY <1>9, <1>10, <2>2, <2>3 DEF StopsOnRecord, Marked, Fits
  <2>6. PartsSound(e, cured, slot)
    BY <1>4, <1>11, <2>3, <2>4, <2>5 DEF PartsSound
  <2> QED BY <1>12, <2>1, <2>6, QuietSound
<1>16. CASE mem.reason = "strategy" /\ ~(~ExactAgreement \/ broker.health # "Ready") /\ ~fresh
  <2>1. Restored(fresh) = Outcome(f, stale, slot)
    BY <1>1, <1>16
  <2> DEFINE u == SafetyStopped(clear)
  <2>2. u = [clear EXCEPT !.ready = FALSE, !.safety = TRUE, !.recon = TRUE, !.kill = TRUE]
    BY DEF SafetyStopped
  <2>3. stale = [u EXCEPT !.reason = "other"]
    OBVIOUS
  <2> HIDE DEF u, stale
  <2>4. /\ DOMAIN u = MemFields /\ u.ready = FALSE /\ u.safety = TRUE /\ u.recon = TRUE
        /\ u.kill = TRUE /\ u.observed = clear.observed /\ u.blocked = clear.blocked
        /\ u.behind = clear.behind /\ u.connected = clear.connected
        /\ u.received = clear.received /\ u.orders = clear.orders
    BY <1>10, <2>2 DEF MemFields
  <2>5. /\ DOMAIN stale = MemFields /\ stale.ready = FALSE /\ stale.safety = TRUE
        /\ stale.recon = TRUE /\ stale.kill = TRUE /\ stale.observed = u.observed
        /\ stale.blocked = u.blocked /\ stale.reason = "other" /\ stale.behind = u.behind
        /\ stale.connected = u.connected /\ stale.received = u.received
        /\ stale.orders = u.orders
    BY <2>3, <2>4 DEF MemFields
  <2>6. GoodMem(stale) /\ Live(stale)
    BY <1>8, <1>9, <1>10, <2>4, <2>5 DEF GoodMem, Live, Reasons
  <2>7. KeepsStops(mem, stale) /\ StopsOnRecord(f, stale) /\ Fits(phase, stale, slot)
    BY <1>5, <1>9, <1>10, <1>16, <2>4, <2>5, <2>6 DEF KeepsStops, StopsOnRecord, Fits
  <2>8. PartsSound(f, stale, slot)
    BY <1>5, <1>11, <2>6, <2>7 DEF PartsSound
  <2> QED BY <1>12, <2>1, <2>8, QuietSound
<1> QED BY <1>13, <1>14, <1>15, <1>16

-----------------------------------------------------------------------------
(* The invariant that every step keeps.                                    *)

\* The intents whose attempt the ledger must know: called or staged.
Used(i) == attempts[i] > 0 \/ slot.intent = i

\* The intents that were neither called nor staged.
Unused == {i \in AllIntents : ~Used(i)}

\* The ledger replays, and knows every stop the process relies on.
Recorded ==
    /\ GoodReplay(durable) /\ Remembers(durable)
    /\ Marked(mem) \/ phase \in {"draining", "stopping"} => Stopped(durable)

\* An intent that is staged or was called is on record and, while the process
\* lives, received; the call consumes the capability.
Once ==
    \A i \in Intents :
       /\ attempts[i] <= 1
       /\ slot.intent = i => attempts[i] = 0
       /\ Used(i) => OnRecord(durable, i)
       /\ Used(i) /\ phase # "down" => i \in DOMAIN mem.received

\* A shutdown cancel is called once, in a stop that no restart overlooks.
ShutdownOnce ==
    \A o \in Places :
       LET i == ShutdownIntent(o)
       IN  /\ attempts[i] <= 1
           /\ attempts[i] > 0 =>
                /\ OnRecord(durable, i) /\ Stopped(durable)
                /\ phase \in {"stopping", "down"}
                /\ phase = "stopping" => o \notin todo

\* Every order of the broker, and every order a staged place creates there, is
\* in the replayed ledger.
BrokerOnRecord ==
    /\ \A o \in DOMAIN broker.orders : Carries(durable, o)
    /\ slot.intent \in Places => Carries(durable, slot.intent)

\* The inductive invariant.
IInv ==
    /\ Session
    /\ attempts \in [AllIntents -> Nat]
    /\ Recorded /\ Once /\ ShutdownOnce /\ BrokerOnRecord

\* What a record sequence does to the ledger of the invariant.
LedgerKept(t) ==
    /\ GoodReplay(t) /\ Remembers(t)
    /\ Stopped(durable) => Stopped(t)
    /\ \A i \in AllIntents : Used(i) => OnRecord(t, i)
    /\ \A o : Carries(durable, o) => Carries(t, o)

\* The ids of shutdown cancels are no strategy's.
LEMMA ShutdownIntents ==
    /\ \A o \in Places : /\ ShutdownIntent(o) \in AllIntents
                         /\ ShutdownIntent(o) \notin Intents \cup {NoId}
    /\ \A i \in AllIntents : i \in Intents \/ \E o \in Places : i = ShutdownIntent(o)
    /\ \A o, q \in Places : ShutdownIntent(o) = ShutdownIntent(q) => o = q
    /\ Intents \subseteq AllIntents
    /\ Places \subseteq Intents /\ Modifies \subseteq Intents /\ NoId \notin AllIntents
<1>1. \A o \in Places : ShutdownIntent(o) \notin Intents \cup {NoId}
  BY ShutdownAssumption
<1>2. \A o, q \in Places : ShutdownIntent(o) = ShutdownIntent(q) => o = q
  BY DEF ShutdownIntent
<1>3. /\ \A o \in Places : ShutdownIntent(o) \in AllIntents
      /\ \A i \in AllIntents : i \in Intents \/ \E o \in Places : i = ShutdownIntent(o)
      /\ Intents \subseteq AllIntents
  BY DEF AllIntents
<1>4. NoId \notin Intents
  BY IntentsAssumption
<1> QED BY <1>1, <1>2, <1>3, <1>4 DEF Intents

\* What the invariant says of every intent that is used.
LEMMA UsedIntents ==
    ASSUME IInv, NEW i \in AllIntents, Used(i)
    PROVE  OnRecord(durable, i)
<1>1. CASE i \in Intents
  BY <1>1 DEF IInv, Once
<1>2. CASE i \notin Intents
  <2>1. PICK o \in Places : i = ShutdownIntent(o)
    BY <1>2, ShutdownIntents
  <2>2. slot.intent # i
    BY <2>1, ShutdownIntents DEF IInv, Session, GoodSlot
  <2>3. attempts[ShutdownIntent(o)] > 0
    BY <2>1, <2>2 DEF Used
  <2> QED BY <2>1, <2>3 DEF IInv, ShutdownOnce
<1> QED BY <1>1, <1>2

\* The ledger that was is kept.
LEMMA SameLedger ==
    ASSUME IInv
    PROVE  LedgerKept(durable)
BY UsedIntents DEF IInv, Recorded, LedgerKept

\* Records that map no used intent keep what the ledger knows.
LEMMA LedgerGrows ==
    ASSUME IInv, NEW e, Len(e) \in Nat, MapsWithin(e, Unused), NEW t, t = Replay(durable, e)
    PROVE  LedgerKept(t) /\ ReplaySound(durable, e, t)
<1>1. GoodReplay(durable) /\ Remembers(durable)
  BY DEF IInv, Recorded
<1>2. ReplaySound(durable, e, t)
  BY <1>1, ReplayIsSound
<1>3. \A i \in AllIntents : Used(i) => OnRecord(t, i)
  <2> SUFFICES ASSUME NEW i \in AllIntents, Used(i) PROVE OnRecord(t, i)
    OBVIOUS
  <2>1. OnRecord(durable, i)
    BY UsedIntents
  <2>2. NeverMaps(e, i)
    BY DEF NeverMaps, Maps, MapsWithin, Unused
  <2> QED BY <1>2, <2>1, <2>2 DEF ReplaySound
<1>4. Stopped(durable) => Stopped(t)
  BY <1>2 DEF ReplaySound, Follows, Stopped
<1>5. \A o : Carries(durable, o) => Carries(t, o)
  BY <1>2 DEF ReplaySound, Follows, Carries
<1>6. GoodReplay(t) /\ Remembers(t)
  BY <1>1, <1>2 DEF ReplaySound
<1> QED BY <1>2, <1>3, <1>4, <1>5, <1>6 DEF LedgerKept

\* An intent whose place in the invariant is that of a call in this step.
Called(called) ==
    \A i \in called : i \in AllIntents /\ attempts[i] = 0

\* A place or a modify is called in a session with its full authority.
Allowed(called) ==
    \A i \in called \cap (Places \cup Modifies) :
       mem.ready /\ ~mem.kill /\ ~mem.safety /\ ~mem.recon /\ ~mem.blocked

\* OnlyAuthorizedAttempts, ConflictBlocksForever and HardStopIsFinal, of one step.
Lawful ==
    /\ \A i \in Places \cup Modifies : attempts'[i] > attempts[i] =>
         mem.ready /\ ~mem.kill /\ ~mem.safety /\ ~mem.recon
    /\ mem.blocked => \A i \in Places \cup Modifies : attempts'[i] = attempts[i]
    /\ mem.reason = "other" /\ phase' # "down" => ~mem'.ready /\ mem'.reason = "other"

\* Calls are counted, and none is lawful that the session did not authorize.
LEMMA CallsCounted ==
    ASSUME IInv, NEW called, Called(called), Allowed(called), NEW a, a = Attempted(called)
    PROVE  /\ a \in [AllIntents -> Nat]
           /\ \A i \in AllIntents : a[i] = IF i \in called THEN 1 ELSE attempts[i]
           /\ \A i \in Places \cup Modifies : a[i] > attempts[i] =>
                mem.ready /\ ~mem.kill /\ ~mem.safety /\ ~mem.recon
           /\ mem.blocked => \A i \in Places \cup Modifies : a[i] = attempts[i]
<1>1. attempts \in [AllIntents -> Nat]
  BY DEF IInv
<1>2. a \in [AllIntents -> Nat]
      /\ \A i \in AllIntents : a[i] = attempts[i] + IF i \in called THEN 1 ELSE 0
  BY <1>1 DEF Attempted
<1>3. \A i \in AllIntents : attempts[i] \in Nat /\ a[i] = IF i \in called THEN 1 ELSE attempts[i]
  BY <1>1, <1>2 DEF Called
<1>4. Places \cup Modifies \subseteq AllIntents
  BY ShutdownIntents
<1>5. \A i \in Places \cup Modifies : i \notin called => a[i] = attempts[i]
  BY <1>3, <1>4
<1>6. \A i \in Places \cup Modifies : attempts[i] \in Nat
  BY <1>1, <1>4
<1>7. \A i \in Places \cup Modifies : a[i] > attempts[i] => i \in called
  BY <1>5, <1>6
<1> QED BY <1>2, <1>3, <1>5, <1>7 DEF Allowed

\* What a step does to the ledger, the attempts and the stage, whatever it is.
LEMMA StepKeeps ==
    ASSUME IInv, LedgerKept(durable'),
           NEW called, Called(called), Allowed(called), attempts' = Attempted(called),
           Session',
           (Marked(mem) \/ phase \in {"draining", "stopping"})' => Stopped(durable'),
           mem.reason = "other" /\ phase' # "down" => mem'.reason = "other",
           \A i \in called : OnRecord(durable', i) /\ slot'.intent # i,
           \A o \in Places : ShutdownIntent(o) \in called => Stopped(durable),
           \A o \in Places : ShutdownIntent(o) \in called \/ attempts[ShutdownIntent(o)] > 0 =>
              phase' \in {"stopping", "down"} /\ (phase' = "stopping" => o \notin todo'),
           \A i \in Intents : slot'.intent = i => OnRecord(durable', i) /\ attempts[i] = 0,
           \A i \in Intents : phase' # "down" /\ (Used(i) \/ i \in called \/ slot'.intent = i) =>
              i \in DOMAIN mem'.received,
           \A o \in DOMAIN broker'.orders : Carries(durable', o),
           slot'.intent \in Places => Carries(durable', slot'.intent)
    PROVE  IInv' /\ Lawful
<1>1. /\ attempts' \in [AllIntents -> Nat]
      /\ \A i \in AllIntents : attempts'[i] = IF i \in called THEN 1 ELSE attempts[i]
      /\ \A i \in Places \cup Modifies : attempts'[i] > attempts[i] =>
           mem.ready /\ ~mem.kill /\ ~mem.safety /\ ~mem.recon
      /\ mem.blocked => \A i \in Places \cup Modifies : attempts'[i] = attempts[i]
  BY CallsCounted
<1>2. mem.reason = "other" /\ phase' # "down" => ~mem'.ready /\ mem'.reason = "other"
  BY DEF Session, GoodMem
<1>3. Lawful
  BY <1>1, <1>2 DEF Lawful
<1>4. Recorded'
  BY DEF LedgerKept, Recorded
<1>5. Once'
  <2> SUFFICES ASSUME NEW i \in Intents
               PROVE  /\ attempts'[i] <= 1
                      /\ slot'.intent = i => attempts'[i] = 0
                      /\ Used(i)' => OnRecord(durable', i)
                      /\ Used(i)' /\ phase' # "down" => i \in DOMAIN mem'.received
    BY DEF Once
  <2>1. i \in AllIntents
    BY ShutdownIntents
  <2>2. attempts[i] <= 1 /\ (Used(i) => OnRecord(durable', i))
    BY <2>1 DEF IInv, Once, LedgerKept
  <2>3. attempts'[i] <= 1 /\ (slot'.intent = i => attempts'[i] = 0)
    BY <1>1, <2>1, <2>2
  <2>4. Used(i)' => i \in called \/ Used(i) \/ slot'.intent = i
    BY <1>1, <2>1 DEF Used
  <2> QED BY <2>2, <2>3, <2>4
<1>6. ShutdownOnce'
  <2> SUFFICES ASSUME NEW o \in Places, NEW i, i = ShutdownIntent(o)
               PROVE  /\ attempts'[i] <= 1
                      /\ attempts'[i] > 0 =>
                           /\ OnRecord(durable', i) /\ Stopped(durable')
                           /\ phase' \in {"stopping", "down"}
                           /\ phase' = "stopping" => o \notin todo'
    BY DEF ShutdownOnce
  <2>1. i \in AllIntents
    BY ShutdownIntents
  <2>2. /\ attempts[i] <= 1
        /\ attempts[i] > 0 => Stopped(durable) /\ OnRecord(durable', i)
    BY <2>1 DEF IInv, ShutdownOnce, LedgerKept, Used
  <2>3. Stopped(durable) => Stopped(durable')
    BY DEF LedgerKept
  <2>4. attempts'[i] <= 1 /\ (attempts'[i] > 0 => i \in called \/ attempts[i] > 0)
    BY <1>1, <2>1, <2>2
  <2> QED BY <2>2, <2>3, <2>4
<1>7. BrokerOnRecord'
  BY DEF BrokerOnRecord
<1> QED BY <1>1, <1>3, <1>4, <1>5, <1>6, <1>7 DEF IInv

-----------------------------------------------------------------------------
(* How the outcome of a handler is taken.                                  *)

\* A process that ended remembers nothing.
LEMMA NothingRemembered ==
    /\ GoodMem(NoMemory) /\ ~Marked(NoMemory) /\ NoMemory.reason = "none"
    /\ GoodSlot(NoMemory, EmptySlot) /\ Fits("down", NoMemory, EmptySlot)
    /\ GoodBroker(EmptyBroker) /\ DOMAIN EmptyBroker.orders = {}
<1>1. GoodMem(NoMemory) /\ ~Marked(NoMemory) /\ NoMemory.reason = "none"
  <2>1. DOMAIN NoMemory = MemFields
    BY DEF NoMemory, MemFields
  <2>2. DOMAIN NoMemory.orders = {}
    BY DEF NoMemory
  <2>3. IsFiniteSet(DOMAIN NoMemory.orders)
    BY <2>2, FS_EmptySet
  <2> QED BY <2>1, <2>3 DEF NoMemory, GoodMem, Marked, Reasons
<1>2. Fits("down", NoMemory, EmptySlot)
  BY DEF Fits
<1>3. GoodBroker(EmptyBroker) /\ DOMAIN EmptyBroker.orders = {}
  <2>1. DOMAIN EmptyBroker.orders = {} /\ DOMAIN EmptyBroker = {"health", "orders"}
    BY DEF EmptyBroker
  <2>2. IsFiniteSet(DOMAIN EmptyBroker.orders)
    BY <2>1, FS_EmptySet
  <2> QED BY <2>1, <2>2 DEF GoodBroker
<1> QED BY <1>1, <1>2, <1>3, EmptySlotGood

\* A step that ends the process, whatever it called, or that leaves it ended.
LEMMA DownKeeps ==
    ASSUME IInv, LedgerKept(durable'),
           NEW called, Called(called), Allowed(called), attempts' = Attempted(called),
           \A i \in called : OnRecord(durable', i),
           \A o \in Places : ShutdownIntent(o) \in called => Stopped(durable),
           phase' = "down", mem' = NoMemory, slot' = EmptySlot, GoodBroker(broker'),
           \A o \in DOMAIN broker'.orders : Carries(durable', o)
    PROVE  IInv' /\ Lawful
<1>1. Session'
  BY NothingRemembered DEF Session
<1>2. slot'.intent = NoId
  BY EmptySlotGood
<1>3. /\ NoId \notin Places
      /\ \A i \in Intents : slot'.intent # i
      /\ \A i \in called : slot'.intent # i
  BY <1>2, ShutdownIntents DEF Called
<1>4. ~(Marked(mem) \/ phase \in {"draining", "stopping"})'
  BY NothingRemembered
<1>5. \A o \in Places : phase' \in {"stopping", "down"} /\ phase' # "stopping"
  OBVIOUS
<1>6. "down" # "stopping" /\ "down" \notin {"draining", "stopping"} /\ "down" \in {"stopping", "down"}
  OBVIOUS
<1>7. \A o \in Places : ShutdownIntent(o) \in called \/ attempts[ShutdownIntent(o)] > 0 =>
        phase' \in {"stopping", "down"} /\ (phase' = "stopping" => o \notin todo')
  BY <1>6
<1>8. slot'.intent \in Places => Carries(durable', slot'.intent)
  BY <1>2, <1>3
<1>9. /\ (Marked(mem) \/ phase \in {"draining", "stopping"})' => Stopped(durable')
      /\ mem.reason = "other" /\ phase' # "down" => mem'.reason = "other"
  BY <1>4
<1>10. \A i \in called : OnRecord(durable', i) /\ slot'.intent # i
  BY <1>3
<1>11. /\ \A i \in Intents : slot'.intent = i => OnRecord(durable', i) /\ attempts[i] = 0
       /\ \A i \in Intents : phase' # "down" /\ (Used(i) \/ i \in called \/ slot'.intent = i) =>
            i \in DOMAIN mem'.received
  BY <1>3
<1> QED BY <1>1, <1>7, <1>8, <1>9, <1>10, <1>11, StepKeeps

\* The calls of an outcome, and what a crash leaves on record of them.
CallsKept(out) ==
    /\ Called(out.called) /\ Allowed(out.called)
    /\ \A i \in out.called : \A k \in 0..Len(out.events) :
         k >= out.before => OnRecord(Replay(durable, SubSeq(out.events, 1, k)), i)
    /\ \A o \in Places : ShutdownIntent(o) \in out.called => Stopped(durable)

\* A crash after any prefix of a handler's records (CrashDuring).
LEMMA CrashKeeps ==
    ASSUME IInv, NEW out, IsSequence(out.events), out.before \in Nat,
           MapsWithin(out.events, Unused), CallsKept(out), CrashDuring(out)
    PROVE  IInv' /\ Lawful
<1>1. PICK k \in 0..Len(out.events), called \in SUBSET out.called :
        /\ k < out.before => called = {}
        /\ durable' = Replay(durable, SubSeq(out.events, 1, k))
        /\ attempts' = Attempted(called)
  BY DEF CrashDuring
<1>2. phase' = "down" /\ mem' = NoMemory /\ slot' = EmptySlot /\ broker' = EmptyBroker
  BY DEF CrashDuring
<1> DEFINE e == SubSeq(out.events, 1, k)
<1>3. Len(e) \in Nat /\ MapsWithin(e, Unused)
  BY CutRecords
<1>4. durable' = Replay(durable, e)
  BY <1>1
<1> HIDE DEF e
<1>5. LedgerKept(durable')
  BY <1>3, <1>4, LedgerGrows
<1>6. Len(out.events) \in Nat
  BY AppendedSequences
<1>7. \A i \in called : OnRecord(durable', i)
  <2> SUFFICES ASSUME NEW i \in called PROVE OnRecord(durable', i)
    OBVIOUS
  <2>1. k \in Nat /\ ~(k < out.before)
    BY <1>1, <1>6
  <2>2. k >= out.before
    BY <2>1
  <2>3. OnRecord(Replay(durable, SubSeq(out.events, 1, k)), i)
    BY <2>2 DEF CallsKept
  <2> QED BY <1>1, <2>3
<1>8. Called(called) /\ Allowed(called)
  BY DEF CallsKept, Called, Allowed
<1>9. \A o \in Places : ShutdownIntent(o) \in called => Stopped(durable)
  BY DEF CallsKept
<1>10. GoodBroker(broker') /\ \A o \in DOMAIN broker'.orders : Carries(durable', o)
  BY <1>2, NothingRemembered
<1> QED BY <1>1, <1>2, <1>5, <1>7, <1>8, <1>9, <1>10, DownKeeps

\* What the session has not received was neither staged nor called.
LEMMA FreshIsUnused ==
    ASSUME IInv, phase # "down"
    PROVE  Fresh \subseteq Unused
<1> SUFFICES ASSUME NEW i \in Fresh PROVE i \in Unused
  OBVIOUS
<1>1. i \in Intents /\ i \in AllIntents /\ i \notin DOMAIN mem.received
  BY ShutdownIntents DEF Fresh
<1>2. ~Used(i)
  BY <1>1 DEF IInv, Once
<1> QED BY <1>1, <1>2 DEF Unused

\* The handlers of a session that serves or drains: their calls are of staged
\* capabilities, and what they map was not used before.
LEMMA SoundKept ==
    ASSUME IInv, phase \in {"up", "draining"}, NEW out, Sound(out)
    PROVE  CallsKept(out) /\ MapsWithin(out.events, Unused)
<1>1. MapsWithin(out.events, Unused) /\ IsSequence(out.events)
  <2>1. MapsWithin(out.events, Fresh) /\ Fresh \subseteq Unused /\ IsSequence(out.events)
    BY FreshIsUnused DEF Sound, PartsSound
  <2> QED BY <2>1 DEF MapsWithin
<1>2. \A i \in out.called : slot.intent = i /\ i \in Intents /\ i \in AllIntents
  BY ShutdownIntents DEF Sound, CallsStaged
<1>3. Called(out.called)
  BY <1>2 DEF Called, IInv, Once
<1>4. Allowed(out.called)
  <2> SUFFICES ASSUME NEW i \in out.called, i \in Places \cup Modifies
               PROVE  mem.ready /\ ~mem.kill /\ ~mem.safety /\ ~mem.recon /\ ~mem.blocked
    BY DEF Allowed
  <2>1. mem.ready
    BY IntentsAssumption DEF Sound, CallsStaged
  <2>2. ~mem.safety /\ ~mem.kill /\ ~mem.recon
    BY <2>1 DEF IInv, Session, GoodMem, Fits, Live
  <2>3. ~mem.blocked
    BY <1>2 DEF IInv, Session, GoodSlot
  <2> QED BY <2>1, <2>2, <2>3
<1>5. ASSUME NEW i \in out.called, NEW k \in 0..Len(out.events)
      PROVE  OnRecord(Replay(durable, SubSeq(out.events, 1, k)), i)
  <2> DEFINE e == SubSeq(out.events, 1, k)
  <2>1. Len(e) \in Nat /\ MapsWithin(e, Unused)
    BY <1>1, CutRecords
  <2> HIDE DEF e
  <2>2. LedgerKept(Replay(durable, e))
    BY <2>1, LedgerGrows
  <2>3. Used(i) /\ i \in AllIntents
    BY <1>2, <1>5 DEF Used
  <2>4. OnRecord(Replay(durable, e), i)
    BY <2>2, <2>3 DEF LedgerKept
  <2> QED BY <2>4 DEF e
<1>6. \A o \in Places : ShutdownIntent(o) \notin out.called
  BY <1>2, ShutdownIntents
<1> QED BY <1>1, <1>3, <1>4, <1>5, <1>6 DEF CallsKept

\* The whole handler (Finish), in a session that serves, drains or begins to.
LEMMA FinishKeeps ==
    ASSUME IInv, phase \in {"up", "draining"}, NEW out, Sound(out), Finish(out),
           phase' \in {phase, "draining"},
           phase' # phase => Stopped(durable) \/ HasStop(out.events)
    PROVE  IInv' /\ Lawful
<1> DEFINE called == out.called
<1>1. /\ durable' = Replay(durable, out.events) /\ mem' = out.mem /\ slot' = out.slot
      /\ broker' = out.broker /\ attempts' = Attempted(called)
  BY DEF Finish
<1>2. CallsKept(out) /\ MapsWithin(out.events, Unused)
  BY SoundKept
<1>3. /\ IsSequence(out.events) /\ Len(out.events) \in Nat
      /\ GoodMem(mem') /\ GoodSlot(mem', slot') /\ GoodBroker(broker')
      /\ Fits(phase, mem', slot') /\ KeepsStops(mem, mem')
      /\ StopsOnRecord(out.events, mem')
  BY <1>1, AppendedSequences DEF Sound, PartsSound
<1>4. LedgerKept(durable') /\ ReplaySound(durable, out.events, durable')
  BY <1>1, <1>2, <1>3, LedgerGrows
<1>5. Session'
  <2>1. Fits(phase', mem', slot')
    BY <1>3 DEF Fits
  <2>2. phase' \in {"down", "up", "draining", "stopping"}
    OBVIOUS
  <2> QED BY <1>3, <2>1, <2>2 DEF Session
<1>6. (Marked(mem) \/ phase \in {"draining", "stopping"})' => Stopped(durable')
  <2>1. Stopped(durable) \/ HasStop(out.events) => Stopped(durable')
    BY <1>4 DEF LedgerKept, ReplaySound
  <2>2. Marked(mem) \/ phase = "draining" => Stopped(durable)
    BY DEF IInv, Recorded
  <2>3. Marked(mem') => Stopped(durable')
    BY <1>3, <2>1, <2>2 DEF StopsOnRecord
  <2> QED BY <2>1, <2>2, <2>3
<1>7. mem.reason = "other" /\ phase' # "down" => mem'.reason = "other"
  BY <1>3 DEF KeepsStops
<1>8. \A i \in called : slot.intent = i /\ i \in Intents /\ slot' = EmptySlot /\ i \in AllIntents
  BY <1>1, ShutdownIntents DEF Sound, CallsStaged
<1>9. \A i \in called : OnRecord(durable', i) /\ slot'.intent # i
  <2> SUFFICES ASSUME NEW i \in called PROVE OnRecord(durable', i) /\ slot'.intent # i
    OBVIOUS
  <2>1. Used(i) /\ i \in AllIntents /\ slot'.intent = NoId /\ i # NoId
    BY <1>8, EmptySlotGood, ShutdownIntents DEF Used
  <2> QED BY <1>4, <2>1 DEF LedgerKept
<1>10. \A o \in Places : ShutdownIntent(o) \notin called /\ ~(attempts[ShutdownIntent(o)] > 0)
  BY <1>8, ShutdownIntents DEF IInv, ShutdownOnce
<1>11. \A i \in Intents : slot'.intent = i /\ slot.intent # i =>
         /\ i \in Fresh /\ i \in DOMAIN mem'.received
         /\ OnRecord(durable', i) /\ (i \in Places => Carries(durable', i))
  <2> SUFFICES ASSUME NEW i \in Intents, slot'.intent = i, slot.intent # i
               PROVE  /\ i \in Fresh /\ i \in DOMAIN mem'.received
                      /\ OnRecord(durable', i) /\ (i \in Places => Carries(durable', i))
    OBVIOUS
  <2>1. i # NoId
    BY ShutdownIntents
  <2>2. /\ i \in Fresh /\ i \in DOMAIN mem'.received
        /\ Requests(out.events, i) /\ (i \in Places => Submits(out.events, i))
    BY <1>1, <2>1 DEF Sound, StagesOnRecord
  <2> QED BY <1>4, <2>1, <2>2 DEF ReplaySound
<1>12. \A i \in Intents : slot'.intent = i => OnRecord(durable', i) /\ attempts[i] = 0
  <2> SUFFICES ASSUME NEW i \in Intents, slot'.intent = i
               PROVE  OnRecord(durable', i) /\ attempts[i] = 0
    OBVIOUS
  <2>1. i \in AllIntents /\ attempts[i] \in Nat
    BY ShutdownIntents DEF IInv
  <2>2. CASE slot.intent = i
    BY <1>4, <2>1, <2>2 DEF IInv, Once, Used, LedgerKept
  <2>3. CASE slot.intent # i
    <3>1. i \in Unused /\ OnRecord(durable', i)
      BY <1>11, <2>3, FreshIsUnused
    <3> QED BY <2>1, <3>1 DEF Unused, Used
  <2> QED BY <2>2, <2>3
<1>13. \A i \in Intents : phase' # "down" /\ (Used(i) \/ i \in called \/ slot'.intent = i) =>
         i \in DOMAIN mem'.received
  <2> SUFFICES ASSUME NEW i \in Intents, Used(i) \/ i \in called \/ slot'.intent = i
               PROVE  i \in DOMAIN mem'.received
    OBVIOUS
  <2>1. CASE Used(i)
    <3>1. i \in DOMAIN mem.received
      BY <2>1 DEF IInv, Once
    <3> QED BY <1>3, <3>1 DEF KeepsStops
  <2>2. CASE ~Used(i)
    <3>1. slot'.intent = i /\ slot.intent # i
      BY <1>8, <2>2 DEF Used
    <3> QED BY <1>11, <3>1
  <2> QED BY <2>1, <2>2
<1>14. \A o \in DOMAIN broker'.orders : Carries(durable', o)
  <2> SUFFICES ASSUME NEW o \in DOMAIN broker'.orders PROVE Carries(durable, o)
    BY <1>4 DEF LedgerKept
  <2>1. o \notin DOMAIN broker.orders => o \in Places /\ o = slot.intent
    BY <1>1 DEF Sound, PlacesStaged
  <2> QED BY <2>1 DEF IInv, BrokerOnRecord
<1>15. slot'.intent \in Places => Carries(durable', slot'.intent)
  <2>1. slot'.intent \in Places /\ slot'.intent # slot.intent => Carries(durable', slot'.intent)
    BY <1>11, ShutdownIntents
  <2>2. slot.intent \in Places => Carries(durable', slot.intent)
    BY <1>4 DEF IInv, BrokerOnRecord, LedgerKept
  <2> QED BY <2>1, <2>2
<1>16. Called(called) /\ Allowed(called)
  BY <1>2 DEF CallsKept
<1> HIDE DEF called
<1> QED BY <1>1, <1>4, <1>5, <1>6, <1>7, <1>9, <1>10, <1>12, <1>13, <1>14, <1>15, <1>16, StepKeeps

\* A handler that changes no phase (Run).
LEMMA RunKeeps ==
    ASSUME IInv, phase \in {"up", "draining"}, NEW out, Sound(out), Run(out)
    PROVE  IInv' /\ Lawful
<1>1. CASE CrashDuring(out)
  <2>1. CallsKept(out) /\ MapsWithin(out.events, Unused)
    BY SoundKept
  <2>2. IsSequence(out.events) /\ out.before \in Nat
    BY DEF Sound, PartsSound
  <2> QED BY <1>1, <2>1, <2>2, CrashKeeps
<1>2. CASE Finish(out) /\ phase' = phase
  BY <1>2, FinishKeeps
<1> QED BY <1>1, <1>2 DEF Run

\* A handler whose records are collected, or refused to the strategy
\* (RunCollected).
LEMMA RunCollectedKeeps ==
    ASSUME IInv, phase \in {"up", "draining"}, NEW out, Sound(out), RunCollected(out)
    PROVE  IInv' /\ Lawful
<1> DEFINE refused == mem.behind /\ out.events # << >>
           m == [out.mem EXCEPT !.behind = out.mem.behind /\ ~refused]
           c == [out EXCEPT !.mem.behind = @ /\ ~refused]
<1>1. CASE CrashDuring(out)
  <2>1. CallsKept(out) /\ MapsWithin(out.events, Unused)
    BY SoundKept
  <2>2. IsSequence(out.events) /\ out.before \in Nat
    BY DEF Sound, PartsSound
  <2> QED BY <1>1, <2>1, <2>2, CrashKeeps
<1>2. CASE Finish(c) /\ phase' = IF refused THEN "draining" ELSE phase
  <2>1. DOMAIN out = OutcomeFields /\ GoodMem(out.mem) /\ DOMAIN out.mem = MemFields
    BY DEF Sound, PartsSound, GoodMem
  <2>2. /\ DOMAIN c = OutcomeFields /\ c.mem = m /\ c.events = out.events /\ c.slot = out.slot
        /\ c.broker = out.broker /\ c.called = out.called /\ c.before = out.before
    BY <2>1 DEF OutcomeFields
  <2>3. refused \in BOOLEAN
    OBVIOUS
  <2>4. (out.mem.behind /\ ~refused) \in BOOLEAN
    OBVIOUS
  <2>5. /\ DOMAIN m = MemFields /\ m.ready = out.mem.ready /\ m.safety = out.mem.safety
        /\ m.recon = out.mem.recon /\ m.kill = out.mem.kill /\ m.observed = out.mem.observed
        /\ m.blocked = out.mem.blocked /\ m.reason = out.mem.reason
        /\ m.connected = out.mem.connected
        /\ m.received = out.mem.received /\ m.orders = out.mem.orders
    BY <2>1 DEF MemFields
  <2>6. m.behind \in BOOLEAN /\ (m.behind => out.mem.behind)
    BY <2>1, <2>4 DEF MemFields
  <2>7. refused => Marked(mem)
    BY DEF Marked
  <2>8. phase' \in {phase, "draining"} /\ (phase' # phase => refused)
    BY <1>2
  <2>9. Finish(c)
    BY <1>2
  <2> HIDE DEF m, c, refused
  <2>10. GoodMem(m)
    BY <2>1, <2>5, <2>6 DEF GoodMem
  <2>11. PartsSound(c.events, c.mem, c.slot)
    BY <2>2, <2>5, <2>6, <2>10
       DEF Sound, PartsSound, GoodSlot, Fits, Live, KeepsStops, StopsOnRecord, Marked, NoMemory
  <2>12. Sound(c)
    BY <2>2, <2>5, <2>11 DEF Sound, StagesOnRecord, CallsStaged, PlacesStaged
  <2>13. phase' # phase => Stopped(durable)
    BY <2>7, <2>8 DEF IInv, Recorded
  <2> QED BY <2>8, <2>9, <2>12, <2>13, FinishKeeps
<1> QED BY <1>1, <1>2 DEF RunCollected

-----------------------------------------------------------------------------
(* One lemma for each action that is not just a Sound outcome.             *)

\* No call is no attempt.
LEMMA NoCall ==
    ASSUME IInv
    PROVE  attempts = Attempted({}) /\ Called({}) /\ Allowed({})
<1>1. attempts \in [AllIntents -> Nat]
  BY DEF IInv
<1>2. Attempted({}) = [i \in AllIntents |-> attempts[i] + 0]
  BY DEF Attempted
<1>3. \A i \in AllIntents : attempts[i] + 0 = attempts[i]
  BY <1>1
<1>4. attempts = Attempted({})
  BY <1>1, <1>2, <1>3
<1> QED BY <1>4 DEF Called, Allowed

\* An outcome as it is built, which calls nothing.
LEMMA OutcomeIs ==
    ASSUME NEW e, NEW m, NEW s, NEW out, out = Outcome(e, m, s)
    PROVE  /\ DOMAIN out = OutcomeFields
           /\ out.events = e /\ out.mem = m /\ out.slot = s /\ out.broker = broker
           /\ out.called = {} /\ out.before = 0 /\ out.before \in Nat
           /\ CallsKept(out)
<1>1. /\ DOMAIN out = OutcomeFields
      /\ out.events = e /\ out.mem = m /\ out.slot = s /\ out.broker = broker
      /\ out.called = {} /\ out.before = 0
  BY DEF Outcome, OutcomeFields
<1> QED BY <1>1 DEF CallsKept, Called, Allowed

\* A record that maps nothing.
LEMMA OneRecord ==
    ASSUME NEW a, a.type \notin Mapping, NEW e, e = <<a>>
    PROVE  /\ IsSequence(e) /\ Len(e) \in Nat
           /\ \A S : MapsWithin(e, S)
BY FewRecords, AppendedSequences

\* A step that leaves everything as it is.
LEMMA StutterKeeps ==
    ASSUME IInv, UNCHANGED vars
    PROVE  IInv' /\ Lawful
<1>1. IInv'
  BY DEF vars, IInv, Session, Recorded, Once, ShutdownOnce, BrokerOnRecord, Used
<1>2. \A i \in Places \cup Modifies : attempts[i] \in Nat /\ attempts'[i] = attempts[i]
  BY ShutdownIntents DEF vars, IInv
<1>3. \A i \in Places \cup Modifies : ~(attempts'[i] > attempts[i])
  BY <1>2
<1>4. mem.reason = "other" => ~mem'.ready /\ mem'.reason = "other"
  BY DEF vars, IInv, Session, GoodMem
<1> QED BY <1>1, <1>2, <1>3, <1>4 DEF Lawful

\* serve() begins: a session of what is on record (Launch).
LEMMA LaunchKeeps ==
    ASSUME IInv, Launch
    PROVE  IInv' /\ Lawful
<1> DEFINE a == Event("reconciliation_completed", NoId, NoId)
           e == <<a>>
           snapshots == [o \in DOMAIN durable.orders |-> Snapshot(durable.orders[o])]
           received == [i \in DOMAIN durable.intents |-> durable.intents[i].content]
           m == [NoMemory EXCEPT !.received = received, !.orders = durable.orders,
                                 !.view = snapshots, !.lastUpdate = durable.lastUpdate]
           b == [health |-> "Ready", orders |-> snapshots]
           quiet == Outcome(e, m, EmptySlot)
           out == Recovered
           none == {}
<1>1. out = [quiet EXCEPT !.broker = b]
  BY DEF Recovered
<1>2. a.type \notin Mapping
  BY DEF Event, Mapping
<1>3. DOMAIN snapshots = DOMAIN durable.orders /\ DOMAIN received = DOMAIN durable.intents
  OBVIOUS
<1> HIDE DEF a, snapshots, received
<1>4. IsSequence(e) /\ Len(e) \in Nat /\ \A S : MapsWithin(e, S)
  BY <1>2, OneRecord
<1>5. DOMAIN b = {"health", "orders"} /\ b.orders = snapshots
  OBVIOUS
<1>6. DOMAIN NoMemory = MemFields
  BY NothingRemembered DEF GoodMem
<1>7. /\ DOMAIN m = MemFields /\ m.ready = NoMemory.ready /\ m.safety = NoMemory.safety
      /\ m.recon = NoMemory.recon /\ m.kill = NoMemory.kill /\ m.observed = NoMemory.observed
      /\ m.blocked = NoMemory.blocked /\ m.reason = NoMemory.reason
      /\ m.behind = NoMemory.behind /\ m.connected = NoMemory.connected
      /\ m.received = received /\ m.orders = durable.orders
  BY <1>6 DEF MemFields
<1> HIDE DEF e, m, b, quiet, out, none
<1>8. /\ DOMAIN quiet = OutcomeFields /\ quiet.events = e /\ quiet.mem = m
      /\ quiet.slot = EmptySlot /\ quiet.called = {} /\ quiet.before = 0
  BY OutcomeIs DEF quiet
<1>9. /\ out.events = e /\ out.mem = m /\ out.slot = EmptySlot /\ out.broker = b
      /\ out.called = {} /\ out.before = 0
  BY <1>1, <1>8 DEF OutcomeFields
<1>10. CallsKept(out)
  BY <1>9 DEF CallsKept, Called, Allowed
<1>11. CASE CrashDuring(out)
  <2>1. IsSequence(out.events) /\ MapsWithin(out.events, Unused) /\ out.before \in Nat
    BY <1>4, <1>9
  <2> QED BY <1>10, <1>11, <2>1, CrashKeeps
<1>12. CASE Finish(out) /\ phase' = "up"
  <2>1. /\ durable' = Replay(durable, e) /\ mem' = m /\ slot' = EmptySlot
        /\ broker' = b /\ attempts' = Attempted(none)
    BY <1>9, <1>12 DEF Finish, none
  <2>2. LedgerKept(durable')
    BY <1>4, <2>1, LedgerGrows
  <2>3. ~Stopped(durable) /\ ~durable.faulty /\ IsFiniteSet(DOMAIN durable.orders)
    BY DEF Launch, LedgerRefused, StartupAuthority, Stopped, IInv, Recorded, GoodReplay
  <2>4. phase = "down" /\ mem = NoMemory
    BY DEF Launch, IInv, Session, Fits
  <2>5. GoodMem(m) /\ Live(m) /\ ~Marked(m) /\ m.connected = TRUE
    BY <1>7, <2>3, NothingRemembered DEF GoodMem, Live, Marked, NoMemory
  <2>6. GoodBroker(b)
    BY <1>3, <1>5, <2>3 DEF GoodBroker
  <2>7. Session'
    BY <1>12, <2>1, <2>5, <2>6, EmptySlotGood DEF Session, Fits
  <2>8. (Marked(mem) \/ phase \in {"draining", "stopping"})' => Stopped(durable')
    BY <1>12, <2>1, <2>5
  <2>9. \A o \in Places : ~(attempts[ShutdownIntent(o)] > 0)
    BY <2>3 DEF IInv, ShutdownOnce
  <2>10. slot'.intent = NoId /\ NoId \notin Intents \cup Places
    BY <2>1, EmptySlotGood, ShutdownIntents
  <2>11. \A i \in Intents : Used(i) => i \in DOMAIN mem'.received
    <3> SUFFICES ASSUME NEW i \in Intents, Used(i) PROVE i \in DOMAIN durable.intents
      BY <1>3, <1>7, <2>1
    <3>1. OnRecord(durable, i)
      BY DEF IInv, Once
    <3> QED BY <2>3, <3>1 DEF OnRecord, Decided
  <2>12. \A o \in DOMAIN broker'.orders : Carries(durable', o)
    <3>1. \A o \in DOMAIN broker'.orders : Carries(durable, o)
      BY <1>3, <1>5, <2>1 DEF Carries
    <3> QED BY <2>2, <3>1 DEF LedgerKept
  <2>13. none = {} /\ Called(none) /\ Allowed(none)
    BY NoCall DEF none
  <2>14. mem.reason # "other"
    BY <2>4, NothingRemembered
  <2> QED BY <2>1, <2>2, <2>7, <2>8, <2>9, <2>10, <2>11, <2>12, <2>13, <2>14, StepKeeps
<1> QED BY <1>11, <1>12 DEF Launch, out

\* The process ends, or stays ended, without a call; the broker's orders are
\* at most those it had.
LEMMA EndKeeps ==
    ASSUME IInv, LedgerKept(durable'), attempts' = Attempted({}),
           phase' = "down", mem' = NoMemory, slot' = EmptySlot, GoodBroker(broker'),
           DOMAIN broker'.orders \subseteq DOMAIN broker.orders
    PROVE  IInv' /\ Lawful
<1> DEFINE none == {}
<1>1. \A o \in DOMAIN broker'.orders : Carries(durable', o)
  BY DEF LedgerKept, IInv, BrokerOnRecord
<1>2. none = {} /\ Called(none) /\ Allowed(none) /\ attempts' = Attempted(none)
  BY NoCall
<1> HIDE DEF none
<1> QED BY <1>1, <1>2, DownKeeps

\* preflight() refuses and records that it did (LaunchRefused).
LEMMA LaunchRefusedKeeps ==
    ASSUME IInv, LaunchRefused
    PROVE  IInv' /\ Lawful
<1> DEFINE a == SafetyStop(NoId, NoId)
           e == <<a>>
           out == Outcome(e, mem, slot)
<1>1. a.type \notin Mapping
  BY DEF SafetyStop, Event, Mapping
<1> HIDE DEF a
<1>2. IsSequence(e) /\ Len(e) \in Nat /\ \A S : MapsWithin(e, S)
  BY <1>1, OneRecord
<1>3. phase = "down" /\ mem = NoMemory /\ slot = EmptySlot
  BY DEF LaunchRefused, IInv, Session, Fits
<1>4. Run(out)
  BY DEF LaunchRefused, a
<1> HIDE DEF e, out
<1>5. /\ out.events = e /\ out.mem = mem /\ out.slot = slot /\ out.broker = broker
      /\ out.called = {} /\ out.before \in Nat /\ CallsKept(out)
  BY OutcomeIs DEF out
<1>6. CASE CrashDuring(out)
  BY <1>2, <1>5, <1>6, CrashKeeps
<1>7. CASE Finish(out) /\ UNCHANGED phase
  <2>1. /\ durable' = Replay(durable, e) /\ mem' = NoMemory /\ slot' = EmptySlot
        /\ broker' = broker /\ attempts' = Attempted({}) /\ phase' = "down"
    BY <1>3, <1>5, <1>7 DEF Finish
  <2>2. LedgerKept(durable')
    BY <1>2, <2>1, LedgerGrows
  <2>3. GoodBroker(broker')
    BY <2>1 DEF IInv, Session
  <2> QED BY <2>1, <2>2, <2>3, EndKeeps
<1> QED BY <1>4, <1>6, <1>7 DEF Run

\* The offline repair adds its incident (Repair).
LEMMA RepairKeeps ==
    ASSUME IInv, Repair
    PROVE  IInv' /\ Lawful
<1> DEFINE a == Event("ledger_repair_recorded", NoId, NoId)
           e == <<a>>
<1>1. a.type \notin Mapping
  BY DEF Event, Mapping
<1>2. durable' = Replay(durable, e)
  BY DEF Repair
<1> HIDE DEF a
<1>3. Len(e) \in Nat /\ \A S : MapsWithin(e, S)
  BY <1>1, OneRecord
<1> HIDE DEF e
<1>4. LedgerKept(durable')
  BY <1>2, <1>3, LedgerGrows
<1>5. /\ phase' = "down" /\ mem' = NoMemory /\ slot' = EmptySlot
      /\ broker' = broker /\ attempts' = Attempted({}) /\ GoodBroker(broker')
  BY NoCall DEF Repair, IInv, Session, Fits
<1> QED BY <1>4, <1>5, EndKeeps

\* shutdown() misses its deadline before stop() (ShutdownTimeout).
LEMMA ShutdownTimeoutKeeps ==
    ASSUME IInv, ShutdownTimeout
    PROVE  IInv' /\ Lawful
<1>1. LedgerKept(durable')
  BY SameLedger DEF ShutdownTimeout
<1>2. /\ phase' = "down" /\ mem' = NoMemory /\ slot' = EmptySlot
      /\ attempts' = Attempted({}) /\ broker' = EmptyBroker
  BY NoCall DEF ShutdownTimeout
<1>3. GoodBroker(broker') /\ DOMAIN broker'.orders \subseteq DOMAIN broker.orders
  BY <1>2, NothingRemembered
<1> QED BY <1>1, <1>2, <1>3, EndKeeps

\* stop() has accounted for every order (StopEnd).
LEMMA StopEndKeeps ==
    ASSUME IInv, StopEnd
    PROVE  IInv' /\ Lawful
<1>1. PICK inTime \in BOOLEAN :
        LET ended == Outcome(StopRecords(inTime), NoMemory, EmptySlot)
        IN  \/ /\ Finish([ended EXCEPT !.broker = EmptyBroker])
               /\ phase' = "down"
            \/ CrashDuring(ended)
  BY DEF StopEnd
<1> DEFINE stop == SafetyStop(NoId, NoId)
           last == Event("session_stopped", NoId, NoId)
           first == IF inTime /\ broker.health # "Ready" THEN <<stop>> ELSE << >>
           final == <<last>>
           e == StopRecords(inTime)
           ended == Outcome(e, NoMemory, EmptySlot)
           out == [ended EXCEPT !.broker = EmptyBroker]
<1>2. (Finish(out) /\ phase' = "down") \/ CrashDuring(ended)
  BY <1>1
<1>3. stop.type \notin Mapping /\ last.type \notin Mapping
  BY DEF SafetyStop, Event, Mapping
<1>4. e = first \o final
  BY DEF StopRecords
<1> HIDE DEF stop, last, e
<1>5. IsSequence(first) /\ \A S : MapsWithin(first, S)
  BY <1>3, FewRecords
<1>6. IsSequence(final) /\ \A S : MapsWithin(final, S)
  BY <1>3, FewRecords
<1> HIDE DEF first, final
<1>7. IsSequence(e) /\ (\A S : MapsWithin(e, S)) /\ Len(e) \in Nat
  BY <1>4, <1>5, <1>6, JoinedRecords, AppendedSequences
<1> HIDE DEF ended
<1>8. /\ DOMAIN ended = OutcomeFields /\ ended.events = e /\ ended.mem = NoMemory
      /\ ended.slot = EmptySlot /\ ended.called = {} /\ ended.before \in Nat /\ CallsKept(ended)
  BY OutcomeIs DEF ended
<1>9. CASE CrashDuring(ended)
  BY <1>7, <1>8, <1>9, CrashKeeps
<1>10. CASE Finish(out) /\ phase' = "down"
  <2>1. /\ out.events = e /\ out.mem = NoMemory /\ out.slot = EmptySlot
        /\ out.called = {} /\ out.broker = EmptyBroker
    BY <1>8 DEF OutcomeFields
  <2>2. /\ durable' = Replay(durable, e) /\ mem' = NoMemory /\ slot' = EmptySlot
        /\ broker' = EmptyBroker /\ attempts' = Attempted({})
    BY <1>10, <2>1 DEF Finish
  <2>3. LedgerKept(durable')
    BY <1>7, <2>2, LedgerGrows
  <2>4. GoodBroker(broker') /\ DOMAIN broker'.orders \subseteq DOMAIN broker.orders
    BY <2>2, NothingRemembered
  <2> QED BY <1>10, <2>2, <2>3, <2>4, EndKeeps
<1> QED BY <1>2, <1>9, <1>10

\* The broker session degrades (LoseHealth).
LEMMA LoseHealthKeeps ==
    ASSUME IInv, NEW health, LoseHealth(health)
    PROVE  IInv' /\ Lawful
<1> DEFINE none == {}
<1>1. /\ durable' = durable /\ phase' = phase /\ mem' = mem /\ slot' = slot /\ todo' = todo
      /\ attempts' = attempts /\ phase # "down"
  BY DEF LoseHealth
<1>2. DOMAIN broker = {"health", "orders"} /\ broker' = [broker EXCEPT !.health = health]
  BY DEF LoseHealth, IInv, Session, GoodBroker
<1>3. DOMAIN broker' = {"health", "orders"} /\ broker'.orders = broker.orders
  BY <1>2
<1>4. Session'
  BY <1>1, <1>3 DEF IInv, Session, GoodBroker
<1>5. LedgerKept(durable')
  BY <1>1, SameLedger
<1>6. none = {} /\ Called(none) /\ Allowed(none) /\ attempts' = Attempted(none)
  BY <1>1, NoCall
<1> HIDE DEF none
<1>7. (Marked(mem) \/ phase \in {"draining", "stopping"})' => Stopped(durable')
  BY <1>1 DEF IInv, Recorded
<1>8. \A o \in Places : attempts[ShutdownIntent(o)] > 0 =>
        phase' \in {"stopping", "down"} /\ (phase' = "stopping" => o \notin todo')
  BY <1>1 DEF IInv, ShutdownOnce
<1>9. \A i \in Intents : slot'.intent = i => OnRecord(durable', i) /\ attempts[i] = 0
  BY <1>1 DEF IInv, Once, Used
<1>10. \A i \in Intents : Used(i) \/ slot'.intent = i => i \in DOMAIN mem'.received
  BY <1>1 DEF IInv, Once, Used
<1>11. /\ \A o \in DOMAIN broker'.orders : Carries(durable', o)
       /\ slot'.intent \in Places => Carries(durable', slot'.intent)
  BY <1>1, <1>3 DEF IInv, BrokerOnRecord
<1> QED BY <1>1, <1>4, <1>5, <1>6, <1>7, <1>8, <1>9, <1>10, <1>11, StepKeeps

\* The strategy is gone (Disconnect).
LEMMA DisconnectKeeps ==
    ASSUME IInv, Disconnect
    PROVE  IInv' /\ Lawful
<1> DEFINE out == Outcome(StopOnceEvents(mem),
                          [StopOnce(mem, "strategy") EXCEPT !.connected = FALSE], slot)
<1>1. /\ phase = "up" /\ slot = EmptySlot
      /\ (Finish(out) /\ phase' = phase) \/ CrashDuring(out)
  BY DEF Disconnect
<1>2. Sound(out)
  BY <1>1, DisconnectSound DEF IInv
<1> HIDE DEF out
<1>3. CASE Finish(out) /\ phase' = phase
  BY <1>1, <1>2, <1>3, FinishKeeps
<1>4. CASE CrashDuring(out)
  <2>1. CallsKept(out) /\ MapsWithin(out.events, Unused)
    BY <1>1, <1>2, SoundKept
  <2>2. IsSequence(out.events) /\ out.before \in Nat
    BY <1>2 DEF Sound, PartsSound
  <2> QED BY <1>4, <2>1, <2>2, CrashKeeps
<1> QED BY <1>1, <1>3, <1>4

\* shutdown() begins with a stop (ShutdownBegin).
LEMMA ShutdownBeginKeeps ==
    ASSUME IInv, ShutdownBegin
    PROVE  IInv' /\ Lawful
<1> DEFINE e == StopOnceEvents(mem)
           out == Outcome(e, [StopOnce(mem, "other") EXCEPT !.behind = FALSE], Revoked(slot))
<1>1. phase = "up" /\ ((Finish(out) /\ phase' = "draining") \/ CrashDuring(out))
  BY DEF ShutdownBegin
<1>2. Sound(out)
  BY <1>1, ShutdownBeginSound DEF IInv
<1>3. Stopped(durable) \/ HasStop(e)
  BY StopOnceRecords DEF IInv, Session, Recorded, Marked, GoodMem
<1> HIDE DEF e
<1>4. out.events = e
  BY OutcomeIs
<1> HIDE DEF out
<1>5. CASE Finish(out) /\ phase' = "draining"
  BY <1>1, <1>2, <1>3, <1>4, <1>5, FinishKeeps
<1>6. CASE CrashDuring(out)
  <2>1. CallsKept(out) /\ MapsWithin(out.events, Unused)
    BY <1>1, <1>2, SoundKept
  <2>2. IsSequence(out.events) /\ out.before \in Nat
    BY <1>2 DEF Sound, PartsSound
  <2> QED BY <1>6, <2>1, <2>2, CrashKeeps
<1> QED BY <1>1, <1>5, <1>6

\* What stop() makes of the session's memory.
StoppingMem(m) ==
    /\ GoodMem(m) /\ ~m.ready
    /\ m.reason = mem.reason /\ m.received = mem.received /\ m.blocked = mem.blocked

\* A step of stop() that finishes: the stage stays empty and the memory only
\* gains flags.
LEMMA StoppingKeeps ==
    ASSUME IInv, phase \in {"draining", "stopping"}, phase' = "stopping",
           phase = "draining" => slot = EmptySlot,
           LedgerKept(durable'), StoppingMem(mem'), slot' = slot,
           NEW called, Called(called), Allowed(called), attempts' = Attempted(called),
           called \cap Intents = {},
           \A i \in called : OnRecord(durable', i),
           \A o \in Places : ShutdownIntent(o) \in called \/ attempts[ShutdownIntent(o)] > 0 =>
              o \notin todo',
           GoodBroker(broker'), DOMAIN broker'.orders \subseteq DOMAIN broker.orders
    PROVE  IInv' /\ Lawful
<1>1. Stopped(durable) /\ Stopped(durable')
  BY DEF IInv, Recorded, LedgerKept
<1>2. GoodSlot(mem', slot')
  <2>1. CASE slot = EmptySlot
    BY <2>1, EmptySlotGood
  <2>2. CASE ~mem.ready
    BY <2>2 DEF IInv, Session, GoodSlot, StoppingMem
  <2> QED BY <2>1, <2>2 DEF IInv, Session, Fits
<1>3. Fits(phase', mem', slot')
  BY DEF Fits, StoppingMem
<1>4. Session'
  BY <1>2, <1>3 DEF Session, StoppingMem
<1>5. slot'.intent \in Intents \cup {NoId}
  BY DEF IInv, Session, GoodSlot
<1>6. \A i \in called : slot'.intent # i
  BY <1>5, ShutdownIntents DEF Called
<1>7. \A i \in Intents : slot'.intent = i => OnRecord(durable', i) /\ attempts[i] = 0
  <2> SUFFICES ASSUME NEW i \in Intents, slot.intent = i PROVE OnRecord(durable', i) /\ attempts[i] = 0
    OBVIOUS
  <2>1. Used(i) /\ i \in AllIntents
    BY ShutdownIntents DEF Used
  <2> QED BY <2>1 DEF IInv, Once, LedgerKept
<1>8. \A i \in Intents : Used(i) \/ i \in called \/ slot'.intent = i => i \in DOMAIN mem'.received
  BY DEF IInv, Once, Used, StoppingMem
<1>9. /\ \A o \in DOMAIN broker'.orders : Carries(durable', o)
      /\ slot'.intent \in Places => Carries(durable', slot'.intent)
  BY DEF IInv, BrokerOnRecord, LedgerKept
<1>10. mem.reason = "other" /\ phase' # "down" => mem'.reason = "other"
  BY DEF StoppingMem
<1>11. \A o \in Places : ShutdownIntent(o) \in called \/ attempts[ShutdownIntent(o)] > 0 =>
         phase' \in {"stopping", "down"} /\ (phase' = "stopping" => o \notin todo')
  OBVIOUS
<1> QED BY <1>1, <1>4, <1>6, <1>7, <1>8, <1>9, <1>10, <1>11, StepKeeps

\* stop() begins (StopBegin).
LEMMA StopBeginKeeps ==
    ASSUME IInv, StopBegin
    PROVE  IInv' /\ Lawful
<1> DEFINE uncertain == broker.health = "Lost"
           a == Event("session_stopping", NoId, NoId)
           e == <<a>>
           m == [mem EXCEPT !.ready = FALSE, !.kill = TRUE,
                            !.recon = @ \/ uncertain, !.safety = @ \/ uncertain]
           recon == mem.recon \/ uncertain
           safety == mem.safety \/ uncertain
           out == Outcome(e, m, slot)
           none == {}
<1>1. /\ phase = "draining" /\ slot = EmptySlot
      /\ (Finish(out) /\ phase' = "stopping") \/ CrashDuring(out)
  BY DEF StopBegin
<1>2. a.type \notin Mapping
  BY DEF Event, Mapping
<1> HIDE DEF a
<1>3. IsSequence(e) /\ Len(e) \in Nat /\ \A S : MapsWithin(e, S)
  BY <1>2, OneRecord
<1>4. GoodMem(mem) /\ DOMAIN mem = MemFields
  BY DEF IInv, Session, GoodMem
<1>5. recon \in BOOLEAN /\ safety \in BOOLEAN /\ (mem.safety => safety)
  BY <1>4 DEF GoodMem
<1>6. m = [mem EXCEPT !.ready = FALSE, !.kill = TRUE, !.recon = recon, !.safety = safety]
  OBVIOUS
<1> HIDE DEF e, m, recon, safety
<1>7. /\ DOMAIN m = MemFields /\ m.ready = FALSE /\ m.kill = TRUE
      /\ m.recon = recon /\ m.safety = safety
      /\ m.observed = mem.observed /\ m.blocked = mem.blocked /\ m.reason = mem.reason
      /\ m.behind = mem.behind /\ m.connected = mem.connected
      /\ m.received = mem.received /\ m.orders = mem.orders
  BY <1>4, <1>6 DEF MemFields
<1>8. StoppingMem(m)
  BY <1>4, <1>5, <1>7 DEF GoodMem, StoppingMem
<1> HIDE DEF out
<1>9. /\ out.events = e /\ out.mem = m /\ out.slot = slot /\ out.broker = broker
      /\ out.called = {} /\ out.before \in Nat /\ CallsKept(out)
  BY OutcomeIs DEF out
<1>10. CASE CrashDuring(out)
  BY <1>3, <1>9, <1>10, CrashKeeps
<1>11. CASE Finish(out) /\ phase' = "stopping"
  <2>1. none = {} /\ Called(none) /\ Allowed(none)
    BY NoCall
  <2> HIDE DEF none
  <2>2. /\ durable' = Replay(durable, e) /\ mem' = m /\ slot' = slot
        /\ broker' = broker /\ attempts' = Attempted(none)
    BY <1>9, <1>11, <2>1 DEF Finish
  <2>3. LedgerKept(durable')
    BY <1>3, <2>2, LedgerGrows
  <2>4. GoodBroker(broker') /\ DOMAIN broker'.orders \subseteq DOMAIN broker.orders
    BY <2>2 DEF IInv, Session
  <2>5. \A o \in Places : ~(attempts[ShutdownIntent(o)] > 0)
    BY <1>1 DEF IInv, ShutdownOnce
  <2> QED BY <1>1, <1>8, <1>11, <2>1, <2>2, <2>3, <2>4, <2>5, StoppingKeeps
<1> QED BY <1>1, <1>10, <1>11

\* What a step of stop() for one order may do.
StopsOne(o, out) ==
    /\ IsSequence(out.events) /\ out.before \in Nat
    /\ MapsWithin(out.events, {ShutdownIntent(o)})
    /\ out.called \subseteq {ShutdownIntent(o)}
    /\ out.called # {} => /\ Requests(out.events, ShutdownIntent(o))
                          /\ \A k \in 0..Len(out.events) : k >= out.before =>
                               Requests(SubSeq(out.events, 1, k), ShutdownIntent(o))
    /\ StoppingMem(out.mem) /\ out.slot = slot
    /\ GoodBroker(out.broker) /\ DOMAIN out.broker.orders = DOMAIN broker.orders

\* A step of stop() for one order.
LEMMA StopsOneKeeps ==
    ASSUME IInv, phase = "stopping", NEW o \in Places, o \in todo, NEW out, StopsOne(o, out),
           \/ Finish(out) /\ todo' = todo \ {o} /\ phase' = phase
           \/ CrashDuring(out)
    PROVE  IInv' /\ Lawful
<1> DEFINE i == ShutdownIntent(o)
           called == out.called
<1>1. i \in AllIntents /\ i \notin Intents \cup {NoId}
  BY ShutdownIntents
<1>2. attempts[i] = 0
  <2>1. ~(attempts[i] > 0) /\ attempts[i] \in Nat
    BY <1>1 DEF IInv, ShutdownOnce
  <2> QED BY <2>1
<1>3. slot.intent # i
  BY <1>1 DEF IInv, Session, GoodSlot
<1>4. i \in Unused
  BY <1>1, <1>2, <1>3 DEF Unused, Used
<1>5. MapsWithin(out.events, Unused) /\ IsSequence(out.events) /\ Len(out.events) \in Nat
  BY <1>4, AppendedSequences DEF StopsOne, MapsWithin
<1>6. Stopped(durable)
  BY DEF IInv, Recorded
<1>7. Called(called) /\ Allowed(called) /\ called \cap Intents = {}
  <2>1. called \subseteq {i}
    BY DEF StopsOne
  <2>2. i \notin Places \cup Modifies
    BY <1>1, ShutdownIntents
  <2> QED BY <1>1, <1>2, <2>1, <2>2 DEF Called, Allowed
<1>8. ASSUME NEW k \in 0..Len(out.events), k >= out.before, called # {}
      PROVE  OnRecord(Replay(durable, SubSeq(out.events, 1, k)), i)
  <2> DEFINE e == SubSeq(out.events, 1, k)
  <2>1. Len(e) \in Nat /\ MapsWithin(e, Unused)
    BY <1>5, CutRecords
  <2>2. Requests(e, i)
    BY <1>8 DEF StopsOne
  <2> HIDE DEF e
  <2>3. ReplaySound(durable, e, Replay(durable, e))
    BY <2>1, LedgerGrows
  <2>4. OnRecord(Replay(durable, e), i)
    BY <1>1, <2>2, <2>3 DEF ReplaySound
  <2> QED BY <2>4 DEF e
<1>9. CallsKept(out)
  <2> SUFFICES ASSUME NEW j \in out.called, NEW k \in 0..Len(out.events), k >= out.before
               PROVE  OnRecord(Replay(durable, SubSeq(out.events, 1, k)), j)
    BY <1>6, <1>7 DEF CallsKept
  <2>1. j = i /\ called # {}
    BY DEF StopsOne
  <2> QED BY <1>8, <2>1
<1>10. CASE CrashDuring(out)
  BY <1>5, <1>9, <1>10, CrashKeeps DEF StopsOne
<1>11. CASE Finish(out) /\ todo' = todo \ {o} /\ phase' = phase
  <2>1. /\ durable' = Replay(durable, out.events) /\ mem' = out.mem /\ slot' = slot
        /\ broker' = out.broker /\ attempts' = Attempted(called)
    BY <1>11 DEF Finish, StopsOne
  <2>2. LedgerKept(durable') /\ ReplaySound(durable, out.events, durable')
    BY <1>5, <2>1, LedgerGrows
  <2>3. \A j \in called : OnRecord(durable', j)
    BY <1>1, <2>2 DEF StopsOne, ReplaySound
  <2>4. /\ StoppingMem(mem') /\ GoodBroker(broker')
        /\ DOMAIN broker'.orders \subseteq DOMAIN broker.orders
    BY <2>1 DEF StopsOne
  <2>5. \A q \in Places : ShutdownIntent(q) \in called \/ attempts[ShutdownIntent(q)] > 0 =>
          q \notin todo'
    <3> SUFFICES ASSUME NEW q \in Places,
                        ShutdownIntent(q) \in called \/ attempts[ShutdownIntent(q)] > 0
                 PROVE  q \notin todo'
      OBVIOUS
    <3>1. ShutdownIntent(q) \in called => q = o
      BY ShutdownIntents DEF StopsOne
    <3>2. attempts[ShutdownIntent(q)] > 0 => q \notin todo
      BY DEF IInv, ShutdownOnce
    <3> QED BY <1>11, <3>1, <3>2
  <2> HIDE DEF called
  <2> QED BY <1>7, <1>11, <2>1, <2>2, <2>3, <2>4, <2>5, StoppingKeeps
<1> QED BY <1>10, <1>11

\* The records of a shutdown cancel: its approval and its request, after its
\* one mapping (CancelRecords).
LEMMA CancelRecordsAre ==
    ASSUME NEW o \in Places, NEW i, i = ShutdownIntent(o)
    PROVE  LET r == CancelRecords(o)
           IN  /\ IsSequence(r) /\ Len(r) = 4 /\ MapsWithin(r, {i})
               /\ r[3].type = "risk_approved" /\ r[3].intent = i
               /\ r[4].type = "cancel_requested" /\ r[4].intent = i
               /\ IsSequence(SubSeq(r, 1, 2)) /\ MapsWithin(SubSeq(r, 1, 2), {i})
<1> DEFINE a == Event("intent_received", i, NoId)
           b == Event("mapping_validated", i, o)
           c == Event("risk_approved", i, o)
           d == Event("cancel_requested", i, o)
           r == CancelRecords(o)
<1>1. r = <<a, b, c, d>>
  BY DEF CancelRecords
<1>2. /\ a.intent = i /\ b.intent = i /\ c.intent = i /\ d.intent = i
      /\ c.type = "risk_approved" /\ d.type = "cancel_requested"
  BY DEF Event
<1> HIDE DEF a, b, c, d, r
<1>3. /\ r \in Seq({a, b, c, d}) /\ Len(r) = 4
      /\ r[1] = a /\ r[2] = b /\ r[3] = c /\ r[4] = d
  BY <1>1
<1>4. IsSequence(r)
  BY <1>3 DEF IsSequence
<1>5. \A k \in 1..4 : r[k].intent = i
  <2>1. \A k \in 1..4 : k = 1 \/ k = 2 \/ k = 3 \/ k = 4
    OBVIOUS
  <2> QED BY <1>2, <1>3, <2>1
<1>6. MapsWithin(r, {i})
  BY <1>3, <1>5 DEF MapsWithin
<1>7. 2 \in 0..Len(r)
  BY <1>3
<1>8. IsSequence(SubSeq(r, 1, 2)) /\ MapsWithin(SubSeq(r, 1, 2), {i})
  BY <1>4, <1>6, <1>7, CutRecords
<1> QED BY <1>2, <1>3, <1>4, <1>6, <1>8 DEF r

\* An order that stop() does not attempt, or not to the end: no call.
LEMMA UnattemptedStops ==
    ASSUME IInv, phase = "stopping", NEW o \in Places, NEW r, IsSequence(r),
           MapsWithin(r, {ShutdownIntent(o)}),
           NEW out, out = Outcome(r \o CancelUnattempted(o).events, CancelUnattempted(o).mem, slot)
    PROVE  StopsOne(o, out)
<1> DEFINE i == ShutdownIntent(o)
           a == Event("reconciliation_required", i, o)
           last == <<a>>
           m == [mem EXCEPT !.recon = TRUE, !.safety = TRUE]
           e == r \o last
<1>1. CancelUnattempted(o).events = last /\ CancelUnattempted(o).mem = m
  BY DEF CancelUnattempted, Outcome
<1>2. a.type \notin Mapping
  BY DEF Event, Mapping
<1> HIDE DEF a
<1>3. IsSequence(last) /\ \A S : MapsWithin(last, S)
  BY <1>2, OneRecord
<1> HIDE DEF last
<1>4. IsSequence(e) /\ MapsWithin(e, {i})
  BY <1>3, JoinedRecords
<1>5. GoodMem(mem) /\ DOMAIN mem = MemFields /\ ~mem.ready
  BY DEF IInv, Session, GoodMem, Fits
<1>6. /\ DOMAIN m = MemFields /\ m.ready = mem.ready /\ m.safety = TRUE /\ m.recon = TRUE
      /\ m.kill = mem.kill /\ m.observed = mem.observed /\ m.blocked = mem.blocked
      /\ m.reason = mem.reason /\ m.behind = mem.behind /\ m.connected = mem.connected
      /\ m.received = mem.received /\ m.orders = mem.orders
  BY <1>5 DEF MemFields
<1> HIDE DEF m
<1>7. StoppingMem(m)
  BY <1>5, <1>6 DEF GoodMem, StoppingMem
<1>8. out = Outcome(e, m, slot)
  BY <1>1
<1> HIDE DEF e
<1>9. /\ out.events = e /\ out.mem = m /\ out.slot = slot /\ out.broker = broker
      /\ out.called = {} /\ out.before \in Nat
  BY <1>8, OutcomeIs
<1> QED BY <1>4, <1>7, <1>9 DEF StopsOne, IInv, Session

\* A shutdown cancel that is called (CancelAttempted).
LEMMA AttemptedStops ==
    ASSUME IInv, phase = "stopping", NEW o \in Places, NEW acknowledged \in BOOLEAN,
           NEW out, out = CancelAttempted(o, acknowledged)
    PROVE  StopsOne(o, out)
<1> DEFINE i == ShutdownIntent(o)
           r == CancelRecords(o)
           confirmed == broker.health = "Ready"
           type == IF confirmed THEN "cancelled" ELSE "ambiguous_submission"
           answer == Event(type, i, o)
           e == Append(r, answer)
           flagged == [mem EXCEPT !.recon = TRUE, !.safety = TRUE]
           viewed == [mem EXCEPT !.view[o].state = "cancelled"]
           m == IF ~confirmed \/ ~acknowledged THEN flagged
                ELSE IF o \in DOMAIN mem.view THEN viewed ELSE mem
           b == IF confirmed THEN [broker EXCEPT !.orders[o].state = "cancelled"] ELSE broker
           quiet == Outcome(e, m, slot)
<1>1. out = WithCall(quiet, i, 4, b)
  BY DEF CancelAttempted
<1>2. type \notin Mapping
  BY DEF Mapping
<1> HIDE DEF type
<1>3. answer.type = type
  BY DEF Event
<1> HIDE DEF answer
<1>4. /\ IsSequence(r) /\ Len(r) = 4 /\ MapsWithin(r, {i})
      /\ r[3].type = "risk_approved" /\ r[3].intent = i
      /\ r[4].type = "cancel_requested" /\ r[4].intent = i
  BY CancelRecordsAre
<1> HIDE DEF r, i
<1>5. /\ IsSequence(e) /\ Len(e) = 5 /\ e[5] = answer
      /\ \A k \in 1..4 : e[k] = r[k]
  <2>1. IsSequence(r)
    BY <1>4
  <2>2. /\ IsSequence(e) /\ Len(e) = Len(r) + 1 /\ e[Len(r) + 1] = answer
        /\ \A k \in 1..Len(r) : e[k] = r[k]
    BY <2>1, AppendedSequences
  <2> HIDE DEF e
  <2>3. Len(r) = 4 /\ 4 + 1 = 5
    BY <1>4
  <2> QED BY <2>2, <2>3
<1>6. MapsWithin(e, {i})
  BY <1>2, <1>3, <1>4, AppendedRecords
<1> HIDE DEF e
<1>7. /\ e[3].type = "risk_approved" /\ e[3].intent = i
      /\ e[4].type = "cancel_requested" /\ e[4].intent = i
      /\ e[5].type \notin Mapping
  BY <1>2, <1>3, <1>4, <1>5
<1>8. ASSUME NEW q, NEW k \in 4..5, Len(q) = k, \A n \in 1..k : q[n] = e[n]
      PROVE  Requests(q, i)
  <2>1. 3 \in 1..k /\ 4 \in 1..k /\ 3 < 4
    OBVIOUS
  <2>2. q[3] = e[3] /\ q[4] = e[4]
    BY <1>8, <2>1
  <2>3. \A n \in (4 + 1)..k : n = 5 /\ n \in 1..k
    OBVIOUS
  <2>4. \A n \in (4 + 1)..k : ~Maps(q[n], i)
    BY <1>7, <1>8, <2>3 DEF Maps
  <2>5. "cancel_requested" \in AttemptTypes
    BY DEF AttemptTypes
  <2> QED BY <1>7, <1>8, <2>1, <2>2, <2>4, <2>5 DEF Requests
<1>9. Requests(e, i)
  <2>1. 5 \in 4..5
    OBVIOUS
  <2> QED BY <1>5, <1>8, <2>1
<1>10. ASSUME NEW k \in 0..Len(e), k >= 4 PROVE Requests(SubSeq(e, 1, k), i)
  <2> DEFINE q == SubSeq(e, 1, k)
  <2>1. Len(q) = k /\ \A n \in 1..k : q[n] = e[n]
    BY <1>5, Prefixes
  <2>2. k \in 4..5
    BY <1>5, <1>10
  <2> HIDE DEF q
  <2>3. Requests(q, i)
    BY <1>8, <2>1, <2>2
  <2> QED BY <2>3 DEF q
<1>11. GoodMem(mem) /\ DOMAIN mem = MemFields /\ ~mem.ready /\ GoodBroker(broker)
  BY DEF IInv, Session, GoodMem, Fits
<1>12. StoppingMem(m)
  <2>1. StoppingMem(flagged)
    <3>1. /\ DOMAIN flagged = MemFields /\ flagged.ready = mem.ready /\ flagged.safety = TRUE
          /\ flagged.recon = TRUE /\ flagged.kill = mem.kill /\ flagged.observed = mem.observed
          /\ flagged.blocked = mem.blocked /\ flagged.reason = mem.reason
          /\ flagged.behind = mem.behind /\ flagged.connected = mem.connected
          /\ flagged.received = mem.received /\ flagged.orders = mem.orders
      BY <1>11 DEF MemFields
    <3> HIDE DEF flagged
    <3> QED BY <1>11, <3>1 DEF GoodMem, StoppingMem
  <2>2. StoppingMem(viewed)
    <3>1. /\ DOMAIN viewed = MemFields /\ viewed.ready = mem.ready /\ viewed.safety = mem.safety
          /\ viewed.recon = mem.recon /\ viewed.kill = mem.kill /\ viewed.observed = mem.observed
          /\ viewed.blocked = mem.blocked /\ viewed.reason = mem.reason
          /\ viewed.behind = mem.behind /\ viewed.connected = mem.connected
          /\ viewed.received = mem.received /\ viewed.orders = mem.orders
      BY <1>11 DEF MemFields
    <3> HIDE DEF viewed
    <3> QED BY <1>11, <3>1 DEF GoodMem, StoppingMem
  <2>3. StoppingMem(mem)
    BY <1>11 DEF StoppingMem
  <2> HIDE DEF flagged, viewed, confirmed
  <2> QED BY <2>1, <2>2, <2>3
<1> HIDE DEF m
<1>13. GoodBroker(b) /\ DOMAIN b.orders = DOMAIN broker.orders
  <2>1. DOMAIN broker = {"health", "orders"}
    BY <1>11 DEF GoodBroker
  <2>2. DOMAIN b = {"health", "orders"} /\ DOMAIN b.orders = DOMAIN broker.orders
    BY <2>1
  <2> HIDE DEF b
  <2> QED BY <1>11, <2>2 DEF GoodBroker
<1> HIDE DEF b, quiet
<1>14. /\ DOMAIN quiet = OutcomeFields /\ quiet.events = e /\ quiet.mem = m
       /\ quiet.slot = slot
  BY OutcomeIs DEF quiet
<1>15. /\ out.events = e /\ out.mem = m /\ out.slot = slot /\ out.broker = b
       /\ out.called = {i} /\ out.before = 4
  BY <1>1, <1>14 DEF WithCall, OutcomeFields
<1>16. StopsOne(o, out) <=>
         /\ IsSequence(out.events) /\ out.before \in Nat
         /\ MapsWithin(out.events, {i})
         /\ out.called \subseteq {i}
         /\ out.called # {} => /\ Requests(out.events, i)
                               /\ \A k \in 0..Len(out.events) : k >= out.before =>
                                    Requests(SubSeq(out.events, 1, k), i)
         /\ StoppingMem(out.mem) /\ out.slot = slot
         /\ GoodBroker(out.broker) /\ DOMAIN out.broker.orders = DOMAIN broker.orders
  BY DEF StopsOne, i
<1>17. out.before \in Nat
  BY <1>15
<1> QED BY <1>5, <1>6, <1>9, <1>10, <1>12, <1>13, <1>15, <1>16, <1>17

\* One iteration of the loop over the working orders (CancelOnStop).
LEMMA CancelOnStopKeeps ==
    ASSUME IInv, NEW o \in Places, CancelOnStop(o)
    PROVE  IInv' /\ Lawful
<1> DEFINE r == CancelRecords(o)
           two == SubSeq(r, 1, 2)
           none == << >>
           alone == CancelUnattempted(o)
           lost == Outcome(two \o alone.events, alone.mem, slot)
<1>1. phase = "stopping" /\ o \in todo
  BY DEF CancelOnStop
<1>2. PICK out \in {alone} \cup
                   (IF broker.health = "Lost" THEN {lost}
                    ELSE {CancelAttempted(o, TRUE), CancelAttempted(o, FALSE),
                          CancelUnacknowledged(o)}) :
        \/ Finish(out) /\ todo' = todo \ {o} /\ phase' = phase
        \/ CrashDuring(out)
  BY DEF CancelOnStop
<1>3. /\ IsSequence(r) /\ MapsWithin(r, {ShutdownIntent(o)})
      /\ IsSequence(two) /\ MapsWithin(two, {ShutdownIntent(o)})
      /\ IsSequence(none) /\ MapsWithin(none, {ShutdownIntent(o)})
  BY CancelRecordsAre, FewRecords
<1>4. /\ alone = Outcome(alone.events, alone.mem, slot)
      /\ alone.events = none \o alone.events
      /\ CancelUnacknowledged(o) = Outcome(r \o alone.events, alone.mem, slot)
  <2> DEFINE last == <<Event("reconciliation_required", ShutdownIntent(o), o)>>
  <2>1. alone.events = last /\ alone = Outcome(alone.events, alone.mem, slot)
    BY DEF CancelUnattempted, Outcome
  <2>2. last = none \o last
    OBVIOUS
  <2>3. CancelUnacknowledged(o) = Outcome(r \o alone.events, alone.mem, slot)
    BY DEF CancelUnacknowledged
  <2> HIDE DEF last, alone
  <2> QED BY <2>1, <2>2, <2>3
<1> HIDE DEF r, two, none
<1>5. CASE out = alone
  <2>1. out = Outcome(none \o CancelUnattempted(o).events, CancelUnattempted(o).mem, slot)
    BY <1>4, <1>5
  <2> QED BY <1>1, <1>2, <1>3, <2>1, UnattemptedStops, StopsOneKeeps
<1>6. CASE out = lost
  BY <1>1, <1>2, <1>3, <1>6, UnattemptedStops, StopsOneKeeps
<1>7. CASE out = CancelUnacknowledged(o)
  <2>1. out = Outcome(r \o CancelUnattempted(o).events, CancelUnattempted(o).mem, slot)
    BY <1>4, <1>7
  <2> QED BY <1>1, <1>2, <1>3, <2>1, UnattemptedStops, StopsOneKeeps
<1>8. ASSUME NEW acknowledged \in BOOLEAN, out = CancelAttempted(o, acknowledged)
      PROVE  IInv' /\ Lawful
  BY <1>1, <1>2, <1>8, AttemptedStops, StopsOneKeeps
<1> QED BY <1>2, <1>5, <1>6, <1>7, <1>8

-----------------------------------------------------------------------------
(* The theorems.                                                           *)

\* Every step keeps the invariant and is lawful.
LEMMA NextKeeps ==
    ASSUME IInv, [Next]_vars
    PROVE  IInv' /\ Lawful
<1>1. CASE Launch
  BY <1>1, LaunchKeeps
<1>2. CASE LaunchRefused
  BY <1>2, LaunchRefusedKeeps
<1>3. CASE LaunchFailed
  <2>1. UNCHANGED vars
    BY <1>3 DEF LaunchFailed
  <2> QED BY <2>1, StutterKeeps
<1>4. CASE Repair
  BY <1>4, RepairKeeps
<1>5. ASSUME NEW i \in Intents, NEW c \in Contents, Prepare(i, c) PROVE IInv' /\ Lawful
  <2>1. PICK out \in PrepareOutcomes(i, c) : RunCollected(out)
    BY <1>5 DEF Prepare
  <2>2. phase \in {"up", "draining"} /\ (phase = "up" => mem.connected) /\ slot = EmptySlot
    BY <1>5 DEF Prepare
  <2>3. Sound(out)
    BY <2>2, PrepareSound DEF IInv
  <2> QED BY <2>1, <2>2, <2>3, RunCollectedKeeps
<1>6. CASE Submit
  <2>1. PICK out \in SubmitOutcomes(slot.intent) : RunCollected(out)
    BY <1>6 DEF Submit
  <2>2. phase \in {"up", "draining"} /\ slot # EmptySlot
    BY <1>6 DEF Submit
  <2>3. Sound(out)
    BY <2>2, SubmitSound DEF IInv
  <2> QED BY <2>1, <2>2, <2>3, RunCollectedKeeps
<1>7. CASE Observe
  <2>1. PICK crossed \in SUBSET Fillable :
          \E fills \in Orderings(crossed) : RunCollected(Observed(fills))
    BY <1>7 DEF Observe
  <2>2. PICK fills \in Orderings(crossed) : RunCollected(Observed(fills))
    BY <2>1
  <2>3. phase = "up" /\ mem.connected /\ slot = EmptySlot
    BY <1>7 DEF Observe
  <2>4. Sound(Observed(fills))
    BY <2>3, ObservedSound DEF IInv
  <2> QED BY <2>3, <2>4, <2>2, RunCollectedKeeps
<1>8. CASE Fault
  <2> DEFINE out == Outcome(StopOnceEvents(mem), [StopOnce(mem, "other") EXCEPT !.behind = TRUE],
                            Revoked(slot))
  <2>1. phase = "up" /\ mem.connected /\ Run(out)
    BY <1>8 DEF Fault
  <2>2. Sound(out)
    BY <2>1, FaultSound DEF IInv
  <2> HIDE DEF out
  <2> QED BY <2>1, <2>2, RunKeeps
<1>9. ASSUME NEW health \in {"Unknown", "Lost"}, LoseHealth(health) PROVE IInv' /\ Lawful
  BY <1>9, LoseHealthKeeps
<1>10. CASE Disconnect
  BY <1>10, DisconnectKeeps
<1>11. CASE Reconnect
  <2>1. PICK fresh \in BOOLEAN : Run(Restored(fresh))
    BY <1>11 DEF Reconnect
  <2>2. phase = "up" /\ ~mem.connected
    BY <1>11 DEF Reconnect
  <2>3. Sound(Restored(fresh))
    BY <2>2, RestoredSound DEF IInv
  <2> QED BY <2>1, <2>2, <2>3, RunKeeps
<1>12. CASE ShutdownBegin
  BY <1>12, ShutdownBeginKeeps
<1>13. CASE StopBegin
  BY <1>13, StopBeginKeeps
<1>14. ASSUME NEW o \in Places, CancelOnStop(o) PROVE IInv' /\ Lawful
  BY <1>14, CancelOnStopKeeps
<1>15. CASE StopEnd
  BY <1>15, StopEndKeeps
<1>16. CASE ShutdownTimeout
  BY <1>16, ShutdownTimeoutKeeps
<1>17. CASE UNCHANGED vars
  BY <1>17, StutterKeeps
<1> QED
  BY <1>1, <1>2, <1>3, <1>4, <1>5, <1>6, <1>7, <1>8, <1>9, <1>10, <1>11, <1>12, <1>13, <1>14,
     <1>15, <1>16, <1>17 DEF Next

\* A new ledger and a process that has not started.
LEMMA InitKeeps ==
    ASSUME Init
    PROVE  IInv
<1>1. attempts \in [AllIntents -> Nat] /\ \A i \in AllIntents : attempts[i] = 0
  BY DEF Init
<1>2. Session
  BY NothingRemembered DEF Init, Session
<1>3. Recorded
  <2>1. DOMAIN EmptyReplay = ReplayFields
    BY DEF EmptyReplay, ReplayFields
  <2>2. DOMAIN EmptyReplay.orders = {} /\ DOMAIN EmptyReplay.intents = {}
    BY DEF EmptyReplay
  <2>3. {EmptyReplay.recon, EmptyReplay.global, EmptyReplay.stopped, EmptyReplay.faulty}
          \subseteq BOOLEAN /\ ~EmptyReplay.global
    BY DEF EmptyReplay
  <2>4. IsFiniteSet(DOMAIN EmptyReplay.orders)
    BY <2>2, FS_EmptySet
  <2>5. GoodReplay(EmptyReplay) /\ Remembers(EmptyReplay)
    BY <2>1, <2>2, <2>3, <2>4 DEF GoodReplay, GoodIntents, Remembers
  <2> QED BY <2>5, NothingRemembered DEF Init, Recorded
<1>4. slot.intent = NoId
  BY EmptySlotGood DEF Init
<1>5. \A i \in AllIntents : ~Used(i)
  BY <1>1, <1>4, ShutdownIntents DEF Used
<1>6. Once
  BY <1>1, <1>5, ShutdownIntents DEF Once
<1>7. ShutdownOnce
  BY <1>1, ShutdownIntents DEF ShutdownOnce
<1>8. BrokerOnRecord
  BY <1>4, NothingRemembered, ShutdownIntents DEF BrokerOnRecord, Init
<1> QED BY <1>1, <1>2, <1>3, <1>6, <1>7, <1>8 DEF IInv

\* The session and its ledger, through every crash, repair, restart, reconnect
\* and shutdown.
THEOREM SessionIsSound ==
    Spec => []IInv
<1>1. Init => IInv
  BY InitKeeps
<1>2. IInv /\ [Next]_vars => IInv'
  BY NextKeeps
<1> QED BY <1>1, <1>2, PTL DEF Spec

\* No intent and no shutdown cancel reaches the broker twice, whatever is
\* repeated, reconnected, recovered or cancelled again (submit_prepared, stop).
THEOREM NeverAttemptedTwice ==
    Spec => []AtMostOneAttempt
<1>1. IInv => AtMostOneAttempt
  BY ShutdownIntents DEF IInv, Once, ShutdownOnce, AtMostOneAttempt
<1> QED BY <1>1, SessionIsSound, PTL

\* Whatever the broker was asked, and every order it holds, is in the ledger
\* that a crash leaves (prepare_intent appends before submit_prepared calls).
THEOREM LedgerKnowsEveryAttempt ==
    Spec => []AttemptsAreOnRecord
<1>1. IInv => AttemptsAreOnRecord
  <2> SUFFICES ASSUME IInv, ~durable.faulty
               PROVE  /\ \A i \in AllIntents : attempts[i] > 0 =>
                           /\ i \in DOMAIN durable.intents
                           /\ durable.intents[i].disposition \notin BeforeAttempt
                      /\ DOMAIN broker.orders \subseteq DOMAIN durable.orders
    BY DEF AttemptsAreOnRecord
  <2>1. ASSUME NEW i \in AllIntents, attempts[i] > 0
        PROVE  /\ i \in DOMAIN durable.intents
               /\ durable.intents[i].disposition \notin BeforeAttempt
    <3>1. OnRecord(durable, i)
      BY <2>1, UsedIntents DEF Used
    <3> QED BY <3>1 DEF OnRecord, Requested
  <2>2. DOMAIN broker.orders \subseteq DOMAIN durable.orders
    BY DEF IInv, BrokerOnRecord, Carries
  <2> QED BY <2>1, <2>2
<1> QED BY <1>1, SessionIsSound, PTL

\* A safety stop in memory is in the ledger before the next handler runs, so
\* that no restart overlooks it (force_safety_stop, preflight).
THEOREM EverySafetyStopIsOnRecord ==
    Spec => []SafetyStopIsOnRecord
<1>1. IInv => SafetyStopIsOnRecord
  BY DEF IInv, Recorded, Marked, Stopped, SafetyStopIsOnRecord
<1> QED BY <1>1, SessionIsSound, PTL

\* Replay drops no reconciliation that an ambiguous intent or the session still
\* needs (replay_record, reconciliation_completed).
THEOREM ReplayKeepsReconciliation ==
    Spec => []ReconciliationIsKept
<1>1. IInv => ReconciliationIsKept
  BY DEF IInv, Recorded, Remembers, ReconciliationIsKept
<1> QED BY <1>1, SessionIsSound, PTL

\* Every place and modify goes to the broker with the full authority of that
\* moment (submit_prepared tests it again).
THEOREM EveryAttemptIsAuthorized ==
    Spec => OnlyAuthorizedAttempts
<1>1. IInv /\ [Next]_vars => Lawful
  BY NextKeeps
<1>2. Lawful => \A i \in Places \cup Modifies : attempts'[i] > attempts[i] =>
                  mem.ready /\ ~mem.kill /\ ~mem.safety /\ ~mem.recon
  BY DEF Lawful
<1> QED BY <1>1, <1>2, SessionIsSound, PTL DEF Spec, OnlyAuthorizedAttempts

\* After a conflict nothing new is placed or modified, reconnect or not
\* (IdempotencyStore, prepare_intent).
THEOREM ConflictIsForever ==
    Spec => ConflictBlocksForever
<1>1. IInv /\ [Next]_vars => Lawful
  BY NextKeeps
<1>2. Lawful => (mem.blocked => \A i \in Places \cup Modifies : attempts'[i] = attempts[i])
  BY DEF Lawful
<1> QED BY <1>1, <1>2, SessionIsSound, PTL DEF Spec, ConflictBlocksForever

\* Only a new process clears a stop that is not a strategy's disconnect
\* (stop_once keeps the first reason; Restored tests it).
THEOREM HardStopOutlastsReconnects ==
    Spec => HardStopIsFinal
<1>1. IInv /\ [Next]_vars => Lawful
  BY NextKeeps
<1>2. Lawful => (mem.reason = "other" /\ phase' # "down" => ~mem'.ready /\ mem'.reason = "other")
  BY DEF Lawful
<1> QED BY <1>1, <1>2, SessionIsSound, PTL DEF Spec, HardStopIsFinal
=============================================================================
