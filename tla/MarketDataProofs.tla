-------------------------- MODULE MarketDataProofs --------------------------
(***************************************************************************)
(* Proofs about the three components that market data passes through       *)
(* before a session uses it: the stream of live rows (LiveRowStream)       *)
(* implements the latest-value feed, for every set of instruments and      *)
(* clients and every bound; captures (DatasetAcquisition) do not duplicate *)
(* each other and keep their claims, for every set of processes; and one   *)
(* capture (SegmentedCapture) writes, publishes and closes a gapless       *)
(* dataset, for segments of every size and any number of rows and failures.*)
(*                                                                         *)
(* The stream.  The messages of a connection form a chain.  Each covers    *)
(* the part of the log that starts where the one before it ended, the      *)
(* first starts where the consumer is, and the pending rows cover what     *)
(* follows the last one.  Publishing extends the end of the chain, sending *)
(* moves the pending rows onto the wire and reading takes the first link   *)
(* off, so that what is read always fits what the consumer holds.          *)
(*                                                                         *)
(* The captures.  A process inside create() is alone there, so what it has *)
(* checked still holds when it registers: no capture starts meanwhile, and *)
(* the owner it found in the claim is one that is past its registration    *)
(* and, once found dead, stays so.  The claim it takes away is that dead   *)
(* owner's or nobody's, so no live capture loses its own.                  *)
(*                                                                         *)
(* One capture.  What write() took is the rows of the segments and then    *)
(* the buffer.  Every segment is a run of receive sequences, and the ones  *)
(* the catalogue took follow each other, so a dataset's rows are one run,  *)
(* cut where the follower is.  A close rotates before it publishes its     *)
(* end, so nothing is left in the buffer behind an end that is not a       *)
(* failure, and none of the steps a second close takes moves a row then.   *)
(***************************************************************************)
EXTENDS LiveRowStream, DatasetAcquisition, SegmentedCapture, FiniteSetTheorems, SequenceTheorems,
        WellFoundedInduction, TLAPS

IsDelta(rows, l, a, b) == Feed!IsDelta(rows, l, a, b)

\* The messages w of a connection lead from position u to position e of the
\* log l, with watermarks from k on.
WireOK(w, l, u, k, e) ==
  /\ \A j \in 1..Len(w) :
       /\ w[j].from = IF j = 1 THEN u ELSE w[j - 1].upto
       /\ (IF j = 1 THEN k ELSE w[j - 1].mark) <= w[j].mark
       /\ w[j].from <= w[j].upto
       /\ w[j].upto <= w[j].mark
       /\ w[j].mark <= Len(l)
       /\ IsDelta(w[j].rows, l, w[j].from, w[j].upto)
  /\ e = IF Len(w) = 0 THEN u ELSE w[Len(w)].upto

\* One connection: before its handler accepts it nothing was sent; a consumer
\* that reads holds a moment of the log and the chain leads from there.
Fresh(c) ==
  handler[c] \in {"absent", "auth"} =>
    /\ sent[c] = 0 /\ wire[c] = << >> /\ cut[c] = 0 /\ mark[c] = 0
    /\ pending[c] = NoRows

ConsumerOK(c) ==
  /\ cut[c] <= mark[c]
  /\ mark[c] <= Len(log)
  /\ sent[c] <= Len(log)
  /\ IsDelta(seen[c], log, 0, cut[c])
  /\ reader[c] = "reading" => WireOK(wire[c], log, cut[c], mark[c], sent[c])

PendingOK(c) ==
  c \in Registered \cup toFlush => IsDelta(pending[c], log, sent[c], Len(log))

WakeupOK(c) ==
  /\ event[c] <=> Held(pending[c]) # {}
  /\ handler[c] = "waiting" => ~event[c]

ClientOK(c) == Fresh(c) /\ ConsumerOK(c) /\ PendingOK(c) /\ WakeupOK(c)

LatestOK ==
  /\ IsDelta(latest, log, 0, Len(log))
  /\ Cardinality(Held(latest)) <= MaxInstruments

\* close() flushes clients that were registered, after the log has ended.
CloserOK ==
  /\ closer \in {"open", "waiting"} => toFlush = {}
  /\ \A c \in toFlush : handler[c] \notin {"absent", "auth"}

IInv ==
  /\ TypeOK
  /\ LatestOK
  /\ CloserOK
  /\ NothingIsDropped
  /\ SubscriberNeverFails
  /\ \A c \in Clients : ClientOK(c)

-----------------------------------------------------------------------------
(* Deltas.                                                                 *)

LEMMA DeltaPersists ==
  ASSUME NEW l \in Seq(Instruments), NEW i \in Instruments, NEW rows,
         NEW a \in Nat, NEW b \in Nat, b <= Len(l), IsDelta(rows, l, a, b)
  PROVE  IsDelta(rows, Append(l, i), a, b)
<1>1. \A p \in (a + 1)..b : Append(l, i)[p] = l[p]
  BY AppendProperties, LenProperties
<1>2. \A q \in Instruments : rows[q] \in (a + 1)..b =>
        \A p \in (rows[q] + 1)..b : Append(l, i)[p] = l[p]
  BY <1>1
<1> QED
  BY <1>1, <1>2 DEF IsDelta, Feed!IsDelta

LEMMA DeltaExtends ==
  ASSUME NEW l \in Seq(Instruments), NEW i \in Instruments,
         NEW rows \in [Instruments -> Nat],
         NEW a \in Nat, a <= Len(l), IsDelta(rows, l, a, Len(l))
  PROVE  IsDelta([rows EXCEPT ![i] = Len(l) + 1], Append(l, i), a, Len(l) + 1)
<1> DEFINE n == Len(l) + 1
           m == Append(l, i)
           r == [rows EXCEPT ![i] = n]
<1>0. Len(l) \in Nat /\ n \in Nat
  BY LenProperties
<1>1. \A p \in 1..Len(l) : m[p] = l[p]
  BY AppendProperties
<1>2. m[n] = i
  BY AppendProperties
<1>3. ASSUME NEW q \in Instruments
      PROVE  \/ /\ r[q] = 0
                /\ \A p \in (a + 1)..n : m[p] # q
             \/ /\ r[q] \in (a + 1)..n
                /\ m[r[q]] = q
                /\ \A p \in (r[q] + 1)..n : m[p] # q
  <2>1. CASE q = i
    BY <2>1, <1>0, <1>2
  <2>2. CASE q # i /\ rows[q] = 0
    <3>1. \A p \in (a + 1)..Len(l) : l[p] # q
      BY <2>2, <1>0 DEF IsDelta, Feed!IsDelta
    <3> QED
      BY <3>1, <2>2, <1>0, <1>1, <1>2
  <2>3. CASE q # i /\ rows[q] # 0
    <3>1. /\ rows[q] \in (a + 1)..Len(l)
          /\ l[rows[q]] = q
          /\ \A p \in (rows[q] + 1)..Len(l) : l[p] # q
      BY <2>3 DEF IsDelta, Feed!IsDelta
    <3> QED
      BY <3>1, <2>3, <1>0, <1>1, <1>2
  <2> QED
    BY <2>1, <2>2, <2>3
<1> QED
  BY <1>3 DEF IsDelta, Feed!IsDelta

LEMMA EmptyDelta ==
  ASSUME NEW l, NEW a \in Nat
  PROVE  IsDelta(NoRows, l, a, a)
BY DEF IsDelta, Feed!IsDelta, NoRows

\* What a consumer does with a message: two deltas that meet make one.
LEMMA DeltasCompose ==
  ASSUME NEW l, NEW v \in [Instruments -> Nat], NEW rows \in [Instruments -> Nat],
         NEW a \in Nat, NEW b \in Nat, NEW d \in Nat, a <= b, b <= d,
         IsDelta(v, l, a, b), IsDelta(rows, l, b, d)
  PROVE  /\ IsDelta(Overlay(v, rows), l, a, d)
         /\ \A i \in Instruments : v[i] <= Overlay(v, rows)[i]
         /\ \A i \in Instruments : Overlay(v, rows)[i] <= d
<1>1. ASSUME NEW i \in Instruments, rows[i] # 0
      PROVE  /\ Overlay(v, rows)[i] = rows[i]
             /\ rows[i] \in (a + 1)..d /\ l[rows[i]] = i
             /\ \A p \in (rows[i] + 1)..d : l[p] # i
             /\ v[i] <= rows[i]
  BY <1>1 DEF IsDelta, Feed!IsDelta, Overlay
<1>2. ASSUME NEW i \in Instruments, rows[i] = 0, v[i] # 0
      PROVE  /\ Overlay(v, rows)[i] = v[i]
             /\ v[i] \in (a + 1)..d /\ l[v[i]] = i
             /\ \A p \in (v[i] + 1)..d : l[p] # i
  <2>1. /\ v[i] \in (a + 1)..b /\ l[v[i]] = i
        /\ \A p \in (v[i] + 1)..b : l[p] # i
    BY <1>2 DEF IsDelta, Feed!IsDelta
  <2>2. \A p \in (b + 1)..d : l[p] # i
    BY <1>2 DEF IsDelta, Feed!IsDelta
  <2> QED
    BY <1>2, <2>1, <2>2 DEF Overlay
<1>3. ASSUME NEW i \in Instruments, rows[i] = 0, v[i] = 0
      PROVE  /\ Overlay(v, rows)[i] = 0
             /\ \A p \in (a + 1)..d : l[p] # i
  <2>1. \A p \in (a + 1)..b : l[p] # i
    BY <1>3 DEF IsDelta, Feed!IsDelta
  <2>2. \A p \in (b + 1)..d : l[p] # i
    BY <1>3 DEF IsDelta, Feed!IsDelta
  <2> QED
    BY <1>3, <2>1, <2>2 DEF Overlay
<1>4. IsDelta(Overlay(v, rows), l, a, d)
  BY <1>1, <1>2, <1>3 DEF IsDelta, Feed!IsDelta
<1> QED
  BY <1>1, <1>2, <1>3, <1>4

-----------------------------------------------------------------------------
(* The chain of a connection.                                              *)

LEMMA WireGrows ==
  ASSUME NEW l \in Seq(Instruments), NEW i \in Instruments,
         NEW w \in Seq(MessageType), NEW u, NEW k, NEW e, WireOK(w, l, u, k, e)
  PROVE  WireOK(w, Append(l, i), u, k, e)
<1>1. Len(Append(l, i)) = Len(l) + 1 /\ Len(l) \in Nat
  BY AppendProperties, LenProperties
<1>2. ASSUME NEW j \in 1..Len(w)
      PROVE  /\ w[j].mark <= Len(Append(l, i))
             /\ IsDelta(w[j].rows, Append(l, i), w[j].from, w[j].upto)
  <2>1. w[j] \in MessageType
    BY ElementOfSeq
  <2>2. /\ w[j].upto <= w[j].mark /\ w[j].mark <= Len(l)
        /\ IsDelta(w[j].rows, l, w[j].from, w[j].upto)
    BY DEF WireOK
  <2>3. /\ w[j].from \in Nat /\ w[j].upto \in Nat /\ w[j].mark \in Nat
    BY <2>1 DEF MessageType
  <2>4. w[j].upto <= Len(l)
    BY <2>2, <2>3, <1>1
  <2> QED
    BY <2>2, <2>3, <2>4, <1>1, DeltaPersists
<1> QED
  BY <1>2 DEF WireOK

LEMMA WireAppends ==
  ASSUME NEW l \in Seq(Instruments), NEW w \in Seq(MessageType),
         NEW u \in Nat, NEW k \in Nat, NEW e \in Nat, WireOK(w, l, u, k, e),
         NEW m \in MessageType, m.from = e, e <= m.upto, m.upto <= Len(l),
         m.mark = Len(l), k <= Len(l), IsDelta(m.rows, l, e, m.upto)
  PROVE  WireOK(Append(w, m), l, u, k, m.upto)
<1> DEFINE a == Append(w, m)
<1>1. /\ a \in Seq(MessageType) /\ Len(a) = Len(w) + 1 /\ Len(w) \in Nat
      /\ \A j \in 1..Len(w) : a[j] = w[j]
      /\ a[Len(w) + 1] = m
  BY AppendProperties, LenProperties
<1>2. ASSUME NEW j \in 1..Len(w)
      PROVE  /\ a[j].from = IF j = 1 THEN u ELSE a[j - 1].upto
             /\ (IF j = 1 THEN k ELSE a[j - 1].mark) <= a[j].mark
             /\ a[j].from <= a[j].upto /\ a[j].upto <= a[j].mark
             /\ a[j].mark <= Len(l)
             /\ IsDelta(a[j].rows, l, a[j].from, a[j].upto)
  <2>1. j # 1 => j - 1 \in 1..Len(w)
    BY <1>1
  <2>2. a[j] = w[j] /\ (j # 1 => a[j - 1] = w[j - 1])
    BY <1>1, <2>1
  <2>3. /\ w[j].from = IF j = 1 THEN u ELSE w[j - 1].upto
        /\ (IF j = 1 THEN k ELSE w[j - 1].mark) <= w[j].mark
        /\ w[j].from <= w[j].upto /\ w[j].upto <= w[j].mark
        /\ w[j].mark <= Len(l)
        /\ IsDelta(w[j].rows, l, w[j].from, w[j].upto)
    BY DEF WireOK
  <2> QED
    BY <2>2, <2>3
<1>3. LET j == Len(w) + 1 IN
      /\ a[j].from = IF j = 1 THEN u ELSE a[j - 1].upto
      /\ (IF j = 1 THEN k ELSE a[j - 1].mark) <= a[j].mark
      /\ a[j].from <= a[j].upto /\ a[j].upto <= a[j].mark
      /\ a[j].mark <= Len(l)
      /\ IsDelta(a[j].rows, l, a[j].from, a[j].upto)
  <2>0. Len(l) \in Nat
    BY LenProperties
  <2>1. CASE Len(w) = 0
    <3>1. e = u
      BY <2>1 DEF WireOK
    <3> QED
      BY <2>1, <3>1, <1>1, <2>0
  <2>2. CASE Len(w) # 0
    <3>1. Len(w) \in 1..Len(w) /\ Len(w) + 1 # 1
      BY <2>2, <1>1
    <3>2. e = w[Len(w)].upto /\ w[Len(w)].mark <= Len(l)
      BY <2>2, <3>1 DEF WireOK
    <3>3. a[Len(w)] = w[Len(w)] /\ Len(w) + 1 - 1 = Len(w)
      BY <1>1, <3>1
    <3> QED
      BY <3>1, <3>2, <3>3, <1>1, <2>0
  <2> QED
    BY <2>1, <2>2
<1>4. \A j \in 1..Len(a) : j \in 1..Len(w) \/ j = Len(w) + 1
  BY <1>1
<1>5. m.upto = IF Len(a) = 0 THEN u ELSE a[Len(a)].upto
  BY <1>1
<1> QED
  BY <1>2, <1>3, <1>4, <1>5 DEF WireOK

LEMMA WireShrinks ==
  ASSUME NEW l \in Seq(Instruments), NEW w \in Seq(MessageType), w # << >>,
         NEW u \in Nat, NEW k \in Nat, NEW e \in Nat, WireOK(w, l, u, k, e)
  PROVE  /\ Head(w) \in MessageType
         /\ Head(w).from = u /\ u <= Head(w).upto /\ Head(w).upto <= Head(w).mark
         /\ k <= Head(w).mark /\ Head(w).mark <= Len(l)
         /\ IsDelta(Head(w).rows, l, u, Head(w).upto)
         /\ WireOK(Tail(w), l, Head(w).upto, Head(w).mark, e)
<1> DEFINE t == Tail(w)
<1>1. /\ Head(w) \in MessageType /\ Head(w) = w[1] /\ 1 \in 1..Len(w)
      /\ t \in Seq(MessageType) /\ Len(t) = Len(w) - 1 /\ Len(w) \in Nat
      /\ \A j \in 1..Len(t) : t[j] = w[j + 1]
  BY HeadTailProperties, LenProperties, EmptySeq
<1>2. /\ w[1].from = u /\ k <= w[1].mark /\ w[1].from <= w[1].upto
      /\ w[1].upto <= w[1].mark /\ w[1].mark <= Len(l)
      /\ IsDelta(w[1].rows, l, w[1].from, w[1].upto)
  BY <1>1 DEF WireOK
<1>3. ASSUME NEW j \in 1..Len(t)
      PROVE  /\ t[j].from = IF j = 1 THEN w[1].upto ELSE t[j - 1].upto
             /\ (IF j = 1 THEN w[1].mark ELSE t[j - 1].mark) <= t[j].mark
             /\ t[j].from <= t[j].upto /\ t[j].upto <= t[j].mark
             /\ t[j].mark <= Len(l)
             /\ IsDelta(t[j].rows, l, t[j].from, t[j].upto)
  <2>1. j + 1 \in 1..Len(w) /\ j + 1 # 1 /\ (j + 1) - 1 = j
    BY <1>1
  <2>2. t[j] = w[j + 1]
    BY <1>1
  <2>3. IF j = 1 THEN w[j] = w[1] ELSE t[j - 1] = w[j]
    <3>1. CASE j = 1
      BY <3>1
    <3>2. CASE j # 1
      <4>1. j - 1 \in 1..Len(t) /\ (j - 1) + 1 = j
        BY <3>2, <1>1
      <4> QED
        BY <4>1, <3>2, <1>1
    <3> QED
      BY <3>1, <3>2
  <2>4. /\ w[j + 1].from = w[j].upto
        /\ w[j].mark <= w[j + 1].mark
        /\ w[j + 1].from <= w[j + 1].upto /\ w[j + 1].upto <= w[j + 1].mark
        /\ w[j + 1].mark <= Len(l)
        /\ IsDelta(w[j + 1].rows, l, w[j + 1].from, w[j + 1].upto)
    BY <2>1 DEF WireOK
  <2> QED
    BY <2>2, <2>3, <2>4
<1>4. e = IF Len(t) = 0 THEN w[1].upto ELSE t[Len(t)].upto
  <2>1. e = w[Len(w)].upto /\ Len(w) # 0
    BY <1>1 DEF WireOK
  <2>2. CASE Len(t) = 0
    BY <2>1, <2>2, <1>1
  <2>3. CASE Len(t) # 0
    <3>1. Len(t) \in 1..Len(t) /\ Len(t) + 1 = Len(w)
      BY <2>3, <1>1
    <3> QED
      BY <3>1, <2>1, <2>3, <1>1
  <2> QED
    BY <2>2, <2>3
<1> QED
  BY <1>1, <1>2, <1>3, <1>4 DEF WireOK

-----------------------------------------------------------------------------
(* Types.                                                                  *)

LEMMA MessageIsTyped ==
  ASSUME TypeOK, NEW type \in {"snapshot", "rows", "heartbeat"},
         NEW rows \in [Instruments -> Nat], NEW from \in Nat, NEW upto \in Nat
  PROVE  Message(type, rows, from, upto) \in MessageType
BY LenProperties DEF Message, MessageType, TypeOK

LEMMA NoRowsIsTyped == NoRows \in [Instruments -> Nat]
BY DEF NoRows

LEMMA WireIsTyped ==
  ASSUME TypeOK, NEW c \in Clients, NEW m \in MessageType,
         wire' = [wire EXCEPT ![c] = Append(@, m)]
  PROVE  wire' \in [Clients -> Seq(MessageType)]
<1>1. wire[c] \in Seq(MessageType)
  BY DEF TypeOK
<1>2. Append(wire[c], m) \in Seq(MessageType)
  BY <1>1, AppendProperties
<1> QED
  BY <1>2 DEF TypeOK

LEMMA InitTyped == Init => TypeOK
<1>1. << >> \in Seq(Instruments) /\ << >> \in Seq(MessageType)
  BY EmptySeq
<1> QED
  BY <1>1, NoRowsIsTyped DEF Init, TypeOK, HandlerStates

LEMMA SendPendingTyped ==
  ASSUME TypeOK, NEW c \in Clients, SendPending(c)
  PROVE  /\ wire' \in [Clients -> Seq(MessageType)]
         /\ sent' \in [Clients -> Nat]
         /\ pending' \in [Clients -> [Instruments -> Nat]]
         /\ event' \in [Clients -> BOOLEAN]
         /\ dropped' \in [Clients -> Nat]
<1>0. Len(log) \in Nat
  BY LenProperties DEF TypeOK
<1>1. pending[c] \in [Instruments -> Nat] /\ sent[c] \in Nat
  BY DEF TypeOK
<1>2. Message("rows", pending[c], sent[c], Len(log)) \in MessageType
  BY <1>0, <1>1, MessageIsTyped
<1>3. wire' \in [Clients -> Seq(MessageType)]
  BY <1>2, WireIsTyped DEF SendPending
<1> QED
  BY <1>0, <1>3, NoRowsIsTyped DEF SendPending, TypeOK

LEMMA PublishTyped ==
  ASSUME TypeOK, NEW i \in Instruments, Publish(i)
  PROVE  TypeOK'
<1>1. Len(log) + 1 \in Nat /\ log' \in Seq(Instruments)
  BY LenProperties, AppendProperties DEF TypeOK, Publish
<1>2. latest' \in [Instruments -> Nat]
  BY <1>1 DEF TypeOK, Publish
<1>3. pending' \in [Clients -> [Instruments -> Nat]]
  <2>1. \A c \in Clients : [pending[c] EXCEPT ![i] = Len(log) + 1] \in [Instruments -> Nat]
    BY <1>1 DEF TypeOK
  <2> QED
    BY <2>1 DEF TypeOK, Publish
<1>4. dropped' \in [Clients -> Nat]
  BY DEF TypeOK, Publish
<1>5. event' \in [Clients -> BOOLEAN]
  <2>1. \A c \in Clients : (event[c] \/ Takes(c, i)) \in BOOLEAN
    OBVIOUS
  <2> QED
    BY <2>1 DEF Publish
<1>6. handler' \in [Clients -> HandlerStates]
  BY DEF TypeOK, Publish, HandlerStates
<1> QED
  BY <1>1, <1>2, <1>3, <1>4, <1>5, <1>6 DEF TypeOK, Publish, closeVars, readerVars

LEMMA HandlerTyped ==
  ASSUME TypeOK, NEW c \in Clients, Connect(c) \/ HandlerStep(c)
  PROVE  TypeOK'
<1>0. Len(log) \in Nat /\ sent[c] \in Nat
  BY LenProperties DEF TypeOK
<1>1. CASE Connect(c)
  BY <1>1 DEF Connect, TypeOK, HandlerStates, publisherVars, closeVars, readerVars
<1>2. CASE Accept(c)
  <2>1. Message("snapshot", latest, 0, Len(log)) \in MessageType
    BY <1>0, MessageIsTyped DEF TypeOK
  <2>2. wire' \in [Clients -> Seq(MessageType)]
    BY <1>2, <2>1, WireIsTyped DEF Accept
  <2> QED
    BY <1>0, <1>2, <2>2 DEF Accept, TypeOK, HandlerStates, publisherVars, closeVars,
                            readerVars
<1>3. CASE Drained(c)
  BY <1>3 DEF Drained, TypeOK, HandlerStates, publisherVars, closeVars, readerVars
<1>4. CASE SendRows(c)
  <2>1. SendPending(c)
    BY <1>4 DEF SendRows
  <2> QED
    BY <1>4, <2>1, SendPendingTyped
    DEF SendRows, TypeOK, HandlerStates, publisherVars, closeVars, readerVars
<1>5. CASE Heartbeat(c)
  <2>1. Message("heartbeat", NoRows, sent[c], sent[c]) \in MessageType
    BY <1>0, NoRowsIsTyped, MessageIsTyped
  <2>2. wire' \in [Clients -> Seq(MessageType)]
    BY <1>5, <2>1, WireIsTyped DEF Heartbeat
  <2> QED
    BY <1>5, <2>2 DEF Heartbeat, TypeOK, HandlerStates, publisherVars, closeVars,
                      readerVars
<1>6. CASE ConnectionLost(c)
  BY <1>6 DEF ConnectionLost, TypeOK, HandlerStates, publisherVars, closeVars, readerVars
<1> QED
  BY <1>1, <1>2, <1>3, <1>4, <1>5, <1>6 DEF HandlerStep

LEMMA CloseTyped ==
  ASSUME TypeOK, CloseStep
  PROVE  TypeOK'
<1>1. CASE CloseBegin
  BY <1>1 DEF CloseBegin, TypeOK, publisherVars, clientVars, readerVars
<1>2. CASE CloseWaited
  BY <1>2 DEF CloseWaited, Registered, TypeOK, publisherVars, clientVars, readerVars
<1>3. ASSUME NEW c \in Clients, CloseFlush(c)
      PROVE  TypeOK'
  <2>1. CASE SendPending(c)
    BY <1>3, <2>1, SendPendingTyped DEF CloseFlush, TypeOK, publisherVars, readerVars
  <2>2. CASE ~SendPending(c)
    <3>1. /\ toFlush' = toFlush \ {c} /\ UNCHANGED <<sent, wire, draining>>
          /\ pending' = [pending EXCEPT ![c] = NoRows]
          /\ event' = [event EXCEPT ![c] = FALSE]
          /\ dropped' = [dropped EXCEPT ![c] = 0]
      BY <1>3, <2>2 DEF CloseFlush
    <3>2. UNCHANGED <<publisherVars, closer, waits, handler, readerVars>>
      BY <1>3 DEF CloseFlush
    <3>3. pending' \in [Clients -> [Instruments -> Nat]]
      BY <3>1, NoRowsIsTyped DEF TypeOK
    <3> QED
      BY <3>1, <3>2, <3>3 DEF TypeOK, publisherVars, readerVars
  <2> QED
    BY <2>1, <2>2
<1>4. ASSUME NEW c \in Clients, CloseDrained(c)
      PROVE  TypeOK'
  BY <1>4 DEF CloseDrained, TypeOK, publisherVars, clientVars, readerVars
<1>5. CASE CloseFinish
  BY <1>5 DEF CloseFinish, TypeOK, HandlerStates, publisherVars, readerVars
<1> QED
  BY <1>1, <1>2, <1>3, <1>4, <1>5 DEF CloseStep

LEMMA ReaderTyped ==
  ASSUME TypeOK, NEW c \in Clients, Receive(c) \/ Leave(c)
  PROVE  TypeOK'
<1>1. CASE Receive(c)
  <2>1. wire[c] \in Seq(MessageType) /\ wire[c] # << >>
    BY <1>1 DEF TypeOK, Receive
  <2>2. /\ Head(wire[c]) \in MessageType
        /\ Tail(wire[c]) \in Seq(MessageType)
    BY <2>1, HeadTailProperties
  <2>3. wire' \in [Clients -> Seq(MessageType)]
    BY <1>1, <2>2 DEF TypeOK, Receive
  <2>4. Overlay(seen[c], Head(wire[c]).rows) \in [Instruments -> Nat]
    BY <2>2 DEF TypeOK, MessageType, Overlay
  <2>5. /\ seen' \in [Clients -> [Instruments -> Nat]]
        /\ mark' \in [Clients -> Nat] /\ cut' \in [Clients -> Nat]
        /\ reader' \in [Clients -> {"reading", "failed", "left"}]
    <3>1. CASE Readable(Head(wire[c]), c)
      <4>1. Head(wire[c]).mark \in Nat /\ Head(wire[c]).upto \in Nat
        BY <2>2 DEF MessageType
      <4>2. /\ seen' = [seen EXCEPT ![c] = Overlay(seen[c], Head(wire[c]).rows)]
            /\ mark' = [mark EXCEPT ![c] = Head(wire[c]).mark]
            /\ cut' = [cut EXCEPT ![c] = Head(wire[c]).upto]
            /\ UNCHANGED reader
        BY <1>1, <3>1 DEF Receive
      <4> QED
        BY <2>4, <4>1, <4>2 DEF TypeOK
    <3>2. CASE ~Readable(Head(wire[c]), c)
      BY <1>1, <3>2 DEF TypeOK, Receive
    <3> QED
      BY <3>1, <3>2
  <2> QED
    BY <1>1, <2>3, <2>5 DEF Receive, TypeOK, publisherVars, closeVars, clientVars
<1>2. CASE Leave(c)
  BY <1>2, EmptySeq DEF Leave, TypeOK, publisherVars, closeVars, clientVars
<1> QED
  BY <1>1, <1>2

LEMMA StepTyped == TypeOK /\ [Next]_vars => TypeOK'
<1> SUFFICES ASSUME TypeOK, [Next]_vars PROVE TypeOK'
  OBVIOUS
<1>1. CASE UNCHANGED vars
  BY <1>1 DEF TypeOK, vars, publisherVars, closeVars, clientVars, readerVars
<1> QED
  BY <1>1, PublishTyped, HandlerTyped, CloseTyped, ReaderTyped DEF Next

\* The variables of the row stream always have their types: the publisher's
\* table, the handlers, the connections and the subscribers.
THEOREM Typed == Spec => []TypeOK
BY InitTyped, StepTyped, PTL DEF Spec

-----------------------------------------------------------------------------
(* The inductive invariant.                                                *)

LEMMA InitInv == Init => IInv
<1> SUFFICES ASSUME Init PROVE IInv
  OBVIOUS
<1>1. TypeOK
  BY InitTyped
<1>2. Len(log) = 0 /\ Held(NoRows) = {}
  BY EmptySeq DEF Init, Held, NoRows
<1>3. LatestOK
  BY <1>2, EmptyDelta, FS_EmptySet, LiveStreamAssumption DEF Init, LatestOK
<1>4. CloserOK /\ NothingIsDropped /\ SubscriberNeverFails
  BY DEF Init, CloserOK, NothingIsDropped, SubscriberNeverFails
<1>5. ASSUME NEW c \in Clients PROVE ClientOK(c)
  <2>1. Fresh(c) /\ WakeupOK(c)
    BY <1>2 DEF Init, Fresh, WakeupOK
  <2>2. WireOK(<< >>, log, 0, 0, 0)
    BY EmptySeq DEF WireOK
  <2>3. IsDelta(NoRows, log, 0, 0)
    BY EmptyDelta
  <2> QED
    BY <1>2, <2>1, <2>2, <2>3 DEF Init, ClientOK, ConsumerOK, PendingOK
<1> QED
  BY <1>1, <1>3, <1>4, <1>5 DEF IInv

\* A client that is registered has room for every row the publisher accepts:
\* what it holds pending is part of the publisher's own table.
LEMMA Room ==
  ASSUME IInv, NEW i \in Instruments, Publish(i), NEW c \in Registered
  PROVE  ~Refuses(c, i)
<1>0. /\ c \in Clients /\ sent[c] \in Nat /\ Len(log) \in Nat /\ sent[c] <= Len(log)
      /\ pending[c] \in [Instruments -> Nat] /\ latest \in [Instruments -> Nat]
  BY LenProperties DEF IInv, Registered, TypeOK, ClientOK, ConsumerOK
<1>1. IsDelta(pending[c], log, sent[c], Len(log))
  BY <1>0 DEF IInv, ClientOK, PendingOK
<1>2. IsDelta(latest, log, 0, Len(log)) /\ Cardinality(Held(latest)) <= MaxInstruments
  BY DEF IInv, LatestOK
<1>3. Held(pending[c]) \subseteq Held(latest)
  <2> SUFFICES ASSUME NEW j \in Instruments, pending[c][j] # 0 PROVE latest[j] # 0
    BY DEF Held
  <2>1. pending[c][j] \in (sent[c] + 1)..Len(log) /\ log[pending[c][j]] = j
    BY <1>1 DEF IsDelta, Feed!IsDelta
  <2>2. pending[c][j] \in (0 + 1)..Len(log)
    BY <2>1, <1>0
  <2> QED
    BY <1>2, <2>1, <2>2 DEF IsDelta, Feed!IsDelta
<1>4. IsFiniteSet(Held(latest)) /\ IsFiniteSet(Held(pending[c]))
  BY <1>3, LiveStreamAssumption, FS_Subset DEF Held
<1>5. /\ Cardinality(Held(latest)) \in Nat /\ Cardinality(Held(pending[c])) \in Nat
      /\ MaxInstruments \in Nat
  BY <1>4, FS_CardinalityType, LiveStreamAssumption
<1>6. CASE pending[c][i] # 0
  BY <1>6 DEF Refuses
<1>7. CASE latest[i] = 0
  <2>1. Cardinality(Held(latest)) < MaxInstruments
    BY <1>7 DEF Publish
  <2>2. Cardinality(Held(pending[c])) <= Cardinality(Held(latest))
    BY <1>3, <1>4, FS_Subset
  <2> QED
    BY <2>1, <2>2, <1>5 DEF Refuses
<1>8. CASE pending[c][i] = 0 /\ latest[i] # 0
  <2>1. Held(pending[c]) \subseteq Held(latest) \ {i} /\ i \in Held(latest)
    BY <1>3, <1>8 DEF Held
  <2>2. /\ IsFiniteSet(Held(latest) \ {i})
        /\ Cardinality(Held(latest) \ {i}) = Cardinality(Held(latest)) - 1
    BY <2>1, <1>4, FS_RemoveElement
  <2>3. Cardinality(Held(pending[c])) <= Cardinality(Held(latest) \ {i})
    BY <2>1, <2>2, FS_Subset
  <2> QED
    BY <2>2, <2>3, <1>2, <1>5 DEF Refuses
<1> QED
  BY <1>6, <1>7, <1>8

\* publish(): every chain still leads where it led, and the pending rows of a
\* registered client now reach the new end of the log.
LEMMA PublishStep ==
  ASSUME IInv, NEW i \in Instruments, Publish(i)
  PROVE  IInv'
<1> DEFINE n == Len(log) + 1
<1>0. /\ TypeOK /\ Len(log) \in Nat /\ n \in Nat /\ log \in Seq(Instruments)
      /\ log' = Append(log, i) /\ Len(log') = n
  BY LenProperties, AppendProperties DEF IInv, TypeOK, Publish
<1>1. TypeOK'
  BY <1>0, PublishTyped
<1>2. closer = "open" /\ toFlush = {} /\ UNCHANGED <<closer, toFlush>>
  BY DEF Publish, Closed, closeVars, IInv, CloserOK
<1>3. LatestOK'
  <2>1. IsDelta(latest', log', 0, Len(log'))
    <3>1. IsDelta(latest, log, 0, Len(log)) /\ latest \in [Instruments -> Nat]
      BY <1>0 DEF IInv, LatestOK, TypeOK
    <3>2. IsDelta([latest EXCEPT ![i] = Len(log) + 1], Append(log, i), 0, Len(log) + 1)
      <4>1. 0 \in Nat /\ 0 <= Len(log)
        BY <1>0
      <4> QED
        BY <1>0, <3>1, <4>1, DeltaExtends
    <3>3. latest' = [latest EXCEPT ![i] = Len(log) + 1]
      BY DEF Publish
    <3> QED
      BY <1>0, <3>2, <3>3
  <2>2. Held(latest') = Held(latest) \cup {i}
    BY <1>0 DEF Held, Publish, TypeOK
  <2>3. IsFiniteSet(Held(latest))
    BY LiveStreamAssumption, FS_Subset DEF Held
  <2>4. /\ Cardinality(Held(latest)) \in Nat
        /\ Cardinality(Held(latest) \cup {i}) =
             IF i \in Held(latest) THEN Cardinality(Held(latest))
             ELSE Cardinality(Held(latest)) + 1
    BY <2>3, FS_CardinalityType, FS_AddElement
  <2>5. Cardinality(Held(latest')) <= MaxInstruments
    <3>1. Cardinality(Held(latest)) <= MaxInstruments
      BY DEF IInv, LatestOK
    <3>2. i \notin Held(latest) => Cardinality(Held(latest)) < MaxInstruments
      BY DEF Held, Publish
    <3> QED
      BY <2>2, <2>4, <3>1, <3>2, LiveStreamAssumption
  <2> QED
    BY <2>1, <2>5 DEF LatestOK
<1>4. CloserOK'
  BY <1>2 DEF CloserOK
<1>5. NothingIsDropped'
  BY Room DEF IInv, NothingIsDropped, Publish
<1>6. SubscriberNeverFails'
  BY DEF IInv, SubscriberNeverFails, Publish, readerVars
<1>7. ASSUME NEW c \in Clients PROVE ClientOK(c)'
  <2>1. ClientOK(c) /\ UNCHANGED <<sent, wire, reader, seen, mark, cut>>
    BY DEF IInv, Publish, readerVars
  <2>2. /\ pending[c] \in [Instruments -> Nat] /\ sent[c] \in Nat /\ cut[c] \in Nat
        /\ mark[c] \in Nat /\ handler[c] \in HandlerStates
    BY <1>0 DEF TypeOK
  <2>3. /\ sent[c] <= Len(log) /\ cut[c] <= mark[c] /\ mark[c] <= Len(log)
        /\ IsDelta(seen[c], log, 0, cut[c])
    BY <2>1 DEF ClientOK, ConsumerOK
  <2>4. ConsumerOK(c)'
    <3>1. IsDelta(seen[c], log', 0, cut[c])
      BY <1>0, <2>2, <2>3, DeltaPersists
    <3>2. reader[c] = "reading" => WireOK(wire[c], log', cut[c], mark[c], sent[c])
      BY <1>0, <2>1, WireGrows DEF ClientOK, ConsumerOK, TypeOK
    <3> QED
      BY <1>0, <2>1, <2>2, <2>3, <3>1, <3>2 DEF ConsumerOK
  <2>5. CASE c \in Registered
    <3>1. Takes(c, i)
      BY <2>5, Room DEF Takes
    <3>2. /\ pending'[c] = [pending[c] EXCEPT ![i] = n]
          /\ event'[c] = TRUE
          /\ handler'[c] = IF handler[c] = "waiting" THEN "woken" ELSE handler[c]
      BY <3>1 DEF Publish
    <3>3. handler[c] \in {"sending", "waiting", "woken"}
      BY <2>5 DEF Registered
    <3>4. IsDelta(pending'[c], log', sent[c], Len(log'))
      <4>1. IsDelta(pending[c], log, sent[c], Len(log))
        BY <2>1, <2>5 DEF ClientOK, PendingOK
      <4>2. IsDelta([pending[c] EXCEPT ![i] = Len(log) + 1], Append(log, i), sent[c],
                    Len(log) + 1)
        BY <1>0, <2>2, <2>3, <4>1, DeltaExtends
      <4> QED
        BY <1>0, <3>2, <4>2
    <3>5. i \in Held(pending'[c])
      BY <1>0, <2>2, <3>2 DEF Held
    <3>6. WakeupOK(c)'
      BY <3>2, <3>3, <3>5 DEF WakeupOK, Held
    <3>7. Fresh(c)'
      BY <3>2, <3>3 DEF Fresh
    <3> QED
      BY <2>1, <2>4, <3>4, <3>6, <3>7 DEF ClientOK, PendingOK
  <2>6. CASE c \notin Registered
    <3>1. pending'[c] = pending[c] /\ event'[c] = event[c] /\ handler'[c] = handler[c]
      BY <2>6, <1>0 DEF Publish, Takes, TypeOK
    <3>2. c \notin Registered' /\ c \notin toFlush'
      BY <2>6, <3>1, <1>2 DEF Registered
    <3>3. Fresh(c)' /\ WakeupOK(c)'
      BY <2>1, <3>1 DEF ClientOK, Fresh, WakeupOK, Held
    <3> QED
      BY <2>4, <3>2, <3>3 DEF ClientOK, PendingOK
  <2> QED
    BY <2>5, <2>6
<1> QED
  BY <1>1, <1>3, <1>4, <1>5, <1>6, <1>7 DEF IInv

\* A connection none of whose state changes keeps its invariant.
LEMMA Others ==
  ASSUME NEW d \in Clients, ClientOK(d), log' = log,
         handler'[d] = handler[d], pending'[d] = pending[d], event'[d] = event[d],
         sent'[d] = sent[d], wire'[d] = wire[d], reader'[d] = reader[d],
         seen'[d] = seen[d], mark'[d] = mark[d], cut'[d] = cut[d],
         d \in toFlush' => d \in toFlush
  PROVE  ClientOK(d)'
BY DEF ClientOK, Fresh, ConsumerOK, PendingOK, WakeupOK, Registered, Held

\* A message that starts where the last one ended lengthens the chain.
LEMMA SendStep ==
  ASSUME TypeOK, NEW c \in Clients, ConsumerOK(c), NEW m \in MessageType,
         m.from = sent[c], sent[c] <= m.upto, m.upto <= Len(log), m.mark = Len(log),
         IsDelta(m.rows, log, sent[c], m.upto),
         wire'[c] = Append(wire[c], m), sent'[c] = m.upto,
         log' = log, UNCHANGED readerVars
  PROVE  ConsumerOK(c)'
<1>1. /\ wire[c] \in Seq(MessageType) /\ log \in Seq(Instruments)
      /\ cut[c] \in Nat /\ mark[c] \in Nat /\ sent[c] \in Nat
  BY DEF TypeOK
<1>2. reader[c] = "reading" => WireOK(Append(wire[c], m), log, cut[c], mark[c], m.upto)
  BY <1>1, WireAppends DEF ConsumerOK
<1> QED
  BY <1>2 DEF ConsumerOK, readerVars

\* The rows message of SendPending, and what it leaves behind.
LEMMA SendPendingStep ==
  ASSUME TypeOK, NEW c \in Clients, ConsumerOK(c), SendPending(c),
         IsDelta(pending[c], log, sent[c], Len(log)),
         log' = log, UNCHANGED readerVars
  PROVE  /\ ConsumerOK(c)'
         /\ IsDelta(pending'[c], log', sent'[c], Len(log'))
         /\ ~event'[c] /\ Held(pending'[c]) = {}
<1> DEFINE m == Message("rows", pending[c], sent[c], Len(log))
<1>1. Len(log) \in Nat /\ pending[c] \in [Instruments -> Nat] /\ sent[c] \in Nat
  BY LenProperties DEF TypeOK
<1>2. m \in MessageType
  BY <1>1, MessageIsTyped
<1>3. /\ m.from = sent[c] /\ m.upto = Len(log) /\ m.mark = Len(log)
      /\ m.rows = pending[c]
  BY DEF Message
<1>4. /\ wire'[c] = Append(wire[c], m) /\ sent'[c] = Len(log)
      /\ pending'[c] = NoRows /\ ~event'[c]
  BY DEF SendPending, TypeOK
<1>5. sent[c] <= Len(log)
  BY DEF ConsumerOK
<1>6. ConsumerOK(c)'
  <2> HIDE DEF m
  <2> QED
    BY <1>1, <1>2, <1>3, <1>4, <1>5, SendStep
<1>7. IsDelta(NoRows, log, Len(log), Len(log)) /\ Held(NoRows) = {}
  BY <1>1, EmptyDelta DEF Held, NoRows
<1> QED
  BY <1>4, <1>6, <1>7

LEMMA AcceptStep ==
  ASSUME IInv, NEW c \in Clients, Accept(c)
  PROVE  ClientOK(c)'
<1> DEFINE m == Message("snapshot", latest, 0, Len(log))
<1>1. /\ TypeOK /\ ClientOK(c) /\ handler[c] = "auth" /\ Len(log) \in Nat
      /\ latest \in [Instruments -> Nat] /\ UNCHANGED <<log, pending, event, toFlush>>
      /\ UNCHANGED readerVars
  BY LenProperties DEF IInv, TypeOK, Accept, publisherVars, closeVars
<1>2. sent[c] = 0 /\ pending[c] = NoRows
  BY <1>1 DEF ClientOK, Fresh
<1>3. m \in MessageType
  BY <1>1, MessageIsTyped
<1>4. m.from = 0 /\ m.upto = Len(log) /\ m.mark = Len(log) /\ m.rows = latest
  BY DEF Message
<1>5. /\ wire'[c] = Append(wire[c], m) /\ sent'[c] = Len(log)
      /\ handler'[c] = "sending"
  BY <1>1 DEF Accept, TypeOK
<1>6. IsDelta(latest, log, 0, Len(log))
  BY DEF IInv, LatestOK
<1>7. ConsumerOK(c)'
  <2>1. ConsumerOK(c) /\ 0 <= Len(log)
    BY <1>1 DEF ClientOK
  <2> HIDE DEF m
  <2> QED
    BY <1>1, <1>2, <1>3, <1>4, <1>5, <1>6, <2>1, SendStep
<1>8. IsDelta(NoRows, log, Len(log), Len(log))
  BY <1>1, EmptyDelta
<1>9. WakeupOK(c)'
  BY <1>1, <1>5 DEF ClientOK, WakeupOK, Held
<1> QED
  BY <1>1, <1>2, <1>5, <1>7, <1>8, <1>9 DEF ClientOK, Fresh, PendingOK

LEMMA HeartbeatStep ==
  ASSUME IInv, NEW c \in Clients, Heartbeat(c)
  PROVE  ClientOK(c)'
<1> DEFINE m == Message("heartbeat", NoRows, sent[c], sent[c])
<1>1. /\ TypeOK /\ ClientOK(c) /\ handler[c] \in {"waiting", "woken"}
      /\ UNCHANGED <<log, pending, event, sent, toFlush>> /\ UNCHANGED readerVars
      /\ sent[c] \in Nat /\ sent[c] <= Len(log)
  BY DEF IInv, TypeOK, Heartbeat, publisherVars, closeVars, ClientOK, ConsumerOK
<1>2. m \in MessageType
  BY <1>1, NoRowsIsTyped, MessageIsTyped
<1>3. m.from = sent[c] /\ m.upto = sent[c] /\ m.mark = Len(log) /\ m.rows = NoRows
  BY DEF Message
<1>4. wire'[c] = Append(wire[c], m) /\ handler'[c] = "sending"
  BY <1>1 DEF Heartbeat, TypeOK
<1>5. IsDelta(NoRows, log, sent[c], sent[c])
  BY <1>1, EmptyDelta
<1>6. ConsumerOK(c)'
  <2>1. ConsumerOK(c) /\ sent[c] <= sent[c] /\ sent'[c] = sent[c]
    BY <1>1 DEF ClientOK
  <2> HIDE DEF m
  <2> QED
    BY <1>1, <1>2, <1>3, <1>4, <1>5, <2>1, SendStep
<1>7. PendingOK(c)'
  <2>1. c \in Registered
    BY <1>1 DEF Registered
  <2> QED
    BY <1>1, <2>1 DEF ClientOK, PendingOK
<1> QED
  BY <1>1, <1>4, <1>6, <1>7 DEF ClientOK, Fresh, WakeupOK, Held

LEMMA SendRowsStep ==
  ASSUME IInv, NEW c \in Clients, SendRows(c)
  PROVE  ClientOK(c)'
<1>1. /\ TypeOK /\ ConsumerOK(c) /\ SendPending(c) /\ UNCHANGED log
      /\ UNCHANGED readerVars /\ handler'[c] = "sending"
  BY DEF IInv, ClientOK, SendRows, publisherVars, TypeOK
<1>2. IsDelta(pending[c], log, sent[c], Len(log))
  BY DEF IInv, ClientOK, PendingOK, Registered, SendRows
<1>3. /\ ConsumerOK(c)'
      /\ IsDelta(pending'[c], log', sent'[c], Len(log'))
      /\ ~event'[c] /\ Held(pending'[c]) = {}
  BY <1>1, <1>2, SendPendingStep
<1> QED
  BY <1>1, <1>3 DEF ClientOK, Fresh, PendingOK, WakeupOK, Held

\* The handler's other steps move only its own control.
LEMMA ControlStep ==
  ASSUME IInv, NEW c \in Clients, Connect(c) \/ Drained(c) \/ ConnectionLost(c)
  PROVE  ClientOK(c)'
<1>1. /\ TypeOK /\ ClientOK(c)
      /\ UNCHANGED <<log, pending, event, sent, wire, toFlush, reader, seen, mark, cut>>
  BY DEF IInv, Connect, Drained, ConnectionLost, publisherVars, closeVars, readerVars
<1>2. ConsumerOK(c)'
  BY <1>1 DEF ClientOK, ConsumerOK
<1>3. /\ handler'[c] \in {"absent", "auth"} => handler[c] \in {"absent", "auth"}
      /\ c \in Registered' => c \in Registered
      /\ handler'[c] = "waiting" => ~event[c]
  BY <1>1 DEF Connect, Drained, ConnectionLost, Registered, TypeOK
<1>4. Fresh(c)' /\ WakeupOK(c)'
  BY <1>1, <1>3 DEF ClientOK, Fresh, WakeupOK, Held
<1>5. PendingOK(c)'
  BY <1>1, <1>3 DEF ClientOK, PendingOK
<1> QED
  BY <1>2, <1>4, <1>5 DEF ClientOK

LEMMA HandlerInv ==
  ASSUME IInv, NEW c \in Clients, Connect(c) \/ HandlerStep(c)
  PROVE  IInv'
<1>1. TypeOK /\ TypeOK'
  BY HandlerTyped DEF IInv
<1>2. ClientOK(c)'
  BY AcceptStep, HeartbeatStep, SendRowsStep, ControlStep DEF HandlerStep
<1>3. /\ UNCHANGED <<log, latest, closer, toFlush>> /\ UNCHANGED readerVars
      /\ \A d \in Clients : dropped'[d] = 0 \/ dropped'[d] = dropped[d]
      /\ \A d \in Clients \ {c} :
           /\ handler'[d] = handler[d] /\ pending'[d] = pending[d]
           /\ event'[d] = event[d] /\ sent'[d] = sent[d] /\ wire'[d] = wire[d]
  BY <1>1 DEF HandlerStep, Connect, Accept, Drained, SendRows, SendPending, Heartbeat,
              ConnectionLost, publisherVars, closeVars, TypeOK
<1>4. \A d \in Clients : ClientOK(d)'
  BY <1>2, <1>3, Others DEF IInv, readerVars
<1>5. LatestOK' /\ SubscriberNeverFails' /\ NothingIsDropped'
  BY <1>3 DEF IInv, LatestOK, SubscriberNeverFails, NothingIsDropped, readerVars, Held
<1>6. CloserOK'
  <2>1. handler'[c] \in {"absent", "auth"} => handler[c] \in {"absent", "auth"}
    BY <1>1 DEF HandlerStep, Connect, Accept, Drained, SendRows, Heartbeat,
                ConnectionLost, TypeOK
  <2> QED
    BY <1>1, <1>3, <2>1 DEF IInv, CloserOK, TypeOK
<1> QED
  BY <1>1, <1>4, <1>5, <1>6 DEF IInv

LEMMA FlushStep ==
  ASSUME IInv, NEW c \in Clients, CloseFlush(c)
  PROVE  IInv'
<1>1. /\ TypeOK /\ ClientOK(c) /\ c \in toFlush /\ closer = "flushing"
      /\ toFlush' = toFlush \ {c}
      /\ UNCHANGED <<log, latest, closer, handler>> /\ UNCHANGED readerVars
  BY DEF IInv, CloseFlush, publisherVars
<1>2. TypeOK'
  BY <1>1, CloseTyped DEF CloseStep
<1>3. handler[c] \notin {"absent", "auth"}
  BY <1>1 DEF IInv, CloserOK
<1>4. ClientOK(c)' /\ dropped'[c] = 0
  <2>1. CASE SendPending(c)
    <3>1. IsDelta(pending[c], log, sent[c], Len(log)) /\ ConsumerOK(c)
      BY <1>1 DEF ClientOK, PendingOK
    <3>2. /\ ConsumerOK(c)'
          /\ IsDelta(pending'[c], log', sent'[c], Len(log'))
          /\ ~event'[c] /\ Held(pending'[c]) = {}
      BY <1>1, <2>1, <3>1, SendPendingStep
    <3>3. dropped'[c] = 0
      BY <1>1, <2>1 DEF SendPending, TypeOK
    <3> QED
      BY <1>1, <1>3, <3>2, <3>3 DEF ClientOK, Fresh, PendingOK, WakeupOK, Held
  <2>2. CASE ~SendPending(c)
    <3>1. /\ Held(pending[c]) = {} \/ handler[c] = "gone"
          /\ UNCHANGED <<sent, wire>>
          /\ pending'[c] = NoRows /\ ~event'[c] /\ dropped'[c] = 0
      BY <1>1, <2>2 DEF CloseFlush, TypeOK
    <3>2. ConsumerOK(c)'
      BY <1>1, <3>1 DEF ClientOK, ConsumerOK, readerVars
    <3>3. Held(NoRows) = {}
      BY DEF Held, NoRows
    <3>4. PendingOK(c)'
      <4>1. CASE handler[c] = "gone"
        BY <1>1, <4>1 DEF PendingOK, Registered
      <4>2. CASE Held(pending[c]) = {}
        <5>1. pending[c] = NoRows
          BY <1>1, <4>2 DEF Held, NoRows, TypeOK
        <5> QED
          BY <1>1, <3>1, <5>1 DEF ClientOK, PendingOK
      <4> QED
        BY <3>1, <4>1, <4>2
    <3> QED
      BY <1>1, <1>3, <3>1, <3>2, <3>3, <3>4 DEF ClientOK, Fresh, WakeupOK, Held
  <2> QED
    BY <2>1, <2>2
<1>5. ASSUME NEW d \in Clients, d # c
      PROVE  ClientOK(d)' /\ dropped'[d] = dropped[d]
  <2>1. /\ pending'[d] = pending[d] /\ event'[d] = event[d] /\ sent'[d] = sent[d]
        /\ wire'[d] = wire[d] /\ dropped'[d] = dropped[d]
    BY <1>1, <1>5 DEF CloseFlush, SendPending, TypeOK
  <2> QED
    BY <1>1, <1>5, <2>1, Others DEF IInv, readerVars
<1>6. NothingIsDropped'
  BY <1>4, <1>5 DEF IInv, NothingIsDropped
<1>7. LatestOK' /\ SubscriberNeverFails' /\ CloserOK'
  BY <1>1 DEF IInv, LatestOK, SubscriberNeverFails, CloserOK, readerVars, Held
<1> QED
  BY <1>2, <1>4, <1>5, <1>6, <1>7 DEF IInv

LEMMA CloseInv ==
  ASSUME IInv, CloseStep
  PROVE  IInv'
<1>0. TypeOK /\ TypeOK'
  BY CloseTyped DEF IInv
<1>1. CASE CloseBegin
  <2>1. /\ UNCHANGED <<log, latest, toFlush, handler, pending, event, dropped, sent,
                       wire, reader, seen, mark, cut>>
        /\ closer = "open" /\ closer' = "waiting"
    BY <1>1 DEF CloseBegin, publisherVars, clientVars, readerVars
  <2>2. \A d \in Clients : ClientOK(d)'
    BY <2>1, Others DEF IInv
  <2> QED
    BY <1>0, <2>1, <2>2
    DEF IInv, LatestOK, CloserOK, SubscriberNeverFails, NothingIsDropped, Held
<1>2. CASE CloseWaited
  <2>1. /\ UNCHANGED <<log, latest, handler, pending, event, dropped, sent,
                       wire, reader, seen, mark, cut>>
        /\ closer = "waiting" /\ closer' = "flushing" /\ toFlush' = Registered
    BY <1>2 DEF CloseWaited, publisherVars, clientVars, readerVars
  <2>2. ASSUME NEW d \in Clients PROVE ClientOK(d)'
    BY <2>1 DEF IInv, ClientOK, Fresh, ConsumerOK, PendingOK, WakeupOK, Registered, Held
  <2>3. CloserOK'
    BY <2>1 DEF CloserOK, Registered
  <2> QED
    BY <1>0, <2>1, <2>2, <2>3
    DEF IInv, LatestOK, SubscriberNeverFails, NothingIsDropped, Held
<1>3. ASSUME NEW c \in Clients, CloseDrained(c)
      PROVE  IInv'
  <2>1. UNCHANGED <<log, latest, closer, toFlush, handler, pending, event, dropped, sent,
                    wire, reader, seen, mark, cut>>
    BY <1>3 DEF CloseDrained, publisherVars, clientVars, readerVars
  <2>2. \A d \in Clients : ClientOK(d)'
    BY <2>1, Others DEF IInv
  <2> QED
    BY <1>0, <2>1, <2>2
    DEF IInv, LatestOK, CloserOK, SubscriberNeverFails, NothingIsDropped, Held
<1>4. CASE CloseFinish
  <2>1. /\ UNCHANGED <<log, latest, toFlush, pending, event, dropped, sent,
                       wire, reader, seen, mark, cut>>
        /\ toFlush = {} /\ closer' = "closed"
    BY <1>4 DEF CloseFinish, publisherVars, readerVars
  <2>2. ASSUME NEW d \in Clients PROVE ClientOK(d)'
    <3>1. handler'[d] = IF handler[d] = "absent" THEN "absent" ELSE "gone"
      BY <1>4 DEF CloseFinish
    <3>2. d \notin Registered' /\ d \notin toFlush'
      BY <2>1, <3>1 DEF Registered
    <3>3. ClientOK(d)
      BY DEF IInv
    <3>4. Fresh(d)' /\ WakeupOK(d)'
      BY <2>1, <3>1, <3>3 DEF ClientOK, Fresh, WakeupOK, Held
    <3> QED
      BY <2>1, <3>2, <3>3, <3>4 DEF ClientOK, ConsumerOK, PendingOK
  <2> QED
    BY <1>0, <2>1, <2>2
    DEF IInv, LatestOK, CloserOK, SubscriberNeverFails, NothingIsDropped, Held
<1> QED
  BY <1>1, <1>2, <1>3, <1>4, FlushStep DEF CloseStep

-----------------------------------------------------------------------------
(* The subscriber.                                                         *)

\* The first message always passes the checks of poll(), and it leads from
\* the moment the consumer is at to a later one.
LEMMA ReceiveFits ==
  ASSUME IInv, NEW c \in Clients, Receive(c)
  PROVE  LET m == Head(wire[c]) IN
         /\ m \in MessageType
         /\ Readable(m, c)
         /\ cut[c] <= m.upto /\ m.upto <= m.mark /\ m.mark <= Len(log)
         /\ IsDelta(Overlay(seen[c], m.rows), log, 0, m.upto)
         /\ \A i \in Instruments : seen[c][i] <= Overlay(seen[c], m.rows)[i]
         /\ \A i \in Instruments : Overlay(seen[c], m.rows)[i] \in 0..m.upto
         /\ WireOK(Tail(wire[c]), log, m.upto, m.mark, sent[c])
<1> DEFINE m == Head(wire[c])
<1>1. /\ wire[c] \in Seq(MessageType) /\ wire[c] # << >> /\ log \in Seq(Instruments)
      /\ Len(log) \in Nat /\ cut[c] \in Nat /\ mark[c] \in Nat /\ sent[c] \in Nat
      /\ seen[c] \in [Instruments -> Nat] /\ reader[c] = "reading"
  BY LenProperties DEF IInv, TypeOK, Receive
<1>2. WireOK(wire[c], log, cut[c], mark[c], sent[c]) /\ IsDelta(seen[c], log, 0, cut[c])
  BY <1>1 DEF IInv, ClientOK, ConsumerOK
<1>3. /\ m \in MessageType
      /\ m.from = cut[c] /\ cut[c] <= m.upto /\ m.upto <= m.mark
      /\ mark[c] <= m.mark /\ m.mark <= Len(log)
      /\ IsDelta(m.rows, log, cut[c], m.upto)
      /\ WireOK(Tail(wire[c]), log, m.upto, m.mark, sent[c])
  BY <1>1, <1>2, WireShrinks
<1>4. m.upto \in Nat /\ m.mark \in Nat /\ m.rows \in [Instruments -> Nat]
  BY <1>3 DEF MessageType
<1>5. /\ IsDelta(Overlay(seen[c], m.rows), log, 0, m.upto)
      /\ \A i \in Instruments : seen[c][i] <= Overlay(seen[c], m.rows)[i]
      /\ \A i \in Instruments : Overlay(seen[c], m.rows)[i] <= m.upto
  <2>1. 0 \in Nat /\ 0 <= cut[c]
    BY <1>1
  <2> HIDE DEF m
  <2> QED
    BY <1>1, <1>2, <1>3, <1>4, <2>1, DeltasCompose
<1>6. ASSUME NEW i \in Instruments PROVE m.rows[i] <= m.mark
  <2>1. m.rows[i] = 0 \/ m.rows[i] \in (cut[c] + 1)..m.upto
    BY <1>3 DEF IsDelta, Feed!IsDelta
  <2> QED
    BY <1>3, <1>4, <2>1
<1>7. Readable(m, c)
  BY <1>1, <1>3, <1>4, <1>6 DEF Readable
<1>8. \A i \in Instruments : Overlay(seen[c], m.rows)[i] \in 0..m.upto
  BY <1>1, <1>4, <1>5 DEF Overlay
<1> QED
  BY <1>3, <1>5, <1>7, <1>8

LEMMA ReceiveStep ==
  ASSUME IInv, NEW c \in Clients, Receive(c)
  PROVE  LET m == Head(wire[c]) IN
         /\ seen' = [seen EXCEPT ![c] = Overlay(seen[c], m.rows)]
         /\ mark' = [mark EXCEPT ![c] = m.mark]
         /\ cut' = [cut EXCEPT ![c] = m.upto]
         /\ wire' = [wire EXCEPT ![c] = Tail(wire[c])]
         /\ UNCHANGED reader
BY ReceiveFits DEF Receive

LEMMA ReaderInv ==
  ASSUME IInv, NEW c \in Clients, Receive(c) \/ Leave(c)
  PROVE  IInv'
<1>0. TypeOK /\ TypeOK' /\ ClientOK(c)
  BY ReaderTyped DEF IInv
<1>1. CASE Receive(c)
  <2> DEFINE m == Head(wire[c])
  <2>1. UNCHANGED <<log, latest, closer, toFlush, handler, pending, event, dropped, sent>>
    BY <1>1 DEF Receive, publisherVars, closeVars, clientVars
  <2>2. /\ seen'[c] = Overlay(seen[c], m.rows) /\ mark'[c] = m.mark /\ cut'[c] = m.upto
        /\ wire'[c] = Tail(wire[c]) /\ UNCHANGED reader
        /\ \A d \in Clients \ {c} : /\ seen'[d] = seen[d] /\ mark'[d] = mark[d]
                                    /\ cut'[d] = cut[d] /\ wire'[d] = wire[d]
    BY <1>0, <1>1, ReceiveStep DEF TypeOK
  <2>3. /\ cut[c] <= m.upto /\ m.upto <= m.mark /\ m.mark <= Len(log)
        /\ IsDelta(Overlay(seen[c], m.rows), log, 0, m.upto)
        /\ WireOK(Tail(wire[c]), log, m.upto, m.mark, sent[c])
    BY <1>1, ReceiveFits
  <2>4. ConsumerOK(c)'
    <3>1. sent[c] <= Len(log)
      BY <1>0 DEF ClientOK, ConsumerOK
    <3> HIDE DEF m
    <3> QED
      BY <2>1, <2>2, <2>3, <3>1 DEF ConsumerOK
  <2>5. handler[c] \notin {"absent", "auth"}
    BY <1>0, <1>1 DEF ClientOK, Fresh, Receive
  <2>6. ClientOK(c)'
    BY <1>0, <2>1, <2>4, <2>5 DEF ClientOK, Fresh, PendingOK, WakeupOK, Registered, Held
  <2>7. \A d \in Clients \ {c} : ClientOK(d)'
    BY <2>1, <2>2, Others DEF IInv
  <2> QED
    BY <1>0, <2>1, <2>2, <2>6, <2>7
    DEF IInv, LatestOK, CloserOK, SubscriberNeverFails, NothingIsDropped, Held
<1>2. CASE Leave(c)
  <2>1. /\ UNCHANGED <<log, latest, closer, toFlush, handler, pending, event, dropped,
                       sent, seen, mark, cut>>
        /\ reader'[c] = "left" /\ wire'[c] = << >>
        /\ \A d \in Clients \ {c} : reader'[d] = reader[d] /\ wire'[d] = wire[d]
    BY <1>0, <1>2 DEF Leave, publisherVars, closeVars, clientVars, TypeOK
  <2>2. ClientOK(c)'
    BY <1>0, <2>1
    DEF ClientOK, Fresh, ConsumerOK, PendingOK, WakeupOK, Registered, Held
  <2>3. \A d \in Clients \ {c} : ClientOK(d)'
    BY <2>1, Others DEF IInv
  <2>4. SubscriberNeverFails'
    BY <2>1 DEF IInv, SubscriberNeverFails
  <2> QED
    BY <1>0, <2>1, <2>2, <2>3, <2>4 DEF IInv, LatestOK, CloserOK, NothingIsDropped, Held
<1> QED
  BY <1>1, <1>2

-----------------------------------------------------------------------------
(* The theorems.                                                           *)

LEMMA StepInv == IInv /\ [Next]_vars => IInv'
<1> SUFFICES ASSUME IInv, [Next]_vars PROVE IInv'
  OBVIOUS
<1>1. CASE UNCHANGED vars
  <2>1. TypeOK'
    BY <1>1, StepTyped DEF IInv
  <2>2. UNCHANGED <<log, latest, closer, toFlush, handler, pending, event, dropped, sent,
                    wire, reader, seen, mark, cut>>
    BY <1>1 DEF vars, publisherVars, closeVars, clientVars, readerVars
  <2>3. \A d \in Clients : ClientOK(d)'
    BY <2>2, Others DEF IInv
  <2> QED
    BY <2>1, <2>2, <2>3
    DEF IInv, LatestOK, CloserOK, SubscriberNeverFails, NothingIsDropped, Held
<1> QED
  BY <1>1, PublishStep, HandlerInv, CloseInv, ReaderInv DEF Next

LEMMA Inductive == Spec => []IInv
BY InitInv, StepInv, PTL DEF Spec

\* What a consumer holds is the publisher's latest-value table of one moment,
\* whatever was coalesced and however messages and rows interleave.
THEOREM ConsumersSeeMoments == Spec => []SeenIsAMoment
<1>1. IInv => SeenIsAMoment
  BY DEF IInv, ClientOK, ConsumerOK, SeenIsAMoment, Feed!IsViewAt, IsDelta
<1> QED
  BY <1>1, Inductive, PTL

\* LiveRowSubscriber.poll never raises because of counters or watermarks.
THEOREM PollNeverFails == Spec => []SubscriberNeverFails
<1>1. IInv => SubscriberNeverFails
  BY DEF IInv
<1> QED
  BY <1>1, Inductive, PTL

\* _ClientState.offer never drops an instrument of a registered client.
THEOREM OfferNeverDrops == Spec => []NothingIsDropped
<1>1. IInv => NothingIsDropped
  BY DEF IInv
<1> QED
  BY <1>1, Inductive, PTL

\* No handler sleeps while its client has rows pending.
THEOREM NoWakeupIsLost == Spec => []NoLostWakeup
<1>1. IInv => NoLostWakeup
  BY DEF IInv, ClientOK, WakeupOK, NoLostWakeup
<1> QED
  BY <1>1, Inductive, PTL

\* What a registered client was sent and what is pending make up the log.
THEOREM PendingCompletesTheLog == Spec => []NothingIsForgotten
<1>1. IInv => NothingIsForgotten
  BY DEF IInv, ClientOK, PendingOK, NothingIsForgotten, Registered, IsDelta
<1> QED
  BY <1>1, Inductive, PTL

\* Receiving a message is a catch-up of the feed; publishing a row is the
\* feed's publication; every other step leaves the feed alone.
LEMMA StepImplements == IInv /\ [Next]_vars => [Feed!FeedNext]_(Feed!feedVars)
<1> SUFFICES ASSUME IInv, [Next]_vars PROVE [Feed!FeedNext]_(Feed!feedVars)
  OBVIOUS
<1>1. ASSUME NEW i \in Instruments, Publish(i)
      PROVE  Feed!FeedPublish
  BY <1>1 DEF Publish, readerVars, Feed!FeedPublish
<1>2. ASSUME NEW c \in Clients, Receive(c)
      PROVE  Feed!FeedCatchUp(c)
  <2> DEFINE m == Head(wire[c])
             v == Overlay(seen[c], m.rows)
  <2>1. /\ m \in MessageType /\ m.upto <= m.mark /\ m.mark <= Len(log)
        /\ IsDelta(v, log, 0, m.upto)
        /\ \A i \in Instruments : seen[c][i] <= v[i]
        /\ \A i \in Instruments : v[i] \in 0..m.upto
    BY <1>2, ReceiveFits
  <2>2. seen' = [seen EXCEPT ![c] = v]
    BY <1>2, ReceiveStep
  <2>3. UNCHANGED log
    BY <1>2 DEF Receive, publisherVars
  <2>4. m.upto \in 0..Len(log)
    <3>1. m.upto \in Nat /\ m.mark \in Nat /\ Len(log) \in Nat
      BY <2>1, LenProperties DEF MessageType, IInv, TypeOK
    <3> QED
      BY <2>1, <3>1
  <2>5. v \in [Instruments -> 0..m.upto]
    BY <2>1 DEF Overlay
  <2> QED
    BY <2>1, <2>2, <2>3, <2>4, <2>5 DEF Feed!FeedCatchUp, Feed!IsViewAt, IsDelta
<1>3. ASSUME NEW c \in Clients, Connect(c) \/ HandlerStep(c) \/ Leave(c)
      PROVE  UNCHANGED Feed!feedVars
  BY <1>3 DEF Connect, HandlerStep, Accept, Drained, SendRows, Heartbeat, ConnectionLost,
              Leave, SendPending, publisherVars, readerVars, Feed!feedVars
<1>4. CASE CloseStep
  BY <1>4 DEF CloseStep, CloseBegin, CloseWaited, CloseFlush, CloseDrained,
              CloseFinish, publisherVars, readerVars, Feed!feedVars
<1>5. CASE UNCHANGED vars
  BY <1>5 DEF vars, publisherVars, readerVars, Feed!feedVars
<1> QED
  BY <1>1, <1>2, <1>3, <1>4, <1>5 DEF Next, Feed!FeedNext

\* The publisher, its handlers and the subscribers together are a
\* latest-value feed: rows accepted in order, consumers shown moments of it.
THEOREM StreamIsAFeed == Spec => ImplementsFeed
<1>1. Init => Feed!FeedInit
  BY DEF Init, Feed!FeedInit, NoRows, Feed!NoRows
<1> QED
  BY <1>1, StepImplements, Inductive, PTL DEF Spec, ImplementsFeed, Feed!FeedSpec

-----------------------------------------------------------------------------
\* The steps of a process whose registration has been tried.
Past == {"capturing", "releasing", "done", "dead"}

\* A claim is its request's, and its owner is registering or past that.
ClaimsAreTaken ==
    \A r \in Requests :
        claim[r] \in Processes =>
            Want(claim[r]) = r /\ step[claim[r]] \in Past \cup {"register"}

\* A process that is not past its registration has no dataset, and one that
\* captures has an active one, which ends before the claim is released; a live
\* process answers a signal.
DatasetsAreTheirs ==
    /\ failing \subseteq RegistrationFails
    /\ \A p \in Processes :
        /\ status[p] # "none" => step[p] \in Past
        /\ step[p] = "capturing" => status[p] = "active"
        /\ step[p] = "releasing" => status[p] # "active"
        /\ step[p] # "dead" => p \in pids

\* What the process inside create() has found out.
FoundNoCapture(p) ==
    step[p] \in Inside \ {"active"} =>
        \A q \in Processes : step[q] = "capturing" => ~Satisfies(q, p)

FoundOwner(p) ==
    /\ step[p] \in {"probe", "orphan", "unclaim"} =>
        /\ owner[p] \in Processes /\ Want(owner[p]) = Want(p)
        /\ step[owner[p]] \in Past
        /\ claim[Want(p)] \in {owner[p], "none"}
        /\ statusRead[p] # "active" => status[owner[p]] # "active"
    /\ step[p] \in {"orphan", "unclaim"} => step[owner[p]] = "dead"
    /\ step[p] = "unclaim" => status[owner[p]] # "active"

TookClaim(p) ==
    /\ step[p] = "write" => claim[Want(p)] = "torn"
    /\ step[p] = "register" => claim[Want(p)] = p

InCreate == \A p \in Processes : FoundNoCapture(p) /\ FoundOwner(p) /\ TookClaim(p)

AcquisitionInv ==
    /\ AcquisitionTypeOK
    /\ ClaimsAreTaken
    /\ DatasetsAreTheirs
    /\ InCreate
    /\ CaptureOwnsItsClaim
    /\ AbandonedIsFound

-----------------------------------------------------------------------------
LEMMA InitAcquires == AcquisitionInit => AcquisitionInv
BY ProcessesAssumption
   DEF AcquisitionInit, AcquisitionInv, AcquisitionTypeOK, ClaimsAreTaken, DatasetsAreTheirs,
          InCreate, FoundNoCapture, FoundOwner,
       TookClaim, CaptureOwnsItsClaim, AbandonedIsFound, Inside, Steps, Past, Requests, Want

LEMMA EnterKeeps ==
  ASSUME AcquisitionInv, NEW p \in Processes, Enter(p)
  PROVE  AcquisitionInv'
<1> USE ProcessesAssumption DEF Enter, Goto, LeaveCreate, SetClaim, catalogue, read, Requests,
       Want
<1>1. AcquisitionTypeOK'
  BY DEF AcquisitionInv, AcquisitionTypeOK, Inside, Steps
<1>2. ClaimsAreTaken'
  BY DEF AcquisitionInv, AcquisitionTypeOK, ClaimsAreTaken, InCreate, TookClaim, Past, Inside,
         Steps
<1>3. DatasetsAreTheirs'
  BY DEF AcquisitionInv, AcquisitionTypeOK, DatasetsAreTheirs, Past, Steps
<1>4. ASSUME NEW q \in Processes
      PROVE  FoundNoCapture(q)' /\ FoundOwner(q)' /\ TookClaim(q)'
  <2>1. FoundNoCapture(q)'
    BY DEF AcquisitionInv, AcquisitionTypeOK, DatasetsAreTheirs, InCreate, FoundNoCapture,
           Inside, Steps, Satisfies
  <2>2. FoundOwner(q)'
    BY DEF AcquisitionInv, AcquisitionTypeOK, ClaimsAreTaken, DatasetsAreTheirs, InCreate,
           FoundOwner, Past, Inside, Steps
  <2>3. TookClaim(q)'
    BY DEF AcquisitionInv, AcquisitionTypeOK, InCreate, TookClaim, Inside, Steps
  <2> QED
    BY <2>1, <2>2, <2>3
<1>5. CaptureOwnsItsClaim'
  BY DEF AcquisitionInv, AcquisitionTypeOK, InCreate, FoundOwner, TookClaim,
         CaptureOwnsItsClaim, Inside, Steps
<1>6. AbandonedIsFound'
  BY DEF AcquisitionInv, AcquisitionTypeOK, DatasetsAreTheirs, InCreate, FoundOwner, TookClaim,
         AbandonedIsFound, Inside, Steps, Past
<1> QED
  BY <1>1, <1>2, <1>3, <1>4, <1>5, <1>6 DEF AcquisitionInv, InCreate

LEMMA CheckActiveKeeps ==
  ASSUME AcquisitionInv, NEW p \in Processes, CheckActive(p)
  PROVE  AcquisitionInv'
<1> USE ProcessesAssumption DEF CheckActive, Goto, LeaveCreate, SetClaim, catalogue, read,
       Requests, Want
<1>1. AcquisitionTypeOK'
  BY DEF AcquisitionInv, AcquisitionTypeOK, Inside, Steps
<1>2. ClaimsAreTaken'
  BY DEF AcquisitionInv, AcquisitionTypeOK, ClaimsAreTaken, InCreate, TookClaim, Past, Inside,
         Steps
<1>3. DatasetsAreTheirs'
  BY DEF AcquisitionInv, AcquisitionTypeOK, DatasetsAreTheirs, Past, Steps
<1>4. ASSUME NEW q \in Processes
      PROVE  FoundNoCapture(q)' /\ FoundOwner(q)' /\ TookClaim(q)'
  <2>1. FoundNoCapture(q)'
    BY DEF AcquisitionInv, AcquisitionTypeOK, DatasetsAreTheirs, InCreate, FoundNoCapture,
           Inside, Steps, Satisfies
  <2>2. FoundOwner(q)'
    BY DEF AcquisitionInv, AcquisitionTypeOK, ClaimsAreTaken, DatasetsAreTheirs, InCreate,
           FoundOwner, Past, Inside, Steps
  <2>3. TookClaim(q)'
    BY DEF AcquisitionInv, AcquisitionTypeOK, InCreate, TookClaim, Inside, Steps
  <2> QED
    BY <2>1, <2>2, <2>3
<1>5. CaptureOwnsItsClaim'
  BY DEF AcquisitionInv, AcquisitionTypeOK, InCreate, FoundOwner, TookClaim,
         CaptureOwnsItsClaim, Inside, Steps
<1>6. AbandonedIsFound'
  BY DEF AcquisitionInv, AcquisitionTypeOK, DatasetsAreTheirs, InCreate, FoundOwner, TookClaim,
         AbandonedIsFound, Inside, Steps, Past
<1> QED
  BY <1>1, <1>2, <1>3, <1>4, <1>5, <1>6 DEF AcquisitionInv, InCreate

LEMMA ReadClaimKeeps ==
  ASSUME AcquisitionInv, NEW p \in Processes, ReadClaim(p)
  PROVE  AcquisitionInv'
<1> USE ProcessesAssumption DEF ReadClaim, Goto, LeaveCreate, SetClaim, catalogue, read,
       Requests, Want
<1>1. AcquisitionTypeOK'
  BY DEF AcquisitionInv, AcquisitionTypeOK, Inside, Steps
<1>2. ClaimsAreTaken'
  BY DEF AcquisitionInv, AcquisitionTypeOK, ClaimsAreTaken, InCreate, TookClaim, Past, Inside,
         Steps
<1>3. DatasetsAreTheirs'
  BY DEF AcquisitionInv, AcquisitionTypeOK, DatasetsAreTheirs, Past, Steps
<1>4. ASSUME NEW q \in Processes
      PROVE  FoundNoCapture(q)' /\ FoundOwner(q)' /\ TookClaim(q)'
  <2>1. FoundNoCapture(q)'
    BY DEF AcquisitionInv, AcquisitionTypeOK, DatasetsAreTheirs, InCreate, FoundNoCapture,
           Inside, Steps, Satisfies
  <2>2. FoundOwner(q)'
    BY DEF AcquisitionInv, AcquisitionTypeOK, ClaimsAreTaken, DatasetsAreTheirs, InCreate,
           FoundOwner, Past, Inside, Steps
  <2>3. TookClaim(q)'
    BY DEF AcquisitionInv, AcquisitionTypeOK, InCreate, TookClaim, Inside, Steps
  <2> QED
    BY <2>1, <2>2, <2>3
<1>5. CaptureOwnsItsClaim'
  BY DEF AcquisitionInv, AcquisitionTypeOK, InCreate, FoundOwner, TookClaim,
         CaptureOwnsItsClaim, Inside, Steps
<1>6. AbandonedIsFound'
  BY DEF AcquisitionInv, AcquisitionTypeOK, DatasetsAreTheirs, InCreate, FoundOwner, TookClaim,
         AbandonedIsFound, Inside, Steps, Past
<1> QED
  BY <1>1, <1>2, <1>3, <1>4, <1>5, <1>6 DEF AcquisitionInv, InCreate

LEMMA ProbeKeeps ==
  ASSUME AcquisitionInv, NEW p \in Processes, Probe(p)
  PROVE  AcquisitionInv'
<1> USE ProcessesAssumption DEF Probe, Goto, LeaveCreate, SetClaim, catalogue, read, Requests,
       Want
<1>1. AcquisitionTypeOK'
  BY DEF AcquisitionInv, AcquisitionTypeOK, Inside, Steps
<1>2. ClaimsAreTaken'
  BY DEF AcquisitionInv, AcquisitionTypeOK, ClaimsAreTaken, InCreate, TookClaim, Past, Inside,
         Steps
<1>3. DatasetsAreTheirs'
  BY DEF AcquisitionInv, AcquisitionTypeOK, DatasetsAreTheirs, Past, Steps
<1>4. ASSUME NEW q \in Processes
      PROVE  FoundNoCapture(q)' /\ FoundOwner(q)' /\ TookClaim(q)'
  <2>1. FoundNoCapture(q)'
    BY DEF AcquisitionInv, AcquisitionTypeOK, DatasetsAreTheirs, InCreate, FoundNoCapture,
           Inside, Steps, Satisfies
  <2>2. FoundOwner(q)'
    BY DEF AcquisitionInv, AcquisitionTypeOK, ClaimsAreTaken, DatasetsAreTheirs, InCreate,
           FoundOwner, Past, Inside, Steps
  <2>3. TookClaim(q)'
    BY DEF AcquisitionInv, AcquisitionTypeOK, InCreate, TookClaim, Inside, Steps
  <2> QED
    BY <2>1, <2>2, <2>3
<1>5. CaptureOwnsItsClaim'
  BY DEF AcquisitionInv, AcquisitionTypeOK, InCreate, FoundOwner, TookClaim,
         CaptureOwnsItsClaim, Inside, Steps
<1>6. AbandonedIsFound'
  BY DEF AcquisitionInv, AcquisitionTypeOK, DatasetsAreTheirs, InCreate, FoundOwner, TookClaim,
         AbandonedIsFound, Inside, Steps, Past
<1> QED
  BY <1>1, <1>2, <1>3, <1>4, <1>5, <1>6 DEF AcquisitionInv, InCreate

LEMMA OrphanKeeps ==
  ASSUME AcquisitionInv, NEW p \in Processes, Orphan(p)
  PROVE  AcquisitionInv'
<1> USE ProcessesAssumption DEF Orphan, Goto, LeaveCreate, SetClaim, catalogue, read, Requests,
       Want
<1>1. AcquisitionTypeOK'
  BY DEF AcquisitionInv, AcquisitionTypeOK, Inside, Steps
<1>2. ClaimsAreTaken'
  BY DEF AcquisitionInv, AcquisitionTypeOK, ClaimsAreTaken, InCreate, TookClaim, Past, Inside,
         Steps
<1>3. DatasetsAreTheirs'
  BY DEF AcquisitionInv, AcquisitionTypeOK, DatasetsAreTheirs, InCreate, FoundOwner, Past, Steps
<1>4. ASSUME NEW q \in Processes
      PROVE  FoundNoCapture(q)' /\ FoundOwner(q)' /\ TookClaim(q)'
  <2>1. FoundNoCapture(q)'
    BY DEF AcquisitionInv, AcquisitionTypeOK, DatasetsAreTheirs, InCreate, FoundNoCapture,
           Inside, Steps, Satisfies
  <2>2. FoundOwner(q)'
    BY DEF AcquisitionInv, AcquisitionTypeOK, ClaimsAreTaken, DatasetsAreTheirs, InCreate,
           FoundOwner, Past, Inside, Steps
  <2>3. TookClaim(q)'
    BY DEF AcquisitionInv, AcquisitionTypeOK, InCreate, TookClaim, Inside, Steps
  <2> QED
    BY <2>1, <2>2, <2>3
<1>5. CaptureOwnsItsClaim'
  BY DEF AcquisitionInv, AcquisitionTypeOK, InCreate, FoundOwner, TookClaim,
         CaptureOwnsItsClaim, Inside, Steps
<1>6. AbandonedIsFound'
  BY DEF AcquisitionInv, AcquisitionTypeOK, DatasetsAreTheirs, InCreate, FoundOwner, TookClaim,
         AbandonedIsFound, Inside, Steps, Past
<1> QED
  BY <1>1, <1>2, <1>3, <1>4, <1>5, <1>6 DEF AcquisitionInv, InCreate

LEMMA UnclaimKeeps ==
  ASSUME AcquisitionInv, NEW p \in Processes, Unclaim(p)
  PROVE  AcquisitionInv'
<1> USE ProcessesAssumption DEF Unclaim, Goto, LeaveCreate, SetClaim, catalogue, read,
       Requests, Want
<1>1. AcquisitionTypeOK'
  BY DEF AcquisitionInv, AcquisitionTypeOK, Inside, Steps
<1>2. ClaimsAreTaken'
  BY DEF AcquisitionInv, AcquisitionTypeOK, ClaimsAreTaken, InCreate, TookClaim, Past, Inside,
         Steps
<1>3. DatasetsAreTheirs'
  BY DEF AcquisitionInv, AcquisitionTypeOK, DatasetsAreTheirs, Past, Steps
<1>4. ASSUME NEW q \in Processes
      PROVE  FoundNoCapture(q)' /\ FoundOwner(q)' /\ TookClaim(q)'
  <2>1. FoundNoCapture(q)'
    BY DEF AcquisitionInv, AcquisitionTypeOK, DatasetsAreTheirs, InCreate, FoundNoCapture,
           Inside, Steps, Satisfies
  <2>2. FoundOwner(q)'
    BY DEF AcquisitionInv, AcquisitionTypeOK, ClaimsAreTaken, DatasetsAreTheirs, InCreate,
           FoundOwner, Past, Inside, Steps
  <2>3. TookClaim(q)'
    BY DEF AcquisitionInv, AcquisitionTypeOK, InCreate, TookClaim, Inside, Steps
  <2> QED
    BY <2>1, <2>2, <2>3
<1>5. CaptureOwnsItsClaim'
  BY DEF AcquisitionInv, AcquisitionTypeOK, InCreate, FoundOwner, TookClaim,
         CaptureOwnsItsClaim, Inside, Steps
<1>6. AbandonedIsFound'
  BY DEF AcquisitionInv, AcquisitionTypeOK, DatasetsAreTheirs, InCreate, FoundOwner, TookClaim,
         AbandonedIsFound, Inside, Steps, Past
<1> QED
  BY <1>1, <1>2, <1>3, <1>4, <1>5, <1>6 DEF AcquisitionInv, InCreate

LEMMA CreateClaimKeeps ==
  ASSUME AcquisitionInv, NEW p \in Processes, CreateClaim(p)
  PROVE  AcquisitionInv'
<1> USE ProcessesAssumption DEF CreateClaim, Goto, LeaveCreate, SetClaim, catalogue, read,
       Requests, Want
<1>1. AcquisitionTypeOK'
  BY DEF AcquisitionInv, AcquisitionTypeOK, Inside, Steps
<1>2. ClaimsAreTaken'
  BY DEF AcquisitionInv, AcquisitionTypeOK, ClaimsAreTaken, InCreate, TookClaim, Past, Inside,
         Steps
<1>3. DatasetsAreTheirs'
  BY DEF AcquisitionInv, AcquisitionTypeOK, DatasetsAreTheirs, Past, Steps
<1>4. ASSUME NEW q \in Processes
      PROVE  FoundNoCapture(q)' /\ FoundOwner(q)' /\ TookClaim(q)'
  <2>1. FoundNoCapture(q)'
    BY DEF AcquisitionInv, AcquisitionTypeOK, DatasetsAreTheirs, InCreate, FoundNoCapture,
           Inside, Steps, Satisfies
  <2>2. FoundOwner(q)'
    BY DEF AcquisitionInv, AcquisitionTypeOK, ClaimsAreTaken, DatasetsAreTheirs, InCreate,
           FoundOwner, Past, Inside, Steps
  <2>3. TookClaim(q)'
    BY DEF AcquisitionInv, AcquisitionTypeOK, InCreate, TookClaim, Inside, Steps
  <2> QED
    BY <2>1, <2>2, <2>3
<1>5. CaptureOwnsItsClaim'
  BY DEF AcquisitionInv, AcquisitionTypeOK, InCreate, FoundOwner, TookClaim,
         CaptureOwnsItsClaim, Inside, Steps
<1>6. AbandonedIsFound'
  BY DEF AcquisitionInv, AcquisitionTypeOK, DatasetsAreTheirs, InCreate, FoundOwner, TookClaim,
         AbandonedIsFound, Inside, Steps, Past
<1> QED
  BY <1>1, <1>2, <1>3, <1>4, <1>5, <1>6 DEF AcquisitionInv, InCreate

LEMMA WriteClaimKeeps ==
  ASSUME AcquisitionInv, NEW p \in Processes, WriteClaim(p)
  PROVE  AcquisitionInv'
<1> USE ProcessesAssumption DEF WriteClaim, Goto, LeaveCreate, SetClaim, catalogue, read,
       Requests, Want
<1>1. AcquisitionTypeOK'
  BY DEF AcquisitionInv, AcquisitionTypeOK, Inside, Steps
<1>2. ClaimsAreTaken'
  BY DEF AcquisitionInv, AcquisitionTypeOK, ClaimsAreTaken, InCreate, TookClaim, Past, Inside,
         Steps
<1>3. DatasetsAreTheirs'
  BY DEF AcquisitionInv, AcquisitionTypeOK, DatasetsAreTheirs, Past, Steps
<1>4. ASSUME NEW q \in Processes
      PROVE  FoundNoCapture(q)' /\ FoundOwner(q)' /\ TookClaim(q)'
  <2>1. FoundNoCapture(q)'
    BY DEF AcquisitionInv, AcquisitionTypeOK, DatasetsAreTheirs, InCreate, FoundNoCapture,
           Inside, Steps, Satisfies
  <2>2. FoundOwner(q)'
    BY DEF AcquisitionInv, AcquisitionTypeOK, ClaimsAreTaken, DatasetsAreTheirs, InCreate,
           FoundOwner, Past, Inside, Steps
  <2>3. TookClaim(q)'
    BY DEF AcquisitionInv, AcquisitionTypeOK, InCreate, TookClaim, Inside, Steps
  <2> QED
    BY <2>1, <2>2, <2>3
<1>5. CaptureOwnsItsClaim'
  BY DEF AcquisitionInv, AcquisitionTypeOK, InCreate, FoundOwner, TookClaim,
         CaptureOwnsItsClaim, Inside, Steps
<1>6. AbandonedIsFound'
  BY DEF AcquisitionInv, AcquisitionTypeOK, DatasetsAreTheirs, InCreate, FoundOwner, TookClaim,
         AbandonedIsFound, Inside, Steps, Past
<1> QED
  BY <1>1, <1>2, <1>3, <1>4, <1>5, <1>6 DEF AcquisitionInv, InCreate

LEMMA RegisterKeeps ==
  ASSUME AcquisitionInv, NEW p \in Processes, Register(p)
  PROVE  AcquisitionInv'
<1> USE ProcessesAssumption DEF Register, Goto, LeaveCreate, SetClaim, catalogue, read,
       Requests, Want
<1>1. AcquisitionTypeOK'
  BY DEF AcquisitionInv, AcquisitionTypeOK, Inside, Steps
<1>2. ClaimsAreTaken'
  BY DEF AcquisitionInv, AcquisitionTypeOK, ClaimsAreTaken, InCreate, TookClaim, Past, Inside,
         Steps
<1>3. DatasetsAreTheirs'
  BY DEF AcquisitionInv, AcquisitionTypeOK, DatasetsAreTheirs, Past, Steps
<1>4. ASSUME NEW q \in Processes
      PROVE  FoundNoCapture(q)' /\ FoundOwner(q)' /\ TookClaim(q)'
  <2>1. FoundNoCapture(q)'
    BY DEF AcquisitionInv, AcquisitionTypeOK, DatasetsAreTheirs, InCreate, FoundNoCapture,
           Inside, Steps, Satisfies
  <2>2. FoundOwner(q)'
    BY DEF AcquisitionInv, AcquisitionTypeOK, ClaimsAreTaken, DatasetsAreTheirs, InCreate,
           FoundOwner, Past, Inside, Steps
  <2>3. TookClaim(q)'
    BY DEF AcquisitionInv, AcquisitionTypeOK, InCreate, TookClaim, Inside, Steps
  <2> QED
    BY <2>1, <2>2, <2>3
<1>5. CaptureOwnsItsClaim'
  BY DEF AcquisitionInv, AcquisitionTypeOK, InCreate, FoundOwner, TookClaim,
         CaptureOwnsItsClaim, Inside, Steps
<1>6. AbandonedIsFound'
  BY DEF AcquisitionInv, AcquisitionTypeOK, DatasetsAreTheirs, InCreate, FoundOwner, TookClaim,
         AbandonedIsFound, Inside, Steps, Past
<1> QED
  BY <1>1, <1>2, <1>3, <1>4, <1>5, <1>6 DEF AcquisitionInv, InCreate

LEMMA RegisterFailsKeeps ==
  ASSUME AcquisitionInv, NEW p \in Processes, RegisterFails(p)
  PROVE  AcquisitionInv'
<1> USE ProcessesAssumption DEF RegisterFails, Goto, LeaveCreate, SetClaim, catalogue, read,
       Requests, Want
<1>1. AcquisitionTypeOK'
  BY DEF AcquisitionInv, AcquisitionTypeOK, Inside, Steps
<1>2. ClaimsAreTaken'
  BY DEF AcquisitionInv, AcquisitionTypeOK, ClaimsAreTaken, InCreate, TookClaim, Past, Inside,
         Steps
<1>3. DatasetsAreTheirs'
  BY DEF AcquisitionInv, AcquisitionTypeOK, DatasetsAreTheirs, Past, Steps
<1>4. ASSUME NEW q \in Processes
      PROVE  FoundNoCapture(q)' /\ FoundOwner(q)' /\ TookClaim(q)'
  <2>1. FoundNoCapture(q)'
    BY DEF AcquisitionInv, AcquisitionTypeOK, DatasetsAreTheirs, InCreate, FoundNoCapture,
           Inside, Steps, Satisfies
  <2>2. FoundOwner(q)'
    BY DEF AcquisitionInv, AcquisitionTypeOK, ClaimsAreTaken, DatasetsAreTheirs, InCreate,
           FoundOwner, Past, Inside, Steps
  <2>3. TookClaim(q)'
    BY DEF AcquisitionInv, AcquisitionTypeOK, InCreate, TookClaim, Inside, Steps
  <2> QED
    BY <2>1, <2>2, <2>3
<1>5. CaptureOwnsItsClaim'
  BY DEF AcquisitionInv, AcquisitionTypeOK, InCreate, FoundOwner, TookClaim,
         CaptureOwnsItsClaim, Inside, Steps
<1>6. AbandonedIsFound'
  BY DEF AcquisitionInv, AcquisitionTypeOK, DatasetsAreTheirs, InCreate, FoundOwner, TookClaim,
         AbandonedIsFound, Inside, Steps, Past
<1> QED
  BY <1>1, <1>2, <1>3, <1>4, <1>5, <1>6 DEF AcquisitionInv, InCreate

LEMMA RetryKeeps ==
  ASSUME AcquisitionInv, NEW p \in Processes, Retry(p)
  PROVE  AcquisitionInv'
<1> USE ProcessesAssumption DEF Retry, Goto, LeaveCreate, SetClaim, catalogue, read, Requests,
       Want
<1>1. AcquisitionTypeOK'
  BY DEF AcquisitionInv, AcquisitionTypeOK, Inside, Steps
<1>2. ClaimsAreTaken'
  BY DEF AcquisitionInv, AcquisitionTypeOK, ClaimsAreTaken, InCreate, TookClaim, Past, Inside,
         Steps
<1>3. DatasetsAreTheirs'
  BY DEF AcquisitionInv, AcquisitionTypeOK, DatasetsAreTheirs, Past, Steps
<1>4. ASSUME NEW q \in Processes
      PROVE  FoundNoCapture(q)' /\ FoundOwner(q)' /\ TookClaim(q)'
  <2>1. FoundNoCapture(q)'
    BY DEF AcquisitionInv, AcquisitionTypeOK, DatasetsAreTheirs, InCreate, FoundNoCapture,
           Inside, Steps, Satisfies
  <2>2. FoundOwner(q)'
    BY DEF AcquisitionInv, AcquisitionTypeOK, ClaimsAreTaken, DatasetsAreTheirs, InCreate,
           FoundOwner, Past, Inside, Steps
  <2>3. TookClaim(q)'
    BY DEF AcquisitionInv, AcquisitionTypeOK, InCreate, TookClaim, Inside, Steps
  <2> QED
    BY <2>1, <2>2, <2>3
<1>5. CaptureOwnsItsClaim'
  BY DEF AcquisitionInv, AcquisitionTypeOK, InCreate, FoundOwner, TookClaim,
         CaptureOwnsItsClaim, Inside, Steps
<1>6. AbandonedIsFound'
  BY DEF AcquisitionInv, AcquisitionTypeOK, DatasetsAreTheirs, InCreate, FoundOwner, TookClaim,
         AbandonedIsFound, Inside, Steps, Past
<1> QED
  BY <1>1, <1>2, <1>3, <1>4, <1>5, <1>6 DEF AcquisitionInv, InCreate

LEMMA PublishEndKeeps ==
  ASSUME AcquisitionInv, NEW p \in Processes, PublishEnd(p)
  PROVE  AcquisitionInv'
<1> USE ProcessesAssumption DEF PublishEnd, Goto, LeaveCreate, SetClaim, catalogue, read,
       Requests, Want
<1>1. AcquisitionTypeOK'
  BY DEF AcquisitionInv, AcquisitionTypeOK, Inside, Steps
<1>2. ClaimsAreTaken'
  BY DEF AcquisitionInv, AcquisitionTypeOK, ClaimsAreTaken, InCreate, TookClaim, Past, Inside,
         Steps
<1>3. DatasetsAreTheirs'
  BY DEF AcquisitionInv, AcquisitionTypeOK, DatasetsAreTheirs, Past, Steps
<1>4. ASSUME NEW q \in Processes
      PROVE  FoundNoCapture(q)' /\ FoundOwner(q)' /\ TookClaim(q)'
  <2>1. FoundNoCapture(q)'
    BY DEF AcquisitionInv, AcquisitionTypeOK, DatasetsAreTheirs, InCreate, FoundNoCapture,
           Inside, Steps, Satisfies
  <2>2. FoundOwner(q)'
    BY DEF AcquisitionInv, AcquisitionTypeOK, ClaimsAreTaken, DatasetsAreTheirs, InCreate,
           FoundOwner, Past, Inside, Steps
  <2>3. TookClaim(q)'
    BY DEF AcquisitionInv, AcquisitionTypeOK, InCreate, TookClaim, Inside, Steps
  <2> QED
    BY <2>1, <2>2, <2>3
<1>5. CaptureOwnsItsClaim'
  BY DEF AcquisitionInv, AcquisitionTypeOK, InCreate, FoundOwner, TookClaim,
         CaptureOwnsItsClaim, Inside, Steps
<1>6. AbandonedIsFound'
  BY DEF AcquisitionInv, AcquisitionTypeOK, DatasetsAreTheirs, InCreate, FoundOwner, TookClaim,
         AbandonedIsFound, Inside, Steps, Past
<1> QED
  BY <1>1, <1>2, <1>3, <1>4, <1>5, <1>6 DEF AcquisitionInv, InCreate

LEMMA EndIsRefusedKeeps ==
  ASSUME AcquisitionInv, NEW p \in Processes, EndIsRefused(p)
  PROVE  AcquisitionInv'
<1> USE ProcessesAssumption DEF EndIsRefused, Goto, LeaveCreate, SetClaim, catalogue, read,
       Requests, Want
<1>1. AcquisitionTypeOK'
  BY DEF AcquisitionInv, AcquisitionTypeOK, Inside, Steps
<1>2. ClaimsAreTaken'
  BY DEF AcquisitionInv, AcquisitionTypeOK, ClaimsAreTaken, InCreate, TookClaim, Past, Inside,
         Steps
<1>3. DatasetsAreTheirs'
  BY DEF AcquisitionInv, AcquisitionTypeOK, DatasetsAreTheirs, Past, Steps
<1>4. ASSUME NEW q \in Processes
      PROVE  FoundNoCapture(q)' /\ FoundOwner(q)' /\ TookClaim(q)'
  <2>1. FoundNoCapture(q)'
    BY DEF AcquisitionInv, AcquisitionTypeOK, DatasetsAreTheirs, InCreate, FoundNoCapture,
           Inside, Steps, Satisfies
  <2>2. FoundOwner(q)'
    BY DEF AcquisitionInv, AcquisitionTypeOK, ClaimsAreTaken, DatasetsAreTheirs, InCreate,
           FoundOwner, Past, Inside, Steps
  <2>3. TookClaim(q)'
    BY DEF AcquisitionInv, AcquisitionTypeOK, InCreate, TookClaim, Inside, Steps
  <2> QED
    BY <2>1, <2>2, <2>3
<1>5. CaptureOwnsItsClaim'
  BY DEF AcquisitionInv, AcquisitionTypeOK, InCreate, FoundOwner, TookClaim,
         CaptureOwnsItsClaim, Inside, Steps
<1>6. AbandonedIsFound'
  BY DEF AcquisitionInv, AcquisitionTypeOK, DatasetsAreTheirs, InCreate, FoundOwner, TookClaim,
         AbandonedIsFound, Inside, Steps, Past
<1> QED
  BY <1>1, <1>2, <1>3, <1>4, <1>5, <1>6 DEF AcquisitionInv, InCreate

LEMMA ReleaseKeeps ==
  ASSUME AcquisitionInv, NEW p \in Processes, Release(p)
  PROVE  AcquisitionInv'
<1> USE ProcessesAssumption DEF Release, Goto, LeaveCreate, SetClaim, catalogue, read,
       Requests, Want
<1>1. AcquisitionTypeOK'
  BY DEF AcquisitionInv, AcquisitionTypeOK, Inside, Steps
<1>2. ClaimsAreTaken'
  BY DEF AcquisitionInv, AcquisitionTypeOK, ClaimsAreTaken, InCreate, TookClaim, Past, Inside,
         Steps
<1>3. DatasetsAreTheirs'
  BY DEF AcquisitionInv, AcquisitionTypeOK, DatasetsAreTheirs, Past, Steps
<1>4. ASSUME NEW q \in Processes
      PROVE  FoundNoCapture(q)' /\ FoundOwner(q)' /\ TookClaim(q)'
  <2>1. FoundNoCapture(q)'
    BY DEF AcquisitionInv, AcquisitionTypeOK, DatasetsAreTheirs, InCreate, FoundNoCapture,
           Inside, Steps, Satisfies
  <2>2. FoundOwner(q)'
    BY DEF AcquisitionInv, AcquisitionTypeOK, ClaimsAreTaken, DatasetsAreTheirs, InCreate,
           FoundOwner, Past, Inside, Steps
  <2>3. TookClaim(q)'
    BY DEF AcquisitionInv, AcquisitionTypeOK, InCreate, TookClaim, CaptureOwnsItsClaim, Inside,
           Steps
  <2> QED
    BY <2>1, <2>2, <2>3
<1>5. CaptureOwnsItsClaim'
  BY DEF AcquisitionInv, AcquisitionTypeOK, InCreate, FoundOwner, TookClaim,
         CaptureOwnsItsClaim, Inside, Steps
<1>6. AbandonedIsFound'
  BY DEF AcquisitionInv, AcquisitionTypeOK, DatasetsAreTheirs, InCreate, FoundOwner, TookClaim,
         AbandonedIsFound, CaptureOwnsItsClaim, Inside, Steps, Past
<1> QED
  BY <1>1, <1>2, <1>3, <1>4, <1>5, <1>6 DEF AcquisitionInv, InCreate

LEMMA ExitKeeps ==
  ASSUME AcquisitionInv, NEW p \in Processes, Exit(p), step[p] # "dead"
  PROVE  AcquisitionInv'
<1> USE ProcessesAssumption DEF Exit, Goto, catalogue, read, Requests, Want
<1>1. AcquisitionTypeOK'
  BY DEF AcquisitionInv, AcquisitionTypeOK, Inside, Steps
<1>2. ClaimsAreTaken'
  BY DEF AcquisitionInv, AcquisitionTypeOK, ClaimsAreTaken, InCreate, TookClaim, Past, Inside,
         Steps
<1>3. DatasetsAreTheirs'
  BY DEF AcquisitionInv, AcquisitionTypeOK, DatasetsAreTheirs, Past, Steps
<1>4. ASSUME NEW q \in Processes
      PROVE  FoundNoCapture(q)' /\ FoundOwner(q)' /\ TookClaim(q)'
  <2>1. FoundNoCapture(q)'
    BY DEF AcquisitionInv, AcquisitionTypeOK, DatasetsAreTheirs, InCreate, FoundNoCapture,
           Inside, Steps, Satisfies
  <2>2. FoundOwner(q)'
    BY DEF AcquisitionInv, AcquisitionTypeOK, ClaimsAreTaken, DatasetsAreTheirs, InCreate,
           FoundOwner, Past, Inside, Steps
  <2>3. TookClaim(q)'
    BY DEF AcquisitionInv, AcquisitionTypeOK, InCreate, TookClaim, Inside, Steps
  <2> QED
    BY <2>1, <2>2, <2>3
<1>5. CaptureOwnsItsClaim'
  BY DEF AcquisitionInv, AcquisitionTypeOK, InCreate, FoundOwner, TookClaim,
         CaptureOwnsItsClaim, Inside, Steps
<1>6. AbandonedIsFound'
  BY DEF AcquisitionInv, AcquisitionTypeOK, DatasetsAreTheirs, InCreate, FoundOwner, TookClaim,
         AbandonedIsFound, Inside, Steps, Past
<1> QED
  BY <1>1, <1>2, <1>3, <1>4, <1>5, <1>6 DEF AcquisitionInv, InCreate

LEMMA ReuseKeeps ==
  ASSUME AcquisitionInv, NEW p \in Processes, Reuse(p)
  PROVE  AcquisitionInv'
<1> USE ProcessesAssumption DEF Reuse, Goto, LeaveCreate, SetClaim, catalogue, read, Requests,
       Want
<1>1. AcquisitionTypeOK'
  BY DEF AcquisitionInv, AcquisitionTypeOK, Inside, Steps
<1>2. ClaimsAreTaken'
  BY DEF AcquisitionInv, AcquisitionTypeOK, ClaimsAreTaken, InCreate, TookClaim, Past, Inside,
         Steps
<1>3. DatasetsAreTheirs'
  BY DEF AcquisitionInv, AcquisitionTypeOK, DatasetsAreTheirs, Past, Steps
<1>4. ASSUME NEW q \in Processes
      PROVE  FoundNoCapture(q)' /\ FoundOwner(q)' /\ TookClaim(q)'
  <2>1. FoundNoCapture(q)'
    BY DEF AcquisitionInv, AcquisitionTypeOK, DatasetsAreTheirs, InCreate, FoundNoCapture,
           Inside, Steps, Satisfies
  <2>2. FoundOwner(q)'
    BY DEF AcquisitionInv, AcquisitionTypeOK, ClaimsAreTaken, DatasetsAreTheirs, InCreate,
           FoundOwner, Past, Inside, Steps
  <2>3. TookClaim(q)'
    BY DEF AcquisitionInv, AcquisitionTypeOK, InCreate, TookClaim, Inside, Steps
  <2> QED
    BY <2>1, <2>2, <2>3
<1>5. CaptureOwnsItsClaim'
  BY DEF AcquisitionInv, AcquisitionTypeOK, InCreate, FoundOwner, TookClaim,
         CaptureOwnsItsClaim, Inside, Steps
<1>6. AbandonedIsFound'
  BY DEF AcquisitionInv, AcquisitionTypeOK, DatasetsAreTheirs, InCreate, FoundOwner, TookClaim,
         AbandonedIsFound, Inside, Steps, Past
<1> QED
  BY <1>1, <1>2, <1>3, <1>4, <1>5, <1>6 DEF AcquisitionInv, InCreate

LEMMA AcquisitionSteps == AcquisitionInv /\ [AcquisitionNext]_acquisitionVars => AcquisitionInv'
<1> SUFFICES ASSUME AcquisitionInv, [AcquisitionNext]_acquisitionVars PROVE AcquisitionInv'
  OBVIOUS
<1>1. ASSUME NEW p \in Processes, Create(p)
      PROVE  AcquisitionInv'
  BY <1>1, EnterKeeps, CheckActiveKeeps, ReadClaimKeeps, ProbeKeeps, OrphanKeeps, UnclaimKeeps,
     CreateClaimKeeps, WriteClaimKeeps, RegisterKeeps, RegisterFailsKeeps, RetryKeeps
     DEF Create
<1>2. ASSUME NEW p \in Processes, End(p) \/ Crash(p)
      PROVE  AcquisitionInv'
  BY <1>2, PublishEndKeeps, EndIsRefusedKeeps, ReleaseKeeps, ExitKeeps DEF End, Finish, Crash
<1>3. ASSUME UNCHANGED acquisitionVars
      PROVE  AcquisitionInv'
  BY <1>3
     DEF acquisitionVars, catalogue, read, AcquisitionInv, AcquisitionTypeOK, ClaimsAreTaken,
            DatasetsAreTheirs, InCreate,
         FoundNoCapture, FoundOwner, TookClaim, CaptureOwnsItsClaim, AbandonedIsFound
<1> QED
  BY <1>1, <1>2, <1>3, ReuseKeeps DEF AcquisitionNext, Stopped

LEMMA AcquisitionInductive == AcquisitionSpec => []AcquisitionInv
BY InitAcquires, AcquisitionSteps, PTL DEF AcquisitionSpec

\* The processes', the claims' and the catalogue's variables keep their types,
\* and the acquisition lock is held for create() alone.
THEOREM AcquisitionTyped == AcquisitionSpec => []AcquisitionTypeOK
<1>1. AcquisitionInv => AcquisitionTypeOK
  BY DEF AcquisitionInv
<1> QED
  BY <1>1, AcquisitionInductive, PTL

\* release_claim never moves the claim of another capture.
THEOREM ClaimsAreKept == AcquisitionSpec => []CaptureOwnsItsClaim
<1>1. AcquisitionInv => CaptureOwnsItsClaim
  BY DEF AcquisitionInv
<1> QED
  BY <1>1, AcquisitionInductive, PTL

\* Whatever step a process dies at, its active dataset is found by the next
\* request, unless its registration raised.
THEOREM DeadCapturesAreFound == AcquisitionSpec => []AbandonedIsFound
<1>1. AcquisitionInv => AbandonedIsFound
  BY DEF AcquisitionInv
<1> QED
  BY <1>1, AcquisitionInductive, PTL

\* Only registering starts a capture, and what the process checked before it
\* took the claim still holds then.
THEOREM CapturesAreShared == AcquisitionSpec => NoDuplicateCapture
<1> DEFINE NoDuplicate ==
             \A p, q \in Processes :
               step[p] # "capturing" /\ step'[p] = "capturing" /\ step'[q] = "capturing" /\ p # q
               => ~Satisfies(q, p)
<1>1. AcquisitionInv /\ [AcquisitionNext]_acquisitionVars => [NoDuplicate]_acquisitionVars
  <2> SUFFICES ASSUME AcquisitionInv, AcquisitionNext, NEW p \in Processes,
      NEW q \in Processes, step[p] # "capturing",
                      step'[p] = "capturing", step'[q] = "capturing", p # q
               PROVE  ~Satisfies(q, p)
    BY DEF NoDuplicate
  <2>1. Register(p)
    BY DEF AcquisitionNext, Stopped, Create, End, Crash, Finish, Exit, Enter, CheckActive,
           ReadClaim, Probe,
           Orphan, Unclaim, CreateClaim, WriteClaim, Register, RegisterFails, Retry, PublishEnd,
           EndIsRefused, Release, Reuse, Goto, LeaveCreate, acquisitionVars, AcquisitionInv,
               AcquisitionTypeOK
  <2>2. step[q] = "capturing" /\ step[p] = "register"
    BY <2>1 DEF Register, LeaveCreate, Goto, AcquisitionInv, AcquisitionTypeOK
  <2> QED
    BY <2>2 DEF AcquisitionInv, InCreate, FoundNoCapture, Inside
<1> QED
  BY <1>1, AcquisitionInductive, PTL DEF AcquisitionSpec, NoDuplicateCapture

-----------------------------------------------------------------------------
(* Captures: the rows of a sequence of segments (SegmentedCapture).        *)

\* A set of numbers with 0 and every successor is Nat.
LEMMA NatSetInduction ==
    ASSUME NEW T \in SUBSET Nat, 0 \in T, \A n \in T : n + 1 \in T
    PROVE  T = Nat
<1> DEFINE R == OpToRel(<, Nat)
           U == Nat \ T
<1>1. \A x, y \in Nat : <<x, y>> \in R <=> x < y
  BY DEF OpToRel
<1>2. IsWellFoundedOn(R, Nat)
  BY NatLessThanWellFounded
<1> SUFFICES ASSUME U # {} PROVE FALSE
  OBVIOUS
<1>3. \E x \in U : \A y \in U : ~(<<y, x>> \in R)
  <2> HIDE DEF R, U
  <2>1. U \subseteq Nat
    BY DEF U
  <2> QED BY <1>2, <2>1, WFMin
<1>4. PICK x \in U : \A y \in U : ~(y < x)
  BY <1>1, <1>3
<1>5. x # 0 /\ x - 1 \in Nat /\ x - 1 < x
  BY <1>4
<1>6. x - 1 \in T
  BY <1>4, <1>5
<1> QED BY <1>5, <1>6

\* f takes N steps from s0, each from the value before.
IsRecursion(f, N, s0, onto) == f[0] = s0 /\ \A n \in 1..N : f[n] = onto[<<n, f[n - 1]>>]

\* A function defined step by step from its value before exists, as the
\* rows of a sequence of segments do.
LEMMA BoundedRecursion ==
    ASSUME NEW N \in Nat, NEW S, NEW s0 \in S, NEW onto,
           \A n \in 1..N, s \in S : onto[<<n, s>>] \in S
    PROVE  \E f \in [0..N -> S] : IsRecursion(f, N, s0, onto)
<1> DEFINE Good(m) == \E f \in [0..m -> S] : IsRecursion(f, m, s0, onto)
           T == {m \in Nat : m <= N => Good(m)}
<1>1. 0 \in T
  <2>1. [n \in 0..0 |-> s0] \in [0..0 -> S] /\ [n \in 0..0 |-> s0][0] = s0
    OBVIOUS
  <2>2. \A n \in 1..0 : FALSE
    OBVIOUS
  <2>3. Good(0)
    BY <2>1, <2>2 DEF IsRecursion
  <2> QED BY <2>3
<1>2. ASSUME NEW m \in T PROVE m + 1 \in T
  <2> SUFFICES ASSUME m + 1 <= N PROVE Good(m + 1)
    OBVIOUS
  <2>1. PICK f \in [0..m -> S] :
          f[0] = s0 /\ \A n \in 1..m : f[n] = onto[<<n, f[n - 1]>>]
    BY <1>2 DEF IsRecursion
  <2> DEFINE g == [n \in 0..(m + 1) |-> IF n = m + 1 THEN onto[<<m + 1, f[m]>>] ELSE f[n]]
  <2>2. m \in Nat /\ m \in 0..m /\ m + 1 \in 1..N /\ f[m] \in S
    BY <1>2, <2>1
  <2>3. onto[<<m + 1, f[m]>>] \in S
    BY <2>2
  <2>4. g \in [0..(m + 1) -> S]
    BY <2>1, <2>2, <2>3
  <2>5. g[0] = s0
    BY <2>1, <2>2
  <2>6. ASSUME NEW n \in 1..(m + 1) PROVE g[n] = onto[<<n, g[n - 1]>>]
    <3>1. n - 1 \in 0..m /\ n \in 0..(m + 1) /\ n - 1 # m + 1 /\ n - 1 \in 0..(m + 1)
      BY <2>2
    <3>2. g[n - 1] = f[n - 1]
      BY <3>1
    <3>3. CASE n = m + 1
      <4>1. g[n] = onto[<<m + 1, f[m]>>] /\ n - 1 = m
        BY <3>1, <3>3, <2>2
      <4> QED BY <4>1, <3>2, <3>3
    <3>4. CASE n # m + 1
      <4>1. n \in 1..m /\ g[n] = f[n]
        BY <3>1, <3>4, <2>2
      <4> QED BY <4>1, <3>2, <2>1
    <3> QED BY <3>3, <3>4
  <2> HIDE DEF g
  <2> QED BY <2>4, <2>5, <2>6 DEF IsRecursion
<1>3. T = Nat
  <2> HIDE DEF Good
  <2> QED BY <1>1, <1>2, NatSetInduction
<1>4. N \in T
  BY <1>3
<1> QED BY <1>4

\* The prefixes of a sequence of segments, flattened one by one (FlattenSeq).
LEMMA FlattenIs ==
  ASSUME NEW t, Len(t) \in Nat, t = << >> <=> Len(t) = 0, NEW f, f[0] = << >>,
         1 \in 1..Len(t) => f[1] = t[1],
         \A n \in 2..Len(t) : f[n] = f[n - 1] \o t[n]
  PROVE  FlattenSeq(t) = f[Len(t)]
<1> DEFINE N == Len(t)
           Then(g) == [i \in 1..N |-> IF i = 1 THEN t[i] ELSE g[i - 1] \o t[i]]
           Solves(g) == g = Then(g)
           flatten == CHOOSE g : Solves(g)
           h == [i \in 1..N |-> f[i]]
<1>1. CASE N = 0
  BY <1>1 DEF FlattenSeq
<1>2. CASE N # 0
  <2>1. N \in Nat /\ 1 \in 1..N /\ N \in 1..N
    BY <1>2
  <2>2. \A i \in 1..N : i = 1 \/ (i \in 2..N /\ i - 1 \in 1..N)
    OBVIOUS
  <2>3. ASSUME NEW i \in 1..N PROVE h[i] = IF i = 1 THEN t[i] ELSE h[i - 1] \o t[i]
    <3>1. CASE i = 1
      BY <3>1, <2>1
    <3>2. CASE i # 1
      <4>1. i \in 2..N /\ i - 1 \in 1..N
        BY <3>2, <2>2
      <4>2. f[i] = f[i - 1] \o t[i] /\ h[i] = f[i] /\ h[i - 1] = f[i - 1]
        BY <4>1
      <4> QED BY <4>2, <3>2
    <3> QED BY <3>1, <3>2
  <2>4. Solves(h)
    <3>1. \A i \in 1..N : h[i] = Then(h)[i]
      BY <2>3
    <3> QED BY <3>1
  <2>5. Solves(flatten)
    <3> HIDE DEF Solves
    <3> QED BY <2>4
  <2>6. \A i \in 1..N : flatten[i] = IF i = 1 THEN t[i] ELSE flatten[i - 1] \o t[i]
    <3> HIDE DEF flatten
    <3> QED BY <2>5
  <2>7. FlattenSeq(t) = flatten[N]
    BY <1>2 DEF FlattenSeq
  <2> DEFINE T == {n \in Nat : n + 1 \in 1..N => flatten[n + 1] = f[n + 1]}
  <2> HIDE DEF flatten, Solves, Then, h
  <2>8. 0 \in T
    BY <2>1, <2>6
  <2>9. ASSUME NEW n \in T PROVE n + 1 \in T
    <3> SUFFICES ASSUME n + 2 \in 1..N PROVE flatten[n + 2] = f[n + 2]
      OBVIOUS
    <3>1. n + 2 \in 2..N /\ n + 1 \in 1..N /\ (n + 2) - 1 = n + 1 /\ n + 2 # 1
      OBVIOUS
    <3>2. flatten[n + 1] = f[n + 1]
      BY <3>1
    <3>3. f[n + 2] = f[n + 1] \o t[n + 2]
      BY <3>1
    <3>4. flatten[n + 2] = flatten[n + 1] \o t[n + 2]
      BY <3>1, <2>6
    <3> QED BY <3>2, <3>3, <3>4
  <2>10. N - 1 \in T
    <3>1. T = Nat
      <4> HIDE DEF T
      <4>1. T \subseteq Nat
        BY DEF T
      <4> QED BY <4>1, <2>8, <2>9, NatSetInduction
    <3>2. N - 1 \in Nat
      BY <2>1, <1>2
    <3> QED BY <3>1, <3>2
  <2> QED BY <2>1, <2>7, <2>10
<1> QED BY <1>1, <1>2

Rows == Seq(Nat)

\* A sequence of segments has a flattening of each of its prefixes.
LEMMA FlattenSteps ==
  ASSUME NEW t \in Seq(Rows)
  PROVE  \E f \in [0..Len(t) -> Rows] :
           /\ f[0] = << >>
           /\ \A n \in 1..Len(t) : f[n] = f[n - 1] \o t[n]
<1> DEFINE N == Len(t)
           s0 == << >>
           more == [x \in (1..N) \X Rows |-> x[2] \o t[x[1]]]
<1>1. N \in Nat /\ s0 \in Rows /\ \A n \in 1..N : t[n] \in Rows
  BY LenProperties, ElementOfSeq DEF Rows
<1>2. ASSUME NEW n \in 1..N, NEW s \in Rows
      PROVE  more[<<n, s>>] = s \o t[n] /\ more[<<n, s>>] \in Rows
  <2>1. more[<<n, s>>] = s \o t[n]
    OBVIOUS
  <2>2. s \o t[n] \in Rows
    BY <1>1, ConcatProperties DEF Rows
  <2> QED BY <2>1, <2>2
<1>3. PICK f \in [0..N -> Rows] : f[0] = s0 /\ \A n \in 1..N : f[n] = more[<<n, f[n - 1]>>]
  <2>1. \E f \in [0..N -> Rows] : IsRecursion(f, N, s0, more)
    <3> HIDE DEF N, s0, more
    <3> QED BY <1>1, <1>2, BoundedRecursion
  <2> QED BY <2>1 DEF IsRecursion
<1>4. \A n \in 1..N : f[n] = f[n - 1] \o t[n]
  <2> SUFFICES ASSUME NEW n \in 1..N PROVE f[n] = f[n - 1] \o t[n]
    OBVIOUS
  <2>1. n - 1 \in 0..N
    BY <1>1
  <2>2. f[n - 1] \in Rows
    BY <2>1, <1>3
  <2> HIDE DEF more
  <2> QED BY <1>2, <1>3, <2>2
<1> QED BY <1>3, <1>4

LEMMA FlattenOf ==
  ASSUME NEW t \in Seq(Rows), NEW f \in [0..Len(t) -> Rows], f[0] = << >>,
         \A n \in 1..Len(t) : f[n] = f[n - 1] \o t[n]
  PROVE  FlattenSeq(t) = f[Len(t)] /\ FlattenSeq(t) \in Rows
<1>1. Len(t) \in Nat /\ (t = << >> <=> Len(t) = 0)
  BY EmptySeq, LenProperties
<1>2. \A n \in 2..Len(t) : f[n] = f[n - 1] \o t[n]
  OBVIOUS
<1>3. ASSUME 1 \in 1..Len(t) PROVE f[1] = t[1]
  <2>1. t[1] \in Rows
    BY <1>3, ElementOfSeq
  <2>2. f[1] = << >> \o t[1]
    BY <1>3
  <2> QED BY <2>1, <2>2, ConcatEmptySeq DEF Rows
<1>4. FlattenSeq(t) = f[Len(t)]
  BY <1>1, <1>2, <1>3, FlattenIs
<1> QED BY <1>1, <1>4

\* A new segment's rows come last.
LEMMA FlattenAppend ==
  ASSUME NEW t \in Seq(Rows), NEW x \in Rows
  PROVE  /\ FlattenSeq(t) \in Rows
         /\ FlattenSeq(Append(t, x)) = FlattenSeq(t) \o x
<1> DEFINE u == Append(t, x)
           N == Len(t)
<1>1. /\ u \in Seq(Rows) /\ Len(u) = N + 1 /\ N \in Nat
      /\ \A n \in 1..N : u[n] = t[n]
      /\ u[N + 1] = x
  BY AppendProperties, LenProperties
<1>2. PICK f \in [0..Len(u) -> Rows] :
        f[0] = << >> /\ \A n \in 1..Len(u) : f[n] = f[n - 1] \o u[n]
  BY <1>1, FlattenSteps
<1>3. FlattenSeq(u) = f[N + 1]
  BY <1>1, <1>2, FlattenOf
<1> DEFINE g == [n \in 0..N |-> f[n]]
<1>4. g \in [0..N -> Rows] /\ g[0] = << >> /\ \A n \in 1..N : g[n] = g[n - 1] \o t[n]
  <2>1. \A n \in 0..N : g[n] = f[n] /\ f[n] \in Rows
    BY <1>1, <1>2
  <2>2. ASSUME NEW n \in 1..N PROVE g[n] = g[n - 1] \o t[n]
    <3>1. n \in 0..N /\ n - 1 \in 0..N /\ n \in 1..Len(u)
      BY <1>1
    <3> HIDE DEF g
    <3> QED BY <3>1, <2>1, <1>1, <1>2
  <2> QED BY <2>1, <2>2, <1>1, <1>2
<1>5. FlattenSeq(t) = f[N] /\ FlattenSeq(t) \in Rows
  <2> HIDE DEF g
  <2>1. FlattenSeq(t) = g[N] /\ FlattenSeq(t) \in Rows
    BY <1>4, FlattenOf
  <2> QED BY <2>1, <1>1 DEF g
<1>6. f[N + 1] = f[N] \o x
  <2>1. N + 1 \in 1..Len(u) /\ (N + 1) - 1 = N
    BY <1>1
  <2> HIDE DEF N, u
  <2> QED BY <2>1, <1>1, <1>2
<1> QED BY <1>3, <1>5, <1>6

LEMMA FlattenEmpty == FlattenSeq(<< >>) = << >>
BY DEF FlattenSeq

LEMMA RowsAssociate ==
  ASSUME NEW a \in Rows, NEW b \in Rows, NEW c \in Rows
  PROVE  (a \o b) \o c = a \o (b \o c)
<1>1. a \in Seq(Nat) /\ b \in Seq(Nat) /\ c \in Seq(Nat)
  BY DEF Rows
<1> QED BY <1>1, ConcatAssociative

\* Rows that follow each other without a gap, and segments that do.
IsRun(s) == s \in Rows /\ s # << >> /\ \A k \in 1..Len(s) : s[k] = s[1] + (k - 1)

Chained(t) ==
  /\ t \in Seq(Rows)
  /\ \A k \in 1..Len(t) : IsRun(t[k])
  /\ Contiguous(t)

LEMMA RunFacts ==
  ASSUME NEW s, IsRun(s)
  PROVE  /\ s \in Rows /\ Len(s) \in Nat /\ Len(s) >= 1 /\ DOMAIN s = 1..Len(s)
         /\ s[1] \in Nat
         /\ Head(s) = s[1]
         /\ Last(s) = s[Len(s)] /\ Last(s) = s[1] + (Len(s) - 1) /\ Last(s) \in Nat
         /\ \A k \in 1..Len(s) : s[k] \in Nat /\ s[k] = s[1] + (k - 1) /\ s[k] <= Last(s)
<1>1. s \in Seq(Nat) /\ s # << >> /\ \A k \in 1..Len(s) : s[k] = s[1] + (k - 1)
  BY DEF IsRun, Rows
<1>2. Len(s) \in Nat /\ Len(s) >= 1 /\ DOMAIN s = 1..Len(s)
  BY <1>1, EmptySeq, LenProperties
<1>3. \A k \in 1..Len(s) : s[k] \in Nat
  BY <1>1, ElementOfSeq
<1>4. Last(s) = s[Len(s)] /\ Head(s) = s[1]
  BY <1>1, <1>2 DEF Last
<1>5. 1 \in 1..Len(s) /\ Len(s) \in 1..Len(s)
  BY <1>2
<1> QED BY <1>1, <1>2, <1>3, <1>4, <1>5 DEF Rows

LEMMA RunsJoin ==
  ASSUME NEW r, NEW x, IsRun(r), IsRun(x), Head(x) = Last(r) + 1
  PROVE  IsRun(r \o x) /\ (r \o x)[1] = r[1] /\ Last(r \o x) = Last(x)
<1> DEFINE u == r \o x
<1>1. /\ u \in Seq(Nat) /\ Len(u) = Len(r) + Len(x)
      /\ \A k \in 1..(Len(r) + Len(x)) : u[k] = IF k <= Len(r) THEN r[k] ELSE x[k - Len(r)]
  BY RunFacts, ConcatProperties DEF Rows
<1>2. Len(r) \in Nat /\ Len(x) \in Nat /\ Len(r) >= 1 /\ Len(x) >= 1
  BY RunFacts
<1>3. r[1] \in Nat /\ x[1] = r[1] + Len(r)
  <2>1. r[1] \in Nat /\ Last(r) = r[1] + (Len(r) - 1)
    BY RunFacts
  <2>2. Head(x) = x[1]
    BY RunFacts
  <2> QED BY <2>1, <2>2, <1>2
<1>4. ASSUME NEW k \in 1..Len(u) PROVE u[k] = r[1] + (k - 1)
  <2>1. CASE k <= Len(r)
    <3>1. k \in 1..Len(r)
      BY <2>1, <1>1, <1>2
    <3>2. r[k] = r[1] + (k - 1)
      BY <3>1, RunFacts
    <3> QED BY <3>2, <2>1, <1>1
  <2>2. CASE ~(k <= Len(r))
    <3>1. k - Len(r) \in 1..Len(x)
      BY <2>2, <1>1, <1>2
    <3>2. x[k - Len(r)] = x[1] + ((k - Len(r)) - 1)
      BY <3>1, RunFacts
    <3>3. u[k] = x[k - Len(r)]
      BY <2>2, <1>1
    <3>4. k \in Nat
      BY <1>1, <1>2
    <3> HIDE DEF u
    <3> QED BY <3>2, <3>3, <3>4, <1>2, <1>3
  <2> QED BY <2>1, <2>2
<1>5. u[1] = r[1] /\ u # << >>
  BY <1>1, <1>2, EmptySeq
<1>6. Last(u) = Last(x)
  <2>1. Last(x) = x[1] + (Len(x) - 1)
    BY RunFacts
  <2>2. Last(u) = u[Len(u)] /\ Len(u) \in 1..Len(u)
    BY <1>1, <1>2 DEF Last
  <2>3. u[Len(u)] = r[1] + (Len(u) - 1)
    BY <2>2, <1>4
  <2> QED BY <2>1, <2>2, <2>3, <1>1, <1>2, <1>3
<1>7. IsRun(u)
  BY <1>1, <1>4, <1>5 DEF IsRun, Rows
<1> QED BY <1>5, <1>6, <1>7

\* Segments m to n, taken one by one.
LEMMA SliceFacts ==
  ASSUME NEW t \in Seq(Rows), NEW m \in Nat, NEW n \in Nat, 1 <= m, m <= n + 1, n < Len(t)
  PROVE  /\ SubSeq(t, m, n) \in Seq(Rows)
         /\ t[n + 1] \in Rows
         /\ SubSeq(t, m, n + 1) = Append(SubSeq(t, m, n), t[n + 1])
<1>1. Len(t) \in Nat /\ n + 1 \in 1..Len(t) /\ n + 1 \in m..Len(t) /\ m \in 1..Len(t)
  BY LenProperties
<1>2. \A i \in m..n : t[i] \in Rows
  BY <1>1, ElementOfSeq
<1>3. SubSeq(t, m, n) \in Seq(Rows) /\ t[n + 1] \in Rows
  BY <1>1, <1>2, SubSeqProperties, ElementOfSeq
<1>4. SubSeq(t, m, n + 1) = SubSeq(t, m, (n + 1) - 1) \o <<t[n + 1]>>
  BY <1>1, SubSeqRecursiveSecond
<1>5. (n + 1) - 1 = n
  OBVIOUS
<1> QED BY <1>3, <1>4, <1>5, AppendIsConcat

LEMMA SliceTyped ==
  ASSUME NEW t \in Seq(Rows), NEW m \in Nat, NEW n \in Nat, 1 <= m, n <= Len(t)
  PROVE  /\ SubSeq(t, m, n) \in Seq(Rows)
         /\ FlattenSeq(SubSeq(t, m, n)) \in Rows
<1>1. \A i \in m..n : t[i] \in Rows
  BY ElementOfSeq, LenProperties
<1>2. SubSeq(t, m, n) \in Seq(Rows)
  BY <1>1, SubSeqProperties
<1>3. << >> \in Rows
  BY EmptySeq DEF Rows
<1> QED BY <1>2, <1>3, FlattenAppend

\* What was read up to m and what is read from there up to n.
LEMMA FlattenSlices ==
  ASSUME NEW t \in Seq(Rows), NEW m \in Nat, NEW n \in Nat, m <= n, n <= Len(t)
  PROVE  FlattenSeq(SubSeq(t, 1, n)) =
           FlattenSeq(SubSeq(t, 1, m)) \o FlattenSeq(SubSeq(t, m + 1, n))
<1> DEFINE A == FlattenSeq(SubSeq(t, 1, m))
           B(k) == FlattenSeq(SubSeq(t, m + 1, k))
           Good(k) == FlattenSeq(SubSeq(t, 1, k)) = A \o B(k)
           T == {i \in Nat : m + i <= Len(t) => Good(m + i)}
<1>1. Len(t) \in Nat
  BY LenProperties
<1>2. A \in Rows
  BY <1>1, SliceTyped
<1>3. 0 \in T
  <2>1. SubSeq(t, m + 1, m) = << >>
    BY SubSeqEmpty
  <2>2. A \o << >> = A
    BY <1>2, ConcatEmptySeq DEF Rows
  <2>3. Good(m)
    BY <2>1, <2>2, FlattenEmpty
  <2>4. m + 0 = m
    OBVIOUS
  <2> QED BY <2>3, <2>4
<1>4. ASSUME NEW i \in T PROVE i + 1 \in T
  <2> SUFFICES ASSUME m + (i + 1) <= Len(t) PROVE Good(m + (i + 1))
    OBVIOUS
  <2> DEFINE k == m + i
  <2>1. k \in Nat /\ k < Len(t) /\ m + (i + 1) = k + 1 /\ 1 <= m + 1 /\ m + 1 <= k + 1
    BY <1>1
  <2>2. Good(k)
    BY <2>1
  <2>3. /\ SubSeq(t, 1, k) \in Seq(Rows) /\ t[k + 1] \in Rows
        /\ SubSeq(t, 1, k + 1) = Append(SubSeq(t, 1, k), t[k + 1])
    BY <2>1, SliceFacts
  <2>4. /\ SubSeq(t, m + 1, k) \in Seq(Rows)
        /\ SubSeq(t, m + 1, k + 1) = Append(SubSeq(t, m + 1, k), t[k + 1])
    <3>1. m + 1 \in Nat
      OBVIOUS
    <3> QED BY <2>1, <3>1, SliceFacts
  <2>5. FlattenSeq(SubSeq(t, 1, k + 1)) = (A \o B(k)) \o t[k + 1]
    BY <2>2, <2>3, FlattenAppend
  <2>6. B(k + 1) = B(k) \o t[k + 1] /\ B(k) \in Rows
    BY <2>3, <2>4, FlattenAppend
  <2>7. (A \o B(k)) \o t[k + 1] = A \o (B(k) \o t[k + 1])
    <3> HIDE DEF A, B
    <3>1. \A a, b, c \in Rows : (a \o b) \o c = a \o (b \o c)
      BY RowsAssociate
    <3>2. A \in Rows /\ B(k) \in Rows /\ t[k + 1] \in Rows
      BY <1>2, <2>3, <2>6
    <3> QED BY <3>1, <3>2
  <2>8. Good(k + 1)
    BY <2>5, <2>6, <2>7
  <2> QED BY <2>1, <2>8
<1>5. T = Nat
  <2> HIDE DEF Good
  <2> QED BY <1>3, <1>4, NatSetInduction
<1>6. n - m \in T /\ m + (n - m) = n
  <2>1. n - m \in Nat
    OBVIOUS
  <2> HIDE DEF T
  <2> QED BY <1>5, <2>1
<1> HIDE DEF Good
<1>7. Good(n)
  BY <1>6
<1> QED BY <1>7 DEF Good

LEMMA ChainFacts ==
  ASSUME NEW t, Chained(t)
  PROVE  /\ t \in Seq(Rows) /\ Len(t) \in Nat
         /\ \A k \in 1..Len(t) : IsRun(t[k])
         /\ \A k \in 1..(Len(t) - 1) : Head(t[k + 1]) = Last(t[k]) + 1
BY LenProperties DEF Chained, Contiguous

\* A dataset's rows are its segments' runs, joined.
LEMMA ChainFlattens ==
  ASSUME NEW t, Chained(t), t # << >>
  PROVE  /\ IsRun(FlattenSeq(t))
         /\ FlattenSeq(t)[1] = Head(t[1])
         /\ Last(FlattenSeq(t)) = Last(t[Len(t)])
<1> DEFINE P(n) == FlattenSeq(SubSeq(t, 1, n))
           Good(n) == IsRun(P(n)) /\ P(n)[1] = Head(t[1]) /\ Last(P(n)) = Last(t[n])
           T == {i \in Nat : i < Len(t) => Good(i + 1)}
<1>1. /\ t \in Seq(Rows) /\ Len(t) \in Nat /\ Len(t) >= 1
      /\ \A k \in 1..Len(t) : IsRun(t[k]) /\ t[k] \in Rows
  <2>1. t \in Seq(Rows) /\ Len(t) \in Nat /\ \A k \in 1..Len(t) : IsRun(t[k])
    BY ChainFacts
  <2> QED BY <2>1, EmptySeq, ElementOfSeq
<1>2. 0 \in T
  <2>1. 1 \in 1..Len(t) /\ 0 < Len(t)
    BY <1>1
  <2>2. SubSeq(t, 1, 0) = << >>
    BY SubSeqEmpty
  <2>3. SubSeq(t, 1, 1) = Append(<< >>, t[1])
    <3>1. 0 \in Nat /\ 1 \in Nat /\ 1 <= 1 /\ 1 <= 0 + 1 /\ 0 + 1 = 1
      OBVIOUS
    <3>2. SubSeq(t, 1, 0 + 1) = Append(SubSeq(t, 1, 0), t[0 + 1])
      BY <1>1, <2>1, <3>1, SliceFacts
    <3> QED BY <2>2, <3>1, <3>2
  <2>4. << >> \in Seq(Rows)
    BY EmptySeq
  <2>5. P(1) = << >> \o t[1]
    <3>1. t[1] \in Rows
      BY <1>1, <2>1
    <3>2. FlattenSeq(Append(<< >>, t[1])) = FlattenSeq(<< >>) \o t[1]
      BY <2>4, <3>1, FlattenAppend
    <3> QED BY <2>3, <3>2, FlattenEmpty
  <2>6. P(1) = t[1]
    BY <1>1, <2>1, <2>5, ConcatEmptySeq DEF Rows
  <2>7. IsRun(t[1]) /\ t[1][1] = Head(t[1])
    BY <1>1, <2>1, RunFacts
  <2> QED BY <2>6, <2>7
<1>3. ASSUME NEW i \in T PROVE i + 1 \in T
  <2> SUFFICES ASSUME i + 1 < Len(t) PROVE Good((i + 1) + 1)
    OBVIOUS
  <2> DEFINE k == i + 1
  <2>1. k \in Nat /\ k < Len(t) /\ i < Len(t) /\ k \in 1..(Len(t) - 1) /\ k + 1 \in 1..Len(t) /\ 1 <= k + 1
    BY <1>1
  <2>2. Good(k)
    BY <2>1
  <2>3. /\ SubSeq(t, 1, k) \in Seq(Rows) /\ t[k + 1] \in Rows
        /\ SubSeq(t, 1, k + 1) = Append(SubSeq(t, 1, k), t[k + 1])
    BY <1>1, <2>1, SliceFacts
  <2>4. P(k + 1) = P(k) \o t[k + 1]
    BY <2>3, FlattenAppend
  <2>5. IsRun(t[k + 1]) /\ Head(t[k + 1]) = Last(P(k)) + 1
    BY <1>1, <2>1, <2>2, ChainFacts
  <2>6. IsRun(P(k)) /\ P(k)[1] = Head(t[1])
    BY <2>2
  <2> HIDE DEF P, k
  <2>7. Good(k + 1)
    <3>1. /\ IsRun(P(k) \o t[k + 1]) /\ (P(k) \o t[k + 1])[1] = P(k)[1]
          /\ Last(P(k) \o t[k + 1]) = Last(t[k + 1])
      BY <2>5, <2>6, RunsJoin
    <3> QED BY <2>4, <2>6, <3>1
  <2> QED BY <2>7 DEF k
<1>4. T = Nat
  <2> HIDE DEF Good
  <2> QED BY <1>2, <1>3, NatSetInduction
<1>5. Len(t) - 1 \in T /\ (Len(t) - 1) + 1 = Len(t)
  <2>1. Len(t) - 1 \in Nat
    BY <1>1
  <2> HIDE DEF T
  <2> QED BY <1>4, <2>1
<1>6. Good(Len(t))
  <2> HIDE DEF Good
  <2> QED BY <1>1, <1>5
<1>7. SubSeq(t, 1, Len(t)) = t
  BY <1>1, SubSeqFull
<1> QED BY <1>6, <1>7

\* Segments m to n of a dataset are a dataset.
LEMMA ChainSlice ==
  ASSUME NEW t, Chained(t), NEW m \in Nat, NEW n \in Nat, 1 <= m, m <= n, n <= Len(t)
  PROVE  LET s == SubSeq(t, m, n)
         IN Chained(s) /\ s # << >> /\ Len(s) = n - m + 1 /\ s[1] = t[m] /\ s[Len(s)] = t[n]
<1> DEFINE s == SubSeq(t, m, n)
<1>1. t \in Seq(Rows) /\ Len(t) \in Nat /\ \A k \in 1..Len(t) : t[k] \in Rows /\ IsRun(t[k])
  BY ChainFacts, ElementOfSeq
<1>2. \A i \in m..n : t[i] \in Rows
  BY <1>1
<1>3. /\ s \in Seq(Rows)
      /\ Len(s) = n - m + 1
      /\ \A i \in 1..(n - m + 1) : s[i] = t[m + i - 1]
  BY <1>2, SubSeqProperties
<1>4. ASSUME NEW k \in 1..Len(s) PROVE IsRun(s[k])
  <2>1. k \in 1..(n - m + 1) /\ m + k - 1 \in 1..Len(t)
    BY <1>1, <1>3
  <2> QED BY <2>1, <1>1, <1>3
<1>5. ASSUME NEW k \in 1..(Len(s) - 1) PROVE Head(s[k + 1]) = Last(s[k]) + 1
  <2> DEFINE j == m + k - 1
  <2>1. /\ k \in 1..(n - m + 1) /\ k + 1 \in 1..(n - m + 1) /\ m + (k + 1) - 1 = j + 1
        /\ j \in 1..(Len(t) - 1)
    BY <1>1, <1>3
  <2>2. s[k] = t[j] /\ s[k + 1] = t[j + 1]
    BY <2>1, <1>3
  <2>3. Head(t[j + 1]) = Last(t[j]) + 1
    BY <2>1, ChainFacts
  <2> HIDE DEF s, j
  <2> QED BY <2>2, <2>3
<1>6. Chained(s)
  BY <1>3, <1>4, <1>5 DEF Chained, Contiguous
<1>7. s # << >> /\ s[1] = t[m] /\ s[Len(s)] = t[n]
  <2>1. 1 \in 1..(n - m + 1) /\ n - m + 1 \in 1..(n - m + 1) /\ m + 1 - 1 = m
        /\ m + (n - m + 1) - 1 = n
    OBVIOUS
  <2>2. s[1] = t[m] /\ s[n - m + 1] = t[n]
    BY <2>1, <1>3
  <2>3. Len(s) # 0
    BY <1>3
  <2> QED BY <2>2, <2>3, <1>3, EmptySeq
<1> QED BY <1>3, <1>6, <1>7

\* A segment ends before the ones after it.
LEMMA ChainAscends ==
  ASSUME NEW t, Chained(t), NEW m \in Nat, NEW n \in Nat, 1 <= m, m <= n, n <= Len(t)
  PROVE  Last(t[m]) \in Nat /\ Last(t[n]) \in Nat /\ Last(t[m]) <= Last(t[n])
<1> DEFINE s == SubSeq(t, m, n)
           r == FlattenSeq(s)
<1>1. m \in 1..Len(t) /\ n \in 1..Len(t)
  BY ChainFacts
<1>2. IsRun(t[m]) /\ IsRun(t[n])
  BY <1>1, ChainFacts
<1>3. Last(t[m]) \in Nat /\ Last(t[n]) \in Nat
  BY <1>2, RunFacts
<1> SUFFICES Last(t[m]) <= Last(t[n])
  BY <1>3
<1>4. CASE m = n
  BY <1>3, <1>4
<1>5. CASE m < n
  <2> DEFINE u == SubSeq(t, m + 1, n)
  <2>1. m + 1 \in Nat /\ 1 <= m + 1 /\ m + 1 <= n
    BY <1>5
  <2>2. Chained(u) /\ u # << >> /\ u[1] = t[m + 1] /\ u[Len(u)] = t[n]
    BY <2>1, ChainSlice
  <2>3. IsRun(FlattenSeq(u)) /\ FlattenSeq(u)[1] = Head(t[m + 1]) /\ Last(FlattenSeq(u)) = Last(t[n])
    BY <2>2, ChainFlattens
  <2>4. FlattenSeq(u)[1] <= Last(FlattenSeq(u))
    <3>1. Len(FlattenSeq(u)) \in Nat /\ Len(FlattenSeq(u)) >= 1 /\ FlattenSeq(u)[1] \in Nat
          /\ Last(FlattenSeq(u)) = FlattenSeq(u)[1] + (Len(FlattenSeq(u)) - 1)
      BY <2>3, RunFacts
    <3> QED BY <3>1
  <2>5. Head(t[m + 1]) = Last(t[m]) + 1
    <3>1. m \in 1..(Len(t) - 1)
      BY <1>1, <1>5, ChainFacts
    <3> QED BY <3>1, ChainFacts
  <2> QED BY <1>3, <2>3, <2>4, <2>5
<1> QED BY <1>4, <1>5

-----------------------------------------------------------------------------
(* The invariant of a capture.                                             *)

Statuses == {"active", "completed", "invalidated", "failed"}
Writing == {"ready", "early", "due", "publish"}

CaptureTyped ==
  /\ delivered \in Nat
  /\ accepted \in Rows /\ buffer \in Rows /\ received \in Rows
  /\ segments \in Seq(Rows)
  /\ catalogued \in [status : Statuses, segments : Seq(Rows)]
  /\ handle \in Statuses

\* What write() took is in the segments or in the buffer; every segment is a
\* run, and the published ones follow each other.
RowsAreKept ==
  /\ accepted = RowsOf(segments) \o buffer
  /\ buffer = << >> \/ IsRun(buffer)
  /\ \A k \in 1..Len(segments) : IsRun(segments[k])
  /\ Chained(Published)

\* The buffer is rotated when it is full, or is longer by a failed rotation.
BufferIsBounded ==
  /\ phase \in {"ready", "early"} => Len(buffer) < SegmentRows + failures
  /\ phase = "publish" => Len(buffer) < SegmentRows

\* Nothing is left to write once a close has rotated, nor behind an end that
\* is not a failure.
EndIsFlushed ==
  /\ inHand # 0 => phase \in {"early", "dead"}
  /\ phase \in {"closing", "terminal"} => buffer = << >>
  /\ catalogued.status \in {"completed", "invalidated"} =>
       phase \notin Writing /\ buffer = << >> /\ Published = segments

\* The follower has no row from a segment it has not come to.
FollowerIsBehind ==
  /\ next = 1 => received = << >>
  /\ \A k \in 1..Len(received) : received[k] <= Last(Published[next - 1])

CaptureInv ==
  /\ CaptureTypeOK
  /\ CaptureTyped
  /\ RowsAreKept
  /\ BufferIsBounded
  /\ EndIsFlushed
  /\ CompletedIsWhole
  /\ FollowerIsBehind
  /\ FollowerMissesNothing
  /\ CloseIsRecorded

USE DEF Rows, Statuses, Writing, Rotations, Capturing

LEMMA CaptureFacts ==
  ASSUME CaptureInv
  PROVE  /\ SegmentRows \in Nat /\ SegmentRows >= 1 /\ LastRow \in Nat /\ MaxFailures \in Nat
         /\ phase \in Capturing \cup {"closed", "exited", "dead"}
         /\ delivered \in Nat /\ delivered \in 0..LastRow /\ inHand \in {0, delivered}
         /\ accepted \in Seq(Nat) /\ buffer \in Seq(Nat) /\ segments \in Seq(Seq(Nat))
         /\ Len(accepted) \in Nat /\ Len(buffer) \in Nat /\ Len(segments) \in Nat
         /\ Range(accepted) \subseteq 1..delivered /\ Range(buffer) \subseteq 1..delivered
         /\ Len(buffer) <= SegmentRows + failures
         /\ failures \in Nat /\ failures \in 0..MaxFailures
         /\ catalogued \in [status : Statuses, segments : Seq(Seq(Nat))]
         /\ catalogued.status \in Statuses /\ handle \in Statuses
         /\ Published \in Seq(Seq(Nat)) /\ Len(Published) \in Nat
         /\ Published = catalogued.segments
         /\ next \in Nat /\ next >= 1 /\ next <= Len(Published) + 1
         /\ received \in Seq(Nat) /\ Len(received) \in Nat
<1>1. /\ SegmentRows \in Nat /\ SegmentRows >= 1 /\ LastRow \in Nat /\ MaxFailures \in Nat
  BY CaptureAssumption
<1>2. /\ phase \in Capturing \cup {"closed", "exited", "dead"}
      /\ delivered \in 0..LastRow /\ inHand \in {0, delivered}
      /\ Range(accepted) \cup Range(buffer) \subseteq 1..delivered
      /\ Len(buffer) <= SegmentRows + failures
      /\ failures \in 0..MaxFailures
      /\ next \in 1..(Len(Published) + 1)
  BY DEF CaptureInv, CaptureTypeOK
<1>3. /\ delivered \in Nat
      /\ accepted \in Seq(Nat) /\ buffer \in Seq(Nat) /\ segments \in Seq(Seq(Nat))
      /\ catalogued \in [status : Statuses, segments : Seq(Seq(Nat))]
      /\ handle \in Statuses /\ received \in Seq(Nat)
  BY DEF CaptureInv, CaptureTyped
<1>4. Published = catalogued.segments /\ Published \in Seq(Seq(Nat)) /\ catalogued.status \in Statuses
  BY <1>3 DEF Published
<1>5. /\ Len(accepted) \in Nat /\ Len(buffer) \in Nat /\ Len(segments) \in Nat
      /\ Len(Published) \in Nat /\ Len(received) \in Nat
  BY <1>3, <1>4, LenProperties
<1> QED BY <1>1, <1>2, <1>3, <1>4, <1>5

LEMMA PrefixFacts ==
  ASSUME NEW s \in Seq(Rows), NEW t \in Seq(Rows), IsPrefix(s, t)
  PROVE  /\ Len(s) \in Nat /\ Len(t) \in Nat /\ Len(s) <= Len(t)
         /\ \A k \in 1..Len(s) : s[k] = t[k]
         /\ \A n \in 0..Len(s) : SubSeq(s, 1, n) = SubSeq(t, 1, n)
         /\ s = SubSeq(t, 1, Len(s))
<1>1. Len(s) \in Nat /\ Len(t) \in Nat /\ Len(s) <= Len(t)
  BY LenProperties DEF IsPrefix
<1>2. s = SubSeq(t, 1, Len(s))
  <2>1. SubSeq(s, 1, Len(s)) = s
    BY SubSeqFull
  <2> QED BY <2>1 DEF IsPrefix
<1>3. \A i \in 1..Len(s) : s[i] \in Rows /\ t[i] \in Rows
  BY <1>1, ElementOfSeq
<1>4. \A k \in 1..Len(s) : s[k] = t[k]
  <2>1. \A k \in 1..(Len(s) - 1 + 1) : SubSeq(t, 1, Len(s))[k] = t[1 + k - 1]
    BY <1>1, <1>3, SubSeqProperties
  <2> SUFFICES ASSUME NEW k \in 1..Len(s) PROVE s[k] = t[k]
    OBVIOUS
  <2>2. k \in 1..(Len(s) - 1 + 1) /\ 1 + k - 1 = k
    BY <1>1
  <2> QED BY <2>1, <2>2, <1>2
<1>5. ASSUME NEW n \in 0..Len(s) PROVE SubSeq(s, 1, n) = SubSeq(t, 1, n)
  <2>1. \A i \in 1..n : s[i] \in Rows /\ t[i] \in Rows /\ s[i] = t[i]
    <3>1. \A i \in 1..n : i \in 1..Len(s)
      BY <1>1
    <3> QED BY <3>1, <1>3, <1>4
  <2>2. /\ SubSeq(s, 1, n) \in Seq(Rows)
        /\ Len(SubSeq(s, 1, n)) = IF 1 <= n THEN n - 1 + 1 ELSE 0
        /\ \A i \in 1..(n - 1 + 1) : SubSeq(s, 1, n)[i] = s[1 + i - 1]
    BY <2>1, SubSeqProperties
  <2>3. /\ SubSeq(t, 1, n) \in Seq(Rows)
        /\ Len(SubSeq(t, 1, n)) = IF 1 <= n THEN n - 1 + 1 ELSE 0
        /\ \A i \in 1..(n - 1 + 1) : SubSeq(t, 1, n)[i] = t[1 + i - 1]
    BY <2>1, SubSeqProperties
  <2>4. ASSUME NEW i \in 1..Len(SubSeq(s, 1, n)) PROVE SubSeq(s, 1, n)[i] = SubSeq(t, 1, n)[i]
    <3>1. i \in 1..n /\ i \in 1..(n - 1 + 1) /\ 1 + i - 1 = i
      BY <2>2
    <3> QED BY <3>1, <2>1, <2>2, <2>3
  <2> QED BY <2>2, <2>3, <2>4, SeqEqual
<1> QED BY <1>1, <1>2, <1>4, <1>5

LEMMA PrefixGrows ==
  ASSUME NEW s \in Seq(Rows), NEW t \in Seq(Rows), IsPrefix(s, t), NEW x \in Rows
  PROVE  IsPrefix(s, Append(t, x)) /\ IsPrefix(t, t)
<1> DEFINE u == Append(t, x)
<1>1. /\ u \in Seq(Rows) /\ Len(u) = Len(t) + 1 /\ u = t \o <<x>> /\ <<x>> \in Seq(Rows)
  BY AppendProperties, AppendIsConcat
<1>2. Len(s) \in Nat /\ Len(t) \in Nat /\ Len(s) <= Len(t)
  BY PrefixFacts
<1>3. SubSeq(u, 1, Len(s)) = SubSeq(t, 1, Len(s))
  <2>1. CASE Len(s) = 0
    <3>1. SubSeq(u, 1, 0) = << >> /\ SubSeq(t, 1, 0) = << >>
      BY SubSeqEmpty
    <3> QED BY <3>1, <2>1
  <2>2. CASE Len(s) # 0
    <3>1. 1 \in 1..Len(t) /\ Len(s) \in 1..Len(t)
      BY <1>2, <2>2
    <3> QED BY <3>1, <1>1, SubSeqOfConcat1
  <2> QED BY <2>1, <2>2
<1>4. SubSeq(s, 1, Len(s)) = SubSeq(t, 1, Len(s))
  BY DEF IsPrefix
<1> QED BY <1>1, <1>2, <1>3, <1>4 DEF IsPrefix

LEMMA RangeFacts ==
  ASSUME NEW S, NEW s \in Seq(S), NEW x \in S
  PROVE  Range(Append(s, x)) = Range(s) \cup {x}
<1>1. /\ Append(s, x) \in Seq(S) /\ Len(Append(s, x)) = Len(s) + 1
      /\ \A k \in 1..Len(s) : Append(s, x)[k] = s[k]
      /\ Append(s, x)[Len(s) + 1] = x
  BY AppendProperties
<1>2. DOMAIN s = 1..Len(s) /\ DOMAIN Append(s, x) = 1..(Len(s) + 1) /\ Len(s) \in Nat
  BY <1>1, LenProperties
<1>3. \A k : k \in 1..(Len(s) + 1) <=> k \in 1..Len(s) \/ k = Len(s) + 1
  BY <1>2
<1> QED BY <1>1, <1>2, <1>3 DEF Range

LEMMA ShortRanges == Range(<< >>) = {} /\ \A x : Range(<<x>>) = {x}
BY DEF Range

-----------------------------------------------------------------------------
(* The steps of a capture.                                                 *)

\* A publication leaves what the follower has read where it was.
LEMMA FollowerKept ==
  ASSUME CaptureInv, UNCHANGED follower, Published' \in {Published, segments}
  PROVE  /\ FollowerIsBehind' /\ FollowerMissesNothing'
         /\ next' \in 1..(Len(Published') + 1)
<1>1. next' = next /\ received' = received /\ pollRaised' = pollRaised
  BY DEF follower
<1>2. /\ Published \in Seq(Rows) /\ segments \in Seq(Rows) /\ Len(Published) \in Nat
      /\ next \in Nat /\ next >= 1 /\ next <= Len(Published) + 1
  BY CaptureFacts
<1>3. IsPrefix(Published, segments)
  BY DEF CaptureInv, CaptureTypeOK
<1>4. /\ Len(Published') \in Nat /\ Len(Published) <= Len(Published')
      /\ \A k \in 1..Len(Published) : Published'[k] = Published[k]
      /\ \A n \in 0..Len(Published) : SubSeq(Published', 1, n) = SubSeq(Published, 1, n)
  <2>1. CASE Published' = Published
    BY <2>1, <1>2
  <2>2. CASE Published' = segments
    BY <2>2, <1>2, <1>3, PrefixFacts
  <2> QED BY <2>1, <2>2
<1>5. FollowerIsBehind'
  <2>1. FollowerIsBehind
    BY DEF CaptureInv
  <2>2. next = 1 => received = << >>
    BY <2>1 DEF FollowerIsBehind
  <2>3. ASSUME NEW k \in 1..Len(received) PROVE received[k] <= Last(Published'[next - 1])
    <3>1. received[k] <= Last(Published[next - 1])
      BY <2>1 DEF FollowerIsBehind
    <3>2. next # 1
      BY <2>2, <2>3, EmptySeq
    <3>3. next - 1 \in 1..Len(Published)
      BY <3>2, <1>2
    <3> QED BY <3>1, <3>3, <1>4
  <2> QED BY <2>2, <2>3, <1>1 DEF FollowerIsBehind
<1>6. FollowerMissesNothing'
  <2>1. FollowerMissesNothing
    BY DEF CaptureInv
  <2>2. next - 1 \in 0..Len(Published)
    BY <1>2
  <2>3. SubSeq(Published', 1, next - 1) = SubSeq(Published, 1, next - 1)
    BY <2>2, <1>4
  <2> QED BY <2>1, <2>3, <1>1 DEF FollowerMissesNothing, RowsOf
<1> QED BY <1>1, <1>2, <1>4, <1>5, <1>6

LEMMA WriteRowInv ==
  ASSUME CaptureInv, WriteRow
  PROVE  CaptureInv'
<1> DEFINE d == delivered + 1
<1>1. /\ phase = "ready" /\ delivered < LastRow
      /\ buffer # << >> => Last(buffer) = delivered
      /\ delivered' = d
      /\ buffer' = Append(buffer, d)
      /\ accepted' = Append(accepted, d)
      /\ phase' = AfterAppend(buffer')
      /\ inHand' = inHand /\ segments' = segments /\ unpublished' = unpublished /\ files' = files
      /\ UNCHANGED <<handle, catalogued, reason, closes, refused>>
      /\ UNCHANGED follower /\ failures' = failures
  BY DEF WriteRow, session
<1>2. /\ accepted \in Seq(Nat) /\ buffer \in Seq(Nat) /\ segments \in Seq(Rows) /\ d \in Nat /\ d >= 1
      /\ Len(buffer) \in Nat /\ d \in 1..LastRow /\ delivered \in Nat
  BY <1>1, CaptureFacts
<1>3. Published' = Published
  BY <1>1 DEF Published
<1>4. FollowerIsBehind' /\ FollowerMissesNothing' /\ next' \in 1..(Len(Published') + 1)
  BY <1>1, <1>3, FollowerKept
<1>5. /\ Append(buffer, d) \in Seq(Nat) /\ Len(Append(buffer, d)) = Len(buffer) + 1
      /\ Append(accepted, d) \in Seq(Nat)
      /\ Append(buffer, d) = buffer \o <<d>> /\ Append(accepted, d) = accepted \o <<d>>
      /\ <<d>> \in Seq(Nat)
  BY <1>2, AppendProperties, AppendIsConcat
<1>6. RowsAreKept'
  <2>1. accepted = RowsOf(segments) \o buffer /\ RowsOf(segments) \in Rows
    BY <1>2, FlattenAppend DEF CaptureInv, RowsAreKept, RowsOf
  <2>2. accepted \o <<d>> = RowsOf(segments) \o (buffer \o <<d>>)
    BY <2>1, <1>2, <1>5, RowsAssociate
  <2>3. IsRun(<<d>>)
    BY <1>5 DEF IsRun
  <2>4. IsRun(Append(buffer, d))
    <3>1. CASE buffer = << >>
      <4>1. Append(buffer, d) = <<d>>
        BY <3>1
      <4> QED BY <4>1, <2>3
    <3>2. CASE buffer # << >>
      <4>1. IsRun(buffer) /\ Head(<<d>>) = Last(buffer) + 1
        BY <3>2, <1>1 DEF CaptureInv, RowsAreKept
      <4> QED BY <4>1, <2>3, <1>5, RunsJoin
    <3> QED BY <3>1, <3>2
  <2>5. \A k \in 1..Len(segments) : IsRun(segments[k])
    BY DEF CaptureInv, RowsAreKept
  <2>6. Chained(Published)
    BY DEF CaptureInv, RowsAreKept
  <2>7. accepted' = RowsOf(segments)' \o buffer'
    BY <2>2, <1>1, <1>5 DEF RowsOf
  <2> QED BY <2>4, <2>5, <2>6, <2>7, <1>1, <1>3 DEF RowsAreKept
<1>7. Len(buffer) < SegmentRows + failures
  BY <1>1 DEF CaptureInv, BufferIsBounded
<1>8. phase' = IF Len(buffer) + 1 >= SegmentRows THEN "due" ELSE "publish"
  BY <1>1, <1>5 DEF AfterAppend
<1>9. CaptureTypeOK'
  <2>1. Range(accepted') \cup Range(buffer') \subseteq 1..delivered'
    <3>1. Range(accepted') = Range(accepted) \cup {d} /\ Range(buffer') = Range(buffer) \cup {d}
      <4> HIDE DEF d
      <4>1. Range(Append(accepted, d)) = Range(accepted) \cup {d}
        BY <1>2, RangeFacts
      <4>2. Range(Append(buffer, d)) = Range(buffer) \cup {d}
        BY <1>2, RangeFacts
      <4> QED BY <4>1, <4>2, <1>1
    <3>2. Range(accepted) \subseteq 1..delivered /\ Range(buffer) \subseteq 1..delivered
      BY CaptureFacts
    <3>3. 1..delivered \subseteq 1..d /\ d \in 1..d
      BY <1>2
    <3> QED BY <3>1, <3>2, <3>3, <1>1
  <2>2. inHand' \in {0, delivered'}
    <3>1. inHand = 0
      BY <1>1 DEF CaptureInv, EndIsFlushed
    <3> QED BY <3>1, <1>1
  <2>3. Len(buffer') <= SegmentRows' + failures' /\ failures' \in 0..MaxFailures
    <3>1. failures \in Nat /\ SegmentRows \in Nat /\ failures \in 0..MaxFailures
      BY CaptureFacts
    <3> QED BY <3>1, <1>1, <1>2, <1>5, <1>7
  <2>4. IsPrefix(Published', segments') /\ Range(segments') \subseteq files'
    BY <1>1, <1>3 DEF CaptureInv, CaptureTypeOK
  <2>5. phase' \in Capturing /\ delivered' \in 0..LastRow
    BY <1>1, <1>2, <1>8
  <2>6. /\ unpublished' \in BOOLEAN /\ pollRaised' \in BOOLEAN /\ reason' \in BOOLEAN
        /\ refused' \in BOOLEAN /\ closes' \in 0..1
        /\ {handle', catalogued.status'} \subseteq {"active", "completed", "invalidated", "failed"}
    BY <1>1 DEF CaptureInv, CaptureTypeOK, follower
  <2> QED BY <2>1, <2>2, <2>3, <2>4, <2>5, <2>6, <1>4 DEF CaptureTypeOK
<1>10. CaptureTyped'
  <2>1. received' = received
    BY <1>1 DEF follower
  <2> QED BY <2>1, <1>1, <1>2, <1>5 DEF CaptureInv, CaptureTyped
<1>11. BufferIsBounded'
  <2>1. phase' = "publish" => Len(buffer) + 1 < SegmentRows
    <3>1. SegmentRows \in Nat
      BY CaptureFacts
    <3> QED BY <3>1, <1>2, <1>8
  <2> QED BY <2>1, <1>1, <1>5, <1>8 DEF BufferIsBounded
<1>12. EndIsFlushed'
  <2>1. inHand = 0 /\ catalogued.status \notin {"completed", "invalidated"}
    BY <1>1 DEF CaptureInv, EndIsFlushed
  <2> QED BY <2>1, <1>1, <1>8 DEF EndIsFlushed
<1>13. CompletedIsWhole'
  <2>1. catalogued.status # "completed"
    BY <1>1 DEF CaptureInv, EndIsFlushed
  <2> QED BY <2>1, <1>1 DEF CompletedIsWhole
<1>14. CloseIsRecorded'
  BY <1>8 DEF CloseIsRecorded
<1> QED BY <1>4, <1>6, <1>9, <1>10, <1>11, <1>12, <1>13, <1>14 DEF CaptureInv

\* A step that moves no row.
LEMMA RowsUnmoved ==
  ASSUME CaptureInv, UNCHANGED <<accepted, buffer, segments, catalogued, follower>>, files \subseteq files'
  PROVE  /\ RowsAreKept' /\ CompletedIsWhole' /\ FollowerIsBehind' /\ FollowerMissesNothing'
         /\ next' \in 1..(Len(Published') + 1)
         /\ IsPrefix(Published', segments') /\ Range(segments') \subseteq files'
         /\ Published' = Published /\ received' = received /\ pollRaised' = pollRaised
<1>1. Published' = Published /\ next' = next /\ received' = received /\ pollRaised' = pollRaised
  BY DEF Published, follower
<1>2. RowsAreKept'
  <2>1. RowsAreKept
    BY DEF CaptureInv
  <2> QED BY <2>1, <1>1 DEF RowsAreKept, RowsOf
<1>3. FollowerIsBehind' /\ FollowerMissesNothing' /\ next' \in 1..(Len(Published') + 1)
  BY <1>1, FollowerKept
<1>4. CompletedIsWhole'
  <2>1. CompletedIsWhole
    BY DEF CaptureInv
  <2> QED BY <2>1, <1>1 DEF CompletedIsWhole, RowsOf
<1>5. IsPrefix(Published', segments') /\ Range(segments') \subseteq files'
  BY <1>1 DEF CaptureInv, CaptureTypeOK
<1> QED BY <1>1, <1>2, <1>3, <1>4, <1>5

LEMMA WriteLateRowInv ==
  ASSUME CaptureInv, WriteLateRow
  PROVE  CaptureInv'
<1> DEFINE d == delivered + 1
<1>1. /\ phase = "ready" /\ delivered < LastRow /\ delivered' = d /\ inHand' = d /\ phase' = "early"
      /\ UNCHANGED <<accepted, buffer, segments, unpublished, files, failures, follower>>
      /\ UNCHANGED <<handle, catalogued, reason, closes, refused>>
  BY DEF WriteLateRow, session
<1>2. /\ RowsAreKept' /\ CompletedIsWhole' /\ FollowerIsBehind' /\ FollowerMissesNothing'
      /\ next' \in 1..(Len(Published') + 1)
      /\ IsPrefix(Published', segments') /\ Range(segments') \subseteq files'
      /\ received' = received /\ pollRaised' = pollRaised
  BY <1>1, RowsUnmoved
<1>3. CaptureTypeOK'
  <2>1. delivered \in Nat /\ LastRow \in Nat /\ Range(accepted) \subseteq 1..delivered
        /\ Range(buffer) \subseteq 1..delivered /\ failures \in 0..MaxFailures
        /\ Len(buffer) <= SegmentRows + failures
    BY CaptureFacts
  <2>2. 1..delivered \subseteq 1..d /\ d \in 0..LastRow
    BY <2>1, <1>1
  <2> QED BY <1>1, <1>2, <2>1, <2>2 DEF CaptureInv, CaptureTypeOK
<1>4. CaptureTyped'
  <2>1. d \in Nat
    BY CaptureFacts
  <2> QED BY <2>1, <1>1, <1>2 DEF CaptureInv, CaptureTyped
<1>5. BufferIsBounded'
  BY <1>1 DEF CaptureInv, BufferIsBounded
<1>6. EndIsFlushed'
  BY <1>1 DEF CaptureInv, EndIsFlushed
<1>7. CloseIsRecorded'
  BY <1>1 DEF CloseIsRecorded
<1> QED BY <1>2, <1>3, <1>4, <1>5, <1>6, <1>7 DEF CaptureInv

LEMMA RotateFailsInv ==
  ASSUME CaptureInv, RotateFails
  PROVE  CaptureInv'
<1>1. /\ phase \in {"early", "due", "close"} /\ failures < MaxFailures /\ failures' = failures + 1
      /\ files \subseteq files' /\ inHand' = 0
      /\ phase' = IF phase = "close" THEN "failing" ELSE "ready"
      /\ UNCHANGED <<delivered, accepted, buffer, segments, unpublished, follower>>
      /\ UNCHANGED <<handle, catalogued, reason, closes, refused>>
  BY DEF RotateFails, session
<1>2. /\ RowsAreKept' /\ CompletedIsWhole' /\ FollowerIsBehind' /\ FollowerMissesNothing'
      /\ next' \in 1..(Len(Published') + 1)
      /\ IsPrefix(Published', segments') /\ Range(segments') \subseteq files'
      /\ received' = received /\ pollRaised' = pollRaised /\ Published' = Published
  BY <1>1, RowsUnmoved
<1>3. /\ failures \in Nat /\ SegmentRows \in Nat /\ Len(buffer) \in Nat /\ MaxFailures \in Nat
      /\ Len(buffer) <= SegmentRows + failures
  BY CaptureFacts
<1>4. CaptureTypeOK'
  <2>1. failures' \in 0..MaxFailures /\ Len(buffer') <= SegmentRows + failures'
    BY <1>1, <1>3
  <2>2. phase' \in Capturing
    BY <1>1
  <2> QED BY <1>1, <1>2, <2>1, <2>2 DEF CaptureInv, CaptureTypeOK
<1>5. CaptureTyped'
  BY <1>1, <1>2 DEF CaptureInv, CaptureTyped
<1>6. BufferIsBounded'
  <2>1. Len(buffer') < SegmentRows + failures'
    BY <1>1, <1>3
  <2> QED BY <1>1, <2>1 DEF BufferIsBounded
<1>7. EndIsFlushed'
  BY <1>1, <1>2 DEF CaptureInv, EndIsFlushed
<1>8. CloseIsRecorded'
  BY <1>1 DEF CloseIsRecorded
<1> QED BY <1>2, <1>4, <1>5, <1>6, <1>7, <1>8 DEF CaptureInv

\* The caller closes, or the process dies.
LEMMA CloseOrDieInv ==
  ASSUME CaptureInv, Close \/ CaptureDies
  PROVE  CaptureInv'
<1>1. /\ \/ phase = "ready" /\ phase' = "close"
         \/ phase' = "dead"
      /\ reason' \in BOOLEAN /\ closes' \in 0..1
      /\ UNCHANGED <<inHand, delivered, accepted, buffer, segments, unpublished, files>>
      /\ UNCHANGED <<handle, catalogued, refused, follower, failures>>
  BY DEF Close, CaptureDies, writer, session, CaptureInv, CaptureTypeOK
<1>2. /\ RowsAreKept' /\ CompletedIsWhole' /\ FollowerIsBehind' /\ FollowerMissesNothing'
      /\ next' \in 1..(Len(Published') + 1)
      /\ IsPrefix(Published', segments') /\ Range(segments') \subseteq files'
      /\ received' = received /\ pollRaised' = pollRaised
  BY <1>1, RowsUnmoved
<1>3. CaptureTypeOK'
  <2>1. phase' \in Capturing \cup {"closed", "exited", "dead"}
    BY <1>1
  <2> QED BY <1>1, <1>2, <2>1 DEF CaptureInv, CaptureTypeOK
<1>4. CaptureTyped'
  BY <1>1, <1>2 DEF CaptureInv, CaptureTyped
<1>5. BufferIsBounded'
  BY <1>1 DEF BufferIsBounded
<1>6. EndIsFlushed'
  BY <1>1, <1>2 DEF CaptureInv, EndIsFlushed, Published
<1>7. CloseIsRecorded'
  BY <1>1 DEF CloseIsRecorded
<1> QED BY <1>2, <1>3, <1>4, <1>5, <1>6, <1>7 DEF CaptureInv

LEMMA RotateInv ==
  ASSUME CaptureInv, Rotate
  PROVE  CaptureInv'
<1> DEFINE rows == IF inHand = 0 THEN << >> ELSE <<inHand>>
<1>1. /\ phase \in {"early", "due", "close"}
      /\ IF buffer = << >> THEN segments' = segments /\ unpublished' = unpublished /\ files' = files
         ELSE /\ segments' = Append(segments, buffer) /\ unpublished' = TRUE
              /\ files' = files \cup {buffer}
      /\ buffer' = rows /\ accepted' = accepted \o rows /\ inHand' = 0
      /\ phase' = IF phase = "close" THEN "closing" ELSE AfterAppend(rows)
      /\ delivered' = delivered /\ failures' = failures
      /\ UNCHANGED <<handle, catalogued, reason, closes, refused>> /\ UNCHANGED follower
  BY DEF Rotate, Rotated, session
<1>2. /\ accepted \in Seq(Nat) /\ buffer \in Seq(Nat) /\ segments \in Seq(Rows)
      /\ delivered \in Nat /\ inHand \in {0, delivered} /\ Len(buffer) \in Nat /\ Len(segments) \in Nat
      /\ Published \in Seq(Rows)
      /\ SegmentRows \in Nat /\ SegmentRows >= 1 /\ failures \in Nat /\ failures \in 0..MaxFailures
      /\ Range(accepted) \subseteq 1..delivered /\ Range(buffer) \subseteq 1..delivered
  BY CaptureFacts
<1>3. Published' = Published /\ received' = received /\ pollRaised' = pollRaised
  BY <1>1 DEF Published, follower
<1>4. FollowerIsBehind' /\ FollowerMissesNothing' /\ next' \in 1..(Len(Published') + 1)
  BY <1>1, <1>3, FollowerKept
<1>5. /\ rows \in Seq(Nat) /\ Len(rows) \in 0..1
      /\ rows = << >> \/ IsRun(rows)
      /\ Range(rows) \subseteq 1..delivered
  <2>1. CASE inHand = 0
    <3>1. Range(<< >>) = {}
      BY ShortRanges
    <3> QED BY <2>1, <3>1
  <2>2. CASE inHand # 0
    <3>1. inHand \in Nat /\ inHand \in 1..delivered
      BY <2>2, <1>2
    <3>2. <<inHand>> \in Seq(Nat) /\ Len(<<inHand>>) = 1
      BY <3>1
    <3>3. IsRun(<<inHand>>)
      BY <3>2 DEF IsRun
    <3>4. Range(<<inHand>>) = {inHand}
      BY ShortRanges
    <3> QED BY <2>2, <3>1, <3>2, <3>3, <3>4
  <2> QED BY <2>1, <2>2
<1>6. phase # "early" => rows = << >>
  BY <1>1 DEF CaptureInv, EndIsFlushed
<1>7. /\ accepted \o rows \in Seq(Nat) /\ Range(accepted \o rows) \subseteq 1..delivered
  <2>1. CASE inHand = 0
    <3>1. accepted \o << >> = accepted
      BY <1>2, ConcatEmptySeq
    <3> QED BY <2>1, <3>1, <1>2
  <2>2. CASE inHand # 0
    <3>1. inHand \in Nat /\ inHand \in 1..delivered
      BY <2>2, <1>2
    <3>2. accepted \o <<inHand>> = Append(accepted, inHand)
      BY <3>1, <1>2, AppendIsConcat
    <3>3. Append(accepted, inHand) \in Seq(Nat)
      BY <3>1, <1>2, AppendProperties
    <3>4. Range(Append(accepted, inHand)) = Range(accepted) \cup {inHand}
      <4>1. accepted \in Seq(Nat) /\ inHand \in Nat
        BY <3>1, <1>2
      <4> HIDE DEF rows
      <4> QED BY <4>1, RangeFacts
    <3>5. rows = <<inHand>>
      BY <2>2
    <3> HIDE DEF rows
    <3> QED BY <3>1, <3>2, <3>3, <3>4, <3>5, <1>2
  <2> QED BY <2>1, <2>2
<1> HIDE DEF rows
<1>8. /\ segments' \in Seq(Rows) /\ IsPrefix(Published', segments')
      /\ \A k \in 1..Len(segments') : IsRun(segments'[k])
      /\ Range(segments') \subseteq files'
      /\ accepted = RowsOf(segments')
  <2>1. /\ IsPrefix(Published, segments) /\ Range(segments) \subseteq files
        /\ \A k \in 1..Len(segments) : IsRun(segments[k])
        /\ accepted = RowsOf(segments) \o buffer /\ (buffer = << >> \/ IsRun(buffer))
    BY DEF CaptureInv, CaptureTypeOK, RowsAreKept
  <2>2. RowsOf(segments) \in Seq(Nat) /\ RowsOf(Append(segments, buffer)) = RowsOf(segments) \o buffer
    BY <1>2, FlattenAppend DEF RowsOf
  <2>3. CASE buffer = << >>
    <3>1. RowsOf(segments) \o << >> = RowsOf(segments)
      BY <2>2, ConcatEmptySeq
    <3>2. segments' = segments /\ files' = files
      BY <2>3, <1>1
    <3>3. accepted = RowsOf(segments')
      BY <3>1, <3>2, <2>1, <2>3
    <3> QED BY <2>1, <3>2, <3>3, <1>2, <1>3
  <2>4. CASE buffer # << >>
    <3>1. segments' = Append(segments, buffer) /\ files' = files \cup {buffer}
      BY <2>4, <1>1
    <3>2. /\ Append(segments, buffer) \in Seq(Rows)
          /\ Len(Append(segments, buffer)) = Len(segments) + 1
          /\ \A k \in 1..Len(segments) : Append(segments, buffer)[k] = segments[k]
          /\ Append(segments, buffer)[Len(segments) + 1] = buffer
      BY <1>2, AppendProperties
    <3>3. Range(Append(segments, buffer)) = Range(segments) \cup {buffer}
      BY <1>2, RangeFacts
    <3>4. IsPrefix(Published, Append(segments, buffer))
      BY <2>1, <1>2, PrefixGrows
    <3>5. ASSUME NEW k \in 1..(Len(segments) + 1) PROVE IsRun(Append(segments, buffer)[k])
      <4>1. k \in 1..Len(segments) \/ k = Len(segments) + 1
        BY <1>2
      <4> QED BY <4>1, <3>2, <2>1, <2>4
    <3>6. accepted = RowsOf(segments')
      BY <3>1, <2>1, <2>2
    <3> QED BY <3>1, <3>2, <3>3, <3>4, <3>5, <3>6, <2>1, <1>3
  <2> QED BY <2>3, <2>4
<1>9. RowsAreKept'
  <2>1. Chained(Published)
    BY DEF CaptureInv, RowsAreKept
  <2>2. accepted' = RowsOf(segments)' \o buffer'
    BY <1>1, <1>8 DEF RowsOf
  <2> QED BY <2>1, <2>2, <1>1, <1>3, <1>5, <1>8 DEF RowsAreKept
<1>10. /\ phase' \in {"closing", "due", "publish"}
       /\ phase' = "publish" => Len(rows) < SegmentRows
       /\ phase' # "closing" => phase \in Writing
       /\ phase = "close" <=> phase' = "closing"
  <2>1. AfterAppend(rows) = IF Len(rows) >= SegmentRows THEN "due" ELSE "publish"
    BY DEF AfterAppend
  <2>2. Len(rows) \in Nat
    BY <1>5
  <2>3. CASE phase = "close"
    BY <2>3, <1>1
  <2>4. CASE phase # "close"
    BY <2>1, <2>2, <2>4, <1>1, <1>2
  <2> QED BY <2>3, <2>4
<1>11. CaptureTypeOK'
  <2>1. Len(buffer') <= SegmentRows' + failures'
    <3>1. Len(rows) <= SegmentRows + failures
      <4>1. Len(rows) \in 0..1
        BY <1>5
      <4>2. SegmentRows \in Nat /\ SegmentRows >= 1 /\ failures \in Nat
        BY <1>2
      <4> QED BY <4>1, <4>2
    <3> QED BY <3>1, <1>1
  <2>2. Range(accepted') \cup Range(buffer') \subseteq 1..delivered'
    BY <1>1, <1>5, <1>7
  <2>3. phase' \in Capturing /\ inHand' \in {0, delivered'} /\ unpublished' \in BOOLEAN
    BY <1>1, <1>10 DEF CaptureInv, CaptureTypeOK
  <2>4. /\ pollRaised' \in BOOLEAN /\ reason' \in BOOLEAN /\ refused' \in BOOLEAN /\ closes' \in 0..1
        /\ {handle', catalogued.status'} \subseteq {"active", "completed", "invalidated", "failed"}
        /\ delivered' \in 0..LastRow
    BY <1>1, <1>3 DEF CaptureInv, CaptureTypeOK
  <2> QED BY <2>1, <2>2, <2>3, <2>4, <1>1, <1>2, <1>4, <1>8 DEF CaptureTypeOK
<1>12. CaptureTyped'
  BY <1>1, <1>3, <1>5, <1>7, <1>8 DEF CaptureInv, CaptureTyped
<1>13. BufferIsBounded'
  BY <1>1, <1>10 DEF BufferIsBounded
<1>14. ASSUME catalogued.status \in {"completed", "invalidated"}
       PROVE  /\ phase = "close" /\ phase' = "closing"
              /\ buffer' = << >> /\ segments' = segments /\ accepted' = accepted /\ files' = files
              /\ Published = segments
  <2>1. phase \notin Writing /\ buffer = << >> /\ Published = segments
    BY <1>14 DEF CaptureInv, EndIsFlushed
  <2>2. phase = "close" /\ rows = << >>
    BY <2>1, <1>1, <1>6
  <2>3. accepted \o << >> = accepted
    BY <1>2, ConcatEmptySeq
  <2> QED BY <2>1, <2>2, <2>3, <1>1, <1>10
<1>15. EndIsFlushed'
  <2>1. phase' = "closing" => buffer' = << >>
    BY <1>1, <1>6, <1>10
  <2> QED BY <2>1, <1>1, <1>3, <1>10, <1>14 DEF EndIsFlushed
<1>16. CompletedIsWhole'
  <2>1. CompletedIsWhole
    BY DEF CaptureInv
  <2> QED BY <2>1, <1>1, <1>3, <1>14 DEF CompletedIsWhole, RowsOf
<1>17. CloseIsRecorded'
  BY <1>10 DEF CloseIsRecorded
<1> QED BY <1>4, <1>9, <1>11, <1>12, <1>13, <1>15, <1>16, <1>17 DEF CaptureInv

\* A step that only has to do with the catalogue: it hands over all segments,
\* or nothing.
Hands(s) ==
  /\ UNCHANGED <<inHand, delivered, accepted, buffer, segments, files, follower>>
  /\ catalogued' \in {catalogued, [status |-> s, segments |-> segments]}
  /\ catalogued' # catalogued => Contiguous(segments)
  /\ handle' \in Statuses /\ failures' \in {failures, failures + 1} /\ failures' \in 0..MaxFailures

AllButControl ==
  /\ CaptureTyped /\ RowsAreKept /\ FollowerIsBehind /\ FollowerMissesNothing
  /\ delivered \in 0..LastRow /\ inHand \in {0, delivered}
  /\ Range(accepted) \cup Range(buffer) \subseteq 1..delivered
  /\ Len(buffer) <= SegmentRows + failures /\ Range(segments) \subseteq files
  /\ failures \in 0..MaxFailures
  /\ pollRaised \in BOOLEAN
  /\ IsPrefix(Published, segments)
  /\ {handle, catalogued.status} \subseteq {"active", "completed", "invalidated", "failed"}
  /\ next \in 1..(Len(Published) + 1)

LEMMA HandedOver ==
  ASSUME CaptureInv, NEW s \in Statuses, Hands(s)
  PROVE  AllButControl' /\ Published' \in {Published, segments}
<1>1. /\ UNCHANGED <<inHand, delivered, accepted, buffer, segments, files, next, received, pollRaised>>
      /\ UNCHANGED follower
      /\ catalogued' \in {catalogued, [status |-> s, segments |-> segments]}
      /\ catalogued' # catalogued => Contiguous(segments)
      /\ handle' \in Statuses /\ failures' \in {failures, failures + 1} /\ failures' \in 0..MaxFailures
  BY DEF Hands, follower
<1>2. /\ Published = catalogued.segments /\ catalogued.status \in Statuses
      /\ Published \in Seq(Rows) /\ segments \in Seq(Rows)
      /\ delivered \in 0..LastRow /\ inHand \in {0, delivered}
      /\ Range(accepted) \cup Range(buffer) \subseteq 1..delivered
      /\ failures \in Nat /\ Len(buffer) \in Nat /\ SegmentRows \in Nat
      /\ Len(buffer) <= SegmentRows + failures
      /\ catalogued \in [status : Statuses, segments : Seq(Rows)]
  BY CaptureFacts
<1>3. Published' \in {Published, segments}
  BY <1>1, <1>2 DEF Published
<1>4. FollowerIsBehind' /\ FollowerMissesNothing' /\ next' \in 1..(Len(Published') + 1)
  BY <1>1, <1>3, FollowerKept
<1>5. [status |-> s, segments |-> segments] \in [status : Statuses, segments : Seq(Rows)]
  BY <1>2
<1>6. catalogued' \in [status : Statuses, segments : Seq(Rows)]
  BY <1>1, <1>2, <1>5
<1>7. CaptureTyped'
  BY <1>1, <1>6 DEF CaptureInv, CaptureTyped
<1>8. Chained(Published')
  <2>1. Chained(Published) /\ \A k \in 1..Len(segments) : IsRun(segments[k])
    BY DEF CaptureInv, RowsAreKept
  <2>2. CASE catalogued' = catalogued
    BY <2>1, <2>2 DEF Published
  <2>3. CASE catalogued' # catalogued
    <3>1. catalogued' = [status |-> s, segments |-> segments] /\ Contiguous(segments)
      BY <2>3, <1>1
    <3>2. Chained(segments)
      BY <3>1, <2>1, <1>2 DEF Chained
    <3>3. Published' = segments
      BY <3>1 DEF Published
    <3> QED BY <3>2, <3>3
  <2> QED BY <2>2, <2>3
<1>9. RowsAreKept'
  BY <1>1, <1>8 DEF CaptureInv, RowsAreKept, RowsOf
<1>10. IsPrefix(Published', segments')
  <2>1. IsPrefix(Published, segments)
    BY DEF CaptureInv, CaptureTypeOK
  <2>2. IsPrefix(segments, segments)
    <3>1. << >> \in Rows
      OBVIOUS
    <3> QED BY <2>1, <3>1, <1>2, PrefixGrows
  <2> QED BY <2>1, <2>2, <1>1, <1>3
<1>11. {handle', catalogued.status'} \subseteq Statuses
  BY <1>1, <1>6
<1>12. Len(buffer') <= SegmentRows' + failures'
  BY <1>1, <1>2
<1>13. Range(segments') \subseteq files' /\ pollRaised' \in BOOLEAN
  BY <1>1 DEF CaptureInv, CaptureTypeOK
<1> QED
  BY <1>1, <1>2, <1>3, <1>4, <1>7, <1>9, <1>10, <1>11, <1>12, <1>13 DEF AllButControl

LEMMA PublishSegmentsInv ==
  ASSUME CaptureInv, PublishSegments
  PROVE  CaptureInv'
<1> DEFINE onward == IF phase = "publish" THEN "ready" ELSE "terminal"
           raised == IF phase = "publish" THEN "ready" ELSE "failing"
           h == [catalogued EXCEPT !.segments = segments]
<1>1. /\ phase \in {"publish", "closing"} /\ phase' \in {onward, raised} /\ unpublished' = FALSE
      /\ UNCHANGED <<inHand, delivered, accepted, buffer, segments, files, reason, closes, refused>>
      /\ UNCHANGED follower /\ handle' = handle
  BY DEF PublishSegments, CatalogueTakes
<1>2. \/ UNCHANGED <<catalogued, failures>>
      \/ /\ Contiguous(segments) /\ catalogued.status = "active"
         /\ catalogued' \in {catalogued, h}
         /\ failures' = failures \/ (failures < MaxFailures /\ failures' = failures + 1)
  BY DEF PublishSegments, CatalogueTakes, CatalogueFails
<1>3. /\ catalogued \in [status : Statuses, segments : Seq(Rows)]
      /\ catalogued.status \in Statuses /\ handle \in Statuses
      /\ Len(buffer) \in Nat /\ SegmentRows \in Nat
      /\ failures \in 0..MaxFailures /\ MaxFailures \in Nat
  BY CaptureFacts
<1>4. h = [status |-> catalogued.status, segments |-> segments]
  BY <1>3
<1>5. Hands(catalogued.status)
  <2>1. failures' \in {failures, failures + 1} /\ failures' \in 0..MaxFailures
    BY <1>2, <1>3
  <2>2. /\ catalogued' \in {catalogued, [status |-> catalogued.status, segments |-> segments]}
        /\ catalogued' # catalogued => Contiguous(segments)
    BY <1>2, <1>4
  <2> QED BY <2>1, <2>2, <1>1, <1>3 DEF Hands
<1>6. AllButControl' /\ Published' \in {Published, segments}
  <2>1. \A s \in Statuses : Hands(s) => AllButControl' /\ Published' \in {Published, segments}
    BY HandedOver
  <2> QED BY <2>1, <1>3, <1>5
<1>7. CaptureTypeOK'
  <2>1. phase' \in Capturing /\ unpublished' \in BOOLEAN
    BY <1>1
  <2>2. reason' \in BOOLEAN /\ refused' \in BOOLEAN /\ closes' \in 0..1
    BY <1>1 DEF CaptureInv, CaptureTypeOK
  <2> QED BY <2>1, <2>2, <1>6 DEF CaptureTypeOK, AllButControl
<1>8. BufferIsBounded'
  <2>1. phase' = "ready" => Len(buffer) < SegmentRows
    BY <1>1 DEF CaptureInv, BufferIsBounded
  <2>2. failures' \in Nat
    BY <1>6, <1>3 DEF AllButControl
  <2>3. phase' = "ready" => Len(buffer') < SegmentRows + failures'
    BY <2>1, <2>2, <1>1, <1>3
  <2> QED BY <2>3, <1>1 DEF BufferIsBounded
<1>9. catalogued.status \in {"completed", "invalidated"} =>
        phase = "closing" /\ catalogued' = catalogued /\ buffer = << >> /\ Published = segments
  <2>1. catalogued.status \in {"completed", "invalidated"} =>
          phase \notin Writing /\ buffer = << >> /\ Published = segments
    BY DEF CaptureInv, EndIsFlushed
  <2> QED BY <2>1, <1>1, <1>2
<1>10. catalogued'.status = catalogued.status
  BY <1>2, <1>4
<1>11. EndIsFlushed'
  <2>1. inHand' = 0
    BY <1>1 DEF CaptureInv, EndIsFlushed
  <2>2. phase' = "terminal" => buffer' = << >>
    BY <1>1 DEF CaptureInv, EndIsFlushed
  <2>3. catalogued'.status \in {"completed", "invalidated"} =>
          phase' \notin Writing /\ buffer' = << >> /\ Published' = segments'
    BY <1>1, <1>6, <1>9, <1>10
  <2> QED BY <2>1, <2>2, <2>3, <1>1 DEF EndIsFlushed
<1>12. CompletedIsWhole'
  <2>1. catalogued.status = "completed" => Published' = Published
    BY <1>9 DEF Published
  <2>2. CompletedIsWhole
    BY DEF CaptureInv
  <2> QED BY <2>1, <2>2, <1>1, <1>10 DEF CompletedIsWhole, RowsOf
<1>13. CloseIsRecorded'
  BY <1>1 DEF CloseIsRecorded
<1> QED BY <1>6, <1>7, <1>8, <1>11, <1>12, <1>13 DEF CaptureInv, AllButControl

\* A close that raised closes again, or the caller gives up.
LEMMA TerminateInv ==
  ASSUME CaptureInv, Terminate
  PROVE  CaptureInv'
<1> DEFINE s == IF reason \/ segments = << >> THEN "invalidated" ELSE "completed"
           h == [status |-> s, segments |-> segments]
<1>1. /\ phase = "terminal" /\ phase' \in {"failing", "closed"}
      /\ UNCHANGED <<inHand, delivered, accepted, buffer, segments, unpublished, files>>
      /\ UNCHANGED <<reason, closes, refused>> /\ UNCHANGED follower
      /\ handle' \in {handle, s}
      /\ phase' = "closed" => catalogued' = h
  BY DEF Terminate, writer, CatalogueTakes
<1>2. \/ UNCHANGED <<catalogued, failures>>
      \/ /\ Contiguous(segments) /\ catalogued.status \in {"active", s}
         /\ catalogued' \in {catalogued, h}
         /\ failures' = failures \/ (failures < MaxFailures /\ failures' = failures + 1)
  BY DEF Terminate, CatalogueTakes, CatalogueFails, MayBecome
<1>3. /\ catalogued.status \in Statuses /\ handle \in Statuses /\ s \in Statuses
      /\ failures \in 0..MaxFailures /\ MaxFailures \in Nat
  BY CaptureFacts
<1>4. s \in {"completed", "invalidated"} /\ (s = "completed" => segments # << >>)
  OBVIOUS
<1>5. buffer = << >> /\ inHand = 0
  BY <1>1 DEF CaptureInv, EndIsFlushed
<1>6. accepted = RowsOf(segments)
  <2>1. accepted = RowsOf(segments) \o buffer
    BY DEF CaptureInv, RowsAreKept
  <2>2. RowsOf(segments) \in Seq(Nat)
    <3>1. segments \in Seq(Rows) /\ << >> \in Rows
      BY CaptureFacts
    <3> QED BY <3>1, FlattenAppend DEF RowsOf
  <2>3. RowsOf(segments) \o << >> = RowsOf(segments)
    BY <2>2, ConcatEmptySeq
  <2> QED BY <2>1, <2>3, <1>5
<1> HIDE DEF s
<1>7. Hands(s)
  <2>1. failures' \in {failures, failures + 1} /\ failures' \in 0..MaxFailures
    BY <1>2, <1>3
  <2>2. catalogued' \in {catalogued, h} /\ (catalogued' # catalogued => Contiguous(segments))
    BY <1>2
  <2>3. handle' \in Statuses
    BY <1>1, <1>3
  <2> QED BY <2>1, <2>2, <2>3, <1>1 DEF Hands
<1>8. AllButControl' /\ Published' \in {Published, segments}
  <2>1. \A x \in Statuses : Hands(x) => AllButControl' /\ Published' \in {Published, segments}
    BY HandedOver
  <2> QED BY <2>1, <1>3, <1>7
<1>9. CaptureTypeOK'
  <2>1. phase' \in Capturing \cup {"closed", "exited", "dead"}
    BY <1>1
  <2>2. /\ reason' \in BOOLEAN /\ refused' \in BOOLEAN /\ closes' \in 0..1
        /\ unpublished' \in BOOLEAN
    BY <1>1 DEF CaptureInv, CaptureTypeOK
  <2> QED BY <2>1, <2>2, <1>8 DEF CaptureTypeOK, AllButControl
<1>10. BufferIsBounded'
  BY <1>1 DEF BufferIsBounded
<1>11. ASSUME catalogued'.status \in {"completed", "invalidated"}
       PROVE  Published' = segments
  <2>1. CASE catalogued' = catalogued
    <3>1. Published = segments
      BY <1>11, <2>1 DEF CaptureInv, EndIsFlushed
    <3> QED BY <3>1, <1>8
  <2>2. CASE catalogued' = h
    BY <2>2 DEF Published
  <2> QED BY <2>1, <2>2, <1>2
<1>12. EndIsFlushed'
  <2>1. inHand' = 0 /\ buffer' = << >> /\ segments' = segments /\ phase' \notin Writing
    BY <1>1, <1>5
  <2> QED BY <2>1, <1>11 DEF EndIsFlushed
<1>13. CompletedIsWhole'
  <2> SUFFICES ASSUME catalogued'.status = "completed"
               PROVE  RowsOf(Published') = accepted' /\ Range(Published') \subseteq files'
    BY DEF CompletedIsWhole, RowsOf
  <2>1. Published' = segments
    BY <1>11
  <2>2. Range(segments) \subseteq files
    BY DEF CaptureInv, CaptureTypeOK
  <2> QED BY <2>1, <2>2, <1>1, <1>6
<1>14. CloseIsRecorded'
  <2>1. phase' = "closed" => catalogued'.status = s
    BY <1>1
  <2> QED BY <2>1, <1>1, <1>4 DEF CloseIsRecorded
<1> QED BY <1>8, <1>9, <1>10, <1>12, <1>13, <1>14 DEF CaptureInv, AllButControl

LEMMA PublishFailureInv ==
  ASSUME CaptureInv, PublishFailure
  PROVE  CaptureInv'
<1> DEFINE s == "failed"
           h == [status |-> s, segments |-> segments]
<1>1. /\ phase = "failing" /\ phase' \in {"close", "exited", "closed"}
      /\ UNCHANGED <<inHand, delivered, accepted, buffer, segments, unpublished, files>>
      /\ UNCHANGED follower
      /\ handle' \in {handle, s}
      /\ reason' \in {reason, TRUE}
      /\ closes' = closes \/ (closes > 0 /\ closes' = closes - 1)
      /\ refused' \in {refused, TRUE}
      /\ phase' = "closed" => catalogued' = h
      /\ phase' = "exited" => \/ refused'
                              \/ ~Contiguous(segments)
                              \/ catalogued.status # "active" /\ catalogued' = catalogued
  BY DEF PublishFailure, writer, CatalogueTakes, CatalogueFails, CloseRaised, MayBecome
<1>2. \/ UNCHANGED <<catalogued, failures>>
      \/ /\ Contiguous(segments) /\ catalogued.status \in {"active", s}
         /\ catalogued' \in {catalogued, h}
         /\ failures' = failures \/ (failures < MaxFailures /\ failures' = failures + 1)
  BY DEF PublishFailure, CatalogueTakes, CatalogueFails, MayBecome
<1>3. /\ catalogued.status \in Statuses /\ handle \in Statuses /\ s \in Statuses
      /\ failures \in 0..MaxFailures /\ MaxFailures \in Nat
  BY CaptureFacts
<1>4. Hands(s)
  <2>1. failures' \in {failures, failures + 1} /\ failures' \in 0..MaxFailures
    BY <1>2, <1>3
  <2>2. catalogued' \in {catalogued, h} /\ (catalogued' # catalogued => Contiguous(segments))
    BY <1>2
  <2>3. handle' \in Statuses
    BY <1>1, <1>3
  <2> QED BY <2>1, <2>2, <2>3, <1>1 DEF Hands
<1>5. AllButControl' /\ Published' \in {Published, segments}
  <2>1. \A x \in Statuses : Hands(x) => AllButControl' /\ Published' \in {Published, segments}
    BY HandedOver
  <2> QED BY <2>1, <1>3, <1>4
<1>6. CaptureTypeOK'
  <2>1. phase' \in Capturing \cup {"closed", "exited", "dead"}
    BY <1>1
  <2>2. closes' \in 0..1
    BY <1>1 DEF CaptureInv, CaptureTypeOK
  <2>3. reason' \in BOOLEAN /\ refused' \in BOOLEAN /\ unpublished' \in BOOLEAN
    BY <1>1 DEF CaptureInv, CaptureTypeOK
  <2> QED BY <2>1, <2>2, <2>3, <1>5 DEF CaptureTypeOK, AllButControl
<1>7. BufferIsBounded'
  BY <1>1 DEF BufferIsBounded
<1>8. catalogued'.status \in {"completed", "invalidated"} =>
        catalogued' = catalogued /\ buffer = << >> /\ Published = segments
  <2>1. catalogued' = catalogued \/ catalogued'.status = "failed"
    BY <1>2
  <2> QED BY <2>1 DEF CaptureInv, EndIsFlushed
<1>9. EndIsFlushed'
  <2>1. inHand' = 0 /\ phase' \notin Writing /\ phase' \notin {"closing", "terminal"}
    BY <1>1 DEF CaptureInv, EndIsFlushed
  <2> QED BY <2>1, <1>1, <1>5, <1>8 DEF EndIsFlushed
<1>10. CompletedIsWhole'
  <2>1. CompletedIsWhole
    BY DEF CaptureInv
  <2>2. catalogued'.status = "completed" => catalogued.status = "completed" /\ Published' = Published
    BY <1>8 DEF Published
  <2> QED BY <2>1, <2>2, <1>1 DEF CompletedIsWhole, RowsOf
<1>11. CloseIsRecorded'
  <2>1. phase' = "closed" => catalogued'.status = "failed"
    BY <1>1
  <2>2. Contiguous(segments') <=> Contiguous(segments)
    BY <1>1 DEF Contiguous
  <2> QED BY <2>1, <2>2, <1>1 DEF CloseIsRecorded, Contiguous
<1> QED BY <1>5, <1>6, <1>7, <1>9, <1>10, <1>11 DEF CaptureInv, AllButControl

LEMMA PollInv ==
  ASSUME CaptureInv, Poll
  PROVE  CaptureInv'
<1>1. PICK n \in next..Len(Published) :
        /\ received' = received \o RowsOf(SubSeq(Published, next, n))
        /\ next' = n + 1
        /\ UNCHANGED <<phase, writer, session, pollRaised, failures>>
  BY DEF Poll
<1>2. /\ UNCHANGED <<phase, inHand, delivered, accepted, buffer, segments, unpublished, files>>
      /\ UNCHANGED <<handle, catalogued, reason, closes, refused, pollRaised, failures>>
      /\ Published' = Published
  BY <1>1 DEF writer, session, Published
<1>3. PICK P, old, i : P = Published /\ old = received /\ i = next
  OBVIOUS
<1>4. /\ P \in Seq(Rows) /\ Len(P) \in Nat /\ i \in Nat /\ i >= 1 /\ n \in Nat /\ i <= n /\ n <= Len(P)
      /\ old \in Seq(Nat) /\ Len(old) \in Nat
  <2>1. /\ P \in Seq(Rows) /\ Len(P) \in Nat /\ i \in Nat /\ i >= 1
        /\ old \in Seq(Nat) /\ Len(old) \in Nat
    BY <1>3, CaptureFacts
  <2> QED BY <2>1, <1>1, <1>3
<1>5. Chained(P)
  BY <1>3 DEF CaptureInv, RowsAreKept
<1>6. /\ i = 1 => old = << >>
      /\ \A k \in 1..Len(old) : old[k] <= Last(P[i - 1])
  BY <1>3 DEF CaptureInv, FollowerIsBehind
<1>7. /\ old = RowsOf(SubSeq(P, 1, i - 1)) \/ pollRaised
      /\ \A k \in 1..(Len(old) - 1) : old[k] < old[k + 1]
  BY <1>3 DEF CaptureInv, FollowerMissesNothing
<1>8. PICK taken : taken = RowsOf(SubSeq(P, i, n))
  OBVIOUS
<1>9. /\ IsRun(taken) /\ taken[1] = Head(P[i]) /\ Last(taken) = Last(P[n])
  <2>1. LET s == SubSeq(P, i, n)
        IN Chained(s) /\ s # << >> /\ Len(s) = n - i + 1 /\ s[1] = P[i] /\ s[Len(s)] = P[n]
    BY <1>4, <1>5, ChainSlice
  <2> QED BY <2>1, <1>8, ChainFlattens DEF RowsOf
<1>10. /\ taken \in Seq(Nat) /\ Len(taken) \in Nat /\ Len(taken) >= 1 /\ taken[1] \in Nat
       /\ \A k \in 1..Len(taken) : taken[k] \in Nat /\ taken[k] = taken[1] + (k - 1) /\ taken[k] <= Last(taken)
  BY <1>9, RunFacts
<1>11. received' = old \o taken /\ next' = n + 1
  BY <1>1, <1>3, <1>8
<1>12. PICK new : new = old \o taken
  OBVIOUS
<1>13. /\ new \in Seq(Nat) /\ Len(new) = Len(old) + Len(taken)
       /\ \A k \in 1..Len(old) : new[k] = old[k] /\ new[k] \in Nat
       /\ \A k \in 1..Len(taken) : new[Len(old) + k] = taken[k]
  <2>1. /\ new \in Seq(Nat) /\ Len(new) = Len(old) + Len(taken)
        /\ \A k \in 1..(Len(old) + Len(taken)) : new[k] = IF k <= Len(old) THEN old[k] ELSE taken[k - Len(old)]
    BY <1>4, <1>10, <1>12, ConcatProperties
  <2>2. ASSUME NEW k \in 1..Len(old) PROVE new[k] = old[k] /\ new[k] \in Nat
    <3>1. k \in 1..(Len(old) + Len(taken)) /\ k <= Len(old)
      BY <1>4, <1>10
    <3>2. old[k] \in Nat
      BY <1>4, ElementOfSeq
    <3> QED BY <3>1, <3>2, <2>1
  <2>3. ASSUME NEW k \in 1..Len(taken) PROVE new[Len(old) + k] = taken[k]
    <3>1. Len(old) + k \in 1..(Len(old) + Len(taken)) /\ ~(Len(old) + k <= Len(old))
          /\ (Len(old) + k) - Len(old) = k
      <4>1. Len(old) \in Nat /\ Len(taken) \in Nat /\ k \in 1..Len(taken)
        BY <1>4, <1>10
      <4> QED BY <4>1
    <3> QED BY <3>1, <2>1
  <2> QED BY <2>1, <2>2, <2>3
<1>14. ASSUME NEW k \in 1..Len(old)
       PROVE  /\ i # 1 /\ old[k] \in Nat
              /\ old[k] <= Last(P[i - 1]) /\ old[k] < taken[1] /\ old[k] <= Last(P[n])
  <2>1. i # 1
    BY <1>6, EmptySeq
  <2>2. i - 1 \in Nat /\ 1 <= i - 1 /\ i - 1 <= n /\ i - 1 <= Len(P) - 1 /\ i - 1 \in 1..(Len(P) - 1)
        /\ (i - 1) + 1 = i
    BY <2>1, <1>4
  <2>3. Last(P[i - 1]) \in Nat /\ Last(P[n]) \in Nat /\ Last(P[i - 1]) <= Last(P[n])
    BY <2>2, <1>4, <1>5, ChainAscends
  <2>4. Head(P[i]) = Last(P[i - 1]) + 1
    <3>1. Head(P[(i - 1) + 1]) = Last(P[i - 1]) + 1
      BY <2>2, <1>5, ChainFacts
    <3> QED BY <3>1, <2>2
  <2>5. old[k] \in Nat /\ old[k] <= Last(P[i - 1])
    BY <1>6, <1>13
  <2> QED BY <2>1, <2>3, <2>4, <2>5, <1>9
<1>15. ASSUME NEW k \in 1..Len(new) PROVE new[k] <= Last(P[n])
  <2>1. CASE k <= Len(old)
    <3>1. k \in 1..Len(old)
      BY <2>1, <1>4, <1>10, <1>13
    <3> QED BY <3>1, <1>13, <1>14
  <2>2. CASE ~(k <= Len(old))
    <3>1. k - Len(old) \in 1..Len(taken) /\ Len(old) + (k - Len(old)) = k
      BY <2>2, <1>4, <1>10, <1>13
    <3>2. new[k] = taken[k - Len(old)]
      BY <3>1, <1>13
    <3> QED BY <3>1, <3>2, <1>9, <1>10
  <2> QED BY <2>1, <2>2
<1>16. ASSUME NEW k \in 1..(Len(new) - 1) PROVE new[k] < new[k + 1]
  <2>1. k \in Nat /\ Len(new) = Len(old) + Len(taken)
    BY <1>4, <1>10, <1>13
  <2>2. CASE k < Len(old)
    <3>1. k \in 1..(Len(old) - 1) /\ k \in 1..Len(old) /\ k + 1 \in 1..Len(old)
      BY <2>1, <2>2, <1>4
    <3>2. old[k] < old[k + 1]
      BY <3>1, <1>7
    <3> QED BY <3>1, <3>2, <1>13
  <2>3. CASE k = Len(old)
    <3>1. k \in 1..Len(old) /\ 1 \in 1..Len(taken)
      BY <2>3, <1>4, <1>10
    <3>2. new[k] = old[k] /\ new[k + 1] = taken[1]
      BY <3>1, <2>3, <1>13
    <3> QED BY <3>1, <3>2, <1>14
  <2>4. CASE k > Len(old)
    <3> DEFINE j == k - Len(old)
    <3>1. /\ j \in 1..Len(taken) /\ j + 1 \in 1..Len(taken)
          /\ Len(old) + j = k /\ Len(old) + (j + 1) = k + 1
      BY <2>1, <2>4, <1>4, <1>10
    <3>2. new[k] = taken[j] /\ new[k + 1] = taken[j + 1]
      <4> HIDE DEF j
      <4> QED BY <3>1, <1>13
    <3>3. taken[j] = taken[1] + (j - 1) /\ taken[j + 1] = taken[1] + ((j + 1) - 1)
      <4> HIDE DEF j
      <4> QED BY <3>1, <1>10
    <3>4. j \in Nat
      BY <3>1
    <3> HIDE DEF j
    <3> QED BY <3>2, <3>3, <3>4, <1>10
  <2> QED BY <2>1, <2>2, <2>3, <2>4, <1>4
<1>17. FollowerIsBehind'
  <2>1. n + 1 # 1 /\ (n + 1) - 1 = n
    BY <1>4
  <2>2. received' = new /\ next' = n + 1 /\ Published' = P
    BY <1>2, <1>3, <1>11, <1>12
  <2> QED BY <2>1, <2>2, <1>15 DEF FollowerIsBehind
<1>18. FollowerMissesNothing'
  <2>1. received' = new /\ next' = n + 1 /\ Published' = P /\ pollRaised' = pollRaised
    BY <1>2, <1>3, <1>11, <1>12
  <2>2. ASSUME ~pollRaised PROVE new = RowsOf(SubSeq(P, 1, (n + 1) - 1))
    <3>1. i - 1 \in Nat /\ i - 1 <= n /\ (i - 1) + 1 = i /\ (n + 1) - 1 = n
      BY <1>4
    <3>2. FlattenSeq(SubSeq(P, 1, n)) =
            FlattenSeq(SubSeq(P, 1, i - 1)) \o FlattenSeq(SubSeq(P, (i - 1) + 1, n))
      BY <3>1, <1>4, FlattenSlices
    <3>3. old = FlattenSeq(SubSeq(P, 1, i - 1)) /\ taken = FlattenSeq(SubSeq(P, i, n))
      BY <2>2, <1>7, <1>8 DEF RowsOf
    <3> QED BY <3>1, <3>2, <3>3, <1>12 DEF RowsOf
  <2> QED BY <2>1, <2>2, <1>16 DEF FollowerMissesNothing, RowsOf
<1>19. CaptureTypeOK'
  <2>1. next' \in 1..(Len(Published') + 1)
    BY <1>2, <1>3, <1>4, <1>11
  <2> QED BY <2>1, <1>2 DEF CaptureInv, CaptureTypeOK
<1>20. CaptureTyped'
  BY <1>2, <1>11, <1>12, <1>13 DEF CaptureInv, CaptureTyped
<1>21. RowsAreKept' /\ BufferIsBounded' /\ EndIsFlushed' /\ CompletedIsWhole' /\ CloseIsRecorded'
  <2>1. RowsAreKept'
    BY <1>2 DEF CaptureInv, RowsAreKept, RowsOf
  <2>2. BufferIsBounded'
    BY <1>2 DEF CaptureInv, BufferIsBounded
  <2>3. EndIsFlushed'
    BY <1>2 DEF CaptureInv, EndIsFlushed
  <2>4. CompletedIsWhole'
    BY <1>2 DEF CaptureInv, CompletedIsWhole, RowsOf
  <2>5. CloseIsRecorded'
    BY <1>2 DEF CaptureInv, CloseIsRecorded, Contiguous
  <2> QED BY <2>1, <2>2, <2>3, <2>4, <2>5
<1> QED BY <1>17, <1>18, <1>19, <1>20, <1>21 DEF CaptureInv

LEMMA PollFailsInv ==
  ASSUME CaptureInv, PollFails
  PROVE  CaptureInv'
<1>1. PICK n \in next..Len(Published) : next' = n
  BY DEF PollFails
<1>2. /\ UNCHANGED <<phase, inHand, delivered, accepted, buffer, segments, unpublished, files>>
      /\ UNCHANGED <<handle, catalogued, reason, closes, refused, received>>
      /\ pollRaised' = TRUE /\ failures < MaxFailures /\ failures' = failures + 1
      /\ Published' = Published
  BY DEF PollFails, writer, session, Published
<1>3. /\ Published \in Seq(Rows) /\ Len(Published) \in Nat /\ next \in Nat /\ next >= 1
      /\ n \in Nat /\ next <= n /\ n <= Len(Published)
      /\ failures \in Nat /\ MaxFailures \in Nat /\ Len(buffer) \in Nat /\ SegmentRows \in Nat
      /\ Len(buffer) <= SegmentRows + failures
      /\ received \in Seq(Nat)
  <2>1. /\ Published \in Seq(Rows) /\ Len(Published) \in Nat /\ next \in Nat /\ next >= 1
        /\ failures \in Nat /\ MaxFailures \in Nat /\ Len(buffer) \in Nat /\ SegmentRows \in Nat
        /\ Len(buffer) <= SegmentRows + failures
        /\ received \in Seq(Nat)
    BY CaptureFacts
  <2> QED BY <2>1, <1>1
<1>4. Chained(Published)
  BY DEF CaptureInv, RowsAreKept
<1>5. /\ next = 1 => received = << >>
      /\ \A k \in 1..Len(received) : received[k] <= Last(Published[next - 1])
  BY DEF CaptureInv, FollowerIsBehind
<1>6. FollowerIsBehind'
  <2>1. n = 1 => received = << >>
    BY <1>3, <1>5
  <2>2. ASSUME NEW k \in 1..Len(received) PROVE received[k] <= Last(Published[n - 1])
    <3>1. next # 1 /\ received[k] \in Nat
      BY <1>3, <1>5, <2>2, EmptySeq, ElementOfSeq
    <3>2. /\ next - 1 \in Nat /\ n - 1 \in Nat /\ 1 <= next - 1 /\ next - 1 <= n - 1
          /\ n - 1 <= Len(Published)
      BY <3>1, <1>3
    <3>3. /\ Last(Published[next - 1]) \in Nat /\ Last(Published[n - 1]) \in Nat
          /\ Last(Published[next - 1]) <= Last(Published[n - 1])
      BY <3>2, <1>4, ChainAscends
    <3> QED BY <3>1, <3>3, <1>5
  <2> QED BY <2>1, <2>2, <1>1, <1>2 DEF FollowerIsBehind
<1>7. FollowerMissesNothing'
  BY <1>2 DEF CaptureInv, FollowerMissesNothing
<1>8. CaptureTypeOK'
  <2>1. next' \in 1..(Len(Published') + 1)
    BY <1>1, <1>2, <1>3
  <2>2. failures' \in 0..MaxFailures /\ Len(buffer') <= SegmentRows + failures'
    BY <1>2, <1>3
  <2> QED BY <2>1, <2>2, <1>2 DEF CaptureInv, CaptureTypeOK
<1>9. CaptureTyped'
  BY <1>2 DEF CaptureInv, CaptureTyped
<1>10. RowsAreKept'
  BY <1>2 DEF CaptureInv, RowsAreKept, RowsOf
<1>11. BufferIsBounded'
  <2>1. phase \in {"ready", "early"} => Len(buffer) < SegmentRows + failures'
    BY <1>2, <1>3 DEF CaptureInv, BufferIsBounded
  <2> QED BY <2>1, <1>2 DEF CaptureInv, BufferIsBounded
<1>12. EndIsFlushed'
  BY <1>2 DEF CaptureInv, EndIsFlushed
<1>13. CompletedIsWhole'
  BY <1>2 DEF CaptureInv, CompletedIsWhole, RowsOf
<1>14. CloseIsRecorded'
  BY <1>2 DEF CaptureInv, CloseIsRecorded, Contiguous
<1> QED BY <1>6, <1>7, <1>8, <1>9, <1>10, <1>11, <1>12, <1>13, <1>14 DEF CaptureInv

-----------------------------------------------------------------------------
(* What a capture promises.                                                *)

LEMMA CaptureInitInv == CaptureInit => CaptureInv
<1> SUFFICES ASSUME CaptureInit PROVE CaptureInv
  OBVIOUS
<1>1. /\ phase = "ready" /\ inHand = 0 /\ delivered = 0
      /\ accepted = << >> /\ buffer = << >> /\ segments = << >> /\ unpublished = FALSE
      /\ handle = "active" /\ files = {}
      /\ catalogued = [status |-> "active", segments |-> << >>]
      /\ reason = FALSE /\ closes = 0 /\ refused = FALSE
      /\ next = 1 /\ received = << >> /\ pollRaised = FALSE /\ failures = 0
      /\ Published = << >>
  BY DEF CaptureInit, Published
<1>2. /\ << >> \in Seq(Nat) /\ << >> \in Seq(Rows) /\ Len(<< >>) = 0 /\ Range(<< >>) = {}
  BY EmptySeq, ShortRanges
<1>3. SegmentRows \in Nat /\ SegmentRows >= 1 /\ LastRow \in Nat /\ MaxFailures \in Nat
  BY CaptureAssumption
<1>4. RowsOf(<< >>) = << >> /\ SubSeq(<< >>, 1, 0) = << >>
  BY FlattenEmpty, SubSeqEmpty DEF RowsOf
<1>5. IsPrefix(<< >>, << >>)
  BY <1>2 DEF IsPrefix
<1>6. CaptureTypeOK
  <2>1. /\ delivered \in 0..LastRow /\ failures \in 0..MaxFailures /\ closes \in 0..1
        /\ Len(buffer) <= SegmentRows + failures
    BY <1>1, <1>2, <1>3
  <2>2. next \in 1..(Len(Published) + 1)
    BY <1>1, <1>2
  <2>3. Range(accepted) \cup Range(buffer) \subseteq 1..delivered /\ Range(segments) \subseteq files
    BY <1>1, <1>2
  <2>4. IsPrefix(Published, segments)
    BY <1>1, <1>5
  <2> QED BY <2>1, <2>2, <2>3, <2>4, <1>1 DEF CaptureTypeOK
<1>7. CaptureTyped
  BY <1>1, <1>2 DEF CaptureTyped
<1>8. Chained(<< >>)
  BY <1>2 DEF Chained, Contiguous
<1>9. RowsAreKept
  <2>1. << >> \o << >> = << >>
    BY <1>2, ConcatEmptySeq
  <2> QED BY <2>1, <1>1, <1>2, <1>4, <1>8 DEF RowsAreKept
<1>10. BufferIsBounded
  BY <1>1, <1>2, <1>3 DEF BufferIsBounded
<1>11. EndIsFlushed /\ CompletedIsWhole /\ CloseIsRecorded
  BY <1>1 DEF EndIsFlushed, CompletedIsWhole, CloseIsRecorded
<1>12. FollowerIsBehind /\ FollowerMissesNothing
  <2>1. 1 - 1 = 0
    OBVIOUS
  <2>2. FollowerIsBehind
    BY <1>1, <1>2 DEF FollowerIsBehind
  <2>3. received = RowsOf(SubSeq(Published, 1, next - 1))
    BY <2>1, <1>1, <1>4
  <2>4. \A k \in 1..(Len(received) - 1) : received[k] < received[k + 1]
    <3>1. ~\E k : k \in 1..(0 - 1)
      OBVIOUS
    <3> QED BY <3>1, <1>1, <1>2
  <2> QED BY <2>2, <2>3, <2>4 DEF FollowerMissesNothing
<1> QED BY <1>6, <1>7, <1>9, <1>10, <1>11, <1>12 DEF CaptureInv

LEMMA CaptureStepInv ==
  ASSUME CaptureInv, [CaptureNext]_captureVars
  PROVE  CaptureInv'
<1>1. CASE WriteRow
  BY <1>1, WriteRowInv
<1>2. CASE WriteLateRow
  BY <1>2, WriteLateRowInv
<1>3. CASE Close \/ CaptureDies
  BY <1>3, CloseOrDieInv
<1>4. CASE Rotate
  BY <1>4, RotateInv
<1>5. CASE RotateFails
  BY <1>5, RotateFailsInv
<1>6. CASE PublishSegments
  BY <1>6, PublishSegmentsInv
<1>7. CASE Terminate
  BY <1>7, TerminateInv
<1>8. CASE PublishFailure
  BY <1>8, PublishFailureInv
<1>9. CASE Poll
  BY <1>9, PollInv
<1>10. CASE PollFails
  BY <1>10, PollFailsInv
<1>11. CASE Ended \/ UNCHANGED captureVars
  <2>1. /\ UNCHANGED <<phase, inHand, delivered, accepted, buffer, segments, unpublished, files>>
        /\ UNCHANGED <<handle, catalogued, reason, closes, refused, follower, failures>>
    BY <1>11 DEF Ended, captureVars, writer, session
  <2>2. /\ RowsAreKept' /\ CompletedIsWhole' /\ FollowerIsBehind' /\ FollowerMissesNothing'
        /\ next' \in 1..(Len(Published') + 1)
        /\ IsPrefix(Published', segments') /\ Range(segments') \subseteq files'
        /\ Published' = Published /\ received' = received /\ pollRaised' = pollRaised
    BY <2>1, RowsUnmoved
  <2>3. CaptureTypeOK'
    BY <2>1, <2>2 DEF CaptureInv, CaptureTypeOK
  <2>4. CaptureTyped' /\ BufferIsBounded'
    BY <2>1, <2>2 DEF CaptureInv, CaptureTyped, BufferIsBounded
  <2>5. EndIsFlushed'
    BY <2>1, <2>2 DEF CaptureInv, EndIsFlushed
  <2>6. CloseIsRecorded'
    BY <2>1 DEF CaptureInv, CloseIsRecorded, Contiguous
  <2> QED BY <2>2, <2>3, <2>4, <2>5, <2>6 DEF CaptureInv
<1> QED
  BY <1>1, <1>2, <1>3, <1>4, <1>5, <1>6, <1>7, <1>8, <1>9, <1>10, <1>11 DEF CaptureNext, Work

\* Whatever append(), a rotation, the catalogue or close() fails with: a
\* completed dataset has every row write() took, once and in order, in files
\* that are final; the follower has read what was published up to where it is,
\* and no row twice; and a capture that closed, or gave up though the
\* catalogue took its calls, has its end on record (access.py, parquet.py).
THEOREM CaptureStaysSound == CaptureSpec => []CaptureIsSound
<1>1. CaptureInv => CaptureIsSound
  BY DEF CaptureInv, CaptureIsSound
<1> QED
  BY <1>1, CaptureInitInv, CaptureStepInv, PTL DEF CaptureSpec

\* More segments are more rows behind the ones there were, without a gap.
LEMMA RowsGrowWithSegments ==
  ASSUME NEW s \in Seq(Rows), NEW t, Chained(t), IsPrefix(s, t)
  PROVE  LET a == FlattenSeq(s)
             b == FlattenSeq(t)
         IN Len(b) >= Len(a) /\ SubSeq(b, 1, Len(a)) = a /\ Dataset!Gapless(b)
<1> DEFINE a == FlattenSeq(s)
           b == FlattenSeq(t)
           m == Len(s)
           c == FlattenSeq(SubSeq(t, m + 1, Len(t)))
<1>1. t \in Seq(Rows) /\ Len(t) \in Nat
  BY ChainFacts
<1>2. m \in Nat /\ m <= Len(t) /\ s = SubSeq(t, 1, m)
  BY <1>1, PrefixFacts
<1>3. SubSeq(t, 1, Len(t)) = t
  BY <1>1, SubSeqFull
<1>4. b = a \o c
  <2>1. FlattenSeq(SubSeq(t, 1, Len(t))) = FlattenSeq(SubSeq(t, 1, m)) \o c
    BY <1>1, <1>2, FlattenSlices
  <2> QED BY <2>1, <1>2, <1>3
<1>5. a \in Seq(Nat) /\ c \in Seq(Nat)
  <2>1. << >> \in Rows
    OBVIOUS
  <2>2. m + 1 \in Nat /\ 1 <= m + 1 /\ Len(t) <= Len(t)
    BY <1>1, <1>2
  <2> QED BY <2>1, <2>2, <1>1, FlattenAppend, SliceTyped
<1> HIDE DEF a, c
<1>6. Len(a) \in Nat /\ Len(c) \in Nat /\ Len(b) = Len(a) + Len(c)
  BY <1>4, <1>5, ConcatProperties, LenProperties
<1>7. SubSeq(b, 1, Len(a)) = a
  <2>1. CASE Len(a) = 0
    <3>1. SubSeq(b, 1, 0) = << >>
      BY SubSeqEmpty
    <3> QED BY <3>1, <2>1, <1>5, EmptySeq
  <2>2. CASE Len(a) # 0
    <3>1. 1 \in 1..Len(a) /\ Len(a) \in 1..Len(a)
      BY <2>2, <1>6
    <3>2. SubSeq(a \o c, 1, Len(a)) = SubSeq(a, 1, Len(a))
      BY <3>1, <1>5, SubSeqOfConcat1
    <3>3. SubSeq(a, 1, Len(a)) = a
      BY <1>5, SubSeqFull
    <3> QED BY <3>2, <3>3, <1>4
  <2> QED BY <2>1, <2>2
<1>8. Dataset!Gapless(b)
  <2>1. CASE t = << >>
    <3>1. b = << >> /\ Len(b) = 0
      BY <2>1, FlattenEmpty
    <3> HIDE DEF b
    <3> QED BY <3>1 DEF Dataset!Gapless
  <2>2. CASE t # << >>
    <3>1. IsRun(b)
      BY <2>2, ChainFlattens
    <3> HIDE DEF b
    <3>2. /\ Len(b) \in Nat /\ b[1] \in Nat
          /\ \A k \in 1..Len(b) : b[k] = b[1] + (k - 1)
      BY <3>1, RunFacts
    <3>3. ASSUME NEW k \in 1..(Len(b) - 1) PROVE b[k + 1] = b[k] + 1
      <4>1. k \in 1..Len(b) /\ k + 1 \in 1..Len(b) /\ (k + 1) - 1 = (k - 1) + 1
        BY <3>2
      <4>2. b[k] = b[1] + (k - 1) /\ b[k + 1] = b[1] + ((k + 1) - 1)
        BY <4>1, <3>2
      <4> QED BY <4>1, <4>2, <3>2
    <3> QED BY <3>3 DEF Dataset!Gapless
  <2> QED BY <2>1, <2>2
<1> QED BY <1>6, <1>7, <1>8 DEF a

LEMMA DatasetStep ==
  ASSUME CaptureInv, [CaptureNext]_captureVars
  PROVE  [Dataset!Advance \/ Dataset!FailAgain]_<<RowsOf(Published), catalogued.status>>
<1>1. CaptureInv'
  BY CaptureStepInv
<1>2. CASE Published' = Published /\ catalogued'.status = catalogued.status
  BY <1>2 DEF RowsOf
<1>3. CASE Published' # Published \/ catalogued'.status # catalogued.status
  <2>1. PublishSegments \/ Terminate \/ PublishFailure
    <3>1. catalogued' # catalogued
      BY <1>3 DEF Published
    <3> QED
      BY <3>1 DEF CaptureNext, Work, WriteRow, WriteLateRow, Close, Rotate, RotateFails, CaptureDies,
                  Poll, PollFails, Ended, captureVars, session
  <2>2. /\ Published \in Seq(Rows) /\ segments \in Seq(Rows)
        /\ catalogued \in [status : Statuses, segments : Seq(Rows)]
        /\ catalogued.status \in Statuses
    BY CaptureFacts
  <2>3. /\ catalogued'.status \in Statuses /\ Published' = segments /\ segments' = segments
        /\ \/ /\ catalogued.status = "active"
              /\ catalogued'.status = "completed" => segments # << >>
           \/ catalogued.status = "failed" /\ catalogued'.status = "failed"
    <3>1. CASE PublishSegments
      <4>1. /\ catalogued.status = "active" /\ segments' = segments
            /\ catalogued' \in {catalogued, [catalogued EXCEPT !.segments = segments]}
        BY <3>1, <1>3 DEF PublishSegments, CatalogueTakes, CatalogueFails, Published
      <4>2. catalogued' = [catalogued EXCEPT !.segments = segments]
        BY <4>1, <1>3 DEF Published
      <4> QED BY <4>1, <4>2, <2>2 DEF Published
    <3>2. CASE Terminate
      <4> DEFINE s == IF reason \/ segments = << >> THEN "invalidated" ELSE "completed"
      <4>1. /\ catalogued.status \in {"active", s} /\ segments' = segments
            /\ catalogued' \in {catalogued, [status |-> s, segments |-> segments]}
        BY <3>2, <1>3 DEF Terminate, CatalogueTakes, CatalogueFails, MayBecome, writer, Published
      <4>2. catalogued' = [status |-> s, segments |-> segments]
        BY <4>1, <1>3 DEF Published
      <4>3. s \in {"completed", "invalidated"} /\ (s = "completed" => segments # << >>)
        OBVIOUS
      <4> HIDE DEF s
      <4>4. Published' = segments /\ catalogued'.status = s
        BY <4>2 DEF Published
      <4>5. catalogued.status = "active"
        <5>1. CASE catalogued.status = s
          <6>1. Published = segments
            BY <5>1, <4>3 DEF CaptureInv, EndIsFlushed
          <6> QED BY <6>1, <5>1, <4>4, <1>3
        <5> QED BY <5>1, <4>1
      <4> QED BY <4>1, <4>3, <4>4, <4>5
    <3>3. CASE PublishFailure
      <4>1. /\ catalogued.status \in {"active", "failed"} /\ segments' = segments
            /\ catalogued' \in {catalogued, [status |-> "failed", segments |-> segments]}
        BY <3>3, <1>3 DEF PublishFailure, CatalogueTakes, CatalogueFails, MayBecome, writer, Published
      <4>2. catalogued' = [status |-> "failed", segments |-> segments]
        BY <4>1, <1>3 DEF Published
      <4> QED BY <4>1, <4>2 DEF Published
    <3> QED BY <2>1, <3>1, <3>2, <3>3
  <2>4. Chained(segments)
    BY <1>1, <2>3 DEF CaptureInv, RowsAreKept
  <2>5. IsPrefix(Published, segments)
    BY DEF CaptureInv, CaptureTypeOK
  <2>6. /\ Len(FlattenSeq(segments)) >= Len(FlattenSeq(Published))
        /\ SubSeq(FlattenSeq(segments), 1, Len(FlattenSeq(Published))) = FlattenSeq(Published)
        /\ Dataset!Gapless(FlattenSeq(segments))
    BY <2>2, <2>4, <2>5, RowsGrowWithSegments
  <2>7. RowsOf(Published)' = FlattenSeq(segments) /\ RowsOf(Published) = FlattenSeq(Published)
    BY <2>3 DEF RowsOf
  <2>8. Dataset!RowsGrow
    BY <2>6, <2>7 DEF Dataset!RowsGrow, Dataset!Gapless
  <2>9. segments # << >> => FlattenSeq(segments) # << >>
    <3>1. segments # << >> => IsRun(FlattenSeq(segments))
      BY <2>4, ChainFlattens
    <3> QED BY <3>1 DEF IsRun
  <2>10. CASE catalogued.status = "active" /\ (catalogued'.status = "completed" => segments # << >>)
    BY <2>3, <2>7, <2>8, <2>9, <2>10 DEF Dataset!Advance
  <2>11. CASE catalogued.status = "failed" /\ catalogued'.status = "failed"
    BY <2>8, <2>11 DEF Dataset!FailAgain
  <2> QED BY <2>3, <2>10, <2>11
<1> QED BY <1>2, <1>3

\* What other processes see in the catalogue of a capture is a gapless dataset
\* that only grows until its end, and keeps the end it has (access.py,
\* catalog.py): the capture implements PublishedDataset.
THEOREM CaptureImplementsDataset == CaptureSpec => ImplementsDataset
<1>1. CaptureInit => Dataset!DatasetInit
  BY FlattenEmpty DEF CaptureInit, Dataset!DatasetInit, Published, RowsOf
<1> QED
  BY <1>1, CaptureInitInv, CaptureStepInv, DatasetStep, PTL
  DEF CaptureSpec, ImplementsDataset, Dataset!DatasetSpec
=============================================================================
