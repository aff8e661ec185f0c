--------------------------- MODULE LiveRowStream ---------------------------
(***************************************************************************)
(* The localhost fan-out of canonical rows                                 *)
(* (src/data/src/shaurya/data/live_stream.py): LiveRowPublisher inside the *)
(* capture process, one handler coroutine per client, and the synchronous  *)
(* LiveRowSubscriber at the other end of each connection.                  *)
(*                                                                         *)
(* The publisher runs on one event loop: an action is the code between two *)
(* awaits.  A row is its position in the log (its receive sequence); its   *)
(* payload is its instrument.  Tokens, schema versions and JSON are left   *)
(* out: every client here authenticates.                                   *)
(***************************************************************************)
EXTENDS Integers, Sequences, FiniteSets

CONSTANTS
    Instruments,     \* instrument ids the capture subscribes to
    Clients,         \* connections; each one is used once
    MaxInstruments,  \* max_instruments of the publisher and of every client
    MaxRows,         \* bound: rows published in a behaviour
    MaxWire,         \* bound: heartbeats are sent while fewer messages wait
    MaxBuffered      \* messages the transport buffers before drain() blocks

ASSUME LiveStreamAssumption ==
    /\ IsFiniteSet(Instruments)
    /\ MaxInstruments \in Nat /\ MaxRows \in Nat
    /\ MaxWire \in Nat /\ MaxBuffered \in Nat

VARIABLES
    log,        \* rows accepted by publish(); source_sequence is its length
    latest,     \* LiveRowPublisher._latest: the last row of each instrument
    closer,     \* close(): "open", "waiting", "flushing" or "closed"
    toFlush,    \* the clients close() still has to flush
    draining,   \* the client whose writer.drain() close() is awaiting, if any
    waits,      \* Server.wait_closed() waits for open connections (>= 3.12.1)
    handler,    \* the handler coroutine of each connection
    pending,    \* _ClientState.pending
    event,      \* _ClientState.event is set
    dropped,    \* _ClientState.dropped_instruments
    sent,       \* history: the log position up to which c was sent rows
    wire,       \* messages written to the connection and not read
    reader,     \* the subscriber: "reading", "failed" or "left"
    seen,       \* the last row of each instrument a consumer was handed
    mark,       \* LiveRowSubscriber._last_source_sequence
    cut         \* history: the log position the consumed rows reach

publisherVars == <<log, latest>>
closeVars == <<closer, toFlush, draining, waits>>
clientVars == <<handler, pending, event, dropped, sent>>
readerVars == <<reader, seen, mark, cut>>
vars == <<publisherVars, closeVars, clientVars, wire, readerVars>>

HandlerStates == {"absent", "auth", "sending", "waiting", "woken", "gone"}

\* Handlers in LiveRowPublisher._clients.
Registered == {c \in Clients : handler[c] \in {"sending", "waiting", "woken"}}
\* Connections the asyncio server counts as open.
OpenConnections == {c \in Clients : handler[c] \notin {"absent", "gone"}}

Closed == closer # "open"

NoRows == [i \in Instruments |-> 0]
Held(rows) == {i \in Instruments : rows[i] # 0}
Overlay(v, rows) == [i \in Instruments |-> IF rows[i] = 0 THEN v[i] ELSE rows[i]]

\* Variant: the watermark of a message is the one before its rows.
StaleMark(type, rows, from, upto) ==
    [type |-> type, rows |-> rows, mark |-> from, from |-> from, upto |-> upto]

\* A message of _send: its rows and source_sequence; from and upto record
\* which part of the log its rows cover.
Message(type, rows, from, upto) ==
    [type |-> type, rows |-> rows, mark |-> Len(log), from |-> from, upto |-> upto]

Init ==
    /\ log = << >>
    /\ latest = NoRows
    /\ closer = "open" /\ toFlush = {} /\ draining = {} /\ waits \in BOOLEAN
    /\ handler = [c \in Clients |-> "absent"]
    /\ pending = [c \in Clients |-> NoRows]
    /\ event = [c \in Clients |-> FALSE]
    /\ dropped = [c \in Clients |-> 0]
    /\ sent = [c \in Clients |-> 0]
    /\ wire = [c \in Clients |-> << >>]
    /\ reader = [c \in Clients |-> "reading"]
    /\ seen = [c \in Clients |-> NoRows]
    /\ mark = [c \in Clients |-> 0]
    /\ cut = [c \in Clients |-> 0]

-----------------------------------------------------------------------------
(* The publisher.                                                          *)

\* _ClientState.offer: a full client drops a new instrument and is not woken.
Refuses(c, i) ==
    /\ pending[c][i] = 0
    /\ Cardinality(Held(pending[c])) >= MaxInstruments

Takes(c, i) == c \in Registered /\ ~Refuses(c, i)

\* LiveRowPublisher.publish: refuses a new instrument beyond the bound (the
\* caller gets the error and nothing changes), else offers the row to every
\* registered client without waiting for any.
Publish(i) ==
    LET n == Len(log) + 1 IN
    /\ ~Closed
    /\ Len(log) < MaxRows
    /\ latest[i] = 0 => Cardinality(Held(latest)) < MaxInstruments
    /\ log' = Append(log, i)
    /\ latest' = [latest EXCEPT ![i] = n]
    /\ pending' = [c \in Clients |->
                     IF Takes(c, i) THEN [pending[c] EXCEPT ![i] = n] ELSE pending[c]]
    /\ event' = [c \in Clients |-> event[c] \/ Takes(c, i)]
    /\ dropped' = [c \in Clients |->
                     IF c \in Registered /\ Refuses(c, i)
                     THEN dropped[c] + 1 ELSE dropped[c]]
    /\ handler' = [c \in Clients |->
                     IF Takes(c, i) /\ handler[c] = "waiting"
                     THEN "woken" ELSE handler[c]]
    /\ UNCHANGED <<closeVars, sent, wire, readerVars>>

\* A subscriber finds the endpoint and connects to the listening socket.
Connect(c) ==
    /\ ~Closed
    /\ handler[c] = "absent" /\ reader[c] = "reading"
    /\ handler' = [handler EXCEPT ![c] = "auth"]
    /\ UNCHANGED <<publisherVars, closeVars, pending, event, dropped, sent, wire,
                   readerVars>>

\* Variant: a late client is not given the latest rows first.
AcceptEmpty(c) ==
    /\ handler[c] = "auth"
    /\ handler' = [handler EXCEPT ![c] = "sending"]
    /\ wire' = [wire EXCEPT ![c] = Append(@, Message("snapshot", NoRows, 0, Len(log)))]
    /\ sent' = [sent EXCEPT ![c] = Len(log)]
    /\ UNCHANGED <<publisherVars, closeVars, pending, event, dropped, readerVars>>

\* _handle_client once the token is read: registers the client and writes the
\* snapshot in the same step, so that no row falls between the two.
Accept(c) ==
    /\ handler[c] = "auth"
    /\ handler' = [handler EXCEPT ![c] = "sending"]
    /\ wire' = [wire EXCEPT ![c] = Append(@, Message("snapshot", latest, 0, Len(log)))]
    /\ sent' = [sent EXCEPT ![c] = Len(log)]
    /\ UNCHANGED <<publisherVars, closeVars, pending, event, dropped, readerVars>>

\* Variant: the loop waits for the next event even if one is set.
DrainedAsleep(c) ==
    /\ handler[c] = "sending"
    /\ Len(wire[c]) <= MaxBuffered
    /\ handler' = [handler EXCEPT ![c] = IF Closed THEN "gone" ELSE "waiting"]
    /\ UNCHANGED <<publisherVars, closeVars, pending, event, dropped, sent, wire,
                   readerVars>>

\* Variant: the loop does not look at the closed flag.
DrainedForever(c) ==
    /\ handler[c] = "sending"
    /\ Len(wire[c]) <= MaxBuffered
    /\ handler' = [handler EXCEPT ![c] = IF event[c] THEN "woken" ELSE "waiting"]
    /\ UNCHANGED <<publisherVars, closeVars, pending, event, dropped, sent, wire,
                   readerVars>>

\* writer.drain() returns: the loop of _handle_client ends when the publisher
\* was closed meanwhile, whatever is pending; else it waits for the event,
\* which returns at once when it is set.
Drained(c) ==
    /\ handler[c] = "sending"
    /\ Len(wire[c]) <= MaxBuffered
    /\ handler' = [handler EXCEPT ![c] = IF Closed THEN "gone"
                                         ELSE IF event[c] THEN "woken" ELSE "waiting"]
    /\ UNCHANGED <<publisherVars, closeVars, pending, event, dropped, sent, wire,
                   readerVars>>

\* Drains the pending rows of c and writes them as one message.
SendPending(c) ==
    /\ wire' = [wire EXCEPT ![c] =
                  Append(@, Message("rows", pending[c], sent[c], Len(log)))]
    /\ sent' = [sent EXCEPT ![c] = Len(log)]
    /\ pending' = [pending EXCEPT ![c] = NoRows]
    /\ event' = [event EXCEPT ![c] = FALSE]
    /\ dropped' = [dropped EXCEPT ![c] = 0]

\* The handler resumes after its event: drain and send, without an await
\* between them.
SendRows(c) ==
    /\ handler[c] = "woken"
    /\ handler' = [handler EXCEPT ![c] = "sending"]
    /\ SendPending(c)
    /\ UNCHANGED <<publisherVars, closeVars, readerVars>>

\* wait_for times out; rows offered in the same turn of the loop stay pending
\* while the heartbeat carries the new source_sequence.
Heartbeat(c) ==
    /\ handler[c] \in {"waiting", "woken"}
    /\ Len(wire[c]) < MaxWire
    /\ handler' = [handler EXCEPT ![c] = "sending"]
    /\ wire' = [wire EXCEPT ![c] = Append(@, Message("heartbeat", NoRows, sent[c], sent[c]))]
    /\ UNCHANGED <<publisherVars, closeVars, pending, event, dropped, sent, readerVars>>

\* The peer has closed its socket: the write or the drain raises
\* ConnectionError and the handler discards its client.
ConnectionLost(c) ==
    /\ reader[c] # "reading"
    /\ handler[c] \in {"auth", "sending", "waiting", "woken"}
    /\ handler' = [handler EXCEPT ![c] = "gone"]
    /\ UNCHANGED <<publisherVars, closeVars, pending, event, dropped, sent, wire,
                   readerVars>>

-----------------------------------------------------------------------------
(* LiveRowPublisher.close.                                                 *)

CloseBegin ==
    /\ closer = "open"
    /\ closer' = "waiting"
    /\ UNCHANGED <<publisherVars, toFlush, draining, waits, clientVars, wire, readerVars>>

\* Server.wait_closed returns: at once, or after the last open connection.
CloseWaited ==
    /\ closer = "waiting"
    /\ waits => OpenConnections = {}
    /\ closer' = "flushing"
    /\ toFlush' = Registered
    /\ UNCHANGED <<publisherVars, draining, waits, clientVars, wire, readerVars>>

\* The flush of one client.  A handler that has ended meanwhile has closed
\* its writer: what close() writes then is sent only if the transport still
\* had bytes to write.
CloseFlush(c) ==
    /\ closer = "flushing" /\ c \in toFlush /\ draining = {}
    /\ toFlush' = toFlush \ {c}
    /\ \/ /\ Held(pending[c]) # {}
          /\ SendPending(c)
          /\ draining' = {c}
       \/ /\ Held(pending[c]) = {} \/ handler[c] = "gone"
          /\ pending' = [pending EXCEPT ![c] = NoRows]
          /\ event' = [event EXCEPT ![c] = FALSE]
          /\ dropped' = [dropped EXCEPT ![c] = 0]
          /\ UNCHANGED <<sent, wire, draining>>
    /\ UNCHANGED <<publisherVars, closer, waits, handler, readerVars>>

\* The awaited drain of a flush returns, or raises and is suppressed.
CloseDrained(c) ==
    /\ c \in draining
    /\ Len(wire[c]) <= MaxBuffered \/ reader[c] # "reading"
    /\ draining' = {}
    /\ UNCHANGED <<publisherVars, closer, toFlush, waits, clientVars, wire, readerVars>>

\* The writers are closed and the handlers end.
CloseFinish ==
    /\ closer = "flushing" /\ toFlush = {} /\ draining = {}
    /\ closer' = "closed"
    /\ handler' = [c \in Clients |-> IF handler[c] = "absent" THEN "absent" ELSE "gone"]
    /\ UNCHANGED <<publisherVars, toFlush, draining, waits, pending, event, dropped,
                   sent, wire, readerVars>>

-----------------------------------------------------------------------------
(* LiveRowSubscriber.                                                      *)

Readable(m, c) ==
    /\ m.mark >= mark[c]
    /\ \A i \in Instruments : m.rows[i] <= m.mark

\* poll(): one message is read and checked against the counters.
Receive(c) ==
    /\ reader[c] = "reading" /\ wire[c] # << >>
    /\ LET m == Head(wire[c]) IN
         IF Readable(m, c)
         THEN /\ seen' = [seen EXCEPT ![c] = Overlay(@, m.rows)]
              /\ mark' = [mark EXCEPT ![c] = m.mark]
              /\ cut' = [cut EXCEPT ![c] = m.upto]
              /\ UNCHANGED reader
         ELSE /\ reader' = [reader EXCEPT ![c] = "failed"]
              /\ UNCHANGED <<seen, mark, cut>>
    /\ wire' = [wire EXCEPT ![c] = Tail(@)]
    /\ UNCHANGED <<publisherVars, closeVars, clientVars>>

\* The consumer closes its subscriber; what is on the wire is lost.
Leave(c) ==
    /\ reader[c] = "reading"
    /\ reader' = [reader EXCEPT ![c] = "left"]
    /\ wire' = [wire EXCEPT ![c] = << >>]
    /\ UNCHANGED <<publisherVars, closeVars, clientVars, seen, mark, cut>>

-----------------------------------------------------------------------------
HandlerStep(c) ==
    Accept(c) \/ Drained(c) \/ SendRows(c) \/ Heartbeat(c) \/ ConnectionLost(c)

CloseStep ==
    \/ CloseBegin \/ CloseWaited \/ CloseFinish
    \/ \E c \in Clients : CloseFlush(c) \/ CloseDrained(c)

Next ==
    \/ \E i \in Instruments : Publish(i)
    \/ \E c \in Clients : Connect(c) \/ HandlerStep(c) \/ Receive(c) \/ Leave(c)
    \/ CloseStep

Spec == Init /\ [][Next]_vars

\* The event loop runs every ready coroutine and fires its timers, a subscriber
\* that has not left polls on, and the race of a heartbeat with an offered row does not repeat
\* for ever.  Nothing makes rows arrive, clients come or go, or capture end.
Fairness ==
    /\ \A c \in Clients :
         /\ WF_vars(Accept(c)) /\ WF_vars(Drained(c)) /\ WF_vars(ConnectionLost(c))
         /\ SF_vars(SendRows(c)) /\ WF_vars(Heartbeat(c))
         /\ WF_vars(Receive(c))
         /\ WF_vars(CloseFlush(c)) /\ WF_vars(CloseDrained(c))
    /\ WF_vars(CloseWaited) /\ WF_vars(CloseFinish)

FairSpec == Spec /\ Fairness
-----------------------------------------------------------------------------
(* Properties.                                                             *)

MessageType == [type : {"snapshot", "rows", "heartbeat"},
                rows : [Instruments -> Nat], mark : Nat, from : Nat, upto : Nat]

\* Types of the publisher's, the handlers' and the subscribers' state.
TypeOK ==
    /\ log \in Seq(Instruments)
    /\ latest \in [Instruments -> Nat]
    /\ closer \in {"open", "waiting", "flushing", "closed"}
    /\ toFlush \subseteq Clients /\ draining \subseteq Clients /\ waits \in BOOLEAN
    /\ handler \in [Clients -> HandlerStates]
    /\ pending \in [Clients -> [Instruments -> Nat]]
    /\ event \in [Clients -> BOOLEAN]
    /\ dropped \in [Clients -> Nat]
    /\ sent \in [Clients -> Nat]
    /\ wire \in [Clients -> Seq(MessageType)]
    /\ reader \in [Clients -> {"reading", "failed", "left"}]
    /\ seen \in [Clients -> [Instruments -> Nat]]
    /\ mark \in [Clients -> Nat]
    /\ cut \in [Clients -> Nat]

Feed == INSTANCE LatestValueFeed WITH view <- seen

\* What a consumer holds is what the publisher's latest-value table was at one
\* moment: the snapshot and every rows message fit together without a gap or
\* an overlap, whatever was coalesced in between (publish, drain, _send).
SeenIsAMoment == \A c \in Clients : Feed!IsViewAt(seen[c], log, cut[c])

\* The counters of a stream never go back and no row is newer than its
\* watermark, so LiveRowSubscriber.poll never raises the two protocol errors
\* it has for that, heartbeats racing with rows included.
SubscriberNeverFails == \A c \in Clients : reader[c] # "failed"

\* The per-client bound is never what loses an instrument: publish() refuses
\* it for the whole stream first, and _ClientState.offer finds room.
NothingIsDropped == \A c \in Clients : dropped[c] = 0

\* A handler is never asleep with rows to send: the event is set whenever
\* rows are pending, and only an empty client waits for it.
NoLostWakeup ==
    \A c \in Clients :
        /\ event[c] <=> Held(pending[c]) # {}
        /\ handler[c] = "waiting" => ~event[c]

\* Rows are kept from a client only by the end of the capture or of the
\* connection: while it is registered, what it was sent and what is pending
\* make up the whole log.
NothingIsForgotten ==
    \A c \in Registered : Feed!IsDelta(pending[c], log, sent[c], Len(log))

\* The stream implements the latest-value feed.
ImplementsFeed == Feed!FeedSpec

\* A connected consumer that keeps polling comes to hold every row published,
\* unless the capture closes the stream.
CatchesUp ==
    \A c \in Clients : \A n \in 1..MaxRows :
        (c \in Registered /\ Len(log) >= n)
            ~> (cut[c] >= n \/ Closed \/ reader[c] # "reading")

\* close() returns on every Python version: it waits for handlers, and each
\* ends once its peer reads or goes away.
CloseEnds == closer = "waiting" ~> closer = "closed"
=============================================================================
