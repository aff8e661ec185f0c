-------------------------- MODULE SegmentedCapture --------------------------
(***************************************************************************)
(* One capture of market data from the stream to its readers: the session  *)
(* (DataCaptureSession, src/data/src/shaurya/data/access.py), its segment  *)
(* writer (SegmentedParquetWriter, data/parquet.py), the dataset's handle  *)
(* in the catalogue (data/catalog.py) and a follower (DatasetFollower).    *)
(*                                                                         *)
(* A row is its receive sequence; the stream numbers rows one by one, so   *)
(* the writer's comparison of a row with the one before it always holds.   *)
(* A segment is the sequence of its rows.  An exception that write() lets  *)
(* out ends the connection, and the stream goes on with the next row after *)
(* reconnecting (DhanLiveStream._supervise).                               *)
(***************************************************************************)
EXTENDS Integers, Sequences, FiniteSets, SequencesExt

CONSTANTS
    SegmentRows,       \* rows at which a segment is rotated
    LastRow,           \* bound: rows the stream delivers
    CatalogueMayFail,  \* TRUE: an append to the catalogue may fail
    ReadsMayFail,      \* TRUE: the follower may fail to read a segment
    MaxFailures        \* bound: failing calls

\* A writer for no rows is refused; the bounds are numbers.
ASSUME CaptureAssumption ==
    /\ SegmentRows \in Nat \ {0}
    /\ LastRow \in Nat /\ MaxFailures \in Nat
    /\ CatalogueMayFail \in BOOLEAN /\ ReadsMayFail \in BOOLEAN

VARIABLES
    phase,       \* where the capturing process is
    inHand,      \* the row write() works on; 0 for none
    delivered,   \* rows the stream has numbered
    accepted,    \* history: rows that are in the buffer or in a segment
    buffer,      \* _rows: the rows of the open segment
    segments,    \* _segments of the writer
    unpublished, \* _pending_publications is not empty
    handle,      \* the status of the session's own handle
    files,       \* the final files of the dataset's directory
    catalogued,  \* the handle other processes see: status and segments
    reason,      \* close() was given an invalidation reason
    closes,      \* times the caller will close again after an exception
    refused,     \* history: the catalogue refused the failure of a close()
    next,        \* the follower's next segment
    received,    \* rows the follower has returned
    pollRaised,  \* history: a poll() has raised
    failures

writer == <<inHand, delivered, accepted, buffer, segments, unpublished, files>>
session == <<handle, catalogued, reason, closes, refused>>
follower == <<next, received, pollRaised>>
captureVars == <<phase, writer, session, follower, failures>>

\* DatasetHandle refuses segments that do not follow each other.
Contiguous(s) ==
    \A k \in 1..(Len(s) - 1) : Head(s[k + 1]) = Last(s[k]) + 1

CaptureInit ==
    /\ phase = "ready" /\ inHand = 0 /\ delivered = 0
    /\ accepted = << >> /\ buffer = << >> /\ segments = << >> /\ unpublished = FALSE
    /\ handle = "active" /\ files = {}
    /\ catalogued = [status |-> "active", segments |-> << >>]
    /\ reason = FALSE /\ closes = 0 /\ refused = FALSE
    /\ next = 1 /\ received = << >> /\ pollRaised = FALSE
    /\ failures = 0

-----------------------------------------------------------------------------
(* Writing.                                                                *)

\* Where write() goes on once the row is in the buffer.
AfterAppend(rows) == IF Len(rows) >= SegmentRows THEN "due" ELSE "publish"

\* The stream has a row and the buffer is young, or there is none.  A buffer that
\* a row was lost behind is old, and stays it.
WriteRow ==
    /\ phase = "ready" /\ delivered < LastRow
    /\ buffer # << >> => Last(buffer) = delivered
    /\ delivered' = delivered + 1
    /\ buffer' = Append(buffer, delivered + 1)
    /\ accepted' = Append(accepted, delivered + 1)
    /\ phase' = AfterAppend(buffer')
    /\ UNCHANGED <<inHand, segments, unpublished, files, session, follower, failures>>

\* The row comes when the buffer's first row is max_duration old.
WriteLateRow ==
    /\ phase = "ready" /\ delivered < LastRow /\ buffer # << >>
    /\ delivered' = delivered + 1
    /\ inHand' = delivered + 1
    /\ phase' = "early"
    /\ UNCHANGED <<accepted, buffer, segments, unpublished, files, session, follower, failures>>

Rotations == {"early", "due", "close"}

\* What follows a rotation: write() adds the row in hand, close() publishes.
Rotated(rows) ==
    /\ buffer' = rows
    /\ accepted' = accepted \o rows
    /\ inHand' = 0
    /\ phase' = IF phase = "close" THEN "closing" ELSE AfterAppend(rows)

\* _finalize_segment: the rows become a final file and a segment.
Rotate ==
    /\ phase \in Rotations
    /\ IF buffer = << >> THEN UNCHANGED <<segments, unpublished, files>>
       ELSE /\ segments' = Append(segments, buffer)
            /\ unpublished' = TRUE
            /\ files' = files \cup {buffer}
    /\ Rotated(IF inHand = 0 THEN << >> ELSE <<inHand>>)
    /\ UNCHANGED <<delivered, session, follower, failures>>

\* _finalize_segment raises, before or after the rename: the buffer is kept,
\* the row in hand is not.
RotateFails ==
    /\ phase \in Rotations /\ buffer # << >> /\ failures < MaxFailures
    /\ failures' = failures + 1
    /\ \/ files' = files
       \/ files' = files \cup {buffer}
    /\ inHand' = 0
    /\ phase' = IF phase = "close" THEN "failing" ELSE "ready"
    /\ UNCHANGED <<delivered, accepted, buffer, segments, unpublished, session, follower>>

\* A call of the catalogue may fail before or after the event has its name.
CatalogueFails(h) ==
    /\ CatalogueMayFail /\ failures < MaxFailures
    /\ failures' = failures + 1
    /\ catalogued' \in {catalogued, h}

CatalogueTakes(h) == catalogued' = h /\ UNCHANGED failures

\* The failure of a close(): the caller closes once more, with a reason.
CloseRaised ==
    IF closes > 0
    THEN phase' = "close" /\ closes' = closes - 1 /\ reason' = TRUE
    ELSE phase' = "exited" /\ UNCHANGED <<closes, reason>>

\* _publish_closed_segments: the handle is validated, then the catalogue gets
\* it.  A ValueError or a failing append ends the write, or the close.
PublishSegments ==
    /\ phase \in {"publish", "closing"}
    /\ unpublished' = FALSE
    /\ LET onward == IF phase = "publish" THEN "ready" ELSE "terminal"
           raised == IF phase = "publish" THEN "ready" ELSE "failing"
           h == [catalogued EXCEPT !.segments = segments]
       IN IF ~unpublished THEN phase' = onward /\ UNCHANGED <<handle, catalogued, failures>>
          ELSE IF ~Contiguous(segments) \/ {handle, catalogued.status} # {"active"}
          THEN phase' = raised /\ UNCHANGED <<handle, catalogued, failures>>
          ELSE /\ UNCHANGED handle
               /\ \/ CatalogueTakes(h) /\ phase' = onward
                  \/ CatalogueFails(h) /\ phase' = raised
    /\ UNCHANGED <<inHand, delivered, accepted, buffer, segments, files, reason, closes, refused,
                   follower>>

-----------------------------------------------------------------------------
(* Closing.                                                                *)

\* Variant: the rows of the open segment are not flushed.
CloseAtOnce ==
    /\ phase = "ready"
    /\ phase' = "closing"
    /\ reason' \in BOOLEAN /\ closes' \in 0..1
    /\ UNCHANGED <<writer, handle, catalogued, refused, follower, failures>>

\* The capture ends for a reason or not; a caller that closes because of an
\* exception does not try again.
Close ==
    /\ phase = "ready"
    /\ phase' = "close"
    /\ reason' \in BOOLEAN /\ closes' \in 0..1
    /\ UNCHANGED <<writer, handle, catalogued, refused, follower, failures>>

\* Variant: the last status wins.
AnyStatus(s) == TRUE

\* _validate_transition: a terminal status may only be repeated.
MayBecome(s) == catalogued.status \in {"active", s}

\* The end of close(): completed, or invalidated for a reason.
Terminate ==
    /\ phase = "terminal"
    /\ LET s == IF reason \/ segments = << >> THEN "invalidated" ELSE "completed"
           h == [status |-> s, segments |-> segments]
       IN IF ~Contiguous(segments)
          THEN phase' = "failing" /\ UNCHANGED <<handle, catalogued, failures>>
          ELSE /\ handle' = s
               /\ \/ ~MayBecome(s) /\ phase' = "failing" /\ UNCHANGED <<catalogued, failures>>
                  \/ MayBecome(s) /\ CatalogueTakes(h) /\ phase' = "closed"
                  \/ MayBecome(s) /\ CatalogueFails(h) /\ phase' = "failing"
    /\ UNCHANGED <<writer, reason, closes, refused, follower>>

\* The exception handler of close(): the failure is published, or the claim
\* is retained and the exception goes on.
PublishFailure ==
    /\ phase = "failing"
    /\ LET h == [status |-> "failed", segments |-> segments]
           lost == UNCHANGED <<catalogued, failures, refused>>
       IN IF ~Contiguous(segments) THEN CloseRaised /\ lost /\ UNCHANGED handle
          ELSE /\ handle' = "failed"
               /\ \/ ~MayBecome("failed") /\ CloseRaised /\ lost
                  \/ /\ MayBecome("failed") /\ CatalogueTakes(h)
                     /\ phase' = "closed"
                     /\ UNCHANGED <<reason, closes, refused>>
                  \/ MayBecome("failed") /\ CatalogueFails(h) /\ CloseRaised /\ refused' = TRUE
    /\ UNCHANGED <<writer, follower>>

Capturing == {"ready", "early", "due", "publish", "close", "closing", "terminal", "failing"}

\* The capturing process dies.
CaptureDies ==
    /\ phase \in Capturing
    /\ phase' = "dead"
    /\ UNCHANGED <<writer, session, follower, failures>>

-----------------------------------------------------------------------------
(* Following.                                                              *)

Published == catalogued.segments
RowsOf(s) == FlattenSeq(s)

\* Variant: nothing is read once the dataset has ended.
PollWhileActive ==
    \E n \in next..Len(Published) :
        /\ catalogued.status = "active"
        /\ received' = received \o RowsOf(SubSeq(Published, next, n))
        /\ next' = n + 1
        /\ UNCHANGED <<phase, writer, session, pollRaised, failures>>

\* poll(), up to max_bytes or to the last published segment.
Poll ==
    \E n \in next..Len(Published) :
        /\ received' = received \o RowsOf(SubSeq(Published, next, n))
        /\ next' = n + 1
        /\ UNCHANGED <<phase, writer, session, pollRaised, failures>>

\* poll() raises at a segment after it has counted the ones before.
PollFails ==
    /\ ReadsMayFail /\ failures < MaxFailures
    /\ failures' = failures + 1
    /\ pollRaised' = TRUE
    /\ \E n \in next..Len(Published) : next' = n
    /\ UNCHANGED <<phase, writer, session, received>>

\* finished
Finished == catalogued.status # "active" /\ next > Len(Published)

\* The capture has ended.
Ended ==
    /\ phase \notin Capturing
    /\ UNCHANGED captureVars

Work == Rotate \/ RotateFails \/ PublishSegments \/ Terminate \/ PublishFailure

CaptureNext ==
    \/ WriteRow \/ WriteLateRow \/ Close \/ Work \/ CaptureDies
    \/ Poll \/ PollFails \/ Ended

CaptureSpec == CaptureInit /\ [][CaptureNext]_captureVars

\* The process goes on, its capture ends at the end of its duration, and the
\* follower polls again and again.
FairCapture == CaptureSpec /\ WF_captureVars(Work) /\ WF_captureVars(Close) /\ WF_captureVars(Poll)

-----------------------------------------------------------------------------
(* Properties.                                                             *)

\* Types of the capture's, the catalogue's and the follower's variables.
CaptureTypeOK ==
    /\ phase \in Capturing \cup {"closed", "exited", "dead"}
    /\ delivered \in 0..LastRow /\ inHand \in {0, delivered}
    /\ Range(accepted) \cup Range(buffer) \subseteq 1..delivered
    /\ Len(buffer) <= SegmentRows + failures
    /\ Range(segments) \subseteq files
    /\ unpublished \in BOOLEAN /\ pollRaised \in BOOLEAN /\ reason \in BOOLEAN /\ refused \in BOOLEAN
    /\ closes \in 0..1 /\ failures \in 0..MaxFailures
    /\ IsPrefix(Published, segments)
    /\ {handle, catalogued.status} \subseteq {"active", "completed", "invalidated", "failed"}
    /\ next \in 1..(Len(Published) + 1)

\* A completed dataset holds every row write() took, once and in order, in
\* files that are final.
CompletedIsWhole ==
    catalogued.status = "completed" =>
        RowsOf(Published) = accepted /\ Range(Published) \subseteq files

\* The follower has returned each row of the segments it is past, once and in
\* order; once a poll() has raised, rows may be missing but none comes twice.
FollowerMissesNothing ==
    /\ received = RowsOf(SubSeq(Published, 1, next - 1)) \/ pollRaised
    /\ \A k \in 1..(Len(received) - 1) : received[k] < received[k + 1]

\* A capture that has closed, or given up closing though the catalogue took
\* its calls, has a terminal status; only one that lost a row between two
\* segments, in a rotation that failed with the row in hand, may have none.
CloseIsRecorded ==
    /\ phase = "closed" => catalogued.status # "active"
    /\ phase = "exited" /\ ~refused /\ Contiguous(segments) => catalogued.status # "active"

\* Whatever append(), a rotation or close() fails with, a completed dataset is
\* whole, the follower has read what was published, and the end is on record.
CaptureIsSound ==
    /\ CaptureTypeOK
    /\ CompletedIsWhole
    /\ FollowerMissesNothing
    /\ CloseIsRecorded

\* DAT.md, lifecycle item 4: DAT then publishes a terminal handle.
EveryCloseIsRecorded == phase = "exited" /\ ~refused => catalogued.status # "active"

Dataset == INSTANCE PublishedDataset WITH rows <- RowsOf(Published), status <- catalogued.status

\* The catalogue's handle of the capture is a gapless dataset that only grows
\* until its end.
ImplementsDataset == Dataset!DatasetSpec

\* Unless the process dies, a row is lost between segments or the catalogue
\* refuses its end, a capture ends and its follower comes to the end of all of
\* it.
CaptureIsFollowed ==
    <>(\/ phase = "dead" \/ refused \/ ~Contiguous(segments)
       \/ Finished /\ (received = RowsOf(segments) \/ pollRaised))
=============================================================================
