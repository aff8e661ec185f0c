-------------------------- MODULE MCEvidenceLedger --------------------------
(* Four events, two of which claim the same event id, in three batches that *)
(* overlap; one of them repeats an event.                                   *)
EXTENDS EvidenceLedger

MCEvents == {"started", "evidence", "other evidence", "completed"}
MCIdOf == [e \in MCEvents |-> IF e = "other evidence" THEN "evidence" ELSE e]
MCBatches == {<<"started">>, <<"started", "evidence", "completed">>,
              <<"other evidence", "completed", "completed">>}
=============================================================================
