------------------------ MODULE MCCDROMAsyncReader ------------------------
(***************************************************************************)
(* The usages of the read-ahead thread that the runs give to TLC, for a    *)
(* disc of three sectors.                                                  *)
(***************************************************************************)
EXTENDS CDROMAsyncReader

\* The worker may be late and the game may peek; every seek succeeds.
LateWorker ==
  [requests |-> {0, 1}, peeks |-> TRUE, whole_image |-> FALSE, kick_is_seen |-> FALSE]

\* Seeks beyond the disc, and use of the whole image, by a core thread that
\* gives the worker time.
PatientCore ==
  [requests |-> {0, 1, 4}, peeks |-> FALSE, whole_image |-> TRUE, kick_is_seen |-> TRUE]

SafeUsages == {LateWorker, PatientCore}

LateWorkerWholeImage == {[LateWorker EXCEPT !.whole_image = TRUE, !.peeks = FALSE]}
LateWorkerBadSeek == {[LateWorker EXCEPT !.requests = {0, 1, 4}, !.peeks = FALSE]}
PatientCorePeeks == {[PatientCore EXCEPT !.peeks = TRUE, !.whole_image = FALSE]}
=============================================================================
