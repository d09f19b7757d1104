---------------------------- MODULE MCRecogLoop -----------------------------
(* Request sets for model-checking RecogLoop.                               *)
EXTENDS RecogLoop

\* Pausing, terminating and resuming, as the module mode of Julius does.
Control == {"pause", "terminate", "resume"}

\* Grammar updates in all three modes as well.
Anything == Control \cup {"update_terminate", "update_pause", "update_wait"}

PauseOnly == {"pause"}

UpdateOnly == {"update_terminate"}

NoRequests == {}
=============================================================================
