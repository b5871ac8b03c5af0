------------------------------ MODULE Recorder ------------------------------
(***************************************************************************)
(* What AvbListener takes the wav library to do with a recording: a write  *)
(* adds one whole fragment, or fails, with the fragment in the file or     *)
(* not; after a failure nothing is added any more, and the next call may   *)
(* end the process.                                                        *)
(***************************************************************************)
EXTENDS Naturals

VARIABLES state, frags, err

RecorderInit == state = "setup" /\ frags = 0 /\ err = FALSE

(* The header may have failed to be written, and nobody looks. *)
Open == /\ state = "setup"
        /\ state' \in {"setup", "ready"}
        /\ err' \in {err, TRUE}
        /\ frags' = frags

Write == /\ state = "ready" /\ ~err
         /\ \/ frags' = frags + 1 /\ err' = FALSE
            \/ frags' \in {frags, frags + 1} /\ err' = TRUE
         /\ state' = state

(* An assertion of the library. *)
Abort == /\ state = "setup" \/ err
         /\ state' = "aborted"
         /\ err' = TRUE
         /\ frags' = frags

(* Closed, or the process was killed in the middle of a write. *)
Leave == /\ state \in {"setup", "ready"}
         /\ state' = "left"
         /\ frags' \in {frags, frags + 1}
         /\ err' = err

RecorderNext == Open \/ Write \/ Abort \/ Leave

RecorderSpec == RecorderInit /\ [][RecorderNext]_<<state, frags, err>>

=============================================================================
