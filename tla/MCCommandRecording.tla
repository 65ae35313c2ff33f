------------------------- MODULE MCCommandRecording -------------------------
(* CommandRecording with a preroll that is longer than the run of voice    *)
(* that starts a recording, and a queue that one slow chunk fills and      *)
(* overflows while the recording goes on.                                  *)
EXTENDS CommandRecording

=============================================================================
