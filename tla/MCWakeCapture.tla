---------------------------- MODULE MCWakeCapture -----------------------------
(* WakeCapture with a rate above the model's, one below it and a format    *)
(* without one, and a tape of one window and a cell to spare, which the    *)
(* callback can lap.                                                       *)
EXTENDS WakeCapture

=============================================================================
