---------------------------- MODULE MCWakeListener ----------------------------
(* WakeListener with an inference interval longer than the longest sleep   *)
(* and a timeout that is not a multiple of it, so that each of the three   *)
(* deadlines decides a sleep; two consecutive hits, the program's default. *)
EXTENDS WakeListener

=============================================================================
