-------------------------- MODULE MCActivationServer --------------------------
(* ActivationServer as shipped: listen(1) and a cooldown longer than the   *)
(* clock's resolution.  Four detections are the fewest that fill the queue *)
(* behind a running session and find it full.                              *)
EXTENDS ActivationServer

=============================================================================
