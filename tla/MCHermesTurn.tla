----------------------------- MODULE MCHermesTurn -----------------------------
(* HermesTurn with a shared agent, an agent for each caller, and the       *)
(* subprocess only.  Two turns are one of each caller at the same time, or *)
(* a turn that is cancelled and the one its caller asks next.              *)
EXTENDS HermesTurn

=============================================================================
