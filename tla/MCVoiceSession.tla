---------------------------- MODULE MCVoiceSession ----------------------------
(* VoiceSession on small constants: the shipped configuration with and     *)
(* without a follow-up timeout, a single-turn one with delegation, and a   *)
(* transcript-only one.                                                    *)
EXTENDS VoiceSession

Shipped == [conversation |-> TRUE, transcriptOnly |-> FALSE, closeAck |-> TRUE,
            delegation |-> TRUE, followupTimeout |-> FALSE]

MCConfigs ==
  { Shipped,
    [Shipped EXCEPT !.followupTimeout = TRUE, !.closeAck = FALSE],
    [Shipped EXCEPT !.conversation = FALSE],
    [Shipped EXCEPT !.transcriptOnly = TRUE, !.delegation = FALSE] }

MCShippedOnly == {Shipped}

=============================================================================
