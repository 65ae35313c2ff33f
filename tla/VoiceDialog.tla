----------------------------- MODULE VoiceDialog -----------------------------
(***************************************************************************)
(* What a user may rely on when talking to the assistant, whatever the     *)
(* session loop does inside.  Requests are numbered as they are heard.  A  *)
(* heard request is worked on alone; it is then settled (answered, failed  *)
(* or given up) or promised for later.  A promise is told once, while a    *)
(* session is open, and never worked on again.                             *)
(***************************************************************************)
EXTENDS Naturals

VARIABLES
  open,      \* a voice session is open
  asked,     \* number of requests heard so far
  working,   \* the request being worked on, {} or a singleton
  promised,  \* requests handed to the background and not told yet
  telling    \* the promised request being told, {} or a singleton

dialogVars == <<open, asked, working, promised, telling>>

Init ==
  /\ open = FALSE
  /\ asked = 0
  /\ working  = {}
  /\ promised = {}
  /\ telling  = {}

Open ==
  /\ ~open
  /\ open' = TRUE
  /\ UNCHANGED <<asked, working, promised, telling>>

Hear ==
  /\ open /\ working = {} /\ telling = {}
  /\ asked' = asked + 1
  /\ working' = {asked + 1}
  /\ UNCHANGED <<open, promised, telling>>

(* The request is answered, failed or given up; a failure ends the session. *)
Settle ==
  /\ open /\ working # {}
  /\ working' = {}
  /\ open' \in BOOLEAN
  /\ UNCHANGED <<asked, promised, telling>>

Promise ==
  /\ open /\ working # {}
  /\ promised' = promised \cup working
  /\ working' = {}
  /\ open' \in BOOLEAN
  /\ UNCHANGED <<asked, telling>>

Tell ==
  /\ open /\ working = {} /\ telling = {}
  /\ \E r \in promised : telling' = {r} /\ promised' = promised \ {r}
  /\ UNCHANGED <<open, asked, working>>

Told ==
  /\ open /\ telling # {}
  /\ telling' = {}
  /\ open' \in BOOLEAN
  /\ UNCHANGED <<asked, working, promised>>

Close ==
  /\ open /\ working = {} /\ telling = {}
  /\ open' = FALSE
  /\ UNCHANGED <<asked, working, promised, telling>>

Next == Open \/ Hear \/ Settle \/ Promise \/ Tell \/ Told \/ Close

Spec == Init /\ [][Next]_dialogVars

=============================================================================
