---------------------------- MODULE MCWakewordTray ----------------------------
(* WakewordTray over what it may find when it is started: nothing running  *)
(* and stale files, a listener without its handler, or all of it.          *)
EXTENDS WakewordTray

Finds(l, f, h, m) == [listener |-> l, file |-> f, handler |-> h, marker |-> m, mic |-> TRUE]

MCFound == {Finds("down", "healthy", FALSE, TRUE), Finds("up", "healthy", TRUE, TRUE)}

=============================================================================
