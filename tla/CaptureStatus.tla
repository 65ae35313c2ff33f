---------------------------- MODULE CaptureStatus -----------------------------
(***************************************************************************)
(* What the wake listener's unit promises to whoever reads its capture     *)
(* status file: the tray.  The file belongs to the running process only    *)
(* from its announcement on; a process that dies leaves it behind.         *)
(***************************************************************************)
VARIABLES
  unit,    \* "down", "loading" (its model) or "up"
  file,    \* the capture status file
  heard    \* the running process has captured a sample

Statuses == {"absent", "starting", "healthy", "unhealthy"}
captureVars == <<unit, file, heard>>

CaptureInit == unit = "down" /\ file = "absent" /\ heard = FALSE

Launch ==
  /\ unit = "down"
  /\ unit' = "loading"
  /\ UNCHANGED <<file, heard>>

(* A write that fails leaves the file as it was. *)
Announce ==
  /\ unit = "loading"
  /\ unit' = "up" /\ file' \in {"starting", file}
  /\ UNCHANGED heard

Hear ==
  /\ unit = "up"
  /\ heard' = TRUE
  /\ UNCHANGED <<unit, file>>

(* Frames are reported only by a process that got some. *)
Report ==
  /\ unit = "up"
  /\ \/ file' = "healthy" /\ heard
     \/ file' = "unhealthy"
  /\ UNCHANGED <<unit, heard>>

Retire ==
  /\ unit = "up"
  /\ unit' = "down" /\ file' = "absent" /\ heard' = FALSE

Die ==
  /\ unit # "down"
  /\ unit' = "down" /\ heard' = FALSE
  /\ UNCHANGED file

CaptureNext == Launch \/ Announce \/ Hear \/ Report \/ Retire \/ Die

CaptureSpec == CaptureInit /\ [][CaptureNext]_captureVars

=============================================================================
