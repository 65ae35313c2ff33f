-------------------------- MODULE WakeListenerProofs --------------------------
(***************************************************************************)
(* The listener's lifetimes, its status file and its clock, for every      *)
(* interval, timeout, sleep and number of hits: what main owns is there    *)
(* when it is used, a dead capture is noticed in time, and new samples get *)
(* a window.                                                               *)
(***************************************************************************)
EXTENDS WakeListener, TLAPS

Stages == {"down", "model", "run"} \cup WayUp \cup WayDown

Workers == {"none", "begin", "poll", "report", "snapshot", "infer", "handle",
            "sleep", "over"}

(* What there is at each place of main. *)
StageOwns ==
  /\ main \in {"down", "model"} => owned = {}
  /\ main = "loop"    => owned = {"model"}
  /\ main = "ring"    => owned = {"model", "loop"}
  /\ main = "stream"  => owned = {"model", "loop", "ring"}
  /\ main = "connect" => owned = {"model", "loop", "ring", "stream"}
  /\ main \in {"worker", "timer", "run"} =>
       owned = {"model", "loop", "ring", "stream", "capture"}
  /\ main = "stop" => \/ owned = {"model", "loop", "ring", "stream"}
                       \/ owned = {"model", "loop", "ring", "stream", "capture"}
  /\ main \in {"join worker", "join timer", "end ring"} =>
       owned = {"model", "loop", "ring"}
  /\ main \in {"end loop", "clear"} => "capture" \notin owned

(* The threads are there only between their start and their join. *)
ThreadsJoined ==
  /\ worker \notin {"none", "over"} => main \in {"timer", "run", "stop", "join worker"}
  /\ timer = "runs" => main \in {"run", "stop", "join worker", "join timer"}

(* A process that calls its capture healthy has heard something. *)
HealthHeard ==
  /\ fresh \/ verdict = "healthy" => heard
  /\ heard => main \notin {"down", "model"}
  /\ worker = "report" => verdict # "none"

ControlTypes ==
  /\ main \in Stages /\ worker \in Workers /\ timer \in {"none", "runs", "over"}
  /\ verdict \in {"none", "healthy", "unhealthy"}
  /\ heard \in BOOLEAN /\ fresh \in BOOLEAN /\ file \in Files

IInv == ControlTypes /\ StageOwns /\ ThreadsJoined /\ HealthHeard

LEMMA WayUpIs == WayUp = {"loop", "ring", "stream", "connect", "worker", "timer"}
  BY DEF WayUp, AfterStep

LEMMA InitIInv == Init => IInv
  BY DEF Init, IInv, ControlTypes, Stages, Workers, StageOwns, ThreadsJoined,
         HealthHeard, Files

-----------------------------------------------------------------------------
(* The steps of main. *)

LEMMA StepUpIInv == IInv /\ StepUp => IInv'
<1> SUFFICES ASSUME IInv, StepUp PROVE IInv'
  OBVIOUS
<1> USE WayUpIs
<1>1. /\ main \in {"loop", "ring", "stream", "connect", "worker", "timer"}
      /\ main' = CASE main = "loop" -> "ring" [] main = "ring" -> "stream"
                   [] main = "stream" -> "connect" [] main = "connect" -> "worker"
                   [] main = "worker" -> "timer" [] main = "timer" -> "run"
  BY DEF StepUp, AfterStep
<1>2. owned' = owned \cup (CASE main = "loop" -> {"loop"} [] main = "ring" -> {"ring"}
                   [] main = "stream" -> {"stream"} [] main = "connect" -> {"capture"}
                   [] main = "worker" -> {} [] main = "timer" -> {})
  BY <1>1 DEF StepUp, Creates
<1>3. /\ worker' = IF main = "worker" THEN "begin" ELSE worker
      /\ timer' \in {"none", "runs", timer} /\ (main # "timer" => timer' = timer)
      /\ UNCHANGED <<verdict, heard, fresh, file>>
  BY DEF StepUp, captureVars
<1>4. StageOwns'
  BY <1>1, <1>2 DEF IInv, StageOwns
<1>5. ThreadsJoined'
  BY <1>1, <1>3 DEF IInv, ThreadsJoined
<1>6. HealthHeard' /\ ControlTypes'
  BY <1>1, <1>3 DEF IInv, HealthHeard, ControlTypes, Stages, Workers
<1> QED
  BY <1>4, <1>5, <1>6 DEF IInv

LEMMA FailureIs ==
  /\ OnFailure["loop"] = "clear" /\ OnFailure["ring"] = "end loop"
  /\ OnFailure["stream"] = "end ring" /\ OnFailure["connect"] = "stop"
  /\ OnFailure["worker"] = "stop" /\ OnFailure["timer"] = "stop"
BY DEF OnFailure

LEMMA StepFailsIInv == IInv /\ StepFails => IInv'
<1> SUFFICES ASSUME IInv, StepFails PROVE IInv'
  OBVIOUS
<1> USE WayUpIs
<1>0. main \in {"loop", "ring", "stream", "connect", "worker", "timer"} /\ main' = OnFailure[main]
  BY DEF StepFails
<1>1. /\ main = "loop" => main' = "clear"
      /\ main = "ring" => main' = "end loop"
      /\ main = "stream" => main' = "end ring"
      /\ main \in {"connect", "worker", "timer"} => main' = "stop"
  BY <1>0, FailureIs
<1>s. UNCHANGED <<owned, worker, timer, verdict, heard, fresh, file>>
  BY DEF StepFails, captureVars, workerVars
<1>2. StageOwns'
  BY <1>0, <1>1, <1>s DEF IInv, StageOwns
<1>3. ThreadsJoined'
  BY <1>0, <1>1, <1>s DEF IInv, ThreadsJoined
<1>4. HealthHeard' /\ ControlTypes'
  BY <1>0, <1>1, <1>s DEF IInv, HealthHeard, ControlTypes, Stages, WayDown
<1> QED
  BY <1>2, <1>3, <1>4 DEF IInv

LEMMA MainMovesIInv ==
  ASSUME IInv,
         \/ Launch \/ ReturnEarly \/ QuitFromLoop \/ LoopEnds
         \/ Stop \/ JoinWorker \/ JoinTimer \/ EndRing \/ EndLoop
  PROVE  IInv'
<1>1. UNCHANGED <<worker, timer, verdict, heard, fresh, file>>
  BY DEF Launch, ReturnEarly, QuitFromLoop, LoopEnds, Stop, JoinWorker, JoinTimer,
         EndRing, EndLoop, captureVars, workerVars
<1>2. CASE Launch
  <2>1. /\ main = "down" /\ main' = "model" /\ owned' = owned
    BY <1>2 DEF Launch
  <2>2. StageOwns' BY <2>1 DEF IInv, StageOwns, ControlTypes
  <2>3. ThreadsJoined' BY <1>1, <2>1 DEF IInv, ThreadsJoined
  <2>4. HealthHeard' BY <1>1, <2>1 DEF IInv, HealthHeard
  <2>5. ControlTypes' BY <1>1, <2>1 DEF IInv, ControlTypes, Stages, WayDown
  <2> QED BY <2>2, <2>3, <2>4, <2>5 DEF IInv
<1>3. CASE ReturnEarly
  <2>1. /\ main = "model" /\ main' = "down" /\ owned' = owned
    BY <1>3 DEF ReturnEarly
  <2>2. StageOwns' BY <2>1 DEF IInv, StageOwns, ControlTypes
  <2>3. ThreadsJoined' BY <1>1, <2>1 DEF IInv, ThreadsJoined
  <2>4. HealthHeard' BY <1>1, <2>1 DEF IInv, HealthHeard
  <2>5. ControlTypes' BY <1>1, <2>1 DEF IInv, ControlTypes, Stages, WayDown
  <2> QED BY <2>2, <2>3, <2>4, <2>5 DEF IInv
<1>4. CASE QuitFromLoop
  <2>1. /\ main = "run" /\ main' = "run" /\ owned' = owned
    BY <1>4 DEF QuitFromLoop
  <2>2. StageOwns' BY <2>1 DEF IInv, StageOwns, ControlTypes
  <2>3. ThreadsJoined' BY <1>1, <2>1 DEF IInv, ThreadsJoined
  <2>4. HealthHeard' BY <1>1, <2>1 DEF IInv, HealthHeard
  <2>5. ControlTypes' BY <1>1, <2>1 DEF IInv, ControlTypes, Stages, WayDown
  <2> QED BY <2>2, <2>3, <2>4, <2>5 DEF IInv
<1>5. CASE LoopEnds
  <2>1. /\ main = "run" /\ main' = "stop" /\ owned' = owned
    BY <1>5 DEF LoopEnds
  <2>2. StageOwns' BY <2>1 DEF IInv, StageOwns, ControlTypes
  <2>3. ThreadsJoined' BY <1>1, <2>1 DEF IInv, ThreadsJoined
  <2>4. HealthHeard' BY <1>1, <2>1 DEF IInv, HealthHeard
  <2>5. ControlTypes' BY <1>1, <2>1 DEF IInv, ControlTypes, Stages, WayDown
  <2> QED BY <2>2, <2>3, <2>4, <2>5 DEF IInv
<1>6. CASE Stop
  <2>1. /\ main = "stop" /\ main' = "join worker" /\ owned' = owned \ {"stream", "capture"}
    BY <1>6 DEF Stop
  <2>2. StageOwns' BY <2>1 DEF IInv, StageOwns, ControlTypes
  <2>3. ThreadsJoined' BY <1>1, <2>1 DEF IInv, ThreadsJoined
  <2>4. HealthHeard' BY <1>1, <2>1 DEF IInv, HealthHeard
  <2>5. ControlTypes' BY <1>1, <2>1 DEF IInv, ControlTypes, Stages, WayDown
  <2> QED BY <2>2, <2>3, <2>4, <2>5 DEF IInv
<1>7. CASE JoinWorker
  <2>1. /\ main = "join worker" /\ main' = "join timer" /\ owned' = owned
        /\ worker \in {"none", "over"}
    BY <1>7 DEF JoinWorker
  <2>2. StageOwns' BY <2>1 DEF IInv, StageOwns, ControlTypes
  <2>3. ThreadsJoined' BY <1>1, <2>1 DEF IInv, ThreadsJoined
  <2>4. HealthHeard' BY <1>1, <2>1 DEF IInv, HealthHeard
  <2>5. ControlTypes' BY <1>1, <2>1 DEF IInv, ControlTypes, Stages, WayDown
  <2> QED BY <2>2, <2>3, <2>4, <2>5 DEF IInv
<1>8. CASE JoinTimer
  <2>1. /\ main = "join timer" /\ main' = "end ring" /\ owned' = owned
        /\ timer \in {"none", "over"}
    BY <1>8 DEF JoinTimer
  <2>2. StageOwns' BY <2>1 DEF IInv, StageOwns, ControlTypes
  <2>3. ThreadsJoined' BY <1>1, <2>1 DEF IInv, ThreadsJoined
  <2>4. HealthHeard' BY <1>1, <2>1 DEF IInv, HealthHeard
  <2>5. ControlTypes' BY <1>1, <2>1 DEF IInv, ControlTypes, Stages, WayDown
  <2> QED BY <2>2, <2>3, <2>4, <2>5 DEF IInv
<1>9. CASE EndRing
  <2>1. /\ main = "end ring" /\ main' = "end loop" /\ owned' = owned \ {"ring"}
    BY <1>9 DEF EndRing
  <2>2. StageOwns' BY <2>1 DEF IInv, StageOwns, ControlTypes
  <2>3. ThreadsJoined' BY <1>1, <2>1 DEF IInv, ThreadsJoined
  <2>4. HealthHeard' BY <1>1, <2>1 DEF IInv, HealthHeard
  <2>5. ControlTypes' BY <1>1, <2>1 DEF IInv, ControlTypes, Stages, WayDown
  <2> QED BY <2>2, <2>3, <2>4, <2>5 DEF IInv
<1>10. CASE EndLoop
  <2>1. /\ main = "end loop" /\ main' = "clear" /\ owned' = owned \ {"loop"}
    BY <1>10 DEF EndLoop
  <2>2. StageOwns' BY <2>1 DEF IInv, StageOwns, ControlTypes
  <2>3. ThreadsJoined' BY <1>1, <2>1 DEF IInv, ThreadsJoined
  <2>4. HealthHeard' BY <1>1, <2>1 DEF IInv, HealthHeard
  <2>5. ControlTypes' BY <1>1, <2>1 DEF IInv, ControlTypes, Stages, WayDown
  <2> QED BY <2>2, <2>3, <2>4, <2>5 DEF IInv
<1> QED
  BY <1>2, <1>3, <1>4, <1>5, <1>6, <1>7, <1>8, <1>9, <1>10

LEMMA ModelLoadedIInv == IInv /\ ModelLoaded => IInv'
<1> SUFFICES ASSUME IInv, ModelLoaded PROVE IInv'
  OBVIOUS
<1>1. /\ main = "model" /\ main' = "loop" /\ owned' = {"model"}
      /\ file' \in {"starting", file}
      /\ UNCHANGED <<worker, timer, verdict, heard, fresh>>
  BY DEF ModelLoaded, WriteStatus, captureVars, workerVars
<1> QED
  BY <1>1, WayUpIs DEF IInv, StageOwns, ThreadsJoined, HealthHeard, ControlTypes, Stages, Files

LEMMA GoneIInv ==
  ASSUME NEW status \in Files, Gone(status)
  PROVE  IInv'
BY DEF Gone, IInv, StageOwns, ThreadsJoined, HealthHeard, ControlTypes, Stages, Workers

-----------------------------------------------------------------------------
(* The steps of the threads. *)

LEMMA SampleIInv == IInv /\ Sample => IInv'
<1> SUFFICES ASSUME IInv, Sample PROVE IInv'
  OBVIOUS
<1>1. /\ "capture" \in owned /\ heard' = TRUE /\ fresh' = TRUE
      /\ UNCHANGED <<main, owned, worker, timer, verdict, file>>
  BY DEF Sample, mainVars, workerVars
<1>2. main \notin {"down", "model"}
  BY <1>1 DEF IInv, StageOwns
<1> QED
  BY <1>1, <1>2 DEF IInv, StageOwns, ThreadsJoined, HealthHeard, ControlTypes

LEMMA TimerOrTickIInv ==
  ASSUME IInv, TimerFires \/ Tick
  PROVE  IInv'
<1>1. /\ UNCHANGED <<main, owned, worker, verdict, file, heard, fresh>>
      /\ timer' \in {timer, "over"}
  BY DEF TimerFires, Tick, mainVars, captureVars, workerVars
<1>2. StageOwns' BY <1>1 DEF IInv, StageOwns
<1>3. ThreadsJoined' BY <1>1 DEF IInv, ThreadsJoined
<1>4. HealthHeard' /\ ControlTypes' BY <1>1 DEF IInv, HealthHeard, ControlTypes
<1> QED
  BY <1>2, <1>3, <1>4 DEF IInv

LEMMA PollIInv == IInv /\ Poll => IInv'
<1> SUFFICES ASSUME IInv, Poll PROVE IInv'
  OBVIOUS
<1>1. /\ worker = "poll" /\ worker' \in {"report", "snapshot", "sleep"}
      /\ fresh' = FALSE
      /\ UNCHANGED <<main, owned, timer, file, heard>>
  BY DEF Poll, mainVars
<1>2. /\ verdict' \in {"none", "healthy", "unhealthy"}
      /\ verdict' = "healthy" => fresh \/ verdict = "healthy"
      /\ worker' = "report" => verdict' # "none"
  BY DEF Poll, Judged, IInv, ControlTypes
<1> QED
  BY <1>1, <1>2 DEF IInv, StageOwns, ThreadsJoined, HealthHeard, ControlTypes, Workers

LEMMA WorkerIInv ==
  ASSUME IInv,
         \/ WorkerBegins \/ WorkerGivesUp \/ WorkerEnds
         \/ TakeSnapshot \/ Infer \/ HandlerReturns \/ WakeUp
  PROVE  IInv'
<1>1. /\ worker \notin {"none", "over"} /\ worker' \in Workers \ {"report"}
      /\ UNCHANGED <<main, owned, timer, file, heard, fresh, verdict>>
  BY DEF WorkerBegins, WorkerGivesUp, WorkerEnds, TakeSnapshot, Infer, HandlerReturns,
         WakeUp, Workers, mainVars, captureVars
<1>2. StageOwns'
  BY <1>1 DEF IInv, StageOwns
<1>3. ThreadsJoined'
  BY <1>1 DEF IInv, ThreadsJoined
<1>4. HealthHeard' /\ ControlTypes'
  BY <1>1 DEF IInv, HealthHeard, ControlTypes
<1> QED
  BY <1>2, <1>3, <1>4 DEF IInv

LEMMA ReportIInv == IInv /\ ReportHealth => IInv'
<1> SUFFICES ASSUME IInv, ReportHealth PROVE IInv'
  OBVIOUS
<1>1. /\ worker = "report" /\ worker' \in {"snapshot", "sleep"}
      /\ file' \in {verdict, file}
      /\ UNCHANGED <<main, owned, timer, heard, fresh, verdict>>
  BY DEF ReportHealth, WriteStatus, captureVars
<1>2. verdict # "none"
  BY <1>1 DEF IInv, HealthHeard
<1>3. StageOwns'
  BY <1>1 DEF IInv, StageOwns
<1>4. ThreadsJoined'
  BY <1>1 DEF IInv, ThreadsJoined
<1>5. HealthHeard' /\ ControlTypes'
  BY <1>1, <1>2 DEF IInv, HealthHeard, ControlTypes, Workers, Files
<1> QED
  BY <1>3, <1>4, <1>5 DEF IInv

LEMMA NextIInv == IInv /\ [Next]_vars => IInv'
<1> SUFFICES ASSUME IInv, [Next]_vars PROVE IInv'
  OBVIOUS
<1>1. CASE MainStep
  <2>1. CASE ClearStatus
    BY <2>1, GoneIInv DEF ClearStatus, Files
  <2> QED
    BY <1>1, <2>1, StepUpIInv, StepFailsIInv, MainMovesIInv, ModelLoadedIInv DEF MainStep
<1>2. CASE WorkerStep
  BY <1>2, PollIInv, WorkerIInv, ReportIInv DEF WorkerStep, WorkerGoesOn
<1>3. CASE Die
  BY <1>3, GoneIInv DEF Die, IInv, ControlTypes
<1>4. CASE UNCHANGED vars
  <2>1. UNCHANGED <<main, owned, worker, timer, verdict, heard, fresh, file>>
    BY <1>4 DEF vars, mainVars, captureVars, workerVars
  <2>2. StageOwns' /\ ThreadsJoined'
    BY <2>1 DEF IInv, StageOwns, ThreadsJoined
  <2>3. HealthHeard' /\ ControlTypes'
    BY <2>1 DEF IInv, HealthHeard, ControlTypes
  <2> QED
    BY <2>2, <2>3 DEF IInv
<1> QED
  BY <1>1, <1>2, <1>3, <1>4, MainMovesIInv, SampleIInv, TimerOrTickIInv DEF Next

LEMMA IInvHolds == Spec => []IInv
  BY InitIInv, NextIInv, PTL DEF Spec

-----------------------------------------------------------------------------
(* On every way down, including those from a half-finished way up, the     *)
(* tape, the model and the loop outlive the threads that use them.         *)
THEOREM ListenerFreesLast == Spec => []NothingFreedInUse
<1>1. IInv => NothingFreedInUse
  BY WayUpIs DEF IInv, ControlTypes, Stages, WayDown, StageOwns, ThreadsJoined, NothingFreedInUse
<1> QED
  BY <1>1, IInvHolds, PTL

-----------------------------------------------------------------------------
(* Every step of the listener is one of CaptureStatus, or none.            *)
Unit == IF main = "down" THEN "down" ELSE IF main = "model" THEN "loading" ELSE "up"

LEMMA QuietStep ==
  ASSUME UNCHANGED <<file, heard>>, Unit' = Unit
  PROVE  UNCHANGED Status!captureVars
BY DEF Unit, Status!captureVars

LEMMA MainMovesStatus ==
  ASSUME IInv,
         \/ StepUp \/ StepFails \/ LoopEnds \/ Stop \/ JoinWorker \/ JoinTimer
         \/ EndRing \/ EndLoop \/ QuitFromLoop
  PROVE  UNCHANGED Status!captureVars
<1> USE WayUpIs
<1>1. UNCHANGED <<file, heard>>
  BY DEF StepUp, StepFails, LoopEnds, Stop, JoinWorker, JoinTimer, EndRing, EndLoop,
         QuitFromLoop, captureVars, workerVars
<1>2. CASE StepUp
  <2>1. main \in {"loop", "ring", "stream", "connect", "worker", "timer"} /\ main' = AfterStep[main]
    BY <1>2 DEF StepUp
  <2>2. main' \notin {"down", "model"} /\ main \notin {"down", "model"}
    BY <2>1 DEF AfterStep
  <2> QED BY <1>1, <2>2, QuietStep DEF Unit
<1>3. CASE StepFails
  <2>1. main \in {"loop", "ring", "stream", "connect", "worker", "timer"} /\ main' = OnFailure[main]
    BY <1>3 DEF StepFails
  <2>2. main' \notin {"down", "model"} /\ main \notin {"down", "model"}
    BY <2>1, FailureIs
  <2> QED BY <1>1, <2>2, QuietStep DEF Unit
<1>4. CASE LoopEnds \/ Stop \/ JoinWorker \/ JoinTimer \/ EndRing \/ EndLoop \/ QuitFromLoop
  <2>1. main' \notin {"down", "model"} /\ main \notin {"down", "model"}
    BY <1>4 DEF LoopEnds, Stop, JoinWorker, JoinTimer, EndRing, EndLoop, QuitFromLoop
  <2> QED BY <1>1, <2>1, QuietStep DEF Unit
<1> QED
  BY <1>2, <1>3, <1>4

LEMMA ThreadsMoveStatus ==
  ASSUME \/ WorkerBegins \/ WorkerGivesUp \/ WorkerEnds \/ Poll \/ TakeSnapshot
         \/ Infer \/ HandlerReturns \/ WakeUp \/ TimerFires \/ Tick
  PROVE  UNCHANGED Status!captureVars
<1>1. UNCHANGED <<main, file, heard>>
  BY DEF WorkerBegins, WorkerGivesUp, WorkerEnds, Poll, TakeSnapshot, Infer,
         HandlerReturns, WakeUp, TimerFires, Tick, mainVars, captureVars
<1> QED
  BY <1>1, QuietStep DEF Unit

LEMMA UnitStepsMap ==
  ASSUME IInv, Launch \/ ReturnEarly \/ ModelLoaded \/ ClearStatus \/ Die
  PROVE  Status!CaptureNext
<1>1. CASE Launch
  <2>1. main = "down" /\ main' = "model" /\ UNCHANGED <<file, heard>>
    BY <1>1 DEF Launch, captureVars
  <2> QED BY <2>1 DEF Status!CaptureNext, Status!Launch
<1>2. CASE ReturnEarly
  <2>1. main = "model" /\ main' = "down" /\ UNCHANGED <<file, heard>>
    BY <1>2 DEF ReturnEarly, captureVars
  <2>2. heard = FALSE
    BY <2>1 DEF IInv, HealthHeard, ControlTypes
  <2> QED BY <2>1, <2>2 DEF Status!CaptureNext, Status!Die
<1>3. CASE ModelLoaded
  <2>1. main = "model" /\ main' = "loop" /\ heard' = heard /\ file' \in {"starting", file}
    BY <1>3 DEF ModelLoaded, WriteStatus, captureVars
  <2> QED BY <2>1 DEF Status!CaptureNext, Status!Announce
<1>4. CASE ClearStatus
  <2>1. main = "clear" /\ main' = "down" /\ file' = "absent" /\ heard' = FALSE
    BY <1>4 DEF ClearStatus, Gone
  <2> QED BY <2>1 DEF Status!CaptureNext, Status!Retire
<1>5. CASE Die
  <2>1. main # "down" /\ main' = "down" /\ file' = file /\ heard' = FALSE
    BY <1>5 DEF Die, Gone
  <2> QED BY <2>1 DEF Status!CaptureNext, Status!Die
<1> QED
  BY <1>1, <1>2, <1>3, <1>4, <1>5

LEMMA SampleMaps == IInv /\ Sample => Status!CaptureNext
<1> SUFFICES ASSUME IInv, Sample PROVE Status!CaptureNext
  OBVIOUS
<1>1. "capture" \in owned /\ heard' = TRUE /\ UNCHANGED <<main, file>>
  BY DEF Sample, mainVars
<1>2. main \notin {"down", "model"}
  BY <1>1 DEF IInv, StageOwns
<1> QED
  BY <1>1, <1>2 DEF Status!CaptureNext, Status!Hear

LEMMA ReportMaps ==
  ASSUME IInv, ReportHealth
  PROVE  Status!CaptureNext \/ UNCHANGED Status!captureVars
<1>1. worker = "report" /\ file' \in {verdict, file} /\ UNCHANGED <<main, heard>>
  BY DEF ReportHealth, WriteStatus, captureVars
<1>2. main \notin {"down", "model"}
  BY <1>1 DEF IInv, ThreadsJoined
<1>3. verdict \in {"healthy", "unhealthy"} /\ (verdict = "healthy" => heard)
  BY <1>1 DEF IInv, HealthHeard, ControlTypes
<1>4. CASE file' = file
  BY <1>1, <1>4, QuietStep DEF Unit
<1>5. CASE file' = verdict
  BY <1>1, <1>2, <1>3, <1>5 DEF Status!CaptureNext, Status!Report
<1> QED
  BY <1>1, <1>4, <1>5

(* The tray may rely on the status file: it is announced by the process    *)
(* that runs, calls a capture healthy only after that process has heard    *)
(* something, and is left behind only by one that died.                    *)
THEOREM ListenerKeepsStatus == Spec => StatusKept
<1>1. Init => Status!CaptureInit
  BY DEF Init, Status!CaptureInit
<1>2. IInv /\ [Next]_vars => [Status!CaptureNext]_(Status!captureVars)
  <2> SUFFICES ASSUME IInv, [Next]_vars
               PROVE  Status!CaptureNext \/ UNCHANGED Status!captureVars
    OBVIOUS
  <2>1. CASE MainStep
    BY <2>1, MainMovesStatus, UnitStepsMap DEF MainStep
  <2>2. CASE WorkerStep
    BY <2>2, ThreadsMoveStatus, ReportMaps DEF WorkerStep, WorkerGoesOn
  <2>3. CASE Launch \/ Die \/ QuitFromLoop \/ Sample \/ TimerFires \/ Tick
    BY <2>3, MainMovesStatus, UnitStepsMap, SampleMaps, ThreadsMoveStatus
  <2>4. CASE UNCHANGED vars
    BY <2>4, QuietStep DEF vars, mainVars, captureVars, Unit
  <2> QED
    BY <2>1, <2>2, <2>3, <2>4 DEF Next
<1> QED
  BY <1>1, <1>2, IInvHolds, PTL DEF Spec, StatusKept, Status!CaptureSpec

-----------------------------------------------------------------------------
(* The clock. *)

(* The types that WakeListenerProofs has no use for. *)
DataTypes ==
  /\ owned \subseteq {"model", "loop", "ring", "stream", "capture"}
  /\ running \in BOOLEAN /\ quit \in BOOLEAN
  /\ unscored \in BOOLEAN /\ warm \in BOOLEAN /\ due \in BOOLEAN
  /\ owed \in BOOLEAN

ClockTypes ==
  /\ sinceSamples \in 0..Timeout /\ sinceInference \in 0..Interval
  /\ wait \in 0..MaxSleep
  /\ silence \in 0..Timeout
  /\ idle \in 0..(NoticeBound + 1)
  /\ owedFor \in 0..(ScoreBound + 1)

(* The hits are complete only while the handler runs. *)
HitsOpen ==
  /\ hits \in 0..Consecutive
  /\ worker # "handle" => hits < Consecutive

(* The capture is found dead, or the sleep ends before it has to be. *)
Watching ==
  \/ verdict = "unhealthy"
  \/ idle + wait <= MaxSleep
  \/ sinceSamples + wait <= Timeout /\ idle <= MaxSleep + sinceSamples

(* Since the last sample, the worker has slept no longer than it has       *)
(* counted, but for the one sleep before it looked at that sample.         *)
SilenceSeenInTime ==
  /\ ~fresh => silence >= sinceSamples
  /\ ~fresh /\ verdict = "unhealthy" => silence >= Timeout
  /\ worker \in {"none", "begin"} => idle = 0
  /\ worker = "poll" =>
       IF fresh THEN idle <= MaxSleep
       ELSE verdict = "unhealthy" \/ idle <= MaxSleep + sinceSamples
  /\ worker \in {"report", "snapshot", "infer", "handle"} =>
       IF fresh THEN idle = 0 ELSE idle = 0 \/ Watching
  /\ worker = "sleep" => IF fresh THEN idle + wait <= MaxSleep ELSE Watching

(* An inference is due, and its window not yet taken. *)
Opening == worker \in {"report", "snapshot"} /\ due

(* The first sample after a window waits for the next inference and one    *)
(* sleep, and no longer.                                                   *)
OwedInTime ==
  /\ owed => unscored \/ Opening
  /\ ~owed \/ ~warm => owedFor = 0
  /\ worker \in {"none", "begin", "infer", "handle"} => owedFor = 0
  /\ worker = "snapshot" => due
  /\ sinceInference < Interval => Opening \/ owedFor <= sinceInference
  /\ worker = "report" /\ ~due => owedFor + wait <= ScoreBound
  /\ worker = "sleep" => owedFor + wait <= ScoreBound
  /\ owedFor <= ScoreBound

(* The worker is begun once. *)
OverAfterBegin == worker = "over" => main \in {"timer", "run"} \cup WayDown

ClockInv ==
  /\ DataTypes /\ ClockTypes /\ HitsOpen
  /\ SilenceSeenInTime /\ OwedInTime
  /\ OverAfterBegin

LEMMA ConstantsAre ==
  /\ Interval \in Nat \ {0} /\ Timeout \in Nat \ {0}
  /\ MaxSleep \in Nat \ {0} /\ Consecutive \in Nat \ {0}
  /\ NoticeBound = Timeout + MaxSleep /\ ScoreBound = Interval + MaxSleep
BY ListenerAssumption DEF NoticeBound, ScoreBound

(* A counter that goes up by one and stops at its bound. *)
LEMMA CountsUp ==
  ASSUME NEW bound \in Nat, NEW n \in 0..bound
  PROVE  /\ UpTo(bound, n + 1) \in 0..bound
         /\ n < bound => UpTo(bound, n + 1) = n + 1
         /\ n = bound => UpTo(bound, n + 1) = bound
BY DEF UpTo, Smaller

(* A tick moves one from the sleep that is left to what has been counted.  *)
LEMMA SumKept ==
  ASSUME NEW bound \in Int, NEW n \in Int, NEW left \in Int,
         NEW m \in Int, NEW rest \in Int,
         m <= n + 1, rest = left - 1, n + left <= bound
  PROVE  m + rest <= bound
OBVIOUS

LEMMA OneMore ==
  ASSUME NEW bound \in Int, NEW n \in Int, NEW m \in Int,
         NEW a \in Int, NEW b \in Int,
         m <= n + 1, b = a + 1, n <= bound + a
  PROVE  m <= bound + b
OBVIOUS

LEMMA Below ==
  ASSUME NEW bound \in Int, NEW n \in Int, NEW left \in Int,
         n + left <= bound, left >= 0
  PROVE  n <= bound
OBVIOUS

LEMMA WaitsAnInterval ==
  ASSUME NEW interval \in Int, NEW cap \in Int, NEW n \in Int, NEW left \in Int,
         n <= interval, left <= cap
  PROVE  n + left <= interval + cap
OBVIOUS

(* Zero is within every bound. *)
LEMMA NothingExceeds ==
  ASSUME NEW n, NEW bound \in Nat, NEW a \in Nat, n = 0
  PROVE  n <= bound /\ n <= bound + a
OBVIOUS

LEMMA InitClockInv == Init => ClockInv
<1> SUFFICES ASSUME Init PROVE ClockInv
  OBVIOUS
<1> USE ConstantsAre
<1>1. DataTypes /\ ClockTypes
  <2>1. DataTypes
    BY DEF Init, DataTypes
  <2>2. ClockTypes
    BY DEF Init, ClockTypes
  <2> QED
    BY <2>1, <2>2
<1>2. HitsOpen /\ SilenceSeenInTime
  BY DEF Init, HitsOpen, SilenceSeenInTime
<1>3. OwedInTime
  BY DEF Init, OwedInTime, Opening
<1>4. OverAfterBegin
  BY DEF Init, OverAfterBegin
<1> QED
  BY <1>1, <1>2, <1>3, <1>4 DEF ClockInv

-----------------------------------------------------------------------------
(* The steps of main and of the threads around the worker. *)

LEMMA QuietClock ==
  ASSUME ClockInv,
         UNCHANGED <<worker, unscored, warm, due, owed, fresh, verdict, hits,
                     sinceSamples, sinceInference, wait, silence, idle, owedFor>>,
         owned' \subseteq {"model", "loop", "ring", "stream", "capture"},
         running' \in BOOLEAN, quit' \in BOOLEAN, OverAfterBegin'
  PROVE  ClockInv'
<1>1. DataTypes'
  BY DEF ClockInv, DataTypes
<1>2. ClockTypes'
  BY DEF ClockInv, ClockTypes
<1>3. HitsOpen'
  BY DEF ClockInv, HitsOpen
<1>4. SilenceSeenInTime'
  BY DEF ClockInv, SilenceSeenInTime, Watching
<1>5. OwedInTime'
  BY DEF ClockInv, OwedInTime, Opening
<1> QED
  BY <1>1, <1>2, <1>3, <1>4, <1>5 DEF ClockInv

LEMMA MainMovesClock ==
  ASSUME IInv, ClockInv,
         \/ Launch \/ ReturnEarly \/ ModelLoaded \/ StepFails \/ LoopEnds \/ Stop
         \/ JoinWorker \/ JoinTimer \/ EndRing \/ EndLoop \/ QuitFromLoop \/ TimerFires
  PROVE  ClockInv'
<1>1. UNCHANGED <<worker, unscored, warm, due, owed, fresh, verdict, hits,
                  sinceSamples, sinceInference, wait, silence, idle, owedFor>>
  BY DEF Launch, ReturnEarly, ModelLoaded, StepFails, LoopEnds, Stop, JoinWorker,
         JoinTimer, EndRing, EndLoop, QuitFromLoop, TimerFires, captureVars, workerVars
<1>2. /\ owned' \subseteq {"model", "loop", "ring", "stream", "capture"}
      /\ running' \in BOOLEAN /\ quit' \in BOOLEAN
  <2>1. /\ owned \subseteq {"model", "loop", "ring", "stream", "capture"}
        /\ running \in BOOLEAN /\ quit \in BOOLEAN
    BY DEF ClockInv, DataTypes
  <2> QED
    BY <2>1 DEF Launch, ReturnEarly, ModelLoaded, StepFails, LoopEnds, Stop, JoinWorker,
         JoinTimer, EndRing, EndLoop, QuitFromLoop, TimerFires
<1>3. OverAfterBegin'
  <2>1. CASE StepFails
    <3>1. main \in {"loop", "ring", "stream", "connect", "worker", "timer"}
          /\ main' = OnFailure[main]
      BY <2>1, WayUpIs DEF StepFails
    <3>2. main' \in WayDown
      BY <3>1, FailureIs DEF WayDown
    <3> QED
      BY <1>1, <3>2 DEF OverAfterBegin
  <2>2. CASE TimerFires
    BY <2>2, <1>1 DEF TimerFires, ClockInv, OverAfterBegin
  <2>3. CASE Launch \/ ReturnEarly \/ ModelLoaded
    BY <2>3, <1>1 DEF Launch, ReturnEarly, ModelLoaded, ClockInv, OverAfterBegin, WayDown
  <2>4. CASE LoopEnds \/ Stop \/ JoinWorker \/ JoinTimer \/ EndRing \/ EndLoop \/ QuitFromLoop
    <3>1. main' \in {"run"} \cup WayDown
      BY <2>4 DEF LoopEnds, Stop, JoinWorker, JoinTimer, EndRing, EndLoop, QuitFromLoop, WayDown
    <3> QED
      BY <1>1, <3>1 DEF OverAfterBegin
  <2> QED
    BY <2>1, <2>2, <2>3, <2>4
<1> QED
  BY <1>1, <1>2, <1>3, QuietClock

LEMMA StepUpClock == IInv /\ ClockInv /\ StepUp => ClockInv'
<1> SUFFICES ASSUME IInv, ClockInv, StepUp PROVE ClockInv'
  OBVIOUS
<1>1. /\ main \in {"loop", "ring", "stream", "connect", "worker", "timer"}
      /\ main' = AfterStep[main] /\ owned' = owned \cup Creates[main]
      /\ worker' = IF main = "worker" THEN "begin" ELSE worker
      /\ UNCHANGED <<unscored, warm, due, owed, fresh, verdict, hits, running, quit,
                     sinceSamples, sinceInference, wait, silence, idle, owedFor>>
  BY WayUpIs DEF StepUp, captureVars
<1>2. /\ owned' \subseteq {"model", "loop", "ring", "stream", "capture"}
      /\ running' \in BOOLEAN /\ quit' \in BOOLEAN
  <2>1. Creates[main] \subseteq {"loop", "ring", "stream", "capture"}
    BY <1>1 DEF Creates
  <2> QED
    BY <1>1, <2>1 DEF ClockInv, DataTypes
<1>3. CASE main = "worker"
  <2>1. worker = "none" /\ worker' = "begin"
    BY <1>1, <1>3 DEF IInv, ThreadsJoined, ControlTypes, Workers, ClockInv,
                      OverAfterBegin, WayDown
  <2>2. DataTypes' /\ ClockTypes' /\ HitsOpen'
    BY <1>1, <1>2, <2>1 DEF ClockInv, DataTypes, ClockTypes, HitsOpen
  <2>3. SilenceSeenInTime'
    BY <1>1, <2>1 DEF ClockInv, SilenceSeenInTime
  <2>4. OwedInTime'
    BY <1>1, <2>1 DEF ClockInv, OwedInTime, Opening
  <2> QED
    BY <2>1, <2>2, <2>3, <2>4 DEF ClockInv, OverAfterBegin
<1>4. CASE main # "worker"
  <2>1. worker' = worker
    BY <1>1, <1>4
  <2>2. OverAfterBegin'
    <3>1. main = "timer" => main' = "run"
      BY <1>1 DEF AfterStep
    <3>2. worker = "over" => main = "timer"
      BY <1>1 DEF ClockInv, OverAfterBegin, WayDown
    <3> QED
      BY <2>1, <3>1, <3>2 DEF OverAfterBegin
  <2> QED
    BY <1>1, <1>2, <2>1, <2>2, QuietClock
<1> QED
  BY <1>3, <1>4

LEMMA GoneClock ==
  ASSUME NEW status, Gone(status)
  PROVE  ClockInv'
<1> USE ConstantsAre
<1>1. DataTypes' /\ ClockTypes'
  <2>1. DataTypes'
    BY DEF Gone, DataTypes
  <2>2. ClockTypes'
    BY DEF Gone, ClockTypes
  <2> QED
    BY <2>1, <2>2
<1>2. HitsOpen' /\ SilenceSeenInTime'
  BY DEF Gone, HitsOpen, SilenceSeenInTime
<1>3. OwedInTime' /\ OverAfterBegin'
  BY DEF Gone, OwedInTime, Opening, OverAfterBegin
<1> QED
  BY <1>1, <1>2, <1>3 DEF ClockInv

LEMMA SampleClock == ClockInv /\ Sample => ClockInv'
<1> SUFFICES ASSUME ClockInv, Sample PROVE ClockInv'
  OBVIOUS
<1> USE ConstantsAre
<1>1. /\ fresh' = TRUE /\ unscored' = TRUE /\ warm' \in {TRUE, warm}
      /\ silence' = 0 /\ idle' = 0 /\ owed' = TRUE
      /\ UNCHANGED <<worker, due, verdict, hits, sinceSamples, sinceInference, wait,
                     owedFor, main, owned, running, quit>>
  BY DEF Sample, mainVars, workerVars
<1>2. DataTypes' /\ ClockTypes' /\ HitsOpen'
  <2>1. DataTypes'
    BY <1>1 DEF ClockInv, DataTypes
  <2>2. ClockTypes'
    BY <1>1 DEF ClockInv, ClockTypes
  <2>3. HitsOpen'
    BY <1>1 DEF ClockInv, HitsOpen
  <2> QED
    BY <2>1, <2>2, <2>3
<1>3. SilenceSeenInTime'
  BY <1>1 DEF ClockInv, SilenceSeenInTime, ClockTypes
<1>4. OwedInTime'
  BY <1>1 DEF ClockInv, OwedInTime, Opening, DataTypes
<1> QED
  BY <1>1, <1>2, <1>3, <1>4 DEF ClockInv, OverAfterBegin

(* A tick of the worker's sleep, or of an inference or a handler. *)
LEMMA TickClock == ClockInv /\ Tick => ClockInv'
<1> SUFFICES ASSUME ClockInv, Tick PROVE ClockInv'
  OBVIOUS
<1>1. /\ UNCHANGED <<main, owned, running, quit, fresh, unscored, warm, owed,
                     worker, verdict, due, hits>>
      /\ sinceSamples' = UpTo(Timeout, sinceSamples + 1)
      /\ sinceInference' = UpTo(Interval, sinceInference + 1)
      /\ silence' = UpTo(Timeout, silence + 1)
  BY DEF Tick, mainVars
<1>2. ClockTypes
  BY DEF ClockInv
<1>3. /\ sinceSamples' \in 0..Timeout /\ silence' \in 0..Timeout
      /\ sinceInference' \in 0..Interval
      /\ sinceSamples < Timeout => sinceSamples' = sinceSamples + 1
      /\ silence < Timeout => silence' = silence + 1
      /\ silence = Timeout => silence' = Timeout
      /\ sinceInference < Interval => sinceInference' = sinceInference + 1
      /\ sinceInference = Interval => sinceInference' = Interval
  BY <1>1, <1>2, CountsUp, ConstantsAre DEF ClockTypes
<1>4. silence >= sinceSamples => silence' >= sinceSamples'
  <2>1. PICK t \in Nat, s \in Nat, c \in Nat : t = Timeout /\ s = silence /\ c = sinceSamples
    BY <1>2, ConstantsAre DEF ClockTypes
  <2>2. s <= t /\ c <= t
    BY <2>1, <1>2 DEF ClockTypes
  <2>3. silence' = (IF t < s + 1 THEN t ELSE s + 1) /\ sinceSamples' = (IF t < c + 1 THEN t ELSE c + 1)
    BY <1>1, <2>1 DEF UpTo, Smaller
  <2>4. s >= c => (IF t < s + 1 THEN t ELSE s + 1) >= (IF t < c + 1 THEN t ELSE c + 1)
    BY <2>2
  <2> QED
    BY <2>1, <2>3, <2>4
<1>5. CASE Asleep
  <2>1. worker = "sleep" /\ wait > 0 /\ wait' = wait - 1
    BY <1>5 DEF Tick, Asleep
  <2>2. idle' \in 0..(NoticeBound + 1) /\ idle' <= idle + 1
    <3>1. idle' = UpTo(NoticeBound + 1, idle + 1) /\ NoticeBound + 1 \in Nat
      BY <1>5, ConstantsAre DEF Tick
    <3> QED
      BY <3>1, <1>2 DEF ClockTypes, UpTo, Smaller
  <2>3. /\ owedFor' \in 0..(ScoreBound + 1) /\ owedFor' <= owedFor + 1
        /\ ~owed \/ ~warm => owedFor' = owedFor
    <3>1. /\ owedFor' = IF owed /\ warm THEN UpTo(ScoreBound + 1, owedFor + 1) ELSE owedFor
          /\ ScoreBound + 1 \in Nat
      BY <1>5, ConstantsAre DEF Tick
    <3> QED
      BY <3>1, <1>2 DEF ClockTypes, UpTo, Smaller
  <2>4. DataTypes' /\ ClockTypes' /\ HitsOpen'
    <3>1. DataTypes'
      BY <1>1 DEF ClockInv, DataTypes
    <3>2. ClockTypes'
      BY <1>2, <1>3, <2>1, <2>2, <2>3, ConstantsAre DEF ClockTypes
    <3>3. HitsOpen'
      BY <1>1 DEF ClockInv, HitsOpen
    <3> QED
      BY <3>1, <3>2, <3>3
  <2>0. /\ wait \in Int /\ wait' \in Int /\ idle \in Int /\ idle' \in Int
        /\ owedFor \in Int /\ owedFor' \in Int /\ ScoreBound \in Int
        /\ sinceSamples \in Int /\ sinceSamples' \in Int
        /\ MaxSleep \in Int /\ Timeout \in Int
    BY <1>2, <2>4, ConstantsAre DEF ClockTypes
  <2>t. MaxSleep \in Int /\ idle \in Int /\ wait \in Int /\ idle' \in Int /\ wait' \in Int
    BY <2>0
  <2>s. /\ Timeout \in Int /\ sinceSamples \in Int /\ wait \in Int
        /\ sinceSamples' \in Int /\ wait' \in Int
    BY <2>0
  <2>u. /\ ScoreBound \in Int /\ owedFor \in Int /\ wait \in Int
        /\ owedFor' \in Int /\ wait' \in Int
    BY <2>0
  <2>w. wait' = wait - 1
    BY <2>1
  <2>i. idle' <= idle + 1
    BY <2>2
  <2>o. owedFor' <= owedFor + 1
    BY <2>3
  <2>5. SilenceSeenInTime'
    <3>1. ~fresh => silence' >= sinceSamples' /\ (verdict = "unhealthy" => silence' >= Timeout)
      BY <1>2, <1>3, <1>4, ConstantsAre DEF ClockInv, SilenceSeenInTime, ClockTypes
    <3>2. CASE fresh
      <4>1. idle + wait <= MaxSleep
        BY <2>1, <3>2 DEF ClockInv, SilenceSeenInTime
      <4>2. idle' + wait' <= MaxSleep
        BY <4>1, <2>t, <2>w, <2>i, SumKept
      <4> QED
        BY <1>1, <2>1, <3>1, <3>2, <4>2 DEF SilenceSeenInTime
    <3>3. CASE ~fresh
      <4>1. Watching
        BY <2>1, <3>3 DEF ClockInv, SilenceSeenInTime
      <4>2. Watching'
        <5>1. ASSUME idle + wait <= MaxSleep PROVE idle' + wait' <= MaxSleep
          BY <5>1, <2>t, <2>w, <2>i, SumKept
        <5>2. ASSUME sinceSamples + wait <= Timeout, idle <= MaxSleep + sinceSamples
              PROVE  sinceSamples' + wait' <= Timeout /\ idle' <= MaxSleep + sinceSamples'
          <6>1. wait >= 1 /\ sinceSamples <= Timeout - 1
            BY <5>2, <2>0, <2>1
          <6>2. sinceSamples' = sinceSamples + 1
            BY <6>1, <2>0, <1>3
          <6>5. sinceSamples' <= sinceSamples + 1
            BY <6>2, <2>0
          <6>6. sinceSamples + wait <= Timeout
            BY <5>2
          <6>3. sinceSamples' + wait' <= Timeout
            BY <6>5, <6>6, <2>s, <2>w, SumKept
          <6>4. idle' <= MaxSleep + sinceSamples'
            BY <5>2, <6>2, <2>0, <2>i, OneMore
          <6> QED
            BY <6>3, <6>4
        <5> QED
          BY <4>1, <5>1, <5>2, <1>1 DEF Watching
      <4> QED
        BY <1>1, <2>1, <3>1, <3>3, <4>2 DEF SilenceSeenInTime
    <3> QED
      BY <3>2, <3>3
  <2>6. OwedInTime'
    <3>1. /\ owed => unscored
          /\ ~owed \/ ~warm => owedFor = 0
          /\ sinceInference < Interval => owedFor <= sinceInference
          /\ owedFor + wait <= ScoreBound
      BY <2>1 DEF ClockInv, OwedInTime, Opening
    <3>2. owedFor' + wait' <= ScoreBound /\ owedFor' <= ScoreBound
      <4>1. owedFor' + wait' <= ScoreBound
        <5>1. owedFor + wait <= ScoreBound
          BY <3>1
        <5> QED
          BY <5>1, <2>u, <2>w, <2>o, SumKept, ZenonT(60)
      <4>2. wait' >= 0
        BY <2>0, <2>1
      <4> QED
        BY <4>1, <4>2, <2>0, Below
    <3>3. sinceInference' < Interval => owedFor' <= sinceInference'
      BY <3>1, <1>2, <1>3, <2>3, ConstantsAre DEF ClockTypes
    <3> QED
      BY <1>1, <2>1, <2>3, <3>1, <3>2, <3>3 DEF OwedInTime
  <2> QED
    BY <1>1, <2>4, <2>5, <2>6 DEF ClockInv, OverAfterBegin
<1>6. CASE ~Asleep
  <2>1. worker \in {"infer", "handle"} /\ wait' = wait /\ idle' = 0 /\ owedFor' = owedFor
    BY <1>6 DEF Tick, Busy
  <2>2. DataTypes' /\ ClockTypes' /\ HitsOpen'
    <3>1. DataTypes'
      BY <1>1 DEF ClockInv, DataTypes
    <3>2. ClockTypes'
      BY <1>2, <1>3, <2>1, ConstantsAre DEF ClockTypes
    <3>3. HitsOpen'
      BY <1>1 DEF ClockInv, HitsOpen
    <3> QED
      BY <3>1, <3>2, <3>3
  <2>3. SilenceSeenInTime'
    <3>1. ~fresh => silence' >= sinceSamples' /\ (verdict = "unhealthy" => silence' >= Timeout)
      BY <1>2, <1>3, <1>4, ConstantsAre DEF ClockInv, SilenceSeenInTime, ClockTypes
    <3> QED
      BY <1>1, <2>1, <3>1 DEF SilenceSeenInTime
  <2>4. OwedInTime'
    <3>1. owedFor = 0 /\ (owed => unscored) /\ sinceInference' >= 0 /\ ScoreBound >= 0
      BY <1>3, <2>1, ConstantsAre DEF ClockInv, OwedInTime, Opening
    <3> QED
      BY <1>1, <2>1, <3>1 DEF OwedInTime
  <2> QED
    BY <1>1, <2>2, <2>3, <2>4 DEF ClockInv, OverAfterBegin
<1> QED
  BY <1>5, <1>6

-----------------------------------------------------------------------------
(* The steps of the worker. *)

(* How long the worker sleeps after a poll. *)
LEMMA SleepFits ==
  ASSUME NEW seen \in 0..Timeout, NEW judged
  PROVE  /\ SleepTime(seen, judged) \in 0..MaxSleep
         /\ judged # "unhealthy" /\ seen < Timeout => seen + SleepTime(seen, judged) <= Timeout
<1> USE ConstantsAre
<1>1. Smaller(Interval, Timeout - seen) \in Int /\ Smaller(Interval, Timeout - seen) <= Timeout - seen
  BY DEF Smaller
<1>2. DEFINE health == IF judged = "unhealthy" THEN Interval ELSE Smaller(Interval, Timeout - seen)
<1>3. health \in Int
  BY <1>1
<1>4. SleepTime(seen, judged) = IF health < 1 THEN 1 ELSE Smaller(MaxSleep, health)
  BY DEF SleepTime
<1>5. SleepTime(seen, judged) \in 0..MaxSleep
  BY <1>3, <1>4 DEF Smaller
<1>6. ASSUME judged # "unhealthy", seen < Timeout
      PROVE  seen + SleepTime(seen, judged) <= Timeout
  <2>1. health <= Timeout - seen
    BY <1>1, <1>6
  <2> QED
    BY <1>3, <1>4, <1>6, <2>1 DEF Smaller
<1> QED
  BY <1>5, <1>6

LEMMA WorkerMovesClock ==
  ASSUME IInv, ClockInv, WorkerBegins \/ WorkerGivesUp \/ WorkerEnds \/ WakeUp
  PROVE  ClockInv'
<1> USE ConstantsAre
<1>1. /\ UNCHANGED <<main, owned, unscored, warm, due, owed, fresh, verdict, hits,
                     sinceInference, wait, silence, idle, owedFor>>
      /\ running' \in {running, FALSE} /\ quit' \in {quit, TRUE}
  BY DEF WorkerBegins, WorkerGivesUp, WorkerEnds, WakeUp, mainVars, captureVars
<1>2. /\ worker \in {"begin", "poll", "sleep"} /\ worker' \in {"poll", "over"}
      /\ sinceSamples' \in {0, sinceSamples}
  BY DEF WorkerBegins, WorkerGivesUp, WorkerEnds, WakeUp
<1>3. DataTypes'
  BY <1>1 DEF ClockInv, DataTypes
<1>4. ClockTypes'
  <2>1. sinceSamples' \in 0..Timeout
    BY <1>2 DEF ClockInv, ClockTypes
  <2> QED
    BY <1>1, <2>1 DEF ClockInv, ClockTypes
<1>5. HitsOpen'
  BY <1>1, <1>2 DEF ClockInv, HitsOpen
<1>6. OwedInTime'
  BY <1>1, <1>2 DEF ClockInv, OwedInTime, Opening, ClockTypes
<1>7. OverAfterBegin'
  BY <1>1, <1>2 DEF IInv, ThreadsJoined, OverAfterBegin, WayDown
<1>8. SilenceSeenInTime'
  <2>1. ~fresh => silence >= sinceSamples' /\ (verdict = "unhealthy" => silence >= Timeout)
    BY <1>2 DEF ClockInv, SilenceSeenInTime, ClockTypes
  <2>2. CASE worker' = "over"
    BY <1>1, <2>1, <2>2 DEF SilenceSeenInTime
  <2>3. CASE worker' = "poll" /\ worker = "begin"
    <3>1. idle = 0 /\ sinceSamples' \in 0..Timeout
      BY <2>3, <1>4 DEF ClockInv, SilenceSeenInTime, ClockTypes
    <3>2. idle' = 0 /\ MaxSleep \in Nat /\ sinceSamples' \in Nat
      BY <1>1, <3>1
    <3> QED
      <4>1. idle' = 0 /\ idle' <= MaxSleep /\ idle' <= MaxSleep + sinceSamples'
        BY <3>2, NothingExceeds
      <4>2. /\ ~fresh' => silence' >= sinceSamples'
            /\ ~fresh' /\ verdict' = "unhealthy" => silence' >= Timeout
        BY <1>1, <2>1
      <4> HIDE ConstantsAre
      <4> QED
        BY <2>3, <4>1, <4>2 DEF SilenceSeenInTime
  <2>4. CASE worker' = "poll" /\ worker # "begin"
    <3>1. worker = "sleep" /\ wait = 0 /\ sinceSamples' = sinceSamples
      BY <2>4 DEF WorkerBegins, WorkerGivesUp, WorkerEnds, WakeUp
    <3>2. idle \in Int /\ sinceSamples >= 0 /\ sinceSamples \in Int
      BY DEF ClockInv, ClockTypes
    <3>3. fresh => idle <= MaxSleep
      BY <3>1, <3>2 DEF ClockInv, SilenceSeenInTime
    <3>4. ~fresh => verdict = "unhealthy" \/ idle <= MaxSleep + sinceSamples
      BY <3>1, <3>2 DEF ClockInv, SilenceSeenInTime, Watching
    <3> QED
      BY <1>1, <2>1, <2>4, <3>1, <3>3, <3>4 DEF SilenceSeenInTime
  <2> QED
    BY <1>2, <2>2, <2>3, <2>4
<1> QED
  BY <1>3, <1>4, <1>5, <1>6, <1>7, <1>8 DEF ClockInv

LEMMA PollClock == ClockInv /\ Poll => ClockInv'
<1> SUFFICES ASSUME ClockInv, Poll PROVE ClockInv'
  OBVIOUS
<1> USE ConstantsAre
<1>1. /\ worker = "poll" /\ fresh' = FALSE /\ sinceSamples' = SilenceSeen
      /\ verdict' = Judged /\ due' = InferenceDue
      /\ unscored' = (unscored /\ ~InferenceDue)
      /\ sinceInference' = IF InferenceDue THEN 0 ELSE sinceInference
      /\ wait' = SleepTime(SilenceSeen, Judged)
      /\ worker' = IF Judged # verdict THEN "report"
                   ELSE IF InferenceDue THEN "snapshot" ELSE "sleep"
      /\ UNCHANGED <<main, owned, running, quit, warm, silence, idle, owed, owedFor, hits>>
  BY DEF Poll, mainVars
<1>2. ClockTypes
  BY DEF ClockInv
<1>3. SilenceSeen \in 0..Timeout
  BY <1>2 DEF ClockTypes, SilenceSeen
<1>4. wait' \in 0..MaxSleep
  BY <1>1, <1>3, SleepFits
<1>5. DataTypes'
  BY <1>1 DEF ClockInv, DataTypes, InferenceDue
<1>6. ClockTypes'
  <2>1. sinceInference' \in 0..Interval
    BY <1>1, <1>2 DEF ClockTypes
  <2> QED
    BY <1>1, <1>2, <1>3, <1>4, <2>1 DEF ClockTypes
<1>7. HitsOpen'
  BY <1>1 DEF ClockInv, HitsOpen
<1>8. SilenceSeenInTime'
  <2>1. silence' >= sinceSamples'
    BY <1>1, <1>2 DEF ClockInv, SilenceSeenInTime, SilenceSeen, ClockTypes
  <2>2. verdict' = "unhealthy" => silence' >= Timeout
    <3>1. CASE fresh
      BY <1>1, <3>1 DEF Judged
    <3>2. CASE ~fresh /\ verdict # "unhealthy"
      BY <1>1, <1>2, <2>1, <3>2 DEF Judged, ClockTypes, SilenceSeen
    <3>3. CASE ~fresh /\ verdict = "unhealthy"
      BY <1>1, <3>3 DEF ClockInv, SilenceSeenInTime
    <3> QED
      BY <3>1, <3>2, <3>3
  <2>3. Watching'
    <3>1. CASE Judged = "unhealthy"
      BY <1>1, <3>1 DEF Watching
    <3>2. CASE Judged # "unhealthy"
      <4>1. SilenceSeen < Timeout
        BY <1>3, <3>2 DEF Judged, SilenceSeen
      <4>2. SilenceSeen + SleepTime(SilenceSeen, Judged) <= Timeout
        BY <1>3, <3>2, <4>1, SleepFits
      <4>3. idle <= MaxSleep + SilenceSeen
        <5>1. CASE fresh
          BY <1>1, <1>2, <5>1 DEF ClockInv, SilenceSeenInTime, SilenceSeen, ClockTypes
        <5>2. CASE ~fresh
          <6>1. verdict # "unhealthy"
            BY <3>2, <5>2 DEF Judged
          <6> QED
            BY <1>1, <5>2, <6>1 DEF ClockInv, SilenceSeenInTime, SilenceSeen
        <5> QED
          BY <5>1, <5>2
      <4> QED
        BY <1>1, <4>2, <4>3 DEF Watching
    <3> QED
      BY <3>1, <3>2
  <2> QED
    BY <1>1, <2>1, <2>2, <2>3 DEF SilenceSeenInTime
<1>9. OwedInTime'
  <2>1. /\ owed => unscored
        /\ ~owed \/ ~warm => owedFor = 0
        /\ sinceInference < Interval => owedFor <= sinceInference
        /\ owedFor <= ScoreBound
    BY <1>1 DEF ClockInv, OwedInTime, Opening
  <2>2. CASE InferenceDue
    <3>1. Judged # verdict => worker' = "report"
      BY <1>1
    <3>2. worker' \in {"report", "snapshot"} /\ due'
      BY <1>1, <2>2
    <3> QED
      BY <1>1, <2>1, <3>2 DEF OwedInTime, Opening
  <2>3. CASE ~InferenceDue
    <3>1. worker' \in {"report", "sleep"} /\ ~due' /\ sinceInference' = sinceInference
      BY <1>1, <2>3
    <3>2. owedFor + wait' <= ScoreBound
      <4>0. /\ Interval \in Int /\ MaxSleep \in Int /\ owedFor \in Int /\ wait' \in Int
            /\ wait' <= MaxSleep /\ Interval >= 0 /\ ScoreBound = Interval + MaxSleep
        BY <1>2, <1>4 DEF ClockTypes
      <4>1. CASE ~owed \/ ~warm
        <5>1. owedFor <= Interval
          <6>1. owedFor = 0
            BY <2>1, <4>1
          <6> QED
            BY <4>0, <6>1
        <5> QED
          BY <4>0, <5>1, WaitsAnInterval
      <4>2. CASE owed /\ warm
        <5>1. sinceInference < Interval
          BY <1>2, <2>1, <2>3, <4>2 DEF InferenceDue, ClockTypes
        <5>2. owedFor <= sinceInference
          BY <2>1, <5>1
        <5>3. owedFor <= Interval
          BY <1>2, <5>1, <5>2 DEF ClockTypes
        <5> QED
          BY <4>0, <5>3, WaitsAnInterval
      <4> QED
        BY <4>1, <4>2
    <3> QED
      BY <1>1, <2>1, <2>3, <3>1, <3>2 DEF OwedInTime
  <2> QED
    BY <2>2, <2>3
<1> QED
  BY <1>1, <1>5, <1>6, <1>7, <1>8, <1>9 DEF ClockInv, OverAfterBegin

(* Back to sleep, or on to the next thing, from where the worker is awake. *)
LEMMA AwakeClock ==
  ASSUME ClockInv,
         worker \in {"report", "snapshot", "infer", "handle"},
         worker' \in {"snapshot", "infer", "handle", "sleep"},
         UNCHANGED <<main, owned, running, quit, unscored, warm, due, fresh, verdict,
                     sinceSamples, sinceInference, wait, silence, idle>>,
         HitsOpen', OwedInTime',
         owed' \in {owed, FALSE}, owedFor' \in {owedFor, 0}
  PROVE  ClockInv'
<1> USE ConstantsAre
<1>1. DataTypes' /\ ClockTypes'
  <2>1. DataTypes'
    BY DEF ClockInv, DataTypes
  <2>2. owedFor' \in 0..(ScoreBound + 1)
    BY DEF ClockInv, ClockTypes
  <2>3. ClockTypes'
    BY <2>2 DEF ClockInv, ClockTypes
  <2> QED
    BY <2>1, <2>3
<1>2. SilenceSeenInTime'
  <2>1. idle = 0 => idle + wait <= MaxSleep
    BY DEF ClockInv, ClockTypes
  <2> QED
    BY <2>1 DEF ClockInv, SilenceSeenInTime, Watching
<1> QED
  BY <1>1, <1>2 DEF ClockInv, OverAfterBegin

LEMMA AwakeStepsClock ==
  ASSUME ClockInv, ReportHealth \/ TakeSnapshot \/ Infer \/ HandlerReturns
  PROVE  ClockInv'
<1> USE ConstantsAre
<1>1. /\ UNCHANGED <<main, owned, running, quit, unscored, warm, due, fresh, verdict,
                     sinceSamples, sinceInference, wait, silence, idle>>
      /\ worker \in {"report", "snapshot", "infer", "handle"}
      /\ worker' \in {"snapshot", "infer", "handle", "sleep"}
      /\ owed' \in {owed, FALSE} /\ owedFor' \in {owedFor, 0}
  BY DEF ReportHealth, TakeSnapshot, Infer, HandlerReturns, mainVars, captureVars
<1>2. HitsOpen'
  <2>1. CASE ReportHealth \/ TakeSnapshot
    BY <2>1 DEF ReportHealth, TakeSnapshot, ClockInv, HitsOpen
  <2>2. CASE HandlerReturns
    BY <2>2 DEF HandlerReturns, HitsOpen
  <2>3. CASE Infer
    <3>1. hits \in Nat /\ hits < Consecutive
      BY <2>3 DEF Infer, ClockInv, HitsOpen
    <3>2. PICK outcome \in Outcomes :
            /\ hits' = Hits(outcome)
            /\ worker' = IF outcome # "failed" /\ Hits(outcome) >= Consecutive
                         THEN "handle" ELSE "sleep"
      BY <2>3 DEF Infer
    <3>3. Hits(outcome) \in {0, hits, hits + 1} /\ (outcome = "failed" => Hits(outcome) = hits)
      BY <3>2 DEF Hits, Outcomes
    <3> QED
      BY <3>1, <3>2, <3>3 DEF HitsOpen
  <2> QED
    BY <2>1, <2>2, <2>3
<1>3. OwedInTime'
  <2>1. CASE ReportHealth
    <3>1. worker = "report" /\ worker' = (IF due THEN "snapshot" ELSE "sleep")
          /\ UNCHANGED <<owed, owedFor>>
      BY <2>1 DEF ReportHealth, captureVars
    <3> QED
      BY <1>1, <3>1 DEF ClockInv, OwedInTime, Opening
  <2>2. CASE TakeSnapshot
    <3>1. worker' = "infer" /\ owed' = FALSE /\ owedFor' = 0
      BY <2>2 DEF TakeSnapshot
    <3> QED
      BY <1>1, <3>1 DEF OwedInTime, ClockInv, ClockTypes
  <2>3. CASE Infer \/ HandlerReturns
    <3>1. worker \in {"infer", "handle"} /\ worker' \in {"handle", "sleep"}
          /\ UNCHANGED <<owed, owedFor>>
      BY <2>3 DEF Infer, HandlerReturns, captureVars
    <3>2. owedFor = 0 /\ (owed => unscored)
      BY <3>1 DEF ClockInv, OwedInTime, Opening
    <3>3. owedFor + wait <= ScoreBound /\ sinceInference >= 0
      BY <3>2 DEF ClockInv, ClockTypes
    <3> QED
      BY <1>1, <3>1, <3>2, <3>3 DEF OwedInTime
  <2> QED
    BY <2>1, <2>2, <2>3
<1> QED
  BY <1>1, <1>2, <1>3, AwakeClock

-----------------------------------------------------------------------------
LEMMA NextClock == IInv /\ ClockInv /\ [Next]_vars => ClockInv'
<1> SUFFICES ASSUME IInv, ClockInv, [Next]_vars PROVE ClockInv'
  OBVIOUS
<1>1. CASE MainStep
  <2>1. CASE ClearStatus
    BY <2>1, GoneClock DEF ClearStatus
  <2> QED
    BY <1>1, <2>1, StepUpClock, MainMovesClock DEF MainStep
<1>2. CASE WorkerStep
  BY <1>2, WorkerMovesClock, PollClock, AwakeStepsClock DEF WorkerStep, WorkerGoesOn
<1>3. CASE Die
  BY <1>3, GoneClock DEF Die
<1>4. CASE Launch \/ QuitFromLoop \/ TimerFires
  BY <1>4, MainMovesClock
<1>5. CASE UNCHANGED vars
  <2>1. UNCHANGED <<worker, unscored, warm, due, owed, fresh, verdict, hits, main, owned,
                    running, quit, sinceSamples, sinceInference, wait, silence, idle, owedFor>>
    BY <1>5 DEF vars, mainVars, captureVars, workerVars
  <2>2. DataTypes /\ OverAfterBegin
    BY DEF ClockInv
  <2>3. /\ owned' \subseteq {"model", "loop", "ring", "stream", "capture"}
        /\ running' \in BOOLEAN /\ quit' \in BOOLEAN /\ OverAfterBegin'
    BY <2>1, <2>2 DEF DataTypes, OverAfterBegin
  <2> QED
    BY <2>1, <2>3, QuietClock
<1> QED
  BY <1>1, <1>2, <1>3, <1>4, <1>5, SampleClock, TickClock DEF Next

LEMMA ClockInvHolds == Spec => []ClockInv
<1>1. Init => IInv /\ ClockInv
  BY InitIInv, InitClockInv
<1>2. IInv /\ ClockInv /\ [Next]_vars => IInv' /\ ClockInv'
  BY NextIInv, NextClock
<1> QED
  BY <1>1, <1>2, PTL DEF Spec

(* The listener keeps its types: whatever outcomes the model gives, the    *)
(* hits stay below the number that wakes the handler until it is woken,    *)
(* and no sleep outlasts its cap.                                          *)
THEOREM ListenerTypeCorrect == Spec => []TypeOK
<1>1. IInv /\ ClockInv => TypeOK
  BY DEF IInv, ControlTypes, Stages, Workers, ClockInv, DataTypes, ClockTypes, HitsOpen, TypeOK
<1> QED
  BY <1>1, IInvHolds, ClockInvHolds, PTL

(* The worker calls the capture dead only after a timeout without samples, *)
(* and, whenever its sleeps have outlasted the timeout and one sleep more, *)
(* has called it dead, whatever the timeout and the sleep are.             *)
THEOREM DeadCaptureIsNoticed == Spec => []DeadCaptureNoticed
<1> USE ConstantsAre
<1>1. ClockInv => DeadCaptureNoticed
  <2> SUFFICES ASSUME ClockInv PROVE DeadCaptureNoticed
    OBVIOUS
  <2>1. verdict = "unhealthy" /\ ~fresh => silence >= Timeout
    BY DEF ClockInv, SilenceSeenInTime
  <2>2. ASSUME worker \in {"sleep", "snapshot"}, idle > NoticeBound
        PROVE  verdict = "unhealthy"
    <3>1. /\ idle \in Int /\ wait \in Int /\ wait >= 0
          /\ sinceSamples \in Int /\ sinceSamples <= Timeout
      BY DEF ClockInv, ClockTypes
    <3>2. idle > MaxSleep /\ idle > MaxSleep + sinceSamples /\ idle # 0 /\ ~(idle + wait <= MaxSleep)
      <4>1. NoticeBound = Timeout + MaxSleep /\ Timeout \in Nat /\ MaxSleep \in Nat
        OBVIOUS
      <4>2. idle > Timeout + MaxSleep
        BY <2>2, <4>1
      <4> QED
        BY <3>1, <4>1, <4>2
    <3>3. ~fresh /\ Watching
      <4>1. worker = "sleep" => IF fresh THEN idle + wait <= MaxSleep ELSE Watching
        BY DEF ClockInv, SilenceSeenInTime
      <4>2. worker = "snapshot" => IF fresh THEN idle = 0 ELSE idle = 0 \/ Watching
        BY DEF ClockInv, SilenceSeenInTime
      <4> QED
        BY <2>2, <3>2, <4>1, <4>2
    <3>4. ~(idle + wait <= MaxSleep) /\ ~(idle <= MaxSleep + sinceSamples)
      BY <3>1, <3>2
    <3> QED
      BY <3>3, <3>4, Zenon DEF Watching
  <2> QED
    BY <2>1, <2>2 DEF DeadCaptureNoticed
<1> QED
  BY <1>1, ClockInvHolds, PTL

(* After the first sample that the last window has not, the next window is *)
(* taken within an interval and one sleep of the worker's idle time, even  *)
(* if the sample fell into an inference or into a session of the handler,  *)
(* and even if no sample follows it.                                       *)
THEOREM WindowsKeepUp == Spec => []NewSamplesGetWindow
<1>1. ClockInv => NewSamplesGetWindow
  BY DEF ClockInv, OwedInTime, NewSamplesGetWindow
<1> QED
  BY <1>1, ClockInvHolds, PTL

===============================================================================
