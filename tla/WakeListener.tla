----------------------------- MODULE WakeListener -----------------------------
(***************************************************************************)
(* The native wake listener under its service unit: main's way up and      *)
(* down, the worker thread that infers, judges the capture and runs the    *)
(* activation handler, the duration thread, PipeWire's callbacks, and a    *)
(* crash with the restart that follows.                                    *)
(*                                                                         *)
(* The tape is module WakeRing: here a sample is there or not.  Time       *)
(* passes in ticks, while every thread that can go on without it waits.    *)
(***************************************************************************)
EXTENDS Integers

CONSTANTS
  Interval,    \* inference_interval_ms
  Timeout,     \* CAPTURE_HEALTH_TIMEOUT_SECONDS
  MaxSleep,    \* WORKER_MAX_SLEEP_SECONDS
  Consecutive  \* consecutive

ASSUME ListenerAssumption ==
  /\ Interval \in Nat \ {0} /\ Timeout \in Nat \ {0}
  /\ MaxSleep \in Nat \ {0} /\ Consecutive \in Nat \ {0}

VARIABLES
  main,      \* where main is; "down" when there is no process
  owned,     \* what main has created and not destroyed
  running,   \* data.running
  quit,      \* pw_main_loop_quit was called
  timer,     \* the duration thread: "none", "runs" or "over"
  worker,    \* where the worker thread is
  file,      \* the capture status file
  verdict,   \* capture_healthy and capture_unhealthy
  fresh,     \* total # last_health_total
  unscored,  \* total # last_total
  warm,      \* total >= MODEL_SAMPLES
  due,       \* the poll found an inference due
  hits,      \* hits
  sinceSamples,    \* now - last_samples_at, up to Timeout
  sinceInference,  \* now - last_inference, up to Interval
  wait,      \* what is left of the worker's sleep
  heard,     \* history: this process has captured a sample
  silence,   \* history: ticks since the last sample, up to Timeout
  idle,      \* history: ticks of it with the worker neither infering nor held
  owed,      \* history: a sample came after the last window was taken
  owedFor    \* history: the worker's idle ticks since then

mainVars    == <<main, owned, running, quit, timer, file>>
captureVars == <<fresh, unscored, warm, heard, silence, idle, owed, owedFor>>
workerVars  == <<worker, verdict, due, hits, sinceSamples, sinceInference, wait>>
vars == <<mainVars, captureVars, workerVars>>

Smaller(a, b) == IF a < b THEN a ELSE b
UpTo(bound, n) == Smaller(bound, n)

(* How long a dead capture, and a new sample, may go unnoticed. *)
NoticeBound == Timeout + MaxSleep
ScoreBound  == Interval + MaxSleep

Files == {"absent", "starting", "healthy", "unhealthy"}

(* What main does next when a step of its way up succeeds, and where it    *)
(* goes when the step fails.                                               *)
AfterStep == [loop    |-> "ring",     ring   |-> "stream", stream |-> "connect",
              connect |-> "worker",   worker |-> "timer",  timer  |-> "run"]
OnFailure == [loop    |-> "clear",    ring   |-> "end loop", stream |-> "end ring",
              connect |-> "stop",     worker |-> "stop",     timer  |-> "stop"]

WayUp   == DOMAIN AfterStep
WayDown == {"stop", "join worker", "join timer", "end ring", "end loop", "clear"}

(* Types; the hits never pass the number that wakes the handler. *)
TypeOK ==
  /\ main \in {"down", "model", "run"} \cup WayUp \cup WayDown
  /\ owned \subseteq {"model", "loop", "ring", "stream", "capture"}
  /\ running \in BOOLEAN /\ quit \in BOOLEAN
  /\ timer \in {"none", "runs", "over"}
  /\ worker \in {"none", "begin", "poll", "report", "snapshot", "infer",
                 "handle", "sleep", "over"}
  /\ file \in Files
  /\ verdict \in {"none", "healthy", "unhealthy"}
  /\ fresh \in BOOLEAN /\ unscored \in BOOLEAN /\ warm \in BOOLEAN
  /\ due \in BOOLEAN
  /\ hits \in 0..Consecutive
  /\ sinceSamples \in 0..Timeout /\ sinceInference \in 0..Interval
  /\ wait \in 0..MaxSleep
  /\ heard \in BOOLEAN /\ silence \in 0..Timeout
  /\ idle \in 0..(NoticeBound + 1)
  /\ owed \in BOOLEAN /\ owedFor \in 0..(ScoreBound + 1)

(* A process begins with data = {0}, and with it the worker's locals. *)
Init ==
  /\ main = "down" /\ file = "absent"
  /\ owned = {} /\ running = FALSE /\ quit = FALSE
  /\ timer = "none" /\ worker = "none"
  /\ verdict = "none" /\ due = FALSE /\ hits = 0
  /\ fresh = FALSE /\ unscored = FALSE /\ warm = FALSE
  /\ sinceSamples = 0 /\ sinceInference = Interval /\ wait = 0
  /\ heard = FALSE /\ silence = 0 /\ idle = 0
  /\ owed = FALSE /\ owedFor = 0

-----------------------------------------------------------------------------
(* main, up to the loop. *)

(* The unit starts the program: at login, by the tray, and with            *)
(* Restart=always whenever it is gone.                                     *)
Launch ==
  /\ main = "down"
  /\ main' = "model"
  /\ UNCHANGED <<owned, running, quit, timer, file, captureVars, workerVars>>

(* Options or paths that do not parse, a model that does not load, and     *)
(* --self-test: main returns before it touches the status file.            *)
ReturnEarly ==
  /\ main = "model"
  /\ main' = "down"
  /\ UNCHANGED <<owned, running, quit, timer, file, captureVars, workerVars>>

(* write_capture_status returns without a word when it cannot write. *)
WriteStatus(status) == file' \in {status, file}

ModelLoaded ==
  /\ main = "model"
  /\ main' = "loop" /\ owned' = {"model"} /\ running' = TRUE
  /\ WriteStatus("starting")
  /\ UNCHANGED <<quit, timer, captureVars, workerVars>>

Creates == [loop |-> {"loop"}, ring |-> {"ring"}, stream |-> {"stream"},
            connect |-> {"capture"}, worker |-> {}, timer |-> {}]

StepUp ==
  /\ main \in WayUp
  /\ main' = AfterStep[main]
  /\ owned' = owned \cup Creates[main]
  /\ worker' = IF main = "worker" THEN "begin" ELSE worker
  /\ timer' \in IF main = "timer" THEN {"none", "runs"} ELSE {timer}
  /\ UNCHANGED <<running, quit, file, captureVars,
                 verdict, due, hits, sinceSamples, sinceInference, wait>>

StepFails ==
  /\ main \in WayUp
  /\ main' = OnFailure[main]
  /\ UNCHANGED <<owned, running, quit, timer, file, captureVars, workerVars>>

(* What runs in the loop: quit_signal, and on_state_changed with an error. *)
QuitFromLoop ==
  /\ main = "run" /\ ~quit
  /\ running' = FALSE /\ quit' = TRUE
  /\ UNCHANGED <<main, owned, timer, file, captureVars, workerVars>>

LoopEnds ==
  /\ main = "run" /\ quit
  /\ main' = "stop"
  /\ UNCHANGED <<owned, running, quit, timer, file, captureVars, workerVars>>

-----------------------------------------------------------------------------
(* main, from out_stream to its return. *)

(* Faulty variant: only the callers of pw_main_loop_quit clear running. *)
StopStreamOnly ==
  /\ main = "stop"
  /\ main' = "join worker"
  /\ owned' = owned \ {"stream", "capture"}
  /\ UNCHANGED <<running, quit, timer, file, captureVars, workerVars>>

Stop ==
  /\ main = "stop"
  /\ main' = "join worker"
  /\ running' = FALSE
  /\ owned' = owned \ {"stream", "capture"}
  /\ UNCHANGED <<quit, timer, file, captureVars, workerVars>>

(* Faulty variant: the worker is left to find out by itself. *)
DetachWorker ==
  /\ main = "join worker"
  /\ main' = "join timer"
  /\ UNCHANGED <<owned, running, quit, timer, file, captureVars, workerVars>>

JoinWorker ==
  /\ main = "join worker" /\ worker \in {"none", "over"}
  /\ main' = "join timer"
  /\ UNCHANGED <<owned, running, quit, timer, file, captureVars, workerVars>>

JoinTimer ==
  /\ main = "join timer" /\ timer \in {"none", "over"}
  /\ main' = "end ring"
  /\ UNCHANGED <<owned, running, quit, timer, file, captureVars, workerVars>>

EndRing ==
  /\ main = "end ring"
  /\ main' = "end loop" /\ owned' = owned \ {"ring"}
  /\ UNCHANGED <<running, quit, timer, file, captureVars, workerVars>>

EndLoop ==
  /\ main = "end loop"
  /\ main' = "clear" /\ owned' = owned \ {"loop"}
  /\ UNCHANGED <<running, quit, timer, file, captureVars, workerVars>>

Gone(status) ==
  /\ main' = "down" /\ file' = status
  /\ owned' = {} /\ running' = FALSE /\ quit' = FALSE
  /\ timer' = "none" /\ worker' = "none"
  /\ verdict' = "none" /\ due' = FALSE /\ hits' = 0
  /\ fresh' = FALSE /\ unscored' = FALSE /\ warm' = FALSE
  /\ sinceSamples' = 0 /\ sinceInference' = Interval /\ wait' = 0
  /\ heard' = FALSE /\ silence' = 0 /\ idle' = 0
  /\ owed' = FALSE /\ owedFor' = 0

ClearStatus == main = "clear" /\ Gone("absent")

(* Killed or crashed: nothing of the above is done. *)
Die == main # "down" /\ Gone(file)

-----------------------------------------------------------------------------
(* PipeWire's callback, the duration thread and the clock. *)

(* on_process puts samples on the tape. *)
Sample ==
  /\ "capture" \in owned
  /\ fresh' = TRUE /\ unscored' = TRUE
  /\ warm' \in {TRUE, warm}
  /\ heard' = TRUE /\ silence' = 0 /\ idle' = 0
  /\ owed' = TRUE
  /\ UNCHANGED <<owedFor, mainVars, workerVars>>

TimerFires ==
  /\ timer = "runs"
  /\ timer' = "over"
  /\ \/ running' = FALSE /\ quit' = TRUE
     \/ ~running /\ UNCHANGED <<running, quit>>
  /\ UNCHANGED <<main, owned, file, captureVars, workerVars>>

Asleep == worker = "sleep" /\ wait > 0
Busy == worker \in {"infer", "handle"}

Tick ==
  /\ Asleep \/ Busy
  /\ sinceSamples' = UpTo(Timeout, sinceSamples + 1)
  /\ sinceInference' = UpTo(Interval, sinceInference + 1)
  /\ wait' = IF Asleep THEN wait - 1 ELSE wait
  /\ silence' = UpTo(Timeout, silence + 1)
  /\ idle' = IF Asleep THEN UpTo(NoticeBound + 1, idle + 1) ELSE 0
  /\ owedFor' = IF owed /\ warm /\ Asleep THEN UpTo(ScoreBound + 1, owedFor + 1)
                ELSE owedFor
  /\ UNCHANGED <<mainVars, fresh, unscored, warm, heard, owed,
                 worker, verdict, due, hits>>

-----------------------------------------------------------------------------
(* The worker. *)

WorkerBegins ==
  /\ worker = "begin"
  /\ worker' = "poll" /\ sinceSamples' = 0
  /\ UNCHANGED <<mainVars, captureVars, verdict, due, hits, sinceInference, wait>>

(* calloc of the model input fails. *)
WorkerGivesUp ==
  /\ worker = "begin"
  /\ worker' = "over"
  /\ running' = FALSE /\ quit' = TRUE
  /\ UNCHANGED <<main, owned, timer, file, captureVars,
                 verdict, due, hits, sinceSamples, sinceInference, wait>>

WorkerEnds ==
  /\ worker = "poll" /\ ~running
  /\ worker' = "over"
  /\ UNCHANGED <<mainVars, captureVars,
                 verdict, due, hits, sinceSamples, sinceInference, wait>>

(* Seconds since last_samples_at once the poll has looked at the total.    *)
(* Faulty variant: it is moved only by the sample that heals the capture.  *)
SilenceSeenAtHealing == IF fresh /\ verdict # "healthy" THEN 0 ELSE sinceSamples
SilenceSeen == IF fresh THEN 0 ELSE sinceSamples

(* Faulty variant: the capture counts as alive until it is found dead. *)
JudgedAtOnce == IF SilenceSeen >= Timeout THEN "unhealthy" ELSE "healthy"

Judged ==
  IF fresh THEN "healthy"
  ELSE IF SilenceSeen >= Timeout THEN "unhealthy"
  ELSE verdict

InferenceDue == unscored /\ warm /\ sinceInference >= Interval

(* sleep_worker_until_next_deadline, with the time of the poll. *)
SleepTime(seen, judged) ==
  LET health == IF judged = "unhealthy" THEN Interval
                ELSE Smaller(Interval, Timeout - seen)
  IN  IF health < 1 THEN 1 ELSE Smaller(MaxSleep, health)

(* The head of the loop.  last_total becomes the total of this load,       *)
(* although it is assigned only after the inference.                       *)
Poll ==
  /\ worker = "poll" /\ running
  /\ fresh' = FALSE /\ sinceSamples' = SilenceSeen
  /\ verdict' = Judged
  /\ due' = InferenceDue
  /\ unscored' = (unscored /\ ~InferenceDue)
  /\ sinceInference' = IF InferenceDue THEN 0 ELSE sinceInference
  /\ wait' = SleepTime(SilenceSeen, Judged)
  /\ worker' = IF Judged # verdict THEN "report"
               ELSE IF InferenceDue THEN "snapshot" ELSE "sleep"
  /\ UNCHANGED <<mainVars, warm, heard, silence, idle, owed, owedFor, hits>>

ReportHealth ==
  /\ worker = "report"
  /\ WriteStatus(verdict)
  /\ worker' = IF due THEN "snapshot" ELSE "sleep"
  /\ UNCHANGED <<main, owned, running, quit, timer, captureVars,
                 verdict, due, hits, sinceSamples, sinceInference, wait>>

(* The window is the newest samples of the tape; how far back it reaches   *)
(* (three seconds) is not told apart here.                                 *)
TakeSnapshot ==
  /\ worker = "snapshot"
  /\ worker' = "infer"
  /\ owed' = FALSE /\ owedFor' = 0
  /\ UNCHANGED <<mainVars, fresh, unscored, warm, heard, silence, idle,
                 verdict, due, hits, sinceSamples, sinceInference, wait>>

(* What run_model gives: no score, or one on either side of threshold.     *)
Outcomes == {"positive", "negative", "failed"}

(* A failed inference leaves the hits alone. *)
Hits(outcome) ==
  CASE outcome = "positive" -> hits + 1
    [] outcome = "negative" -> 0
    [] outcome = "failed"   -> hits

(* Faulty variant: last_total is loaded again after the inference. *)
InferReloading ==
  /\ worker = "infer"
  /\ \E outcome \in Outcomes :
       /\ hits' = Hits(outcome)
       /\ worker' = IF outcome # "failed" /\ Hits(outcome) >= Consecutive
                    THEN "handle" ELSE "sleep"
  /\ unscored' = FALSE
  /\ UNCHANGED <<mainVars, fresh, warm, heard, silence, idle, owed, owedFor,
                 verdict, due, sinceSamples, sinceInference, wait>>

Infer ==
  /\ worker = "infer"
  /\ \E outcome \in Outcomes :
       /\ hits' = Hits(outcome)
       /\ worker' = IF outcome # "failed" /\ Hits(outcome) >= Consecutive
                    THEN "handle" ELSE "sleep"
  /\ UNCHANGED <<mainVars, captureVars,
                 verdict, due, sinceSamples, sinceInference, wait>>

(* Faulty variant: the hits are kept. *)
HandlerReturnsHot ==
  /\ worker = "handle"
  /\ worker' = "sleep"
  /\ UNCHANGED <<mainVars, captureVars,
                 verdict, due, hits, sinceSamples, sinceInference, wait>>

(* waitpid returns, or pipe or fork failed: the hits are spent all the same. *)
HandlerReturns ==
  /\ worker = "handle"
  /\ worker' = "sleep" /\ hits' = 0
  /\ UNCHANGED <<mainVars, captureVars,
                 verdict, due, sinceSamples, sinceInference, wait>>

WakeUp ==
  /\ worker = "sleep" /\ wait = 0
  /\ worker' = "poll"
  /\ UNCHANGED <<mainVars, captureVars,
                 verdict, due, hits, sinceSamples, sinceInference, wait>>

-----------------------------------------------------------------------------
MainStep ==
  \/ ModelLoaded \/ ReturnEarly \/ StepUp \/ StepFails \/ LoopEnds
  \/ Stop \/ JoinWorker \/ JoinTimer \/ EndRing \/ EndLoop \/ ClearStatus

WorkerGoesOn ==
  \/ WorkerBegins \/ WorkerGivesUp \/ WorkerEnds
  \/ Poll \/ ReportHealth \/ TakeSnapshot \/ Infer \/ WakeUp

WorkerStep == WorkerGoesOn \/ HandlerReturns

Next ==
  \/ MainStep \/ WorkerStep \/ TimerFires
  \/ Launch \/ QuitFromLoop \/ Die \/ Sample \/ Tick

(* Running threads go on, and time passes.  Nothing is asked of the        *)
(* microphone, of signals or of the unit, nor of a handler: the worker     *)
(* waits for it without a timeout, and it may never return.                *)
Fairness ==
  /\ WF_vars(MainStep) /\ WF_vars(WorkerGoesOn)
  /\ WF_vars(TimerFires) /\ WF_vars(Tick)

Spec == Init /\ [][Next]_vars /\ Fairness

-----------------------------------------------------------------------------
(* Properties. *)

(* However main is left (a signal, a stream error, the duration, a failed  *)
(* step on the way up), what the callback, the worker and the timer may    *)
(* still use is there: the tape, the model and the loop are gone only      *)
(* after those threads are.                                                *)
NothingFreedInUse ==
  /\ "capture" \in owned => {"stream", "ring", "loop"} \subseteq owned
  /\ worker \notin {"none", "over"} => {"ring", "model", "loop"} \subseteq owned
  /\ timer = "runs" => "loop" \in owned

(* The worker calls the capture dead only if no sample has come for the    *)
(* whole timeout, and always within one sleep of it, unless it is held by  *)
(* an inference or by the handler.                                         *)
DeadCaptureNoticed ==
  /\ verdict = "unhealthy" /\ ~fresh => silence >= Timeout
  /\ running /\ worker \in {"sleep", "snapshot"} /\ idle > NoticeBound =>
       verdict = "unhealthy"

(* New samples get a window: once the tape is full, a window is taken      *)
(* within an interval and a sleep of the worker's idle time after the      *)
(* first sample that the last window has not, even if that sample fell     *)
(* into an inference or a session and the capture stops right after it.    *)
(* Of samples that are older than the window by then nothing is said.      *)
NewSamplesGetWindow == running /\ worker # "poll" => owedFor <= ScoreBound

(* A stop brings the process down, wherever it finds the worker, unless    *)
(* that is in a handler that never returns.                                *)
StopEndsIt == (quit \/ main \in WayDown) ~> (main = "down" \/ [](worker = "handle"))

(* The unit as systemd and the reader of the file see it. *)
Status == INSTANCE CaptureStatus WITH
  unit <- IF main = "down" THEN "down" ELSE IF main = "model" THEN "loading" ELSE "up"

(* The listener keeps the promises of the status file the tray relies on. *)
StatusKept == Status!CaptureSpec

=============================================================================
