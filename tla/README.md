# Okay Hermes Voice: specifications and proofs

TLA+ models of the run-time behaviour of `okay-hermes-voice`, checked with TLC on
small instances and proved with TLAPS for every value of their constants: every
invariant the runs check, the two action properties of the session and both
refinements step by step; the liveness properties stay with TLC.  Paths below are relative to
`src/src/okay_hermes_voice/` unless they start with `native/` (which is
`src/native/`) or `README.md` (which is the repository's own, `src/README.md`).

Run from this directory:

    tlasany VoiceSession.tla
    tlc -workers 2 -config MCVoiceSession.cfg MCVoiceSession
    tlapm VoiceSessionProofs.tla

## 1. The system

A wake phrase opens a voice session; the session records, transcribes, routes,
answers and speaks turn after turn until it is closed, cancelled or stopped.

| Component | State it keeps | Operations | Talks to |
|---|---|---|---|
| Native wake listener (`native/okay-hermes-wake-listener.c`) | sample ring, resampling accumulator, capture health, hit count, what main has created | PipeWire callbacks, worker (snapshot, inference, health, handler), duration thread, way up and down | runs the activation handler and waits for it; writes a capture status file |
| Activation handler (`native_activation_handler.py`) | one activation | connect, send, wait for the reply, fall back | warm server over a Unix socket; else runs a session itself |
| Warm activation server (`native_activation_server.py`) | end of the last session, STOP, `.ready` marker, listen queue | prewarm, accept, ignore stale, run a session, reply, shut down | handlers; the voice session |
| Python daemon (`wakeword_daemon.py`, `audio/wake/`) | STOP, cooldown | capture, infer, session, cooldown | alternative to the two above |
| Voice session (`activation/flow/`) | turn index, history, archive turns | loop head, recording, outcomes, routed answer, delegated completion | everything below |
| Heavy delegation (`voice_routing/heavy_delegation.py`) | table of background tasks, process-wide | dispatch, has_pending, pop_completed, complete, fail | worker threads of Hermes' delegation rail |
| Routing and acknowledgements (`voice_routing/`, `interaction_*`) | looping acknowledgement threads, clip cache | plan, acknowledge, answer | router model, small model, Hermes |
| Hermes runtime (`hermes_runtime.py`, `hermes_agent_cache.py`, `hermes_subprocess/`) | warm agent, process group | ask a turn, interrupt, drop, terminate | the Hermes agent |
| Audio (`audio/`) | audio queue, endpointing state, live STT session | record, transcribe, stream | microphone, STT models |
| Playback (`playback/response/`) | player process | speak, play, terminate on cancel | TTS, audio players |
| Popup state (`visualization/state/`, `visualization/popup/state/`) | one JSON file with two writers | update, append turn, finish, request cancel | session and popup process |
| Popup and launcher (`visualization/popup/`, `visualization/launcher/`) | terminal process | try terminals, render, Ctrl-C | popup state |
| Archive (`activation_archive/`, `activation/archive/summary/`) | metadata JSON per activation | save, merge updates, summarise | session |
| Tray (`native/wakeword-tray/`) | cached unit states, command in flight, subscriptions | event-driven: signals, file watches, audio changes, replies; menu: start, stop, exit | systemd over D-Bus, ready marker, capture status file, sound server |

What is hard in it, and what makes each part correct:

* **Session.** Three threads of control beside the session's own (popup, signal,
  workers) act between any two of its steps.  It has a dozen exits, each of which
  must close popup and archive alike; a cancel must stop the next stage wherever
  it falls; acknowledgement loops must end on every path.
* **Delegation.** A task outlives the turn and the session that started it, and
  brings back a history that replaces the live one.  No request may be answered
  twice, told twice or told outside a session, and no history may get out of order.
* **Server and handler.** Client timeouts race the server's queue; detections that
  fall into a session arrive after it.  Each activation is to be handled once, the
  assistant's own voice never.
* **Popup state.** Two processes rewrite one file without a lock.
* **Hermes turn.** A cancelled turn may leave an agent's conversation running; the
  next turn, or another thread's, must not get that agent, and a request must not
  run in two places.
* **Listener.** A realtime writer without a lock against a reader that takes
  milliseconds: the model must get one unbroken, fresh window of audio at its own
  rate, although the rate may change under the callback.  Seven steps of `main` may
  fail, the last of them with other threads running; nothing may be freed under
  them, and a stop must end them all.  The worker judges the capture by samples it counts.
* **Recording.** The microphone's thread fills a bounded queue while the loop that
  empties it may be held up by a speech model.  The words before speech is noticed
  must not be lost, the live transcript must be one of what is saved, and a mute
  microphone must not hang the session.
* **Tray.** Everything it knows arrives by asynchronous answers, signals and file
  watches that overtake each other; it must end up showing what is true.

`PROJECT.json` lists the hazards one by one, each with its line and with the
properties that would catch it.

## 2. Modules

| Module | Models | State and actions against the code |
|---|---|---|
| `HeavyDelegation` | `HeavyDelegationManager` | `running` and `finished` are the manager's table split by status; `Dispatch`, `FinishDelegation`, `PopCompleted` are its methods. A worker that lost the `id_ready` race is a task with `linked = FALSE`, which never finishes. |
| `VoiceSession` | `ActivationFlowRunner.run`, the outcome, input and routing handlers, the ack threads, the cancel flag, STOP | `pc` is where the session thread blocks: loop head (`top`), between `pop_completed` and `has_pending` (`poll`), `record`, `transcribe`, `route`, `answer`, `answered`, and one speaking phase for each kind of speech. One action per way a phase ends. `popup` and `archived` are what is published, `turns` what the thread holds in memory. |
| `VoiceDialog` | abstract | What the user may rely on: heard, worked on, settled or promised, told. That every request heard is settled is not among it: an inline turn has no deadline. |
| `ActivationServer` | handler and warm server | `queue` is the kernel's listen queue, `handler` the one handler process the listener waits for, which reads its configuration anew and may find no server enabled (as shipped), `server` the phase of the accept loop, `now` the wall clock. A session is one phase. |
| `PopupState` | the JSON state file | One action per system call of `update_visualization_state` and `request_cancel`; file names refer to inodes because a rename moves a file the other side still has open. |
| `WakeRing` | `ring_write`, `ring_snapshot_latest`, the worker's use of them | One action per access to shared memory; a sample is its number. |
| `WakeCapture` | `on_process`, `on_stream_param_changed` | Extends `WakeRing`: the callback's writes are its steps. `process` is where the callback is in its loop over frames; `accumulator` is an unsigned word; a format change is two actions of the main loop, the reset and the stores of the new rate. |
| `WakeListener` | `main`, the worker, the duration thread, `quit_signal`, `on_state_changed`, the status file | `main` names the step main is at, `AfterStep` and `OnFailure` are its way up and its `goto` labels; `owned` is what it has created. The worker's times are ticks since the last sample and the last inference. The unit file's `Restart=always` is `Launch`. |
| `CaptureStatus` | abstract | What the unit promises the readers of the status file. |
| `WakewordTray` | `TrayController`, `stateFromInputs` | One action per slot or callback. `requests` and `inbox` are the two directions of the bus, `news` the watches that are due; `cached` is `wakewordActive` and `handlerActive`. systemd's answers and jobs are actions of their own; the listener's unit is `CaptureStatus`. |
| `HermesTurn` | `ask_hermes_turn` with the warm agent cache and the subprocess fallback | `pc` is where each of its two callers is; `talk` the agent conversation of a turn, which outlives it when it is abandoned; `leader` and `child` the process group; `cache` the agent under each key; `asker` is history. Both callers pass a `cancel_check`, so the branches of a call without one are left out. |
| `CommandRecording` | `record_command`, its callback, `ParakeetLiveStreamingSession` | `loop` is where the loop blocks: `waiting` in `audio_q.get`, `priming` and `transcribing` in the session's `accept_int16` (for the preroll, for one block), `finishing` in `finalize`. A block is its number and whether it is voice; times are ages in ticks of one block, counted up to what they are compared with. `DecodeChunk` is one turn of `_consume_available`. `given`, `dropped`, `spokeFrom` and `voiceAge` are history. |
| `VoiceSessionProofs`, `ActivationServerProofs`, `PopupStateProofs`, `WakeCaptureProofs` (with `WakeRing`), `WakeListenerProofs`, `WakewordTrayProofs`, `HermesTurnProofs`, `CommandRecordingProofs` | theorems | Each extends the module it is named after; section 5. |
| `MC*` | instances for TLC | |

`VoiceSession` extends `HeavyDelegation` (the manager is in the same process) and
instantiates `VoiceDialog` with a refinement mapping.  `ActivationServer` has a
session as one phase whose end `VoiceSession` details.  `PopupState` details how
the cancel flag of `VoiceSession` (`UserCancels`) gets to the session: a flag that
is lost on the way is a `VoiceSession` behaviour without that step.  `CommandRecording`
details its phase `record`.  `HermesTurn` details the phase `answer` with an inline reply and the worker of a delegation.
`WakeCapture` extends `WakeRing` and takes the place of its free writer;
`WakeListener` has a sample of that tape as there or not, and its handler's wait is
what `ActivationServer` details (`ListenerReleased`).  `WakeListener` implements
`CaptureStatus`, and `WakewordTray` uses `CaptureStatus` as the unit it watches, so
that the tray is checked against every listener that keeps those promises.

Left out on purpose: texts, timings, beeps, pipeline stages, logging.  An answer's
text, a route and a transcript are choices; an error text is spoken like an answer.
A task that never completes, hung or without an id, is one whose `WorkerFinishes` is
never taken; a session that raises does so between two of the phases above, in the
answering also after the delegation was dispatched.

## 3. Runs

| Run | Checks | Bounds |
|---|---|---|
| `vsession_safety` | `TypeOK`, `DelegationBacklog`, `HistoryOrdered`, `SessionEndIsPublished`, `CancelStopsNewWork`, `DialogSteps` | 2 sessions of 2 turns, four configurations (shipped; follow-up timeout without a close acknowledgement; single turn; transcript only). Two sessions are needed for a delegation to cross from one to the next; two turns for a history to be replaced while another task is still promised. About 1.9 million states. |
| `vsession_live` | `CancelEndsSession`, `AckLoopsEnd`, `StopEndsSession`, `AwaitedResultTold` | one session of 3 turns: dispatch, wait, tell. 100,000 states. |
| `stranded_result` | `ResultSpokenAutomatically`, violated | shipped configuration |
| `activation_server` | `TypeOK`, `HandledOnce`, `EchoNeverServed`, `StopDuringSessionObeyed`, `ListenerReleased` | `listen(1)` as shipped, 4 detections (one in a session, two queued, one that finds the queue full), a clock of 3 ticks with a cooldown of 1 |
| `second_session` | `OnlyUnreachableFallsBack`, violated | as above, no cooldown |
| `popup_state` | `ApartNothingIsLost` | 3 updates and the final one: enough for an update before, in and after the popup's request |
| `lost_cancel` | `CancelArrives`, violated | 2 updates |
| `wake_capture` | `CaptureTypeOK`, `WindowUnbroken`, `WindowFresh`, `TapeKeepsTime` | Tape of 3 cells, window of 2, 5 samples: two rounds, a window that wraps, a callback that laps the worker. Rates of 1 and 3 against a model rate of 2, and a format without one, in a word of 8: a buffer that writes two samples for a frame or none, and a reset that wraps the accumulator. 2 frames between two format changes. 3 million states. |
| `wake_listener` | `TypeOK`, `NothingFreedInUse`, `DeadCaptureNoticed`, `NewSamplesGetWindow`, `StopEndsIt`, `StatusKept` | An interval of 3 ticks, a timeout of 5, sleeps of up to 2: each of the three deadlines decides some sleep. 2 consecutive hits. |
| `wakeword_tray` | `TypeOK`, `OneCommandAtATime`, `TrayAgrees`, `AskedIsDone` | Found at the start: everything down with stale files, and everything up and healthy; the listener's unit kept loaded, the handler's not. 3 events (changes nobody ordered, clicks and failed calls together) that happen while at most one message is under way: a command, a change while it runs and a second command. 470,000 states. |
| `hermes_turn` | `TypeOK`, `AgentExclusive`, `NeverTwice`, `CancelEndsTurn`, `SubprocessEnds` | 2 turns: one of each caller at the same time, or a cancelled one and the next of its caller; shared agent (as shipped), own agents, subprocess only; prewarmed or not |
| `command_recording` | `TypeOK`, `RecordingUnbroken`, `LiveHearsWhatIsSaved`, `TextKeepsUp`, `RecordingEnds` | With the live session. Blocks of 2 samples, chunks of 3 with a context of 3, so that blocks and chunks drift against each other as the shipped ones do (1600 and 8960 samples); a queue of 2 that a slow chunk fills; 2 blocks of voice start, a preroll of 3, 3 blocks at least; a start timeout of 2 or none, as a follow-up turn has as shipped, a silence and an idle text of 2, 5 ticks at most, a wait of 1: each limit is met in some behaviour, and a recording may be too short or end by a cancel or STOP only. A microphone that falls mute anywhere within 6 blocks: two chunks while recording, the first of which ends with a block, and blocks lost in the middle of a recording. 1.8 million states. |

Every property of a passing run has a faulty variant of a definition beside the
faithful one in the module (commented as such), which makes TLC find the property
violated; no action uses these.

`CHECK_DEADLOCK FALSE` is set for `PopupState`, where a session that is over and a
window that was closed write no more, for `HermesTurn`, where nothing is left
to do when the last turn has returned and its processes have ended, for
`WakeCapture`, whose bounds on samples and frames run out, for `WakewordTray`,
an idle event loop once its events are used up, and for `CommandRecording`, which is
over when `record_command` has returned.

**Fairness.**  `VoiceSession`: weak fairness of the session thread's own steps and of
the ack threads, which are running threads.  Its answering has it only where it
needs no agent, or once it is cancelled or stopped (`AnswerIsDue`): the inline turn
of `hermes_agent_cache.py:112` polls for both but has no deadline, and may hang for
ever otherwise, which `AckLoopsEnd` and `AwaitedResultTold` name as their exception
(`AgentAtWork`).  That a recording ends when it is due is what `CommandRecording`
shows; that a transcription, a routing, a small model's reply and a speech end is
assumed.  None for the delegation workers, which may hang as well, nor
for the user: nobody has to speak, to cancel or to say the wake phrase, and a
recording without a start timeout may last for ever.  `ActivationServer`: the
handler's socket calls return or time out (`settimeout`), the server's own steps
run on, and a session with STOP set comes to its end, because every wait in it
looks at STOP or has a timeout.  A session without STOP need not end, nor one that
a handler runs itself: `ListenerReleased` is about waiting for the server.
`HermesTurn`: a caller's own steps, whose waits are polls, grace periods and a
deadline; nothing is asked of the agent and its processes, which may hang.
`WakeListener`: its running threads go on and time passes; the microphone, signals
and the unit owe nothing, and neither does a handler: `waitpid` has no timeout
(line 452), as shipped the handler runs its session itself, and that may wait for the
user for ever.  `StopEndsIt` names this exception.
`CommandRecording`: the session's thread goes on, calls of the speech model return,
and time passes; the microphone may deliver nothing and the user say nothing.
`WakewordTray`: systemd answers and runs its jobs, and the event loop goes on; the
user, the units and the spinner owe nothing.

**Assumptions about what is not in the repository.**  `WakeListener`: a
`pw_main_loop_quit` is kept even when it comes before `pw_main_loop_run` (the
worker that finds no memory may be that early), and no callback runs after
`pw_stream_destroy`.  `WakewordTray`: messages between the tray and systemd keep
their order; a watched directory or source that changes is always signalled; the
five signal connections succeed or fail together; a stop job is one step (no
`deactivating`).  `CommandRecording`: the microphone delivers at most one block in
the time of one; the loop takes no time but in waits and in the speech model; NeMo's
buffer keeps the right context of a chunk that is not the last for the next one, as
`audio/parakeet/session.py:125` takes it to do.  A status path that does not resolve and an `unlink` that fails
are left out.

## 4. What the runs found

* **A full queue opens a second session** (`second_session`).  Behind a running
  session the listen queue holds two connections.  The next handler's `connect`
  raises `BlockingIOError`; `native_activation_handler.py:66` lets only
  `socket.timeout` pass as "busy", so the handler runs a session of its own.  The
  docstring above it rules that out.
* **A finished delegation is stranded** (`stranded_result`).  `runner.py:64` pops,
  `runner.py:77` asks whether something runs.  A task that completes in between
  was not popped and is not pending: the next recording has no start timeout and
  the result is told only after the user speaks.  README.md:447 promises that it
  is spoken automatically.
* **A Ctrl-C can be lost** (`lost_cancel`).  `update_visualization_state` and
  `request_cancel` read, merge and replace the same file, through the same `.tmp`
  name.  A request that meets an update is overwritten or torn.  README.md:310.

**Behaviours without a run of their own.**  Three more contradict the repository's
README; each is in the model, and TLC found it with the property named here.

* *A tool survives a cancelled subprocess* (`HermesTurn`: a cancelled turn whose
  `child` is still true).  `hermes_subprocess/termination.py:32` returns when the
  leader has exited and does not look at the rest of its group.  README.md:310 says
  it is terminated as a whole.
* *Lag counts as silence* (`EndsInSilence`, with `Live = TRUE`).
  `audio/recording.py:160` measures silence between the times at which blocks are
  taken from the queue.  While the live session works on a chunk no block is taken;
  if that takes as long as `speech_silence_duration_seconds`, the next block without
  voice ends the request, with the user's next words waiting in the queue.
  README.md:431 defines the setting by how long silence lasts.  (Once there is
  streamed text, the idle rule of `recording.py:157` compares the same two times.)
  Without a live session it does not happen: `PlainEndsInSilence`.
* *The tail of a live transcript is lost* (`CommandRecording`: a result with
  `decoded < total`).  If the recording ends exactly where a chunk and its right
  context end, `finalize` has no sample left to consume (`audio/parakeet/session.py:95`),
  and no chunk is decoded as the last one: the text of the right context, 0.56
  seconds, is in no transcript.  With the shipped sizes that is every 28th block.
  README.md:459 uses the live transcript in place of the one of the whole file.

Two more behaviours are in `HermesTurn` without a document that rules them out.  A
process that holds the stdout of an exited `hermes chat` makes
`process_output.py:16` return the text of the pipe object as the answer (result
`garbled`), and without a model of its own, as shipped (`daemon_config.py:84-87`), a
delegation shares the session's agent: both may run a conversation on it at once, and
a cancel of one cuts the answer of the other (result `cut`).  `AgentExclusive`
excludes every other sharing.

Four more concern the listener and the tray, where no document rules them out
either.  A listener that is killed leaves its status file, and until the next one
has loaded its model the tray takes the old `healthy` for its own: it may be green
while nobody listens (`WakewordTray` has these behaviours; `TrayAgrees` is about
the file, not its age).  The retry of a failed `Subscribe` (`main.cpp:371`) does not
ask for the units' states, so that a change before it stays unseen until the next
signal; and a question that fails makes the tray take the unit for inactive without
asking again (`main.cpp:265`, `:281`), so that it shows an active unit as off until
the next signal or command.  `TrayAgrees` excuses these two, and no other, with
`misled`.  A format change in the middle
of a buffer can make the accumulator wrap, so that samples are written until it
is below the rate again: `TapeKeepsTime` speaks of the other buffers (`raced`).

A session that is stopped at its loop head, or that raises, publishes nothing: its
popup goes on showing it as active and its archive has no reason
(`SessionEndIsPublished` says so).  One whose routing raises leaves the
acknowledgement of that request playing until the user cancels in that popup
(`routing.py:104` sets `answer_ready` for the answering only).

## 5. Proofs

Every theorem holds for every value of the constants that satisfies the named
assumptions.  A bound of a run (`MaxTurns`, `MaxEvents`, ...) is a constant like any
other here: what is proved for every `MaxTurns` holds of sessions of any length.  An
inductive invariant was first checked with TLC on the instance of the run.

| Proof module | Theorem | States |
|---|---|---|
| `VoiceSessionProofs` | `SessionTypeCorrect` | `Spec => []TypeOK` |
| | `DelegationsBounded` | `Spec => []DelegationBacklog` |
| | `HistoriesOrdered` | `Spec => []HistoryOrdered` |
| | `SessionEndsPublished` | `Spec => []SessionEndIsPublished` |
| | `CancelStopsWork` | `Spec => CancelStopsNewWork` |
| | `SessionImplementsDialog` | `Spec => DialogSteps` |
| `ActivationServerProofs` | `ServerTypeCorrect` | `Spec => []TypeOK` |
| | `ActivationsHandledOnce` | `Spec => []HandledOnce` |
| | `EchoesIgnored` | `Spec => []EchoNeverServed` |
| `PopupStateProofs` | `ApartUpdatesLoseNothing` | `Spec => []ApartNothingIsLost` |
| `WakeCaptureProofs` | `RingTypeCorrect`, `ModelInputUnbroken`, `ModelInputFresh` | `Spec => []TypeOK`, `[]WindowUnbroken`, `[]WindowFresh` of the tape |
| | `CaptureImplementsRing` | `CaptureSpec => Spec` |
| | `CaptureInputUnbroken`, `CaptureInputFresh` | the same windows of the composed callback |
| | `CaptureTypeCorrect`, `TapeOnTime` | `CaptureSpec => []CaptureTypeOK`, `[]TapeKeepsTime` |
| `WakeListenerProofs` | `ListenerTypeCorrect` | `Spec => []TypeOK` |
| | `ListenerFreesLast` | `Spec => []NothingFreedInUse` |
| | `ListenerKeepsStatus` | `Spec => StatusKept`, the refinement of `CaptureStatus` |
| | `DeadCaptureIsNoticed`, `WindowsKeepUp` | `Spec => []DeadCaptureNoticed`, `[]NewSamplesGetWindow` |
| `WakewordTrayProofs` | `TrayTypeCorrect` | `Spec => []TypeOK` |
| | `CommandsDoNotOverlap` | `Spec => []OneCommandAtATime` |
| `HermesTurnProofs` | `TurnTypeCorrect` | `Spec => []TypeOK` |
| | `RequestsRunOnce` | `Spec => []NeverTwice` |
| | `AgentsExclusive` | `Spec => []AgentExclusive` |
| `CommandRecordingProofs` | `RecordingTypeCorrect` | `Spec => []TypeOK` |
| | `RecordingIsUnbroken` | `Spec => []RecordingUnbroken` |
| | `LiveHearsTheRecording` | `Spec => []LiveHearsWhatIsSaved` |
| | `LiveTextKeepsUp` | `Spec => []TextKeepsUp` |
| | `RecordingLimitsKept` | `Spec => []LimitsKept` |
| | `PlainEndsInSilence` | `Spec => [](~Live => EndsInSilence)` |

**Voice session.**  All but `CancelStopsWork` follow from the inductive invariant
`IInv`, whose parts are proved action by action.  `ControlInv` has the types and that
a session past its loop head has a number and a turn within the limit: without it
the turn index could not be shown to stay within `MaxTurns + 1`.  `HistoryInv` is
about order: that an appended exchange keeps a history in order needs that the
history holds only requests older than the one being answered, that a task's history
holds only requests older than its own, and that a finished one's holds none newer
than its own (`Ordered(h, bound)`).  `BacklogInv` has the session thread past the pop,
with nothing finished or one result finished since, when it dispatches.  `EndInv`
relates archive and memory while the session runs: the archive is a prefix that lacks
no answer, and at the loop head, where a session may stop without writing, it lacks
nothing at all; and while the session runs neither popup nor archive is closed
(`StillOpen`), which is what a stopped or raised one leaves behind.  `PromiseInv` has one entry for a delegated request, running or
finished, and none for the request being worked on: the step that tells a result
removes its request from what is promised only because no other entry has the same
request.  With it each session step is shown to be a step of `VoiceDialog` or a
stutter (`DialogHears`, `DialogSettles`, `DialogPromises`, `DialogTells`, ...).  `CancelStopsNewWork` needs no invariant: each step that
begins such work reads the flag itself.

**Warm activation server.**  `ServerInv` adds to the types what server and handler
have in hand in each phase.  `HandledOnce` is about what has been served; `OnceInv`
is about what can still be: the connections in the listen queue are of different
activations, none of them served by anybody, none of them the one in hand, and all of
them older than the next detection; and a handler that is connecting has its
activation in no queue.  `EchoInv` follows an activation detected
during a session from the handler through the queue: it is never younger than the end
of the last session of this server (`Echoed`), and this is what the cooldown rule
compares.

**Popup state file.**  While the two sides keep apart, `Apart` says that the temporary
file is its writer's own, that its content is what that writer means to write, that
this loses nothing of the state file (`CopiesComplete`), and that a turn is in the
state file or in what the session is about to write (`TurnsCounted`).  Without the
first the file that is moved over the state file could be anybody's.

**Wake capture.**  For every `Capacity >= Window > 0`, the invariant of the tape says
which sample every cell holds relative to what is stored and published, and that the
cells copied so far are the right ones as long as the callback has not lapped the
snapshot.  For every set of rates, and every word that holds the sum of a rate and the
model's, as 32 bits do, every step of the callback is a step of the tape, so that these
theorems carry over to the composition.  The invariant of `TapeOnTime` balances the books: while no
format change has met the callback, the samples since the last change times the rate,
plus the accumulator, are the frames heard times the model's rate, and between two
buffers the accumulator is less than the rate.  Its first part alone is not enough:
that the sum never leaves the word is what keeps it an equation of natural numbers.

**Wake listener.**  The inductive invariant is `ControlTypes` with `StageOwns` (what
main owns at each step), `ThreadsJoined` (past the joins, worker and timer are over)
and `HealthHeard` (a verdict `healthy`, or samples the worker has not looked at, mean
that this process has heard something), which is what the step that writes `healthy`
needs to be a `Report` of `CaptureStatus`.  The two deadlines speak of the states
after them; `ClockInv` has to say how far each deadline is while it has not come.
`Watching`, of a sleeping worker, is the disjunction that carries the first: the
capture is found dead, or the worker has slept no longer than one sleep, or what it
has counted and what is left of the sleep fit in the timeout and it has slept at most
one sleep more than it counted (the one before it looked at the last sample).
`OwedInTime` does the same for the first sample that came after the last window: the time it has waited is at
most the time since the last inference while no inference is due, and with the sleep
that is left never above `ScoreBound`.  `SleepFits` is the lemma about `SleepTime`
both rest on.

**Tray.**  `TrayTypes` types the messages in both directions.  `OneUnderWay` says where
the command in flight is: in the calls, or in the replies, never in both; without the
place, a reply could end a command whose next call has been sent.  `Locked` has the
menu disabled and the icon yellow meanwhile, which is what keeps `StartDaemon` and
`StopDaemon` from sending a second one.  `TailLosesHead`, `Joined` and `Appended` are
the lemmas about the commands in a queue; `AfterIsPlace` is the one about the next
unit.

**Hermes turn.**  `TurnInv` has the two callers in different turns, nothing started in a
turn that has not been asked, one agent per turn at most (which bounds `built`), and
what the place of a turn says of its conversation and its process (`InPhase`).
`AgentExclusive` is not inductive.  `ApartFromOwn` adds, whether or not the callers
share an agent, that an abandoned conversation that still runs has an agent its caller
cannot get at again, by its key or by its turn (`Holds`), so that a cancelled turn must
take its agent out of the cache in the step that leaves it, and that an agent just built
is nobody else's (`Fresh`).  For callers that do not share, `OwnersApart` adds that what
one can get at is not the other's.

**Command recording.**  `RecordingUnbroken` speaks of the recording only; its invariant, `TapeInv`, follows a
block from the callback on: the queue is one stretch that ends with the newest block
(`QueueInv`), the preroll, or the recording, is one that the queue goes on from
(`GoesOn`), and the preroll ends with the run of voice counted so far
(`RunInPreroll`), which needs `StartBlocks <= PrerollLen`: with a longer run the
first voice would have left the preroll before speech is noticed.  `PrerollGrows` is
the lemma about the bounded deque.  `HearsInv` counts the samples the session has been
given against the blocks it has yet to get, and `GivenInv` says which blocks those are:
while it gets the preroll, what it was given and what is pending overlap in the block in
hand and make up the recording; `SessionInv` keeps the window a chunk and
its context ahead of the text; `LimitInv` adds what is left of a wait to what has been
waited; and `SilenceInv` shows that without a live session the queue holds one block
at most, so that silence is judged by the newest one.

Assumptions: the named ones of the modules only (`BoundsAssumption`,
`ServerAssumption`, `RingAssumption`, `CaptureAssumption`, `ListenerAssumption`,
`TrayAssumption`, `TurnsAssumption`, `RecordingAssumption`; the popup's needs none),
which TLC evaluates on the instances above.

Only proved: `RecordingLimitsKept`, and `PlainEndsInSilence`, whose premise (a
recording without a live session) is not that of the run.

Only model-checked: the liveness properties, since TLAPS proves none under fairness
(`CancelEndsSession`, `AckLoopsEnd`, `StopEndsSession`, `AwaitedResultTold`,
`StopDuringSessionObeyed`, `ListenerReleased`, `StopEndsIt`, `TrayAgrees`,
`AskedIsDone`, `CancelEndsTurn`, `SubprocessEnds`, `RecordingEnds`).

## 6. Plan

Next modules, in this order:

1. `Playback`: player processes, fallback, termination on cancel.
2. `RouteChoice`: pure decisions against reference definitions; then the Python
   daemon's loop with its cooldowns as an alternative front end.

Proofs to come: of the safety part of `StopDuringSessionObeyed` and `AskedIsDone`,
what a step may not undo (a stop signal stays set until the server is down; a job
is in the order of the command that made it); and of the popup's file, what an
overlap can lose at most.

## 7. Not modelled

Wake, STT, router and TTS models; the live Nemotron session, whose chunks are cut by
NeMo's own buffer, and the transcription of a whole file; YAML loading; terminal rendering; the clip
cache; the latency summary; the installers.  They hold no state that two actors
share, or are external.

`WakeListener` does not model the length of the window: samples older than the 3 seconds
a snapshot copies (`native/okay-hermes-wake-listener.c:24`, `:505`) when it is taken,
after a session, a long inference or with an interval above 3 seconds, are in no window,
and `NewSamplesGetWindow` says nothing of them.

`native/include/onnxruntime_c_api.h` and `onnxruntime_ep_c_api.h` are the
declarations of the ONNX Runtime library, vendored for the build: 11,546 of the
13,092 lines of C and C++ in the repository, and nothing in them runs here.  Of the
rest, the option parser, usage text and ONNX set-up of the listener (about 330
lines) and the icon drawing, paths and set-up of the tray are not modelled because
they only decide whether the program starts, or what it looks like.
