----------------------------- MODULE VoiceSession -----------------------------
(***************************************************************************)
(* ActivationFlowRunner.run and its handlers: one voice session after      *)
(* another in one process, with the popup's cancel flag, the STOP event,   *)
(* the looping acknowledgement threads and the background delegations.     *)
(*                                                                         *)
(* The session thread is cut where it blocks (recording, transcription,    *)
(* routing, answering, speaking) and where another actor's step between    *)
(* two of its own reads matters.  The stages shown by the popup and the    *)
(* intermediate archive statuses are one value each, "active" and "none":  *)
(* what is told apart is whether and how they were closed.                 *)
(***************************************************************************)
EXTENDS HeavyDelegation

CONSTANTS
  MaxTurns,      \* conversation_max_turns
  MaxSessions,   \* bound on the wake activations of one behaviour
  Configs        \* the configurations considered

ConfigType ==
  [ conversation    : BOOLEAN,   \* conversation_mode_enabled
    transcriptOnly  : BOOLEAN,   \* transcript_only_mode
    closeAck        : BOOLEAN,   \* conversation_close_ack is not blank
    delegation      : BOOLEAN,   \* heavy_agent_delegation_enabled
    followupTimeout : BOOLEAN ]  \* conversation_followup_start_timeout_seconds > 0

ASSUME BoundsAssumption ==
  /\ MaxTurns \in Nat \ {0}
  /\ MaxSessions \in Nat \ {0}
  /\ Configs \subseteq ConfigType

VARIABLES
  cfg,          \* the loaded configuration
  stop,         \* the STOP event
  session,      \* number of the current or last session
  pc,           \* where the session thread is; "idle" between sessions
  ending,       \* how the last session ended
  turn,         \* turn_index
  req,          \* requests put to the router so far, over all sessions
  lane,         \* route target of the request being answered, else "unplanned"
  history,      \* hermes_history
  turns,        \* archive_turns
  pendingSeen,  \* cfg["_heavy_agent_delegation_pending"]
  popup,        \* the state file: status and the turns it shows
  archived,     \* the archive metadata: close_reason and turns
  cancelled,    \* sessions whose state file holds cancel_requested
  acks          \* acknowledgement loop threads still alive

sessionVars == <<session, turn, req, lane, history, pendingSeen>>
outputVars  == <<turns, popup, archived>>
vars == <<cfg, stop, pc, ending, sessionVars, outputVars, cancelled, acks,
          delegationVars>>

Phases == {"idle", "top", "poll", "record", "transcribe", "route", "answer",
           "answered", "speak", "speakDelegated", "speakClose"}
Lanes  == {"fixed", "immediate", "small", "heavy", "unplanned"}
Turn   == [by : {"answer", "delegated", "close", "transcript"}, req : Nat]
Reasons == {"max_turns", "no_speech_after_wake", "stt_empty_or_failed",
            "transcript_only", "close_phrase", "no_response",
            "single_turn_complete", "delegated_heavy_complete",
            "terminal_cancel"}
Popup   == [status : {"active", "done", "error", "cancelled"}, turns : Seq(Turn)]
Archive == [reason : Reasons \cup {"none"}, turns : Seq(Turn)]
Ack     == [req : Nat, session : 1..MaxSessions, ready : BOOLEAN]

ControlTypeOK ==
  /\ cfg \in Configs
  /\ stop \in BOOLEAN
  /\ session \in 0..MaxSessions
  /\ pc \in Phases
  /\ ending \in {"none", "completed", "cancelled", "stopped", "raised"}
  /\ turn \in 1..(MaxTurns + 1)
  /\ req \in Nat
  /\ lane \in Lanes
  /\ pendingSeen \in BOOLEAN
  /\ cancelled \in SUBSET (1..MaxSessions)
  /\ acks \in SUBSET Ack

OutputTypeOK ==
  /\ turns \in Seq(Turn)
  /\ popup \in Popup
  /\ archived \in Archive

HistoryTypeOK ==
  /\ history \in Seq(Exchange)
  /\ DelegationTypeOK

(* Types; the turn index passes the limit by one at most. *)
TypeOK == ControlTypeOK /\ OutputTypeOK /\ HistoryTypeOK

Init ==
  /\ cfg \in Configs
  /\ stop = FALSE
  /\ session = 0
  /\ pc = "idle"
  /\ ending = "none"
  /\ turn = 1
  /\ req = 0
  /\ lane = "unplanned"
  /\ history = <<>>
  /\ turns = <<>>
  /\ pendingSeen = FALSE
  /\ popup = [status |-> "active", turns |-> <<>>]
  /\ archived = [reason |-> "none", turns |-> <<>>]
  /\ cancelled = {}
  /\ acks = {}
  /\ DelegationInit

-----------------------------------------------------------------------------
(* Ways a step of the session thread ends. *)

CancelRequested == session \in cancelled

Goto(next) == pc' = next /\ UNCHANGED ending

(* Faulty variant: the archive is closed without its last turns. *)
EndSessionTurnsLost(how, shown, reason, ts, shownTurns) ==
  /\ pc' = "idle"
  /\ ending' = how
  /\ popup' = [status |-> shown, turns |-> shownTurns]
  /\ archived' = [archived EXCEPT !.reason = reason]
  /\ turns' = ts

(* Close the popup, the archive and the session together. *)
EndSession(how, shown, reason, ts, shownTurns) ==
  /\ pc' = "idle"
  /\ ending' = how
  /\ popup' = [status |-> shown, turns |-> shownTurns]
  /\ archived' = [reason |-> reason, turns |-> ts]
  /\ turns' = ts

(* finish_cancelled_voice_session *)
EndCancelled == EndSession("cancelled", "cancelled", "terminal_cancel", turns, popup.turns)

(* Return to the loop with the in-memory turns written to the archive. *)
BackToTop ==
  /\ Goto("top")
  /\ archived' = [archived EXCEPT !.turns = turns]
  /\ UNCHANGED <<turns, popup>>

(* Faulty variant: one turn too many. *)
MoreTurnsOffByOne == turn <= MaxTurns + 1

MoreTurns == turn <= MaxTurns

FirstOrSingle == turn = 1 \/ ~cfg.conversation

-----------------------------------------------------------------------------
(* The loop head. *)

StartSession ==
  /\ pc = "idle" /\ ~stop /\ session < MaxSessions
  /\ Goto("top")
  /\ session' = session + 1
  /\ turn' = 1
  /\ history' = <<>>
  /\ turns' = <<>>
  /\ popup' = [status |-> "active", turns |-> <<>>]
  /\ archived' = [reason |-> "none", turns |-> <<>>]
  /\ UNCHANGED <<cfg, stop, req, lane, pendingSeen, cancelled, acks, delegationVars>>

StopAtLoopHead ==
  /\ pc = "top" /\ stop
  /\ pc' = "idle" /\ ending' = "stopped"
  /\ UNCHANGED <<cfg, stop, sessionVars, outputVars, cancelled, acks, delegationVars>>

MaxTurnsReached ==
  /\ pc = "top" /\ ~stop /\ ~MoreTurns
  /\ EndSession("completed", "done", "max_turns", turns, popup.turns)
  /\ UNCHANGED <<cfg, stop, sessionVars, cancelled, acks, delegationVars>>

(* pop_completed returned a result: its history replaces the session's,    *)
(* the archive is written before the turn is appended to it.               *)
TakeDelegated ==
  /\ pc = "top" /\ ~stop /\ MoreTurns
  /\ PopCompleted
  /\ LET told == [by |-> "delegated", req |-> Head(finished).req] IN
       /\ history' = Head(finished).history
       /\ archived' = [archived EXCEPT !.turns = turns]
       /\ turns' = Append(turns, told)
       /\ popup' = [popup EXCEPT !.turns = Append(@, told)]
  /\ Goto("speakDelegated")
  /\ UNCHANGED <<cfg, stop, session, turn, req, lane, pendingSeen, cancelled, acks>>

NothingDelegated ==
  /\ pc = "top" /\ ~stop /\ MoreTurns
  /\ finished = <<>>
  /\ Goto("poll")
  /\ UNCHANGED <<cfg, stop, sessionVars, outputVars, cancelled, acks, delegationVars>>

(* has_pending is read after pop_completed returned None. *)
BeginRecording ==
  /\ pc = "poll"
  /\ pendingSeen' = HasPending
  /\ IF CancelRequested
       THEN EndCancelled
       ELSE Goto("record") /\ UNCHANGED outputVars
  /\ UNCHANGED <<cfg, stop, session, turn, req, lane, history, cancelled, acks, delegationVars>>

-----------------------------------------------------------------------------
(* Recording and transcription. *)

(* Faulty variant: a running delegation does not shorten the recording. *)
HasStartTimeoutAlone == FirstOrSingle \/ cfg.followupTimeout

(* command_recording_config_for_turn: is there a start timeout at all? *)
HasStartTimeout == FirstOrSingle \/ pendingSeen \/ cfg.followupTimeout

recordFrame == <<cfg, stop, sessionVars, cancelled, acks, delegationVars>>

(* record_command returned None: the loop checks the cancel flag and then  *)
(* no_recording decides.  A first turn without speech ends the session.    *)
NothingRecorded ==
  /\ IF CancelRequested THEN EndCancelled
     ELSE IF FirstOrSingle
       THEN EndSession("completed", "error", "no_speech_after_wake", turns, popup.turns)
       ELSE BackToTop
  /\ UNCHANGED recordFrame

SpeechRecorded ==
  /\ Goto("transcribe")
  /\ UNCHANGED <<recordFrame, outputVars>>

(* Faulty variant: the cancel is looked at along with the timeout only. *)
RecordingCancelledLate == pc = "record" /\ CancelRequested /\ HasStartTimeout /\ NothingRecorded

RecordingCancelled == pc = "record" /\ CancelRequested /\ NothingRecorded

RecordingTimesOut == pc = "record" /\ HasStartTimeout /\ NothingRecorded

(* Faulty variant: STOP is looked at along with the timeout only. *)
RecordingStoppedLate ==
  pc = "record" /\ stop /\ HasStartTimeout /\ (NothingRecorded \/ SpeechRecorded)

RecordingStopped == pc = "record" /\ stop /\ (NothingRecorded \/ SpeechRecorded)

(* The user is heard; a command below min_command_seconds is dropped. *)
UserSpeaks == pc = "record" /\ (NothingRecorded \/ SpeechRecorded)

EmptyTranscript ==
  /\ pc = "transcribe"
  /\ IF CancelRequested THEN EndCancelled
     ELSE IF FirstOrSingle
       THEN EndSession("completed", "error", "stt_empty_or_failed", turns, popup.turns)
       ELSE BackToTop
  /\ UNCHANGED recordFrame

TranscriptOnly ==
  /\ pc = "transcribe" /\ cfg.transcriptOnly
  /\ IF CancelRequested THEN EndCancelled
     ELSE EndSession("completed", "done", "transcript_only",
                     Append(turns, [by |-> "transcript", req |-> req]), popup.turns)
  /\ UNCHANGED recordFrame

ClosePhrase ==
  /\ pc = "transcribe" /\ ~cfg.transcriptOnly /\ cfg.conversation
  /\ LET closing == [by |-> "close", req |-> req] IN
       IF CancelRequested THEN EndCancelled
       ELSE IF cfg.closeAck
         THEN /\ turns' = Append(turns, closing)
              /\ popup' = [popup EXCEPT !.turns = Append(@, closing)]
              /\ Goto("speakClose")
              /\ UNCHANGED archived
         ELSE EndSession("completed", "done", "close_phrase",
                         Append(turns, closing), popup.turns)
  /\ UNCHANGED recordFrame

(* RoutedTurnHandler.answer begins: the acknowledgement loop is started    *)
(* before the route is planned.                                            *)
RequestHeard ==
  /\ pc = "transcribe" /\ ~cfg.transcriptOnly
  /\ IF CancelRequested
       THEN EndCancelled /\ UNCHANGED <<req, acks>>
       ELSE /\ req' = req + 1
            /\ acks' = acks \cup {[req |-> req + 1, session |-> session, ready |-> FALSE]}
            /\ Goto("route")
            /\ UNCHANGED outputVars
  /\ UNCHANGED <<cfg, stop, session, turn, lane, history, pendingSeen, cancelled, delegationVars>>

-----------------------------------------------------------------------------
(* Routing and answering. *)

RoutePlanned ==
  /\ pc = "route"
  /\ IF CancelRequested
       THEN EndCancelled /\ UNCHANGED lane
       ELSE lane' \in Lanes /\ Goto("answer") /\ UNCHANGED outputVars
  /\ UNCHANGED <<cfg, stop, session, turn, req, history, pendingSeen, cancelled, acks,
                 delegationVars>>

(* Faulty variant: the acknowledgement is not told. *)
ReleaseNothing == UNCHANGED acks

(* answer_ready.set() in the finally of the answering call. *)
ReleaseAcks ==
  acks' = {IF a.req = req THEN [a EXCEPT !.ready = TRUE] ELSE a : a \in acks}

answerFrame == <<cfg, stop, session, turn, req, pendingSeen, cancelled>>

(* answer_routed_request returned a response: it is archived and shown     *)
(* before it is spoken.                                                    *)
Responded ==
  LET answered == [by |-> "answer", req |-> req] IN
  /\ ReleaseAcks
  /\ lane' = "unplanned"
  /\ IF CancelRequested THEN EndCancelled
     ELSE /\ turns' = Append(turns, answered)
          /\ archived' = [archived EXCEPT !.turns = turns']
          /\ popup' = [popup EXCEPT !.turns = Append(@, answered)]
          /\ Goto("answered")
  /\ UNCHANGED answerFrame

NoResponse ==
  /\ pc = "answer" /\ lane # "fixed"
  /\ ReleaseAcks
  /\ lane' = "unplanned"
  /\ IF CancelRequested THEN EndCancelled
     ELSE EndSession("completed", "error", "no_response", turns, popup.turns)
  /\ UNCHANGED <<answerFrame, history, delegationVars>>

FixedReply ==
  /\ pc = "answer" /\ lane = "fixed"
  /\ Responded
  /\ UNCHANGED <<history, delegationVars>>

SmallModelReply ==
  /\ pc = "answer" /\ lane = "small"
  /\ history' = Remember(history, req, "answer")
  /\ Responded
  /\ UNCHANGED delegationVars

(* The delegation gets the history without the placeholder that the        *)
(* session's own history is extended with.                                 *)
DelegatedReply ==
  /\ pc = "answer" /\ lane = "heavy"
  /\ MayDispatch(cfg.delegation)
  /\ \E linked \in BOOLEAN : Dispatch(req, history, linked)
  /\ history' = Remember(history, req, "working")
  /\ Responded

(* Inline Hermes: the small model gave nothing, the router is off, or the  *)
(* delegation is off, refused or busy.  The subprocess path speaks its     *)
(* error texts without keeping them in the history.                        *)
InlineReply ==
  /\ pc = "answer" /\ lane \in {"small", "heavy", "unplanned"}
  /\ history' \in {history, Remember(history, req, "answer")}
  /\ Responded
  /\ UNCHANGED delegationVars

-----------------------------------------------------------------------------
(* Speaking. *)

speakFrame == <<cfg, stop, session, req, lane, history, pendingSeen, cancelled, acks,
                delegationVars>>

(* Faulty variant: no look at the cancel flag before speaking. *)
BeginSpeakingUnchecked ==
  /\ pc = "answered"
  /\ Goto("speak")
  /\ UNCHANGED <<outputVars, speakFrame, turn>>

BeginSpeaking ==
  /\ pc = "answered"
  /\ IF CancelRequested THEN EndCancelled ELSE Goto("speak") /\ UNCHANGED outputVars
  /\ UNCHANGED <<speakFrame, turn>>

(* speak_response is over, played, failed or cut short by a cancel. *)
AfterSpeech(reason) ==
  /\ IF CancelRequested THEN EndCancelled /\ UNCHANGED turn
     ELSE IF ~cfg.conversation
       THEN EndSession("completed", "done", reason, turns, popup.turns) /\ UNCHANGED turn
       ELSE BackToTop /\ turn' = turn + 1
  /\ UNCHANGED speakFrame

AnswerSpoken == pc = "speak" /\ AfterSpeech("single_turn_complete")

DelegatedSpoken == pc = "speakDelegated" /\ AfterSpeech("delegated_heavy_complete")

CloseSpoken ==
  /\ pc = "speakClose"
  /\ IF CancelRequested THEN EndCancelled
     ELSE EndSession("completed", "done", "close_phrase", turns, popup.turns)
  /\ UNCHANGED <<speakFrame, turn>>

(* The microphone, the transcription, the router or the TTS tool raised:   *)
(* nothing is published.  Routing is outside the try whose finally sets    *)
(* answer_ready, so its acknowledgement loop is not told.                  *)
SessionRaises ==
  /\ pc \in {"record", "transcribe", "route", "speak", "speakDelegated", "speakClose"}
  /\ pc' = "idle" /\ ending' = "raised"
  /\ UNCHANGED <<cfg, stop, sessionVars, outputVars, cancelled, acks, delegationVars>>

(* The delegation rail or the inline turn raised, or the text that names   *)
(* the delegation could not be formatted: then the task already runs.  The *)
(* session's history is the one before the request.                        *)
AnsweringRaises ==
  /\ pc = "answer" /\ lane \in {"small", "heavy", "unplanned"}
  /\ pc' = "idle" /\ ending' = "raised"
  /\ ReleaseAcks
  /\ \/ UNCHANGED delegationVars
     \/ /\ lane = "heavy" /\ MayDispatch(cfg.delegation)
        /\ \E linked \in BOOLEAN : Dispatch(req, history, linked)
  /\ lane' = "unplanned"
  /\ UNCHANGED <<answerFrame, history, outputVars>>

-----------------------------------------------------------------------------
(* The other actors. *)

(* Ctrl-C in the popup, which writes the flag once and exits.  The popup   *)
(* of a stopped or raised session still shows it as active.  PopupState    *)
(* models how the flag gets there; one that gets lost is no step here.     *)
UserCancels ==
  /\ session > 0 /\ popup.status = "active" /\ ~CancelRequested
  /\ cancelled' = cancelled \cup {session}
  /\ UNCHANGED <<cfg, stop, pc, ending, sessionVars, outputVars, acks, delegationVars>>

StopSignal ==
  /\ ~stop
  /\ stop' = TRUE
  /\ UNCHANGED <<cfg, pc, ending, sessionVars, outputVars, cancelled, acks, delegationVars>>

WorkerFinishes ==
  /\ FinishDelegation
  /\ UNCHANGED <<cfg, stop, pc, ending, sessionVars, outputVars, cancelled, acks>>

AckEnds(a) ==
  /\ acks' = acks \ {a}
  /\ UNCHANGED <<cfg, stop, pc, ending, sessionVars, outputVars, cancelled, delegationVars>>

(* ack_cancel_requested: the answer is ready or the session is cancelled. *)
AckHearsEnd(a) == a \in acks /\ (a.ready \/ a.session \in cancelled) /\ AckEnds(a)

AckPlaybackFails(a) == a \in acks /\ AckEnds(a)

(* The process ends, or the bound on activations is reached. *)
Exhausted ==
  /\ pc = "idle" /\ (stop \/ session = MaxSessions)
  /\ UNCHANGED vars

(* What the session thread does by itself, the answering aside. *)
LoopStep ==
  \/ StopAtLoopHead \/ MaxTurnsReached \/ TakeDelegated \/ NothingDelegated
  \/ BeginRecording \/ RecordingCancelled \/ RecordingTimesOut \/ RecordingStopped
  \/ EmptyTranscript \/ TranscriptOnly \/ ClosePhrase \/ RequestHeard
  \/ RoutePlanned
  \/ BeginSpeaking \/ AnswerSpoken \/ DelegatedSpoken \/ CloseSpoken

AnswerStep == NoResponse \/ FixedReply \/ SmallModelReply \/ DelegatedReply \/ InlineReply

SessionStep == LoopStep \/ AnswerStep

Next ==
  \/ StartSession
  \/ SessionStep
  \/ UserSpeaks \/ SessionRaises \/ AnsweringRaises
  \/ UserCancels \/ StopSignal \/ WorkerFinishes
  \/ \E a \in acks : AckHearsEnd(a) \/ AckPlaybackFails(a)
  \/ Exhausted

(* A fixed reply needs nobody, and an inline turn that is cancelled or     *)
(* stopped is given up (HermesTurn); one that is not has no deadline.      *)
AnswerIsDue == lane \in {"fixed", "immediate"} \/ CancelRequested \/ stop

(* The session thread and the ack threads run on; the agent may hang, in   *)
(* the background for ever, and nobody has to speak, to cancel or to wake  *)
(* the assistant again.                                                    *)
Fairness ==
  /\ WF_vars(LoopStep)
  /\ WF_vars(AnswerIsDue /\ AnswerStep)
  /\ WF_vars(\E a \in acks : AckHearsEnd(a))

Spec == Init /\ [][Next]_vars /\ Fairness

-----------------------------------------------------------------------------
(* Properties. *)

(* The delegation table stays small however sessions end: one task runs at *)
(* most, and at most one result waits behind it, although results are only *)
(* collected at the loop head and outlive the session that asked for them. *)
DelegationBacklog ==
  /\ Cardinality(running) <= 1
  /\ Cardinality(running) + Len(finished) <= 2

Increasing(h) == \A i, j \in DOMAIN h : i < j => h[i].req < h[j].req

(* What Hermes is given as conversation so far never shows a request twice *)
(* (its placeholder and its answer) nor an answer before an earlier        *)
(* request: neither the live history nor one kept for a background task,   *)
(* which replaces the live one when the task's result is spoken.           *)
HistoryOrdered ==
  /\ Increasing(history)
  /\ \A t \in running : Increasing(t.history)
  /\ \A i \in DOMAIN finished : Increasing(finished[i].history)

(* `kept' is the beginning of ts, and what it lacks are no answers. *)
AnswersKept(kept, ts) ==
  /\ Len(kept) <= Len(ts)
  /\ \A i \in DOMAIN ts : IF i \in DOMAIN kept THEN kept[i] = ts[i] ELSE ts[i].by # "answer"

(* How a session ended is what its popup and its archive say, in both      *)
(* alike: cancelled, or closed with a reason.  One that is stopped at the  *)
(* loop head or that raised says nothing: its popup goes on showing it as  *)
(* active and its archive has no reason.  Every turn taken is in the       *)
(* archive, in its place, and every answer even if the session raised.     *)
SessionEndIsPublished ==
  pc = "idle" =>
    /\ ending = "cancelled" => popup.status = "cancelled" /\ archived.reason = "terminal_cancel"
    /\ ending = "completed" => /\ popup.status \in {"done", "error"}
                               /\ archived.reason \notin {"none", "terminal_cancel"}
    /\ ending \in {"stopped", "raised"} => popup.status = "active" /\ archived.reason = "none"
    /\ ending # "raised" => archived.turns = turns
    /\ AnswersKept(archived.turns, turns)

(* After the popup's cancel flag is set the session begins no recording,   *)
(* no routing, no answering and no speaking of an answer any more.  What   *)
(* an answering under way still does (a dispatch, an inline turn) and the  *)
(* telling of a delegated result, which begins without a look at the flag, *)
(* are not excluded.                                                       *)
CancelStopsNewWork ==
  [][CancelRequested /\ pc' # pc => pc' \notin {"record", "route", "answer", "speak"}]_vars

(* A cancelled session ends, wherever the cancel hit it. *)
CancelEndsSession == (pc # "idle" /\ CancelRequested) ~> (pc = "idle")

(* STOP ends the session under way, wherever it hits it, and none follows  *)
(* (a later activation of the server that clears it is ActivationServer's).*)
StopEndsSession == stop ~> [](pc = "idle")

(* The agent that answers inline is at work and nobody interrupts it. *)
AgentAtWork == pc = "answer" /\ ~CancelRequested /\ ~stop

(* The acknowledgement loop of a request that was routed ends: by the      *)
(* answer, by a failure of the answering or by the cancel of its session,  *)
(* unless the agent works on the answer for ever.  One whose routing       *)
(* raised is told nothing and is not among them.                           *)
AckLoopsEnd ==
  \A r \in 1..(MaxTurns * MaxSessions) :
    (pc = "answer" /\ req = r) ~> ((\A a \in acks : a.req # r) \/ []AgentAtWork)

(* A result that completes while the session listens with the short        *)
(* timeout is told, or the session ends, without the user's help; unless   *)
(* the user asks something else, on which the agent works for ever.        *)
AwaitedResultTold ==
  (pc = "record" /\ pendingSeen /\ finished # <<>>)
    ~> (pc \in {"speakDelegated", "idle"} \/ []AgentAtWork)

(* README.md:447: while a heavy delegation is running the short timeout is *)
(* used "so the daemon can poll and speak the final result automatically". *)
ResultSpokenAutomatically ==
  (pc = "record" /\ finished # <<>>) ~> (pc \in {"speakDelegated", "idle"} \/ []AgentAtWork)

Dialog == INSTANCE VoiceDialog WITH
  open     <- pc # "idle",
  asked    <- req,
  working  <- IF pc \in {"route", "answer"} THEN {req} ELSE {},
  promised <- {t.req : t \in running} \cup {finished[i].req : i \in DOMAIN finished},
  telling  <- IF pc = "speakDelegated" THEN {turns[Len(turns)].req} ELSE {}

(* Every step of the session loop, over several sessions and tasks, is a   *)
(* step of the dialog promised to the user: no request is worked on or     *)
(* told twice, and none is told outside a session.                         *)
DialogSteps == Dialog!Spec

=============================================================================
