-------------------------- MODULE VoiceSessionProofs --------------------------
(***************************************************************************)
(* What holds of the session loop for any number of turns and sessions and *)
(* any set of configurations.  The type invariant is proved in three parts *)
(* that lean on each other little: the control state, what the session     *)
(* shows and archives, and what Hermes remembers.                          *)
(***************************************************************************)
EXTENDS VoiceSession, FiniteSetTheorems, TLAPS

-----------------------------------------------------------------------------
(* The control state. *)

(* A running session has a number, and its turn is within the bound except *)
(* at the loop head, which looks at the bound.                             *)
InBounds ==
  /\ pc # "idle" => session \in 1..MaxSessions
  /\ pc \notin {"idle", "top"} => turn <= MaxTurns

ControlInv == ControlTypeOK /\ InBounds

LEMMA ReleaseAcksType ==
  ASSUME acks \in SUBSET Ack, ReleaseAcks
  PROVE  acks' \in SUBSET Ack
  BY DEF ReleaseAcks, Ack

LEMMA EndSessionControl ==
  ASSUME NEW how, NEW shown, NEW reason, NEW ts, NEW st, EndSession(how, shown, reason, ts, st)
  PROVE  pc' = "idle" /\ ending' = how
  BY DEF EndSession

LEMMA EndCancelledControl == EndCancelled => pc' = "idle" /\ ending' = "cancelled"
  BY DEF EndCancelled, EndSession

LEMMA NothingRecordedControl ==
  ASSUME NothingRecorded
  PROVE  /\ \/ pc' = "idle" /\ ending' \in {"cancelled", "completed"}
            \/ pc' = "top" /\ UNCHANGED ending
         /\ UNCHANGED recordFrame
  BY EndCancelledControl, EndSessionControl DEF NothingRecorded, BackToTop, Goto

LEMMA RespondedControl ==
  ASSUME Responded
  PROVE  /\ \/ pc' = "idle" /\ ending' = "cancelled"
            \/ pc' = "answered" /\ UNCHANGED ending
         /\ ReleaseAcks /\ lane' = "unplanned"
         /\ UNCHANGED answerFrame
  BY EndCancelledControl DEF Responded, Goto

LEMMA AfterSpeechControl ==
  ASSUME NEW reason, AfterSpeech(reason)
  PROVE  /\ \/ pc' = "idle" /\ ending' \in {"cancelled", "completed"} /\ UNCHANGED turn
            \/ pc' = "top" /\ UNCHANGED ending /\ turn' = turn + 1
         /\ UNCHANGED speakFrame
  BY EndCancelledControl, EndSessionControl DEF AfterSpeech, BackToTop, Goto

LEMMA AnsweringRaisesControl ==
  ASSUME AnsweringRaises
  PROVE  /\ pc = "answer" /\ pc' = "idle" /\ ending' = "raised"
         /\ ReleaseAcks /\ lane' = "unplanned"
         /\ UNCHANGED <<answerFrame, history, outputVars>>
         /\ \/ UNCHANGED <<running, finished>>
            \/ running = {} /\ \E linked \in BOOLEAN : Dispatch(req, history, linked)
  BY DEF AnsweringRaises, MayDispatch, HasPending, delegationVars

LEMMA ControlStep == ControlInv /\ [Next]_vars => ControlInv'
<1> SUFFICES ASSUME ControlInv, [Next]_vars PROVE ControlInv'
  OBVIOUS
<1> USE BoundsAssumption
    DEF ControlInv, ControlTypeOK, InBounds, Phases, Lanes, Goto, MoreTurns, sessionVars
<1>1. CASE StartSession
  BY <1>1 DEF StartSession
<1>2. CASE StopAtLoopHead
  BY <1>2 DEF StopAtLoopHead
<1>3. CASE MaxTurnsReached
  BY <1>3, EndSessionControl DEF MaxTurnsReached
<1>4. CASE TakeDelegated
  BY <1>4 DEF TakeDelegated
<1>5. CASE NothingDelegated
  BY <1>5 DEF NothingDelegated
<1>6. CASE BeginRecording
  BY <1>6, EndCancelledControl DEF BeginRecording, HasPending
<1>7. CASE RecordingCancelled \/ RecordingTimesOut \/ RecordingStopped \/ UserSpeaks
  <2>1. CASE NothingRecorded
    BY <1>7, <2>1, NothingRecordedControl
    DEF RecordingCancelled, RecordingTimesOut, RecordingStopped, UserSpeaks, recordFrame
  <2>2. CASE SpeechRecorded
    BY <1>7, <2>2 DEF RecordingCancelled, RecordingTimesOut, RecordingStopped, UserSpeaks,
      SpeechRecorded, recordFrame, NothingRecorded
  <2> QED
    BY <1>7, <2>1, <2>2 DEF RecordingCancelled, RecordingTimesOut, RecordingStopped, UserSpeaks
<1>8. CASE EmptyTranscript
  BY <1>8, EndCancelledControl, EndSessionControl DEF EmptyTranscript, BackToTop, recordFrame
<1>9. CASE TranscriptOnly
  BY <1>9, EndCancelledControl, EndSessionControl DEF TranscriptOnly, recordFrame
<1>10. CASE ClosePhrase
  BY <1>10, EndCancelledControl, EndSessionControl DEF ClosePhrase, recordFrame
<1>11. CASE RequestHeard
  <2>1. [req |-> req + 1, session |-> session, ready |-> FALSE] \in Ack
    BY <1>11 DEF RequestHeard, Ack
  <2>2. acks' \in SUBSET Ack
    BY <1>11, <2>1 DEF RequestHeard
  <2>3. req' \in Nat
    BY <1>11 DEF RequestHeard
  <2> QED
    BY <1>11, <2>2, <2>3, EndCancelledControl DEF RequestHeard
<1>12. CASE RoutePlanned
  BY <1>12, EndCancelledControl DEF RoutePlanned
<1>13. CASE NoResponse
  BY <1>13, EndCancelledControl, EndSessionControl, ReleaseAcksType DEF NoResponse, answerFrame
<1>14. CASE FixedReply \/ SmallModelReply \/ DelegatedReply \/ InlineReply
  BY <1>14, RespondedControl, ReleaseAcksType
  DEF FixedReply, SmallModelReply, DelegatedReply, InlineReply, answerFrame
<1>15. CASE BeginSpeaking
  BY <1>15, EndCancelledControl DEF BeginSpeaking, speakFrame
<1>16. CASE AnswerSpoken \/ DelegatedSpoken
  <2>1. pc \in {"speak", "speakDelegated"}
    BY <1>16 DEF AnswerSpoken, DelegatedSpoken
  <2>2. /\ \/ pc' = "idle" /\ ending' \in {"cancelled", "completed"} /\ UNCHANGED turn
           \/ pc' = "top" /\ UNCHANGED ending /\ turn' = turn + 1
        /\ UNCHANGED speakFrame
    <3>1. CASE AnswerSpoken
      BY <3>1, AfterSpeechControl DEF AnswerSpoken
    <3>2. CASE DelegatedSpoken
      BY <3>2, AfterSpeechControl DEF DelegatedSpoken
    <3> QED
      BY <1>16, <3>1, <3>2
  <2>3. turn \in 1..MaxTurns
    BY <2>1
  <2> QED
    BY <2>1, <2>2, <2>3 DEF speakFrame
<1>17. CASE CloseSpoken
  BY <1>17, EndCancelledControl, EndSessionControl DEF CloseSpoken, speakFrame
<1>18. CASE SessionRaises
  BY <1>18 DEF SessionRaises
<1>19. CASE UserCancels
  BY <1>19 DEF UserCancels, CancelRequested
<1>24. CASE AnsweringRaises
  BY <1>24, AnsweringRaisesControl, ReleaseAcksType DEF answerFrame
<1>20. CASE StopSignal
  BY <1>20 DEF StopSignal
<1>21. CASE WorkerFinishes
  BY <1>21 DEF WorkerFinishes
<1>22. CASE \E a \in acks : AckHearsEnd(a) \/ AckPlaybackFails(a)
  BY <1>22 DEF AckHearsEnd, AckPlaybackFails, AckEnds
<1>23. CASE UNCHANGED vars
  BY <1>23 DEF vars
<1> QED
  BY <1>1, <1>2, <1>3, <1>4, <1>5, <1>6, <1>7, <1>8, <1>9, <1>10, <1>11, <1>12, <1>13, <1>14,
     <1>15, <1>16, <1>17, <1>18, <1>19, <1>20, <1>21, <1>22, <1>23, <1>24
  DEF Next, SessionStep, LoopStep, AnswerStep, Exhausted

-----------------------------------------------------------------------------
(* What the session shows and archives. *)

LEMMA ShownTurns ==
  ASSUME OutputTypeOK
  PROVE  popup.turns \in Seq(Turn)
  BY DEF OutputTypeOK, Popup

(* A turn taken. *)
LEMMA TurnTaken ==
  ASSUME OutputTypeOK, NEW t \in Turn
  PROVE  /\ Append(turns, t) \in Seq(Turn)
         /\ [popup EXCEPT !.turns = Append(@, t)] \in Popup
<1>1. Append(turns, t) \in Seq(Turn)
  BY DEF OutputTypeOK
<1>2. Append(popup.turns, t) \in Seq(Turn)
  BY ShownTurns
<1>3. popup \in Popup
  BY DEF OutputTypeOK
<1>4. [popup EXCEPT !.turns = Append(popup.turns, t)] \in Popup
  BY <1>2, <1>3 DEF Popup
<1> QED
  BY <1>1, <1>4

LEMMA ArchiveTurns ==
  ASSUME OutputTypeOK, NEW ts \in Seq(Turn)
  PROVE  [archived EXCEPT !.turns = ts] \in Archive
  BY DEF OutputTypeOK, Archive

LEMMA EndSessionOutput ==
  ASSUME NEW how, NEW shown \in {"done", "error", "cancelled"}, NEW reason \in Reasons,
         NEW ts \in Seq(Turn), NEW st \in Seq(Turn),
         EndSession(how, shown, reason, ts, st)
  PROVE  OutputTypeOK'
  BY DEF EndSession, OutputTypeOK, Popup, Archive

LEMMA EndCancelledOutput == OutputTypeOK /\ EndCancelled => OutputTypeOK'
<1>1. "terminal_cancel" \in Reasons
  BY DEF Reasons
<1> QED
  BY <1>1, ShownTurns, EndSessionOutput DEF EndCancelled, OutputTypeOK

(* A session that ends with the turns it has. *)
LEMMA EndNormallyOutput ==
  ASSUME OutputTypeOK, NEW how, NEW shown \in {"done", "error"}, NEW reason \in Reasons,
         EndSession(how, shown, reason, turns, popup.turns)
  PROVE  OutputTypeOK'
  BY ShownTurns, EndSessionOutput DEF OutputTypeOK

LEMMA BackToTopOutput == OutputTypeOK /\ BackToTop => OutputTypeOK'
  BY ArchiveTurns DEF BackToTop, OutputTypeOK

LEMMA KeepOutput == OutputTypeOK /\ UNCHANGED outputVars => OutputTypeOK'
  BY DEF OutputTypeOK, outputVars

LEMMA NothingRecordedOutput == OutputTypeOK /\ NothingRecorded => OutputTypeOK'
<1>1. "no_speech_after_wake" \in Reasons
  BY DEF Reasons
<1> QED
  BY <1>1, EndCancelledOutput, EndNormallyOutput, BackToTopOutput DEF NothingRecorded

LEMMA RespondedOutput == OutputTypeOK /\ req \in Nat /\ Responded => OutputTypeOK'
<1> SUFFICES ASSUME OutputTypeOK, req \in Nat, Responded PROVE OutputTypeOK'
  OBVIOUS
<1>1. CASE CancelRequested
  BY <1>1, EndCancelledOutput DEF Responded
<1>2. CASE ~CancelRequested
  <2> DEFINE answered == [by |-> "answer", req |-> req]
  <2>1. answered \in Turn
    BY DEF Turn
  <2>2. /\ turns' = Append(turns, answered)
        /\ archived' = [archived EXCEPT !.turns = turns']
        /\ popup' = [popup EXCEPT !.turns = Append(@, answered)]
    BY <1>2 DEF Responded
  <2>3. turns' \in Seq(Turn) /\ popup' \in Popup
    BY <2>1, <2>2, TurnTaken
  <2> QED
    BY <2>2, <2>3, ArchiveTurns DEF OutputTypeOK
<1> QED
  BY <1>1, <1>2

LEMMA AfterSpeechOutput ==
  ASSUME OutputTypeOK, NEW reason \in Reasons, AfterSpeech(reason)
  PROVE  OutputTypeOK'
  BY EndCancelledOutput, EndNormallyOutput, BackToTopOutput DEF AfterSpeech

LEMMA TakeDelegatedOutput ==
  ASSUME OutputTypeOK, HistoryTypeOK, TakeDelegated
  PROVE  OutputTypeOK'
<1> DEFINE told == [by |-> "delegated", req |-> Head(finished).req]
<1>1. Head(finished) \in Result
  BY DEF TakeDelegated, PopCompleted, HistoryTypeOK, DelegationTypeOK
<1>2. told \in Turn
  BY <1>1 DEF Turn, Result
<1>3. /\ turns' = Append(turns, told)
      /\ archived' = [archived EXCEPT !.turns = turns]
      /\ popup' = [popup EXCEPT !.turns = Append(@, told)]
  BY DEF TakeDelegated
<1> QED
  BY <1>2, <1>3, TurnTaken, ArchiveTurns DEF OutputTypeOK

LEMMA TranscriptOnlyOutput ==
  ASSUME OutputTypeOK, req \in Nat, TranscriptOnly
  PROVE  OutputTypeOK'
<1> DEFINE heard == [by |-> "transcript", req |-> req]
<1>1. heard \in Turn /\ "transcript_only" \in Reasons
  BY DEF Turn, Reasons
<1>2. Append(turns, heard) \in Seq(Turn)
  BY <1>1, TurnTaken
<1> QED
  BY <1>1, <1>2, ShownTurns, EndCancelledOutput, EndSessionOutput DEF TranscriptOnly

LEMMA ClosePhraseOutput ==
  ASSUME OutputTypeOK, req \in Nat, ClosePhrase
  PROVE  OutputTypeOK'
<1> DEFINE closing == [by |-> "close", req |-> req]
<1>1. closing \in Turn /\ "close_phrase" \in Reasons
  BY DEF Turn, Reasons
<1>2. Append(turns, closing) \in Seq(Turn) /\ [popup EXCEPT !.turns = Append(@, closing)] \in Popup
  BY <1>1, TurnTaken
<1>3. CASE CancelRequested
  BY <1>3, EndCancelledOutput DEF ClosePhrase
<1>4. CASE ~CancelRequested /\ cfg.closeAck
  BY <1>2, <1>4 DEF ClosePhrase, OutputTypeOK
<1>5. CASE ~CancelRequested /\ ~cfg.closeAck
  BY <1>1, <1>2, <1>5, ShownTurns, EndSessionOutput DEF ClosePhrase
<1> QED
  BY <1>3, <1>4, <1>5

LEMMA OutputStep ==
  ASSUME OutputTypeOK, HistoryTypeOK, req \in Nat, [Next]_vars
  PROVE  OutputTypeOK'
<1>0. {"max_turns", "stt_empty_or_failed", "no_response", "single_turn_complete",
       "delegated_heavy_complete", "close_phrase"} \subseteq Reasons
  BY DEF Reasons
<1>1. CASE StartSession
  <2>1. <<>> \in Seq(Turn)
    OBVIOUS
  <2> QED
    BY <1>1, <2>1 DEF StartSession, OutputTypeOK, Popup, Archive
<1>2. CASE \/ StopAtLoopHead \/ NothingDelegated \/ SessionRaises \/ UserCancels \/ StopSignal
           \/ WorkerFinishes \/ UNCHANGED vars
           \/ \E a \in acks : AckHearsEnd(a) \/ AckPlaybackFails(a)
  BY <1>2, KeepOutput
  DEF StopAtLoopHead, NothingDelegated, SessionRaises, UserCancels, StopSignal, WorkerFinishes,
      AckHearsEnd, AckPlaybackFails, AckEnds, vars
<1>3. CASE MaxTurnsReached
  BY <1>0, <1>3, EndNormallyOutput DEF MaxTurnsReached
<1>4. CASE TakeDelegated
  BY <1>4, TakeDelegatedOutput
<1>5. CASE BeginRecording \/ RequestHeard \/ RoutePlanned \/ BeginSpeaking
  BY <1>5, EndCancelledOutput, KeepOutput DEF BeginRecording, RequestHeard, RoutePlanned, BeginSpeaking
<1>6. CASE RecordingCancelled \/ RecordingTimesOut \/ RecordingStopped \/ UserSpeaks
  <2>1. NothingRecorded \/ UNCHANGED outputVars
    BY <1>6 DEF RecordingCancelled, RecordingTimesOut, RecordingStopped, UserSpeaks, SpeechRecorded
  <2> QED
    BY <2>1, NothingRecordedOutput, KeepOutput
<1>7. CASE EmptyTranscript
  BY <1>0, <1>7, EndCancelledOutput, EndNormallyOutput, BackToTopOutput DEF EmptyTranscript
<1>8. CASE TranscriptOnly
  BY <1>8, TranscriptOnlyOutput
<1>9. CASE ClosePhrase
  BY <1>9, ClosePhraseOutput
<1>10. CASE NoResponse
  BY <1>0, <1>10, EndCancelledOutput, EndNormallyOutput DEF NoResponse
<1>11. CASE FixedReply \/ SmallModelReply \/ DelegatedReply \/ InlineReply
  BY <1>11, RespondedOutput DEF FixedReply, SmallModelReply, DelegatedReply, InlineReply
<1>12. CASE AnswerSpoken \/ DelegatedSpoken
  BY <1>0, <1>12, AfterSpeechOutput DEF AnswerSpoken, DelegatedSpoken
<1>13. CASE CloseSpoken
  BY <1>0, <1>13, EndCancelledOutput, EndNormallyOutput DEF CloseSpoken
<1>14. CASE AnsweringRaises
  BY <1>14, AnsweringRaisesControl, KeepOutput
<1> QED
  BY <1>1, <1>2, <1>3, <1>4, <1>5, <1>6, <1>7, <1>8, <1>9, <1>10, <1>11, <1>12, <1>13, <1>14
  DEF Next, SessionStep, LoopStep, AnswerStep, Exhausted

-----------------------------------------------------------------------------
(* What Hermes remembers: types and order.  A request is remembered once,  *)
(* because a history is extended only with the request at hand, which is   *)
(* newer than everything in it, and a task's history goes up to its own    *)
(* request.                                                                *)

Below(h, r) == \A i \in DOMAIN h : h[i].req < r

Ordered(h, r) == h \in Seq(Exchange) /\ Increasing(h) /\ Below(h, r)

HistoryInv ==
  /\ Ordered(history, req + 1)
  /\ pc \in {"route", "answer"} => Below(history, req)
  /\ running \in SUBSET Task
  /\ \A t \in running : t.req <= req /\ Ordered(t.history, t.req)
  /\ finished \in Seq(Result)
  /\ \A i \in DOMAIN finished : /\ finished[i].req <= req
                                /\ Ordered(finished[i].history, finished[i].req + 1)

(* Entries of histories and of the finished list carry request numbers. *)
LEMMA ExchangeReq ==
  ASSUME NEW h \in Seq(Exchange), NEW i \in DOMAIN h
  PROVE  h[i].req \in Nat
<1>1. h[i] \in Exchange
  OBVIOUS
<1> QED
  BY <1>1 DEF Exchange

LEMMA ResultReq ==
  ASSUME NEW f \in Seq(Result), NEW i \in DOMAIN f
  PROVE  f[i].req \in Nat
<1>1. f[i] \in Result
  OBVIOUS
<1> QED
  BY <1>1 DEF Result

LEMMA OrderedWeaker ==
  ASSUME NEW h, NEW r \in Nat, NEW q \in Nat, r <= q, Ordered(h, r)
  PROVE  Ordered(h, q)
<1>1. \A i \in DOMAIN h : h[i].req \in Nat
  BY ExchangeReq DEF Ordered
<1> QED
  BY <1>1 DEF Ordered, Below

(* Remembering a request newer than the history keeps it ordered. *)
LEMMA RememberOrdered ==
  ASSUME NEW h, NEW r \in Nat, NEW words \in {"working", "answer"}, Ordered(h, r)
  PROVE  Ordered(Remember(h, r, words), r + 1)
<1> DEFINE e == [req |-> r, said |-> words]
           g == Append(h, e)
<1>1. h \in Seq(Exchange) /\ e \in Exchange /\ g = Remember(h, r, words)
  BY DEF Ordered, Exchange, Remember
<1>2. /\ g \in Seq(Exchange)
      /\ Len(g) = Len(h) + 1 /\ Len(h) \in Nat
      /\ DOMAIN g = 1..(Len(h) + 1) /\ DOMAIN h = 1..Len(h)
      /\ \A i \in 1..Len(h) : g[i] = h[i]
      /\ g[Len(h) + 1] = e
  BY <1>1
<1>3. \A i \in 1..Len(h) : h[i].req \in Nat /\ h[i].req < r
  BY <1>1, <1>2, ExchangeReq DEF Ordered, Below
<1>4. Below(g, r + 1)
  <2> SUFFICES ASSUME NEW i \in 1..(Len(h) + 1) PROVE g[i].req < r + 1
    BY <1>2 DEF Below
  <2> QED
    BY <1>2, <1>3
<1>5. Increasing(g)
  <2> SUFFICES ASSUME NEW i \in 1..(Len(h) + 1), NEW j \in 1..(Len(h) + 1), i < j
               PROVE  g[i].req < g[j].req
    BY <1>2 DEF Increasing
  <2>1. CASE j = Len(h) + 1
    BY <1>2, <1>3, <2>1
  <2>2. CASE j # Len(h) + 1
    <3>1. i \in 1..Len(h) /\ j \in 1..Len(h)
      BY <1>2, <2>2
    <3> QED
      BY <1>2, <3>1 DEF Ordered, Increasing
  <2> QED
    BY <2>1, <2>2
<1> QED
  BY <1>1, <1>2, <1>4, <1>5 DEF Ordered

(* Where a history may go from one step to the next when no request is     *)
(* heard: it stays, or the answered request is remembered.                 *)
LEMMA AnsweredHistory ==
  ASSUME HistoryInv, req \in Nat, pc = "answer", NEW words \in {"working", "answer"}
  PROVE  /\ Ordered(history, req)
         /\ Ordered(Remember(history, req, words), req + 1)
  BY RememberOrdered DEF HistoryInv, Ordered

(* Dispatching hands the history before the answer to the task, whether    *)
(* the session then goes on with the placeholder or raises.                *)
LEMMA DispatchedHistory ==
  ASSUME HistoryInv, req \in Nat, pc = "answer", pc' \notin {"route", "answer"}, req' = req,
         NEW linked \in BOOLEAN, Dispatch(req, history, linked),
         history' \in {history, Remember(history, req, "working")}
  PROVE  HistoryInv'
<1> DEFINE task == [req |-> req, history |-> history, linked |-> linked]
<1>1. running' = running \cup {task} /\ finished' = finished
  BY DEF Dispatch
<1>2. /\ Ordered(history, req) /\ Ordered(Remember(history, req, "working"), req + 1)
  BY AnsweredHistory
<1>3. Ordered(history', req + 1)
  BY <1>2 DEF HistoryInv
<1>4. task \in Task
  BY <1>2 DEF Task, Ordered
<1>5. \A t \in running' : t.req <= req /\ Ordered(t.history, t.req)
  BY <1>1, <1>2 DEF HistoryInv
<1> QED
  BY <1>1, <1>3, <1>4, <1>5 DEF HistoryInv

LEMMA DelegatedHistory ==
  ASSUME HistoryInv, req \in Nat, DelegatedReply
  PROVE  HistoryInv'
<1>1. PICK linked \in BOOLEAN : Dispatch(req, history, linked)
  BY DEF DelegatedReply
<1>2. /\ history' = Remember(history, req, "working")
      /\ req' = req /\ pc = "answer" /\ pc' \notin {"route", "answer"}
  BY RespondedControl DEF DelegatedReply, answerFrame
<1> QED
  BY <1>1, <1>2, DispatchedHistory

LEMMA RaisedHistory ==
  ASSUME HistoryInv, req \in Nat, AnsweringRaises
  PROVE  HistoryInv'
<1>1. /\ pc = "answer" /\ pc' \notin {"route", "answer"} /\ req' = req /\ history' = history
      /\ \/ UNCHANGED <<running, finished>>
         \/ \E linked \in BOOLEAN : Dispatch(req, history, linked)
  BY AnsweringRaisesControl DEF answerFrame
<1>2. CASE UNCHANGED <<running, finished>>
  BY <1>1, <1>2 DEF HistoryInv
<1>3. CASE \E linked \in BOOLEAN : Dispatch(req, history, linked)
  BY <1>1, <1>3, DispatchedHistory
<1> QED
  BY <1>1, <1>2, <1>3

(* A finished task's history goes up to its own request. *)
LEMMA FinishedHistory ==
  ASSUME HistoryInv, req \in Nat, WorkerFinishes
  PROVE  HistoryInv'
<1>0. PICK t \in running : \E h \in {t.history, Remember(t.history, t.req, "answer")} :
        /\ running' = running \ {t}
        /\ finished' = Append(finished, [req |-> t.req, history |-> h])
  BY DEF WorkerFinishes, FinishDelegation
<1>1. PICK h \in {t.history, Remember(t.history, t.req, "answer")} :
        /\ running' = running \ {t}
        /\ finished' = Append(finished, [req |-> t.req, history |-> h])
  BY <1>0
<1> DEFINE result == [req |-> t.req, history |-> h]
<1>2. t \in Task /\ t.req \in Nat /\ t.req <= req /\ Ordered(t.history, t.req)
  BY DEF HistoryInv, Task
<1>3. Ordered(h, t.req + 1)
  <2>1. Ordered(t.history, t.req + 1)
    BY <1>2, OrderedWeaker
  <2>2. Ordered(Remember(t.history, t.req, "answer"), t.req + 1)
    BY <1>2, RememberOrdered
  <2> QED
    BY <2>1, <2>2
<1>4. result \in Result
  BY <1>2, <1>3 DEF Result, Ordered
<1>5. finished \in Seq(Result)
  BY DEF HistoryInv
<1>6. /\ finished' \in Seq(Result)
      /\ DOMAIN finished' = 1..(Len(finished) + 1) /\ DOMAIN finished = 1..Len(finished)
      /\ \A i \in 1..Len(finished) : finished'[i] = finished[i]
      /\ finished'[Len(finished) + 1] = result
      /\ Len(finished) \in Nat
  BY <1>1, <1>4, <1>5
<1>7. ASSUME NEW i \in DOMAIN finished'
      PROVE  finished'[i].req <= req /\ Ordered(finished'[i].history, finished'[i].req + 1)
  <2>1. CASE i = Len(finished) + 1
    BY <1>2, <1>3, <1>6, <2>1
  <2>2. CASE i # Len(finished) + 1
    <3>1. i \in DOMAIN finished /\ finished'[i] = finished[i]
      BY <1>6, <2>2
    <3> QED
      BY <3>1 DEF HistoryInv
  <2> QED
    BY <2>1, <2>2
<1>8. UNCHANGED <<history, req, pc>>
  BY DEF WorkerFinishes, sessionVars
<1>9. running' \in SUBSET Task /\ \A u \in running' : u.req <= req /\ Ordered(u.history, u.req)
  BY <1>1 DEF HistoryInv
<1> QED
  BY <1>6, <1>7, <1>8, <1>9 DEF HistoryInv

(* Its result brings the history back, which may end before the latest     *)
(* request.                                                                *)
LEMMA ToldHistory ==
  ASSUME HistoryInv, req \in Nat, TakeDelegated
  PROVE  HistoryInv'
<1>1. /\ finished \in Seq(Result) /\ finished # <<>>
      /\ finished' = Tail(finished) /\ running' = running
      /\ history' = Head(finished).history
      /\ req' = req /\ pc' = "speakDelegated"
  BY DEF TakeDelegated, PopCompleted, HistoryInv, Goto
<1>2. /\ Len(finished) \in Nat /\ 1 \in DOMAIN finished /\ Head(finished) = finished[1]
      /\ finished' \in Seq(Result)
      /\ DOMAIN finished' = 1..(Len(finished) - 1) /\ DOMAIN finished = 1..Len(finished)
      /\ \A i \in 1..(Len(finished) - 1) : finished'[i] = finished[i + 1]
  BY <1>1
<1>3. finished[1].req \in Nat /\ finished[1].req <= req
  BY <1>1, <1>2, ResultReq DEF HistoryInv
<1>4. Ordered(history', req + 1)
  BY <1>1, <1>2, <1>3, OrderedWeaker DEF HistoryInv
<1>5. \A i \in DOMAIN finished' : /\ finished'[i].req <= req
                                  /\ Ordered(finished'[i].history, finished'[i].req + 1)
  <2> TAKE i \in DOMAIN finished'
  <2>1. i + 1 \in DOMAIN finished /\ finished'[i] = finished[i + 1]
    BY <1>2
  <2> QED
    BY <2>1 DEF HistoryInv
<1> QED
  BY <1>1, <1>2, <1>4, <1>5 DEF HistoryInv

(* A newly heard request is newer than everything remembered. *)
LEMMA HeardHistory ==
  ASSUME HistoryInv, req \in Nat, RequestHeard
  PROVE  HistoryInv'
<1>1. /\ \/ req' = req /\ pc' = "idle"
         \/ req' = req + 1 /\ pc' = "route"
      /\ UNCHANGED <<history, running, finished>>
  BY EndCancelledControl DEF RequestHeard, Goto, delegationVars
<1>2. CASE req' = req
  BY <1>1, <1>2 DEF HistoryInv
<1>3. CASE req' = req + 1
  <2>1. Ordered(history, req' + 1) /\ Below(history, req')
    BY <1>3, OrderedWeaker DEF HistoryInv, Ordered
  <2>2. \A t \in running : t.req <= req'
    BY <1>3 DEF HistoryInv, Task
  <2>3. \A i \in DOMAIN finished : finished[i].req <= req'
    BY <1>3, ResultReq DEF HistoryInv
  <2> QED
    BY <1>1, <2>1, <2>2, <2>3 DEF HistoryInv
<1> QED
  BY <1>1, <1>2, <1>3

LEMMA HistoryStep ==
  ASSUME HistoryInv, req \in Nat, [Next]_vars
  PROVE  HistoryInv'
<1>1. CASE StartSession
  <2>1. Ordered(<<>>, req + 1)
    BY DEF Ordered, Increasing, Below
  <2> QED
    BY <1>1, <2>1 DEF StartSession, HistoryInv, delegationVars, Goto
<1>2. CASE TakeDelegated
  BY <1>2, ToldHistory
<1>3. CASE RequestHeard
  BY <1>3, HeardHistory
<1>4. CASE DelegatedReply
  BY <1>4, DelegatedHistory
<1>5. CASE FixedReply \/ SmallModelReply \/ InlineReply
  <2>1. /\ pc = "answer" /\ pc' \notin {"route", "answer"} /\ req' = req
        /\ UNCHANGED <<running, finished>>
        /\ history' \in {history, Remember(history, req, "answer")}
    BY <1>5, RespondedControl DEF FixedReply, SmallModelReply, InlineReply, answerFrame, delegationVars
  <2>2. Ordered(history', req + 1)
    BY <2>1, AnsweredHistory, OrderedWeaker DEF HistoryInv
  <2> QED
    BY <2>1, <2>2 DEF HistoryInv
<1>6. CASE WorkerFinishes
  BY <1>6, FinishedHistory
<1>7. CASE RoutePlanned
  BY <1>7, EndCancelledControl DEF RoutePlanned, HistoryInv, delegationVars
<1>8. CASE \/ StopAtLoopHead \/ MaxTurnsReached \/ NothingDelegated \/ BeginRecording
           \/ EmptyTranscript \/ TranscriptOnly \/ ClosePhrase \/ NoResponse \/ BeginSpeaking
           \/ CloseSpoken \/ SessionRaises
  <2>1. /\ pc' \notin {"route", "answer"}
        /\ UNCHANGED <<history, req, running, finished>>
    BY <1>8, EndCancelledControl, EndSessionControl
    DEF StopAtLoopHead, MaxTurnsReached, NothingDelegated, BeginRecording, EmptyTranscript,
        TranscriptOnly, ClosePhrase, NoResponse, BeginSpeaking, CloseSpoken, SessionRaises, BackToTop,
        sessionVars, recordFrame, speakFrame, answerFrame, delegationVars, Goto
  <2> QED
    BY <2>1 DEF HistoryInv
<1>9. CASE RecordingCancelled \/ RecordingTimesOut \/ RecordingStopped \/ UserSpeaks
  <2>1. NothingRecorded \/ SpeechRecorded
    BY <1>9 DEF RecordingCancelled, RecordingTimesOut, RecordingStopped, UserSpeaks
  <2>2. /\ pc' \notin {"route", "answer"}
        /\ UNCHANGED <<history, req, running, finished>>
    BY <2>1, NothingRecordedControl DEF SpeechRecorded, recordFrame, sessionVars, delegationVars, Goto
  <2> QED
    BY <2>2 DEF HistoryInv
<1>10. CASE AnswerSpoken \/ DelegatedSpoken
  <2>1. /\ pc' \notin {"route", "answer"}
        /\ UNCHANGED <<history, req, running, finished>>
    BY <1>10, AfterSpeechControl DEF AnswerSpoken, DelegatedSpoken, speakFrame, delegationVars
  <2> QED
    BY <2>1 DEF HistoryInv
<1>11. CASE \/ UserCancels \/ StopSignal \/ UNCHANGED vars
            \/ \E a \in acks : AckHearsEnd(a) \/ AckPlaybackFails(a)
  <2>1. UNCHANGED <<pc, history, req, running, finished>>
    BY <1>11 DEF UserCancels, StopSignal, AckHearsEnd, AckPlaybackFails, AckEnds, vars, sessionVars,
      delegationVars
  <2> QED
    BY <2>1 DEF HistoryInv
<1>12. CASE AnsweringRaises
  BY <1>12, RaisedHistory
<1> QED
  BY <1>1, <1>2, <1>3, <1>4, <1>5, <1>6, <1>7, <1>8, <1>9, <1>10, <1>11, <1>12
  DEF Next, SessionStep, LoopStep, AnswerStep, Exhausted

-----------------------------------------------------------------------------
(* The delegation table.  A session goes on to listen, and may delegate,   *)
(* only after it found no finished result, so at that point at most one    *)
(* entry is in the table; the bound of two is reached when a result comes  *)
(* in between and the next request is delegated.                           *)

BacklogInv ==
  /\ running = {} \/ \E t \in running : running = {t}
  /\ running = {} => Len(finished) <= 2
  /\ running # {} => Len(finished) <= 1
  /\ pc \in {"poll", "record", "transcribe", "route", "answer"} =>
       (running = {} => Len(finished) <= 1) /\ (running # {} => finished = <<>>)

LEMMA BacklogIsBounded ==
  ASSUME BacklogInv, finished \in Seq(Result)
  PROVE  DelegationBacklog
<1>1. CASE running = {}
  <2>1. Cardinality(running) = 0
    BY <1>1, FS_EmptySet
  <2> QED
    BY <1>1, <2>1 DEF BacklogInv, DelegationBacklog
<1>2. CASE running # {}
  <2>1. PICK t \in running : running = {t}
    BY <1>2 DEF BacklogInv
  <2>2. Cardinality(running) = 1
    BY <2>1, FS_Singleton
  <2> QED
    BY <1>2, <2>2 DEF BacklogInv, DelegationBacklog
<1> QED
  BY <1>1, <1>2

Listening == {"poll", "record", "transcribe", "route", "answer"}

LEMMA BacklogStep ==
  ASSUME BacklogInv, finished \in Seq(Result), [Next]_vars
  PROVE  BacklogInv'
<1>0. Len(finished) \in Nat
  OBVIOUS
<1>1. CASE TakeDelegated
  <2>1. /\ running' = running /\ Len(finished') = Len(finished) - 1
        /\ finished # <<>> /\ Len(finished) > 0 /\ pc' = "speakDelegated"
    BY <1>1 DEF TakeDelegated, PopCompleted, Goto
  <2> QED
    BY <1>0, <2>1 DEF BacklogInv
<1>2. CASE DelegatedReply
  <2>1. PICK linked \in BOOLEAN : Dispatch(req, history, linked)
    BY <1>2 DEF DelegatedReply
  <2>2. /\ running = {} /\ running' = {[req |-> req, history |-> history, linked |-> linked]}
        /\ finished' = finished /\ pc = "answer" /\ pc' \notin Listening
    BY <1>2, <2>1, RespondedControl DEF DelegatedReply, MayDispatch, HasPending, Dispatch, Listening
  <2> QED
    BY <2>2 DEF BacklogInv, Listening
<1>3. CASE WorkerFinishes
  <2>1. PICK t \in running : \E h \in {t.history, Remember(t.history, t.req, "answer")} :
          /\ running' = running \ {t}
          /\ finished' = Append(finished, [req |-> t.req, history |-> h])
    BY <1>3 DEF WorkerFinishes, FinishDelegation
  <2>2. running' = {} /\ running # {}
    BY <2>1 DEF BacklogInv
  <2>3. Len(finished') = Len(finished) + 1
    BY <2>1
  <2>4. pc' = pc /\ (finished = <<>> => Len(finished) = 0)
    BY <1>3 DEF WorkerFinishes
  <2> QED
    BY <1>0, <2>2, <2>3, <2>4 DEF BacklogInv
<1>4. CASE NothingDelegated
  BY <1>4 DEF NothingDelegated, BacklogInv, delegationVars, Goto
<1>5. CASE \/ StartSession \/ StopAtLoopHead \/ MaxTurnsReached \/ EmptyTranscript \/ TranscriptOnly
           \/ ClosePhrase \/ NoResponse \/ BeginSpeaking \/ CloseSpoken \/ SessionRaises
  <2>1. pc' \notin Listening /\ UNCHANGED <<running, finished>>
    BY <1>5, EndCancelledControl, EndSessionControl
    DEF StartSession, StopAtLoopHead, MaxTurnsReached, EmptyTranscript, TranscriptOnly, ClosePhrase,
        NoResponse, BeginSpeaking, CloseSpoken, SessionRaises, BackToTop, recordFrame, speakFrame,
        answerFrame, delegationVars, Goto, Listening
  <2> QED
    BY <2>1 DEF BacklogInv, Listening
<1>6. CASE FixedReply \/ SmallModelReply \/ InlineReply
  <2>1. pc' \notin Listening /\ UNCHANGED <<running, finished>>
    BY <1>6, RespondedControl DEF FixedReply, SmallModelReply, InlineReply, delegationVars, Listening
  <2> QED
    BY <2>1 DEF BacklogInv, Listening
<1>7. CASE AnswerSpoken \/ DelegatedSpoken
  <2>1. pc' \notin Listening /\ UNCHANGED <<running, finished>>
    BY <1>7, AfterSpeechControl DEF AnswerSpoken, DelegatedSpoken, speakFrame, delegationVars, Listening
  <2> QED
    BY <2>1 DEF BacklogInv, Listening
<1>8. CASE BeginRecording \/ RequestHeard \/ RoutePlanned
  <2>1. pc \in Listening /\ UNCHANGED <<running, finished>>
    BY <1>8 DEF BeginRecording, RequestHeard, RoutePlanned, delegationVars, Listening
  <2> QED
    BY <2>1 DEF BacklogInv, Listening
<1>9. CASE RecordingCancelled \/ RecordingTimesOut \/ RecordingStopped \/ UserSpeaks
  <2>1. pc \in Listening /\ UNCHANGED <<running, finished>>
    BY <1>9, NothingRecordedControl
    DEF RecordingCancelled, RecordingTimesOut, RecordingStopped, UserSpeaks, SpeechRecorded,
        recordFrame, delegationVars, Listening
  <2> QED
    BY <2>1 DEF BacklogInv, Listening
<1>10. CASE \/ UserCancels \/ StopSignal \/ UNCHANGED vars
            \/ \E a \in acks : AckHearsEnd(a) \/ AckPlaybackFails(a)
  <2>1. UNCHANGED <<pc, running, finished>>
    BY <1>10 DEF UserCancels, StopSignal, AckHearsEnd, AckPlaybackFails, AckEnds, vars, delegationVars
  <2> QED
    BY <2>1 DEF BacklogInv
<1>11. CASE AnsweringRaises
  <2>1. /\ pc = "answer" /\ pc' \notin Listening
        /\ \/ UNCHANGED <<running, finished>>
           \/ running = {} /\ \E linked \in BOOLEAN : Dispatch(req, history, linked)
    BY <1>11, AnsweringRaisesControl DEF Listening
  <2>2. CASE UNCHANGED <<running, finished>>
    BY <2>1, <2>2 DEF BacklogInv, Listening
  <2>3. CASE running = {} /\ \E linked \in BOOLEAN : Dispatch(req, history, linked)
    <3>1. PICK linked \in BOOLEAN : Dispatch(req, history, linked)
      BY <2>3
    <3>2. /\ running' = {[req |-> req, history |-> history, linked |-> linked]}
          /\ finished' = finished
      BY <2>3, <3>1 DEF Dispatch
    <3> QED
      BY <2>1, <2>3, <3>2 DEF BacklogInv, Listening
  <2> QED
    BY <2>1, <2>2, <2>3
<1> QED
  BY <1>1, <1>2, <1>3, <1>4, <1>5, <1>6, <1>7, <1>8, <1>9, <1>10, <1>11
  DEF Next, SessionStep, LoopStep, AnswerStep, Exhausted

-----------------------------------------------------------------------------
(* What a session leaves behind.  Its archive may lag behind its turns     *)
(* while the session goes on, but never by an answer, and at the loop      *)
(* head, where it may be stopped, not at all; and nothing but its end says *)
(* that it ended.                                                          *)

StillOpen == popup.status = "active" /\ archived.reason = "none"

EndInv ==
  /\ AnswersKept(archived.turns, turns)
  /\ pc # "idle" => StillOpen
  /\ pc = "top" => archived.turns = turns
  /\ SessionEndIsPublished

LEMMA ArchivedTurns == OutputTypeOK => archived.turns \in Seq(Turn)
  BY DEF OutputTypeOK, Archive

LEMMA AllKept ==
  ASSUME NEW ts \in Seq(Turn)
  PROVE  AnswersKept(ts, ts)
  BY DEF AnswersKept

(* The archive may miss a turn that is no answer. *)
LEMMA AnswersStillKept ==
  ASSUME NEW kept \in Seq(Turn), NEW ts \in Seq(Turn), AnswersKept(kept, ts),
         NEW t \in Turn, t.by # "answer"
  PROVE  AnswersKept(kept, Append(ts, t))
<1> DEFINE g == Append(ts, t)
<1>1. /\ Len(g) = Len(ts) + 1 /\ Len(ts) \in Nat /\ Len(kept) \in Nat
      /\ DOMAIN g = 1..(Len(ts) + 1) /\ DOMAIN ts = 1..Len(ts) /\ DOMAIN kept = 1..Len(kept)
      /\ \A i \in 1..Len(ts) : g[i] = ts[i]
      /\ g[Len(ts) + 1] = t
  OBVIOUS
<1>2. Len(kept) <= Len(ts)
  BY DEF AnswersKept
<1>3. ASSUME NEW i \in DOMAIN g
      PROVE  IF i \in DOMAIN kept THEN kept[i] = g[i] ELSE g[i].by # "answer"
  <2>1. CASE i \in DOMAIN ts
    BY <1>1, <2>1 DEF AnswersKept
  <2>2. CASE i = Len(ts) + 1
    BY <1>1, <1>2, <2>2
  <2> QED
    BY <1>1, <1>3, <2>1, <2>2
<1> HIDE DEF g
<1>4. AnswersKept(kept, g)
  BY <1>1, <1>2, <1>3 DEF AnswersKept
<1> QED
  BY <1>4 DEF g

LEMMA EndSessionPublishes ==
  ASSUME NEW how, NEW shown, NEW reason, NEW ts \in Seq(Turn), NEW st,
         EndSession(how, shown, reason, ts, st),
         \/ how = "cancelled" /\ shown = "cancelled" /\ reason = "terminal_cancel"
         \/ /\ how = "completed" /\ shown \in {"done", "error"}
            /\ reason \notin {"none", "terminal_cancel"}
  PROVE  EndInv'
<1>1. /\ pc' = "idle" /\ ending' = how /\ popup'.status = shown
      /\ archived'.reason = reason /\ archived'.turns = ts /\ turns' = ts
  BY DEF EndSession
<1> QED
  BY <1>1, AllKept DEF EndInv, SessionEndIsPublished

LEMMA EndCancelledPublishes == OutputTypeOK /\ EndCancelled => EndInv'
  BY EndSessionPublishes DEF EndCancelled, OutputTypeOK

LEMMA EndNormallyPublishes ==
  ASSUME OutputTypeOK, NEW shown \in {"done", "error"}, NEW reason,
         reason \notin {"none", "terminal_cancel"},
         EndSession("completed", shown, reason, turns, popup.turns)
  PROVE  EndInv'
  BY EndSessionPublishes DEF OutputTypeOK

LEMMA BackToTopPublishes ==
  ASSUME OutputTypeOK, EndInv, pc # "idle", BackToTop
  PROVE  EndInv'
<1>1. /\ pc' = "top" /\ turns' = turns /\ archived'.turns = turns
      /\ archived'.reason = archived.reason /\ popup' = popup
  BY DEF BackToTop, Goto, OutputTypeOK, Archive
<1> QED
  BY <1>1, AllKept DEF EndInv, StillOpen, SessionEndIsPublished, OutputTypeOK

(* The session goes on without a turn. *)
LEMMA GoesOn ==
  ASSUME EndInv, pc # "idle", UNCHANGED outputVars, pc' \notin {"idle", "top"}
  PROVE  EndInv'
  BY DEF EndInv, StillOpen, SessionEndIsPublished, outputVars

(* The session goes on with a turn that its archive does not have yet. *)
LEMMA GoesOnWithTurn ==
  ASSUME EndInv, OutputTypeOK, pc # "idle", NEW t \in Turn, t.by # "answer",
         turns' = Append(turns, t), popup'.status = popup.status,
         archived'.turns = archived.turns, archived'.reason = archived.reason,
         pc' \notin {"idle", "top"}
  PROVE  EndInv'
<1>1. AnswersKept(archived.turns, Append(turns, t))
  BY ArchivedTurns, AnswersStillKept DEF EndInv, OutputTypeOK
<1> QED
  BY <1>1 DEF EndInv, StillOpen, SessionEndIsPublished

LEMMA RespondedPublishes ==
  ASSUME OutputTypeOK, EndInv, req \in Nat, pc # "idle", Responded
  PROVE  EndInv'
<1>1. CASE CancelRequested
  BY <1>1, EndCancelledPublishes DEF Responded
<1>2. CASE ~CancelRequested
  <2> DEFINE answered == [by |-> "answer", req |-> req]
  <2>1. answered \in Turn
    BY DEF Turn
  <2>2. Append(turns, answered) \in Seq(Turn)
    BY <2>1, TurnTaken
  <2>3. /\ turns' = Append(turns, answered) /\ archived'.turns = turns' /\ pc' = "answered"
        /\ archived'.reason = archived.reason
    BY <1>2 DEF Responded, Goto, OutputTypeOK, Archive
  <2>4. popup'.status = popup.status
    BY <1>2 DEF Responded, OutputTypeOK, Popup
  <2> QED
    BY <2>2, <2>3, <2>4, AllKept DEF EndInv, StillOpen, SessionEndIsPublished
<1> QED
  BY <1>1, <1>2

LEMMA EndStep ==
  ASSUME EndInv, OutputTypeOK, HistoryTypeOK, req \in Nat, [Next]_vars
  PROVE  EndInv'
<1>1. CASE StartSession
  <2>1. /\ pc' = "top" /\ turns' = <<>> /\ archived'.turns = <<>> /\ <<>> \in Seq(Turn)
        /\ popup'.status = "active" /\ archived'.reason = "none"
    BY <1>1 DEF StartSession, Goto
  <2> QED
    BY <2>1, AllKept DEF EndInv, StillOpen, SessionEndIsPublished
<1>2. CASE StopAtLoopHead \/ SessionRaises \/ AnsweringRaises
  <2>1. /\ pc # "idle" /\ pc' = "idle" /\ UNCHANGED outputVars
        /\ \/ pc = "top" /\ ending' = "stopped"
           \/ ending' = "raised"
    BY <1>2, AnsweringRaisesControl DEF StopAtLoopHead, SessionRaises
  <2> QED
    BY <2>1 DEF EndInv, StillOpen, SessionEndIsPublished, outputVars
<1>3. CASE MaxTurnsReached
  BY <1>3, EndNormallyPublishes DEF MaxTurnsReached
<1>4. CASE TakeDelegated
  <2> DEFINE told == [by |-> "delegated", req |-> Head(finished).req]
  <2>1. Head(finished) \in Result
    BY <1>4 DEF TakeDelegated, PopCompleted, HistoryTypeOK, DelegationTypeOK
  <2>2. told \in Turn /\ told.by # "answer"
    BY <2>1 DEF Turn, Result
  <2>3. /\ turns' = Append(turns, told) /\ archived'.turns = turns /\ pc' = "speakDelegated"
        /\ pc = "top" /\ archived'.reason = archived.reason
    BY <1>4 DEF TakeDelegated, Goto, OutputTypeOK, Archive
  <2>4. archived'.turns = archived.turns
    BY <2>3 DEF EndInv
  <2>5. popup'.status = popup.status
    BY <1>4 DEF TakeDelegated, OutputTypeOK, Popup
  <2> QED
    BY <2>2, <2>3, <2>4, <2>5, GoesOnWithTurn
<1>5. CASE NothingDelegated
  BY <1>5, GoesOn DEF NothingDelegated, Goto
<1>6. CASE BeginRecording \/ RequestHeard \/ RoutePlanned \/ BeginSpeaking
  <2>1. \/ EndCancelled
        \/ /\ pc # "idle" /\ UNCHANGED outputVars
           /\ pc' \in {"record", "route", "answer", "speak"}
    BY <1>6 DEF BeginRecording, RequestHeard, RoutePlanned, BeginSpeaking, Goto
  <2> QED
    BY <2>1, EndCancelledPublishes, GoesOn
<1>7. CASE RecordingCancelled \/ RecordingTimesOut \/ RecordingStopped \/ UserSpeaks
  <2>1. pc = "record" /\ (NothingRecorded \/ SpeechRecorded)
    BY <1>7 DEF RecordingCancelled, RecordingTimesOut, RecordingStopped, UserSpeaks
  <2>2. CASE NothingRecorded
    BY <2>1, <2>2, EndCancelledPublishes, EndNormallyPublishes, BackToTopPublishes
    DEF NothingRecorded
  <2>3. CASE SpeechRecorded
    BY <2>1, <2>3, GoesOn DEF SpeechRecorded, Goto
  <2> QED
    BY <2>1, <2>2, <2>3
<1>8. CASE EmptyTranscript
  BY <1>8, EndCancelledPublishes, EndNormallyPublishes, BackToTopPublishes DEF EmptyTranscript
<1>9. CASE TranscriptOnly
  <2> DEFINE heard == [by |-> "transcript", req |-> req]
  <2>1. heard \in Turn
    BY DEF Turn
  <2>2. Append(turns, heard) \in Seq(Turn)
    BY <2>1, TurnTaken
  <2> QED
    BY <1>9, <2>2, EndCancelledPublishes, EndSessionPublishes DEF TranscriptOnly
<1>10. CASE ClosePhrase
  <2> DEFINE closing == [by |-> "close", req |-> req]
  <2>1. closing \in Turn /\ closing.by # "answer"
    BY DEF Turn
  <2>2. Append(turns, closing) \in Seq(Turn)
    BY <2>1, TurnTaken
  <2>3. CASE CancelRequested
    BY <1>10, <2>3, EndCancelledPublishes DEF ClosePhrase
  <2>4. CASE ~CancelRequested /\ cfg.closeAck
    <3>1. /\ turns' = Append(turns, closing) /\ archived' = archived
          /\ pc = "transcribe" /\ pc' = "speakClose"
      BY <1>10, <2>4 DEF ClosePhrase, Goto
    <3>2. popup'.status = popup.status
      BY <1>10, <2>4 DEF ClosePhrase, OutputTypeOK, Popup
    <3> QED
      BY <2>1, <3>1, <3>2, GoesOnWithTurn
  <2>5. CASE ~CancelRequested /\ ~cfg.closeAck
    BY <1>10, <2>2, <2>5, EndSessionPublishes DEF ClosePhrase
  <2> QED
    BY <2>3, <2>4, <2>5
<1>11. CASE NoResponse
  BY <1>11, EndCancelledPublishes, EndNormallyPublishes DEF NoResponse
<1>12. CASE FixedReply \/ SmallModelReply \/ DelegatedReply \/ InlineReply
  BY <1>12, RespondedPublishes DEF FixedReply, SmallModelReply, DelegatedReply, InlineReply
<1>13. CASE AnswerSpoken \/ DelegatedSpoken
  BY <1>13, EndCancelledPublishes, EndNormallyPublishes, BackToTopPublishes
  DEF AnswerSpoken, DelegatedSpoken, AfterSpeech
<1>14. CASE CloseSpoken
  BY <1>14, EndCancelledPublishes, EndNormallyPublishes DEF CloseSpoken
<1>15. CASE \/ UserCancels \/ StopSignal \/ WorkerFinishes \/ UNCHANGED vars
            \/ \E a \in acks : AckHearsEnd(a) \/ AckPlaybackFails(a)
  <2>1. UNCHANGED <<pc, ending, outputVars>>
    BY <1>15 DEF UserCancels, StopSignal, WorkerFinishes, AckHearsEnd, AckPlaybackFails, AckEnds, vars
  <2> QED
    BY <2>1 DEF EndInv, StillOpen, SessionEndIsPublished, outputVars
<1> QED
  BY <1>1, <1>2, <1>3, <1>4, <1>5, <1>6, <1>7, <1>8, <1>9, <1>10, <1>11, <1>12, <1>13, <1>14, <1>15
  DEF Next, SessionStep, LoopStep, AnswerStep, Exhausted

-----------------------------------------------------------------------------
(* The dialog promised to the user.  A request is promised once: in the    *)
(* background it has one entry, running or finished, and none while it is  *)
(* worked on.  Without this, telling it would leave a promise of it behind *)
(* and it could be told again.                                             *)

PromiseInv ==
  /\ \A i, j \in DOMAIN finished : i # j => finished[i].req # finished[j].req
  /\ \A t \in running : \A i \in DOMAIN finished : t.req # finished[i].req
  /\ pc \in {"route", "answer"} =>
       /\ \A t \in running : t.req # req
       /\ \A i \in DOMAIN finished : finished[i].req # req

(* Entries that neither come nor go, while no request is taken up. *)
LEMMA PromisesStay ==
  ASSUME PromiseInv, UNCHANGED <<running, finished>>,
         \/ pc' \notin {"route", "answer"}
         \/ pc' = pc /\ req' = req
  PROVE  PromiseInv'
  BY DEF PromiseInv

(* A request that finishes in the background goes on as promised. *)
LEMMA FinishedPromise ==
  ASSUME PromiseInv, BacklogInv, finished \in Seq(Result), FinishDelegation
  PROVE  \E t \in running :
           /\ running = {t} /\ running' = {}
           /\ DOMAIN finished = 1..Len(finished) /\ Len(finished) \in Nat
           /\ DOMAIN finished' = 1..(Len(finished) + 1)
           /\ \A i \in DOMAIN finished : finished'[i] = finished[i]
           /\ finished'[Len(finished) + 1].req = t.req
<1>1. PICK t \in running : \E h \in {t.history, Remember(t.history, t.req, "answer")} :
        /\ running' = running \ {t}
        /\ finished' = Append(finished, [req |-> t.req, history |-> h])
  BY DEF FinishDelegation
<1>2. running = {t}
  BY DEF BacklogInv
<1> QED
  BY <1>1, <1>2

LEMMA PoppedPromise ==
  ASSUME finished \in Seq(Result), PopCompleted
  PROVE  /\ running' = running /\ Head(finished) = finished[1] /\ 1 \in DOMAIN finished
         /\ \A i \in DOMAIN finished' :
              i + 1 \in DOMAIN finished /\ i + 1 # 1 /\ finished'[i] = finished[i + 1]
         /\ \A i \in DOMAIN finished : i # 1 => i - 1 \in DOMAIN finished' /\ (i - 1) + 1 = i
         /\ \A i, j \in DOMAIN finished' : i # j => i + 1 # j + 1
  BY DEF PopCompleted

LEMMA PromiseStep ==
  ASSUME PromiseInv, BacklogInv, HistoryInv, req \in Nat, [Next]_vars
  PROVE  PromiseInv'
<1>0. finished \in Seq(Result) /\ running \in SUBSET Task
  BY DEF HistoryInv
<1>1. CASE TakeDelegated
  <2>1. PopCompleted /\ pc' = "speakDelegated"
    BY <1>1 DEF TakeDelegated, Goto
  <2> QED
    BY <1>0, <2>1, PoppedPromise DEF PromiseInv
<1>2. CASE WorkerFinishes
  <2>1. FinishDelegation /\ pc' = pc /\ req' = req
    BY <1>2 DEF WorkerFinishes, sessionVars
  <2>2. PICK t \in running :
           /\ running = {t} /\ running' = {}
           /\ DOMAIN finished = 1..Len(finished) /\ Len(finished) \in Nat
           /\ DOMAIN finished' = 1..(Len(finished) + 1)
           /\ \A i \in DOMAIN finished : finished'[i] = finished[i]
           /\ finished'[Len(finished) + 1].req = t.req
    BY <1>0, <2>1, FinishedPromise
  <2>3. \A i \in DOMAIN finished' : i \in DOMAIN finished \/ i = Len(finished) + 1
    BY <2>2
  <2> QED
    BY <2>1, <2>2, <2>3 DEF PromiseInv
<1>3. CASE RequestHeard
  <2>1. /\ UNCHANGED <<running, finished>>
        /\ pc' = "idle" \/ req' = req + 1
    BY <1>3, EndCancelledControl DEF RequestHeard, delegationVars
  <2>2. /\ \A t \in running : t.req \in Nat /\ t.req <= req
        /\ \A i \in DOMAIN finished : finished[i].req \in Nat /\ finished[i].req <= req
    BY <1>0, ResultReq DEF HistoryInv, Task
  <2> QED
    BY <2>1, <2>2 DEF PromiseInv
<1>4. CASE DelegatedReply
  <2>1. PICK linked \in BOOLEAN : Dispatch(req, history, linked)
    BY <1>4 DEF DelegatedReply
  <2>2. /\ running = {} /\ running' = {[req |-> req, history |-> history, linked |-> linked]}
        /\ finished' = finished /\ pc = "answer" /\ pc' \notin {"route", "answer"}
    BY <1>4, <2>1, RespondedControl DEF DelegatedReply, MayDispatch, HasPending, Dispatch
  <2> QED
    BY <2>2 DEF PromiseInv
<1>5. CASE FixedReply \/ SmallModelReply \/ InlineReply
  <2>1. pc' \notin {"route", "answer"} /\ UNCHANGED <<running, finished>>
    BY <1>5, RespondedControl DEF FixedReply, SmallModelReply, InlineReply, delegationVars
  <2> QED
    BY <2>1, PromisesStay
<1>6. CASE RoutePlanned
  <2>1. /\ UNCHANGED <<running, finished, req>> /\ pc = "route"
    BY <1>6 DEF RoutePlanned, delegationVars
  <2> QED
    BY <2>1 DEF PromiseInv
<1>7. CASE \/ StartSession \/ StopAtLoopHead \/ MaxTurnsReached \/ NothingDelegated
           \/ BeginRecording \/ EmptyTranscript \/ TranscriptOnly \/ ClosePhrase \/ NoResponse
           \/ BeginSpeaking \/ CloseSpoken \/ SessionRaises
  <2>1. pc' \notin {"route", "answer"} /\ UNCHANGED <<running, finished>>
    BY <1>7, EndCancelledControl, EndSessionControl
    DEF StartSession, StopAtLoopHead, MaxTurnsReached, NothingDelegated, BeginRecording,
        EmptyTranscript, TranscriptOnly, ClosePhrase, NoResponse, BeginSpeaking, CloseSpoken,
        SessionRaises, BackToTop, recordFrame, speakFrame, answerFrame, delegationVars, Goto
  <2> QED
    BY <2>1, PromisesStay
<1>8. CASE RecordingCancelled \/ RecordingTimesOut \/ RecordingStopped \/ UserSpeaks
  <2>1. NothingRecorded \/ SpeechRecorded
    BY <1>8 DEF RecordingCancelled, RecordingTimesOut, RecordingStopped, UserSpeaks
  <2>2. pc' \notin {"route", "answer"} /\ UNCHANGED <<running, finished>>
    BY <2>1, NothingRecordedControl DEF SpeechRecorded, recordFrame, delegationVars, Goto
  <2> QED
    BY <2>2, PromisesStay
<1>9. CASE AnswerSpoken \/ DelegatedSpoken
  <2>1. pc' \notin {"route", "answer"} /\ UNCHANGED <<running, finished>>
    BY <1>9, AfterSpeechControl DEF AnswerSpoken, DelegatedSpoken, speakFrame, delegationVars
  <2> QED
    BY <2>1, PromisesStay
<1>10. CASE \/ UserCancels \/ StopSignal \/ UNCHANGED vars
            \/ \E a \in acks : AckHearsEnd(a) \/ AckPlaybackFails(a)
  <2>1. UNCHANGED <<pc, req, running, finished>>
    BY <1>10 DEF UserCancels, StopSignal, AckHearsEnd, AckPlaybackFails, AckEnds, vars, sessionVars,
      delegationVars
  <2> QED
    BY <2>1, PromisesStay
<1>11. CASE AnsweringRaises
  <2>1. /\ pc = "answer" /\ pc' \notin {"route", "answer"}
        /\ \/ UNCHANGED <<running, finished>>
           \/ running = {} /\ \E linked \in BOOLEAN : Dispatch(req, history, linked)
    BY <1>11, AnsweringRaisesControl
  <2>2. CASE UNCHANGED <<running, finished>>
    BY <2>1, <2>2, PromisesStay
  <2>3. CASE running = {} /\ \E linked \in BOOLEAN : Dispatch(req, history, linked)
    <3>1. PICK linked \in BOOLEAN : Dispatch(req, history, linked)
      BY <2>3
    <3>2. /\ running' = {[req |-> req, history |-> history, linked |-> linked]}
          /\ finished' = finished
      BY <2>3, <3>1 DEF Dispatch
    <3> QED
      BY <2>1, <3>2 DEF PromiseInv
  <2> QED
    BY <2>1, <2>2, <2>3
<1> QED
  BY <1>1, <1>2, <1>3, <1>4, <1>5, <1>6, <1>7, <1>8, <1>9, <1>10, <1>11
  DEF Next, SessionStep, LoopStep, AnswerStep, Exhausted

-----------------------------------------------------------------------------
(* Each step of the session loop is one of the dialog's, or none of its    *)
(* business.                                                               *)

Promised == {t.req : t \in running} \cup {finished[i].req : i \in DOMAIN finished}

(* Between requests: nothing is worked on and nothing told. *)
Quiet == {"top", "poll", "record", "transcribe", "answered", "speak", "speakClose"}

DialogMoves == [Dialog!Next]_(Dialog!dialogVars)

LEMMA DialogStutters ==
  ASSUME UNCHANGED <<pc, req, running, finished, turns>>
  PROVE  DialogMoves
  BY DEF DialogMoves, Dialog!dialogVars

(* A session goes on between requests, or ends there. *)
LEMMA DialogStaysQuiet ==
  ASSUME pc \in Quiet, pc' \in Quiet \cup {"idle"}, UNCHANGED <<req, running, finished>>
  PROVE  DialogMoves
<1>1. CASE pc' = "idle"
  BY <1>1 DEF Quiet, DialogMoves, Dialog!Next, Dialog!Close
<1>2. CASE pc' # "idle"
  BY <1>2 DEF Quiet, DialogMoves, Dialog!dialogVars
<1> QED
  BY <1>1, <1>2

(* The request at hand is answered, fails or is given up. *)
LEMMA DialogSettles ==
  ASSUME pc \in {"route", "answer"}, pc' \in {"answered", "idle"},
         UNCHANGED <<req, running, finished>>
  PROVE  DialogMoves
  BY DEF DialogMoves, Dialog!Next, Dialog!Settle

LEMMA DialogTold ==
  ASSUME pc = "speakDelegated", pc' \in {"top", "idle"},
         UNCHANGED <<req, running, finished>>
  PROVE  DialogMoves
  BY DEF DialogMoves, Dialog!Next, Dialog!Told

LEMMA DialogHears ==
  ASSUME pc = "transcribe", pc' = "route", req' = req + 1, UNCHANGED <<running, finished>>
  PROVE  DialogMoves
  BY DEF DialogMoves, Dialog!Next, Dialog!Hear

LEMMA DialogPromises ==
  ASSUME pc = "answer", pc' \in {"answered", "idle"}, UNCHANGED <<req, finished>>,
         NEW t, t.req = req, running' = running \cup {t}
  PROVE  DialogMoves
<1>1. Promised' = Promised \cup {req}
  BY DEF Promised
<1> QED
  BY <1>1 DEF DialogMoves, Dialog!Next, Dialog!Promise, Promised

(* The worker hands its request from one part of the table to the other. *)
LEMMA DialogWorks ==
  ASSUME PromiseInv, BacklogInv, finished \in Seq(Result), FinishDelegation,
         UNCHANGED <<pc, req, turns>>
  PROVE  DialogMoves
<1>1. PICK t \in running :
           /\ running = {t} /\ running' = {}
           /\ DOMAIN finished = 1..Len(finished) /\ Len(finished) \in Nat
           /\ DOMAIN finished' = 1..(Len(finished) + 1)
           /\ \A i \in DOMAIN finished : finished'[i] = finished[i]
           /\ finished'[Len(finished) + 1].req = t.req
  BY FinishedPromise
<1>2. Promised' \subseteq Promised
  <2>1. \A i \in DOMAIN finished' : i \in DOMAIN finished \/ i = Len(finished) + 1
    BY <1>1
  <2> QED
    BY <1>1, <2>1 DEF Promised
<1>3. Promised \subseteq Promised'
  <2>1. \A i \in DOMAIN finished : i \in DOMAIN finished'
    BY <1>1
  <2>2. Len(finished) + 1 \in DOMAIN finished'
    BY <1>1
  <2> QED
    BY <1>1, <2>1, <2>2 DEF Promised
<1>4. Promised' = Promised
  BY <1>2, <1>3
<1> QED
  BY <1>4 DEF DialogMoves, Dialog!dialogVars, Promised

(* The oldest finished request is told, and promised no more. *)
LEMMA DialogTells ==
  ASSUME PromiseInv, OutputTypeOK, HistoryTypeOK, TakeDelegated
  PROVE  DialogMoves
<1> DEFINE r == Head(finished).req
           told == [by |-> "delegated", req |-> r]
<1>1. /\ finished \in Seq(Result) /\ PopCompleted
      /\ pc = "top" /\ pc' = "speakDelegated" /\ req' = req
      /\ turns' = Append(turns, told)
  BY DEF TakeDelegated, Goto, HistoryTypeOK, DelegationTypeOK
<1>2. turns'[Len(turns')].req = r
  BY <1>1 DEF OutputTypeOK
<1>3. Promised' = Promised \ {r}
  <2>1. /\ running' = running /\ r = finished[1].req /\ 1 \in DOMAIN finished
        /\ \A i \in DOMAIN finished' :
             i + 1 \in DOMAIN finished /\ i + 1 # 1 /\ finished'[i] = finished[i + 1]
        /\ \A i \in DOMAIN finished : i # 1 => i - 1 \in DOMAIN finished' /\ (i - 1) + 1 = i
    BY <1>1, PoppedPromise
  <2>2. Promised' \subseteq Promised \ {r}
    BY <2>1 DEF Promised, PromiseInv
  <2>3. ASSUME NEW q \in Promised, q # r PROVE q \in Promised'
    <3>1. CASE \E t \in running : q = t.req
      BY <2>1, <3>1 DEF Promised
    <3>2. CASE \E i \in DOMAIN finished : q = finished[i].req
      <4>1. PICK i \in DOMAIN finished : q = finished[i].req
        BY <3>2
      <4>2. i - 1 \in DOMAIN finished' /\ finished'[i - 1] = finished[i]
        BY <2>1, <2>3, <4>1
      <4> QED
        BY <4>1, <4>2 DEF Promised
    <3> QED
      BY <3>1, <3>2 DEF Promised
  <2> QED
    BY <2>2, <2>3
<1>4. r \in Promised
  BY <1>1, PoppedPromise DEF Promised
<1> QED
  BY <1>1, <1>2, <1>3, <1>4 DEF DialogMoves, Dialog!Next, Dialog!Tell, Promised

LEMMA DialogStep ==
  ASSUME PromiseInv, BacklogInv, OutputTypeOK, HistoryTypeOK, [Next]_vars
  PROVE  DialogMoves
<1>0. finished \in Seq(Result)
  BY DEF HistoryTypeOK, DelegationTypeOK
<1>1. CASE StartSession
  BY <1>1 DEF StartSession, Goto, delegationVars, DialogMoves, Dialog!Next, Dialog!Open
<1>2. CASE TakeDelegated
  BY <1>2, DialogTells
<1>3. CASE WorkerFinishes
  <2>1. FinishDelegation /\ UNCHANGED <<pc, req, turns>>
    BY <1>3 DEF WorkerFinishes, sessionVars, outputVars
  <2> QED
    BY <1>0, <2>1, DialogWorks
<1>4. CASE RequestHeard
  <2>1. /\ pc = "transcribe" /\ UNCHANGED <<running, finished>>
        /\ \/ pc' = "idle" /\ req' = req
           \/ pc' = "route" /\ req' = req + 1
    BY <1>4, EndCancelledControl DEF RequestHeard, Goto, delegationVars
  <2> QED
    BY <2>1, DialogHears, DialogStaysQuiet DEF Quiet
<1>5. CASE RoutePlanned
  <2>1. /\ pc = "route" /\ UNCHANGED <<req, running, finished>>
        /\ \/ pc' = "idle"
           \/ pc' = "answer" /\ turns' = turns
    BY <1>5, EndCancelledControl DEF RoutePlanned, Goto, delegationVars, outputVars
  <2>2. CASE pc' = "idle"
    BY <2>1, <2>2, DialogSettles
  <2>3. CASE pc' = "answer"
    BY <2>1, <2>3 DEF DialogMoves, Dialog!dialogVars
  <2> QED
    BY <2>1, <2>2, <2>3
<1>6. CASE DelegatedReply
  <2>1. PICK linked \in BOOLEAN : Dispatch(req, history, linked)
    BY <1>6 DEF DelegatedReply
  <2> DEFINE t == [req |-> req, history |-> history, linked |-> linked]
  <2>2. /\ running' = running \cup {t} /\ finished' = finished /\ req' = req /\ t.req = req
        /\ pc = "answer" /\ pc' \in {"answered", "idle"}
    BY <1>6, <2>1, RespondedControl DEF DelegatedReply, Dispatch, answerFrame
  <2> HIDE DEF t
  <2> QED
    BY <2>2, DialogPromises
<1>7. CASE FixedReply \/ SmallModelReply \/ InlineReply \/ NoResponse
  <2>1. /\ pc = "answer" /\ pc' \in {"answered", "idle"} /\ UNCHANGED <<req, running, finished>>
    BY <1>7, RespondedControl, EndCancelledControl, EndSessionControl
    DEF FixedReply, SmallModelReply, InlineReply, NoResponse, answerFrame, delegationVars
  <2> QED
    BY <2>1, DialogSettles
<1>8. CASE DelegatedSpoken
  <2>1. /\ pc = "speakDelegated" /\ pc' \in {"top", "idle"}
        /\ UNCHANGED <<req, running, finished>>
    BY <1>8, AfterSpeechControl DEF DelegatedSpoken, speakFrame, delegationVars
  <2> QED
    BY <2>1, DialogTold
<1>9. CASE AnswerSpoken
  <2>1. pc = "speak" /\ pc' \in {"top", "idle"} /\ UNCHANGED <<req, running, finished>>
    BY <1>9, AfterSpeechControl DEF AnswerSpoken, speakFrame, delegationVars
  <2> QED
    BY <2>1, DialogStaysQuiet DEF Quiet
<1>10. CASE SessionRaises
  <2>1. /\ pc \in Quiet \cup {"route", "speakDelegated"} /\ pc' = "idle"
        /\ UNCHANGED <<req, running, finished>>
    BY <1>10 DEF SessionRaises, sessionVars, delegationVars, Quiet
  <2> QED
    BY <2>1, DialogTold, DialogSettles, DialogStaysQuiet
<1>11. CASE \/ StopAtLoopHead \/ MaxTurnsReached \/ NothingDelegated \/ BeginRecording
            \/ EmptyTranscript \/ TranscriptOnly \/ ClosePhrase \/ BeginSpeaking \/ CloseSpoken
  <2>1. /\ pc \in Quiet /\ pc' \in Quiet \cup {"idle"} /\ UNCHANGED <<req, running, finished>>
    BY <1>11, EndCancelledControl, EndSessionControl
    DEF StopAtLoopHead, MaxTurnsReached, NothingDelegated, BeginRecording, EmptyTranscript,
        TranscriptOnly, ClosePhrase, BeginSpeaking, CloseSpoken, BackToTop, recordFrame,
        speakFrame, sessionVars, delegationVars, Goto, Quiet
  <2> QED
    BY <2>1, DialogStaysQuiet
<1>12. CASE RecordingCancelled \/ RecordingTimesOut \/ RecordingStopped \/ UserSpeaks
  <2>1. pc = "record" /\ (NothingRecorded \/ SpeechRecorded)
    BY <1>12 DEF RecordingCancelled, RecordingTimesOut, RecordingStopped, UserSpeaks
  <2>2. pc \in Quiet /\ pc' \in Quiet \cup {"idle"} /\ UNCHANGED <<req, running, finished>>
    BY <2>1, NothingRecordedControl
    DEF SpeechRecorded, recordFrame, sessionVars, delegationVars, Goto, Quiet
  <2> QED
    BY <2>2, DialogStaysQuiet
<1>13. CASE \/ UserCancels \/ StopSignal \/ UNCHANGED vars
            \/ \E a \in acks : AckHearsEnd(a) \/ AckPlaybackFails(a)
  <2>1. UNCHANGED <<pc, req, running, finished, turns>>
    BY <1>13 DEF UserCancels, StopSignal, AckHearsEnd, AckPlaybackFails, AckEnds, vars, sessionVars,
      outputVars, delegationVars
  <2> QED
    BY <2>1, DialogStutters
<1>14. CASE AnsweringRaises
  <2>1. /\ pc = "answer" /\ pc' \in {"answered", "idle"} /\ req' = req
        /\ \/ UNCHANGED <<running, finished>>
           \/ \E linked \in BOOLEAN : Dispatch(req, history, linked)
    BY <1>14, AnsweringRaisesControl DEF answerFrame
  <2>2. CASE UNCHANGED <<running, finished>>
    BY <2>1, <2>2, DialogSettles
  <2>3. CASE \E linked \in BOOLEAN : Dispatch(req, history, linked)
    <3>1. PICK linked \in BOOLEAN : Dispatch(req, history, linked)
      BY <2>3
    <3> DEFINE t == [req |-> req, history |-> history, linked |-> linked]
    <3>2. running' = running \cup {t} /\ finished' = finished /\ t.req = req
      BY <3>1 DEF Dispatch
    <3> HIDE DEF t
    <3> QED
      BY <2>1, <3>2, DialogPromises
  <2> QED
    BY <2>1, <2>2, <2>3
<1> QED
  BY <1>1, <1>2, <1>3, <1>4, <1>5, <1>6, <1>7, <1>8, <1>9, <1>10, <1>11, <1>12, <1>13, <1>14
  DEF Next, SessionStep, LoopStep, AnswerStep, Exhausted

(* What a cancel stops.  No invariant is needed: each step that begins     *)
(* such work looks at the flag itself.                                     *)
LEMMA CancelStep ==
  ASSUME [Next]_vars, CancelRequested, pc' # pc
  PROVE  pc' \notin {"record", "route", "answer", "speak"}
<1> USE DEF Goto
<1>1. CASE \/ StartSession \/ StopAtLoopHead \/ MaxTurnsReached \/ TakeDelegated \/ NothingDelegated
           \/ SessionRaises
  BY <1>1, EndSessionControl
  DEF StartSession, StopAtLoopHead, MaxTurnsReached, TakeDelegated, NothingDelegated, SessionRaises
<1>2. CASE BeginRecording \/ RequestHeard \/ RoutePlanned \/ BeginSpeaking
  BY <1>2, EndCancelledControl DEF BeginRecording, RequestHeard, RoutePlanned, BeginSpeaking
<1>3. CASE RecordingCancelled \/ RecordingTimesOut \/ RecordingStopped \/ UserSpeaks
  BY <1>3, NothingRecordedControl
  DEF RecordingCancelled, RecordingTimesOut, RecordingStopped, UserSpeaks, SpeechRecorded
<1>4. CASE EmptyTranscript \/ TranscriptOnly \/ ClosePhrase \/ NoResponse \/ CloseSpoken
  BY <1>4, EndCancelledControl
  DEF EmptyTranscript, TranscriptOnly, ClosePhrase, NoResponse, CloseSpoken
<1>5. CASE FixedReply \/ SmallModelReply \/ DelegatedReply \/ InlineReply
  BY <1>5, RespondedControl DEF FixedReply, SmallModelReply, DelegatedReply, InlineReply
<1>6. CASE AnswerSpoken \/ DelegatedSpoken
  BY <1>6, AfterSpeechControl DEF AnswerSpoken, DelegatedSpoken
<1>7. CASE \/ UserCancels \/ StopSignal \/ WorkerFinishes \/ UNCHANGED vars
           \/ \E a \in acks : AckHearsEnd(a) \/ AckPlaybackFails(a)
  BY <1>7 DEF UserCancels, StopSignal, WorkerFinishes, AckHearsEnd, AckPlaybackFails, AckEnds, vars
<1>8. CASE AnsweringRaises
  BY <1>8, AnsweringRaisesControl
<1> QED
  BY <1>1, <1>2, <1>3, <1>4, <1>5, <1>6, <1>7, <1>8 DEF Next, SessionStep, LoopStep, AnswerStep, Exhausted

-----------------------------------------------------------------------------
(* The theorems. *)

IInv == ControlInv /\ OutputTypeOK /\ HistoryInv /\ BacklogInv /\ EndInv /\ PromiseInv

LEMMA HistoryTypes == HistoryInv => HistoryTypeOK
  BY DEF HistoryInv, Ordered, HistoryTypeOK, DelegationTypeOK

LEMMA InitIInv == Init => IInv
<1> SUFFICES ASSUME Init PROVE IInv
  OBVIOUS
<1>1. ControlInv
  <2>1. /\ cfg \in Configs /\ stop = FALSE /\ session = 0 /\ pc = "idle" /\ ending = "none"
        /\ turn = 1 /\ req = 0 /\ lane = "unplanned" /\ pendingSeen = FALSE
        /\ cancelled = {} /\ acks = {}
    BY DEF Init
  <2>2. 0 \in 0..MaxSessions /\ 1 \in 1..(MaxTurns + 1)
    BY BoundsAssumption
  <2> QED
    BY <2>1, <2>2 DEF ControlInv, ControlTypeOK, InBounds, Phases, Lanes
<1>2. <<>> \in Seq(Turn)
  OBVIOUS
<1>3. OutputTypeOK
  BY <1>2 DEF Init, OutputTypeOK, Popup, Archive
<1>4. HistoryInv
  <2>1. Ordered(<<>>, 1)
    BY DEF Ordered, Increasing, Below
  <2> QED
    BY <2>1 DEF Init, DelegationInit, HistoryInv
<1>5. BacklogInv
  BY DEF Init, DelegationInit, BacklogInv
<1>6. EndInv
  BY <1>2, AllKept DEF Init, EndInv, SessionEndIsPublished
<1>7. PromiseInv
  BY DEF Init, DelegationInit, PromiseInv
<1> QED
  BY <1>1, <1>3, <1>4, <1>5, <1>6, <1>7 DEF IInv

LEMMA NextIInv == IInv /\ [Next]_vars => IInv'
<1> SUFFICES ASSUME IInv, [Next]_vars PROVE IInv'
  OBVIOUS
<1>1. req \in Nat /\ HistoryTypeOK /\ finished \in Seq(Result)
  BY HistoryTypes DEF IInv, ControlInv, ControlTypeOK, HistoryInv
<1> QED
  BY <1>1, ControlStep, OutputStep, HistoryStep, BacklogStep, EndStep, PromiseStep DEF IInv

LEMMA IInvHolds == Spec => []IInv
  BY InitIInv, NextIInv, PTL DEF Spec

(* Every variable of the session keeps its type: turn numbers within       *)
(* conversation_max_turns + 1, turns, histories and results well formed.   *)
THEOREM SessionTypeCorrect == Spec => []TypeOK
<1>1. IInv => TypeOK
  BY HistoryTypes DEF IInv, ControlInv, TypeOK
<1> QED
  BY <1>1, IInvHolds, PTL

(* For any number of sessions, turns and configurations: at most one       *)
(* delegation runs and at most two entries are in the manager's table,     *)
(* although nothing bounds the finished entries and sessions come and go.  *)
THEOREM DelegationsBounded == Spec => []DelegationBacklog
<1>1. IInv => DelegationBacklog
  BY BacklogIsBounded DEF IInv, HistoryInv
<1> QED
  BY <1>1, IInvHolds, PTL

(* A request is remembered once and in the order of hearing, in the live   *)
(* history and in those of delegated tasks, however these replace one      *)
(* another.                                                                *)
THEOREM HistoriesOrdered == Spec => []HistoryOrdered
<1>1. IInv => HistoryOrdered
  BY DEF IInv, HistoryInv, Ordered, HistoryOrdered
<1> QED
  BY <1>1, IInvHolds, PTL

(* A session that is cancelled or completed says so in popup and archive   *)
(* alike; one that is stopped or raises leaves both as of a session that   *)
(* goes on.  Every turn is in the archive, or every answer if the session  *)
(* raised.                                                                 *)
THEOREM SessionEndsPublished == Spec => []SessionEndIsPublished
<1>1. IInv => SessionEndIsPublished
  BY DEF IInv, EndInv
<1> QED
  BY <1>1, IInvHolds, PTL

(* After a cancel no recording, routing, answering or speaking of an       *)
(* answer begins, whatever the configuration.  An answering under way may  *)
(* still delegate, and a delegated result may still be told.               *)
THEOREM CancelStopsWork == Spec => CancelStopsNewWork
<1>1. [Next]_vars => [CancelRequested /\ pc' # pc
                        => pc' \notin {"record", "route", "answer", "speak"}]_vars
  BY CancelStep
<1> QED
  BY <1>1, PTL DEF Spec, CancelStopsNewWork

(* The session loop with its background tasks implements the dialog that   *)
(* is promised to the user, step by step: no request is worked on or told  *)
(* twice, and none is told outside a session.                              *)
THEOREM SessionImplementsDialog == Spec => DialogSteps
<1>1. Init => Dialog!Init
  BY DEF Init, DelegationInit, Dialog!Init
<1>2. IInv /\ [Next]_vars => [Dialog!Next]_(Dialog!dialogVars)
  <2> SUFFICES ASSUME IInv, [Next]_vars PROVE DialogMoves
    BY DEF DialogMoves
  <2> QED
    BY HistoryTypes, DialogStep DEF IInv
<1> QED
  BY <1>1, <1>2, IInvHolds, PTL DEF Spec, DialogSteps, Dialog!Spec

=============================================================================
