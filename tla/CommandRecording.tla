--------------------------- MODULE CommandRecording ---------------------------
(***************************************************************************)
(* record_command: the audio callback with its bounded queue, the loop     *)
(* that finds the start and the end of speech, and the live Parakeet       *)
(* session that transcribes while it records.                              *)
(*                                                                         *)
(* A tick is the time of one block.  It passes while the loop waits for a  *)
(* block and while the speech model works; the rest of the loop takes no   *)
(* time.  Ages count ticks up to the bound they are compared with.         *)
(***************************************************************************)
EXTENDS Integers, Sequences

CONSTANTS
  Live,          \* a live session is used
  StartTimeouts, \* the speech_start_timeout_seconds considered; 0 for none
  MaxCommand,    \* max_command_seconds
  Silence,       \* speech_silence_duration_seconds
  TextIdle,      \* streamed_text_idle_duration_seconds; 0 for never
  StartBlocks,   \* speech_start_consecutive_blocks
  MinBlocks,     \* min_command_seconds
  PrerollLen,    \* the length of preroll
  QueueLen,      \* the length of audio_q
  GetTimeout,    \* how long audio_q.get waits
  BlockLen,      \* samples of a block
  ChunkLen,      \* context_samples.chunk
  RightLen,      \* context_samples.right
  MaxBlocks      \* bound: blocks the microphone delivers

(* With the default block of 0.1 seconds the preroll holds 4 blocks, and 2 *)
(* start a recording; a chunk is longer than its block.                    *)
ASSUME RecordingAssumption ==
  /\ Live \in BOOLEAN
  /\ StartTimeouts \subseteq Nat
  /\ {MaxCommand, Silence, TextIdle, MinBlocks, RightLen, MaxBlocks} \subseteq Nat
  /\ {StartBlocks, PrerollLen, QueueLen, GetTimeout, BlockLen, ChunkLen} \subseteq Nat \ {0}
  /\ StartBlocks <= PrerollLen

VARIABLES
  loop,         \* where record_command is
  result,       \* what it returns
  why,          \* history: what ended the loop
  stop, cancel, \* STOP is set; cancel_check returns true
  queue,        \* audio_q, of blocks
  arrived,      \* the block of this tick has come
  captured,     \* history: the number of blocks so far; names the last one
  dropped,      \* history: the blocks that found audio_q full
  preroll,      \* the last blocks before speech
  consecutive,  \* consecutive_voice_blocks
  chunks,       \* the blocks of the recording
  spokeFrom,    \* history: the first block of the latest run of voice
  pending,      \* blocks the live session has yet to accept
  given,        \* history: the blocks it has been given, in order
  news,         \* the transcript differs from last_streamed_text
  patience,     \* what is left of get's timeout
  startTimeout, \* speech_start_timeout_seconds of this recording
  waited,       \* now - start_time
  speaking,     \* now - speech_start_time
  quiet,        \* now - last_voice_time
  textAge,      \* now - last_streamed_text_update_time; -1 for none
  sinceTaken,   \* ticks since the block in hand was taken
  gaps,         \* quiet and textAge when it was taken
  voiceAge,     \* history: ticks since a block with voice was captured
  total,        \* samples the session has been given
  left, right,  \* left_sample and right_sample
  decoded       \* samples whose text is in the transcript

started == chunks # <<>>

audioVars   == <<queue, arrived, captured, dropped, voiceAge>>
signalVars  == <<stop, cancel>>
startVars   == <<preroll, consecutive, spokeFrom, startTimeout, waited>>
ageVars     == <<speaking, quiet, textAge, sinceTaken, gaps>>
sessionVars == <<pending, given, news, total, left, right, decoded>>
endVars     == <<result, why>>
vars == <<loop, endVars, signalVars, audioVars, startVars, chunks, patience,
          ageVars, sessionVars>>

Smaller(a, b) == IF a < b THEN a ELSE b
UpTo(bound, n) == Smaller(bound, n)

StartBound == startTimeout + GetTimeout
SpeechBound == MaxCommand + GetTimeout

Blocks == 1..MaxBlocks
Working == {"priming", "transcribing", "finishing"}

(* Types. *)
TypeOK ==
  /\ loop \in {"begin", "loading", "head", "waiting", "over"} \cup Working
  /\ result \in {"pending", "nothing", "wav", "recording", "raised"}
  /\ why \in {"", "cancel", "stop", "timeout", "max", "text", "silence", "raised"}
  /\ stop \in BOOLEAN /\ cancel \in BOOLEAN
  /\ queue \in Seq([n : Blocks, voice : BOOLEAN]) /\ Len(queue) <= QueueLen
  /\ arrived \in BOOLEAN /\ captured \in 0..MaxBlocks /\ dropped \subseteq Blocks
  /\ preroll \in Seq(Blocks) /\ Len(preroll) <= PrerollLen
  /\ consecutive \in 0..StartBlocks
  /\ chunks \in Seq(Blocks) /\ spokeFrom \in 0..MaxBlocks
  /\ pending \in Seq(Blocks) /\ given \in Seq(Blocks) /\ news \in BOOLEAN
  /\ startTimeout \in StartTimeouts
  /\ patience \in 0..GetTimeout
  /\ waited \in 0..(StartBound + 1) /\ speaking \in 0..(SpeechBound + StartBlocks)
  /\ quiet \in 0..Silence /\ textAge \in -1..TextIdle
  /\ sinceTaken \in 0..TextIdle
  /\ gaps \in [voice : 0..Silence, text : -1..TextIdle]
  /\ voiceAge \in 0..Silence
  /\ {total, left, right, decoded} \subseteq Nat

Init ==
  /\ loop = "begin" /\ result = "pending" /\ why = ""
  /\ stop = FALSE /\ cancel = FALSE
  /\ queue = <<>> /\ arrived = FALSE /\ captured = 0 /\ dropped = {}
  /\ preroll = <<>> /\ consecutive = 0 /\ chunks = <<>> /\ spokeFrom = 0
  /\ pending = <<>> /\ given = <<>> /\ news = FALSE
  /\ startTimeout \in StartTimeouts
  /\ patience = 0 /\ waited = 0 /\ speaking = 0 /\ quiet = 0
  /\ textAge = -1 /\ sinceTaken = 0 /\ gaps = [voice |-> 0, text |-> -1]
  /\ voiceAge = Silence
  /\ total = 0 /\ left = 0 /\ right = ChunkLen + RightLen /\ decoded = 0

-----------------------------------------------------------------------------
(* The user, the signal handler, the microphone and the clock. *)

SetStop ==
  /\ loop # "over" /\ ~stop
  /\ stop' = TRUE
  /\ UNCHANGED <<loop, endVars, cancel, audioVars, startVars, chunks, patience,
                 ageVars, sessionVars>>

AskCancel ==
  /\ loop # "over" /\ ~cancel
  /\ cancel' = TRUE
  /\ UNCHANGED <<loop, endVars, stop, audioVars, startVars, chunks, patience,
                 ageVars, sessionVars>>

(* callback: a block that finds the queue full is lost.  The stream is     *)
(* closed before the session is finalised.                                 *)
Capture ==
  /\ loop \in {"head", "waiting", "priming", "transcribing"}
  /\ ~arrived /\ captured < MaxBlocks
  /\ arrived' = TRUE /\ captured' = captured + 1
  /\ \E voice \in BOOLEAN :
       /\ IF Len(queue) < QueueLen
          THEN queue' = Append(queue, [n |-> captured + 1, voice |-> voice])
               /\ dropped' = dropped
          ELSE queue' = queue /\ dropped' = dropped \cup {captured + 1}
       /\ voiceAge' = IF voice THEN 0 ELSE voiceAge
  /\ UNCHANGED <<loop, endVars, signalVars, startVars, chunks, patience,
                 ageVars, sessionVars>>

Tick ==
  /\ \/ loop \in {"loading", "priming", "transcribing"}
     \/ loop = "waiting" /\ queue = <<>> /\ patience > 0
  /\ arrived' = FALSE
  /\ patience' = IF loop = "waiting" THEN patience - 1 ELSE patience
  /\ waited' = IF started THEN waited ELSE UpTo(StartBound + 1, waited + 1)
  /\ speaking' = IF started THEN UpTo(SpeechBound + StartBlocks, speaking + 1) ELSE 0
  /\ quiet' = IF started THEN UpTo(Silence, quiet + 1) ELSE 0
  /\ textAge' = IF textAge = -1 THEN -1 ELSE UpTo(TextIdle, textAge + 1)
  /\ sinceTaken' = UpTo(TextIdle, sinceTaken + 1)
  /\ voiceAge' = UpTo(Silence, voiceAge + 1)
  /\ UNCHANGED <<loop, endVars, signalVars, queue, captured, dropped,
                 preroll, consecutive, spokeFrom, startTimeout, chunks, gaps,
                 sessionVars>>

-----------------------------------------------------------------------------
(* Before the loop. *)

Return(value, reason) == loop' = "over" /\ result' = value /\ why' = reason

CancelledAtOnce ==
  /\ loop = "begin" /\ cancel
  /\ Return("nothing", "cancel")
  /\ UNCHANGED <<signalVars, audioVars, startVars, chunks, patience, ageVars, sessionVars>>

(* start_time is taken before the live session is there. *)
Begin ==
  /\ loop = "begin" /\ ~cancel
  /\ loop' = IF Live THEN "loading" ELSE "head"
  /\ UNCHANGED <<endVars, signalVars, audioVars, startVars, chunks, patience,
                 ageVars, sessionVars>>

SessionReady ==
  /\ loop = "loading"
  /\ loop' = "head"
  /\ UNCHANGED <<endVars, signalVars, audioVars, startVars, chunks, patience,
                 ageVars, sessionVars>>

(* The session, the stream or the speech model raises. *)
Raise ==
  /\ loop \in {"begin", "loading"} \cup Working
  /\ Return("raised", "raised")
  /\ UNCHANGED <<signalVars, audioVars, startVars, chunks, patience, ageVars, sessionVars>>

-----------------------------------------------------------------------------
(* The end of the loop, with what has been recorded. *)

(* break: a recording that is too short, or no speech, is nothing. *)
Leave(recorded, reason) ==
  /\ why' = reason
  /\ IF recorded = <<>> \/ Len(recorded) < MinBlocks
     THEN loop' = "over" /\ result' = "nothing"
     ELSE IF Live THEN loop' = "finishing" /\ result' = result
     ELSE loop' = "over" /\ result' = "wav"

(* Faulty variant: a wait without limits is not looked at. *)
CancelSeenInLimits == cancel /\ (started \/ startTimeout > 0)
CancelSeen == cancel

TooLong == started /\ speaking > MaxCommand
NoSpeech == ~started /\ startTimeout > 0 /\ waited > startTimeout

(* The head of the loop: STOP, then a cancel, then the time limits. *)
LoopHead ==
  /\ loop = "head"
  /\ \/ stop /\ Leave(chunks, "stop") /\ UNCHANGED patience
     \/ ~stop /\ CancelSeen /\ Return("nothing", "cancel") /\ UNCHANGED patience
     \/ ~stop /\ ~CancelSeen /\ TooLong /\ Leave(chunks, "max") /\ UNCHANGED patience
     \/ ~stop /\ ~CancelSeen /\ NoSpeech /\ Return("nothing", "timeout") /\ UNCHANGED patience
     \/ /\ ~(stop \/ CancelSeen \/ TooLong \/ NoSpeech)
        /\ loop' = "waiting" /\ patience' = GetTimeout
        /\ UNCHANGED endVars
  /\ UNCHANGED <<signalVars, audioVars, startVars, chunks, ageVars, sessionVars>>

(* Faulty variant: get is called again, without a look at the limits. *)
GetAgain ==
  /\ loop = "waiting" /\ queue = <<>> /\ patience = 0
  /\ patience' = GetTimeout
  /\ UNCHANGED <<loop, endVars, signalVars, audioVars, startVars, chunks,
                 ageVars, sessionVars>>

(* queue.Empty *)
GetTimesOut ==
  /\ loop = "waiting" /\ queue = <<>> /\ patience = 0
  /\ loop' = "head"
  /\ UNCHANGED <<endVars, signalVars, audioVars, startVars, chunks, patience,
                 ageVars, sessionVars>>

-----------------------------------------------------------------------------
(* A block, before and after speech has started. *)

block == Head(queue)

TakeBlock ==
  /\ loop = "waiting" /\ queue # <<>>
  /\ queue' = Tail(queue)
  /\ sinceTaken' = 0
  /\ UNCHANGED <<signalVars, arrived, captured, dropped, voiceAge, startTimeout, waited,
                 patience>>

(* A deque with a maxlen.  Faulty variant: without. *)
Everything(s) == s
Latest(s) == IF Len(s) <= PrerollLen THEN s ELSE Tail(s)

Listen ==
  /\ TakeBlock /\ ~started
  /\ preroll' = Latest(Append(preroll, block.n))
  /\ consecutive' = IF block.voice THEN consecutive + 1 ELSE 0
  /\ spokeFrom' = IF block.voice /\ consecutive = 0 THEN block.n ELSE spokeFrom

KeepListening ==
  /\ Listen
  /\ ~block.voice \/ consecutive' < StartBlocks
  /\ loop' = "head"
  /\ UNCHANGED <<endVars, chunks, speaking, quiet, textAge, gaps, sessionVars>>

(* accept_int16 begins: the first block's samples are the session's. *)
Give(blocks) ==
  /\ pending' = blocks
  /\ given' = Append(given, Head(blocks))
  /\ total' = total + BlockLen

(* What the recording, and the live session, begin with.                   *)
(* Faulty variant: the block in hand, as often. *)
BlockInHand(buffered) == [i \in DOMAIN buffered |-> buffered[Len(buffered)]]
SavedFirst(buffered) == buffered
GivenFirst(buffered) == buffered

StartSpeech ==
  /\ Listen
  /\ block.voice /\ consecutive' >= StartBlocks
  /\ chunks' = SavedFirst(preroll')
  /\ speaking' = StartBlocks - 1 /\ quiet' = 0
  /\ IF Live THEN loop' = "priming" /\ Give(GivenFirst(preroll'))
             ELSE loop' = "head" /\ UNCHANGED <<pending, given, total>>
  /\ UNCHANGED <<endVars, textAge, gaps, news, left, right, decoded>>

(* Whether the recording is over, by the times when its block was taken:   *)
(* streamed text that stops advancing, or silence where there is no text.  *)
Judge(recorded, gap) ==
  LET textual == Live /\ TextIdle > 0 /\ gap.text # -1
  IN  \/ textual /\ gap.text >= TextIdle /\ Leave(recorded, "text")
      \/ ~textual /\ gap.voice >= Silence /\ Leave(recorded, "silence")
      \/ /\ IF textual THEN gap.text < TextIdle ELSE gap.voice < Silence
         /\ loop' = "head" /\ UNCHANGED endVars

QuietNow == IF block.voice THEN 0 ELSE quiet

RecordBlock ==
  /\ TakeBlock /\ started
  /\ chunks' = Append(chunks, block.n)
  /\ quiet' = QuietNow
  /\ gaps' = [voice |-> QuietNow, text |-> textAge]
  /\ IF Live THEN loop' = "transcribing" /\ Give(<<block.n>>) /\ UNCHANGED endVars
             ELSE Judge(chunks', gaps') /\ UNCHANGED <<pending, given, total>>
  /\ UNCHANGED <<preroll, consecutive, spokeFrom, speaking, textAge, news, left,
                 right, decoded>>

-----------------------------------------------------------------------------
(* The live session. *)

(* Where right_sample goes after a chunk.                                  *)
(* Faulty variant: by the chunk and its right context. *)
NextWindow == right + ChunkLen + RightLen
NextChunk == right + ChunkLen

(* _consume_chunk: the text of a chunk leaves out its right context, but   *)
(* for the last one, and differs from what it was, or not.                 *)
DecodeChunk ==
  /\ loop \in Working /\ left < total
  /\ loop = "finishing" \/ total >= right
  /\ left' = Smaller(right, total)
  /\ right' = NextChunk
  /\ decoded' = IF loop = "finishing" /\ left' >= total THEN total ELSE left' - RightLen
  /\ news' \in {news, TRUE}
  /\ UNCHANGED <<loop, endVars, signalVars, audioVars, startVars, chunks, patience,
                 ageVars, pending, given, total>>

(* accept_int16 returns, and note_live_transcript has the time of the take. *)
BlockAccepted ==
  /\ loop \in {"priming", "transcribing"} /\ total < right
  /\ news' = FALSE
  /\ textAge' = IF news THEN sinceTaken ELSE textAge
  /\ IF Len(pending) > 1 THEN Give(Tail(pending)) /\ UNCHANGED <<loop, endVars>>
     ELSE /\ pending' = <<>> /\ UNCHANGED <<given, total>>
          /\ IF loop = "priming" THEN loop' = "head" /\ UNCHANGED endVars
             ELSE Judge(chunks, [gaps EXCEPT !.text = IF news THEN 0 ELSE @])
  /\ UNCHANGED <<signalVars, audioVars, startVars, chunks, patience, speaking, quiet,
                 sinceTaken, gaps, left, right, decoded>>

(* finalize has nothing left to consume. *)
Finalized ==
  /\ loop = "finishing" /\ left >= total
  /\ loop' = "over" /\ result' = "recording"
  /\ UNCHANGED <<why, signalVars, audioVars, startVars, chunks, patience, ageVars,
                 sessionVars>>

-----------------------------------------------------------------------------
LoopStep ==
  \/ CancelledAtOnce \/ Begin \/ SessionReady \/ Raise \/ LoopHead \/ GetTimesOut
  \/ KeepListening \/ StartSpeech \/ RecordBlock
  \/ DecodeChunk \/ BlockAccepted \/ Finalized

Next == LoopStep \/ Tick \/ Capture \/ SetStop \/ AskCancel

(* The session's thread goes on, calls of the speech model return, and     *)
(* time passes.  Nothing is asked of the microphone or the user.           *)
Spec == Init /\ [][Next]_vars /\ WF_vars(LoopStep) /\ WF_vars(Tick)

-----------------------------------------------------------------------------
(* Properties. *)

(* Blocks a and b follow each other on the tape, but for lost ones. *)
Adjoin(a, b) == a < b /\ (a + 1)..(b - 1) \subseteq dropped

(* The recording is one stretch of what the microphone heard, in order,    *)
(* that begins no later than the voice that started it; it lacks only      *)
(* blocks that found the queue full, and the queue goes on where it ends.  *)
RecordingUnbroken ==
  /\ \A i \in 1..(Len(chunks) - 1) : Adjoin(chunks[i], chunks[i + 1])
  /\ started => chunks[1] <= spokeFrom
  /\ started /\ queue # <<>> => Adjoin(chunks[Len(chunks)], Head(queue).n)

(* The live transcript is of what is saved: between its calls the session  *)
(* has been given the blocks of the recording, preroll included, each once *)
(* and in their order, and as many samples.                                *)
LiveHearsWhatIsSaved ==
  Live /\ loop \in {"head", "waiting", "finishing"} =>
    given = chunks /\ total = BlockLen * Len(chunks)

(* Its text is less than a chunk and its right context behind, when the    *)
(* end of the recording is judged by it.                                   *)
TextKeepsUp ==
  loop \in {"head", "waiting", "finishing"} => total < decoded + ChunkLen + RightLen

(* No wait for a block outlasts the time for speech to start, or the       *)
(* longest command, by more than get's timeout, also if the microphone     *)
(* goes mute.                                                              *)
LimitsKept ==
  loop = "waiting" =>
    /\ ~started /\ startTimeout > 0 => waited <= StartBound
    /\ started => speaking <= SpeechBound

(* Silence ends a recording only if there was silence: no voice reached    *)
(* the microphone for that long.                                           *)
EndsInSilence == why = "silence" => voiceAge >= Silence

(* A recording that speech has started, that has a limit on the wait for   *)
(* speech, or that is cancelled or stopped, ends: also with a mute         *)
(* microphone, and also when nothing but the cancel or STOP can end it.    *)
RecordingEnds == (stop \/ cancel \/ started \/ startTimeout > 0) ~> (loop = "over")

=============================================================================
