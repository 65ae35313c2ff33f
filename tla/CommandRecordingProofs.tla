---------------------- MODULE CommandRecordingProofs ----------------------
(***************************************************************************)
(* Proofs about CommandRecording, for every value of its constants.        *)
(***************************************************************************)
EXTENDS CommandRecording, TLAPS

(* The sizes that are natural numbers, and those that are not zero. *)
LEMMA Sizes ==
  /\ Live \in BOOLEAN
  /\ StartTimeouts \subseteq Nat /\ MaxCommand \in Nat /\ RightLen \in Nat /\ Silence \in Nat
  /\ TextIdle \in Nat /\ MaxBlocks \in Nat /\ MinBlocks \in Nat
  /\ ChunkLen \in Nat \ {0} /\ BlockLen \in Nat \ {0} /\ GetTimeout \in Nat \ {0}
  /\ StartBlocks \in Nat \ {0} /\ PrerollLen \in Nat \ {0} /\ QueueLen \in Nat \ {0}
  /\ StartBlocks <= PrerollLen
BY RecordingAssumption DEF RecordingAssumption

-----------------------------------------------------------------------------
(* The live text. *)

(* Outside finishing the window is a chunk and its context ahead of the    *)
(* text; between two blocks the session has been given less than a window. *)
SessionInv ==
  /\ total \in Nat /\ left \in Nat /\ right \in Nat /\ decoded \in Nat
  /\ loop \notin {"priming", "transcribing", "over"} => total < right
  /\ loop \notin {"finishing", "over"} => right = decoded + ChunkLen + RightLen
  /\ loop = "finishing" => right = decoded + ChunkLen + RightLen \/ decoded = total

(* A judged block ends the loop or goes back to its head. *)
LEMMA JudgeEnds ==
  ASSUME NEW recorded, NEW gap, Judge(recorded, gap)
  PROVE  loop' \in {"head", "finishing", "over"}
BY DEF Judge, Leave

(* The session's variables stay as they were, or the loop is over. *)
LEMMA SessionKept ==
  ASSUME SessionInv, UNCHANGED <<total, left, right, decoded>>,
         \/ loop' = "over"
         \/ loop' = loop
         \/ loop \notin {"priming", "transcribing", "finishing", "over"}
  PROVE  SessionInv'
BY DEF SessionInv

LEMMA SessionStep == SessionInv /\ [Next]_vars => SessionInv'
<1> SUFFICES ASSUME SessionInv, [Next]_vars PROVE SessionInv'
  OBVIOUS
<1> USE Sizes
<1>1. CASE CancelledAtOnce \/ Begin \/ SessionReady \/ Raise
  BY <1>1, SessionKept DEF CancelledAtOnce, Begin, SessionReady, Raise, Return,
    sessionVars, Working
<1>2. CASE LoopHead
  BY <1>2, SessionKept DEF LoopHead, Leave, Return, sessionVars
<1>3. CASE GetTimesOut
  BY <1>3, SessionKept DEF GetTimesOut, sessionVars
<1>4. CASE KeepListening
  BY <1>4, SessionKept DEF KeepListening, Listen, TakeBlock, sessionVars
<1>5. CASE StartSpeech
  BY <1>5 DEF StartSpeech, Listen, TakeBlock, Give, SessionInv
<1>6. CASE RecordBlock
  BY <1>6 DEF RecordBlock, TakeBlock, Give, Judge, Leave, SessionInv
<1>7. CASE DecodeChunk
  BY <1>7 DEF DecodeChunk, SessionInv, Smaller, NextChunk, Working
<1>8. CASE BlockAccepted
  <2>1. \/ loop' = loop \/ loop' = "head"
        \/ loop' \in {"head", "finishing", "over"}
    BY <1>8, JudgeEnds DEF BlockAccepted
  <2>2. total < right /\ loop \in {"priming", "transcribing"} /\ UNCHANGED <<left, right, decoded>>
    BY <1>8 DEF BlockAccepted
  <2>3. total' = total \/ (total' = total + BlockLen /\ loop' = loop)
    BY <1>8 DEF BlockAccepted, Give
  <2> QED
    BY <2>1, <2>2, <2>3 DEF SessionInv
<1>9. CASE Finalized
  BY <1>9, SessionKept DEF Finalized, sessionVars
<1>10. CASE Tick \/ Capture \/ SetStop \/ AskCancel
  BY <1>10, SessionKept DEF Tick, Capture, SetStop, AskCancel, sessionVars
<1>11. CASE UNCHANGED vars
  BY <1>11, SessionKept DEF vars, sessionVars
<1> QED
  BY <1>1, <1>2, <1>3, <1>4, <1>5, <1>6, <1>7, <1>8, <1>9, <1>10, <1>11
     DEF Next, LoopStep

LEMMA SessionAtFirst == Init => SessionInv
<1> SUFFICES ASSUME Init PROVE SessionInv
  OBVIOUS
<1>1. loop = "begin" /\ total = 0 /\ left = 0 /\ right = ChunkLen + RightLen /\ decoded = 0
  BY DEF Init
<1> QED
  BY <1>1, Sizes DEF SessionInv

(* The live session's text is less than a chunk and its right context      *)
(* behind the recording whenever its end is judged by it                   *)
(* (ParakeetLiveStreamingSession._consume_available).                      *)
THEOREM LiveTextKeepsUp == Spec => []TextKeepsUp
<1>1. Init => SessionInv
  BY SessionAtFirst
<1>2. SessionInv => TextKeepsUp
  BY Sizes DEF SessionInv, TextKeepsUp
<1> QED
  BY <1>1, <1>2, SessionStep, PTL DEF Spec

-----------------------------------------------------------------------------
(* The limits. *)

(* What is left of a wait and what has been waited fit in the limit. *)
LimitInv ==
  /\ waited \in Nat /\ speaking \in Nat /\ patience \in Nat
  /\ startTimeout \in StartTimeouts
  /\ loop = "waiting" =>
       /\ ~started /\ startTimeout > 0 => waited + patience <= StartBound
       /\ started => speaking + patience <= SpeechBound

LEMMA LimitStep == LimitInv /\ [Next]_vars => LimitInv'
<1> SUFFICES ASSUME LimitInv, [Next]_vars PROVE LimitInv'
  OBVIOUS
<1> USE Sizes
<1>1. CASE CancelledAtOnce \/ Begin \/ SessionReady \/ Raise
  BY <1>1 DEF CancelledAtOnce, Begin, SessionReady, Raise, Return, LimitInv,
    startVars, ageVars, started
<1>2. CASE LoopHead
  BY <1>2 DEF LoopHead, Leave, Return, LimitInv, startVars, ageVars, started,
    TooLong, NoSpeech, StartBound, SpeechBound
<1>3. CASE GetTimesOut
  BY <1>3 DEF GetTimesOut, LimitInv, startVars, ageVars
<1>4. CASE KeepListening
  BY <1>4 DEF KeepListening, Listen, TakeBlock, LimitInv
<1>5. CASE StartSpeech
  BY <1>5 DEF StartSpeech, Listen, TakeBlock, LimitInv
<1>6. CASE RecordBlock
  BY <1>6 DEF RecordBlock, TakeBlock, Judge, Leave, LimitInv, startVars
<1>7. CASE DecodeChunk
  BY <1>7 DEF DecodeChunk, LimitInv, startVars, ageVars, Working
<1>8. CASE BlockAccepted
  BY <1>8 DEF BlockAccepted, Judge, Leave, LimitInv, startVars
<1>9. CASE Finalized
  BY <1>9 DEF Finalized, LimitInv, startVars, ageVars
<1>10. CASE Tick
  BY <1>10 DEF Tick, LimitInv, started, UpTo, Smaller, StartBound, SpeechBound
<1>11. CASE Capture \/ SetStop \/ AskCancel
  BY <1>11 DEF Capture, SetStop, AskCancel, LimitInv, startVars, ageVars, started,
    StartBound
<1>12. CASE UNCHANGED vars
  BY <1>12 DEF vars, LimitInv, startVars, ageVars, started, StartBound
<1> QED
  BY <1>1, <1>2, <1>3, <1>4, <1>5, <1>6, <1>7, <1>8, <1>9, <1>10, <1>11, <1>12
     DEF Next, LoopStep

(* No wait for a block outlasts the start timeout, or the longest command, *)
(* by more than get's timeout, with a mute microphone too                  *)
(* (record_command's limits at the head of its loop).                      *)
THEOREM RecordingLimitsKept == Spec => []LimitsKept
<1>1. Init => LimitInv
  <2> SUFFICES ASSUME Init PROVE LimitInv
    OBVIOUS
  <2>1. /\ loop = "begin" /\ waited = 0 /\ speaking = 0 /\ patience = 0
        /\ startTimeout \in StartTimeouts
    BY DEF Init
  <2> QED
    BY <2>1 DEF LimitInv
<1>2. LimitInv => LimitsKept
  BY Sizes DEF LimitInv, LimitsKept, StartBound, SpeechBound
<1> QED
  BY <1>1, <1>2, LimitStep, PTL DEF Spec

-----------------------------------------------------------------------------
(* The tape. *)

Linked(s) == \A i \in 1..(Len(s) - 1) : Adjoin(s[i], s[i + 1])
Rising(s) == \A i, j \in 1..Len(s) : i < j => s[i] < s[j]

(* Nothing was captured after block a but lost blocks. *)
IsNewest(a) == a <= captured /\ (a + 1)..captured \subseteq dropped

(* What the queue holds. *)
Item == [n : Blocks, voice : BOOLEAN]

TapeTypes ==
  /\ captured \in 0..MaxBlocks /\ dropped \subseteq Blocks
  /\ queue \in Seq(Item) /\ Len(queue) <= QueueLen
  /\ preroll \in Seq(Blocks) /\ Len(preroll) <= PrerollLen
  /\ chunks \in Seq(Blocks)
  /\ consecutive \in 0..StartBlocks /\ spokeFrom \in 0..MaxBlocks

(* The queue is one stretch that ends with the newest block. *)
QueueInv ==
  /\ \A i \in 1..(Len(queue) - 1) : Adjoin(queue[i].n, queue[i + 1].n)
  /\ queue # <<>> => IsNewest(queue[Len(queue)].n)

(* Blocks that the queue goes on from. *)
GoesOn(s) ==
  /\ Linked(s)
  /\ s # <<>> => IF queue = <<>> THEN IsNewest(s[Len(s)])
                 ELSE Adjoin(s[Len(s)], queue[1].n)

(* Before speech the preroll ends with the run of voice counted so far. *)
RunInPreroll ==
  /\ Rising(preroll)
  /\ consecutive < StartBlocks /\ consecutive <= Len(preroll)
  /\ consecutive > 0 => spokeFrom = preroll[Len(preroll) - consecutive + 1]

TapeInv ==
  /\ TapeTypes
  /\ QueueInv
  /\ ~started => GoesOn(preroll) /\ RunInPreroll
  /\ started => GoesOn(chunks) /\ chunks[1] <= spokeFrom

(* The recording's first and last blocks, and the tape, stay as they were. *)
LEMMA TapeKept ==
  ASSUME TapeInv, UNCHANGED <<captured, dropped, queue, preroll, chunks, consecutive, spokeFrom>>
  PROVE  TapeInv'
BY DEF TapeInv, TapeTypes, QueueInv, GoesOn, RunInPreroll, Linked, Rising, IsNewest,
  Adjoin, started, Blocks

(* What one more block makes of the preroll. *)
LEMMA PrerollGrows ==
  ASSUME NEW s \in Seq(Blocks), NEW b \in Blocks, Len(s) <= PrerollLen,
         Linked(s), Rising(s), s # <<>> => Adjoin(s[Len(s)], b),
         NEW t, t = Latest(Append(s, b))
  PROVE  /\ t \in Seq(Blocks) /\ Len(t) \in 1..PrerollLen /\ t[Len(t)] = b
         /\ Linked(t) /\ Rising(t)
         /\ \A k \in 1..(PrerollLen - 1) :
              k <= Len(s) => k + 1 <= Len(t) /\ t[Len(t) - k] = s[Len(s) - k + 1]
<1> DEFINE u == Append(s, b)
<1>1. u \in Seq(Blocks) /\ Len(u) = Len(s) + 1 /\ u[Len(u)] = b
      /\ \A i \in 1..Len(s) : u[i] = s[i]
  OBVIOUS
<1>2. \A i \in 1..Len(s) : s[i] \in Blocks
  OBVIOUS
<1>3. s # <<>> => Len(s) \in 1..Len(s)
  OBVIOUS
<1>4. Linked(u)
  <2>1. \A i \in 1..(Len(s) - 1) : Adjoin(u[i], u[i + 1])
    BY <1>1 DEF Linked
  <2>2. Len(s) > 0 => Adjoin(u[Len(s)], u[Len(s) + 1])
    BY <1>1
  <2> QED
    BY <1>1, <2>1, <2>2 DEF Linked
<1>5. Rising(u)
  <2>1. \A i \in 1..Len(s) : s[i] <= s[Len(s)]
    BY <1>2, <1>3 DEF Rising, Blocks
  <2>2. \A i \in 1..Len(s) : s[i] < b
    BY <1>2, <1>3, <2>1, Sizes DEF Adjoin, Blocks
  <2> QED
    BY <1>1, <2>2 DEF Rising
<1>6. CASE Len(u) <= PrerollLen
  <2>1. t = u
    BY <1>6 DEF Latest
  <2> QED
    BY <2>1, <1>1, <1>4, <1>5, <1>6
<1>7. CASE Len(u) > PrerollLen
  <2> HIDE DEF u
  <2>1. t = Tail(u)
    BY <1>1, <1>7, Sizes DEF Latest, u
  <2>2. t \in Seq(Blocks) /\ Len(t) = Len(u) - 1 /\ Len(t) = PrerollLen
        /\ \A i \in 1..Len(t) : t[i] = u[i + 1]
    BY <2>1, <1>1, <1>7, Sizes
  <2>3. t[Len(t)] = b
    BY <2>2, <1>1, Sizes
  <2>4. Linked(t)
    BY <2>2, <1>1, <1>4 DEF Linked
  <2>5. Rising(t)
    BY <2>2, <1>1, <1>5 DEF Rising
  <2>6. ASSUME NEW k \in 1..(PrerollLen - 1), k <= Len(s)
        PROVE  k + 1 <= Len(t) /\ t[Len(t) - k] = s[Len(s) - k + 1]
    <3>1. Len(t) - k \in 1..Len(t) /\ Len(t) - k + 1 = Len(s) - k + 1
      BY <2>2, <1>1, Sizes
    <3>2. Len(s) - k + 1 \in 1..Len(s)
      BY <2>6
    <3>3. t[Len(t) - k] = u[Len(s) - k + 1]
      BY <2>2, <3>1
    <3>4. u[Len(s) - k + 1] = s[Len(s) - k + 1]
      BY <1>1, <3>2
    <3>5. k + 1 <= Len(t)
      BY <2>2, <2>6, <1>1, Sizes
    <3> QED
      BY <3>3, <3>4, <3>5
  <2> QED
    BY <2>2, <2>3, <2>4, <2>5, <2>6, Sizes
<1> QED
  BY <1>1, <1>6, <1>7, Sizes

LEMMA ItemFields ==
  /\ \A item \in Item : item.n \in Blocks /\ item.voice \in BOOLEAN
  /\ \A n \in Blocks, voice \in BOOLEAN :
       [n |-> n, voice |-> voice] \in Item /\ [n |-> n, voice |-> voice].n = n
BY DEF Item

(* The next block follows the newest one. *)
LEMMA NewestAdjoins ==
  ASSUME NEW a, IsNewest(a), captured \in Nat, a \in Nat
  PROVE  Adjoin(a, captured + 1)
BY DEF IsNewest, Adjoin

(* A block goes into the queue. *)
LEMMA QueueGrows ==
  ASSUME TapeInv, Capture, NEW item \in Item, item.n = captured + 1,
         Len(queue) < QueueLen, dropped' = dropped, queue' = Append(queue, item)
  PROVE  TapeInv'
<1>1. TapeTypes /\ captured' = captured + 1 /\ captured' \in 1..MaxBlocks
      /\ UNCHANGED <<preroll, chunks, consecutive, spokeFrom>>
  BY Sizes DEF Capture, startVars, TapeInv, TapeTypes
<1>2. queue \in Seq(Item) /\ captured \in Nat
  BY <1>1 DEF TapeTypes
<1>3. queue' \in Seq(Item) /\ Len(queue') = Len(queue) + 1 /\ queue' # <<>>
      /\ queue'[Len(queue')] = item /\ \A i \in 1..Len(queue) : queue'[i] = queue[i]
  BY <1>2
<1>4. \A i \in 1..Len(queue) : queue[i].n \in Nat
  BY <1>2, ItemFields DEF Blocks
<1>5. QueueInv'
  <2>1. \A i \in 1..(Len(queue) - 1) : Adjoin(queue'[i].n, queue'[i + 1].n)
    BY <1>2, <1>3 DEF QueueInv, TapeInv
  <2>2. Len(queue) > 0 => Adjoin(queue'[Len(queue)].n, queue'[Len(queue) + 1].n)
    <3> SUFFICES ASSUME Len(queue) > 0
                 PROVE  Adjoin(queue'[Len(queue)].n, queue'[Len(queue) + 1].n)
      OBVIOUS
    <3>1. IsNewest(queue[Len(queue)].n) /\ queue[Len(queue)].n \in Nat
      BY <1>2, <1>4 DEF QueueInv, TapeInv
    <3> QED
      BY <3>1, <1>2, <1>3, NewestAdjoins
  <2>3. item.n = captured' /\ (item.n + 1)..captured' = {}
    BY <1>1, <1>2
  <2>4. \A i \in 1..(Len(queue') - 1) : Adjoin(queue'[i].n, queue'[i + 1].n)
    BY <1>2, <1>3, <2>1, <2>2
  <2>5. queue'[Len(queue')].n <= captured'
        /\ (queue'[Len(queue')].n + 1)..captured' \subseteq dropped'
    BY <1>1, <1>3, <2>3
  <2> QED
    BY <2>4, <2>5 DEF QueueInv, Adjoin, IsNewest
<1>6. ASSUME NEW s \in Seq(Blocks), GoesOn(s)
      PROVE  Linked(s) /\ (s # <<>> => Adjoin(s[Len(s)], queue'[1].n))
  <2> SUFFICES ASSUME s # <<>> PROVE Adjoin(s[Len(s)], queue'[1].n)
    BY <1>6 DEF GoesOn
  <2>1. s[Len(s)] \in Nat
    <3>1. Len(s) \in 1..Len(s)
      OBVIOUS
    <3>2. s[Len(s)] \in Blocks
      BY <3>1
    <3> QED
      BY <3>2 DEF Blocks
  <2>2. CASE queue = <<>>
    BY <2>1, <2>2, <1>2, <1>3, <1>6, NewestAdjoins DEF GoesOn
  <2>3. CASE queue # <<>>
    BY <2>3, <1>2, <1>3, <1>6 DEF GoesOn
  <2> QED
    BY <2>2, <2>3
<1>7. ~started => GoesOn(preroll)' /\ RunInPreroll'
  BY <1>1, <1>3, <1>6 DEF GoesOn, Linked, Adjoin, RunInPreroll, Rising, TapeInv, TapeTypes
<1>8. started => GoesOn(chunks)' /\ (chunks[1] <= spokeFrom)'
  BY <1>1, <1>3, <1>6 DEF GoesOn, Linked, Adjoin, TapeInv, TapeTypes
<1>9. TapeTypes'
  BY <1>1, <1>2, <1>3, Sizes DEF TapeTypes
<1> QED
  BY <1>1, <1>5, <1>7, <1>8, <1>9 DEF TapeInv, started

(* A block is lost. *)
LEMMA BlockLost ==
  ASSUME TapeInv, Capture, Len(queue) >= QueueLen, queue' = queue,
         dropped' = dropped \cup {captured + 1}
  PROVE  TapeInv'
<1>1. TapeTypes /\ captured' = captured + 1 /\ captured' \in 1..MaxBlocks
      /\ UNCHANGED <<preroll, chunks, consecutive, spokeFrom>>
  BY Sizes DEF Capture, startVars, TapeInv, TapeTypes
<1>2. queue \in Seq(Item) /\ captured \in Nat /\ queue # <<>>
  BY <1>1, Sizes DEF TapeTypes
<1>3. queue[Len(queue)].n \in Nat
  BY <1>2, ItemFields DEF Blocks
<1>4. QueueInv'
  <2> DEFINE last == queue[Len(queue)].n
  <2>1. last <= captured /\ (last + 1)..captured \subseteq dropped
    BY <1>2 DEF QueueInv, IsNewest, TapeInv
  <2>2. last <= captured' /\ (last + 1)..captured' \subseteq dropped'
    BY <1>1, <1>2, <1>3, <2>1
  <2> QED
    BY <2>2, <1>2 DEF QueueInv, IsNewest, Adjoin, TapeInv
<1>5. ~started => GoesOn(preroll)' /\ RunInPreroll'
  BY <1>1, <1>2 DEF GoesOn, Linked, Adjoin, RunInPreroll, Rising, TapeInv
<1>6. started => GoesOn(chunks)' /\ (chunks[1] <= spokeFrom)'
  BY <1>1, <1>2 DEF GoesOn, Linked, Adjoin, TapeInv
<1>7. TapeTypes'
  BY <1>1, <1>2 DEF TapeTypes, Blocks
<1> QED
  BY <1>1, <1>4, <1>5, <1>6, <1>7 DEF TapeInv, started

LEMMA CaptureStep == TapeInv /\ Capture => TapeInv'
<1> SUFFICES ASSUME TapeInv, Capture PROVE TapeInv'
  OBVIOUS
<1>1. captured + 1 \in Blocks /\ Len(queue) \in Nat /\ QueueLen \in Nat
  BY Sizes DEF Capture, TapeInv, TapeTypes, Blocks
<1>2. CASE Len(queue) < QueueLen
  <2>1. PICK voice \in BOOLEAN :
          /\ queue' = Append(queue, [n |-> captured + 1, voice |-> voice])
          /\ dropped' = dropped
    BY <1>2 DEF Capture
  <2> QED
    BY <1>1, <1>2, <2>1, ItemFields, QueueGrows
<1>3. CASE Len(queue) >= QueueLen
  <2>1. queue' = queue /\ dropped' = dropped \cup {captured + 1}
    BY <1>1, <1>3 DEF Capture
  <2> QED
    BY <1>3, <2>1, BlockLost
<1> QED
  BY <1>1, <1>2, <1>3

(* The block in hand becomes the last of what the queue goes on from. *)
LEMMA BlockTaken ==
  ASSUME TapeInv, TakeBlock
  PROVE  /\ block \in Item /\ UNCHANGED <<captured, dropped>>
         /\ queue' \in Seq(Item) /\ Len(queue') <= QueueLen
         /\ QueueInv'
         /\ \A s \in Seq(Blocks) :
              Linked(s) /\ s # <<>> /\ s[Len(s)] = block.n => GoesOn(s)'
         /\ \A s : GoesOn(s) /\ s # <<>> => Adjoin(s[Len(s)], block.n)
<1>1. queue # <<>> /\ queue' = Tail(queue) /\ UNCHANGED <<captured, dropped>>
  BY DEF TakeBlock
<1>2. queue \in Seq(Item) /\ Len(queue) <= QueueLen
  BY DEF TapeInv, TapeTypes
<1>3. queue' \in Seq(Item) /\ Len(queue') = Len(queue) - 1 /\ Len(queue) > 0
      /\ \A i \in 1..Len(queue') : queue'[i] = queue[i + 1]
  BY <1>1, <1>2
<1>4. block = queue[1] /\ block \in Item
  BY <1>1, <1>2 DEF block
<1>5. queue' # <<>> => queue'[1] = queue[2] /\ queue'[Len(queue')] = queue[Len(queue)]
                       /\ Len(queue) > 1
  BY <1>1, <1>2, <1>3
<1>6. QueueInv'
  <2>1. \A i \in 1..(Len(queue') - 1) : Adjoin(queue'[i].n, queue'[i + 1].n)
    BY <1>2, <1>3 DEF QueueInv, TapeInv
  <2>2. queue' # <<>> => IsNewest(queue'[Len(queue')].n)
    BY <1>1, <1>5 DEF QueueInv, TapeInv
  <2> QED
    BY <1>1, <2>1, <2>2 DEF QueueInv, Adjoin, IsNewest
<1>7. ASSUME NEW s \in Seq(Blocks), Linked(s), s # <<>>, s[Len(s)] = block.n
      PROVE  GoesOn(s)'
  <2>1. queue' = <<>> => IsNewest(block.n)
    <3>1. queue' = <<>> => Len(queue) = 1
      BY <1>2, <1>3
    <3> QED
      BY <3>1, <1>1, <1>4 DEF QueueInv, TapeInv
  <2>2. queue' # <<>> => Adjoin(block.n, queue'[1].n)
    BY <1>2, <1>4, <1>5 DEF QueueInv, TapeInv
  <2> QED
    BY <1>1, <1>7, <2>1, <2>2 DEF GoesOn, Linked, Adjoin, IsNewest
<1>8. \A s : GoesOn(s) /\ s # <<>> => Adjoin(s[Len(s)], block.n)
  BY <1>1, <1>4 DEF GoesOn
<1> QED
  BY <1>1, <1>2, <1>3, <1>4, <1>6, <1>7, <1>8, Sizes

(* A block before speech: the preroll takes it in, and goes on counting. *)
LEMMA ListenStep ==
  ASSUME TapeInv, Listen
  PROVE  /\ preroll' \in Seq(Blocks) /\ Len(preroll') \in 1..PrerollLen
         /\ GoesOn(preroll)' /\ Rising(preroll)'
         /\ consecutive' \in 0..StartBlocks /\ consecutive' <= Len(preroll')
         /\ spokeFrom' \in 0..MaxBlocks
         /\ consecutive' > 0 => spokeFrom' = preroll'[Len(preroll') - consecutive' + 1]
<1>1. TakeBlock /\ ~started /\ GoesOn(preroll) /\ RunInPreroll /\ TapeTypes
      /\ preroll' = Latest(Append(preroll, block.n))
      /\ consecutive' = (IF block.voice THEN consecutive + 1 ELSE 0)
      /\ spokeFrom' = (IF block.voice /\ consecutive = 0 THEN block.n ELSE spokeFrom)
  BY DEF Listen, TapeInv
<1>2. block.n \in Blocks /\ block.voice \in BOOLEAN
  BY <1>1, BlockTaken, ItemFields
<1>3. preroll \in Seq(Blocks) /\ Len(preroll) <= PrerollLen /\ Linked(preroll) /\ Rising(preroll)
      /\ consecutive \in 0..StartBlocks /\ spokeFrom \in 0..MaxBlocks
  BY <1>1 DEF TapeTypes, GoesOn, RunInPreroll
<1>4. preroll # <<>> => Adjoin(preroll[Len(preroll)], block.n)
  BY <1>1, BlockTaken
<1>5. /\ preroll' \in Seq(Blocks) /\ Len(preroll') \in 1..PrerollLen
      /\ preroll'[Len(preroll')] = block.n
      /\ Linked(preroll') /\ Rising(preroll')
      /\ \A k \in 1..(PrerollLen - 1) :
           k <= Len(preroll) => /\ k + 1 <= Len(preroll')
                                /\ preroll'[Len(preroll') - k] = preroll[Len(preroll) - k + 1]
  <2>1. PICK b, t : b \in Blocks /\ b = block.n /\ t = preroll'
    BY <1>2
  <2>2. t = Latest(Append(preroll, b)) /\ (preroll # <<>> => Adjoin(preroll[Len(preroll)], b))
    BY <1>1, <1>4, <2>1
  <2>3. b \in Blocks
    BY <2>1
  <2>4. t \in Seq(Blocks) /\ Len(t) \in 1..PrerollLen /\ t[Len(t)] = b
    BY <1>3, <2>2, <2>3, PrerollGrows
  <2>5. Linked(t) /\ Rising(t)
    BY <1>3, <2>2, <2>3, PrerollGrows
  <2>6. \A k \in 1..(PrerollLen - 1) :
          k <= Len(preroll) => k + 1 <= Len(t) /\ t[Len(t) - k] = preroll[Len(preroll) - k + 1]
    BY <1>3, <2>2, <2>3, PrerollGrows
  <2> QED
    BY <2>1, <2>4, <2>5, <2>6
<1>6. GoesOn(preroll)'
  <2>1. \A s \in Seq(Blocks) :
           Linked(s) /\ s # <<>> /\ s[Len(s)] = block.n => GoesOn(s)'
    BY <1>1, BlockTaken
  <2>2. PICK s \in Seq(Blocks) : s = preroll'
    BY <1>5
  <2>3. GoesOn(s)'
    BY <1>5, <2>1, <2>2
  <2> QED
    BY <2>2, <2>3 DEF GoesOn, Linked
<1>7. consecutive < StartBlocks /\ consecutive <= Len(preroll) /\ consecutive \in Nat
      /\ (consecutive > 0 => spokeFrom = preroll[Len(preroll) - consecutive + 1])
  BY <1>1, <1>3 DEF RunInPreroll
<1>8. CASE ~block.voice
  BY <1>1, <1>3, <1>5, <1>6, <1>8, Sizes DEF Rising
<1>9. CASE block.voice /\ consecutive = 0
  BY <1>1, <1>2, <1>3, <1>5, <1>6, <1>9, Sizes DEF Rising, Blocks
<1>10. CASE block.voice /\ consecutive > 0
  <2>1. consecutive \in 1..(PrerollLen - 1)
    BY <1>7, <1>10, Sizes
  <2>2. consecutive + 1 <= Len(preroll') /\ preroll'[Len(preroll') - consecutive] = spokeFrom
    BY <1>5, <1>7, <1>10, <2>1
  <2>3. consecutive' = consecutive + 1 /\ spokeFrom' = spokeFrom
    BY <1>1, <1>10
  <2>4. Len(preroll') - consecutive' + 1 = Len(preroll') - consecutive
    BY <1>5, <1>7, <2>3
  <2> QED
    BY <1>3, <1>5, <1>6, <1>7, <2>2, <2>3, <2>4, Sizes DEF Rising
<1> QED
  BY <1>2, <1>7, <1>8, <1>9, <1>10

LEMMA TapeStep == TapeInv /\ [Next]_vars => TapeInv'
<1> SUFFICES ASSUME TapeInv, [Next]_vars PROVE TapeInv'
  OBVIOUS
<1>1. CASE CancelledAtOnce \/ Begin \/ SessionReady \/ Raise
  BY <1>1, TapeKept DEF CancelledAtOnce, Begin, SessionReady, Raise, audioVars, startVars
<1>2. CASE LoopHead \/ GetTimesOut \/ DecodeChunk \/ BlockAccepted \/ Finalized
  BY <1>2, TapeKept DEF LoopHead, GetTimesOut, DecodeChunk, BlockAccepted, Finalized,
    audioVars, startVars
<1>3. CASE Tick \/ SetStop \/ AskCancel \/ UNCHANGED vars
  BY <1>3, TapeKept DEF Tick, SetStop, AskCancel, vars, audioVars, startVars
<1>4. CASE Capture
  BY <1>4, CaptureStep
<1>5. CASE KeepListening
  <2>1. Listen /\ TakeBlock /\ ~started /\ chunks' = chunks
        /\ (~block.voice \/ consecutive' < StartBlocks)
        /\ (~block.voice => consecutive' = 0)
    BY <1>5 DEF KeepListening, Listen
  <2>2. TapeTypes'
    BY <2>1, BlockTaken, ListenStep DEF TapeInv, TapeTypes
  <2>3. RunInPreroll'
    BY <2>1, ListenStep, Sizes DEF RunInPreroll
  <2> QED
    BY <2>1, <2>2, <2>3, BlockTaken, ListenStep DEF TapeInv, started
<1>6. CASE StartSpeech
  <2>1. Listen /\ TakeBlock /\ chunks' = preroll' /\ consecutive' >= StartBlocks
    BY <1>6 DEF StartSpeech, Listen, SavedFirst
  <2>2. TapeTypes'
    BY <2>1, BlockTaken, ListenStep DEF TapeInv, TapeTypes
  <2>3. GoesOn(chunks)'
    BY <2>1, ListenStep DEF GoesOn, Linked
  <2>4. chunks' # <<>>
    BY <2>1, ListenStep
  <2>5. chunks'[1] <= spokeFrom'
    <3> DEFINE first == Len(preroll') - consecutive' + 1
    <3>1. first \in 1..Len(preroll') /\ spokeFrom' = preroll'[first]
      BY <2>1, ListenStep, Sizes
    <3>2. first > 1 => preroll'[1] < preroll'[first]
      <4>1. 1 \in 1..Len(preroll')
        BY <2>1, ListenStep
      <4> QED
        BY <2>1, <3>1, <4>1, ListenStep DEF Rising
    <3>3. preroll'[1] \in Nat /\ preroll'[first] \in Nat
      <4>1. 1 \in 1..Len(preroll') /\ preroll' \in Seq(Blocks)
        BY <2>1, ListenStep
      <4>2. preroll'[1] \in Blocks /\ preroll'[first] \in Blocks
        BY <3>1, <4>1
      <4> QED
        BY <4>2 DEF Blocks
    <3> QED
      BY <2>1, <3>1, <3>2, <3>3
  <2> QED
    BY <2>2, <2>3, <2>4, <2>5, <2>1, BlockTaken DEF TapeInv, started
<1>7. CASE RecordBlock
  <2>1. TakeBlock /\ started /\ chunks' = Append(chunks, block.n)
        /\ UNCHANGED <<preroll, consecutive, spokeFrom>>
    BY <1>7 DEF RecordBlock
  <2>2. TapeTypes /\ chunks \in Seq(Blocks) /\ chunks # <<>> /\ GoesOn(chunks)
        /\ chunks[1] <= spokeFrom /\ block.n \in Blocks
    BY <2>1, BlockTaken, ItemFields DEF TapeInv, TapeTypes, started
  <2>3. chunks' \in Seq(Blocks) /\ Len(chunks') = Len(chunks) + 1 /\ chunks' # <<>>
        /\ chunks'[Len(chunks')] = block.n /\ \A i \in 1..Len(chunks) : chunks'[i] = chunks[i]
    BY <2>1, <2>2
  <2>4. Linked(chunks')
    <3>1. \A i \in 1..(Len(chunks) - 1) : Adjoin(chunks'[i], chunks'[i + 1])
      BY <2>2, <2>3 DEF GoesOn, Linked
    <3>2. Adjoin(chunks'[Len(chunks)], chunks'[Len(chunks) + 1])
      <4>1. Adjoin(chunks[Len(chunks)], block.n)
        BY <2>1, <2>2, BlockTaken
      <4> QED
        BY <2>2, <2>3, <4>1
    <3> QED
      BY <2>2, <2>3, <3>1, <3>2 DEF Linked
  <2>5. GoesOn(chunks)'
    <3>1. \A s \in Seq(Blocks) :
             Linked(s) /\ s # <<>> /\ s[Len(s)] = block.n => GoesOn(s)'
      BY <2>1, BlockTaken
    <3>2. PICK s \in Seq(Blocks) : s = chunks'
      BY <2>3
    <3>3. GoesOn(s)'
      BY <3>1, <3>2, <2>3, <2>4
    <3> QED
      BY <3>2, <3>3 DEF GoesOn, Linked
  <2>6. TapeTypes'
    BY <2>1, <2>2, <2>3, BlockTaken DEF TapeTypes
  <2>7. chunks'[1] <= spokeFrom'
    BY <2>1, <2>2, <2>3
  <2> QED
    BY <2>3, <2>5, <2>6, <2>7, <2>1, BlockTaken DEF TapeInv, started
<1> QED
  BY <1>1, <1>2, <1>3, <1>4, <1>5, <1>6, <1>7 DEF Next, LoopStep

LEMMA TapeAtFirst == Init => TapeInv
<1> SUFFICES ASSUME Init PROVE TapeInv
  OBVIOUS
<1>1. captured = 0 /\ dropped = {} /\ queue = <<>> /\ preroll = <<>> /\ chunks = <<>>
      /\ consecutive = 0 /\ spokeFrom = 0
  BY DEF Init
<1>2. TapeTypes
  BY <1>1, Sizes DEF TapeTypes
<1>3. QueueInv /\ GoesOn(preroll) /\ RunInPreroll
  BY <1>1, Sizes DEF QueueInv, GoesOn, Linked, RunInPreroll, Rising
<1> QED
  BY <1>1, <1>2, <1>3 DEF TapeInv, started

(* The recording is one stretch of what was heard, preroll included, but   *)
(* for blocks that found the queue full (record_command and its callback). *)
THEOREM RecordingIsUnbroken == Spec => []RecordingUnbroken
<1>1. Init => TapeInv
  BY TapeAtFirst
<1>2. TapeInv => RecordingUnbroken
  <2> SUFFICES ASSUME TapeInv PROVE RecordingUnbroken
    OBVIOUS
  <2>1. chunks \in Seq(Blocks) /\ queue \in Seq(Item)
    BY DEF TapeInv, TapeTypes
  <2>2. CASE started
    <3>1. queue # <<>> => Head(queue) = queue[1]
      BY <2>1
    <3>2. GoesOn(chunks) /\ chunks[1] <= spokeFrom /\ chunks # <<>>
      BY <2>2 DEF TapeInv, started
    <3> QED
      BY <3>1, <3>2 DEF GoesOn, Linked, RecordingUnbroken
  <2>3. CASE ~started
    BY <2>3 DEF RecordingUnbroken, started
  <2> QED
    BY <2>2, <2>3
<1> QED
  BY <1>1, <1>2, TapeStep, PTL DEF Spec

-----------------------------------------------------------------------------
(* Types. *)

ControlTypes ==
  /\ loop \in {"begin", "loading", "head", "waiting", "over"} \cup Working
  /\ result \in {"pending", "nothing", "wav", "recording", "raised"}
  /\ why \in {"", "cancel", "stop", "timeout", "max", "text", "silence", "raised"}
  /\ stop \in BOOLEAN /\ cancel \in BOOLEAN /\ arrived \in BOOLEAN
  /\ pending \in Seq(Blocks) /\ given \in Seq(Blocks) /\ news \in BOOLEAN
  /\ patience \in 0..GetTimeout

AgeTypes ==
  /\ waited \in 0..(StartBound + 1) /\ speaking \in 0..(SpeechBound + StartBlocks)
  /\ quiet \in 0..Silence /\ textAge \in -1..TextIdle
  /\ sinceTaken \in 0..TextIdle
  /\ gaps \in [voice : 0..Silence, text : -1..TextIdle]
  /\ voiceAge \in 0..Silence
  /\ startTimeout \in StartTimeouts

LEMMA LeaveTypes ==
  ASSUME ControlTypes, NEW recorded, NEW reason, Leave(recorded, reason)
  PROVE  loop' \in {"over", "finishing"} /\ why' = reason
         /\ result' \in {"pending", "nothing", "wav", "recording", "raised"}
BY DEF Leave, ControlTypes

LEMMA JudgeTypes ==
  ASSUME ControlTypes, NEW recorded, NEW gap, Judge(recorded, gap)
  PROVE  /\ loop' \in {"over", "finishing", "head"}
         /\ why' \in {"text", "silence", why}
         /\ result' \in {"pending", "nothing", "wav", "recording", "raised"}
<1>1. \/ \E reason \in {"text", "silence"} : Leave(recorded, reason)
      \/ loop' = "head" /\ UNCHANGED endVars
  BY DEF Judge
<1> QED
  BY <1>1, LeaveTypes DEF ControlTypes, endVars

LEMMA ControlStep == ControlTypes /\ TapeInv /\ TapeInv' /\ [Next]_vars => ControlTypes'
<1> SUFFICES ASSUME ControlTypes, TapeInv, TapeInv', [Next]_vars PROVE ControlTypes'
  OBVIOUS
<1>1. CASE CancelledAtOnce \/ Begin \/ SessionReady \/ Raise
  BY <1>1 DEF CancelledAtOnce, Begin, SessionReady, Raise, Return, ControlTypes,
    audioVars, signalVars, sessionVars, endVars, Working
<1>2. CASE LoopHead
  <2>1. \/ \E reason \in {"stop", "max"} : Leave(chunks, reason) /\ UNCHANGED patience
        \/ \E reason \in {"cancel", "timeout"} : Return("nothing", reason) /\ UNCHANGED patience
        \/ loop' = "waiting" /\ patience' = GetTimeout /\ UNCHANGED endVars
    BY <1>2 DEF LoopHead
  <2>2. UNCHANGED <<stop, cancel, arrived, pending, given, news>>
    BY <1>2 DEF LoopHead, audioVars, signalVars, sessionVars
  <2>3. CASE \E reason \in {"stop", "max"} : Leave(chunks, reason) /\ UNCHANGED patience
    BY <2>2, <2>3, LeaveTypes DEF ControlTypes, Working
  <2>4. CASE \E reason \in {"cancel", "timeout"} : Return("nothing", reason) /\ UNCHANGED patience
    BY <2>2, <2>4 DEF Return, ControlTypes
  <2>5. CASE loop' = "waiting" /\ patience' = GetTimeout /\ UNCHANGED endVars
    <3>1. patience' \in 0..GetTimeout
      BY <2>5, Sizes
    <3> QED
      BY <2>2, <2>5, <3>1 DEF endVars, ControlTypes
  <2> QED
    BY <2>1, <2>3, <2>4, <2>5
<1>3. CASE GetTimesOut
  BY <1>3 DEF GetTimesOut, ControlTypes, audioVars, signalVars, sessionVars, endVars
<1>4. CASE KeepListening
  BY <1>4 DEF KeepListening, Listen, TakeBlock, ControlTypes, signalVars, sessionVars, endVars
<1>5. CASE StartSpeech
  <2>1. pending' \in {pending, preroll'}
    BY <1>5 DEF StartSpeech, Give, GivenFirst
  <2>2. preroll' \in Seq(Blocks)
    BY DEF TapeInv, TapeTypes
  <2>3. given' \in Seq(Blocks)
    <3>1. Len(preroll') \in 1..Len(preroll')
      BY <1>5, ListenStep DEF StartSpeech
    <3>2. Head(preroll') \in Blocks
      BY <2>2, <3>1
    <3>3. given' = given \/ given' = Append(given, Head(preroll'))
      BY <1>5 DEF StartSpeech, Give, GivenFirst
    <3>4. given \in Seq(Blocks)
      BY DEF ControlTypes
    <3> QED
      BY <3>2, <3>3, <3>4
  <2> QED
    BY <1>5, <2>1, <2>2, <2>3 DEF StartSpeech, Listen, TakeBlock, ControlTypes, signalVars,
      endVars, Working
<1>6. CASE RecordBlock
  <2>1. block.n \in Blocks
    BY <1>6, BlockTaken, ItemFields DEF RecordBlock
  <2>2. pending' \in Seq(Blocks)
    <3>1. pending' = pending \/ pending' = <<block.n>>
      BY <1>6 DEF RecordBlock, Give
    <3>2. <<block.n>> \in Seq(Blocks)
      BY <2>1
    <3> QED
      BY <3>1, <3>2 DEF ControlTypes
  <2>5. given' \in Seq(Blocks)
    <3>1. given' = given \/ given' = Append(given, block.n)
      BY <1>6 DEF RecordBlock, Give
    <3>2. given \in Seq(Blocks)
      BY DEF ControlTypes
    <3> QED
      BY <2>1, <3>1, <3>2
  <2>3. \/ loop' = "transcribing" /\ UNCHANGED endVars
        \/ Judge(chunks', gaps')
    BY <1>6 DEF RecordBlock
  <2>4. \/ loop' = "transcribing" /\ UNCHANGED endVars
        \/ /\ loop' \in {"over", "finishing", "head"}
           /\ why' \in {"text", "silence", why}
           /\ result' \in {"pending", "nothing", "wav", "recording", "raised"}
    <3>1. PICK recorded, gap : recorded = chunks' /\ gap = gaps'
      OBVIOUS
    <3>2. CASE Judge(recorded, gap)
      BY <3>2, JudgeTypes
    <3> QED
      BY <2>3, <3>1, <3>2
  <2> QED
    BY <1>6, <2>2, <2>4, <2>5 DEF RecordBlock, TakeBlock, ControlTypes, signalVars, endVars, Working
<1>7. CASE DecodeChunk
  BY <1>7 DEF DecodeChunk, ControlTypes, audioVars, signalVars, endVars
<1>8. CASE BlockAccepted
  <2>1. pending' \in Seq(Blocks)
    <3>1. pending' = <<>> \/ (Len(pending) > 1 /\ pending' = Tail(pending))
      BY <1>8 DEF BlockAccepted, Give
    <3>2. pending \in Seq(Blocks)
      BY DEF ControlTypes
    <3>3. Len(pending) > 1 => Tail(pending) \in Seq(Blocks)
      BY <3>2
    <3>4. <<>> \in Seq(Blocks)
      OBVIOUS
    <3> QED
      BY <3>1, <3>3, <3>4
  <2>3. given' \in Seq(Blocks)
    <3>1. \/ given' = given
          \/ Len(pending) > 1 /\ given' = Append(given, Head(Tail(pending)))
      BY <1>8 DEF BlockAccepted, Give
    <3>2. pending \in Seq(Blocks) /\ given \in Seq(Blocks)
      BY DEF ControlTypes
    <3>3. Len(pending) > 1 => Head(Tail(pending)) \in Blocks
      BY <3>2
    <3> QED
      BY <3>1, <3>2, <3>3
  <2>2. \/ loop' \in {loop, "head"} /\ UNCHANGED endVars
        \/ \E gap : Judge(chunks, gap)
    BY <1>8 DEF BlockAccepted
  <2> QED
    BY <1>8, <2>1, <2>2, <2>3, JudgeTypes DEF BlockAccepted, ControlTypes, audioVars, signalVars,
      endVars, Working
<1>9. CASE Finalized
  BY <1>9 DEF Finalized, ControlTypes, audioVars, signalVars, sessionVars
<1>10. CASE Tick \/ Capture \/ SetStop \/ AskCancel
  <2>1. CASE Tick
    <3>1. patience' \in 0..GetTimeout
      <4>1. patience \in 0..GetTimeout
        BY DEF ControlTypes
      <4>2. patience' = patience \/ (patience > 0 /\ patience' = patience - 1)
        BY <2>1 DEF Tick
      <4> QED
        BY <4>1, <4>2, Sizes
    <3>2. arrived' = FALSE /\ UNCHANGED <<loop, result, why, stop, cancel, pending, given, news>>
      BY <2>1 DEF Tick, signalVars, sessionVars, endVars
    <3> QED
      BY <3>1, <3>2 DEF ControlTypes
  <2>2. CASE Capture
    BY <2>2 DEF Capture, ControlTypes, signalVars, sessionVars, endVars
  <2>3. CASE SetStop \/ AskCancel
    BY <2>3 DEF SetStop, AskCancel, ControlTypes, audioVars, sessionVars, endVars
  <2> QED
    BY <1>10, <2>1, <2>2, <2>3
<1>11. CASE UNCHANGED vars
  BY <1>11 DEF vars, ControlTypes, audioVars, signalVars, sessionVars, endVars
<1> QED
  BY <1>1, <1>2, <1>3, <1>4, <1>5, <1>6, <1>7, <1>8, <1>9, <1>10, <1>11
     DEF Next, LoopStep

LEMMA AgeStep == AgeTypes /\ [Next]_vars => AgeTypes'
<1> SUFFICES ASSUME AgeTypes, [Next]_vars PROVE AgeTypes'
  OBVIOUS
<1>1. CASE UNCHANGED <<startTimeout, waited, ageVars, voiceAge>>
  BY <1>1 DEF AgeTypes, ageVars, StartBound, SpeechBound
<1>2. CASE CancelledAtOnce \/ Begin \/ SessionReady \/ Raise \/ LoopHead \/ GetTimesOut
           \/ DecodeChunk \/ Finalized \/ SetStop \/ AskCancel \/ UNCHANGED vars
  BY <1>1, <1>2 DEF CancelledAtOnce, Begin, SessionReady, Raise, LoopHead, GetTimesOut,
    DecodeChunk, Finalized, SetStop, AskCancel, vars, startVars, audioVars
<1>3. CASE KeepListening
  BY <1>3, Sizes DEF KeepListening, Listen, TakeBlock, AgeTypes, StartBound, SpeechBound
<1>4. CASE StartSpeech
  BY <1>4, Sizes DEF StartSpeech, Listen, TakeBlock, AgeTypes, StartBound, SpeechBound
<1>5. CASE RecordBlock
  <2>1. QuietNow \in 0..Silence
    BY Sizes DEF QuietNow, AgeTypes
  <2>2. gaps' \in [voice : 0..Silence, text : -1..TextIdle]
    BY <1>5, <2>1 DEF RecordBlock, AgeTypes
  <2> QED
    BY <1>5, <2>1, <2>2, Sizes DEF RecordBlock, TakeBlock, AgeTypes, StartBound, SpeechBound
<1>6. CASE BlockAccepted
  <2>1. textAge' \in {sinceTaken, textAge}
    BY <1>6 DEF BlockAccepted
  <2>2. textAge' \in -1..TextIdle
    BY <2>1, Sizes DEF AgeTypes
  <2>3. UNCHANGED <<startTimeout, waited, speaking, quiet, sinceTaken, gaps, voiceAge>>
    BY <1>6 DEF BlockAccepted, startVars, audioVars
  <2> QED
    BY <2>2, <2>3 DEF AgeTypes, StartBound, SpeechBound
<1>7. CASE Tick
  BY <1>7, Sizes DEF Tick, AgeTypes, UpTo, Smaller, StartBound, SpeechBound
<1>8. CASE Capture
  BY <1>8, Sizes DEF Capture, AgeTypes, startVars, ageVars, StartBound, SpeechBound
<1> QED
  BY <1>2, <1>3, <1>4, <1>5, <1>6, <1>7, <1>8 DEF Next, LoopStep

TypeInv == ControlTypes /\ AgeTypes /\ TapeInv /\ SessionInv

LEMMA TypesAtFirst == Init => TypeInv
<1> SUFFICES ASSUME Init PROVE TypeInv
  OBVIOUS
<1>1. ControlTypes
  <2>1. loop = "begin" /\ result = "pending" /\ why = "" /\ stop = FALSE /\ cancel = FALSE
        /\ arrived = FALSE /\ pending = <<>> /\ given = <<>> /\ news = FALSE
    BY DEF Init
  <2>2. patience \in 0..GetTimeout
    <3>1. patience = 0
      BY DEF Init
    <3> QED
      BY <3>1, Sizes
  <2>3. <<>> \in Seq(Blocks)
    OBVIOUS
  <2> QED
    BY <2>1, <2>2, <2>3 DEF ControlTypes
<1>2. AgeTypes
  <2>1. waited = 0 /\ speaking = 0 /\ quiet = 0 /\ textAge = -1 /\ sinceTaken = 0
        /\ gaps = [voice |-> 0, text |-> -1] /\ voiceAge = Silence
        /\ startTimeout \in StartTimeouts
    BY DEF Init
  <2>2. 0 \in 0..Silence /\ -1 \in -1..TextIdle /\ Silence \in 0..Silence
    BY Sizes
  <2>3. gaps \in [voice : 0..Silence, text : -1..TextIdle]
    BY <2>1, <2>2
  <2> QED
    BY <2>1, <2>2, <2>3, Sizes DEF AgeTypes, StartBound, SpeechBound
<1> QED
  BY <1>1, <1>2, TapeAtFirst, SessionAtFirst DEF TypeInv

LEMMA TypeStep == TypeInv /\ [Next]_vars => TypeInv'
BY ControlStep, AgeStep, TapeStep, SessionStep DEF TypeInv

(* Every variable of record_command, its callback and the live session     *)
(* keeps its type: queue and preroll within their length, the run of voice *)
(* within the blocks that start a recording.                               *)
THEOREM RecordingTypeCorrect == Spec => []TypeOK
<1>1. TypeInv => TypeOK
  BY DEF TypeInv, ControlTypes, AgeTypes, TapeInv, TapeTypes, SessionInv, TypeOK, Item
<1> QED
  BY <1>1, TypesAtFirst, TypeStep, PTL DEF Spec
-----------------------------------------------------------------------------
(* Silence, without a live session. *)

(* Without a session no time passes but in waits on an empty queue, so it  *)
(* holds one block at most, and silence is judged by the newest block.     *)
SilenceInv ==
  ~Live =>
    /\ loop \notin {"loading", "priming", "transcribing", "finishing"}
    /\ Len(queue) <= 1 /\ (queue # <<>> => arrived)
    /\ started /\ (queue = <<>> \/ ~queue[1].voice) => quiet <= voiceAge
    /\ why = "silence" => loop = "over" /\ voiceAge >= Silence

LEMMA SilenceStep == TypeInv /\ SilenceInv /\ [Next]_vars => SilenceInv'
<1> SUFFICES ASSUME TypeInv, SilenceInv, [Next]_vars, ~Live PROVE SilenceInv'
  BY DEF SilenceInv
<1>1. queue \in Seq(Item) /\ Len(queue) \in Nat /\ quiet \in 0..Silence /\ voiceAge \in 0..Silence
  BY DEF TypeInv, TapeInv, TapeTypes, AgeTypes
<1>2. loop \notin {"loading", "priming", "transcribing", "finishing"}
  BY DEF SilenceInv
<1>3. CASE UNCHANGED <<queue, arrived, chunks, quiet, voiceAge>>
           /\ loop' \notin {"loading", "priming", "transcribing", "finishing"}
           /\ (why' # "silence" \/ UNCHANGED <<why, loop>>)
  BY <1>3 DEF SilenceInv, started
<1>4. CASE CancelledAtOnce \/ Begin \/ Raise \/ GetTimesOut \/ SetStop \/ AskCancel
  BY <1>2, <1>3, <1>4 DEF CancelledAtOnce, Begin, Raise, GetTimesOut, SetStop, AskCancel,
    Return, audioVars, ageVars, endVars, SilenceInv
<1>5. CASE LoopHead
  BY <1>2, <1>3, <1>5 DEF LoopHead, Leave, Return, audioVars, ageVars, endVars, SilenceInv
<1>6. CASE SessionReady \/ DecodeChunk \/ BlockAccepted \/ Finalized
  BY <1>2, <1>6 DEF SessionReady, DecodeChunk, BlockAccepted, Finalized, Working
<1>7. CASE KeepListening \/ StartSpeech \/ RecordBlock
  <2>1. loop = "waiting" /\ queue # <<>> /\ queue' = Tail(queue) /\ UNCHANGED <<arrived, voiceAge>>
    BY <1>7 DEF KeepListening, StartSpeech, RecordBlock, Listen, TakeBlock
  <2>2. queue' = <<>> /\ Len(queue') = 0 /\ block = queue[1]
    <3>1. Len(queue) <= 1
      BY Zenon DEF SilenceInv
    <3>2. queue \in Seq(Item) /\ queue # <<>> /\ queue' = Tail(queue)
      BY <1>1, <2>1
    <3>3. Len(queue) = 1
      <4>1. Len(queue) \in Nat /\ Len(queue) # 0
        BY <3>2
      <4>2. \A n \in Nat : n # 0 /\ n <= 1 => n = 1
        OBVIOUS
      <4> QED
        BY <3>1, <4>1, <4>2
    <3> QED
      BY <3>2, <3>3 DEF block
  <2>3. CASE KeepListening
    BY <2>1, <2>2, <2>3 DEF KeepListening, Listen, started, endVars, SilenceInv
  <2>4. CASE StartSpeech
    BY <1>1, <2>1, <2>2, <2>4 DEF StartSpeech, started, endVars, SilenceInv
  <2>5. CASE RecordBlock
    <3>1. quiet' = QuietNow /\ started /\ Judge(chunks', gaps') /\ gaps'.voice = quiet'
      BY <2>5 DEF RecordBlock
    <3>2. quiet' <= voiceAge
      BY <1>1, <2>2, <3>1 DEF QuietNow, SilenceInv
    <3>3. \/ loop' = "over" /\ why' = "silence" /\ quiet' >= Silence
          \/ loop' = "head" /\ UNCHANGED why
      BY <3>1 DEF Judge, Leave, endVars
    <3>4. quiet' \in 0..Silence
      BY <1>1, <3>1, Sizes DEF QuietNow
    <3>5. why # "silence"
      BY <2>1 DEF SilenceInv
    <3> QED
      BY <1>1, <2>1, <2>2, <3>2, <3>3, <3>4, <3>5, Sizes DEF SilenceInv
  <2> QED
    BY <1>7, <2>3, <2>4, <2>5
<1>8. CASE Capture
  <2>1. queue = <<>> /\ arrived' = TRUE /\ UNCHANGED <<loop, why, chunks, quiet>>
        /\ loop # "over"
    BY <1>1, <1>8 DEF Capture, SilenceInv, endVars, ageVars
  <2>2. PICK voice \in BOOLEAN :
          /\ queue' = Append(queue, [n |-> captured + 1, voice |-> voice])
          /\ voiceAge' = IF voice THEN 0 ELSE voiceAge
    BY <1>8, <2>1, Sizes DEF Capture
  <2>3. Len(queue') = 1 /\ queue'[1].voice = voice /\ queue' # <<>>
    BY <2>1, <2>2
  <2>4. why # "silence"
    BY <2>1 DEF SilenceInv
  <2>5. started /\ ~voice => quiet <= voiceAge'
    BY <2>1, <2>2 DEF SilenceInv
  <2> QED
    BY <1>2, <2>1, <2>3, <2>4, <2>5 DEF SilenceInv, started
<1>9. CASE Tick
  <2>1. queue = <<>> /\ loop = "waiting" /\ UNCHANGED <<loop, why, queue, chunks>>
    BY <1>2, <1>9 DEF Tick, endVars
  <2>2. started => quiet' <= voiceAge'
    BY <1>1, <1>9, <2>1, Sizes DEF Tick, UpTo, Smaller, SilenceInv
  <2> QED
    BY <2>1, <2>2 DEF SilenceInv, started
<1>10. CASE UNCHANGED vars
  BY <1>2, <1>3, <1>10 DEF vars, audioVars, ageVars, endVars
<1> QED
  BY <1>4, <1>5, <1>6, <1>7, <1>8, <1>9, <1>10 DEF Next, LoopStep

(* Without a live session, silence ends a recording only if no voice       *)
(* reached the microphone for speech_silence_duration_seconds.             *)
THEOREM PlainEndsInSilence == Spec => [](~Live => EndsInSilence)
<1>1. Init => SilenceInv
  <2> SUFFICES ASSUME Init PROVE SilenceInv
    OBVIOUS
  <2>1. loop = "begin" /\ queue = <<>> /\ chunks = <<>> /\ why = ""
    BY DEF Init
  <2>2. Len(queue) <= 1
    <3>1. queue = <<>>
      BY <2>1
    <3> QED
      BY <3>1
  <2> QED
    BY <2>1, <2>2, Zenon DEF SilenceInv, started
<1>2. SilenceInv => (~Live => EndsInSilence)
  BY DEF SilenceInv, EndsInSilence
<1> QED
  BY <1>1, <1>2, TypesAtFirst, TypeStep, SilenceStep, PTL DEF Spec

-----------------------------------------------------------------------------
(* What the live session hears. *)

(* While it is given the preroll, it has had all but what is pending, the  *)
(* block in hand not counted; at all other times, the whole recording.     *)
HearsInv ==
  Live =>
    /\ loop \notin {"priming", "over"} => total = BlockLen * Len(chunks)
    /\ loop = "priming" =>
         /\ Len(pending) \in 1..Len(chunks)
         /\ total = BlockLen * (Len(chunks) - Len(pending) + 1)
    /\ loop = "transcribing" => Len(pending) = 1

LEMMA OneMore == \A b, n \in Nat : b * (n + 1) = b * n + b /\ b * 1 = b /\ b * 0 = 0
BY Z3

LEMMA HearsStep == TypeInv /\ TypeInv' /\ HearsInv /\ [Next]_vars => HearsInv'
<1> SUFFICES ASSUME TypeInv, TypeInv', HearsInv, [Next]_vars, Live PROVE HearsInv'
  BY DEF HearsInv
<1>1. /\ chunks \in Seq(Blocks) /\ Len(chunks) \in Nat
      /\ pending \in Seq(Blocks) /\ Len(pending) \in Nat
      /\ preroll' \in Seq(Blocks) /\ total \in Nat /\ BlockLen \in Nat
  <2>1. chunks \in Seq(Blocks) /\ pending \in Seq(Blocks)
    BY DEF TypeInv, TapeInv, TapeTypes, ControlTypes
  <2>2. preroll' \in Seq(Blocks)
    BY DEF TypeInv, TapeInv, TapeTypes
  <2>3. total \in Nat /\ BlockLen \in Nat
    BY Sizes DEF TypeInv, SessionInv
  <2> QED
    BY <2>1, <2>2, <2>3
<1>2. CASE UNCHANGED <<chunks, pending, total>>
           /\ (\/ loop' \in {loop, "over"}
               \/ loop \notin {"priming", "over"} /\ loop' \notin {"priming", "transcribing"})
  BY <1>2 DEF HearsInv
<1>3. CASE CancelledAtOnce \/ Begin \/ SessionReady \/ Raise
  BY <1>2, <1>3 DEF CancelledAtOnce, Begin, SessionReady, Raise, Return, sessionVars
<1>4. CASE LoopHead \/ GetTimesOut
  BY <1>2, <1>4 DEF LoopHead, GetTimesOut, Leave, Return, sessionVars
<1>5. CASE KeepListening
  BY <1>2, <1>5 DEF KeepListening, Listen, TakeBlock, sessionVars
<1>6. CASE StartSpeech
  <2>1. chunks = <<>> /\ loop = "waiting" /\ loop' = "priming" /\ chunks' = preroll'
        /\ pending' = preroll' /\ total' = total + BlockLen
    BY <1>6 DEF StartSpeech, Listen, TakeBlock, started, Give, SavedFirst, GivenFirst
  <2>2. Len(preroll') \in 1..Len(preroll')
    <3>1. TapeInv /\ Listen
      BY <1>6 DEF StartSpeech, TypeInv
    <3> QED
      BY <3>1, ListenStep
  <2>3. total = 0
    <3>1. total = BlockLen * Len(chunks)
      BY <2>1 DEF HearsInv
    <3>2. Len(chunks) = 0
      BY <2>1
    <3> QED
      BY <3>1, <3>2, <1>1, OneMore
  <2>4. Len(preroll') - Len(preroll') + 1 = 1
    BY <2>2
  <2>5. total' = BlockLen * (Len(chunks') - Len(pending') + 1)
    BY <1>1, <2>1, <2>3, <2>4, OneMore
  <2> QED
    BY <2>1, <2>2, <2>5 DEF HearsInv
<1>7. CASE RecordBlock
  <2>1. loop = "waiting" /\ loop' = "transcribing" /\ chunks' = Append(chunks, block.n)
        /\ pending' = <<block.n>> /\ total' = total + BlockLen
    BY <1>7 DEF RecordBlock, TakeBlock, Give
  <2>2. Len(chunks') = Len(chunks) + 1 /\ Len(pending') = 1
    BY <1>1, <2>1
  <2>3. total = BlockLen * Len(chunks)
    BY <2>1 DEF HearsInv
  <2>4. total' = BlockLen * Len(chunks')
    BY <1>1, <2>1, <2>2, <2>3, OneMore
  <2> QED
    BY <2>1, <2>2, <2>4 DEF HearsInv
<1>8. CASE DecodeChunk
  BY <1>2, <1>8 DEF DecodeChunk
<1>9. CASE BlockAccepted
  <2>1. CASE Len(pending) > 1
    <3>1. loop = "priming" /\ loop' = loop /\ chunks' = chunks /\ pending' = Tail(pending)
          /\ total' = total + BlockLen
      <4>1. loop \in {"priming", "transcribing"} /\ loop' = loop /\ chunks' = chunks
            /\ pending' = Tail(pending) /\ total' = total + BlockLen
        BY <1>9, <2>1 DEF BlockAccepted, Give
      <4>2. loop = "transcribing" => Len(pending) = 1
        BY Zenon DEF HearsInv
      <4>3. loop # "transcribing"
        <5>1. \A n \in Nat : n > 1 => n # 1
          OBVIOUS
        <5> QED
          BY <1>1, <2>1, <4>2, <5>1, Zenon
      <4> QED
        BY <4>1, <4>3
    <3>2. Len(pending') = Len(pending) - 1
      BY <1>1, <2>1, <3>1
    <3>3. Len(pending) \in 1..Len(chunks) /\ total = BlockLen * (Len(chunks) - Len(pending) + 1)
      BY <3>1 DEF HearsInv
    <3>4. Len(chunks) - Len(pending) + 1 \in Nat
          /\ Len(chunks) - Len(pending') + 1 = (Len(chunks) - Len(pending) + 1) + 1
      BY <1>1, <3>2, <3>3
    <3>5. total' = BlockLen * (Len(chunks) - Len(pending') + 1)
      BY <1>1, <3>1, <3>3, <3>4, OneMore
    <3>6. Len(pending') \in 1..Len(chunks)
      BY <1>1, <2>1, <3>2, <3>3
    <3> QED
      BY <3>1, <3>5, <3>6 DEF HearsInv
  <2>2. CASE ~(Len(pending) > 1)
    <3>1. UNCHANGED <<chunks, total>> /\ loop \in {"priming", "transcribing"}
          /\ loop' \in {"head", "finishing", "over"}
      BY <1>9, <2>2, JudgeEnds DEF BlockAccepted
    <3>2. total = BlockLen * Len(chunks)
      <4>1. CASE loop = "priming"
        <5>1. Len(pending) = 1 /\ total = BlockLen * (Len(chunks) - Len(pending) + 1)
          <6>1. Len(pending) \in 1..Len(chunks)
                /\ total = BlockLen * (Len(chunks) - Len(pending) + 1)
            BY <4>1, Zenon DEF HearsInv
          <6>2. \A n, m \in Nat : n \in 1..m /\ ~(n > 1) => n = 1
            OBVIOUS
          <6> QED
            BY <1>1, <2>2, <6>1, <6>2, Zenon
        <5>2. Len(chunks) - Len(pending) + 1 = Len(chunks)
          BY <1>1, <5>1
        <5> QED
          BY <5>1, <5>2
      <4>2. CASE loop = "transcribing"
        BY <4>2 DEF HearsInv
      <4> QED
        BY <3>1, <4>1, <4>2
    <3> QED
      BY <3>1, <3>2 DEF HearsInv
  <2> QED
    BY <2>1, <2>2
<1>10. CASE Finalized
  BY <1>2, <1>10 DEF Finalized, sessionVars
<1>11. CASE Tick \/ Capture \/ SetStop \/ AskCancel \/ UNCHANGED vars
  BY <1>2, <1>11 DEF Tick, Capture, SetStop, AskCancel, vars, sessionVars
<1> QED
  BY <1>3, <1>4, <1>5, <1>6, <1>7, <1>8, <1>9, <1>10, <1>11 DEF Next, LoopStep

(* Which blocks: while it is given the preroll, the first ones, up to and  *)
(* with the one in hand; at all other times, those of the recording.       *)
GivenInv ==
  Live =>
    /\ loop \notin {"priming", "over"} => given = chunks
    /\ loop = "priming" =>
         /\ Len(given) + Len(pending) = Len(chunks) + 1
         /\ \A i \in 1..Len(given) : given[i] = chunks[i]
         /\ \A i \in 1..Len(pending) : pending[i] = chunks[Len(given) - 1 + i]
    /\ loop = "transcribing" => Len(pending) = 1

LEMMA GivenStep == TypeInv /\ TypeInv' /\ HearsInv /\ GivenInv /\ [Next]_vars => GivenInv'
<1> SUFFICES ASSUME TypeInv, TypeInv', HearsInv, GivenInv, [Next]_vars, Live PROVE GivenInv'
  BY DEF GivenInv
<1>1. /\ chunks \in Seq(Blocks) /\ pending \in Seq(Blocks) /\ given \in Seq(Blocks)
      /\ Len(chunks) \in Nat /\ Len(pending) \in Nat /\ Len(given) \in Nat
      /\ preroll' \in Seq(Blocks)
  <2>1. /\ chunks \in Seq(Blocks) /\ pending \in Seq(Blocks) /\ given \in Seq(Blocks)
        /\ preroll' \in Seq(Blocks)
    BY DEF TypeInv, TapeInv, TapeTypes, ControlTypes
  <2> QED
    BY <2>1
<1>2. CASE UNCHANGED <<chunks, pending, given>>
           /\ (\/ loop' \in {loop, "over"}
               \/ loop \notin {"priming", "over"} /\ loop' \notin {"priming", "transcribing"})
  BY <1>2 DEF GivenInv
<1>3. CASE CancelledAtOnce \/ Begin \/ SessionReady \/ Raise
  BY <1>2, <1>3 DEF CancelledAtOnce, Begin, SessionReady, Raise, Return, sessionVars
<1>4. CASE LoopHead \/ GetTimesOut
  BY <1>2, <1>4 DEF LoopHead, GetTimesOut, Leave, Return, sessionVars
<1>5. CASE KeepListening
  BY <1>2, <1>5 DEF KeepListening, Listen, TakeBlock, sessionVars
<1>6. CASE StartSpeech
  <2>1. /\ chunks = <<>> /\ loop = "waiting" /\ loop' = "priming" /\ chunks' = preroll'
        /\ pending' = preroll' /\ given' = Append(given, Head(preroll'))
    BY <1>6 DEF StartSpeech, Listen, TakeBlock, started, Give, SavedFirst, GivenFirst
  <2>2. Len(preroll') \in 1..Len(preroll')
    <3>1. TapeInv /\ Listen
      BY <1>6 DEF StartSpeech, TypeInv
    <3> QED
      BY <3>1, ListenStep
  <2>3. given = <<>>
    BY <2>1 DEF GivenInv
  <2>4. Len(given') = 1 /\ given'[1] = preroll'[1]
    BY <1>1, <2>1, <2>2, <2>3
  <2> QED
    BY <1>1, <2>1, <2>2, <2>4 DEF GivenInv
<1>7. CASE RecordBlock
  <2>1. /\ loop = "waiting" /\ loop' = "transcribing" /\ chunks' = Append(chunks, block.n)
        /\ pending' = <<block.n>> /\ given' = Append(given, block.n)
    BY <1>7 DEF RecordBlock, TakeBlock, Give
  <2>2. given = chunks
    BY <2>1 DEF GivenInv
  <2> QED
    BY <2>1, <2>2 DEF GivenInv
<1>8. CASE DecodeChunk
  BY <1>2, <1>8 DEF DecodeChunk
<1>9. CASE BlockAccepted
  <2>0. /\ loop = "priming" => Len(pending) \in 1..Len(chunks)
        /\ loop = "transcribing" => Len(pending) = 1
    BY DEF HearsInv
  <2>1. CASE Len(pending) > 1
    <3>1. /\ loop = "priming" /\ loop' = loop /\ chunks' = chunks /\ pending' = Tail(pending)
          /\ given' = Append(given, Head(Tail(pending)))
      <4>1. /\ loop \in {"priming", "transcribing"} /\ loop' = loop /\ chunks' = chunks
            /\ pending' = Tail(pending) /\ given' = Append(given, Head(Tail(pending)))
        BY <1>9, <2>1 DEF BlockAccepted, Give
      <4> QED
        BY <1>1, <2>0, <2>1, <4>1
    <3>2. /\ Len(given) + Len(pending) = Len(chunks) + 1
          /\ \A i \in 1..Len(given) : given[i] = chunks[i]
          /\ \A i \in 1..Len(pending) : pending[i] = chunks[Len(given) - 1 + i]
      BY <3>1 DEF GivenInv
    <3>3. /\ Len(pending') = Len(pending) - 1
          /\ \A i \in 1..Len(pending') : pending'[i] = pending[i + 1]
          /\ Head(Tail(pending)) = pending[2]
      BY <1>1, <2>1, <3>1
    <3>4. /\ Len(given') = Len(given) + 1
          /\ \A i \in 1..Len(given) : given'[i] = given[i]
          /\ given'[Len(given) + 1] = pending[2]
      <4>1. given' = Append(given, pending[2])
        BY <3>1, <3>3
      <4>2. pending[2] \in Blocks
        BY <1>1, <2>1
      <4> QED
        BY <1>1, <4>1, <4>2
    <3>5. pending[2] = chunks[Len(given) + 1]
      <4>1. 2 \in 1..Len(pending) /\ Len(given) - 1 + 2 = Len(given) + 1
        BY <1>1, <2>1
      <4>2. pending[2] = chunks[Len(given) - 1 + 2]
        BY <3>2, <4>1
      <4> QED
        BY <4>1, <4>2
    <3>6. \A i \in 1..Len(given') : given'[i] = chunks[i]
      BY <1>1, <3>2, <3>4, <3>5
    <3>7. \A i \in 1..Len(pending') : pending'[i] = chunks[Len(given') - 1 + i]
      <4> SUFFICES ASSUME NEW i \in 1..Len(pending')
                   PROVE  pending'[i] = chunks[Len(given') - 1 + i]
        OBVIOUS
      <4>1. i + 1 \in 1..Len(pending) /\ pending'[i] = pending[i + 1]
        BY <1>1, <2>1, <3>3
      <4>2. Len(given) - 1 + (i + 1) = Len(given') - 1 + i
        BY <1>1, <3>4
      <4> QED
        BY <3>2, <4>1, <4>2
    <3>8. Len(given') + Len(pending') = Len(chunks) + 1
      <4>1. Len(given) + Len(pending) = Len(chunks) + 1
        BY <3>2
      <4>2. Len(pending') = Len(pending) - 1 /\ Len(given') = Len(given) + 1
        BY <3>3, <3>4
      <4>3. \A a, b, c \in Nat : a + b = c + 1 => (a + 1) + (b - 1) = c + 1
        OBVIOUS
      <4>4. (Len(given) + 1) + (Len(pending) - 1) = Len(chunks) + 1
        BY <1>1, <4>1, <4>3, Zenon
      <4> QED
        BY <4>2, <4>4, Zenon
    <3> QED
      BY <3>1, <3>6, <3>7, <3>8 DEF GivenInv
  <2>2. CASE ~(Len(pending) > 1)
    <3>1. /\ UNCHANGED <<chunks, given>> /\ loop \in {"priming", "transcribing"}
          /\ loop' \in {"head", "finishing", "over"}
      BY <1>9, <2>2, JudgeEnds DEF BlockAccepted
    <3>2. given = chunks
      <4>1. CASE loop = "priming"
        <5>1. Len(pending) \in 1..Len(chunks)
          BY <2>0, <4>1
        <5>2. Len(pending) = 1
          <6>1. \A n, m \in Nat : n \in 1..m /\ ~(n > 1) => n = 1
            OBVIOUS
          <6> QED
            BY <1>1, <2>2, <5>1, <6>1, Zenon
        <5>3. Len(given) = Len(chunks)
          <6>1. Len(given) + Len(pending) = Len(chunks) + 1
            BY <4>1 DEF GivenInv
          <6>2. \A a, c \in Nat : a + 1 = c + 1 => a = c
            OBVIOUS
          <6>3. Len(given) + 1 = Len(chunks) + 1
            BY <5>2, <6>1, Zenon
          <6> QED
            BY <1>1, <6>2, <6>3, Zenon
        <5>4. \A i \in 1..Len(given) : given[i] = chunks[i]
          BY <4>1 DEF GivenInv
        <5> QED
          BY <1>1, <5>3, <5>4
      <4>2. CASE loop = "transcribing"
        BY <4>2 DEF GivenInv
      <4> QED
        BY <3>1, <4>1, <4>2
    <3> QED
      BY <3>1, <3>2 DEF GivenInv
  <2> QED
    BY <2>1, <2>2
<1>10. CASE Finalized
  BY <1>2, <1>10 DEF Finalized, sessionVars
<1>11. CASE Tick \/ Capture \/ SetStop \/ AskCancel \/ UNCHANGED vars
  BY <1>2, <1>11 DEF Tick, Capture, SetStop, AskCancel, vars, sessionVars
<1> QED
  BY <1>3, <1>4, <1>5, <1>6, <1>7, <1>8, <1>9, <1>10, <1>11 DEF Next, LoopStep

(* The live session is given the blocks of the saved recording, preroll    *)
(* included, each once and in order (record_command's calls of             *)
(* accept_int16).                                                          *)
THEOREM LiveHearsTheRecording == Spec => []LiveHearsWhatIsSaved
<1>1. Init => HearsInv /\ GivenInv
  <2> SUFFICES ASSUME Init PROVE HearsInv /\ GivenInv
    OBVIOUS
  <2>1. loop = "begin" /\ chunks = <<>> /\ total = 0 /\ given = <<>>
    BY DEF Init
  <2>2. Len(chunks) = 0
    BY <2>1
  <2>3. total = BlockLen * Len(chunks)
    BY <2>1, <2>2, Sizes, OneMore
  <2> QED
    BY <2>1, <2>3 DEF HearsInv, GivenInv
<1>2. HearsInv /\ GivenInv => LiveHearsWhatIsSaved
  BY DEF HearsInv, GivenInv, LiveHearsWhatIsSaved
<1> QED
  BY <1>1, <1>2, TypesAtFirst, TypeStep, HearsStep, GivenStep, PTL DEF Spec

=============================================================================
