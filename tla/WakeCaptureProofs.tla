-------------------------- MODULE WakeCaptureProofs ---------------------------
(***************************************************************************)
(* For every size of tape and window: the model's input is unbroken and    *)
(* fresh.  The callback around the ring is a behaviour of the ring,        *)
(* whatever the rates, so this holds in the listener; and the tape keeps   *)
(* time.                                                                   *)
(*                                                                         *)
(* The positions on the tape are counted backwards from the write index,   *)
(* so that the arithmetic stays within two tape lengths and `%' can be     *)
(* replaced by a case distinction once and for all.                        *)
(***************************************************************************)
EXTENDS WakeCapture, TLAPS

(* The cell a samples behind the write index w. *)
Back(w, a) == IF a <= w THEN w - a ELSE w + Capacity - a

(* `%' below twice the divisor. *)
LEMMA ModSmall ==
  ASSUME NEW c \in Nat \ {0}, NEW x \in Nat, x < c + c
  PROVE  x % c = IF x < c THEN x ELSE x - c
  BY SMT

(* The same for the tape's length. *)
LEMMA ModCapacity ==
  ASSUME NEW x \in Nat, x < Capacity + Capacity
  PROVE  x % Capacity = IF x < Capacity THEN x ELSE x - Capacity
<1>1. Capacity \in Nat \ {0}
  BY RingAssumption
<1> QED
  BY <1>1, ModSmall

(* A distance back of at most the tape's length is a cell, and the write   *)
(* index itself at that length only.                                       *)
LEMMA BackInCells ==
  ASSUME NEW w \in Cells, NEW a \in 1..Capacity
  PROVE  /\ Back(w, a) \in Cells
         /\ Back(w, a) = w <=> a = Capacity
  BY RingAssumption DEF Back, Cells

(* The start of a snapshot of n samples. *)
LEMMA BackIsStart ==
  ASSUME NEW w \in Cells, NEW n \in 1..Capacity
  PROVE  (w + Capacity - n) % Capacity = Back(w, n)
<1>1. /\ w + Capacity - n \in Nat
      /\ w + Capacity - n < Capacity + Capacity
  BY RingAssumption DEF Cells
<1>2. (w + Capacity - n) % Capacity
        = IF w + Capacity - n < Capacity THEN w + Capacity - n
          ELSE (w + Capacity - n) - Capacity
  BY <1>1, ModCapacity
<1> QED
  BY <1>2, RingAssumption DEF Back, Cells

(* Going k cells forward from a samples back. *)
LEMMA BackForward ==
  ASSUME NEW w \in Cells, NEW a \in 1..Capacity, NEW k \in 0..(a - 1)
  PROVE  (Back(w, a) + k) % Capacity = Back(w, a - k)
<1>1. /\ Back(w, a) + k \in Nat
      /\ Back(w, a) + k < Capacity + Capacity
  BY RingAssumption DEF Cells, Back
<1>2. (Back(w, a) + k) % Capacity
        = IF Back(w, a) + k < Capacity THEN Back(w, a) + k
          ELSE (Back(w, a) + k) - Capacity
  BY <1>1, ModCapacity
<1> QED
  BY <1>2, RingAssumption DEF Back, Cells

(* The write index moves on: the cell it leaves is one sample back, and    *)
(* every other cell is one sample further back.                            *)
LEMMA BackAdvance ==
  ASSUME NEW w \in Cells
  PROVE  /\ (w + 1) % Capacity \in Cells
         /\ Back((w + 1) % Capacity, 1) = w
         /\ \A b \in 1..(Capacity - 1) : Back((w + 1) % Capacity, b + 1) = Back(w, b)
<1>1. /\ w + 1 \in Nat
      /\ w + 1 < Capacity + Capacity
  BY RingAssumption DEF Cells
<1>2. (w + 1) % Capacity = IF w + 1 < Capacity THEN w + 1 ELSE (w + 1) - Capacity
  BY <1>1, ModCapacity
<1> QED
  BY <1>2, RingAssumption DEF Back, Cells

-----------------------------------------------------------------------------
(* The inductive invariant.  Besides the two properties it says what is on *)
(* the tape and where the snapshot's start lies from the write index.      *)

(* Cell a behind the write index holds the a-th newest sample; while a     *)
(* sample is stored but not published, it has replaced the oldest one.     *)
TapeInOrder ==
  /\ \A a \in 1..Capacity :
       a <= Published /\ (a = Capacity => callback # "stored") =>
         tape[Back(writeIndex, a)] = Published + 1 - a
  /\ callback = "stored" => tape[writeIndex] = Published + 1
  /\ callback # "idle" => total < MaxSamples

WorkerSawWindow ==
  /\ worker = "total" => Window <= lastTotal /\ lastTotal <= total
  /\ worker = "index" => Window <= lastTotal /\ lastTotal <= seen /\ seen <= total

(* The start stays where it was while the write index moves away from it.  *)
StartBehind ==
  worker \in {"copy", "infer"} /\ Published - endsAt <= Capacity - Window =>
    start = Back(writeIndex, Window + (Published - endsAt))

CopiedSoFar ==
  /\ worker \in {"copy", "infer"} /\ NotLapped =>
       \A i \in 0..(copied - 1) : input[i] = endsAt - Window + 1 + i
  /\ worker = "infer" => copied = Window

IInv == TypeOK /\ TapeInOrder /\ WorkerSawWindow /\ WindowFresh /\ StartBehind /\ CopiedSoFar

(* A complete window was available, so the snapshot copies a complete one. *)
LEMMA CountIsWindow ==
  ASSUME TypeOK, seen >= Window
  PROVE  Count = Window
  BY RingAssumption DEF Count, Smaller, TypeOK

LEMMA InitIInv == Init => IInv
  BY RingAssumption
  DEF Init, IInv, TypeOK, TapeInOrder, WorkerSawWindow, WindowFresh, StartBehind,
      CopiedSoFar, Cells, Published

(* The callback stores over the oldest sample. *)
LEMMA StoreSampleIInv == IInv /\ StoreSample => IInv'
<1> SUFFICES ASSUME IInv, StoreSample PROVE IInv'
  OBVIOUS
<1> USE RingAssumption DEF IInv, StoreSample, workerVars
<1>1. TypeOK'
  BY DEF TypeOK
<1>2. Published' = Published /\ writeIndex' = writeIndex /\ total' = total
  BY DEF Published
<1>3. TapeInOrder'
  <2>1. ASSUME NEW a \in 1..Capacity, a <= Published, a # Capacity
        PROVE  tape'[Back(writeIndex, a)] = Published + 1 - a
    <3>1. Back(writeIndex, a) \in Cells /\ Back(writeIndex, a) # writeIndex
      BY <2>1, BackInCells DEF TypeOK
    <3> QED
      BY <2>1, <3>1 DEF TypeOK, TapeInOrder
  <2>2. tape'[writeIndex] = Published + 1
    BY DEF TypeOK, Published
  <2> QED
    BY <1>2, <2>1, <2>2 DEF TapeInOrder, TypeOK
<1>4. WorkerSawWindow' /\ WindowFresh'
  BY <1>2 DEF WorkerSawWindow, WindowFresh
<1>5. StartBehind'
  BY <1>2 DEF StartBehind
<1>6. NotLapped' => NotLapped
  BY DEF NotLapped, Stored, TypeOK
<1>7. CopiedSoFar'
  BY <1>6 DEF CopiedSoFar
<1> QED
  BY <1>1, <1>3, <1>4, <1>5, <1>7

(* Publishing the index renumbers every distance. *)
LEMMA PublishIndexIInv == IInv /\ PublishIndex => IInv'
<1> SUFFICES ASSUME IInv, PublishIndex PROVE IInv'
  OBVIOUS
<1> USE RingAssumption DEF IInv, PublishIndex, workerVars
<1>0. writeIndex \in Cells /\ total \in Nat /\ endsAt \in Nat /\ Capacity \in Nat /\ Window \in Nat
  BY DEF TypeOK
<1>1. TypeOK'
  BY <1>0, BackAdvance DEF TypeOK
<1>2. Published' = Published + 1 /\ total' = total /\ Published = total
  BY DEF Published
<1>3. TapeInOrder'
  <2>1. ASSUME NEW a \in 1..Capacity, a <= Published'
        PROVE  tape[Back(writeIndex', a)] = Published' + 1 - a
    <3>1. CASE a = 1
      <4>1. Back(writeIndex', 1) = writeIndex
        BY <1>0, BackAdvance
      <4> QED
        BY <3>1, <4>1, <1>0, <1>2 DEF TapeInOrder
    <3>2. CASE a # 1
      <4> DEFINE b == a - 1
      <4>1. b \in 1..(Capacity - 1) /\ b + 1 = a /\ b <= Published
        BY <1>0, <1>2, <2>1, <3>2
      <4>2. Back(writeIndex', b + 1) = Back(writeIndex, b)
        BY <1>0, <4>1, BackAdvance
      <4>3. tape[Back(writeIndex, b)] = Published + 1 - b
        BY <1>0, <4>1 DEF TapeInOrder
      <4> QED
        BY <4>1, <4>2, <4>3, <1>0, <1>2
    <3> QED
      BY <3>1, <3>2
  <2> QED
    BY <2>1 DEF TapeInOrder
<1>4. WorkerSawWindow' /\ WindowFresh'
  BY <1>0, <1>2 DEF WorkerSawWindow, WindowFresh, TypeOK
<1>5. StartBehind'
  <2> SUFFICES ASSUME worker \in {"copy", "infer"}, Published' - endsAt <= Capacity - Window
               PROVE  start = Back(writeIndex', Window + (Published' - endsAt))
    BY DEF StartBehind
  <2> DEFINE b == Window + (Published - endsAt)
  <2>1. b \in 1..(Capacity - 1) /\ b + 1 = Window + (Published' - endsAt)
    BY <1>0, <1>2 DEF WindowFresh
  <2>2. start = Back(writeIndex, b)
    BY <1>0, <1>2 DEF StartBehind
  <2>3. Back(writeIndex', b + 1) = Back(writeIndex, b)
    BY <1>0, <2>1, BackAdvance
  <2> QED
    BY <2>1, <2>2, <2>3
<1>6. CopiedSoFar'
  BY DEF CopiedSoFar, NotLapped, Stored
<1> QED
  BY <1>1, <1>3, <1>4, <1>5, <1>6

LEMMA PublishTotalIInv == IInv /\ PublishTotal => IInv'
<1> SUFFICES ASSUME IInv, PublishTotal PROVE IInv'
  OBVIOUS
<1> USE RingAssumption DEF IInv, PublishTotal, workerVars
<1>1. Published' = Published /\ Stored' = Stored /\ total \in Nat
  BY DEF Published, Stored, TypeOK
<1>2. TypeOK'
  BY <1>1 DEF TypeOK, TapeInOrder
<1>3. TapeInOrder'
  BY <1>1 DEF TapeInOrder
<1>4. WorkerSawWindow' /\ WindowFresh'
  BY <1>1 DEF WorkerSawWindow, WindowFresh, TypeOK
<1>5. StartBehind'
  BY <1>1 DEF StartBehind
<1>6. CopiedSoFar'
  BY <1>1 DEF CopiedSoFar, NotLapped
<1> QED
  BY <1>2, <1>3, <1>4, <1>5, <1>6

LEMMA PollIInv == IInv /\ Poll => IInv'
<1> SUFFICES ASSUME IInv, Poll PROVE IInv'
  OBVIOUS
<1> USE RingAssumption DEF IInv, Poll, ringVars
<1>1. Published' = Published /\ total \in Nat
  BY DEF Published, TypeOK
<1>2. TypeOK'
  BY DEF TypeOK
<1>3. TapeInOrder'
  BY <1>1 DEF TapeInOrder
<1> QED
  BY <1>1, <1>2, <1>3 DEF WorkerSawWindow, WindowFresh, StartBehind, CopiedSoFar

(* The end of the snapshot is loaded after its total, and published before. *)
LEMMA BeginSnapshotIInv == IInv /\ BeginSnapshot => IInv'
<1> SUFFICES ASSUME IInv, BeginSnapshot PROVE IInv'
  OBVIOUS
<1> USE RingAssumption DEF IInv, BeginSnapshot, ringVars
<1>1. Published' = Published /\ total \in Nat /\ total <= Published
  BY DEF Published, TypeOK, LoadTotal, LoadIndex
<1>2. TapeInOrder'
  BY <1>1 DEF TapeInOrder, LoadTotal, LoadIndex
<1>3. CASE LoadTotal("total", "index")
  <2>1. TypeOK'
    BY <1>3 DEF TypeOK, LoadTotal
  <2> QED
    BY <1>1, <1>2, <1>3, <2>1
    DEF LoadTotal, WorkerSawWindow, WindowFresh, StartBehind, CopiedSoFar
<1>4. CASE LoadIndex("index", "copy")
  <2>1. seen >= Window /\ seen <= total
    BY <1>4, <1>1 DEF LoadIndex, WorkerSawWindow, TypeOK
  <2>2. Count = Window
    BY <2>1, CountIsWindow
  <2>3. start' = Back(writeIndex, Window) /\ start' \in Cells
    BY <1>4, <2>2, BackIsStart, BackInCells DEF LoadIndex, TypeOK
  <2>4. Published \in 0..MaxSamples
    BY DEF Published, TapeInOrder, TypeOK
  <2>5. TypeOK'
    BY <1>4, <2>3, <2>4 DEF TypeOK, LoadIndex
  <2>6. WorkerSawWindow' /\ WindowFresh'
    BY <1>1, <1>4, <2>1, <2>4 DEF LoadIndex, WorkerSawWindow, WindowFresh, TypeOK
  <2>7. StartBehind'
    BY <1>1, <1>4, <2>3, <2>4 DEF LoadIndex, StartBehind
  <2>8. CopiedSoFar'
    BY <1>4 DEF LoadIndex, CopiedSoFar
  <2> QED
    BY <1>2, <2>5, <2>6, <2>7, <2>8
<1> QED
  BY <1>3, <1>4

(* As long as the snapshot is not lapped, the cell it reads is the one     *)
(* that many samples behind the write index, and still holds its sample.   *)
LEMMA CopySampleIInv == IInv /\ CopySample => IInv'
<1> SUFFICES ASSUME IInv, CopySample PROVE IInv'
  OBVIOUS
<1> USE RingAssumption DEF IInv, CopySample, ringVars
<1>0. /\ Published' = Published /\ Stored' = Stored /\ Published \in Nat /\ endsAt \in Nat
      /\ Window <= seen /\ seen <= endsAt /\ endsAt <= Published
      /\ copied \in 0..(Window - 1)
  <2>1. seen >= Window
    BY DEF WindowFresh, TypeOK
  <2> QED
    BY <2>1, CountIsWindow DEF Published, Stored, TypeOK, WindowFresh
<1>1. ASSUME NotLapped
      PROVE  tape[(start + copied) % Capacity] = endsAt - Window + 1 + copied
  <2> DEFINE a == Window + (Published - endsAt)
  <2>1. Published <= Stored /\ (callback = "stored" => Published < Stored)
    BY DEF Published, Stored, TypeOK
  <2>2. a \in 1..Capacity /\ (a = Capacity => callback # "stored")
    BY <1>0, <1>1, <2>1 DEF NotLapped, Stored, TypeOK
  <2>3. start = Back(writeIndex, a)
    BY <1>0, <2>2 DEF StartBehind
  <2>4. (Back(writeIndex, a) + copied) % Capacity = Back(writeIndex, a - copied)
    BY <1>0, <2>2, BackForward DEF TypeOK
  <2>5. /\ a - copied \in 1..Capacity /\ a - copied <= Published
        /\ a - copied = Capacity => callback # "stored"
    BY <1>0, <2>2 DEF TypeOK
  <2>6. tape[Back(writeIndex, a - copied)] = Published + 1 - (a - copied)
    BY <2>5 DEF TapeInOrder
  <2> QED
    BY <1>0, <2>3, <2>4, <2>6
<1>2. (start + copied) % Capacity \in Cells
  BY <1>0, ModCapacity DEF TypeOK, Cells
<1>3. TypeOK'
  BY <1>0, <1>2 DEF TypeOK
<1>4. TapeInOrder'
  BY <1>0 DEF TapeInOrder
<1>5. WorkerSawWindow' /\ WindowFresh' /\ StartBehind'
  BY <1>0 DEF WorkerSawWindow, WindowFresh, StartBehind
<1>6. CopiedSoFar'
  <2> SUFFICES ASSUME NotLapped, NEW i \in 0..copied
               PROVE  input'[i] = endsAt - Window + 1 + i
    BY <1>0 DEF CopiedSoFar, NotLapped
  <2>1. CASE i = copied
    BY <1>0, <1>1, <2>1 DEF TypeOK
  <2>2. CASE i # copied
    BY <1>0, <2>2 DEF TypeOK, CopiedSoFar
  <2> QED
    BY <2>1, <2>2
<1> QED
  BY <1>3, <1>4, <1>5, <1>6

LEMMA SnapshotTakenIInv == IInv /\ (SnapshotTaken \/ Inferred) => IInv'
<1> SUFFICES ASSUME IInv, SnapshotTaken \/ Inferred PROVE IInv'
  OBVIOUS
<1> USE RingAssumption DEF IInv, SnapshotTaken, Inferred, ringVars
<1>1. Published' = Published /\ Stored' = Stored
  BY DEF Published, Stored
<1>2. TypeOK'
  BY DEF TypeOK
<1>3. TapeInOrder'
  BY <1>1 DEF TapeInOrder
<1>4. WorkerSawWindow' /\ WindowFresh' /\ StartBehind'
  BY <1>1 DEF WorkerSawWindow, WindowFresh, StartBehind
<1>5. CopiedSoFar'
  BY <1>1 DEF CopiedSoFar, NotLapped
<1> QED
  BY <1>2, <1>3, <1>4, <1>5

LEMMA StutterIInv == IInv /\ UNCHANGED vars => IInv'
  BY DEF IInv, vars, ringVars, workerVars, TypeOK, TapeInOrder, WorkerSawWindow, WindowFresh,
         StartBehind, CopiedSoFar, NotLapped, Stored, Published, Cells

LEMMA NextIInv == IInv /\ [Next]_vars => IInv'
  BY StoreSampleIInv, PublishIndexIInv, PublishTotalIInv, PollIInv, BeginSnapshotIInv,
     CopySampleIInv, SnapshotTakenIInv, StutterIInv
  DEF Next, Exhausted

LEMMA IInvHolds == Spec => []IInv
  BY InitIInv, NextIInv, PTL DEF Spec

-----------------------------------------------------------------------------

(* The ring's and the worker's variables keep their types: the write index *)
(* stays on the tape and the copy inside the model's input buffer.         *)
THEOREM RingTypeCorrect == Spec => []TypeOK
  BY IInvHolds, PTL DEF IInv

(* For every tape at least as long as the window, whatever the interleaving *)
(* of ring_write with ring_snapshot_latest: a window that was not lapped    *)
(* reaches run_model as one unbroken stretch of audio.                      *)
THEOREM ModelInputUnbroken == Spec => []WindowUnbroken
<1>1. IInv => WindowUnbroken
  BY DEF IInv, CopiedSoFar, WindowUnbroken
<1> QED
  BY <1>1, IInvHolds, PTL

(* The window ends with the newest published audio and holds recorded       *)
(* samples only, because total is published after and loaded before the     *)
(* write index.                                                             *)
THEOREM ModelInputFresh == Spec => []WindowFresh
<1>1. IInv => WindowFresh
  BY DEF IInv
<1> QED
  BY <1>1, IInvHolds, PTL

-----------------------------------------------------------------------------
(* The callback around the ring. *)

(* Every step of the callback, of the main loop and of the worker is a     *)
(* step of the ring or leaves it alone.                                    *)
LEMMA CaptureStepIsRingStep ==
  ASSUME [CaptureNext]_captureVars
  PROVE  [Next]_vars
<1>1. CASE Process
  <2>1. ASSUME NEW n \in 0..MaxFrames, Dequeue(n) PROVE [Next]_vars
    BY <2>1 DEF Dequeue
  <2>2. CASE TakeFrame BY <2>2 DEF TakeFrame
  <2>3. CASE QueueBuffer BY <2>3 DEF QueueBuffer
  <2>4. CASE Test BY <2>4 DEF Test
  <2>5. CASE WriteSample BY <2>5 DEF WriteSample, Next
  <2>6. CASE Spend BY <2>6 DEF Spend
  <2> QED BY <1>1, <2>1, <2>2, <2>3, <2>4, <2>5, <2>6 DEF Process
<1>2. CASE FormatChange
  <2>1. ASSUME NEW r \in Rates, ResetAccumulator(r) PROVE [Next]_vars
    BY <2>1 DEF ResetAccumulator
  <2>2. CASE StoreRate BY <2>2 DEF StoreRate
  <2> QED BY <1>2, <2>1, <2>2 DEF FormatChange
<1>3. CASE Worker BY <1>3 DEF Worker, Next
<1>4. CASE UNCHANGED captureVars BY <1>4 DEF captureVars
<1> QED BY <1>1, <1>2, <1>3, <1>4 DEF CaptureNext

(* The listener's capture implements the ring. *)
THEOREM CaptureImplementsRing == CaptureSpec => Spec
<1>1. CaptureInit => Init BY DEF CaptureInit
<1>2. [CaptureNext]_captureVars => [Next]_vars BY CaptureStepIsRingStep
<1> QED BY <1>1, <1>2, PTL DEF CaptureSpec, Spec

(* The model is given one unbroken stretch of the tape unless the callback *)
(* laps the snapshot, whatever the buffers, the rates and their changes.   *)
THEOREM CaptureInputUnbroken == CaptureSpec => []WindowUnbroken
BY CaptureImplementsRing, ModelInputUnbroken, PTL

(* And it ends with the newest sample, however the buffers fall.           *)
THEOREM CaptureInputFresh == CaptureSpec => []WindowFresh
BY CaptureImplementsRing, ModelInputFresh, PTL

-----------------------------------------------------------------------------
(* The time of the tape. *)

(* The samples on the tape since the last format change that the           *)
(* accumulator has been charged for.                                       *)
Charged == IF process = "spent" THEN total - since - 1 ELSE total - since

(* Between a format change that found the callback at rest and the next    *)
(* one, nothing of the time heard is lost: it is on the tape or in the     *)
(* accumulator, which holds less than a sample outside the inner loop.     *)
Balanced ==
  /\ process # "idle" => setting = <<>> /\ rate = EffectiveRate
  /\ setting # <<>> => accumulator = 0 /\ heard = 0 /\ since = total
  /\ setting = <<>> =>
       /\ Charged * EffectiveRate + accumulator = heard * ModelRate
       /\ accumulator < EffectiveRate + ModelRate
  /\ process \in {"idle", "frame"} /\ setting = <<>> => accumulator < EffectiveRate
  /\ process \in {"write", "spent"} => EffectiveRate <= accumulator

TimeInv == FrameTypes /\ (~raced => Balanced)

LEMMA OneMore == \A a, b \in Int : (a + 1) * b = a * b + b
  BY SMT

LEMMA NothingHeard ==
  \A a, b \in Nat : 0 * a + 0 = 0 * b /\ (a > 0 => 0 < a + b /\ 0 < a)
  BY SMT

LEMMA SmallModWord ==
  \A x \in Nat : x < Word => x % Word = x /\ (x + Word) % Word = x
<1> SUFFICES ASSUME NEW x \in Nat, x < Word
             PROVE  x % Word = x /\ (x + Word) % Word = x
  OBVIOUS
<1>1. Word \in Nat \ {0}
  BY CaptureAssumption
<1> QED
  BY <1>1, ModSmall

LEMMA RateFits ==
  ASSUME FrameTypes
  PROVE  /\ EffectiveRate \in Nat /\ EffectiveRate > 0
         /\ EffectiveRate + ModelRate <= Word
         /\ EffectiveRate \in (Rates \cup {ModelRate}) \ {0}
         /\ Word \in Nat /\ ModelRate \in Nat \ {0}
  BY CaptureAssumption DEF FrameTypes, EffectiveRate

LEMMA InitTimeInv == CaptureInit => TimeInv
<1> SUFFICES ASSUME CaptureInit PROVE TimeInv
  OBVIOUS
<1>0. Word \in Nat /\ Word > 0 /\ ModelRate \in Nat \ {0} /\ MaxFrames \in Nat
      /\ MaxHeard \in Nat /\ MaxSamples \in Nat
  BY CaptureAssumption, RingAssumption
<1>1. FrameTypes
  <2>1. setting \in {<<>>} \cup {<<r>> : r \in Rates}
    BY DEF CaptureInit
  <2>2. /\ accumulator \in 0..(Word - 1) /\ frames \in 0..MaxFrames
        /\ heard \in 0..MaxHeard /\ since \in 0..MaxSamples
    BY <1>0 DEF CaptureInit
  <2>3. rate \in (Rates \cup {ModelRate}) \ {0} /\ negotiated \in Rates \cup {ModelRate}
    BY <1>0 DEF CaptureInit
  <2> QED
    BY <2>1, <2>2, <2>3 DEF CaptureInit, FrameTypes
<1>2. EffectiveRate = ModelRate
  BY CaptureAssumption DEF CaptureInit, EffectiveRate
<1>3. Charged = 0
  BY DEF CaptureInit, Init, Charged
<1>4. Balanced
  BY <1>2, <1>3, CaptureAssumption DEF CaptureInit, Init, Balanced
<1> QED
  BY <1>1, <1>4 DEF TimeInv

(* The steps, each from the invariant and the ring's types. *)
LEMMA DequeueTime ==
  ASSUME TypeOK, TimeInv, NEW n \in 0..MaxFrames, Dequeue(n)
  PROVE  TimeInv'
<1>1. FrameTypes'
  BY RateFits DEF TimeInv, FrameTypes, Dequeue
<1>2. EffectiveRate' = EffectiveRate /\ Charged' = Charged
  BY DEF Dequeue, EffectiveRate, Charged, vars, ringVars
<1>3. ASSUME ~raced' PROVE Balanced'
  BY <1>2, <1>3 DEF TimeInv, Balanced, Dequeue, vars, ringVars
<1> QED
  BY <1>1, <1>3 DEF TimeInv

LEMMA TakeFrameTime ==
  ASSUME TypeOK, TimeInv, TakeFrame
  PROVE  TimeInv'
<1>1. FrameTypes'
  BY RateFits, CaptureAssumption DEF TimeInv, FrameTypes, TakeFrame, formatVars
<1>2. EffectiveRate' = EffectiveRate /\ Charged' = Charged
  BY DEF TakeFrame, EffectiveRate, Charged, vars, ringVars, formatVars
<1>3. ASSUME ~raced' PROVE Balanced'
  <2>1. Balanced /\ setting = <<>> /\ setting' = <<>> /\ rate' = rate /\ rate = EffectiveRate
    BY <1>3 DEF TimeInv, Balanced, TakeFrame, formatVars
  <2>2. accumulator' = accumulator + ModelRate
    BY <2>1, RateFits, SmallModWord DEF TimeInv, FrameTypes, Balanced, TakeFrame
  <2>3. heard' * ModelRate = heard * ModelRate + ModelRate
    BY OneMore, RateFits DEF TimeInv, FrameTypes, TakeFrame
  <2>4. Charged \in Int /\ heard \in Nat /\ accumulator \in Nat
    BY DEF TimeInv, FrameTypes, TypeOK, Charged
  <2>5. Charged * EffectiveRate \in Int /\ heard * ModelRate \in Int
    BY <2>4, RateFits DEF TimeInv
  <2>6. Charged' * EffectiveRate' + accumulator' = heard' * ModelRate'
    BY <1>2, <2>1, <2>2, <2>3, <2>4, <2>5, RateFits DEF Balanced, TimeInv
  <2>7. accumulator' < EffectiveRate' + ModelRate'
    BY <1>2, <2>1, <2>2, <2>4, RateFits DEF Balanced, TimeInv, TakeFrame
  <2> QED
    BY <1>2, <2>1, <2>6, <2>7 DEF Balanced, TakeFrame
<1> QED
  BY <1>1, <1>3 DEF TimeInv

LEMMA QueueBufferTime ==
  ASSUME TypeOK, TimeInv, QueueBuffer
  PROVE  TimeInv'
<1>1. FrameTypes'
  BY DEF TimeInv, FrameTypes, QueueBuffer, formatVars
<1>2. EffectiveRate' = EffectiveRate /\ Charged' = Charged
  BY DEF QueueBuffer, EffectiveRate, Charged, vars, ringVars, formatVars
<1>3. ASSUME ~raced' PROVE Balanced'
  BY <1>2, <1>3 DEF TimeInv, Balanced, QueueBuffer, vars, ringVars, formatVars
<1> QED
  BY <1>1, <1>3 DEF TimeInv

LEMMA TestTime ==
  ASSUME TypeOK, TimeInv, Test
  PROVE  TimeInv'
<1>1. FrameTypes'
  BY DEF TimeInv, FrameTypes, Test, formatVars
<1>2. EffectiveRate' = EffectiveRate /\ Charged' = Charged
  BY DEF Test, EffectiveRate, Charged, vars, ringVars, formatVars
<1>3. ASSUME ~raced' PROVE Balanced'
  <2>1. Balanced /\ rate = EffectiveRate /\ setting = <<>>
    BY <1>3 DEF TimeInv, Balanced, Test, formatVars
  <2>2. accumulator \in Nat
    BY DEF TimeInv, FrameTypes
  <2> QED
    BY <1>2, <2>1, <2>2, RateFits DEF TimeInv, Balanced, Test, formatVars
<1> QED
  BY <1>1, <1>3 DEF TimeInv

LEMMA WriteSampleTime ==
  ASSUME TypeOK, TimeInv, WriteSample
  PROVE  TimeInv'
<1>1. FrameTypes'
  BY DEF TimeInv, FrameTypes, WriteSample, formatVars
<1>2. EffectiveRate' = EffectiveRate
  BY DEF WriteSample, EffectiveRate, formatVars
<1>3. Charged' = Charged
  <2>1. CASE PublishTotal
    <3>1. process' = "spent" /\ total' = total + 1 /\ since' = since /\ process = "write"
      BY <2>1 DEF WriteSample, PublishTotal, formatVars
    <3> QED
      BY <3>1 DEF Charged, TypeOK, TimeInv, FrameTypes
  <2>2. CASE StoreSample \/ PublishIndex
    BY <2>2 DEF WriteSample, StoreSample, PublishIndex, formatVars, Charged
  <2> QED
    BY <2>1, <2>2 DEF WriteSample
<1>4. ASSUME ~raced' PROVE Balanced'
  BY <1>2, <1>3, <1>4 DEF TimeInv, Balanced, WriteSample, formatVars
<1> QED
  BY <1>1, <1>4 DEF TimeInv

LEMMA SpendTime ==
  ASSUME TypeOK, TimeInv, Spend
  PROVE  TimeInv'
<1>1. FrameTypes'
  <2>1. accumulator' \in 0..(Word - 1)
    <3>1. rate \in Nat /\ rate > 0 /\ rate + ModelRate <= Word
      BY CaptureAssumption DEF TimeInv, FrameTypes
    <3>2. accumulator + Word - rate \in Nat /\ accumulator + Word - rate < Word + Word
      BY <3>1, RateFits DEF TimeInv, FrameTypes
    <3>3. accumulator' = (accumulator + Word - rate) % Word /\ Word \in Nat \ {0}
      BY RateFits, <3>1 DEF TimeInv, Spend
    <3> QED
      BY <3>2, <3>3
  <2> QED
    BY <2>1 DEF TimeInv, FrameTypes, Spend, formatVars
<1>2. EffectiveRate' = EffectiveRate
  BY DEF Spend, EffectiveRate, formatVars
<1>3. Charged' = Charged + 1 /\ Charged \in Int
  BY DEF Spend, Charged, vars, ringVars, formatVars, TypeOK, TimeInv, FrameTypes
<1>4. ASSUME ~raced' PROVE Balanced'
  <2>1. Balanced /\ rate = EffectiveRate /\ setting = <<>> /\ EffectiveRate <= accumulator
    BY <1>4 DEF TimeInv, Balanced, Spend, formatVars
  <2>2. accumulator' = accumulator - rate
    <3>1. accumulator - rate \in Nat /\ accumulator - rate < Word
      BY <2>1, RateFits DEF TimeInv, FrameTypes
    <3>2. accumulator + Word - rate = (accumulator - rate) + Word
      BY <2>1, RateFits DEF TimeInv, FrameTypes
    <3> QED
      BY <3>1, <3>2, SmallModWord DEF Spend
  <2>3. Charged' * EffectiveRate' = Charged * EffectiveRate + EffectiveRate
    BY <1>2, <1>3, OneMore, RateFits DEF TimeInv
  <2>4. Charged * EffectiveRate \in Int /\ heard' * ModelRate' = heard * ModelRate
    BY <1>3, RateFits DEF TimeInv, Spend
  <2>5. accumulator \in Nat /\ heard * ModelRate \in Int
    BY RateFits DEF TimeInv, FrameTypes
  <2>6. Charged' * EffectiveRate' + accumulator' = heard' * ModelRate'
    BY <2>1, <2>2, <2>3, <2>4, <2>5, RateFits DEF Balanced, TimeInv
  <2>7. accumulator' < EffectiveRate' + ModelRate'
    BY <1>2, <2>1, <2>2, <2>5, RateFits DEF Balanced, TimeInv
  <2> QED
    BY <1>2, <2>1, <2>6, <2>7 DEF Balanced, Spend, formatVars
<1> QED
  BY <1>1, <1>4 DEF TimeInv

LEMMA ResetTime ==
  ASSUME TypeOK, TimeInv, NEW r \in Rates, ResetAccumulator(r)
  PROVE  TimeInv'
<1>1. FrameTypes'
  BY RateFits, CaptureAssumption
  DEF TimeInv, FrameTypes, ResetAccumulator, TypeOK
<1>2. ASSUME ~raced' PROVE Balanced'
  BY <1>2 DEF Balanced, ResetAccumulator, vars, ringVars
<1> QED
  BY <1>1, <1>2 DEF TimeInv

LEMMA StoreRateTime ==
  ASSUME TypeOK, TimeInv, StoreRate
  PROVE  TimeInv'
<1>1. FrameTypes'
  BY DEF TimeInv, FrameTypes, StoreRate, frameVars
<1>2. ASSUME ~raced' PROVE Balanced'
  <2>1. /\ process = "idle" /\ accumulator = 0 /\ heard = 0 /\ since = total
        /\ UNCHANGED <<process, accumulator, heard, since, total>>
    BY <1>2 DEF TimeInv, Balanced, StoreRate, frameVars, vars, ringVars, FrameTypes
  <2>2. Charged' = 0
    BY <2>1 DEF Charged, TypeOK
  <2>3. EffectiveRate' \in Nat /\ EffectiveRate' > 0 /\ ModelRate \in Nat
    BY <1>1, CaptureAssumption DEF FrameTypes, EffectiveRate
  <2>4. setting' = <<>>
    BY DEF StoreRate
  <2>5. heard' = 0 /\ accumulator' = 0 /\ process' = "idle"
    BY <2>1
  <2>6. /\ 0 * EffectiveRate' + 0 = 0 * ModelRate
        /\ 0 < EffectiveRate' + ModelRate /\ 0 < EffectiveRate'
    BY <2>3, NothingHeard, Zenon
  <2>7. Charged' * EffectiveRate' + accumulator' = heard' * ModelRate
    BY <2>2, <2>5, <2>6, Zenon
  <2>8. accumulator' < EffectiveRate' + ModelRate /\ accumulator' < EffectiveRate'
    BY <2>5, <2>6, Zenon
  <2> QED
    BY <2>4, <2>5, <2>7, <2>8 DEF Balanced
<1> QED
  BY <1>1, <1>2 DEF TimeInv

LEMMA StillTime ==
  ASSUME TypeOK, TimeInv, UNCHANGED <<frameVars, formatVars, ringVars>>
  PROVE  TimeInv'
BY DEF TimeInv, FrameTypes, Balanced, Charged, EffectiveRate, frameVars, formatVars, ringVars

LEMMA StepTimeInv == TypeOK /\ TimeInv /\ [CaptureNext]_captureVars => TimeInv'
<1> SUFFICES ASSUME TypeOK, TimeInv, [CaptureNext]_captureVars PROVE TimeInv'
  OBVIOUS
<1>1. CASE Process
  BY <1>1, DequeueTime, TakeFrameTime, QueueBufferTime, TestTime, WriteSampleTime, SpendTime
  DEF Process
<1>2. CASE FormatChange
  BY <1>2, ResetTime, StoreRateTime DEF FormatChange
<1>3. CASE Worker
  <2>1. UNCHANGED ringVars
    BY <1>3 DEF Worker, Poll, BeginSnapshot, LoadTotal, LoadIndex, CopySample,
                SnapshotTaken, Inferred, ringVars
  <2> QED
    BY <1>3, <2>1, StillTime DEF Worker
<1>4. CASE UNCHANGED captureVars
  BY <1>4, StillTime DEF captureVars, vars
<1> QED
  BY <1>1, <1>2, <1>3, <1>4 DEF CaptureNext

LEMMA TimeInvHolds == CaptureSpec => []TimeInv
<1>1. CaptureSpec => []TypeOK
  BY CaptureImplementsRing, RingTypeCorrect, PTL
<1> QED
  BY <1>1, InitTimeInv, StepTimeInv, PTL DEF CaptureSpec

(* The callback's and the main loop's variables keep their types: the      *)
(* accumulator stays within an unsigned int even when a reset races it.    *)
THEOREM CaptureTypeCorrect == CaptureSpec => []CaptureTypeOK
<1>1. TypeOK /\ TimeInv => CaptureTypeOK
  BY DEF TimeInv, CaptureTypeOK
<1> QED
  BY <1>1, CaptureImplementsRing, RingTypeCorrect, TimeInvHolds, PTL

(* For all rates: the tape advances at the model's rate unless a format    *)
(* change falls into a buffer.                                             *)
THEOREM TapeOnTime == CaptureSpec => []TapeKeepsTime
<1>1. ASSUME TypeOK, TimeInv, process = "idle", setting = <<>>, ~raced
      PROVE  /\ (total - since) * EffectiveRate <= heard * ModelRate
             /\ heard * ModelRate < (total - since + 1) * EffectiveRate
  <2>1. /\ (total - since) * EffectiveRate + accumulator = heard * ModelRate
        /\ accumulator < EffectiveRate
    BY <1>1 DEF TimeInv, Balanced, Charged
  <2>2. total - since \in Int /\ accumulator \in Nat
    BY <1>1 DEF TypeOK, TimeInv, FrameTypes
  <2>3. (total - since + 1) * EffectiveRate = (total - since) * EffectiveRate + EffectiveRate
    BY <1>1, <2>2, OneMore, RateFits DEF TimeInv
  <2>4. (total - since) * EffectiveRate \in Int
    BY <1>1, <2>2, RateFits DEF TimeInv
  <2> QED
    BY <1>1, <2>1, <2>2, <2>3, <2>4, RateFits DEF TimeInv
<1>2. TypeOK /\ TimeInv => TapeKeepsTime
  BY <1>1 DEF TapeKeepsTime
<1> QED
  BY <1>2, CaptureImplementsRing, RingTypeCorrect, TimeInvHolds, PTL

===============================================================================
