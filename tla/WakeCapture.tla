----------------------------- MODULE WakeCapture ------------------------------
(***************************************************************************)
(* What PipeWire's process callback does around ring_write: it takes the   *)
(* frames of a buffer, at whatever rate PipeWire negotiated, to samples at *)
(* the model's rate with an accumulator.  The main loop sets the rate and  *)
(* resets the accumulator when the format changes; the accumulator is a    *)
(* plain variable, and nothing keeps the two threads apart.                *)
(*                                                                         *)
(* A frame is one mono value: the downmix touches no state.                *)
(***************************************************************************)
EXTENDS WakeRing, Sequences

CONSTANTS
  ModelRate,   \* MODEL_RATE
  Rates,       \* rates that PipeWire may negotiate; 0 is a format without one
  Word,        \* 2^w for the width of unsigned int
  MaxFrames,   \* bound on the frames of a buffer
  MaxHeard     \* bound on the frames between two format changes

ASSUME CaptureAssumption ==
  /\ ModelRate \in Nat \ {0} /\ Rates \subseteq Nat
  /\ Word \in Nat /\ MaxFrames \in Nat /\ MaxHeard \in Nat
  /\ \A r \in Rates \cup {ModelRate} : r + ModelRate <= Word

VARIABLES
  process,      \* where on_process is: "idle", "frame", "test", "write", "spent"
  frames,       \* frames of the buffer still to take
  rate,         \* the rate on_process loaded
  accumulator,  \* resample_accumulator
  negotiated,   \* negotiated_rate
  setting,      \* on_stream_param_changed: <<>>, or half done with <<its rate>>
  heard,        \* history: frames taken since the last format change
  since,        \* history: samples that were on the tape at that change
  raced         \* history: a format change and on_process met

frameVars  == <<process, frames, rate, accumulator, heard>>
formatVars == <<negotiated, setting, since, raced>>
captureVars == <<vars, frameVars, formatVars>>

FrameTypes ==
  /\ process \in {"idle", "frame", "test", "write", "spent"}
  /\ frames \in 0..MaxFrames
  /\ rate \in (Rates \cup {ModelRate}) \ {0}
  /\ accumulator \in 0..(Word - 1)
  /\ negotiated \in Rates \cup {ModelRate}
  /\ setting \in {<<>>} \cup {<<r>> : r \in Rates}
  /\ heard \in 0..MaxHeard /\ since \in 0..MaxSamples /\ raced \in BOOLEAN

(* Types; the accumulator stays in its word even when a reset races it. *)
CaptureTypeOK == TypeOK /\ FrameTypes

CaptureInit ==
  /\ Init
  /\ process = "idle" /\ frames = 0 /\ accumulator = 0 /\ heard = 0
  /\ negotiated = ModelRate /\ rate = ModelRate
  /\ setting = <<>> /\ since = 0 /\ raced = FALSE

-----------------------------------------------------------------------------
(* on_process. *)

EffectiveRate == IF negotiated = 0 THEN ModelRate ELSE negotiated

(* A buffer with n frames; one without data or of another format has none. *)
Dequeue(n) ==
  /\ process = "idle"
  /\ process' = "frame" /\ frames' = n /\ rate' = EffectiveRate
  /\ raced' = (raced \/ setting # <<>>)
  /\ UNCHANGED <<vars, accumulator, heard, negotiated, setting, since>>

TakeFrame ==
  /\ process = "frame" /\ frames > 0 /\ heard < MaxHeard
  /\ process' = "test" /\ frames' = frames - 1
  /\ accumulator' = (accumulator + ModelRate) % Word
  /\ heard' = heard + 1
  /\ UNCHANGED <<vars, rate, formatVars>>

QueueBuffer ==
  /\ process = "frame" /\ frames = 0
  /\ process' = "idle"
  /\ UNCHANGED <<vars, frames, rate, accumulator, heard, formatVars>>

Test ==
  /\ process = "test"
  /\ process' = IF accumulator >= rate THEN "write" ELSE "frame"
  /\ UNCHANGED <<vars, frames, rate, accumulator, heard, formatVars>>

(* ring_write of one sample, in the steps of WakeRing. *)
WriteSample ==
  /\ process = "write"
  /\ StoreSample \/ PublishIndex \/ PublishTotal
  /\ process' = IF callback = "indexed" THEN "spent" ELSE "write"
  /\ UNCHANGED <<frames, rate, accumulator, heard, formatVars>>

(* Faulty variant : the accumulator starts again for each sample. *)
SpendAll ==
  /\ process = "spent"
  /\ process' = "test"
  /\ accumulator' = 0
  /\ UNCHANGED <<vars, frames, rate, heard, formatVars>>

(* The subtraction loads the accumulator again. *)
Spend ==
  /\ process = "spent"
  /\ process' = "test"
  /\ accumulator' = (accumulator + Word - rate) % Word
  /\ UNCHANGED <<vars, frames, rate, heard, formatVars>>

-----------------------------------------------------------------------------
(* on_stream_param_changed, in the main loop. *)

ResetAccumulator(r) ==
  /\ setting = <<>>
  /\ setting' = <<r>>
  /\ accumulator' = 0
  /\ heard' = 0 /\ since' = total
  /\ raced' = (process # "idle")
  /\ UNCHANGED <<vars, process, frames, rate, negotiated>>

StoreRate ==
  /\ setting # <<>>
  /\ negotiated' = setting[1] /\ setting' = <<>>
  /\ raced' = (raced \/ process # "idle")
  /\ UNCHANGED <<vars, frameVars, since>>

-----------------------------------------------------------------------------
Process ==
  \/ \E n \in 0..MaxFrames : Dequeue(n)
  \/ TakeFrame \/ QueueBuffer \/ Test \/ WriteSample \/ Spend

FormatChange == (\E r \in Rates : ResetAccumulator(r)) \/ StoreRate

Worker ==
  /\ Poll \/ BeginSnapshot \/ CopySample \/ SnapshotTaken \/ Inferred
  /\ UNCHANGED <<frameVars, formatVars>>

CaptureNext == Process \/ FormatChange \/ Worker

CaptureSpec == CaptureInit /\ [][CaptureNext]_captureVars

-----------------------------------------------------------------------------
(* Properties. *)

(* Whatever rate was negotiated, and however often it changes, the tape    *)
(* advances at the model's rate: between two buffers it holds one sample   *)
(* for every ModelRate-th of a second heard since the last format change,  *)
(* none twice and none lost, unless a change fell into a buffer.           *)
TapeKeepsTime ==
  process = "idle" /\ setting = <<>> /\ ~raced =>
    /\ (total - since) * EffectiveRate <= heard * ModelRate
    /\ heard * ModelRate < (total - since + 1) * EffectiveRate

=============================================================================
