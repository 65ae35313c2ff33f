------------------------------- MODULE WakeRing -------------------------------
(***************************************************************************)
(* The sample ring of the native wake listener.  PipeWire's realtime       *)
(* callback writes the 16 kHz tape, one sample per ring_write, without a   *)
(* lock; the worker copies the newest window of it into the model's input  *)
(* while the callback goes on writing.                                     *)
(*                                                                         *)
(* Each step is one access to shared memory.  A sample is its number,      *)
(* counted from 1; 0 is the silence calloc left.  The plain float accesses *)
(* race: a cell that is read while it is stored yields the old or the new  *)
(* sample, which is what a store in one step gives.                        *)
(***************************************************************************)
EXTENDS Integers

CONSTANTS
  Capacity,    \* cells of the tape, RING_SECONDS * MODEL_RATE
  Window,      \* MODEL_SAMPLES
  MaxSamples   \* bound on the samples captured

ASSUME RingAssumption ==
  /\ Capacity \in Nat /\ Window \in Nat \ {0} /\ MaxSamples \in Nat
  /\ Window <= Capacity

VARIABLES
  tape,        \* ring.samples
  writeIndex,  \* ring.write_index
  total,       \* ring.total_written
  callback,    \* what ring_write has done for the current sample
  worker,      \* where the worker is: polling, in the snapshot, in run_model
  lastTotal,   \* last_total of the worker
  seen,        \* total, as the snapshot loaded it
  start,       \* start of the snapshot
  copied,      \* cells copied so far
  input,       \* model_input
  endsAt       \* history: samples published when the snapshot took its end

ringVars   == <<tape, writeIndex, total, callback>>
workerVars == <<worker, lastTotal, seen, start, copied, input, endsAt>>
vars == <<ringVars, workerVars>>

Cells == 0..(Capacity - 1)

(* Types; indices stay on the tape and in the window. *)
TypeOK ==
  /\ tape \in [Cells -> 0..MaxSamples]
  /\ writeIndex \in Cells
  /\ total \in 0..MaxSamples
  /\ callback \in {"idle", "stored", "indexed"}
  /\ worker \in {"poll", "total", "index", "copy", "infer"}
  /\ lastTotal \in 0..MaxSamples
  /\ seen \in 0..MaxSamples
  /\ start \in Cells
  /\ copied \in 0..Window
  /\ input \in [0..(Window - 1) -> 0..MaxSamples]
  /\ endsAt \in 0..MaxSamples

Init ==
  /\ tape = [c \in Cells |-> 0]
  /\ writeIndex = 0 /\ total = 0 /\ callback = "idle"
  /\ worker = "poll" /\ lastTotal = 0
  /\ seen = 0 /\ start = 0 /\ copied = 0 /\ endsAt = 0
  /\ input = [i \in 0..(Window - 1) |-> 0]

-----------------------------------------------------------------------------
(* ring_write, one sample at a time. *)

StoreSample ==
  /\ callback = "idle" /\ total < MaxSamples
  /\ tape' = [tape EXCEPT ![writeIndex] = total + 1]
  /\ callback' = "stored"
  /\ UNCHANGED <<writeIndex, total, workerVars>>

(* Faulty variant: the index leaves the tape. *)
PublishIndexUnwrapped ==
  /\ callback = "stored"
  /\ writeIndex' = writeIndex + 1
  /\ callback' = "indexed"
  /\ UNCHANGED <<tape, total, workerVars>>

PublishIndex ==
  /\ callback = "stored"
  /\ writeIndex' = (writeIndex + 1) % Capacity
  /\ callback' = "indexed"
  /\ UNCHANGED <<tape, total, workerVars>>

PublishTotal ==
  /\ callback = "indexed"
  /\ total' = total + 1
  /\ callback' = "idle"
  /\ UNCHANGED <<tape, writeIndex, workerVars>>

(* The samples whose cell is stored, and those whose index is published. *)
Stored    == IF callback = "idle" THEN total ELSE total + 1
Published == IF callback = "indexed" THEN total + 1 ELSE total

-----------------------------------------------------------------------------
(* The worker. *)

(* The inference interval is over. *)
Poll ==
  /\ worker = "poll"
  /\ total # lastTotal /\ total >= Window
  /\ lastTotal' = total
  /\ worker' = "total"
  /\ UNCHANGED <<ringVars, seen, start, copied, input, endsAt>>

LoadTotal(from, to) ==
  /\ worker = from
  /\ seen' = total
  /\ worker' = to
  /\ UNCHANGED <<ringVars, lastTotal, start, copied, input, endsAt>>

Smaller(a, b) == IF a < b THEN a ELSE b

(* count of ring_snapshot_latest. *)
Count == Smaller(Window, Smaller(seen, Capacity))

(* Faulty variant: the window starts one sample late. *)
LoadIndexLate(from, to) ==
  /\ worker = from
  /\ start' = (writeIndex + Capacity - Count + 1) % Capacity
  /\ copied' = 0
  /\ endsAt' = Published
  /\ worker' = to
  /\ UNCHANGED <<ringVars, lastTotal, seen, input>>

LoadIndex(from, to) ==
  /\ worker = from
  /\ start' = (writeIndex + Capacity - Count) % Capacity
  /\ copied' = 0
  /\ endsAt' = Published
  /\ worker' = to
  /\ UNCHANGED <<ringVars, lastTotal, seen, input>>

(* Faulty variant: the index is loaded before the total. *)
IndexFirst == LoadIndex("total", "index") \/ LoadTotal("index", "copy")

(* The order of the two loads: total is published after the index, and     *)
(* loaded before it.                                                       *)
BeginSnapshot == LoadTotal("total", "index") \/ LoadIndex("index", "copy")

CopySample ==
  /\ worker = "copy" /\ copied < Count
  /\ input' = [input EXCEPT ![copied] = tape[(start + copied) % Capacity]]
  /\ copied' = copied + 1
  /\ UNCHANGED <<ringVars, worker, lastTotal, seen, start, endsAt>>

(* Only a complete window is given to run_model. *)
SnapshotTaken ==
  /\ worker = "copy" /\ copied = Count
  /\ worker' = IF copied = Window THEN "infer" ELSE "poll"
  /\ UNCHANGED <<ringVars, lastTotal, seen, start, copied, input, endsAt>>

Inferred ==
  /\ worker = "infer"
  /\ worker' = "poll"
  /\ UNCHANGED <<ringVars, lastTotal, seen, start, copied, input, endsAt>>

(* The bound on the samples is reached and all of them were looked at. *)
Exhausted ==
  /\ total = MaxSamples /\ callback = "idle" /\ worker = "poll"
  /\ total = lastTotal \/ total < Window
  /\ UNCHANGED vars

Next ==
  \/ StoreSample \/ PublishIndex \/ PublishTotal
  \/ Poll \/ BeginSnapshot \/ CopySample \/ SnapshotTaken \/ Inferred
  \/ Exhausted

Spec == Init /\ [][Next]_vars

-----------------------------------------------------------------------------
(* Properties. *)

(* The callback has not lapped the snapshot: since the snapshot fixed its  *)
(* end it stored no more samples than the tape has cells to spare (one     *)
(* second of audio in the listener).                                       *)
NotLapped == Stored - endsAt <= Capacity - Window

(* What run_model is given is one unbroken stretch of the tape in order,   *)
(* with nothing older and nothing newer mixed in, however the callback's   *)
(* stores fall between the loads of the snapshot, as long as the callback  *)
(* has not lapped it.                                                      *)
WindowUnbroken ==
  worker = "infer" /\ NotLapped =>
    \A i \in 0..(Window - 1) : input[i] = endsAt - Window + 1 + i

(* That stretch is the newest one: it ends no earlier than the sample that *)
(* made the worker look, and holds no cell that was never recorded.        *)
WindowFresh ==
  worker \in {"copy", "infer"} =>
    /\ Window <= lastTotal /\ lastTotal <= seen
    /\ seen <= endsAt /\ endsAt <= Published

=============================================================================
