---------------------------- MODULE AudioRegulator ----------------------------
(***************************************************************************)
(* The client's audio regulator (app/src/audio_regulator.c) and its ring   *)
(* buffer (app/src/util/audiobuf.c).  The thread of the audio demuxer      *)
(* pushes decoded frames; the callback of the audio device, in a thread of *)
(* SDL, pulls samples.  They share the ring without a lock, except when    *)
(* the decoder must move the cursor of the reader: the callback holds      *)
(* ar->mutex while it reads.                                               *)
(*                                                                         *)
(* A write or a read of the ring takes two steps: the cursors are loaded   *)
(* and the copy starts; the copy ends and the cursor is stored.  What the  *)
(* decoder does under the mutex is one step, since the callback then does  *)
(* not touch the ring.  The resampler and the clock compensation only      *)
(* decide how many samples a frame gives, which is left free.              *)
(***************************************************************************)
EXTENDS Integers, Sequences

CONSTANTS
  Capacity,    (* sc_audiobuf_capacity(), in samples                       *)
  Target,      (* ar->target_buffering                                     *)
  MaxInitial,  (* max_buffered_samples before playback started             *)
  MaxPlayed,   (* max_buffered_samples once it started                     *)
  Frames,      (* samples in a frame, and out of the resampler for a frame *)
  Pulls,       (* samples the device requests at once                      *)
  Serials      (* bound of the model: samples are numbered modulo this     *)

ASSUME AudioAssumption ==
  /\ Capacity \in Nat \ {0} /\ Target \in 0 .. Capacity
  /\ MaxInitial \in Nat /\ MaxPlayed \in Nat
  /\ Target <= MaxInitial /\ MaxInitial <= MaxPlayed
  /\ Frames \subseteq Nat /\ Pulls \subseteq Nat \ {0}
  /\ Serials \in Nat \ {0}

VARIABLES
  data, head, tail,    (* struct sc_audiobuf: slots, writer, reader cursors *)
  played, received,    (* ar->played, ar->received                          *)
  decoder,             (* where the thread of the demuxer is                *)
  writing,             (* the slots it copies to                            *)
  todo, next,          (* samples of its frame still to write, their number *)
  limit,               (* its max_buffered_samples                          *)
  callback,            (* where the callback of the device is               *)
  reading,             (* the slots it copies from                          *)
  wanted, out          (* samples requested; the last samples given to SDL  *)

ring == <<data, head, tail>>
producer == <<received, decoder, writing, todo, next, limit>>
consumer == <<played, callback, reading, wanted, out>>
vars == <<ring, producer, consumer>>

Alloc == Capacity + 1
NoSlots == [at |-> 0, n |-> 0]
Slots(span) == {(span.at + i) % Alloc : i \in 0 .. span.n - 1}
Lesser(a, b) == IF a <= b THEN a ELSE b

CanRead == (Alloc + head - tail) % Alloc

(* One slot stays empty, so that head = tail is not ambiguous.             *)
(* Variant: no slot is kept empty.                                         *)
CanWriteAll == IF head = tail THEN Alloc ELSE (Alloc + tail - head) % Alloc
CanWrite == (Alloc + tail - head - 1) % Alloc

(* The callback holds the mutex while it reads.                            *)
MayLock == callback # "reading"

(* The samples of a frame, from the number next on. *)
Sample(i) == ((next + i - 1) % Serials) + 1
Samples == [i \in 0 .. Capacity |-> Sample(i)]
Silence == [i \in 0 .. Capacity |-> 0]

(* The ring once k samples are copied from the head on. *)
Filled(k, samples) ==
  [slot \in 0 .. Capacity |->
     LET i == (Alloc + slot - head) % Alloc
     IN  IF i < k THEN samples[i] ELSE data[slot]]

Init ==
  /\ data = [slot \in 0 .. Capacity |-> 0] /\ head = 0 /\ tail = 0
  /\ played = FALSE /\ received = FALSE
  /\ decoder = "idle" /\ writing = NoSlots /\ todo = 0 /\ next = 1 /\ limit = 0
  /\ callback = "idle" /\ reading = NoSlots /\ wanted = 0 /\ out = <<>>

-------------------------------------------------------------------------------
(* The thread of the demuxer: sc_audio_regulator_push().                   *)

(* After a gap of 100 ms, silence completes the buffer up to the target,   *)
(* given the samples of the frame which are about to be added.  There is   *)
(* no gap before the first frame: next_expected_pts is set by a push, as   *)
(* received is.                                                            *)
(* Variant: the samples already buffered are not counted.                  *)
MissingOfFrame(input) == Target - input
Missing(input) == Target - CanRead - input

Discontinuity(input) ==
  /\ decoder = "idle" /\ received
  /\ Missing(input) > 0
  /\ LET k == Lesser(Missing(input), CanWrite) IN
       /\ writing' = [at |-> head, n |-> k]
       /\ data' = Filled(k, Silence)
  /\ decoder' = "silence"
  /\ UNCHANGED <<head, tail, received, todo, next, limit, consumer>>

EndSilence ==
  /\ decoder = "silence"
  /\ head' = (head + writing.n) % Alloc
  /\ writing' = NoSlots
  /\ decoder' = "resample"
  /\ UNCHANGED <<data, tail, received, todo, next, limit, consumer>>

(* The frame gives n samples; the first ones are ignored if they exceed    *)
(* the whole buffer.                                                       *)
Resample(n) ==
  /\ decoder \in {"idle", "resample"}
  /\ todo' = Lesser(n, Capacity)
  /\ next' = Sample(n - Lesser(n, Capacity))
  /\ decoder' = "write"
  /\ UNCHANGED <<ring, received, writing, limit, consumer>>

(* No memory, or swr_convert() failed: the demuxer ends. *)
ResampleFails ==
  /\ decoder \in {"idle", "resample"}
  /\ decoder' = "ended"
  /\ UNCHANGED <<ring, received, writing, todo, next, limit, consumer>>

(* sc_audiobuf_write(): what fits, without the lock, before or after the   *)
(* old samples are dropped.                                                *)
BeginWrite ==
  /\ decoder \in {"write", "rewrite"}
  /\ LET k == Lesser(todo, CanWrite) IN
       /\ writing' = [at |-> head, n |-> k]
       /\ data' = Filled(k, Samples)
  /\ decoder' = IF decoder = "write" THEN "writing" ELSE "rewriting"
  /\ UNCHANGED <<head, tail, received, todo, next, limit, consumer>>

EndWrite ==
  /\ decoder \in {"writing", "rewriting"}
  /\ head' = (head + writing.n) % Alloc
  /\ todo' = todo - writing.n
  /\ next' = Sample(writing.n)
  /\ writing' = NoSlots
  /\ decoder' = IF decoder = "writing" /\ todo' > 0 THEN "full" ELSE "limit"
  /\ UNCHANGED <<data, tail, received, limit, consumer>>

(* With the lock: what fits now is written, then as many old samples are   *)
(* dropped as there remain to write.                                       *)
MakeSpace ==
  /\ decoder = "full" /\ MayLock
  /\ LET k == Lesser(todo, CanWrite) IN
       /\ data' = Filled(k, Samples)
       /\ head' = (head + k) % Alloc
       /\ todo' = todo - k
       /\ next' = Sample(k)
       /\ tail' = (tail + Lesser(todo', CanRead + k)) % Alloc
  /\ decoder' = IF todo' > 0 THEN "rewrite" ELSE "limit"
  /\ UNCHANGED <<received, writing, limit, consumer>>

(* Variant: all that is buffered before the playback is skipped. *)
SkipsAllBefore == IF played THEN MaxPlayed ELSE 0
MaxBuffered == IF played THEN MaxPlayed ELSE MaxInitial

CheckLimit ==
  /\ decoder = "limit"
  /\ limit' = MaxBuffered
  /\ IF CanRead > limit'
       THEN decoder' = "skip" /\ UNCHANGED received
       ELSE decoder' = "idle" /\ received' = TRUE
  /\ UNCHANGED <<ring, writing, todo, next, consumer>>

(* The excess is computed again with the lock.                             *)
(* Variant: one sample less is skipped.                                    *)
SkippedButOne == IF CanRead > limit THEN CanRead - limit - 1 ELSE 0
Skipped == IF CanRead > limit THEN CanRead - limit ELSE 0

SkipExcess ==
  /\ decoder = "skip" /\ MayLock
  /\ tail' = (tail + Skipped) % Alloc
  /\ decoder' = "idle" /\ received' = TRUE
  /\ UNCHANGED <<data, head, writing, todo, next, limit, consumer>>

-------------------------------------------------------------------------------
(* The callback of the audio device: sc_audio_regulator_pull().            *)

(* Before the playback started, the target must be reached. *)
MayPlay == played \/ CanRead >= Target

PullSilence(n) ==
  /\ callback = "idle" /\ ~MayPlay
  /\ out' = [i \in 1 .. n |-> 0]
  /\ UNCHANGED <<ring, producer, played, callback, reading, wanted>>

BeginRead(n) ==
  /\ callback = "idle" /\ MayPlay
  /\ reading' = [at |-> tail, n |-> Lesser(n, CanRead)]
  /\ wanted' = n
  /\ callback' = "reading"
  /\ UNCHANGED <<ring, producer, played, out>>

(* Silence completes what is read. *)
Pulled ==
  [i \in 1 .. wanted |->
     IF i <= reading.n THEN data[(reading.at + i - 1) % Alloc] ELSE 0]

(* The cursor is stored and the mutex unlocked. *)
EndRead ==
  /\ callback = "reading"
  /\ tail' = (reading.at + reading.n) % Alloc
  /\ out' = Pulled
  /\ reading' = NoSlots /\ wanted' = 0
  /\ callback' = "unlocked"
  /\ UNCHANGED <<data, head, producer, played>>

SetPlayed ==
  /\ callback = "unlocked"
  /\ played' = TRUE
  /\ callback' = "idle"
  /\ UNCHANGED <<ring, producer, reading, wanted, out>>

-------------------------------------------------------------------------------
Decoder ==
  \/ \E n \in Frames : Discontinuity(n) \/ Resample(n)
  \/ EndSilence \/ BeginWrite \/ EndWrite \/ MakeSpace
  \/ CheckLimit \/ SkipExcess

Callback ==
  \/ \E n \in Pulls : PullSilence(n) \/ BeginRead(n)
  \/ EndRead \/ SetPlayed

Next == Decoder \/ ResampleFails \/ Callback

Spec == Init /\ [][Next]_vars

(* The device keeps requesting samples, and the steps of a frame that was  *)
(* received complete.                                                      *)
Fairness ==
  /\ WF_vars(Callback)
  /\ WF_vars(decoder \notin {"idle", "resample"} /\ Decoder)

FairSpec == Spec /\ Fairness

-------------------------------------------------------------------------------
(* Properties.                                                             *)

Span == [at : 0 .. Capacity, n : 0 .. Capacity]

(* Types, and the assertions of sc_audio_regulator_push(): once space was  *)
(* made, everything fits (audio_regulator.c:225 and 235).                  *)
AudioTypeOK ==
  /\ data \in [0 .. Capacity -> 0 .. Serials]
  /\ head \in 0 .. Capacity /\ tail \in 0 .. Capacity
  /\ played \in BOOLEAN /\ received \in BOOLEAN
  /\ decoder \in {"idle", "silence", "resample", "write", "writing", "full",
                  "rewrite", "rewriting", "limit", "skip", "ended"}
  /\ writing \in Span /\ reading \in Span
  /\ todo \in 0 .. Capacity /\ next \in 1 .. Serials
  /\ limit \in {0, MaxInitial, MaxPlayed}
  /\ callback \in {"idle", "reading", "unlocked"}
  /\ wanted \in Nat
  /\ decoder = "rewrite" => CanWrite >= todo
  /\ decoder = "limit" => todo = 0

(* A slot is never written while it is read: the cursors alone keep the    *)
(* two threads apart, and the mutex when the decoder moves both cursors    *)
(* (audio_regulator.c:207-238, audiobuf.c:35-118).                         *)
NoDataRace == Slots(writing) \cap Slots(reading) = {}

(* Between two frames the latency is bounded, before and after the         *)
(* playback started, although the callback may start it at any time        *)
(* (audio_regulator.c:240-284).                                            *)
LatencyBounded ==
  decoder = "idle" => CanRead <= MaxPlayed /\ (~played => CanRead <= MaxInitial)

(* If frames with samples keep coming, the playback starts: what is        *)
(* skipped before it never prevents the target from being reached          *)
(* (audio_regulator.c:71-89 and 250-256).                                  *)
PlaybackStarts ==
  []<><<\E n \in Frames : n > 0 /\ Resample(n)>>_vars => <>played

(* The ring, its cursors and its lock implement a FIFO, in which a read    *)
(* takes place when the callback loads the cursors (audiobuf.c:41-77): no  *)
(* sample is lost, repeated, reordered or torn by what the decoder does    *)
(* until the callback stores its own cursor.                               *)
Buffered ==
  [i \in 1 .. CanRead - reading.n |->
     data[(tail + reading.n + i - 1) % Alloc]]
Given == IF callback = "reading" THEN Pulled ELSE out
Fifo == INSTANCE SampleFifo WITH
          fifo <- Buffered, out <- Given,
          started <- played \/ callback # "idle"
ImplementsFifo == Fifo!Spec
===============================================================================
