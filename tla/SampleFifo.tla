------------------------------ MODULE SampleFifo ------------------------------
(***************************************************************************)
(* What an audio regulator promises, without cursors, locks or threads: a  *)
(* bounded FIFO of samples between a decoder and an audio device.  The     *)
(* device gets silence until enough samples are buffered; from then on it  *)
(* gets the samples in order, completed with silence.  Old samples are     *)
(* dropped only to make space in a full buffer, or to reduce the latency,  *)
(* and then never below the target.                                        *)
(***************************************************************************)
EXTENDS Integers, Sequences

CONSTANTS Capacity, Target, (* of the buffer, in samples                   *)
          Frames, Pulls,    (* numbers of samples written, and requested   *)
          Serials           (* samples are numbered modulo Serials; 0 is   *)
                            (* silence                                     *)

VARIABLES fifo,    (* the samples buffered, the oldest first               *)
          next,    (* the number of the next sample of the decoder         *)
          out,     (* the last samples given to the device                 *)
          started  (* the device was given samples                         *)

vars == <<fifo, next, out, started>>

Shift(sample, k) == ((sample + k - 1) % Serials) + 1
Silence(k) == [i \in 1 .. k |-> 0]
Without(seq, k) == SubSeq(seq, k + 1, Len(seq))
Least(a, b) == IF a <= b THEN a ELSE b

Init == fifo = <<>> /\ next = 1 /\ out = <<>> /\ started = FALSE

(* k samples are added, then d old ones dropped if the buffer is full. *)
Write(k, d) ==
  /\ Len(fifo) + k <= Capacity
  /\ d > 0 => Len(fifo) + k = Capacity
  /\ fifo' = Without(fifo \o [i \in 1 .. k |-> Shift(next, i - 1)], d)
  /\ next' = Shift(next, k)
  /\ UNCHANGED <<out, started>>

(* Of a frame that exceeds the buffer, the first samples are ignored. *)
Ignore(k) == next' = Shift(next, k) /\ UNCHANGED <<fifo, out, started>>

(* A gap in the stream is filled with silence, up to the target. *)
Fill(k) ==
  /\ Len(fifo) + k <= Target
  /\ fifo' = fifo \o Silence(k)
  /\ UNCHANGED <<next, out, started>>

Skip(d) ==
  /\ Len(fifo) - d >= Target
  /\ fifo' = Without(fifo, d)
  /\ UNCHANGED <<next, out, started>>

Mute(n) ==
  /\ ~started /\ Len(fifo) < Target
  /\ out' = Silence(n)
  /\ UNCHANGED <<fifo, next, started>>

Read(n) ==
  /\ started \/ Len(fifo) >= Target
  /\ LET k == Least(n, Len(fifo)) IN
       /\ out' = SubSeq(fifo, 1, k) \o Silence(n - k)
       /\ fifo' = Without(fifo, k)
  /\ started' = TRUE
  /\ UNCHANGED next

Next ==
  \/ \E k \in 0 .. Capacity, d \in 0 .. Capacity : Write(k, d)
  \/ \E n \in Frames : n > Capacity /\ Ignore(n - Capacity)
  \/ \E k \in 1 .. Target : Fill(k)
  \/ \E d \in 1 .. Capacity : Skip(d)
  \/ \E n \in Pulls : Mute(n) \/ Read(n)

Spec == Init /\ [][Next]_vars
===============================================================================
