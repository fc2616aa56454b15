----------------------------- MODULE EncoderProofs -----------------------------
(***************************************************************************)
(* Proofs about VideoEncoder, for any properties of the display, any       *)
(* number of errors, of smaller sizes and of changes: the encoder is not   *)
(* retried for ever, and what it encodes is what the display shows.        *)
(***************************************************************************)
EXTENDS VideoEncoder, TLAPS

-------------------------------------------------------------------------------
(* The inductive invariant.                                                *)

One(b) == IF b THEN 1 ELSE 0

(* A failure that is not retried ends the thread. *)
Dead == enc \in {"release", "ended"} \/ (enc = "cleanup" /\ ~alive)

(* Before a first frame, every failure but the last one took a smaller     *)
(* size or applied the constraints.  After it, the errors are counted,     *)
(* and one more is allowed to apply the constraints.                       *)
RetryInv ==
  /\ ~firstFrameSent =>
       /\ consecutiveErrors = 0
       /\ failures <= (Fallbacks - fallbacks) + One(caps) + One(Dead)
  /\ firstFrameSent =>
       /\ failures = consecutiveErrors
       /\ failures <= (MaxErrors - 1) + One(caps) + One(Dead)

PhaseInv ==
  /\ ~alive => enc \in {"cleanup", "release", "ended"}
  /\ enc = "init" => ~listening /\ events = 0 /\ listener = Idle
  /\ opt.kind = "screen" /\ enc \notin {"init", "ended"} => listening
  /\ events <= changes

(* What anyone knows of the display, the display had. *)
HadInv ==
  /\ display \in history.had /\ Unknown \notin history.had
  /\ session \in history.had \cup {Unknown}
  /\ props \in history.had \cup {Unknown}
  /\ listener.seen \in history.had \cup {Unknown}

(* The thread holds the properties that its capture was prepared with. *)
Prepared == enc \in {"prepared", "start", "codec", "check_stop", "check_reset", "encode"}

(* What the listener read is what the display shows, or another event is   *)
(* to be handled.                                                          *)
FreshInv ==
  enc # "ended" /\ listener.at = "read" =>
    listener.seen \in {display, Unknown} \/ events > 0

(* A capture that is out of date is about to be reset; and if the monitor  *)
(* knows the new properties already, it was or is being reset.             *)
StaleInv ==
  opt.kind = "screen" /\ ~history.twice /\ Prepared /\ session # display =>
    /\ events > 0 \/ listener.at # "idle" \/ reset # {}
    /\ props = display => listener.at = "changed" \/ reset # {}

EncoderInv ==
  VideoTypeOK /\ RetryInv /\ PhaseInv /\ HadInv /\ FreshInv /\ StaleInv

-------------------------------------------------------------------------------
(* The steps that only end or restart an iteration of the thread. *)
LEMMA EndsTyped ==
  ASSUME VideoTypeOK, enc' \in {"consume", "cleanup", "release"}, alive' \in BOOLEAN,
         running' \in BOOLEAN, eos' \in BOOLEAN, eos' => running',
         running' => enc' = "cleanup",
         UNCHANGED <<opt, firstFrameSent, consecutiveErrors, caps, fallbacks, failures,
                     reset, main, closed, display, session, props, listening, events,
                     listener, changes>>
  PROVE  VideoTypeOK'
<1>1. /\ opt' \in Options /\ firstFrameSent' \in BOOLEAN /\ consecutiveErrors' \in Nat
      /\ caps' \in BOOLEAN /\ fallbacks' \in 0 .. Fallbacks /\ failures' \in Nat
  BY DEF VideoTypeOK
<1>2. failures' <= IF firstFrameSent' THEN MaxErrors + 1 ELSE Fallbacks + 2
  BY DEF VideoTypeOK
<1>3. /\ reset' \subseteq Reasons /\ main' \in {"running", "stopping", "stopped"}
      /\ closed' \in BOOLEAN /\ display' \in Props /\ session' \in Props \cup {Unknown}
      /\ props' \in Props \cup {Unknown} /\ listening' \in BOOLEAN
      /\ events' \in 0 .. MaxChanges /\ changes' \in 0 .. MaxChanges
  BY DEF VideoTypeOK
<1>4. listener' \in [at : {"idle", "read", "changed"}, seen : Props \cup {Unknown}]
  BY DEF VideoTypeOK
<1>. QED
  BY <1>1, <1>2, <1>3, <1>4 DEF VideoTypeOK

(* The two actions that need an argument.                                  *)

(* A retry consumes what it takes: constraints, a smaller size, an error.  *)
LEMMA RetryKeeps ==
  ASSUME EncoderInv, PrepareRetry
  PROVE  RetryInv'
<1>. USE VideoAssumption DEF VideoAssumption
<1>1. VideoTypeOK /\ RetryInv /\ ~Dead /\ alive
  BY DEF EncoderInv, Dead, PrepareRetry, Goto, PhaseInv
<1>2. firstFrameSent' = firstFrameSent /\ failures' = failures + 1 /\ enc' = "cleanup"
  BY DEF PrepareRetry, Goto
<1>3. /\ fallbacks' \in 0 .. fallbacks /\ caps' \in BOOLEAN /\ (caps => caps')
      /\ alive' \in BOOLEAN
  BY <1>1 DEF PrepareRetry, VideoTypeOK
<1>4. /\ One(caps) \in Nat /\ One(caps') \in Nat /\ One(Dead') \in Nat
      /\ One(caps) <= One(caps')
      /\ ~caps /\ caps' => One(caps') = One(caps) + 1
      /\ ~alive' => One(Dead') = 1
  BY <1>1, <1>2, <1>3 DEF One, Dead, VideoTypeOK
<1>5. One(Dead) = 0
  BY <1>1 DEF One
<1>6. CASE ~firstFrameSent
  <2>1. consecutiveErrors' = 0
    BY <1>1, <1>6 DEF PrepareRetry, RetryInv
  <2>2. failures <= (Fallbacks - fallbacks) + One(caps)
    BY <1>1, <1>4, <1>5, <1>6 DEF RetryInv, VideoTypeOK
  <2>3. ~alive' \/ fallbacks' < fallbacks \/ (~caps /\ caps')
    BY <1>1, <1>6 DEF PrepareRetry, VideoTypeOK
  <2>. QED
    BY <1>1, <1>2, <1>3, <1>4, <1>6, <2>1, <2>2, <2>3 DEF RetryInv, VideoTypeOK
<1>7. CASE firstFrameSent
  <2>1. consecutiveErrors' = consecutiveErrors + 1
    BY <1>1, <1>7 DEF PrepareRetry, RetryInv
  <2>2. failures = consecutiveErrors /\ failures <= (MaxErrors - 1) + One(caps)
    BY <1>1, <1>4, <1>5, <1>7 DEF RetryInv, VideoTypeOK
  <2>3. ~alive' \/ consecutiveErrors + 1 < MaxErrors \/ (~caps /\ caps')
    BY <1>1, <1>7 DEF PrepareRetry, VideoTypeOK, FewErrors
  <2>. QED
    BY <1>1, <1>2, <1>3, <1>4, <1>7, <2>1, <2>2, <2>3 DEF RetryInv, VideoTypeOK
<1>. QED
  BY <1>1, <1>6, <1>7 DEF VideoTypeOK

LEMMA PrepareRetryKeeps ==
  ASSUME EncoderInv, PrepareRetry
  PROVE  EncoderInv'
<1>. USE VideoAssumption DEF VideoAssumption
<1>1. RetryInv'
  BY RetryKeeps
<1>2. VideoTypeOK'
  <2>1. fallbacks' \in 0 .. Fallbacks /\ failures' \in Nat /\ consecutiveErrors' \in Nat
    BY DEF EncoderInv, VideoTypeOK, PrepareRetry
  <2>2. One(caps') <= 1 /\ One(Dead') <= 1 /\ One(caps') \in Nat /\ One(Dead') \in Nat
    BY DEF One
  <2>3. failures' <= IF firstFrameSent' THEN MaxErrors + 1 ELSE Fallbacks + 2
    BY <1>1, <2>1, <2>2 DEF RetryInv
  <2>. QED
    BY <2>1, <2>3 DEF EncoderInv, VideoTypeOK, PrepareRetry, Goto, control, capture,
      monitor, env, system
<1>3. PhaseInv' /\ HadInv' /\ FreshInv' /\ StaleInv'
  BY DEF EncoderInv, VideoTypeOK, PhaseInv, HadInv, FreshInv, StaleInv, Prepared,
    PrepareRetry, Goto, control, capture, monitor, env, system
<1>. QED
  BY <1>1, <1>2, <1>3 DEF EncoderInv

(* The listener is unregistered, the thread ends. *)
LEMMA ReleaseKeeps ==
  ASSUME EncoderInv, Release
  PROVE  EncoderInv'
<1>. USE VideoAssumption DEF VideoAssumption
<1>1. /\ UNCHANGED <<alive, retry, control, session, props, listener, env>>
      /\ enc' = "ended" /\ listening' = FALSE /\ events' = 0
  BY DEF Release, Goto
<1>2. VideoTypeOK /\ ~running /\ Dead
  BY DEF EncoderInv, VideoTypeOK, Release, Goto, Dead
<1>3. VideoTypeOK'
  <2>1. events' \in 0 .. MaxChanges
    BY <1>1
  <2>. QED
    BY <1>1, <1>2, <2>1 DEF VideoTypeOK, retry, control, env, system
<1>4. RetryInv'
  BY <1>1, <1>2 DEF EncoderInv, RetryInv, One, Dead, retry
<1>5. PhaseInv' /\ HadInv' /\ FreshInv' /\ StaleInv'
  BY <1>1, <1>2 DEF EncoderInv, VideoTypeOK, PhaseInv, HadInv, FreshInv, StaleInv,
    Prepared, env, system
<1>. QED
  BY <1>3, <1>4, <1>5 DEF EncoderInv

-------------------------------------------------------------------------------
(* One step per action; the definitions of the groups of variables are     *)
(* used everywhere, since most actions leave most of them alone.           *)
THEOREM EncoderInvariant == Spec => []EncoderInv
<1>. USE VideoAssumption
<1>1. Init => EncoderInv
  <2>. SUFFICES ASSUME Init PROVE EncoderInv
    OBVIOUS
  <2>1. VideoTypeOK
    <3>1. /\ fallbacks \in 0 .. Fallbacks /\ failures \in Nat
          /\ failures <= IF firstFrameSent THEN MaxErrors + 1 ELSE Fallbacks + 2
          /\ changes \in 0 .. MaxChanges /\ events \in 0 .. MaxChanges
          /\ consecutiveErrors \in Nat
      BY DEF Init, VideoAssumption
    <3>2. listener \in [at : {"idle", "read", "changed"}, seen : Props \cup {Unknown}]
      BY DEF Init, Idle
    <3>3. /\ opt \in Options /\ enc = "init" /\ main = "running"
          /\ display \in Props /\ session = Unknown /\ props = Unknown
          /\ alive = TRUE /\ firstFrameSent = FALSE /\ caps = FALSE
          /\ reset = {} /\ running = FALSE /\ eos = FALSE
          /\ closed = FALSE /\ listening = FALSE
      BY DEF Init, VideoAssumption
    <3>. QED
      BY <3>1, <3>2, <3>3 DEF VideoTypeOK
  <2>2. RetryInv
    BY DEF Init, VideoAssumption, RetryInv, One, Dead
  <2>3. PhaseInv /\ HadInv /\ FreshInv /\ StaleInv
    BY DEF Init, VideoAssumption, Option, Idle, PhaseInv, HadInv, FreshInv,
      StaleInv, Prepared
  <2>. QED
    BY <2>1, <2>2, <2>3 DEF EncoderInv
<1>2. EncoderInv /\ [Next]_vars => EncoderInv'
  <2>. SUFFICES ASSUME EncoderInv, [Next]_vars PROVE EncoderInv'
    OBVIOUS
  <2>. USE DEF VideoAssumption, EncoderInv, VideoTypeOK, RetryInv, PhaseInv, HadInv,
    FreshInv, StaleInv,
       One, Dead, Prepared, Goto, Idle, Reasons, thread, retry, control, capture, monitor, system, env
  <2>1. CASE InitCapture
    BY <2>1 DEF InitCapture
  <2>2. CASE ConsumeReset
    BY <2>2 DEF ConsumeReset
  <2>3. CASE Prepare
    BY <2>3 DEF Prepare
  <2>4. CASE SetSessionDisplayProperties
    BY <2>4 DEF SetSessionDisplayProperties
  <2>5. CASE StartCapture
    BY <2>5 DEF StartCapture
  <2>6. CASE SetRunningMediaCodec
    BY <2>6 DEF SetRunningMediaCodec, IsRunning
  <2>7. CASE CheckStopped
    BY <2>7 DEF CheckStopped, Stopped
  <2>8. CASE CheckReset
    BY <2>8 DEF CheckReset, ResetRequested
  <2>9. CASE EndOfStream
    BY <2>9 DEF EndOfStream
  <2>10. CASE CheckAlive
    BY <2>10 DEF CheckAlive, Stopped
  <2>11. CASE PrepareRetry
    BY <2>11, PrepareRetryKeeps
  <2>12. CASE Cleanup
    <3>0. /\ enc = "cleanup" /\ enc' \in {"consume", "release"} /\ running' = FALSE /\ eos' = FALSE
          /\ UNCHANGED <<opt, firstFrameSent, consecutiveErrors, caps, fallbacks, failures,
                         reset, main, closed, display, session, props, listening, events,
                         listener, changes, alive>>
      BY <2>12 DEF Cleanup
    <3>1. VideoTypeOK'
      <4>1. VideoTypeOK
        OBVIOUS
      <4>2. /\ enc' \in {"consume", "cleanup", "release"} /\ alive' \in BOOLEAN
            /\ running' \in BOOLEAN /\ eos' \in BOOLEAN
            /\ (eos' => running') /\ (running' => enc' = "cleanup")
        BY <3>0, <4>1
      <4>. HIDE DEF VideoTypeOK, EncoderInv
      <4>. QED
        BY <3>0, <4>1, <4>2, EndsTyped
    <3>2. RetryInv'
      BY <2>12 DEF Cleanup
    <3>3. PhaseInv' /\ HadInv' /\ FreshInv' /\ StaleInv'
      BY <2>12 DEF Cleanup
    <3>. QED
      BY <3>1, <3>2, <3>3
  <2>13. CASE Release
    BY <2>13, ReleaseKeeps
  <2>14. CASE InitFails
    BY <2>14 DEF InitFails
  <2>15. CASE PrepareFails
    BY <2>15 DEF PrepareFails
  <2>16. CASE Frame
    BY <2>16 DEF Frame
  <2>17. CASE Fails
    BY <2>17 DEF Fails
  <2>18. CASE Breaks
    <3>0. /\ enc' = "cleanup" /\ alive' = FALSE
          /\ UNCHANGED <<opt, firstFrameSent, consecutiveErrors, caps, fallbacks, failures,
                         reset, main, closed, display, session, props, listening, events,
                         listener, changes, running, eos>>
      BY <2>18 DEF Breaks
    <3>1. VideoTypeOK'
      <4>1. VideoTypeOK
        OBVIOUS
      <4>2. /\ enc' \in {"consume", "cleanup", "release"} /\ alive' \in BOOLEAN
            /\ running' \in BOOLEAN /\ eos' \in BOOLEAN
            /\ (eos' => running') /\ (running' => enc' = "cleanup")
        BY <3>0, <4>1
      <4>. HIDE DEF VideoTypeOK, EncoderInv
      <4>. QED
        BY <3>0, <4>1, <4>2, EndsTyped
    <3>2. RetryInv'
      BY <2>18 DEF Breaks
    <3>3. PhaseInv' /\ HadInv' /\ FreshInv' /\ StaleInv'
      BY <2>18 DEF Breaks
    <3>. QED
      BY <3>1, <3>2, <3>3
  <2>19. CASE ListenerReads
    BY <2>19 DEF ListenerReads
  <2>20. CASE ListenerExchanges
    BY <2>20 DEF ListenerExchanges, Differs
  <2>21. CASE ListenerResets
    BY <2>21 DEF ListenerResets, Reset
  <2>22. CASE ClientResets
    BY <2>22 DEF ClientResets, Initialized, Reset
  <2>23. ASSUME NEW p \in Props, DisplayChanges(p) PROVE EncoderInv'
    BY <2>23 DEF DisplayChanges
  <2>24. CASE CameraCloses
    BY <2>24 DEF CameraCloses, Initialized, Reset
  <2>25. CASE SetStopped
    BY <2>25 DEF SetStopped
  <2>26. CASE ResetTerminated
    BY <2>26 DEF ResetTerminated, Reset
  <2>27. CASE UNCHANGED vars
    BY <2>27 DEF vars
  <2>. QED
    BY <2>1, <2>2, <2>3, <2>4, <2>5, <2>6, <2>7, <2>8, <2>9, <2>10, <2>11,
       <2>12, <2>13, <2>14, <2>15, <2>16, <2>17, <2>18, <2>19, <2>20, <2>21,
       <2>22, <2>23, <2>24, <2>25, <2>26, <2>27 DEF Next, Encoder, Listener
<1>. QED
  BY <1>1, <1>2, PTL DEF Spec

(* Whatever the interleaving of the listener, of the resets and of the     *)
(* retries, a session that is encoded while nothing is on its way shows    *)
(* the display as it is, and the retries are bounded.                      *)
THEOREM EncodesTheDisplay == Spec => []SessionFollowsDisplay
<1>1. EncoderInv => SessionFollowsDisplay
  BY VideoAssumption DEF VideoAssumption, Option, EncoderInv, SessionFollowsDisplay,
    StaleInv,
    Prepared, Quiet, VideoTypeOK
<1>. QED
  BY <1>1, EncoderInvariant, PTL
===============================================================================
