------------------------------ MODULE VideoEncoder ------------------------------
(***************************************************************************)
(* Video on the device: the thread "video" (SurfaceEncoder.java) prepares  *)
(* a capture, encodes it until it is reset, and starts again, or retries   *)
(* with other constraints if it failed.  The resets (CaptureControl.java)  *)
(* come from the client, from the listener of the display                  *)
(* (DisplayMonitor.java), from a camera that closes, and from the main     *)
(* thread, which stops the encoder.  The captures are ScreenCapture.java   *)
(* and CameraCapture.java; those of new displays are left out, hence the   *)
(* reasons kept for the "client resized" flag of a session too.            *)
(*                                                                         *)
(* The codec is external: it outputs frames, may fail at any time, and     *)
(* outputs an end of stream (EOS) once it was signalled.                   *)
(***************************************************************************)
EXTENDS Naturals, Sequences, FiniteSets

CONSTANTS
  Props,       (* display properties: size and rotation                    *)
  Initial,     (* those of the display at the start                        *)
  Unknown,     (* the information on the display cannot be retrieved       *)
  MaxErrors,   (* MAX_CONSECUTIVE_ERRORS                                   *)
  Fallbacks,   (* values of MAX_SIZE_FALLBACK below the size of the video  *)
  Options,     (* the combinations of options checked                      *)
  MaxChanges   (* bound of the model: changes of the display               *)

Reasons == {"TERMINATED", "DISPLAY_PROPERTIES_CHANGED", "CLIENT_RESET"}

(* What is captured, --no-downsize-on-error, whether the constraints of    *)
(* the encoder may be applied, and whether the capture accepts new ones.   *)
Option == [kind : {"screen", "camera"}, downsize : BOOLEAN,
           constraints : BOOLEAN, accepts : BOOLEAN]

ASSUME VideoAssumption ==
  /\ Initial \in Props /\ Unknown \notin Props
  /\ MaxErrors \in Nat \ {0} /\ Fallbacks \in Nat /\ MaxChanges \in Nat
  /\ Options \subseteq Option /\ Options # {}

VARIABLES
  opt,         (* the options of this server, which never change           *)
  enc,         (* where the thread "video" is                              *)
  alive,       (* its local alive                                          *)
  firstFrameSent, consecutiveErrors,
  caps,        (* the constraints of the encoder are applied               *)
  fallbacks,   (* values of MAX_SIZE_FALLBACK that remain                  *)
  reset,       (* CaptureControl.reset                                     *)
  running,     (* CaptureControl.runningMediaCodec is not null             *)
  eos,         (* the codec was signalled the end of its input             *)
  main,        (* the main thread: "running", "stopping", "stopped"        *)
  closed,      (* CameraCapture.disconnected                               *)
  display,     (* the properties of the display                            *)
  session,     (* those that the capture was prepared with                 *)
  props,       (* DisplayMonitor.props                                     *)
  listening,   (* the monitor is registered                                *)
  events,      (* changes notified by the system and not handled           *)
  listener,    (* where the listener is, and what it read                  *)
  changes,     (* number of changes of the display so far                  *)
  failures,    (* ghost: failures since the last frame                     *)
  history      (* ghost: the properties that the display had, and whether  *)
               (* it had some of them twice                                *)

thread == <<enc, alive>>
retry == <<firstFrameSent, consecutiveErrors, caps, fallbacks, failures>>
control == <<reset, running, eos>>
capture == <<session, listening>>
monitor == <<props, events, listener>>
system == <<display, changes, history>>
env == <<opt, main, closed, system>>
vars == <<thread, retry, control, capture, monitor, env>>

Stopped == main # "running"
Idle == [at |-> "idle", seen |-> Unknown]

Init ==
  /\ opt \in Options
  /\ enc = "init" /\ alive = TRUE
  /\ firstFrameSent = FALSE /\ consecutiveErrors = 0
  /\ caps = FALSE /\ fallbacks = Fallbacks /\ failures = 0
  /\ reset = {} /\ running = FALSE /\ eos = FALSE
  /\ main = "running" /\ closed = FALSE
  /\ session = Unknown /\ listening = FALSE
  /\ props = Unknown /\ events = 0 /\ listener = Idle
  /\ display = Initial /\ changes = 0
  /\ history = [had |-> {Initial}, twice |-> FALSE]

-------------------------------------------------------------------------------
(* CaptureControl.reset(): the reason is kept until it is consumed, and    *)
(* the running codec is interrupted.                                       *)
Reset(reason) ==
  /\ reset' = reset \cup {reason}
  /\ eos' = (eos \/ running)
  /\ UNCHANGED running

-------------------------------------------------------------------------------
(* The thread "video".                                                     *)

Goto(from, to) == enc = from /\ enc' = to

(* A screen is monitored from the start. *)
InitCapture ==
  /\ Goto("init", "consume")
  /\ listening' = (opt.kind = "screen")
  /\ UNCHANGED <<alive, retry, control, session, monitor, env>>

(* The codec or the capture cannot be created, or the header written. *)
InitFails ==
  /\ Goto("init", "ended")
  /\ UNCHANGED <<alive, retry, control, capture, monitor, env>>

ConsumeReset ==
  /\ enc = "consume"
  /\ reset' = {}
  /\ enc' = IF "TERMINATED" \in reset THEN "release" ELSE "prepare"
  /\ UNCHANGED <<alive, retry, running, eos, capture, monitor, env>>

(* capture.prepare() reads the properties of the display, then gives them  *)
(* to the monitor.                                                         *)
Prepare ==
  /\ enc = "prepare"
  /\ session' = IF opt.kind = "camera" THEN session ELSE display
  /\ enc' = IF opt.kind = "screen" THEN "prepared" ELSE "start"
  /\ UNCHANGED <<alive, retry, control, listening, monitor, env>>

SetSessionDisplayProperties ==
  /\ Goto("prepared", "start")
  /\ props' = session
  /\ UNCHANGED <<alive, retry, control, capture, events, listener, env>>

(* The display or the camera size is not found. *)
PrepareFails ==
  /\ Goto("prepare", "release")
  /\ UNCHANGED <<alive, retry, control, capture, monitor, env>>

(* The codec is configured, then the capture and the codec start. *)
StartCapture ==
  /\ Goto("start", "codec")
  /\ UNCHANGED <<alive, retry, control, capture, monitor, env>>

(* Variant: the codec is never given to the control. *)
NeverRunning == FALSE
IsRunning == TRUE

SetRunningMediaCodec ==
  /\ Goto("codec", "check_stop")
  /\ running' = IsRunning
  /\ UNCHANGED <<alive, retry, reset, eos, capture, monitor, env>>

CheckStopped ==
  /\ enc = "check_stop"
  /\ enc' = IF Stopped THEN "cleanup" ELSE "check_reset"
  /\ alive' = ~Stopped
  /\ UNCHANGED <<retry, control, capture, monitor, env>>

(* A reset that came before the codec was running prevents the encoding;   *)
(* otherwise the session is announced to the client.                       *)
(* Variant: the encoding starts in any case.                               *)
NeverRequested == FALSE
ResetRequested == reset # {}

CheckReset ==
  /\ enc = "check_reset"
  /\ enc' = IF ResetRequested THEN "alive" ELSE "encode"
  /\ UNCHANGED <<alive, retry, control, capture, monitor, env>>

Frame ==
  /\ enc = "encode"
  /\ firstFrameSent' = TRUE
  /\ consecutiveErrors' = 0
  /\ failures' = 0
  /\ UNCHANGED <<thread, caps, fallbacks, control, capture, monitor, env>>

EndOfStream ==
  /\ Goto("encode", "alive")
  /\ eos
  /\ UNCHANGED <<alive, retry, control, capture, monitor, env>>

CheckAlive ==
  /\ Goto("alive", "cleanup")
  /\ alive' = (~Stopped /\ ~closed)
  /\ UNCHANGED <<retry, control, capture, monitor, env>>

(* An exception of the codec, of the capture, or of the socket. *)
Fails ==
  /\ enc \in {"start", "check_reset", "encode"}
  /\ enc' = "failed"
  /\ UNCHANGED <<alive, retry, control, capture, monitor, env>>

(* The client closed the socket, or an error that is not caught. *)
Breaks ==
  /\ enc \in {"start", "check_reset", "encode"}
  /\ enc' = "cleanup"
  /\ alive' = FALSE
  /\ UNCHANGED <<retry, control, capture, monitor, env>>

FewErrors(errors) == errors < MaxErrors

(* prepareRetry(): retry a few times at once after a first frame; then     *)
(* apply the constraints of the encoder, once; then, before a first frame  *)
(* only, try smaller and smaller sizes.                                    *)
PrepareRetry ==
  LET errors == consecutiveErrors + (IF firstFrameSent THEN 1 ELSE 0)
      again == firstFrameSent /\ FewErrors(errors)
      constrain == ~again /\ opt.downsize /\ opt.constraints /\ ~caps
      smaller == /\ ~again /\ opt.downsize /\ FewErrors(errors)
                 /\ constrain => ~opt.accepts
                 /\ fallbacks > 0
      ok == again \/ (constrain /\ opt.accepts) \/ (smaller /\ opt.accepts)
  IN  /\ Goto("failed", "cleanup")
      /\ consecutiveErrors' = errors
      /\ caps' = (caps \/ constrain)
      /\ IF smaller THEN fallbacks' \in 0 .. fallbacks - 1 ELSE UNCHANGED fallbacks
      /\ failures' = failures + 1
      /\ alive' = ok
      /\ UNCHANGED <<firstFrameSent, control, capture, monitor, env>>

(* finally: the codec is not interrupted any more, and is reset.           *)
Cleanup ==
  /\ enc = "cleanup"
  /\ running' = FALSE
  /\ eos' = FALSE
  /\ enc' = IF alive THEN "consume" ELSE "release"
  /\ UNCHANGED <<alive, retry, reset, capture, monitor, env>>

(* The listener is unregistered, and the end is notified. *)
Release ==
  /\ Goto("release", "ended")
  /\ listening' = FALSE
  /\ events' = 0
  /\ UNCHANGED <<alive, retry, control, session, props, listener, env>>

-------------------------------------------------------------------------------
(* The listener of the display: DisplayMonitor.                            *)

ListenerReads ==
  /\ listener.at = "idle" /\ events > 0
  /\ events' = events - 1
  /\ \E seen \in {display, Unknown} :
       listener' = [at |-> "read", seen |-> seen]
  /\ UNCHANGED <<thread, retry, control, capture, props, env>>

(* The properties are exchanged, and compared with the previous ones.      *)
(* What cannot be retrieved always differs.                                *)
(* Variant: unless it could not be retrieved the last time either.         *)
DiffersIfKnown == listener.seen # props
Differs == listener.seen = Unknown \/ listener.seen # props

ListenerExchanges ==
  /\ listener.at = "read"
  /\ props' = listener.seen
  /\ listener' = IF Differs THEN [listener EXCEPT !.at = "changed"] ELSE Idle
  /\ UNCHANGED <<thread, retry, control, capture, events, env>>

ListenerResets ==
  /\ listener.at = "changed"
  /\ Reset("DISPLAY_PROPERTIES_CHANGED")
  /\ listener' = Idle
  /\ UNCHANGED <<thread, retry, capture, props, events, env>>

-------------------------------------------------------------------------------
(* The client, the system, the main thread.                                *)

Initialized == enc \notin {"init", "ended"}

ClientResets ==
  /\ Initialized
  /\ Reset("CLIENT_RESET")
  /\ UNCHANGED <<thread, retry, capture, monitor, env>>

(* The device is rotated or folded, which the system notifies. *)
DisplayChanges(p) ==
  /\ opt.kind = "screen"
  /\ p # display /\ changes < MaxChanges /\ enc # "ended"
  /\ display' = p
  /\ changes' = changes + 1
  /\ events' = IF listening THEN events + 1 ELSE events
  /\ history' = [had |-> history.had \cup {p},
                 twice |-> history.twice \/ p \in history.had]
  /\ UNCHANGED <<opt, thread, retry, control, main, closed, capture, props, listener>>

(* The camera is disconnected, or its session cannot be configured. *)
CameraCloses ==
  /\ opt.kind = "camera" /\ Initialized /\ ~closed
  /\ closed' = TRUE
  /\ Reset("TERMINATED")
  /\ UNCHANGED <<opt, thread, retry, main, capture, monitor, system>>

(* SurfaceEncoder.stop(), in two steps. *)
SetStopped ==
  /\ main = "running"
  /\ main' = "stopping"
  /\ UNCHANGED <<opt, thread, retry, control, closed, capture, monitor, system>>

ResetTerminated ==
  /\ main = "stopping"
  /\ main' = "stopped"
  /\ Reset("TERMINATED")
  /\ UNCHANGED <<opt, thread, retry, closed, capture, monitor, system>>

-------------------------------------------------------------------------------
Encoder ==
  \/ InitCapture
  \/ ConsumeReset
  \/ Prepare
  \/ SetSessionDisplayProperties
  \/ StartCapture
  \/ SetRunningMediaCodec
  \/ CheckStopped
  \/ CheckReset
  \/ EndOfStream
  \/ CheckAlive
  \/ PrepareRetry
  \/ Cleanup
  \/ Release

Listener ==
  \/ ListenerReads
  \/ ListenerExchanges
  \/ ListenerResets

Next ==
  \/ Encoder
  \/ InitFails \/ PrepareFails \/ Frame \/ Fails \/ Breaks
  \/ Listener
  \/ ClientResets
  \/ \E p \in Props : DisplayChanges(p)
  \/ CameraCloses
  \/ SetStopped
  \/ ResetTerminated

Spec == Init /\ [][Next]_vars

(* The threads are scheduled, a codec that was signalled the end of its    *)
(* input outputs an EOS after a finite number of frames, and a write to    *)
(* the socket of the video returns: the client reads it until one of them  *)
(* closes it.  Nothing is assumed of the frames or of the display.         *)
Fairness ==
  /\ WF_vars(Encoder)
  /\ WF_vars(Listener)
  /\ WF_vars(ResetTerminated)

FairSpec == Spec /\ Fairness

-------------------------------------------------------------------------------
(* Types; the codec that may be interrupted is the running one, and an     *)
(* encoder that does not output any frame is not retried for ever          *)
(* (SurfaceEncoder.java:191-238).                                          *)
VideoTypeOK ==
  /\ opt \in Options
  /\ enc \in {"init", "consume", "prepare", "prepared", "start", "codec",
              "check_stop", "check_reset", "encode", "alive", "failed", "cleanup",
              "release", "ended"}
  /\ alive \in BOOLEAN
  /\ firstFrameSent \in BOOLEAN /\ consecutiveErrors \in Nat
  /\ caps \in BOOLEAN /\ fallbacks \in 0 .. Fallbacks
  /\ failures \in Nat
  /\ failures <= IF firstFrameSent THEN MaxErrors + 1 ELSE Fallbacks + 2
  /\ reset \subseteq Reasons /\ running \in BOOLEAN /\ eos \in BOOLEAN
  /\ main \in {"running", "stopping", "stopped"} /\ closed \in BOOLEAN
  /\ display \in Props /\ session \in Props \cup {Unknown}
  /\ props \in Props \cup {Unknown} /\ listening \in BOOLEAN
  /\ events \in 0 .. MaxChanges
  /\ listener \in [at : {"idle", "read", "changed"}, seen : Props \cup {Unknown}]
  /\ changes \in 0 .. MaxChanges
  /\ eos => running
  /\ running => enc \in {"check_stop", "check_reset", "encode", "alive", "failed",
                         "cleanup"}

(* A reset is never lost, whether it comes before the codec runs, while it *)
(* is replaced, or while it encodes: it starts a new capture, or the       *)
(* encoder ends (SurfaceEncoder.java:133-156, CaptureControl.java).        *)
ResetServed == (reset # {}) ~> (reset = {} \/ enc = "ended")

(* Stopping ends the thread, which the main thread joins.                  *)
StopEndsEncoder == (main = "stopped") ~> (enc = "ended")

(* While a session is encoded and nothing is on its way, either the        *)
(* capture was prepared with the properties of the display, or the display *)
(* came back to properties that it had before: then prepare() may have     *)
(* overwritten those of the monitor with older ones, after the listener    *)
(* compared them (ScreenCapture.java:73-85).  The types are checked too.   *)
Quiet == enc = "encode" /\ reset = {} /\ events = 0 /\ listener.at = "idle"
SessionFollowsDisplay ==
  /\ VideoTypeOK
  /\ Quiet /\ opt.kind # "camera" /\ ~history.twice => session = display
===============================================================================
