----------------------------- MODULE VideoPipeline -----------------------------
(***************************************************************************)
(* Video on the client.  The thread of the demuxer receives sessions and   *)
(* frames, and calls a tree of sinks: the screen and the V4L2 device, each *)
(* possibly behind a regulator (video_regulator.c) that delays the frames  *)
(* in a thread of its own.  A sink keeps one frame, the last, for another  *)
(* thread: the main thread, notified by an event, renders it (screen.c);   *)
(* the V4L2 thread encodes it (v4l2_sink.c).  The main thread also ends    *)
(* everything (scrcpy.c).                                                  *)
(*                                                                         *)
(* The bytes of packets and frames, the geometry of the window and the     *)
(* config packets are left out.  The recorder, which is a sink of the      *)
(* demuxer too, is in Recorder.                                            *)
(***************************************************************************)
EXTENDS Naturals, Sequences, FiniteSets, SequencesExt

CONSTANTS
  Options,      (* sets of features that are checked                       *)
  MaxFrames,    (* bounds of the model: frames, sessions                   *)
  MaxSessions

Features == {"playback", "video_buffer", "v4l2", "v4l2_buffer"}

ASSUME PipelineAssumption ==
  /\ \A o \in Options : o \subseteq Features /\ o \cap {"playback", "v4l2"} # {}
  /\ MaxFrames \in Nat /\ MaxSessions \in Nat \ {0}

Regulators == {"screen_vr", "v4l2_vr"}
Buffers == {"screen", "v4l2"}
Sources == {"demuxer"} \cup Regulators

VARIABLES
  opt,        (* the features of this client                               *)
  at,         (* where each thread that calls sinks is                     *)
  item,       (* what it is delivering                                     *)
  todo,       (* the sinks it has still to call, or to close               *)
  opened,     (* number of branches that the demuxer opened                *)
  status,     (* how the stream ended                                      *)
  socket,     (* the socket is not shut down                               *)
  session,    (* number of the last session received                       *)
  received,   (* number of the last frame received                         *)
  open,       (* the sinks that are open                                   *)
  queue, stopped, range,  (* of each regulator                             *)
  pending,    (* frame buffer of the screen and of V4L2                    *)
  current,    (* screen->current_session                                   *)
  prevent,    (* screen->prevent_auto_resize: the session it comes from    *)
  writer,     (* where the V4L2 thread is                                  *)
  writing,    (* the frame it encodes                                      *)
  hasFrame, vstopped, header,
  main,       (* where the main thread is                                  *)
  lost,       (* the loop ended because the device was disconnected        *)
  events,     (* the events of SDL                                         *)
  window,     (* window_shown                                              *)
  shown,      (* the last frame that was rendered                          *)
  paused,
  resume,     (* resume_frame                                              *)
  disc,       (* where the thread of disconnect.c is                       *)
  interrupted (* it was interrupted                                        *)

calls == <<at, item, todo>>
demuxer == <<opened, status, received, session>>
regulators == <<queue, stopped, range>>
screen == <<current, prevent, shown, paused, resume, window>>
v4l2 == <<writer, writing, hasFrame, vstopped, header>>
ending == <<main, lost, socket, disc, interrupted>>
vars == <<opt, calls, demuxer, open, regulators, pending, screen, v4l2, events, ending>>

None == [frame |-> 0, session |-> 0]
IsFrame(x) == x.frame # 0

ScreenBranch ==
  IF "video_buffer" \in opt THEN <<"screen_vr", "screen">> ELSE <<"screen">>
V4l2Branch ==
  IF "v4l2_buffer" \in opt THEN <<"v4l2_vr", "v4l2">> ELSE <<"v4l2">>

(* The branches under the decoder, and the sinks of each source. *)
Branches ==
  (IF "playback" \in opt THEN <<ScreenBranch>> ELSE <<>>)
    \o (IF "v4l2" \in opt THEN <<V4l2Branch>> ELSE <<>>)
Sinks(t) ==
  CASE t = "screen_vr" -> <<"screen">>
    [] t = "v4l2_vr" -> <<"v4l2">>
    [] t = "demuxer" -> [i \in DOMAIN Branches |-> Branches[i][1]]

(* The sinks opened so far are closed in the reverse order; a regulator    *)
(* closes its sinks once it is stopped.                                    *)
Closing(n) ==
  CASE n = 0 -> <<>>
    [] n = 1 -> Branches[1]
    [] n = 2 -> Branches[2] \o Branches[1]

Init ==
  /\ opt \in Options
  /\ at = [t \in Sources |-> IF t = "demuxer" THEN "start" ELSE "off"]
  /\ item = [t \in Sources |-> None]
  /\ todo = [t \in Sources |-> <<>>]
  /\ opened = 0 /\ status = "error" /\ socket = TRUE
  /\ session = 0 /\ received = 0 /\ open = {}
  /\ queue = [r \in Regulators |-> <<>>]
  /\ stopped = [r \in Regulators |-> FALSE]
  /\ range = [r \in Regulators |-> 0]
  /\ pending = [b \in Buffers |-> None] /\ current = 0 /\ prevent = 0
  /\ writer = "off" /\ writing = None /\ hasFrame = FALSE
  /\ vstopped = FALSE /\ header = FALSE
  /\ main = "loop" /\ lost = FALSE /\ events = <<>> /\ window = FALSE
  /\ shown = [frame |-> 0, session |-> 0, flag |-> 0]
  /\ paused = FALSE /\ resume = None
  /\ disc = "off" /\ interrupted = FALSE

Post(e) == events' = Append(events, e)

(* Thread t calls the sinks s for x; or it is done. *)
Idle(t) == IF t = "demuxer" THEN "recv" ELSE "wait"
Call(t, x, s) ==
  /\ at' = [at EXCEPT ![t] = IF s = <<>> THEN Idle(t) ELSE "deliver"]
  /\ item' = [item EXCEPT ![t] = IF s = <<>> THEN None ELSE x]
  /\ todo' = [todo EXCEPT ![t] = s]
Delivering(t, s) == at[t] = "deliver" /\ todo[t] # <<>> /\ Head(todo[t]) = s
Delivered(t) == Call(t, item[t], Tail(todo[t]))

-------------------------------------------------------------------------------
(* The demuxer: run_demuxer().                                             *)

(* The end of the stream is entered once the sinks are closed. *)
CloseSinks(n, s) ==
  /\ at' = [at EXCEPT !["demuxer"] = "close"]
  /\ item' = [item EXCEPT !["demuxer"] = None]
  /\ todo' = [todo EXCEPT !["demuxer"] = Closing(n)]
  /\ status' = s
  /\ UNCHANGED <<opened, received, session>>

(* The codec id and the first session are received, and the codec opened; *)
(* or something fails, and no sink was opened.                             *)
StartStream ==
  /\ at["demuxer"] = "start"
  /\ \/ /\ socket
        /\ at' = [at EXCEPT !["demuxer"] = "open"]
        /\ session' = 1
        /\ UNCHANGED <<item, todo, opened, status, received>>
     \/ CloseSinks(0, "error")
  /\ UNCHANGED <<opt, open, regulators, pending, screen, v4l2, events, ending>>

(* The next branch is opened: the screen asks the main thread for a window *)
(* and keeps the session; a regulator and V4L2 start their thread.         *)
OpenBranch ==
  /\ at["demuxer"] = "open" /\ opened < Len(Branches)
  /\ LET b == ToSet(Branches[opened + 1])
     IN  /\ opened' = opened + 1
         /\ open' = open \cup b
         /\ at' = [t \in Sources |-> IF t \in b THEN "wait" ELSE at[t]]
         /\ IF "screen" \in b
              THEN current' = session /\ Post("open")
              ELSE UNCHANGED <<current, events>>
         /\ writer' = IF "v4l2" \in b THEN "wait" ELSE writer
  /\ UNCHANGED <<opt, item, todo, status, received, session, regulators, pending,
                 prevent, shown, paused, resume, window, writing, hasFrame, vstopped,
                 header, ending>>

(* It cannot be: the previous ones are closed.  If only the thread of the  *)
(* regulator could not start, the window was asked for.                    *)
OpenFails ==
  /\ at["demuxer"] = "open" /\ opened < Len(Branches)
  /\ CloseSinks(opened, "error")
  /\ \/ UNCHANGED events
     \/ Branches[opened + 1] = <<"screen_vr", "screen">> /\ Post("open")
  /\ UNCHANGED <<opt, open, regulators, pending, screen, v4l2, ending>>

AllOpen ==
  /\ at["demuxer"] = "open" /\ opened = Len(Branches)
  /\ at' = [at EXCEPT !["demuxer"] = "recv"]
  /\ UNCHANGED <<opt, item, todo, demuxer, open, regulators, pending, screen, v4l2,
                 events, ending>>

RecvSession ==
  /\ at["demuxer"] = "recv" /\ socket /\ session < MaxSessions
  /\ session' = session + 1
  /\ Call("demuxer", [frame |-> 0, session |-> session'], Sinks("demuxer"))
  /\ UNCHANGED <<opt, opened, status, received, open, regulators, pending, screen,
                 v4l2, events, ending>>

(* A media packet is received, and a frame decoded. *)
RecvFrame ==
  /\ at["demuxer"] = "recv" /\ socket /\ received < MaxFrames
  /\ received' = received + 1
  /\ Call("demuxer", [frame |-> received', session |-> session], Sinks("demuxer"))
  /\ UNCHANGED <<opt, opened, status, session, open, regulators, pending, screen,
                 v4l2, events, ending>>

(* The device ended the stream, or the socket was shut down. *)
EndOfStream ==
  /\ at["demuxer"] = "recv"
  /\ CloseSinks(opened, "eos")
  /\ UNCHANGED <<opt, open, regulators, pending, screen, v4l2, events, ending>>

(* A packet is not valid, cannot be decoded, or is rejected by the recorder. *)
RecvFails ==
  /\ at["demuxer"] = "recv"
  /\ CloseSinks(opened, "error")
  /\ UNCHANGED <<opt, open, regulators, pending, screen, v4l2, events, ending>>

-------------------------------------------------------------------------------
(* Calls to the sinks, by the demuxer or by a regulator.                   *)

(* A push returned false: the demuxer ends, a regulator stops. *)
Rejected(t) ==
  IF t = "demuxer"
    THEN CloseSinks(opened, "error") /\ UNCHANGED regulators
    ELSE /\ at' = [at EXCEPT ![t] = "exited"]
         /\ item' = [item EXCEPT ![t] = None]
         /\ todo' = [todo EXCEPT ![t] = <<>>]
         /\ stopped' = [stopped EXCEPT ![t] = TRUE]
         /\ queue' = [queue EXCEPT ![t] = <<>>]
         /\ UNCHANGED <<range, demuxer>>

(* The frame cannot be referenced, or the packet queued: out of memory.    *)
(* The screen nevertheless takes the flag of its session.                  *)
PushFails(t) ==
  /\ at[t] = "deliver" /\ (IsFrame(item[t]) \/ Head(todo[t]) \in Regulators)
  /\ Rejected(t)
  /\ prevent' = IF Delivering(t, "screen") THEN current ELSE prevent
  /\ UNCHANGED <<opt, open, pending, current, shown, paused, resume, window, v4l2,
                 events, ending>>

(* The reader of a buffer is notified only if its previous frame was       *)
(* consumed: otherwise it is going to consume this one.                    *)
(* Variant: the test is inverted.                                          *)
NotifyInverted(b) == pending[b] # None
Notify(b) == pending[b] = None

ScreenPush(t) ==
  /\ Delivering(t, "screen") /\ IsFrame(item[t])
  /\ pending' = [pending EXCEPT !["screen"] = item[t]]
  /\ prevent' = current
  /\ IF Notify("screen")
       THEN at' = [at EXCEPT ![t] = "post"] /\ UNCHANGED <<item, todo>>
       ELSE Delivered(t)
  /\ UNCHANGED <<opt, demuxer, open, regulators, current, shown, paused, resume,
                 window, v4l2, events, ending>>

(* The event is posted once the mutex is released. *)
PostNewFrame(t) ==
  /\ at[t] = "post"
  /\ Post("frame")
  /\ Delivered(t)
  /\ UNCHANGED <<opt, demuxer, open, regulators, pending, screen, v4l2, ending>>

ScreenPushSession(t) ==
  /\ Delivering(t, "screen") /\ ~IsFrame(item[t])
  /\ current' = item[t].session
  /\ Delivered(t)
  /\ UNCHANGED <<opt, demuxer, open, regulators, pending, prevent, shown, paused,
                 resume, window, v4l2, events, ending>>

(* V4L2 ignores the sessions. *)
V4l2Push(t) ==
  /\ Delivering(t, "v4l2")
  /\ IF IsFrame(item[t])
       THEN /\ pending' = [pending EXCEPT !["v4l2"] = item[t]]
            /\ hasFrame' = (hasFrame \/ Notify("v4l2"))
       ELSE UNCHANGED <<pending, hasFrame>>
  /\ Delivered(t)
  /\ UNCHANGED <<opt, demuxer, open, regulators, screen, writer, writing, vstopped,
                 header, events, ending>>

(* The first frame is not delayed: the demuxer itself calls the sinks of   *)
(* the regulator.                                                          *)
RegulatorPush(r) ==
  /\ Delivering("demuxer", r)
  /\ IF stopped[r]
       THEN Rejected("demuxer")
       ELSE LET first == IsFrame(item["demuxer"]) /\ range[r] = 0
            IN  /\ range' = IF IsFrame(item["demuxer"])
                              THEN [range EXCEPT ![r] = 1] ELSE range
                /\ IF first
                     THEN /\ Call("demuxer", item["demuxer"],
                                  Sinks(r) \o Tail(todo["demuxer"]))
                          /\ UNCHANGED queue
                     ELSE /\ queue' = [queue EXCEPT ![r] = Append(@, item["demuxer"])]
                          /\ Delivered("demuxer")
                /\ UNCHANGED <<stopped, demuxer>>
  /\ UNCHANGED <<opt, open, pending, screen, v4l2, events, ending>>

-------------------------------------------------------------------------------
(* The thread of a regulator: run_buffering().                             *)

Take(r) ==
  /\ at[r] = "wait" /\ ~stopped[r] /\ queue[r] # <<>>
  /\ queue' = [queue EXCEPT ![r] = Tail(@)]
  /\ item' = [item EXCEPT ![r] = Head(queue[r])]
  /\ at' = [at EXCEPT ![r] = IF IsFrame(Head(queue[r])) THEN "timed" ELSE "deliver"]
  /\ todo' = [todo EXCEPT ![r] = Sinks(r)]
  /\ UNCHANGED <<opt, demuxer, open, stopped, range, pending, screen, v4l2, events,
                 ending>>

(* The deadline moves with the clock, but not beyond the delay. *)
Timeout(r) ==
  /\ at[r] = "timed" /\ ~stopped[r]
  /\ at' = [at EXCEPT ![r] = "deliver"]
  /\ UNCHANGED <<opt, item, todo, demuxer, open, regulators, pending, screen, v4l2,
                 events, ending>>

RegulatorStops(r) ==
  /\ at[r] \in {"wait", "timed"} /\ stopped[r]
  /\ at' = [at EXCEPT ![r] = "exited"]
  /\ item' = [item EXCEPT ![r] = None]
  /\ todo' = [todo EXCEPT ![r] = <<>>]
  /\ queue' = [queue EXCEPT ![r] = <<>>]
  /\ UNCHANGED <<opt, demuxer, open, stopped, range, pending, screen, v4l2, events,
                 ending>>

-------------------------------------------------------------------------------
(* The V4L2 thread: run_v4l2_sink().                                       *)

WriterTakes ==
  /\ writer = "wait" /\ ~vstopped /\ hasFrame
  /\ writer' = "write"
  /\ writing' = pending["v4l2"]
  /\ hasFrame' = FALSE
  /\ pending' = [pending EXCEPT !["v4l2"] = None]
  /\ UNCHANGED <<opt, calls, demuxer, open, regulators, screen, vstopped, header, events, ending>>

(* The first packet is only used to write the header. *)
WriterWrites ==
  /\ writer = "write"
  /\ writer' = "wait"
  /\ header' = TRUE
  /\ UNCHANGED <<opt, calls, demuxer, open, regulators, pending, screen, writing,
                 hasFrame, vstopped, events, ending>>

WriterFails ==
  /\ writer = "write"
  /\ writer' = "failed"
  /\ UNCHANGED <<opt, calls, demuxer, open, regulators, pending, screen, writing,
                 hasFrame, vstopped, header, events, ending>>

WriterStops ==
  /\ writer = "wait" /\ vstopped
  /\ writer' = "exited"
  /\ UNCHANGED <<opt, calls, demuxer, open, regulators, pending, screen, writing,
                 hasFrame, vstopped, header, events, ending>>

-------------------------------------------------------------------------------
(* The demuxer closes the sinks: those with a thread are stopped, then     *)
(* joined.                                                                 *)
(* Variants: the flag is not set; the thread is not joined.                *)
ClosingSink(s) == at["demuxer"] = "close" /\ todo["demuxer"] # <<>>
                    /\ Head(todo["demuxer"]) = s
NotStopped == FALSE
SetStopped == TRUE
Exited(s) == IF s = "v4l2" THEN writer \in {"exited", "failed"} ELSE at[s] = "exited"
NotJoined(s) == TRUE
Joined(s) == Exited(s)

StopSink(s) ==
  /\ ClosingSink(s) /\ s # "screen"
  /\ IF s = "v4l2"
       THEN ~vstopped /\ vstopped' = SetStopped /\ UNCHANGED stopped
       ELSE /\ ~stopped[s]
            /\ stopped' = [stopped EXCEPT ![s] = SetStopped]
            /\ UNCHANGED vstopped
  /\ UNCHANGED <<opt, calls, demuxer, open, queue, range, pending, screen, writer,
                 writing, hasFrame, header, events, ending>>

CloseSink(s) ==
  /\ ClosingSink(s)
  /\ s = "v4l2" => vstopped /\ Joined(s)
  /\ s \in Regulators => stopped[s] /\ Joined(s)
  /\ open' = open \ {s}
  /\ todo' = [todo EXCEPT !["demuxer"] = Tail(@)]
  /\ UNCHANGED <<opt, at, item, demuxer, regulators, pending, screen, v4l2, events,
                 ending>>

OnEnded ==
  /\ at["demuxer"] = "close" /\ todo["demuxer"] = <<>>
  /\ at' = [at EXCEPT !["demuxer"] = "exited"]
  /\ Post(IF status = "eos" THEN "disconnected" ELSE "error")
  /\ UNCHANGED <<opt, item, todo, demuxer, open, regulators, pending, screen, v4l2,
                 ending>>

-------------------------------------------------------------------------------
(* The main thread.                                                        *)

Event(e) == events # <<>> /\ Head(events) = e /\ events' = Tail(events)

OpenWindow ==
  /\ main = "loop" /\ Event("open")
  /\ window' = TRUE
  /\ UNCHANGED <<opt, calls, demuxer, open, regulators, pending, current, prevent,
                 shown, paused, resume, v4l2, ending>>

(* The flag "client resized" is the one that was kept with the frame.      *)
(* Variant: it is that of the current session.                             *)
FlagOfSession == current
Flag == prevent

NewFrame ==
  /\ main = "loop" /\ Event("frame")
  /\ pending' = [pending EXCEPT !["screen"] = None]
  /\ IF paused
       THEN resume' = pending["screen"] /\ UNCHANGED shown
       ELSE /\ shown' = [frame |-> pending["screen"].frame,
                         session |-> pending["screen"].session, flag |-> Flag]
            /\ UNCHANGED resume
  /\ UNCHANGED <<opt, calls, demuxer, open, regulators, current, prevent, paused,
                 window, v4l2, ending>>

(* The user pauses, refreshes or resumes: the frame set aside is rendered, *)
(* and may always resize the window (flag 0).                              *)
SetPaused(p) ==
  /\ main = "loop" /\ window /\ (p \/ paused)
  /\ paused' = p
  /\ IF resume # None
       THEN /\ shown' = [frame |-> resume.frame, session |-> resume.session, flag |-> 0]
            /\ resume' = None
       ELSE UNCHANGED <<shown, resume>>
  /\ UNCHANGED <<opt, calls, demuxer, open, regulators, pending, current, prevent,
                 window, v4l2, events, ending>>

(* The device is disconnected: a thread waits two seconds before the       *)
(* window is closed, if there is one and the thread can start.             *)
Disconnected ==
  /\ main = "loop" /\ Event("disconnected")
  /\ main' = "stop" /\ lost' = TRUE
  /\ \/ window /\ disc' = "icon"
     \/ UNCHANGED disc
  /\ UNCHANGED <<opt, calls, demuxer, open, regulators, pending, screen, v4l2, socket,
                 interrupted>>

DemuxerError ==
  /\ main = "loop" /\ Event("error")
  /\ main' = "stop"
  /\ UNCHANGED <<opt, calls, demuxer, open, regulators, pending, screen, v4l2, lost,
                 socket, disc, interrupted>>

(* The user quits, or another component failed. *)
LoopEnds ==
  /\ main = "loop"
  /\ main' = "stop"
  /\ UNCHANGED <<opt, calls, demuxer, open, regulators, pending, screen, v4l2, events,
                 lost, socket, disc, interrupted>>

(* The sockets are shut down, then the window hidden, at once unless the   *)
(* disconnection is displayed.                                             *)
StopServer ==
  /\ main = "stop"
  /\ socket' = FALSE
  /\ IF lost /\ window /\ disc # "off"
       THEN main' = "displayed" /\ UNCHANGED window
       ELSE main' = "join" /\ window' = FALSE
  /\ UNCHANGED <<opt, calls, demuxer, open, regulators, pending, current, prevent,
                 shown, paused, resume, v4l2, events, lost, disc, interrupted>>

DiscardEvent ==
  /\ main = "displayed" /\ events # <<>>
  /\ events' = Tail(events)
  /\ IF Head(events) = "timeout"
       THEN main' = "join" /\ window' = FALSE
       ELSE UNCHANGED <<main, window>>
  /\ UNCHANGED <<opt, calls, demuxer, open, regulators, pending, current, prevent,
                 shown, paused, resume, v4l2, lost, socket, disc, interrupted>>

QuitDisplayed ==
  /\ main = "displayed"
  /\ main' = "join" /\ window' = FALSE
  /\ interrupted' = TRUE
  /\ UNCHANGED <<opt, calls, demuxer, open, regulators, pending, current, prevent,
                 shown, paused, resume, v4l2, events, lost, socket, disc>>

JoinDemuxer ==
  /\ main = "join" /\ at["demuxer"] = "exited"
  /\ main' = "destroy"
  /\ UNCHANGED <<opt, calls, demuxer, open, regulators, pending, screen, v4l2, events,
                 lost, socket, disc, interrupted>>

(* sc_screen_join() and sc_screen_destroy(), which frees what the events   *)
(* that were not handled hold: one of each kind is looked for.             *)
DestroyScreen ==
  /\ main = "destroy" /\ disc \in {"off", "ended"}
  /\ main' = "destroyed"
  /\ events' = RemoveFirst(RemoveFirst(events, "icon"), "open")
  /\ UNCHANGED <<opt, calls, demuxer, open, regulators, pending, screen, v4l2, lost,
                 socket, disc, interrupted>>

(* disconnect.c: the icon is loaded, or not; then the time is over, or it  *)
(* is interrupted.                                                         *)
LoadIcon ==
  /\ disc = "icon" /\ disc' = "wait"
  /\ Post("icon") \/ UNCHANGED events
  /\ UNCHANGED <<opt, calls, demuxer, open, regulators, pending, screen, v4l2, main,
                 lost, socket, interrupted>>

DiscEnds ==
  /\ disc = "wait" /\ disc' = "ended"
  /\ (~interrupted /\ Post("timeout")) \/ (interrupted /\ UNCHANGED events)
  /\ UNCHANGED <<opt, calls, demuxer, open, regulators, pending, screen, v4l2, main,
                 lost, socket, interrupted>>

-------------------------------------------------------------------------------
(* What a source does once something is to be delivered. *)
Deliver(t) ==
  \/ ScreenPush(t) \/ PostNewFrame(t) \/ ScreenPushSession(t) \/ V4l2Push(t)

Demuxer ==
  \/ OpenBranch \/ AllOpen
  \/ ~socket /\ (StartStream \/ EndOfStream)
  \/ Deliver("demuxer")
  \/ \E r \in Regulators : RegulatorPush(r)
  \/ \E s \in Regulators \cup Buffers : StopSink(s) \/ CloseSink(s)
  \/ OnEnded

Regulator(r) == Take(r) \/ Timeout(r) \/ RegulatorStops(r) \/ Deliver(r)

Writer == WriterTakes \/ WriterWrites \/ WriterStops

Main ==
  \/ OpenWindow \/ NewFrame \/ Disconnected \/ DemuxerError
  \/ StopServer \/ DiscardEvent \/ JoinDemuxer \/ DestroyScreen

Disc == LoadIcon \/ DiscEnds

Next ==
  \/ Demuxer
  \/ StartStream \/ OpenFails \/ RecvSession \/ RecvFrame \/ EndOfStream \/ RecvFails
  \/ \E t \in Sources : PushFails(t)
  \/ \E r \in Regulators : Regulator(r)
  \/ Writer \/ WriterFails
  \/ Main
  \/ \E p \in BOOLEAN : SetPaused(p)
  \/ LoopEnds \/ QuitDisplayed
  \/ Disc

Spec == Init /\ [][Next]_vars

(* The threads are scheduled, the waits of the regulators and of           *)
(* disconnect.c have a deadline, and SDL gives the events that it has.     *)
(* Nothing is assumed of the device or of the user.                        *)
Fairness ==
  /\ WF_vars(Demuxer)
  /\ \A r \in Regulators : WF_vars(Regulator(r))
  /\ WF_vars(Writer)
  /\ WF_vars(Main)
  /\ WF_vars(Disc)

FairSpec == Spec /\ Fairness

-------------------------------------------------------------------------------
Item == [frame : 0 .. MaxFrames, session : 0 .. MaxSessions]

(* Types, and the assertions of the C code: a frame is consumed only if    *)
(* there is one, it is rendered in a window that is shown, the disconnect  *)
(* is handled once, and the screen is closed when it is destroyed.         *)
PipelineTypeOK ==
  /\ opt \in Options
  /\ at \in [Sources -> {"start", "open", "recv", "off", "wait", "timed", "deliver",
                         "post", "close", "exited"}]
  /\ item \in [Sources -> Item] /\ todo \in [Sources -> Seq(Regulators \cup Buffers)]
  /\ opened \in 0 .. 2 /\ status \in {"eos", "error"} /\ socket \in BOOLEAN
  /\ session \in 0 .. MaxSessions /\ received \in 0 .. MaxFrames
  /\ open \subseteq Regulators \cup Buffers
  /\ queue \in [Regulators -> Seq(Item)] /\ stopped \in [Regulators -> BOOLEAN]
  /\ range \in [Regulators -> 0 .. 1] /\ pending \in [Buffers -> Item]
  /\ current \in 0 .. MaxSessions /\ prevent \in 0 .. MaxSessions
  /\ writer \in {"off", "wait", "write", "failed", "exited"} /\ writing \in Item
  /\ hasFrame \in BOOLEAN /\ vstopped \in BOOLEAN /\ header \in BOOLEAN
  /\ main \in {"loop", "stop", "displayed", "join", "destroy", "destroyed"}
  /\ lost \in BOOLEAN /\ window \in BOOLEAN /\ paused \in BOOLEAN
  /\ events \in Seq({"open", "frame", "disconnected", "error", "icon", "timeout"})
  /\ resume \in Item /\ interrupted \in BOOLEAN
  /\ disc \in {"off", "icon", "wait", "ended"}
  /\ main = "loop" /\ events # <<>> /\ Head(events) = "frame" =>
       window /\ pending["screen"] # None
  /\ hasFrame => pending["v4l2"] # None
  /\ main = "destroyed" => "screen" \notin open

(* A sink is called only while it is open; when the screen is destroyed    *)
(* nobody uses it any more, no thread is left and no event holds memory    *)
(* (scrcpy.c:1002: "otherwise the screen could receive new frames after    *)
(* destruction").  The types and the assertions are checked with it.       *)
Running == {t \in Sources : at[t] \notin {"off", "exited"}}
SinksOpenWhileUsed ==
  /\ PipelineTypeOK
  /\ \A t \in Sources :
       at[t] \in {"deliver", "post"} /\ todo[t] # <<>> => Head(todo[t]) \in open
  /\ main = "destroyed" =>
       /\ Running = {} /\ open = {}
       /\ writer \in {"off", "failed", "exited"} /\ disc \in {"off", "ended"}
       /\ \A i \in DOMAIN events : events[i] \notin {"icon", "open"}

(* When nothing moves, the screen shows the last frame received (or holds  *)
(* it if it is paused), and V4L2 was given it: no notification is lost     *)
(* between a push and a consumption (screen.c:452-466, v4l2_sink.c:314).   *)
Quiet ==
  /\ at["demuxer"] = "recv" /\ main = "loop" /\ events = <<>>
  /\ \A r \in Regulators : at[r] \in {"off", "wait"} /\ queue[r] = <<>>
  /\ writer \in {"off", "failed"} \/ (writer = "wait" /\ ~hasFrame)
LastFrameDelivered ==
  Quiet =>
    /\ "playback" \in opt =>
         received = IF resume = None THEN shown.frame ELSE resume.frame
    /\ "v4l2" \in opt /\ writer = "wait" => received = writing.frame

(* A frame is rendered with the flag of its own session, although the      *)
(* session changes before the main thread renders it, and although frames  *)
(* are replaced.  The first one may overtake its session in a regulator,   *)
(* and nothing is said once the thread that calls the screen has ended: a  *)
(* push that failed gives its flag to the frame before (screen.c:454).     *)
ScreenCaller == IF "video_buffer" \in opt THEN "screen_vr" ELSE "demuxer"
FlagOfFrame ==
  shown.flag # 0 /\ at[ScreenCaller] \notin {"close", "exited"} =>
    shown.flag = shown.session \/ (shown.frame = 1 /\ "video_buffer" \in opt)

(* Whatever the threads are doing, the end of the loop leads to the        *)
(* destruction of the screen (scrcpy.c:914-1008).                          *)
PipelineEnds == (main # "loop") ~> (main = "destroyed")
===============================================================================
