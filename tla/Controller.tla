------------------------------ MODULE Controller ------------------------------
(***************************************************************************)
(* The client's controller (app/src/controller.c) with its receiver        *)
(* (app/src/receiver.c): the threads of the process push control messages  *)
(* into a bounded queue, or overwrite the one RESIZE_DISPLAY slot; the     *)
(* thread "scrcpy-ctl" sends them on the control socket; the thread        *)
(* "scrcpy-receiver" reads the same socket.  The main thread starts both   *)
(* threads, stops them, has the socket shut down by the server thread,     *)
(* joins them and destroys the controller.                                 *)
(*                                                                         *)
(* One step is one critical section of controller->mutex, or one blocking  *)
(* call made outside of it.                                                *)
(***************************************************************************)
EXTENDS Naturals, Sequences

CONSTANTS
  Msgs,          (* control messages, RESIZE_DISPLAY excepted              *)
  NonDroppable,  (* the UHID_CREATE and UHID_DESTROY messages              *)
  Sizes,         (* display sizes                                          *)
  NoSize,        (* resize_display.width = 0                               *)
  QueueLimit,    (* SC_CONTROL_MSG_QUEUE_LIMIT                             *)
  MaxQueue,      (* bound of the model: length of the queue at most        *)
  SocketCap      (* bound of the model: messages the socket buffers hold   *)

ASSUME ControllerAssumption ==
  /\ NonDroppable \subseteq Msgs
  /\ Msgs \cap Sizes = {}
  /\ NoSize \notin Sizes
  /\ QueueLimit \in Nat \ {0}
  /\ MaxQueue \in Nat /\ MaxQueue >= QueueLimit
  /\ SocketCap \in Nat \ {0}

VARIABLES
  queue,     (* controller->queue, the oldest message first                *)
  resize,    (* controller->resize_display                                 *)
  stopped,   (* controller->stopped                                        *)
  ctl,       (* where the thread "scrcpy-ctl" is                           *)
  inflight,  (* its local msg: <<>> or the one message taken               *)
  receiver,  (* where the thread "scrcpy-receiver" is                      *)
  main,      (* where the main thread is in the controller's life          *)
  socket,    (* "open", "reset" by the device, or "shut" by the client     *)
  wire,      (* messages written to the socket, not yet read by the device *)
  events     (* what the on_ended callbacks posted to the main thread      *)

chan == <<queue, resize>>
threads == <<ctl, inflight, receiver>>
vars == <<queue, resize, stopped, ctl, inflight, receiver, main, socket, wire,
          events>>

(***************************************************************************)
(* sc_cond_signal(&msg_cond) wakes the controller thread if it waits.      *)
(***************************************************************************)
Signal(t) == IF t = "waiting" THEN "ready" ELSE t

(* The limit of the queue is not for the messages that cannot be dropped.  *)
(* Variant: the limit is off by one.                                       *)
HasRoomOffByOne(m) == Len(queue) <= QueueLimit \/ m \in NonDroppable
HasRoom(m) == Len(queue) < QueueLimit \/ m \in NonDroppable

(* resize_display() signals the thread if no size was requested before.    *)
(* Variant: it counts on a message to wake the thread.                     *)
ResizeNeverSignals == FALSE
ResizeSignals == resize = NoSize

(* run_controller() looks at stopped first, then at the requested size,    *)
(* then at the queue.                                                      *)
(* Variants: it sends what is queued before it stops; the queue comes      *)
(* before the size.                                                        *)
DrainsFirst == stopped /\ queue = <<>>
MustStop == stopped

ResizeLast == resize # NoSize /\ queue = <<>>
ResizeFirst == resize # NoSize

(* net_send_all() and net_recv() fail once the device or the server thread *)
(* of the client closed the connection.                                    *)
(* Variant: closing the socket on the client does not interrupt them.      *)
BrokenByDevice == socket = "reset"
Broken == socket # "open"

(* The event that each thread posts to the main thread by its on_ended     *)
(* callback; any of them ends the event loop.                              *)
(* Variant: the end of the stream is not reported.                         *)
PostedOnError(error) == IF error THEN {"CONTROLLER_ERROR"} ELSE {}
Posted(error) == IF error THEN {"CONTROLLER_ERROR"} ELSE {"DEVICE_DISCONNECTED"}

Init ==
  /\ queue = <<>>
  /\ resize = NoSize
  /\ stopped = FALSE
  /\ ctl = "none"
  /\ inflight = <<>>
  /\ receiver = "none"
  /\ main = "init"
  /\ socket = "open"
  /\ wire = <<>>
  /\ events = {}

-------------------------------------------------------------------------------
(* The users of the controller.                                            *)

(* Before the start only the UHID_CREATE messages of the keyboard and of   *)
(* the mouse are pushed (keyboard_uhid.c, mouse_uhid.c), which fit in the  *)
(* buffers of the socket; no other thread pushes until the controller      *)
(* runs, but the file pusher may still do so while it stops.               *)
MayPush ==
  \/ main = "init" /\ Len(queue) < SocketCap
  \/ main \in {"running", "stopping", "joining"}
  \/ main = "joined" /\ receiver = "joined"

(* Under the limit the message is queued, and the thread is signalled only *)
(* if the queue was empty; at the limit only a message that cannot be      *)
(* dropped is queued.                                                      *)
PushMsg(m) ==
  /\ MayPush
  /\ Len(queue) < MaxQueue
  /\ \/ /\ HasRoom(m)
        /\ queue' = Append(queue, m)
        /\ ctl' = IF queue = <<>> THEN Signal(ctl) ELSE ctl
     \/ /\ ~HasRoom(m)
        /\ UNCHANGED <<queue, ctl>>
  /\ UNCHANGED <<resize, stopped, inflight, receiver, main, socket, wire, events>>

(* A size overwrites the one that was not sent yet; the thread is          *)
(* signalled only if there was none.                                       *)
ResizeDisplay(s) ==
  /\ main = "running"
  /\ resize' = s
  /\ ctl' = IF ResizeSignals THEN Signal(ctl) ELSE ctl
  /\ UNCHANGED <<queue, stopped, inflight, receiver, main, socket, wire,
                 events>>

-------------------------------------------------------------------------------
(* The thread "scrcpy-ctl".                                                *)

CtlWait ==
  /\ ctl = "ready"
  /\ ~MustStop /\ resize = NoSize /\ queue = <<>>
  /\ ctl' = "waiting"
  /\ UNCHANGED <<chan, stopped, inflight, receiver, main, socket, wire,
                 events>>

(* A condition variable may wake its waiter without a signal. *)
CtlSpuriousWakeup ==
  /\ ctl = "waiting"
  /\ ctl' = "ready"
  /\ UNCHANGED <<chan, stopped, inflight, receiver, main, socket, wire,
                 events>>

(* The thread stops immediately: what is queued is not sent. *)
CtlStop ==
  /\ ctl = "ready"
  /\ MustStop
  /\ ctl' = "ended"
  /\ events' = events \cup Posted(FALSE)
  /\ UNCHANGED <<chan, stopped, inflight, receiver, main, socket, wire>>

CtlTakeResize ==
  /\ ctl = "ready"
  /\ ~MustStop /\ ResizeFirst
  /\ inflight' = <<resize>>
  /\ resize' = NoSize
  /\ ctl' = "sending"
  /\ UNCHANGED <<queue, stopped, receiver, main, socket, wire, events>>

CtlTakeMsg ==
  /\ ctl = "ready"
  /\ ~MustStop /\ ~ResizeFirst /\ queue # <<>>
  /\ inflight' = <<Head(queue)>>
  /\ queue' = Tail(queue)
  /\ ctl' = "sending"
  /\ UNCHANGED <<resize, stopped, receiver, main, socket, wire, events>>

(* net_send_all() blocks while the buffers of the socket are full. *)
CtlSend ==
  /\ ctl = "sending"
  /\ socket = "open"
  /\ Len(wire) < SocketCap
  /\ wire' = wire \o inflight
  /\ inflight' = <<>>
  /\ ctl' = "ready"
  /\ UNCHANGED <<chan, stopped, receiver, main, socket, events>>

(* net_send_all() fails, because the device or the server thread closed    *)
(* the connection (eos): the thread ends.                                  *)
CtlSendFails ==
  /\ ctl = "sending"
  /\ Broken
  /\ inflight' = <<>>
  /\ ctl' = "ended"
  /\ events' = events \cup Posted(FALSE)
  /\ UNCHANGED <<chan, stopped, receiver, main, socket, wire>>

(* The message cannot be serialized: an error, and the thread ends. *)
CtlSerializeFails ==
  /\ ctl = "sending"
  /\ inflight[1] \in Msgs
  /\ inflight' = <<>>
  /\ ctl' = "ended"
  /\ events' = events \cup Posted(TRUE)
  /\ UNCHANGED <<chan, stopped, receiver, main, socket, wire>>

-------------------------------------------------------------------------------
(* The thread "scrcpy-receiver".                                           *)

(* net_recv() returns no data once the connection is closed; a device      *)
(* message that cannot be parsed is an error.                              *)
ReceiverEnds(error) ==
  /\ receiver = "running"
  /\ error \/ Broken
  /\ receiver' = "ended"
  /\ events' = events \cup Posted(error)
  /\ UNCHANGED <<chan, stopped, ctl, inflight, main, socket, wire>>

-------------------------------------------------------------------------------
(* The device.                                                             *)

DeviceReads ==
  /\ wire # <<>>
  /\ wire' = Tail(wire)
  /\ UNCHANGED <<chan, stopped, threads, main, socket, events>>

(* The server on the device exits. *)
DeviceCloses ==
  /\ socket = "open"
  /\ socket' = "reset"
  /\ UNCHANGED <<chan, stopped, threads, main, wire, events>>

-------------------------------------------------------------------------------
(* The main thread: scrcpy() starts, runs, stops and joins.                *)

StartThread ==
  /\ main = "init"
  /\ main' = "starting"
  /\ ctl' = "ready"
  /\ UNCHANGED <<chan, stopped, inflight, receiver, socket, wire, events>>

StartReceiver ==
  /\ main = "starting"
  /\ main' = "running"
  /\ receiver' = "running"
  /\ UNCHANGED <<chan, stopped, ctl, inflight, socket, wire, events>>

(* The receiver thread cannot be created: the controller is stopped and    *)
(* joined, with the socket still open.                                     *)
StartReceiverFails ==
  /\ main = "starting"
  /\ main' = "aborting"
  /\ stopped' = TRUE
  /\ ctl' = Signal(ctl)
  /\ UNCHANGED <<chan, inflight, receiver, socket, wire, events>>

AbortJoin ==
  /\ main = "aborting"
  /\ ctl = "ended"
  /\ ctl' = "joined"
  /\ main' = "joined"
  /\ UNCHANGED <<chan, stopped, inflight, receiver, socket, wire, events>>

(* The event loop returned, on an event or because the user quits. *)
Stop ==
  /\ main = "running"
  /\ main' = "stopping"
  /\ stopped' = TRUE
  /\ ctl' = Signal(ctl)
  /\ UNCHANGED <<chan, inflight, receiver, socket, wire, events>>

(* sc_server_stop(): the server thread interrupts the control socket. *)
ServerStop ==
  /\ main = "stopping"
  /\ main' = "joining"
  /\ socket' = "shut"
  /\ UNCHANGED <<chan, stopped, threads, wire, events>>

JoinThread ==
  /\ main = "joining"
  /\ ctl = "ended"
  /\ ctl' = "joined"
  /\ UNCHANGED <<chan, stopped, inflight, receiver, main, socket, wire,
                 events>>

JoinReceiver ==
  /\ main = "joining"
  /\ ctl = "joined"
  /\ receiver = "ended"
  /\ receiver' = "joined"
  /\ main' = "joined"
  /\ UNCHANGED <<chan, stopped, ctl, inflight, socket, wire, events>>

(* What is still queued is freed. *)
Destroy ==
  /\ main = "joined"
  /\ main' = "destroyed"
  /\ queue' = <<>>
  /\ UNCHANGED <<resize, stopped, threads, socket, wire, events>>

-------------------------------------------------------------------------------
Ctl ==
  \/ CtlWait
  \/ CtlStop
  \/ CtlTakeResize
  \/ CtlTakeMsg
  \/ CtlSend
  \/ CtlSendFails

(* The steps of the main thread once it has decided to stop. *)
Shutdown ==
  \/ AbortJoin
  \/ ServerStop
  \/ JoinThread
  \/ JoinReceiver
  \/ Destroy

Threads ==
  \/ Ctl
  \/ CtlSpuriousWakeup
  \/ CtlSerializeFails
  \/ \E error \in BOOLEAN : ReceiverEnds(error)
  \/ StartThread
  \/ StartReceiver
  \/ StartReceiverFails
  \/ Stop
  \/ Shutdown

Next ==
  \/ \E m \in Msgs : PushMsg(m)
  \/ \E s \in Sizes : ResizeDisplay(s)
  \/ Threads
  \/ DeviceReads
  \/ DeviceCloses

Spec == Init /\ [][Next]_vars

(* The operating system schedules the threads; the main thread completes   *)
(* sc_controller_start() in the order of the code, and leaves the event    *)
(* loop once an event that ends it was posted.  Nothing is assumed of the  *)
(* device, which may stop reading, or of the users.                        *)
Fairness ==
  /\ WF_vars(Ctl)
  /\ WF_vars(ReceiverEnds(FALSE))
  /\ WF_vars(StartReceiver \/ StartReceiverFails)
  /\ WF_vars(Shutdown)
  /\ WF_vars(Stop /\ events # {})

FairSpec == Spec /\ Fairness

-------------------------------------------------------------------------------
(* Beyond the limit of the queue there are only messages that cannot be    *)
(* dropped.                                                                *)
KeptBeyondLimit ==
  \A i \in 1 .. Len(queue) : i > QueueLimit => queue[i] \in NonDroppable

(* The types of the variables: what the C declarations allow, and what the *)
(* queue may hold.                                                         *)
TypeOK ==
  /\ queue \in Seq(Msgs) /\ Len(queue) <= MaxQueue
  /\ KeptBeyondLimit
  /\ resize \in Sizes \cup {NoSize}
  /\ stopped \in BOOLEAN
  /\ ctl \in {"none", "ready", "waiting", "sending", "ended", "joined"}
  /\ inflight \in {<<>>} \cup {<<m>> : m \in Msgs \cup Sizes}
  /\ receiver \in {"none", "running", "ended", "joined"}
  /\ main \in {"init", "starting", "running", "stopping", "joining",
               "aborting", "joined", "destroyed"}
  /\ socket \in {"open", "reset", "shut"}
  /\ wire \in Seq(Msgs \cup Sizes) /\ Len(wire) <= SocketCap
  /\ events \subseteq {"CONTROLLER_ERROR", "DEVICE_DISCONNECTED"}

(* No wakeup is lost although push_msg signals only on an empty queue and  *)
(* resize_display only on an empty slot: the thread sleeps only when it    *)
(* has nothing to send and was not stopped.                                *)
NoLostWakeup ==
  ctl = "waiting" => queue = <<>> /\ resize = NoSize /\ ~stopped

(* The main thread never hangs at shutdown, even if the device stopped     *)
(* reading while a message was being sent.                                 *)
ShutdownTerminates == stopped ~> main = "destroyed"

(* The end of either thread of the controller brings the client down,     *)
(* even if the other one still runs.                                       *)
EndIsNoticed == (ctl = "ended" \/ receiver = "ended") ~> main = "destroyed"

(* As long as the device keeps reading, a size that is requested is taken  *)
(* by the controller thread, or the connection ends.                       *)
ResizeServed ==
  ([]<>(wire = <<>>)) => ((resize # NoSize) ~> (resize = NoSize \/ ctl = "ended" \/ stopped))

-------------------------------------------------------------------------------
(* The controller implements the channel: a message is delivered when the  *)
(* controller thread takes it.                                             *)
Channel == INSTANCE MsgChannel WITH
  Msg <- Msgs, Size <- Sizes,
  pending <- queue, slot <- resize, out <- wire \o inflight,
  open <- ~stopped /\ ctl \notin {"ended", "joined"}

ImplementsChannel == Channel!Spec
===============================================================================
