------------------------------- MODULE AoaHid -------------------------------
(***************************************************************************)
(* HID devices simulated over USB accessory requests (AOA): the keyboard,  *)
(* the mouse and a gamepad (keyboard_aoa.c, mouse_aoa.c, gamepad_aoa.c)    *)
(* push events on the queue of aoa_hid.c, and its thread sends them to the *)
(* device, so that they do not travel with the control messages.  Hence    *)
(* acksync.c: a Ctrl+v must not reach the device before the clipboard      *)
(* that a control message carries.  The server handles that message and    *)
(* acknowledges it through DeviceMessageSender, which may drop the answer. *)
(*                                                                         *)
(* "mirror" is scrcpy.c, "otg" is scrcpy_otg.c: no server, no clipboard,   *)
(* but a thread that watches for the disconnection of the device.  The     *)
(* user keeps Ctrl pressed.                                                *)
(***************************************************************************)
EXTENDS Naturals, FiniteSets, SequencesExt

CONSTANTS
  Configs,         (* the sessions to start from, see ConfigOK             *)
  QueueLimit,      (* SC_AOA_EVENT_QUEUE_LIMIT: 60                         *)
  SenderCapacity   (* the queue of DeviceMessageSender: 16                 *)

HidIds == {"keyboard", "mouse", "gamepad"}
Keys == {"v", "k"}       (* Ctrl+v pastes, "k" is any other key            *)

(* locks: Caps Lock is on when the first key is pressed; events: a bound on *)
(* the events of the user.                                                  *)
ConfigOK(c) ==
  /\ c.mode \in {"mirror", "otg"}
  /\ c.devices \subseteq HidIds
  /\ {c.autosync, c.locks} \subseteq BOOLEAN
  /\ c.events \in Nat
  /\ c.mode = "otg" => ~c.autosync

ASSUME AoaAssumption ==
  /\ \A c \in Configs : ConfigOK(c)
  /\ QueueLimit \in Nat \ {0} /\ SenderCapacity \in Nat \ {0}

VARIABLES
  cfg,
  (* the main thread *)
  main,          (* "setup", "loop", then the steps of the end, "done"     *)
  posted,        (* events posted to it: "open error", "disconnected"      *)
  events,        (* events of the user so far                              *)
  keys,          (* hid->keys: the keys down                               *)
  paste,         (* the sequence of the last Ctrl+v                        *)
  synced,        (* mod_lock_synchronized                                  *)
  plugged,       (* the gamepad has a slot                                 *)
  nextSequence,  (* im->next_sequence                                      *)
  (* the AOA thread *)
  queue, stopped,
  thread,        (* where it is                                            *)
  event,         (* the event it processes                                 *)
  vecOpen,       (* the ids to unregister before the end                   *)
  ack,           (* acksync: the value and the stop flag                   *)
  (* USB *)
  connected, notified,
  watcher,       (* the thread of the libusb events                        *)
  usbStopped,
  (* the server *)
  control,       (* SET_CLIPBOARD messages on their way                    *)
  handled,       (* the last one handled: the clipboard is that recent     *)
  outbox, inbox, (* device messages in the sender and in the socket        *)
  alive,
  (* the device *)
  registered,    (* the HID ids it knows                                   *)
  devKeys,       (* the keys of the last report of the keyboard            *)
  (* history *)
  discarded,     (* the sequences whose Ctrl+v was discarded               *)
  pasted,        (* the sequence of the last Ctrl+v seen by the device     *)
  unregisterFailed

mainVars == <<main, posted, events, keys, paste, synced, plugged,
              nextSequence>>
threadVars == <<queue, stopped, thread, event, vecOpen, ack>>
usbVars == <<connected, notified, watcher, usbStopped>>
serverVars == <<control, handled, outbox, inbox, alive>>
deviceVars == <<registered, devKeys, pasted, unregisterFailed>>
vars == <<cfg, mainVars, threadVars, usbVars, serverVars, deviceVars,
          discarded>>

(* A report of the keyboard holds all the keys down; only what tells a      *)
(* fresh report from a stale one is kept of the others.                     *)
None == [type |-> "none"]
Input(id, ks, seq, wait) ==
  [type |-> "input", id |-> id, keys |-> ks, paste |-> seq, ack |-> wait]
Open(id) == [type |-> "open", id |-> id]
Close(id) == [type |-> "close", id |-> id]
(* Variant: only the keyboard must open.                                    *)
ExitOnKeyboard(id) == id = "keyboard"
ExitOnError(id) == id # "gamepad"

(* sc_keyboard_aoa_init() and sc_mouse_aoa_init() push before the start.    *)
Opens(id) == IF id \in cfg.devices THEN <<Open(id)>> ELSE <<>>

Init ==
  /\ cfg \in Configs
  /\ main = "setup" /\ posted = {} /\ events = 0
  /\ keys = {} /\ paste = 0 /\ synced = FALSE /\ plugged = FALSE
  /\ nextSequence = 1
  /\ queue = Opens("keyboard") \o Opens("mouse")
  /\ stopped = FALSE /\ thread = "off" /\ event = None /\ vecOpen = <<>>
  /\ ack = [value |-> 0, stopped |-> FALSE]
  /\ connected = TRUE /\ notified = FALSE /\ usbStopped = FALSE
  /\ watcher \in IF cfg.mode = "otg" THEN {"running", "none"} ELSE {"none"}
  /\ control = <<>> /\ handled = 0 /\ outbox = <<>> /\ inbox = <<>>
  /\ alive = (cfg.mode = "mirror")
  /\ registered = {} /\ devKeys = {} /\ pasted = 0
  /\ unregisterFailed = FALSE
  /\ discarded = {}

(* sc_aoa_start().                                                          *)
Start ==
  /\ main = "setup"
  /\ \/ main' = "loop" /\ thread' = "idle"
     \/ main' = "done" /\ UNCHANGED thread
  /\ UNCHANGED <<cfg, posted, events, keys, paste, synced, plugged,
                 nextSequence, queue, stopped, event, vecOpen, ack, usbVars,
                 serverVars, deviceVars, discarded>>

-----------------------------------------------------------------------------
(* The processors push events.  Inputs are dropped at the limit, and the    *)
(* thread is signalled only if the queue was empty.                         *)

Room(q) == Len(q) < QueueLimit
PushInput(q, e) == IF Room(q) THEN Append(q, e) ELSE q
Signal(q) == thread' = IF q = <<>> /\ thread = "waiting" THEN "idle" ELSE thread

Enqueue(q) ==
  /\ queue' = q
  /\ Signal(queue)
  /\ UNCHANGED <<stopped, event, vecOpen, ack>>

UserEvent ==
  /\ main = "loop"
  /\ events < cfg.events
  /\ events' = events + 1
  /\ UNCHANGED <<cfg, main, posted, usbVars, deviceVars>>

(* process_key(): the state of the lock keys goes first, until it fits.     *)
LockReport == Input("keyboard", {}, 0, 0)
NeedsSync == cfg.locks /\ ~synced
AfterSync == IF NeedsSync THEN PushInput(queue, LockReport) ELSE queue

ProcessKey(ks, seq, wait) ==
  /\ keys' = ks
  /\ paste' = seq
  /\ synced' = (synced \/ ~NeedsSync \/ Room(queue))
  /\ Enqueue(PushInput(AfterSync, Input("keyboard", ks, seq, wait)))
  /\ discarded' =
       IF wait # 0 /\ ~Room(AfterSync) THEN discarded \cup {wait}
       ELSE discarded
  /\ UNCHANGED plugged

Keyboard == "keyboard" \in cfg.devices

KeyPress(k) ==
  /\ UserEvent
  /\ Keyboard /\ k \notin keys
  /\ k = "v" => ~cfg.autosync
  /\ ProcessKey(keys \cup {k}, paste, 0)
  /\ UNCHANGED <<nextSequence, serverVars>>

KeyRelease(k) ==
  /\ UserEvent
  /\ Keyboard /\ k \in keys
  /\ ProcessKey(keys \ {k}, paste, 0)
  /\ UNCHANGED <<nextSequence, serverVars>>

(* The key is not even reported if the request is refused, by the limit of  *)
(* the controller.                                                          *)
CtrlV ==
  /\ UserEvent
  /\ Keyboard /\ "v" \notin keys
  /\ cfg.autosync
  /\ control' = IF alive THEN Append(control, nextSequence) ELSE control
  /\ nextSequence' = nextSequence + 1
  /\ ProcessKey(keys \cup {"v"}, nextSequence, nextSequence)
  /\ UNCHANGED <<handled, outbox, inbox, alive>>

MouseEvent ==
  /\ UserEvent
  /\ "mouse" \in cfg.devices
  /\ Enqueue(PushInput(queue, Input("mouse", {}, 0, 0)))
  /\ UNCHANGED <<keys, paste, synced, plugged, nextSequence, serverVars,
                 discarded>>

GamepadAdded ==
  /\ UserEvent
  /\ "gamepad" \in cfg.devices /\ ~plugged
  /\ plugged' = TRUE
  /\ Enqueue(Append(queue, Open("gamepad")))
  /\ UNCHANGED <<keys, paste, synced, nextSequence, serverVars, discarded>>

GamepadRemoved ==
  /\ UserEvent
  /\ plugged
  /\ plugged' = FALSE
  /\ Enqueue(Append(queue, Close("gamepad")))
  /\ UNCHANGED <<keys, paste, synced, nextSequence, serverVars, discarded>>

GamepadInput ==
  /\ UserEvent
  /\ plugged
  /\ Enqueue(PushInput(queue, Input("gamepad", {}, 0, 0)))
  /\ UNCHANGED <<keys, paste, synced, plugged, nextSequence, serverVars,
                 discarded>>

User ==
  \/ \E k \in Keys : KeyPress(k) \/ KeyRelease(k)
  \/ CtrlV \/ MouseEvent
  \/ GamepadAdded \/ GamepadRemoved \/ GamepadInput

-----------------------------------------------------------------------------
(* The server: the clipboard is set before the acknowledgement is queued.   *)

Offer(m) == outbox' = IF Len(outbox) < SenderCapacity THEN Append(outbox, m)
                      ELSE outbox

ServerUnchanged ==
  UNCHANGED <<cfg, mainVars, queue, stopped, thread, event, vecOpen, usbVars,
              deviceVars, discarded>>

SetClipboard ==
  /\ alive /\ control # <<>>
  /\ control' = Tail(control)
  /\ handled' = Head(control)
  /\ Offer(Head(control))
  /\ UNCHANGED <<inbox, alive, ack>>
  /\ ServerUnchanged

(* Another device message, as DEVICE_MSG_TYPE_CLIPBOARD: 0 here.            *)
ClipboardChanged ==
  /\ alive /\ cfg.autosync
  /\ outbox = <<>> /\ inbox = <<>>   (* a bound on these messages           *)
  /\ Offer(0)
  /\ UNCHANGED <<control, handled, inbox, alive, ack>>
  /\ ServerUnchanged

SendDeviceMessage ==
  /\ alive /\ outbox # <<>>
  /\ outbox' = Tail(outbox)
  /\ inbox' = Append(inbox, Head(outbox))
  /\ UNCHANGED <<control, handled, alive, ack>>
  /\ ServerUnchanged

(* The receiver of the client: sc_acksync_ack().                            *)
Acknowledged(m) == [ack EXCEPT !.value = m]
Receive ==
  /\ main # "done" /\ inbox # <<>>
  /\ inbox' = Tail(inbox)
  /\ ack' = IF Head(inbox) = 0 THEN ack ELSE Acknowledged(Head(inbox))
  /\ UNCHANGED <<control, handled, outbox, alive>>
  /\ ServerUnchanged

ServerDies ==
  /\ alive
  /\ alive' = FALSE /\ control' = <<>> /\ outbox' = <<>>
  /\ UNCHANGED <<handled, inbox, ack>>
  /\ ServerUnchanged

Server ==
  \/ SetClipboard \/ ClipboardChanged \/ SendDeviceMessage \/ Receive
  \/ ServerDies

-----------------------------------------------------------------------------
(* The AOA thread. *)

ThreadUnchanged ==
  UNCHANGED <<cfg, main, events, keys, paste, synced, plugged, nextSequence,
              stopped, watcher, usbStopped, connected, serverVars>>

MustWait == ~stopped /\ queue = <<>>

Wait ==
  /\ thread = "idle" /\ MustWait
  /\ thread' = "waiting"
  /\ UNCHANGED <<queue, event, vecOpen, ack, posted, notified, deviceVars,
                 discarded>>
  /\ ThreadUnchanged

Stopped ==
  /\ thread = "idle" /\ stopped /\ ~MustWait
  /\ thread' = "ending"
  /\ UNCHANGED <<queue, event, vecOpen, ack, posted, notified, deviceVars,
                 discarded>>
  /\ ThreadUnchanged

Pop ==
  /\ thread = "idle" /\ ~stopped /\ queue # <<>>
  /\ event' = Head(queue)
  /\ queue' = Tail(queue)
  /\ thread' = IF event'.type = "input" /\ event'.ack # 0 THEN "ack"
               ELSE "sending"
  /\ UNCHANGED <<vecOpen, ack, posted, notified, deviceVars, discarded>>
  /\ ThreadUnchanged

(* sc_acksync_wait().                                                       *)
(* Variant: the acknowledgement of the previous request is enough.          *)
CoversAlmost(value, seq) == value + 1 >= seq
Covers(value, seq) == value >= seq

WaitAck ==
  /\ thread = "ack"
  /\ thread' = IF ack.stopped THEN "ending" ELSE "sending"
  /\ ack.stopped \/ Covers(ack.value, event.ack)
  /\ UNCHANGED <<queue, event, vecOpen, ack, posted, notified, deviceVars,
                 discarded>>
  /\ ThreadUnchanged

(* 500 ms later: the event is discarded.                                    *)
AckTimeout ==
  /\ thread = "ack"
  /\ ~ack.stopped /\ ~Covers(ack.value, event.ack)
  /\ thread' = "idle" /\ event' = None
  /\ discarded' = discarded \cup {event.ack}
  /\ UNCHANGED <<queue, vecOpen, ack, posted, notified, deviceVars>>
  /\ ThreadUnchanged

(* The disconnection is posted once, and only if somebody listens.          *)
Listens == cfg.mode = "otg"
Disconnection(lost) ==
  IF lost /\ Listens /\ ~notified THEN {"disconnected"} ELSE {}
Notify(lost) == notified' = (notified \/ (lost /\ Listens))

SendInput ==
  /\ thread = "sending" /\ event.type = "input"
  /\ thread' = "idle" /\ event' = None
  /\ \/ (* sent; the device ignores an id it does not know *)
        /\ connected
        /\ IF event.id = "keyboard" /\ "keyboard" \in registered
           THEN /\ devKeys' = event.keys
                /\ pasted' = IF "v" \in event.keys \ devKeys
                             THEN event.paste ELSE pasted
           ELSE UNCHANGED <<devKeys, pasted>>
        /\ UNCHANGED <<posted, notified>>
     \/ (* an error, which is only logged *)
        /\ posted' = posted \cup Disconnection(~connected)
        /\ Notify(~connected)
        /\ UNCHANGED <<devKeys, pasted>>
  /\ UNCHANGED <<queue, vecOpen, ack, registered, unregisterFailed, discarded>>
  /\ ThreadUnchanged

(* sc_aoa_setup_hid(): the device is registered, then described.            *)
(* Variant: only the devices that must open are closed at the end.          *)
OpenedIfRequired(id) == IF ExitOnError(id) THEN Append(vecOpen, id) ELSE vecOpen
Opened(id) == Append(vecOpen, id)

SetupHid ==
  /\ thread = "sending" /\ event.type = "open"
  /\ thread' = "idle" /\ event' = None
  /\ \/ /\ connected
        /\ registered' = registered \cup {event.id}
        /\ vecOpen' = Opened(event.id)
        /\ UNCHANGED <<posted, notified, unregisterFailed>>
     \/ (* registered, but the description fails: unregistered, or not *)
        /\ \E stays \in BOOLEAN :
             /\ stays => connected
             /\ registered' = IF stays THEN registered \cup {event.id}
                              ELSE registered \ {event.id}
             /\ unregisterFailed' = (unregisterFailed \/ stays)
        /\ posted' = posted \cup Disconnection(~connected)
                       \cup IF ExitOnError(event.id) THEN {"open error"} ELSE {}
        /\ Notify(~connected)
        /\ UNCHANGED vecOpen
  /\ UNCHANGED <<queue, ack, devKeys, pasted, discarded>>
  /\ ThreadUnchanged

(* sc_aoa_unregister_hid().                                                 *)
Unregistered(id) ==
  /\ connected
  /\ registered' = registered \ {id}
  /\ UNCHANGED <<posted, notified, unregisterFailed>>
NotUnregistered(id) ==
  /\ unregisterFailed' = (unregisterFailed \/ id \in registered)
  /\ posted' = posted \cup Disconnection(~connected)
  /\ Notify(~connected)
  /\ UNCHANGED registered

CloseHid ==
  /\ thread = "sending" /\ event.type = "close"
  /\ thread' = "idle" /\ event' = None
  /\ \/ Unregistered(event.id) /\ vecOpen' = RemoveFirst(vecOpen, event.id)
     \/ NotUnregistered(event.id) /\ UNCHANGED vecOpen
  /\ UNCHANGED <<queue, ack, devKeys, pasted, discarded>>
  /\ ThreadUnchanged

(* The end of run_aoa_thread(): the events left in the queue are ignored.   *)
CloseNext ==
  /\ thread = "ending" /\ vecOpen # <<>>
  /\ vecOpen' = Tail(vecOpen)
  /\ Unregistered(Head(vecOpen)) \/ NotUnregistered(Head(vecOpen))
  /\ UNCHANGED <<queue, thread, event, ack, devKeys, pasted, discarded>>
  /\ ThreadUnchanged

Ended ==
  /\ thread = "ending" /\ vecOpen = <<>>
  /\ thread' = "ended"
  /\ UNCHANGED <<queue, event, vecOpen, ack, posted, notified, deviceVars,
                 discarded>>
  /\ ThreadUnchanged

Thread ==
  \/ Wait \/ Stopped \/ Pop \/ WaitAck \/ AckTimeout
  \/ SendInput \/ SetupHid \/ CloseHid \/ CloseNext \/ Ended

-----------------------------------------------------------------------------
(* The cable, and the thread that handles the events of libusb.             *)

Disconnect ==
  /\ connected
  /\ connected' = FALSE
  /\ registered' = {} /\ devKeys' = {}
  /\ UNCHANGED <<cfg, mainVars, threadVars, notified, watcher, usbStopped,
                 serverVars, pasted, unregisterFailed, discarded>>

WatcherUnchanged ==
  UNCHANGED <<cfg, main, events, keys, paste, synced, plugged, nextSequence,
              threadVars, connected, usbStopped, serverVars, deviceVars,
              discarded>>

(* sc_usb_libusb_callback().                                                *)
SeesDisconnection ==
  /\ watcher = "running" /\ ~connected /\ ~notified
  /\ posted' = posted \cup {"disconnected"} /\ notified' = TRUE
  /\ UNCHANGED watcher
  /\ WatcherUnchanged

WatcherEnds ==
  /\ watcher = "running" /\ usbStopped
  /\ watcher' = "ended"
  /\ UNCHANGED <<posted, notified>>
  /\ WatcherUnchanged

Watcher == SeesDisconnection \/ WatcherEnds

-----------------------------------------------------------------------------
(* The end: stop everything, then join everything.                          *)

Goes(from, to) == main = from /\ main' = to
EndUnchanged ==
  UNCHANGED <<cfg, posted, events, keys, paste, synced, plugged, nextSequence,
              queue, event, vecOpen, connected, notified, watcher, serverVars,
              deviceVars, discarded>>

Quit == Goes("loop", "stop") /\ EndUnchanged
        /\ UNCHANGED <<stopped, thread, ack, usbStopped>>
HandlePosted == posted # {} /\ Quit

(* sc_aoa_stop() takes one lock, then another.                              *)
StopThread ==
  /\ Goes("stop", "interrupt")
  /\ stopped' = TRUE
  /\ thread' = IF thread = "waiting" THEN "idle" ELSE thread
  /\ EndUnchanged /\ UNCHANGED <<ack, usbStopped>>

InterruptAck ==
  /\ Goes("interrupt", "stop usb")
  /\ ack' = [ack EXCEPT !.stopped = (cfg.mode = "mirror")]
  /\ EndUnchanged /\ UNCHANGED <<stopped, thread, usbStopped>>

StopUsb ==
  /\ Goes("stop usb", "join")
  /\ usbStopped' = TRUE
  /\ EndUnchanged /\ UNCHANGED <<stopped, thread, ack>>

JoinThread ==
  /\ thread = "ended"
  /\ Goes("join", "join usb")
  /\ EndUnchanged /\ UNCHANGED <<stopped, thread, ack, usbStopped>>

JoinUsb ==
  /\ watcher \in {"none", "ended"}
  /\ Goes("join usb", "done")
  /\ EndUnchanged /\ UNCHANGED <<stopped, thread, ack, usbStopped>>

End ==
  \/ HandlePosted \/ StopThread \/ InterruptAck \/ StopUsb
  \/ JoinThread \/ JoinUsb

Next ==
  \/ Start \/ User \/ Server \/ Thread \/ Disconnect \/ Watcher
  \/ Quit \/ End

(* The user, the death of the server and the cable are free.                *)
Spec ==
  /\ Init /\ [][Next]_vars
  /\ WF_vars(Thread) /\ WF_vars(Watcher) /\ WF_vars(End)

-----------------------------------------------------------------------------
(* Types, and two assertions: the acknowledgements are monotonic            *)
(* (acksync.c:35), and only the keyboard of a session with a server waits   *)
(* for one (aoa_hid.c:333).                                                 *)
Events == {None} \cup {Open(id) : id \in HidIds} \cup {Close("gamepad")}
          \cup {Input(id, ks, seq, wait) : id \in HidIds, ks \in SUBSET Keys,
                   seq \in 0 .. nextSequence, wait \in 0 .. nextSequence}
AoaTypeOK ==
  /\ main \in {"setup", "loop", "stop", "interrupt", "stop usb", "join",
              "join usb", "done"}
  /\ posted \subseteq {"open error", "disconnected"}
  /\ keys \subseteq Keys /\ devKeys \subseteq Keys
  /\ {synced, plugged, stopped, ack.stopped, connected, notified, usbStopped,
      alive, unregisterFailed} \subseteq BOOLEAN
  /\ {paste, pasted, handled, ack.value} \subseteq 0 .. nextSequence
  /\ event \in Events /\ ToSet(queue) \subseteq Events
  /\ thread \in {"off", "idle", "waiting", "ack", "sending", "ending", "ended"}
  /\ ToSet(vecOpen) \subseteq HidIds /\ registered \subseteq HidIds
  /\ watcher \in {"none", "running", "ended"}
  /\ Len(outbox) <= SenderCapacity
  /\ \A i \in DOMAIN inbox : inbox[i] # 0 => inbox[i] >= ack.value
  /\ thread = "ack" => event.id = "keyboard" /\ cfg.mode = "mirror"

(* When the device sees a Ctrl+v, its clipboard is at least as recent as    *)
(* the one this Ctrl+v was to paste (keyboard_aoa.c), whatever the server,  *)
(* the sender of its answers and the user do.  The exception is real: the   *)
(* reports hold all the keys down, so that after a Ctrl+v was discarded     *)
(* (no answer in 500 ms, or a full queue), the report of any other key      *)
(* pressed before "v" is released carries the "v" too.  The types are       *)
(* checked with it.                                                         *)
PasteIsFresh == AoaTypeOK /\ (handled >= pasted \/ pasted \in discarded)

(* Once the main thread stops, the thread ends, even if it waits for an     *)
(* event or for an answer, or has a full queue; scrcpy ends, and the device *)
(* keeps no HID device, unless a request to forget it failed.               *)
EndReleasesAll ==
  main = "stop" ~> main = "done" /\ (registered = {} \/ unregisterFailed)

(* A keyboard or a mouse that could not be opened ends the session, and so  *)
(* does the disconnection, over OTG, if there is a thread to see it.        *)
NotOpen ==
  /\ queue = <<>> /\ thread \in {"idle", "waiting"}
  /\ \E id \in cfg.devices \cap {"keyboard", "mouse"} : ~Contains(vecOpen, id)
Unplugged == watcher = "running" /\ ~connected
ErrorsEndSession == (main = "loop" /\ (NotOpen \/ Unplugged)) ~> main = "done"
=============================================================================
