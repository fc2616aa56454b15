------------------------------ MODULE GamepadUhid ------------------------------
(***************************************************************************)
(* Gamepads simulated over UHID, from the SDL events of the computer to    *)
(* the virtual devices of the phone: the event loop of the client hands    *)
(* SDL_EVENT_GAMEPAD_ADDED, REMOVED and BUTTON events to the slots of      *)
(* hid/hid_gamepad.c, uhid/gamepad_uhid.c turns them into UHID_CREATE,     *)
(* UHID_INPUT and UHID_DESTROY messages pushed on the Controller, and      *)
(* UhidManager on the device opens, feeds and closes one /dev/uhid         *)
(* descriptor per HID id.                                                  *)
(***************************************************************************)
EXTENDS Controller, FiniteSets, SequencesExt

CONSTANTS
  Pads,      (* joystick ids: SDL gives a new one to each plugged gamepad  *)
  NoPad,     (* SC_GAMEPAD_ID_INVALID                                      *)
  MaxPads    (* SC_MAX_GAMEPADS                                            *)

Slots == 1 .. MaxPads

(* A HID report holds the whole state of the gamepad: one button is enough *)
(* to tell a stale report from a current one.                              *)
Create(s) == [kind |-> "UHID_CREATE", id |-> s, down |-> FALSE]
Input(s, down) == [kind |-> "UHID_INPUT", id |-> s, down |-> down]
Destroyed(s) == [kind |-> "UHID_DESTROY", id |-> s, down |-> FALSE]

UhidMsgs ==
  {Create(s) : s \in Slots} \cup {Destroyed(s) : s \in Slots}
    \cup {Input(s, d) : s \in Slots, d \in BOOLEAN}

(* sc_control_msg_is_droppable().                                          *)
(* Variant: a UHID_DESTROY is dropped like an input.                       *)
UhidCreates == {m \in UhidMsgs : m.kind = "UHID_CREATE"}
UhidNonDroppable ==
  {m \in UhidMsgs : m.kind \in {"UHID_CREATE", "UHID_DESTROY"}}

ASSUME GamepadAssumption ==
  /\ Msgs = UhidMsgs
  /\ NonDroppable = UhidNonDroppable
  /\ NoPad \notin Pads
  /\ MaxPads \in Nat \ {0}

VARIABLES
  phase,    (* "await" the server, "setup", then the event "loop"          *)
  plugged,  (* gamepads plugged into the computer                          *)
  gone,     (* gamepads that were unplugged: their id is not used again    *)
  sdl,      (* the SDL event queue                                         *)
  slots,    (* hid->slots: the gamepad and its button, per slot            *)
  dev,      (* the virtual device of each HID id, on the phone             *)
  server,   (* TRUE while the control thread of the server runs            *)
  stale     (* ghost: slots whose last report was discarded                *)

padvars == <<phase, plugged, gone, sdl, slots, dev, server, stale>>
allvars == <<vars, padvars>>

Added(p) == [type |-> "ADDED", pad |-> p]
Removed(p) == [type |-> "REMOVED", pad |-> p]

(* sc_hid_gamepad_slot_find(): the lowest slot of a gamepad, 0 if none. *)
SlotOf(p) ==
  LET S == {s \in Slots : slots[s].pad = p} IN IF S = {} THEN 0 ELSE Min(S)

(* sc_hid_gamepad_slot_init() resets the state of the slot.                *)
(* Variant: the state of the previous gamepad is kept.                     *)
SlotKept(s, p) == [slots[s] EXCEPT !.pad = p]
SlotInit(s, p) == [pad |-> p, down |-> FALSE]

PadInit ==
  /\ Init
  /\ phase = "await"
  /\ plugged = {} /\ gone = {}
  /\ sdl = <<>>
  /\ slots = [s \in Slots |-> [pad |-> NoPad, down |-> FALSE]]
  /\ dev = [s \in Slots |-> "closed"]
  /\ server = TRUE
  /\ stale = {}

-------------------------------------------------------------------------------
(* SDL and the user: events queue up until the main thread handles them.   *)

Plug(p) ==
  /\ p \notin plugged \cup gone
  /\ main # "destroyed"
  /\ plugged' = plugged \cup {p}
  /\ sdl' = Append(sdl, Added(p))
  /\ UNCHANGED <<vars, phase, gone, slots, dev, server, stale>>

Unplug(p) ==
  /\ p \in plugged
  /\ main # "destroyed"
  /\ plugged' = plugged \ {p}
  /\ gone' = gone \cup {p}
  /\ sdl' = Append(sdl, Removed(p))
  /\ UNCHANGED <<vars, phase, slots, dev, server, stale>>

(* await_for_server() discards the events posted before the one of the     *)
(* server thread, SC_EVENT_SERVER_CONNECTED, and none of the later ones.   *)
AwaitForServer ==
  /\ phase = "await" /\ main = "init"
  /\ phase' = "setup"
  /\ \E k \in 0 .. Len(sdl) : sdl' = SubSeq(sdl, k + 1, Len(sdl))
  /\ UNCHANGED <<vars, plugged, gone, slots, dev, server, stale>>

(* init_sdl_gamepads() posts one ADDED event per gamepad already plugged.  *)
InitSdlGamepads ==
  /\ phase = "setup" /\ main = "running"
  /\ phase' = "loop"
  /\ \E order \in SetToSeqs(plugged) :
       sdl' = sdl \o [i \in DOMAIN order |-> Added(order[i])]
  /\ UNCHANGED <<vars, plugged, gone, slots, dev, server, stale>>

-------------------------------------------------------------------------------
(* The event loop of the main thread.                                      *)

NextEvent(e) ==
  /\ phase = "loop" /\ main = "running"
  /\ sdl # <<>>
  /\ e = Head(sdl)
  /\ sdl' = Tail(sdl)

(* The gamepad takes the lowest free slot, and is ignored if there is none *)
(* or if it cannot be opened any more.                                     *)
GamepadAdded(p) ==
  /\ NextEvent(Added(p))
  /\ LET s == SlotOf(NoPad) IN
     \/ /\ p \in plugged /\ s # 0
        /\ slots' = [slots EXCEPT ![s] = SlotInit(s, p)]
        /\ stale' = stale \ {s}
        /\ PushMsg(Create(s))
     \/ /\ p \notin plugged \/ s = 0
        /\ UNCHANGED <<vars, slots, stale>>
  /\ UNCHANGED <<phase, plugged, gone, dev, server>>

GamepadRemoved(p) ==
  /\ NextEvent(Removed(p))
  /\ LET s == SlotOf(p) IN
     \/ /\ s # 0
        /\ slots' = [slots EXCEPT ![s].pad = NoPad]
        /\ PushMsg(Destroyed(s))
     \/ /\ s = 0
        /\ UNCHANGED <<vars, slots>>
  /\ UNCHANGED <<phase, plugged, gone, dev, server, stale>>

(* A button is pressed or released: the report carries the new state of    *)
(* the slot, and is discarded if the queue is at its limit.                *)
GamepadButton(p) ==
  /\ phase = "loop" /\ main = "running"
  /\ p \in plugged
  /\ LET s == SlotOf(p)
         down == ~slots[s].down
     IN /\ s # 0
        /\ slots' = [slots EXCEPT ![s].down = down]
        /\ PushMsg(Input(s, down))
        /\ stale' = IF Len(queue) < QueueLimit THEN stale \ {s} ELSE stale \cup {s}
  /\ UNCHANGED <<phase, plugged, gone, sdl, dev, server>>

-------------------------------------------------------------------------------
(* The device: Controller.handleEvent() and UhidManager.                   *)

AllClosed == [s \in Slots |-> "closed"]

State(down) == IF down THEN "down" ELSE "up"

(* What UhidManager.open(), writeInput() and close() do to the devices: a  *)
(* message for an unknown id is ignored, a duplicate id replaces the       *)
(* descriptor.                                                             *)
Applied(d, m) ==
  CASE m.kind = "UHID_CREATE" -> [d EXCEPT ![m.id] = State(FALSE)]
    [] m.kind = "UHID_INPUT" /\ d[m.id] # "closed" -> [d EXCEPT ![m.id] = State(m.down)]
    [] m.kind = "UHID_DESTROY" -> [d EXCEPT ![m.id] = "closed"]
    [] OTHER -> d

HandleMessage ==
  /\ server
  /\ DeviceReads
  /\ dev' = Applied(dev, Head(wire))
  /\ UNCHANGED <<phase, plugged, gone, sdl, slots, server, stale>>

(* /dev/uhid cannot be opened, or any other fatal error: the control       *)
(* thread ends and closes all the devices, and the server exits.           *)
ServerFails ==
  /\ server
  /\ DeviceCloses
  /\ server' = FALSE
  /\ dev' = AllClosed
  /\ UNCHANGED <<phase, plugged, gone, sdl, slots, stale>>

(* The connection is closed, and everything that was received is handled.  *)
EndOfStream ==
  /\ server
  /\ socket = "shut" /\ wire = <<>>
  /\ server' = FALSE
  /\ dev' = AllClosed
  /\ UNCHANGED <<vars, phase, plugged, gone, sdl, slots, stale>>

-------------------------------------------------------------------------------
PadNext ==
  \/ \E p \in Pads : Plug(p) \/ Unplug(p)
  \/ AwaitForServer
  \/ InitSdlGamepads
  \/ \E p \in Pads : GamepadAdded(p) \/ GamepadRemoved(p) \/ GamepadButton(p)
  \/ HandleMessage
  \/ ServerFails
  \/ EndOfStream
  \/ Threads /\ (main = "init" => phase # "await") /\ UNCHANGED padvars

PadSpec == PadInit /\ [][PadNext]_allvars

-------------------------------------------------------------------------------
PadTypeOK ==
  /\ TypeOK
  /\ phase \in {"await", "setup", "loop"}
  /\ plugged \subseteq Pads /\ gone \subseteq Pads \ plugged
  /\ sdl \in Seq([type : {"ADDED", "REMOVED"}, pad : Pads])
  /\ slots \in [Slots -> [pad : Pads \cup {NoPad}, down : BOOLEAN]]
  /\ dev \in [Slots -> {"closed", "up", "down"}]
  /\ server \in BOOLEAN
  /\ stale \subseteq Slots

(* Although reports are discarded when the queue is full, UhidManager      *)
(* never meets an unknown id or a duplicate one: this is what the          *)
(* exception made for UHID_CREATE and UHID_DESTROY in                      *)
(* sc_control_msg_is_droppable() is for.  The types are checked with it.   *)
DeviceNeverConfused ==
  /\ PadTypeOK
  /\ server /\ wire # <<>> =>
       LET m == Head(wire) IN
         /\ m.kind = "UHID_CREATE" => dev[m.id] = "closed"
         /\ m.kind \in {"UHID_INPUT", "UHID_DESTROY"} => dev[m.id] # "closed"

(* What is between the slots of the client and the devices of the server,  *)
(* and the devices once the i first of these messages are handled.         *)
Pending == wire \o inflight \o queue
Handled[i \in 0 .. Len(Pending)] ==
  IF i = 0 THEN dev ELSE Applied(Handled[i - 1], Pending[i])

(* At any moment, once the device has handled what is in the socket, in    *)
(* the controller thread and in the queue, it has one virtual gamepad per  *)
(* used slot and no other, in the state of that slot unless its last       *)
(* report was discarded.                                                   *)
DevicesMirrorSlots ==
  server /\ socket = "open" /\ ctl \notin {"ended", "joined"} /\ main # "destroyed" =>
    LET final == Handled[Len(Pending)] IN
      \A s \in Slots :
        /\ (final[s] = "closed") = (slots[s].pad = NoPad)
        /\ final[s] # "closed" /\ s \notin stale => final[s] = State(slots[s].down)
===============================================================================
