----------------------------- MODULE InputRelay -----------------------------
(***************************************************************************)
(* The way of an input event: the window, the input manager                *)
(* (input_manager.c), the mouse and keyboard processors (mouse_sdk.c,      *)
(* mouse_uhid.c, keyboard_sdk.c), the mouse capture (mouse_capture.c), the *)
(* bounded queue of the controller, the wire, and the injection by the     *)
(* server (Controller.java).  Android is what receives the injected        *)
(* events: the fingers and the keys it believes to be down.                *)
(*                                                                         *)
(* The user holds keys and buttons of the computer in any order, while the *)
(* device rotates and the display is paused.                               *)
(***************************************************************************)
EXTENDS ControlWire, DevicePointers, SequencesExt

CONSTANTS Configs,     (* the settings to start from, see ConfigOK           *)
          Primary,     (* mouse_bindings.pri: what each button does          *)
          Secondary,   (* mouse_bindings.sec: the same with Shift            *)
          QueueLimit   (* messages waiting in the controller: 60 in the code *)

Modifiers == {"MOD", "SHIFT", "CTRL"}
PressKeys == {"h", "b", "s", "m", "p"}       (* shortcuts that press a key   *)
VolumeKeys == {"up", "down"}
OneShotKeys == {"o", "c", "x", "v", "n", "r", "k"}
CameraKeys == {"t"} \cup VolumeKeys
LocalKeys == {"z", "left", "right", "f", "w", "g", "i"}
PlainKeys == {"a"}
Keys == Modifiers \cup PressKeys \cup VolumeKeys \cup OneShotKeys
          \cup CameraKeys \cup LocalKeys \cup PlainKeys
Buttons == {"left button", "right button"}
Left == "left button"
Fingers == {"f1", "f2"}
Extras == {"double-click", "rotation"}   (* what may also happen             *)
Bindings == {"click", "back", "home", "disabled", "notifications"}
Sizes == {1, 2}

(* mouse: none, sdk or relative (UHID); typing: the key injection mode;     *)
(* inputs: what the user may use; limit: a bound on the events of the user. *)
ConfigOK(c) ==
  /\ c.camera \in BOOLEAN /\ c.control \in BOOLEAN /\ c.keyboard \in BOOLEAN
  /\ c.mouse \in {"none", "sdk", "relative"}
  /\ {c.hover, c.legacyPaste, c.autosync} \subseteq BOOLEAN
  /\ c.typing \in {"mixed", "text", "raw"}
  /\ c.inputs \subseteq Keys \cup Buttons \cup Fingers \cup Extras
  /\ c.limit \in Nat
  /\ c.camera => ~c.keyboard /\ c.mouse = "none"
  /\ ~c.control => ~c.keyboard /\ c.mouse = "none"

ASSUME InputAssumption ==
  /\ \A c \in Configs : ConfigOK(c)
  /\ Primary \in [Buttons -> Bindings] /\ Secondary \in [Buttons -> Bindings]
  /\ Primary[Left] = "click" /\ Secondary[Left] = "click"
  /\ QueueLimit \in Nat \ {0}

VARIABLES
  cfg,          (* the settings of this session                              *)
  events,       (* input events so far, for the bound                        *)
  held,         (* keys, buttons and fingers the user holds                  *)
  lastPress,    (* the last press of the left button: clicks, outside        *)
  (* the client *)
  paused, disconnected,
  buttonsState, (* im->mouse_buttons_state                                   *)
  vfingerDown,  (* im->vfinger_down                                          *)
  lastKey, keyRepeat,   (* to recognise a key pressed twice                  *)
  capture,      (* the mouse is captured (relative mode)                     *)
  captureKey,   (* the capture key pressed alone                             *)
  frameSize,    (* screen->frame_size                                        *)
  resumeSize,   (* the size of the frame kept during a pause, 0 if none      *)
  queue,        (* messages pushed and not handled by the server             *)
  (* the server *)
  mapperSize,   (* the video size of the position mapper                     *)
  pointers,     (* pointersState                                             *)
  alive,        (* the control thread runs                                   *)
  (* Android *)
  touching,     (* the local ids of the pointers down                        *)
  legal,        (* every injected motion event was consistent                *)
  devKeys,      (* the keys down                                             *)
  hidButtons,   (* the buttons of the UHID mouse                             *)
  screenOn,
  (* history *)
  touchLost,    (* a press or a release was lost, see TouchAfter             *)
  keyLost

userVars == <<cfg, events, held, lastPress>>
clientVars == <<paused, disconnected, buttonsState, vfingerDown, lastKey,
                keyRepeat, capture, captureKey, frameSize, resumeSize>>
serverVars == <<mapperSize, pointers, alive, touching, legal, devKeys,
                hidButtons, screenOn>>
inputVars == <<userVars, clientVars, queue, serverVars, touchLost, keyLost>>

InputInit ==
  /\ cfg \in Configs
  /\ events = 0 /\ held = {} /\ lastPress = [clicks |-> 1, outside |-> FALSE]
  /\ paused = FALSE /\ disconnected = FALSE
  /\ buttonsState = {} /\ vfingerDown = FALSE
  /\ lastKey = <<>> /\ keyRepeat = 0
  /\ capture = (cfg.mouse = "relative") /\ captureKey = "none"
  /\ frameSize = 1 /\ resumeSize = 0 /\ queue = <<>>
  /\ mapperSize = 1 /\ pointers = <<>> /\ alive = TRUE
  /\ touching = {} /\ legal = TRUE /\ devKeys = {} /\ hidButtons = {}
  /\ screenOn = TRUE
  /\ touchLost = FALSE /\ keyLost = FALSE

-----------------------------------------------------------------------------
(* Messages.  A full queue refuses a message: none of these is kept over    *)
(* the limit.                                                               *)

Message(t) == [t |-> t]
Key(a, k) == [t |-> "keycode", a |-> a, key |-> k]
Touch(a, id, button, bs) ==
  [t |-> "touch", a |-> a, id |-> id, size |-> frameSize,
   button |-> button, buttons |-> bs]
Scroll == [t |-> "scroll", size |-> frameSize]
(* The second finger of a pinch or of a tilt, mirrored through the center.  *)
VirtualFinger(a) == Touch(a, "virtual", {}, {})
HidInput(bs) == [t |-> "input", buttons |-> bs]
(* A HID scroll report says that no button is pressed.                      *)
ScrollReport == HidInput({})

Room(n) == Len(queue) + n <= QueueLimit
Push(ms) ==
  queue' = queue \o SubSeq(ms, 1, IF Room(Len(ms)) THEN Len(ms)
                                  ELSE QueueLimit - Len(queue))

-----------------------------------------------------------------------------
(* History: something was lost until the user released everything, the      *)
(* queue is empty and neither side believes anything to be down.            *)

AllReleased == held' = {} /\ queue' = <<>>
TouchAfter(loss) ==
  touchLost' = /\ touchLost \/ loss
               /\ ~ /\ AllReleased
                    /\ buttonsState' = {} /\ ~vfingerDown'
                    /\ pointers' = <<>> /\ touching' = {} /\ hidButtons' = {}
KeyAfter(loss) ==
  keyLost' = /\ keyLost \/ loss
             /\ ~(AllReleased /\ devKeys' = {})

HeldButtons == held \cap Buttons
HeldFingers == held \cap Fingers
HeldKeys == held \ (Buttons \cup Fingers)

UserEvent(h) ==
  /\ events < cfg.limit
  /\ events' = events + 1
  /\ held' = h
  /\ UNCHANGED <<cfg, serverVars>>

-----------------------------------------------------------------------------
(* Keys. *)

IsShortcut(k, h) == "MOD" \in h \/ k = "MOD"

(* Recognise the second press of the same key with the same modifiers.      *)
CountRepeat(k, down, repeat, h) ==
  IF down /\ ~repeat /\ ~disconnected
  THEN /\ lastKey' = <<k, h \cap Modifiers>>
       /\ keyRepeat' = IF lastKey = lastKey' /\ keyRepeat < 2
                       THEN keyRepeat + 1
                       ELSE IF lastKey = lastKey' THEN keyRepeat ELSE 0
  ELSE UNCHANGED <<lastKey, keyRepeat>>

(* The shortcuts for the device, for a session without camera.  once: a     *)
(* first press, live: not paused.                                           *)
DeviceShortcut(k, a, once, repeat, live, shift) ==
  LET kp == cfg.keyboard
      none == <<>>
      if(cond, m) == IF cond THEN <<m>> ELSE none
  IN CASE k \in PressKeys -> if(kp /\ ~shift /\ ~repeat /\ live, Key(a, k))
       [] k \in VolumeKeys -> if(kp /\ ~shift /\ live, Key(a, k))
       [] k = "o" -> if(once /\ live, Message("power"))
       [] k \in {"c", "x"} ->
            if(kp /\ ~shift /\ once /\ live, Message("getclip"))
       [] k = "v" ->
            if(kp /\ once /\ live,
               Message(IF shift \/ cfg.legacyPaste THEN "text" ELSE "setclip"))
       [] k = "n" ->
            if(once /\ live,
               Message(IF shift THEN "collapse"
                       ELSE IF keyRepeat' = 0 THEN "notifications"
                       ELSE "settings"))
       [] k = "r" -> if(~shift /\ once /\ live, Message("rotate"))
       [] k = "k" -> none    (* only for a HID keyboard *)
       [] OTHER -> none

(* Mutant: a camera gets the shortcuts of a display. *)
DisplayShortcut(k, down, once, live, shift) ==
  DeviceShortcut(k, "down", once, ~once, live, shift)

CameraShortcut(k, down, once, live, shift) ==
  CASE k = "t" /\ once -> <<Message("torch")>>
    [] k = "down" /\ ~shift /\ down /\ live -> <<Message("zoomout")>>
    [] k = "up" /\ ~shift /\ down /\ live -> <<Message("zoomin")>>
    [] OTHER -> <<>>

(* keyboard_sdk.c: which keys become key events.  Repeats are forwarded.    *)
KeyClass == [k \in Keys |->
               IF k \in Modifiers \cup VolumeKeys \cup {"left", "right"}
               THEN "special" ELSE "alpha"]
(* Mutant: numbers and punctuation are key events in mixed mode too. *)
ConvertsMixed(class, typing, num, shift, ctrl) ==
  \/ class = "special"
  \/ class = "numpad" /\ ~num /\ ~shift
  \/ class = "alpha" /\ (typing # "text" \/ ctrl)
  \/ class \in {"numpad", "punct"} /\ typing # "text"

Convertible(class, typing, num, shift, ctrl) ==
  \/ class = "special"
  \/ class = "numpad" /\ ~num /\ ~shift
  \/ class = "alpha" /\ (typing # "text" \/ ctrl)
  \/ class \in {"numpad", "punct"} /\ typing = "raw"

ShortcutMessages(k, down, repeat, shift) ==
  LET once == down /\ ~repeat
      live == ~paused
      a == IF down THEN "down" ELSE "up"
      ignored == \/ k \in LocalKeys \/ (k \in VolumeKeys /\ shift)
                 \/ disconnected \/ ~cfg.control
  IN IF ignored THEN <<>>
     ELSE IF k = "r" /\ shift
          THEN IF once /\ live THEN <<Message("reset")>> ELSE <<>>
          ELSE IF cfg.camera
               THEN CameraShortcut(k, down, once, live, shift)
               ELSE DeviceShortcut(k, a, once, repeat, live, shift)

(* Ctrl+v sets the clipboard of the device first; if that message is        *)
(* refused, Ctrl+v is not sent.                                             *)
KeyMessages(k, down, repeat, h) ==
  LET shift == "SHIFT" \in h
      ctrl == "CTRL" \in h
      paste == cfg.autosync /\ ctrl /\ ~shift /\ k = "v" /\ down /\ ~repeat
      clipboard == IF paste THEN <<Message("setclip")>> ELSE <<>>
      key == IF Convertible(KeyClass[k], cfg.typing, FALSE, shift, ctrl)
             THEN <<Key(IF down THEN "down" ELSE "up", k)>> ELSE <<>>
  IN CASE IsShortcut(k, h) -> ShortcutMessages(k, down, repeat, shift)
       [] ~IsShortcut(k, h) /\ (~cfg.keyboard \/ paused) -> <<>>
       [] OTHER -> IF paste /\ cfg.legacyPaste THEN <<Message("text")>>
                   ELSE IF paste /\ ~Room(1) THEN <<>>
                   ELSE clipboard \o key

(* MOD+z pauses, MOD+Shift+z resumes; the frame kept during the pause is    *)
(* shown at once, even if the new state is paused again.                    *)
PauseKey(k, once, h) == IsShortcut(k, h) /\ k = "z" /\ once
SetPaused(p) ==
  /\ paused' = p
  /\ IF paused /\ resumeSize # 0
     THEN frameSize' = resumeSize /\ resumeSize' = 0
     ELSE UNCHANGED <<frameSize, resumeSize>>

(* What makes a press and its release be handled differently.               *)
KeyLoss(k, ms, h) ==
  \/ ~Room(Len(ms))
  \/ paused' # paused /\ HeldKeys \cup HeldButtons # {}
  \/ k \in {"MOD", "SHIFT"} /\ (HeldKeys \ {k}) \cup HeldButtons # {}
  \/ k = "CTRL" /\ cfg.typing = "text" /\ HeldKeys \ {k} # {}
  \/ paused

ProcessKey(k, down, repeat, h) ==
  LET ms == KeyMessages(k, down, repeat, h)
  IN /\ CountRepeat(k, down, repeat, h)
     /\ IF PauseKey(k, down /\ ~repeat, h)
        THEN SetPaused("SHIFT" \notin h)
        ELSE UNCHANGED <<paused, frameSize, resumeSize>>
     /\ Push(ms)
     /\ UNCHANGED <<disconnected, buttonsState, vfingerDown, lastPress>>
     /\ KeyAfter(KeyLoss(k, ms, h))
     /\ TouchAfter(\/ k = "SHIFT" /\ HeldButtons # {}
                   \/ paused' # paused /\ HeldButtons # {})

(* In relative mode the capture keys (here MOD) are never forwarded: pressed *)
(* and released alone, one toggles the capture.                             *)
CaptureKeyDown(k) ==
  /\ captureKey' = IF captureKey = "none" THEN k ELSE "none"
  /\ UNCHANGED capture
CaptureKeyUp(k) ==
  /\ captureKey' = "none"
  /\ capture' = IF captureKey = k THEN ~capture ELSE capture

Relative == cfg.mouse = "relative"
Captures(k, down, repeat) ==
  /\ IF down THEN CaptureKeyDown(k) ELSE CaptureKeyUp(k)
  /\ UNCHANGED <<paused, disconnected, buttonsState, vfingerDown, lastKey,
                 keyRepeat, frameSize, resumeSize, queue, lastPress>>
  /\ KeyAfter(HeldKeys \cup HeldButtons # {})
  /\ TouchAfter(HeldButtons # {})

KeyEvent(k, down, repeat, h) ==
  /\ k \in cfg.inputs \cap Keys
  /\ UserEvent(h)
  /\ IF Relative /\ k = "MOD"
     THEN Captures(k, down, repeat)
     ELSE /\ ProcessKey(k, down, repeat, h)
          /\ captureKey' = IF Relative /\ ~down THEN "none" ELSE captureKey
          /\ UNCHANGED capture

KeyPress(k) == k \notin held /\ KeyEvent(k, TRUE, FALSE, held \cup {k})
KeyRepeat(k) == k \in held \ Modifiers /\ KeyEvent(k, TRUE, TRUE, held)
KeyRelease(k) == k \in held /\ KeyEvent(k, FALSE, FALSE, held \ {k})

(* A text event typed on the computer: in mixed mode the letters are sent   *)
(* as key events only.                                                      *)
TextSends(class, typing) ==
  typing = "text" \/ (typing = "mixed" /\ class # "alpha")

TextInput(class) ==
  /\ held \cap PlainKeys # {}
  /\ UserEvent(held)
  /\ Push(IF ~cfg.keyboard \/ paused \/ disconnected \/ "MOD" \in held
              \/ ~TextSends(class, cfg.typing)
          THEN <<>> ELSE <<Message("text")>>)
  /\ UNCHANGED <<clientVars, lastPress, touchLost, keyLost>>

-----------------------------------------------------------------------------
(* The mouse.  Shift selects the bindings when the event comes, Ctrl or     *)
(* Shift with the left button starts the virtual finger.                    *)

(* The default bindings of a relative mouse are reversed.                   *)
Binding(b) == IF ("SHIFT" \in held) = Relative THEN Primary[b] ELSE Secondary[b]

BoundMessages(binding, a) ==
  CASE binding = "back" /\ cfg.keyboard ->
         <<[t |-> "back", a |-> IF a = "DOWN" THEN "down" ELSE "up"]>>
    [] binding = "home" /\ cfg.keyboard ->
         <<Key(IF a = "DOWN" THEN "down" ELSE "up", "h")>>
    [] binding = "notifications" /\ a = "DOWN" -> <<Message("notifications")>>
    [] OTHER -> <<>>

(* A second click outside of the content resizes the window, it is not sent. *)
OnBorder(b, clicks, outside) ==
  ~Relative /\ b = Left /\ clicks = 2 /\ outside

ChangesVfinger(b, down) ==
  /\ b = Left
  /\ IF down THEN ~vfingerDown /\ held \cap {"SHIFT", "CTRL"} # {}
             ELSE vfingerDown

(* The click, then the virtual finger mirrored through the center.          *)
ClickMessages(b, a, bs) ==
  LET change == ChangesVfinger(b, a = "DOWN")
      id == IF vfingerDown \/ change THEN "generic" ELSE "mouse"
  IN IF Relative THEN <<HidInput(bs)>>
     ELSE <<Touch(a, id, {b}, bs)>>
            \o (IF change THEN <<VirtualFinger(a)>> ELSE <<>>)

Released(b, down) == IF down THEN buttonsState ELSE buttonsState \ {b}

(* What makes a click and its release be handled differently.               *)
ClickLoss(b, down, outside, ms) ==
  \/ ~Room(Len(ms)) \/ paused \/ disconnected
  \/ vfingerDown /\ b # Left
  \/ ChangesVfinger(b, down) /\ HeldButtons \ {b} # {}
  \/ ~down /\ lastPress.clicks = 2 /\ lastPress.outside # outside
  \/ HeldFingers # {}

ProcessButton(b, down, clicks, outside) ==
  LET a == IF down THEN "DOWN" ELSE "UP"
      bound == cfg.control /\ ~paused /\ Binding(b) # "click"
      border == OnBorder(b, clicks, outside)
      bs == IF down THEN buttonsState \cup {b} ELSE buttonsState \ {b}
      ms == IF bound THEN BoundMessages(Binding(b), a)
            ELSE IF border \/ cfg.mouse = "none" \/ paused THEN <<>>
            ELSE ClickMessages(b, a, bs)
      sent == ~bound /\ ~border /\ cfg.mouse # "none" /\ ~paused
  IN /\ IF cfg.camera \/ disconnected
        THEN UNCHANGED <<buttonsState, vfingerDown, queue>>
        ELSE /\ Push(ms)
             /\ buttonsState' = IF sent THEN bs ELSE Released(b, down)
             (* the state of the virtual finger follows its message *)
             /\ vfingerDown' = IF sent /\ ~Relative /\ ChangesVfinger(b, down)
                                    /\ Room(Len(ms))
                               THEN down ELSE vfingerDown
     /\ TouchAfter(ClickLoss(b, down, outside, ms))
     /\ KeyAfter(~Room(Len(ms)) \/ paused \/ disconnected)

(* In relative mode an uncaptured mouse is consumed; the release captures.   *)
ButtonEvent(b, down, clicks, outside, h) ==
  /\ b \in cfg.inputs \cap Buttons
  /\ UserEvent(h)
  /\ IF Relative /\ ~capture
     THEN /\ capture' = ~down
          /\ UNCHANGED <<buttonsState, vfingerDown, queue>>
          /\ TouchAfter(TRUE) /\ KeyAfter(TRUE)
     ELSE /\ ProcessButton(b, down, clicks, outside)
          /\ UNCHANGED capture
  /\ UNCHANGED <<paused, disconnected, lastKey, keyRepeat, captureKey,
                 frameSize, resumeSize>>

(* The clicks of a release are those of its press.                          *)
ButtonPress(b, clicks, outside) ==
  /\ b \notin held
  /\ clicks = 2 \/ outside => b = Left /\ "double-click" \in cfg.inputs
  /\ ButtonEvent(b, TRUE, clicks, outside, held \cup {b})
  /\ lastPress' = IF b = Left THEN [clicks |-> clicks, outside |-> outside]
                              ELSE lastPress
ButtonRelease(b, outside) ==
  /\ b \in held
  /\ outside => b = Left /\ "double-click" \in cfg.inputs
  /\ ButtonEvent(b, FALSE, IF b = Left THEN lastPress.clicks ELSE 1, outside,
                 held \ {b})
  /\ UNCHANGED lastPress

Silent == cfg.camera \/ cfg.mouse = "none" \/ paused \/ disconnected

MotionMessages ==
  IF Relative THEN <<HidInput(buttonsState)>>
  ELSE (IF buttonsState = {} /\ ~cfg.hover THEN <<>>
        ELSE <<Touch(IF buttonsState = {} THEN "HOVER" ELSE "MOVE",
                     IF vfingerDown THEN "generic" ELSE "mouse",
                     {}, buttonsState)>>)
       \o (IF vfingerDown THEN <<VirtualFinger("MOVE")>> ELSE <<>>)

Motion ==
  /\ Buttons \cap cfg.inputs # {}
  /\ UserEvent(held)
  /\ Push(IF Silent \/ (Relative /\ ~capture) THEN <<>> ELSE MotionMessages)
  /\ UNCHANGED <<clientVars, lastPress>>
  /\ TouchAfter(HeldFingers # {}) /\ KeyAfter(FALSE)

(* The wheel tests the keyboard, not the mouse, before it uses the mouse:   *)
(* with no mouse the access is undefined, and the process ends.             *)
WheelCrash ==
  /\ Buttons \cap cfg.inputs # {}
  /\ cfg.keyboard /\ cfg.mouse = "none" /\ ~paused /\ ~disconnected
  /\ events < cfg.limit
  /\ events' = cfg.limit
  /\ disconnected' = TRUE /\ alive' = FALSE
  /\ touchLost' = TRUE /\ keyLost' = TRUE
  /\ UNCHANGED <<cfg, held, lastPress, paused, buttonsState, vfingerDown,
                 lastKey, keyRepeat, capture, captureKey, frameSize, resumeSize,
                 queue, mapperSize, pointers, touching, legal, devKeys,
                 hidButtons, screenOn>>

Wheel ==
  /\ Buttons \cap cfg.inputs # {}
  /\ cfg.keyboard => cfg.mouse # "none" \/ paused \/ disconnected
  /\ UserEvent(held)
  /\ LET consumed == cfg.camera \/ ~cfg.keyboard \/ paused \/ disconnected
                       \/ (Relative /\ ~capture)
     IN /\ Push(IF consumed THEN <<>>
                ELSE IF Relative THEN <<ScrollReport>> ELSE <<Scroll>>)
  /\ UNCHANGED <<clientVars, lastPress>>
  /\ TouchAfter(Relative /\ HeldButtons # {}) /\ KeyAfter(FALSE)

(* A touch screen of the computer.                                          *)
Finger(f, a, h) ==
  /\ f \in cfg.inputs \cap Fingers
  /\ UserEvent(h)
  /\ LET ms == IF Silent \/ Relative THEN <<>> ELSE <<Touch(a, f, {}, {})>>
     IN /\ Push(ms)
        /\ UNCHANGED <<clientVars, lastPress>>
        /\ TouchAfter(paused \/ disconnected \/ ~Room(Len(ms))
                        \/ HeldButtons # {})
  /\ KeyAfter(FALSE)
FingerDown(f) == f \notin held /\ Finger(f, "DOWN", held \cup {f})
FingerUp(f) == f \in held /\ Finger(f, "UP", held \ {f})
FingerMotion(f) == f \in held /\ Finger(f, "MOVE", held)

FocusLost ==
  /\ Relative
  /\ UserEvent(held)
  /\ capture' = FALSE
  /\ UNCHANGED <<paused, disconnected, buttonsState, vfingerDown, lastKey,
                 keyRepeat, captureKey, frameSize, resumeSize, queue, lastPress>>
  /\ TouchAfter(HeldButtons # {}) /\ KeyAfter(FALSE)

-----------------------------------------------------------------------------
(* The device. *)

(* A rotation: the server maps the positions of the new size only.          *)
Rotate ==
  /\ "rotation" \in cfg.inputs
  /\ mapperSize = 1
  /\ mapperSize' = 2
  /\ UNCHANGED <<userVars, clientVars, queue, pointers, alive, touching, legal,
                 devKeys, hidButtons, screenOn, touchLost, keyLost>>

(* The first frame of the new size.  It is kept during a pause.             *)
NewFrameSize ==
  /\ mapperSize \notin {frameSize, resumeSize}
  /\ IF paused THEN resumeSize' = mapperSize /\ UNCHANGED frameSize
               ELSE frameSize' = mapperSize /\ UNCHANGED resumeSize
  /\ UNCHANGED <<userVars, paused, disconnected, buttonsState, vfingerDown,
                 lastKey, keyRepeat, capture, captureKey, queue, serverVars,
                 touchLost, keyLost>>

(* The socket is closed: the server stops, the client only shows the window. *)
Disconnected ==
  /\ ~disconnected
  /\ events = cfg.limit - 1
  /\ disconnected' = TRUE
  /\ alive' = FALSE
  /\ touchLost' = TRUE /\ keyLost' = TRUE
  /\ UNCHANGED <<userVars, paused, buttonsState, vfingerDown, lastKey,
                 keyRepeat, capture, captureKey, frameSize, resumeSize, queue,
                 mapperSize, pointers, touching, legal, devKeys, hidButtons,
                 screenOn>>

-----------------------------------------------------------------------------
(* Android.  An event carries every pointer of the list; ids are the local  *)
(* ids, i the one that acts.                                                *)

Consistent(a, ids, i) ==
  CASE a = "DOWN"         -> touching = {} /\ ids = {i}
    [] a = "POINTER_DOWN" -> i \notin touching /\ ids = touching \cup {i}
    [] a = "UP"           -> touching = {i} /\ ids = {i}
    [] a = "POINTER_UP"   -> i \in touching /\ ids = touching
    [] a = "HOVER"        -> touching = {}
    [] OTHER              -> touching # {} /\ ids = touching

TouchingAfter(a, i) ==
  CASE a \in {"DOWN", "POINTER_DOWN"} -> touching \cup {i}
    [] a \in {"UP", "POINTER_UP"}     -> touching \ {i}
    [] OTHER                          -> touching

(* injectTouch.  Only the mouse pointer with another button than the        *)
(* primary one, or hovering, is a mouse for Android.                        *)
IsMouse(m) ==
  m.id = "mouse" /\ (m.a = "HOVER" \/ (m.button \cup m.buttons) \ {Left} # {})

(* Mutant: two pointers are not many. *)
MultiActionLate(a, count) ==
  CASE count > 2 /\ a = "UP"   -> "POINTER_UP"
    [] count > 2 /\ a = "DOWN" -> "POINTER_DOWN"
    [] OTHER                   -> a

MultiAction(a, count) ==
  CASE count > 1 /\ a = "UP"   -> "POINTER_UP"
    [] count > 1 /\ a = "DOWN" -> "POINTER_DOWN"
    [] OTHER                   -> a

(* A mouse also reports its buttons: the press of the first one comes with  *)
(* DOWN, the release of the last one with UP.                               *)
Injected(m, action) ==
  IF IsMouse(m) /\ action = "DOWN"
  THEN IF m.button = m.buttons THEN "DOWN" ELSE "BUTTON_PRESS"
  ELSE IF IsMouse(m) /\ action = "UP"
  THEN IF m.buttons = {} THEN "UP" ELSE "BUTTON_RELEASE"
  ELSE action

(* Mutant: the pointer of the mouse goes up with UP only. *)
PointerUpOnUp(m) == m.a = "UP"

PointerUp(m) == IF IsMouse(m) THEN m.buttons = {} ELSE m.a = "UP"

InjectTouch(m) ==
  LET ps == WithPointer(pointers, m.id)
      index == IndexOf(ps, m.id)
      action == Injected(m, MultiAction(m.a, Len(ps)))
      local == ps[index].local
  IN IF m.size # mapperSize \/ index = 0
     THEN UNCHANGED <<pointers, touching, legal>>
     ELSE /\ pointers' = IF PointerUp(m) THEN CleanUp(ps, index) ELSE ps
          /\ touching' = TouchingAfter(action, local)
          /\ legal' = (legal /\ (touchLost \/
                         Consistent(action, UsedLocalIds(ps), local)))

(* A key event.  POWER turns the screen on or off when it goes down.        *)
InjectKey(a, k) ==
  /\ devKeys' = IF a = "down" THEN devKeys \cup {k} ELSE devKeys \ {k}
  /\ screenOn' = IF k = "p" /\ a = "down" THEN ~screenOn ELSE screenOn

PressBackOrTurnScreenOn(a) ==
  IF screenOn THEN InjectKey(a, "b")
  ELSE /\ screenOn' = (a = "down")
       /\ UNCHANGED devKeys

DisplayTypes == {"keycode", "text", "touch", "scroll", "back", "notifications",
                 "settings", "collapse", "getclip", "setclip", "power",
                 "rotate", "create", "input", "destroy", "hardkeyboard",
                 "startapp", "resize", "scan"}
CameraTypes == {"torch", "zoomin", "zoomout"}

(* A message that is not for this source, or that is not understood, ends   *)
(* the control thread.                                                      *)
Handled(t) ==
  t \in {"reset"} \cup (IF cfg.camera THEN CameraTypes ELSE DisplayTypes)

(* What the server ignores, or what happens between the press and the       *)
(* release of BACK.                                                         *)
ServerTouchLoss(m) ==
  m.t = "touch" /\ (m.size # mapperSize
                      \/ IndexOf(WithPointer(pointers, m.id), m.id) = 0)

HandleEvent ==
  /\ alive /\ queue # <<>>
  /\ LET m == Head(queue)
         t == ServerReads(m.t)
     IN /\ alive' = Handled(t)
        /\ IF t = "touch" THEN InjectTouch(m)
           ELSE UNCHANGED <<pointers, touching, legal>>
        /\ hidButtons' = IF t = "input" THEN m.buttons ELSE hidButtons
        /\ CASE t = "keycode" -> InjectKey(m.a, m.key)
             [] t = "back" -> PressBackOrTurnScreenOn(m.a)
             [] OTHER -> UNCHANGED <<devKeys, screenOn>>
        /\ queue' = Tail(queue)
        /\ UNCHANGED <<userVars, clientVars, mapperSize>>
        /\ TouchAfter(ServerTouchLoss(m))
        /\ KeyAfter(screenOn' # screenOn)

-----------------------------------------------------------------------------
InputNext ==
  \/ \E k \in Keys : KeyPress(k) \/ KeyRepeat(k) \/ KeyRelease(k)
  \/ \E class \in {"alpha", "punct"} : TextInput(class)
  \/ \E b \in Buttons, outside \in BOOLEAN :
       \/ \E clicks \in {1, 2} : ButtonPress(b, clicks, outside)
       \/ ButtonRelease(b, outside)
  \/ Motion
  \/ Wheel
  \/ WheelCrash
  \/ \E f \in Fingers : FingerDown(f) \/ FingerUp(f) \/ FingerMotion(f)
  \/ FocusLost
  \/ Rotate
  \/ NewFrameSize
  \/ Disconnected
  \/ HandleEvent

InputSpec == InputInit /\ [][InputNext]_inputVars /\ WF_inputVars(HandleEvent)

-----------------------------------------------------------------------------
(* Properties. *)

(* The list of pointers of the server never holds two pointers of the same  *)
(* client id or of the same local id, however they come and go.             *)
PointersDistinct == WellFormed(pointers)

(* Type invariant of the relay: the state of input_manager.c, of the queue  *)
(* and of Controller.java.                                                  *)
InputTypeOK ==
  /\ cfg \in Configs /\ events \in 0 .. cfg.limit
  /\ held \subseteq Keys \cup Buttons \cup Fingers
  /\ {paused, disconnected, vfingerDown, capture, alive, legal, screenOn,
      touchLost, keyLost} \subseteq BOOLEAN
  /\ buttonsState \subseteq Buttons
  /\ frameSize \in Sizes /\ mapperSize \in Sizes /\ resumeSize \in {0} \cup Sizes
  /\ Len(queue) <= QueueLimit
  /\ touching \subseteq LocalIds /\ devKeys \subseteq Keys
  /\ hidButtons \subseteq Buttons
  /\ PointersDistinct

(* Android receives a consistent stream of motion events (a pointer goes    *)
(* down before it moves, DOWN comes first and UP last, every event carries  *)
(* all the pointers) unless a press or a release was lost: refused by the   *)
(* full queue, mapped to an old size, made during a pause, with a binding   *)
(* that Shift changed, released on the other side of the border after a     *)
(* double-click, mixed with the virtual finger or with a touch screen.      *)
(* The types are checked with it.                                           *)
StreamConsistent == InputTypeOK /\ legal

(* Under the same conditions nothing stays pressed on the device once the   *)
(* user holds nothing and the queue is empty: no pointer, no button of the  *)
(* UHID mouse, no key.                                                      *)
NothingStuck ==
  held = {} /\ queue = <<>> =>
    /\ ~touchLost => pointers = <<>> /\ touching = {} /\ hidButtons = {}
    /\ ~keyLost => devKeys = {}

(* No message that the client sends ends the control thread of the server:  *)
(* the guards of the input manager match the switch of Controller.java, for *)
(* a display and for a camera, and both sides agree on the wire.            *)
ServerAccepts == alive \/ disconnected

(* Each character typed on the computer is typed once on the device: as a   *)
(* key event or as a text event, never both, never none (keyboard_sdk.c).   *)
SdlText(class, num, shift, ctrl) ==
  /\ ~ctrl /\ ~(num /\ shift)
  /\ class \in {"alpha", "punct"} \/ (class = "numpad" /\ (num \/ shift))
TypedOnce ==
  \A class \in {"alpha", "punct", "numpad"}, num, shift, ctrl \in BOOLEAN :
    SdlText(class, num, shift, ctrl) =>
      (Convertible(class, cfg.typing, num, shift, ctrl)
         # TextSends(class, cfg.typing))
=============================================================================
