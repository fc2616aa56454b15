------------------------------ MODULE CleanUp -------------------------------
(***************************************************************************)
(* What scrcpy changes on the device and must give back (CleanUp.java):    *)
(* the settings asked by the options, and the power of the display, which  *)
(* the controller changes at any time (Controller.java).  A thread of the  *)
(* server changes the settings, remembers what they were, starts a child   *)
(* process and tells it by a pipe whether the display must be restored.    *)
(* The child restores everything when the pipe is closed, hence when the   *)
(* server is dead, by itself or killed.                                    *)
(***************************************************************************)
EXTENDS ServerProcess

CONSTANT Settings   (* show_touches, stay_on_while_plugged_in, ...         *)

VARIABLES
  (* the device *)
  userValue,       (* the value of each setting before scrcpy              *)
  setting,         (* its value                                            *)
  screenOn,        (* the device is awake                                  *)
  powered,         (* the power of the panel                               *)
  (* the cleanup thread *)
  cleaner,         (* where it is                                          *)
  toPut,           (* the settings it still has to change                  *)
  remembered,      (* the settings to restore                              *)
  interrupted, pending,
  writing,         (* what it takes from pending                           *)
  spawnFailed,     (* the child could not be started                       *)
  (* its child *)
  pipe, child, restorePower,
  (* the control thread *)
  requests,        (* messages about the power handled so far              *)
  keepOff,         (* keepDisplayPowerOff                                  *)
  scheduled,       (* calls of scheduleDisplayPowerOff() to come           *)
  lateOff          (* history: one came after the display was turned on    *)

deviceVars == <<userValue, setting, screenOn, powered>>
cleanerVars == <<cleaner, toPut, remembered, interrupted, pending, writing,
                 spawnFailed>>
childVars == <<pipe, child, restorePower>>
powerVars == <<requests, keepOff, scheduled, lateOff>>
cleanUpVars == <<deviceVars, cleanerVars, childVars, powerVars>>

Wanted == 1     (* the value that scrcpy puts                               *)

CleanUpInit ==
  /\ userValue \in [cfg.settings -> {0, Wanted}] /\ setting = userValue
  /\ screenOn = TRUE /\ powered = TRUE
  /\ cleaner = "off" /\ toPut = cfg.settings /\ remembered = {}
  /\ interrupted = FALSE /\ pending = {} /\ writing = {}
  /\ spawnFailed = FALSE
  /\ pipe = <<>> /\ child = "none" /\ restorePower = FALSE
  /\ requests = 0 /\ keepOff = FALSE /\ scheduled = 0 /\ lateOff = FALSE

-----------------------------------------------------------------------------
(* The cleanup thread: runCleanUp() then run().                             *)

(* Settings.getAndPutValue(), which may throw.                              *)
Put(s) ==
  /\ Alive /\ cleaner = "putting" /\ s \in toPut
  /\ toPut' = toPut \ {s}
  /\ \/ /\ setting' = [setting EXCEPT ![s] = Wanted]
        /\ remembered' = IF setting[s] # Wanted THEN remembered \cup {s}
                         ELSE remembered
     \/ UNCHANGED <<setting, remembered>>
  /\ UNCHANGED <<userValue, screenOn, powered, cleaner, interrupted, pending,
                 writing, spawnFailed, childVars, powerVars>>

StartChild ==
  /\ Alive /\ cleaner = "putting" /\ toPut = {}
  /\ \/ cleaner' = "looping" /\ child' = "reading" /\ UNCHANGED spawnFailed
     \/ cleaner' = "ended" /\ spawnFailed' = TRUE /\ UNCHANGED child
  /\ UNCHANGED <<deviceVars, toPut, remembered, interrupted, pending,
                 writing, pipe, restorePower, powerVars>>

(* A change that is pending when the thread is interrupted is not written.  *)
TakeChange ==
  /\ Alive /\ cleaner = "looping" /\ (interrupted \/ pending # {})
  /\ IF interrupted
     THEN cleaner' = "ended" /\ UNCHANGED <<pending, writing>>
     ELSE /\ cleaner' = "writing"
          /\ writing' = pending /\ pending' = {}
  /\ UNCHANGED <<deviceVars, toPut, remembered, interrupted, spawnFailed,
                 childVars, powerVars>>

WriteChange ==
  /\ Alive /\ cleaner = "writing"
  /\ cleaner' = "looping"
  /\ \E restore \in writing : pipe' = Append(pipe, restore)
  /\ writing' = {}
  /\ UNCHANGED <<deviceVars, toPut, remembered, interrupted, pending,
                 spawnFailed, child, restorePower, powerVars>>

Cleaner == (\E s \in toPut : Put(s)) \/ StartChild \/ TakeChange \/ WriteChange

-----------------------------------------------------------------------------
(* The child: main().                                                       *)

ReadChange ==
  /\ child = "reading" /\ pipe # <<>>
  /\ restorePower' = Head(pipe) /\ pipe' = Tail(pipe)
  /\ UNCHANGED <<deviceVars, cleanerVars, child, powerVars>>

Restore ==
  /\ child = "reading" /\ pipe = <<>> /\ ~Alive
  /\ child' = "done"
  /\ setting' = [s \in cfg.settings |-> IF s \in remembered THEN userValue[s]
                                        ELSE setting[s]]
  /\ screenOn' = (screenOn /\ ~cfg.powerOffOnClose)
  /\ powered' = (powered \/ (screenOn /\ ~cfg.powerOffOnClose /\ restorePower))
  /\ UNCHANGED <<userValue, cleanerVars, pipe, restorePower, powerVars>>

Child == ReadChange \/ Restore

-----------------------------------------------------------------------------
(* The power of the display, seen from the control thread.                  *)

Request ==
  /\ requests < cfg.requests
  /\ requests' = requests + 1
  /\ UNCHANGED <<userValue, setting, cleaner, toPut, remembered, interrupted,
                 writing, spawnFailed, childVars>>

(* Variant: the display is restored when it is turned on.                   *)
MustRestoreInverted(on) == on
MustRestore(on) == ~on

(* setDisplayPower(), which may fail.                                       *)
SetDisplayPower(on) ==
  /\ Request
  /\ \/ /\ powered' = on
        /\ keepOff' = ~on
        /\ pending' = IF cfg.cleanup THEN {MustRestore(on)} ELSE pending
        /\ lateOff' = FALSE
     \/ UNCHANGED <<powered, keepOff, pending, lateOff>>
  /\ UNCHANGED <<screenOn, scheduled>>

(* The POWER key wakes the device up or makes it sleep.  It also powers the *)
(* panel of a device that wakes up, so the panel is to be powered off again *)
(* 200 ms later.                                                            *)
PowerKey ==
  /\ Request
  /\ screenOn' = ~screenOn
  /\ powered' = (powered \/ screenOn')
  /\ scheduled' = IF keepOff THEN scheduled + 1 ELSE scheduled
  /\ UNCHANGED <<pending, keepOff, lateOff>>

InjectPowerKey == PowerKey           (* injectKeycode()                     *)
TurnScreenOn == ~screenOn /\ PowerKey  (* pressBackOrTurnScreenOn()         *)

(* Nothing cancels it, and the cleanup is not told.                         *)
ForceDisplayOff ==
  /\ scheduled > 0
  /\ scheduled' = scheduled - 1
  /\ powered' = FALSE
  /\ lateOff' = ~keepOff
  /\ UNCHANGED <<userValue, setting, screenOn, cleanerVars, childVars,
                 requests, keepOff>>

(* The power button of the device: a panel that wakes up is powered.        *)
PowerButton ==
  /\ screenOn' = ~screenOn
  /\ powered' = (powered \/ screenOn')
  /\ UNCHANGED <<userValue, setting, cleanerVars, childVars, powerVars>>

Power ==
  \/ \E on \in BOOLEAN : SetDisplayPower(on)
  \/ InjectPowerKey \/ TurnScreenOn

-----------------------------------------------------------------------------
(* Types. *)
CleanUpTypeOK ==
  /\ userValue \in [cfg.settings -> {0, Wanted}]
  /\ setting \in [cfg.settings -> {0, Wanted}]
  /\ {screenOn, powered, interrupted, spawnFailed, restorePower, keepOff,
      lateOff} \subseteq BOOLEAN
  /\ cleaner \in {"off", "putting", "looping", "writing", "ended"}
  /\ toPut \subseteq cfg.settings /\ remembered \subseteq cfg.settings \ toPut
  /\ Cardinality(pending) <= 1 /\ Cardinality(writing) <= 1
  /\ pipe \in Seq(BOOLEAN) /\ child \in {"none", "reading", "done"}
  /\ requests \in 0 .. cfg.requests /\ scheduled \in 0 .. requests

(* The comment of CleanUp.java promises to restore the state "even if the   *)
(* main process is killed".  Once the server and the child are gone, every  *)
(* setting is back.  The exceptions are real: the child does not exist      *)
(* while the settings are being changed, so nothing restores them if the    *)
(* server is killed or fails meanwhile, nor if the child cannot be started. *)
SettingsRestored(joined) ==
  process = "dead" /\ child # "reading" =>
    \/ setting = userValue
    \/ child = "none" /\ (~joined \/ spawnFailed)

(* An awake device has its panel powered again, unless the request to turn  *)
(* it off was still waiting to be written when the thread was interrupted   *)
(* or killed, or the scheduled call came after the display was turned on.   *)
DisplayRestored ==
  child = "done" /\ screenOn /\ ~cfg.powerOffOnClose =>
    powered \/ TRUE \in pending \cup writing \/ lateOff
=============================================================================
