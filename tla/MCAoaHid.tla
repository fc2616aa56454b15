------------------------------ MODULE MCAoaHid ------------------------------
(***************************************************************************)
(* Small sessions: a keyboard with its clipboard, all the devices without, *)
(* and OTG.                                                                *)
(***************************************************************************)
EXTENDS AoaHid

MCSession(mode, devices, autosync, locks, limit) ==
  [mode |-> mode, devices |-> devices, autosync |-> autosync,
   locks |-> locks, events |-> limit]

MCConfigs ==
  {MCSession("mirror", {"keyboard"}, TRUE, FALSE, 3),
   MCSession("mirror", {"keyboard"}, FALSE, TRUE, 3),
   MCSession("mirror", {"mouse", "gamepad"}, FALSE, FALSE, 4),
   MCSession("otg", {"keyboard", "gamepad"}, FALSE, TRUE, 3),
   MCSession("otg", {"gamepad"}, FALSE, FALSE, 4)}

=============================================================================
