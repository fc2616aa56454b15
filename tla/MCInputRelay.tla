---------------------------- MODULE MCInputRelay ----------------------------
(* Instances of InputRelay: each setting is a way to use the window.        *)
EXTENDS InputRelay

Session(mouse, typing, limit, inputs) ==
  [camera |-> FALSE, control |-> TRUE, keyboard |-> TRUE, mouse |-> mouse,
   hover |-> TRUE, legacyPaste |-> FALSE, autosync |-> TRUE, typing |-> typing,
   limit |-> limit, inputs |-> inputs]

MCConfigs ==
  { Session("sdk", "mixed", 6, Buttons \cup {"SHIFT", "CTRL"}),
    Session("sdk", "mixed", 5, {Left, "CTRL", "double-click", "rotation"}),
    Session("sdk", "mixed", 6, {Left} \cup Fingers),
    [Session("sdk", "mixed", 6, {Left, "MOD", "z", "SHIFT", "rotation"}) EXCEPT !.hover = FALSE],
    Session("sdk", "mixed", 5, {"MOD", "SHIFT", "h", "p", "n", "a"}),
    Session("sdk", "text", 5, {"MOD", "CTRL", "up", "a", "v", "o"}),
    [Session("sdk", "raw", 5, {"right button", "MOD", "r", "v", "c"})
       EXCEPT !.legacyPaste = TRUE],
    Session("relative", "raw", 6, Buttons \cup {"MOD", "a"}),
    Session("none", "mixed", 6, {Left, "a", "SHIFT"}),
    [Session("none", "mixed", 6, {"MOD", "SHIFT", "t", "up", "down", "r", "o", "h"})
       EXCEPT !.camera = TRUE, !.keyboard = FALSE,
                !.autosync = FALSE],
    [Session("none", "mixed", 6, {"MOD", "z", "h", Left})
       EXCEPT !.control = FALSE, !.keyboard = FALSE] }

MCPrimary == [b \in Buttons |-> IF b = Left THEN "click" ELSE "back"]
MCSecondary == [b \in Buttons |-> "click"]
=============================================================================
