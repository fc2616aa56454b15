---------------------------- MODULE MCGamepadUhid ----------------------------
(* Instance of GamepadUhid for TLC: the display sizes are left to           *)
(* MCController.                                                           *)
EXTENDS GamepadUhid

Symmetry == Permutations(Pads)
===============================================================================
