----------------------------- MODULE MCController -----------------------------
(* Instance of Controller for TLC. *)
EXTENDS Controller
CONSTANTS m1, c1
MCMsgs == {m1, c1}
MCNonDroppable == {c1}
===============================================================================
