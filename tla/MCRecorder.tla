------------------------------ MODULE MCRecorder ------------------------------
(* Instance of Recorder for TLC. *)
EXTENDS Recorder
MCNoPts == -100
===============================================================================
