------------------------------- MODULE MCAudio -------------------------------
(* Instance of AudioRegulator for TLC. *)
EXTENDS AudioRegulator
===============================================================================
