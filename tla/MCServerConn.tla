----------------------------- MODULE MCServerConn -----------------------------
(* Instance of ServerConn for TLC. *)
EXTENDS ServerConn
===============================================================================
