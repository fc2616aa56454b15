--------------------------- MODULE ServerProcess ----------------------------
(***************************************************************************)
(* What the parts of the process of the server share.                      *)
(***************************************************************************)
EXTENDS Naturals, Sequences, FiniteSets

VARIABLES
  cfg,       (* the options of the session                                 *)
  process,   (* "running" or "dead"                                        *)
  link       (* the sockets: "none", "up", "closed" by the client, or      *)
             (* "shut" by the server                                       *)

Alive == process = "running"
=============================================================================
