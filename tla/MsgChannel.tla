------------------------------ MODULE MsgChannel ------------------------------
(***************************************************************************)
(* What a controller promises to its users, without threads, locks or      *)
(* condition variables: a FIFO of accepted control messages beside one     *)
(* overwritable slot that holds the last display size requested.  The slot *)
(* is served before the FIFO.  Once the connection is lost the message     *)
(* that was being written may be lost too, and nothing is delivered any    *)
(* more.                                                                   *)
(***************************************************************************)
EXTENDS Naturals, Sequences

CONSTANTS Msg,     (* the messages a user may push                         *)
          Size,    (* the display sizes a user may request                 *)
          NoSize   (* "no size requested"                                  *)

VARIABLES pending, (* accepted and not delivered, oldest first             *)
          slot,    (* the size requested and not delivered                 *)
          out,     (* delivered and not consumed by the device             *)
          open     (* FALSE once the connection is lost or stopped         *)

vars == <<pending, slot, out, open>>

Init ==
  /\ pending = <<>>
  /\ slot = NoSize
  /\ out = <<>>
  /\ open = TRUE

(* A message is accepted at the end of the FIFO, even after the close: it   *)
(* is then never delivered.                                                *)
Accept(m) ==
  /\ pending' = Append(pending, m)
  /\ UNCHANGED <<slot, out, open>>

(* A size replaces the size that was not delivered yet. *)
Request(s) ==
  /\ slot' = s
  /\ UNCHANGED <<pending, out, open>>

DeliverSize ==
  /\ open
  /\ slot # NoSize
  /\ out' = Append(out, slot)
  /\ slot' = NoSize
  /\ UNCHANGED <<pending, open>>

DeliverMsg ==
  /\ open
  /\ slot = NoSize
  /\ pending # <<>>
  /\ out' = Append(out, Head(pending))
  /\ pending' = Tail(pending)
  /\ UNCHANGED <<slot, open>>

(* The device consumes what was delivered, in order. *)
Consume ==
  /\ out # <<>>
  /\ out' = Tail(out)
  /\ UNCHANGED <<pending, slot, open>>

Close ==
  /\ open
  /\ open' = FALSE
  /\ UNCHANGED <<pending, slot, out>>

(* The connection breaks: the element being written is lost. *)
Break ==
  /\ out # <<>>
  /\ out' = SubSeq(out, 1, Len(out) - 1)
  /\ open' = FALSE
  /\ UNCHANGED <<pending, slot>>

(* The users are gone: what was not delivered is freed. *)
Discard ==
  /\ ~open
  /\ pending' = <<>>
  /\ UNCHANGED <<slot, out, open>>

Next ==
  \/ \E m \in Msg : Accept(m)
  \/ \E s \in Size : Request(s)
  \/ DeliverSize
  \/ DeliverMsg
  \/ Consume
  \/ Close
  \/ Break
  \/ Discard

Spec == Init /\ [][Next]_vars
===============================================================================
