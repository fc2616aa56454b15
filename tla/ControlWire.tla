----------------------------- MODULE ControlWire -----------------------------
(***************************************************************************)
(* The control protocol on the wire, written twice: the client numbers the *)
(* messages by the order of an enum and writes their fields                *)
(* (control_msg.c), the server numbers them by constants and reads their   *)
(* fields (ControlMessage.java, ControlMessageReader.java).  A field is     *)
(* its width in bytes; text and data are a prefix width followed by "bytes".*)
(* There is no framing: one width that differs shifts every later message.  *)
(***************************************************************************)
EXTENDS Integers, Sequences

(* The position in the enum, from 0, is the number written on the wire. *)
ClientTypes ==
  << "keycode", "text", "touch", "scroll", "back", "notifications", "settings",
     "collapse", "getclip", "setclip", "power", "rotate", "create", "input",
     "destroy", "hardkeyboard", "startapp", "reset", "torch", "zoomin",
     "zoomout", "resize", "scan" >>

ServerTypes ==
  [keycode |-> 0, text |-> 1, touch |-> 2, scroll |-> 3, back |-> 4,
   notifications |-> 5, settings |-> 6, collapse |-> 7, getclip |-> 8,
   setclip |-> 9, power |-> 10, rotate |-> 11, create |-> 12, input |-> 13,
   destroy |-> 14, hardkeyboard |-> 15, startapp |-> 16, reset |-> 17,
   torch |-> 18, zoomin |-> 19, zoomout |-> 20, resize |-> 21, scan |-> 22]

(* x and y on 4 bytes, the width and the height of the screen on 2. *)
ClientPosition == <<4, 4, 2, 2>>
ClientString == <<4, "bytes">>
ClientTinyString == <<1, "bytes">>

ClientLayout(t) ==
  CASE t = "keycode"  -> <<1, 4, 4, 4>>
    [] t = "text"     -> ClientString
    [] t = "touch"    -> <<1, 8>> \o ClientPosition \o <<2, 4, 4>>
    [] t = "scroll"   -> ClientPosition \o <<2, 2, 4>>
    [] t \in {"back", "getclip", "power", "torch"} -> <<1>>
    [] t = "setclip"  -> <<8, 1>> \o ClientString
    [] t = "create"   -> <<2, 2, 2>> \o ClientTinyString \o <<2, "bytes">>
    [] t = "input"    -> <<2, 2, "bytes">>
    [] t = "destroy"  -> <<2>>
    [] t = "startapp" -> ClientTinyString
    [] t = "resize"   -> <<2, 2>>
    [] t = "scan"     -> ClientString
    [] OTHER          -> <<>>

Bytes(width) == <<width, "bytes">>
ServerPosition == <<4, 4, 2, 2>>

ServerLayout(t) ==
  CASE t = "keycode"  -> <<1, 4, 4, 4>>
    [] t \in {"text", "scan"} -> Bytes(4)
    [] t = "touch"    -> <<1, 8>> \o ServerPosition \o <<2, 4, 4>>
    [] t = "scroll"   -> ServerPosition \o <<2, 2, 4>>
    [] t \in {"back", "getclip", "power", "torch"} -> <<1>>
    [] t = "setclip"  -> <<8, 1>> \o Bytes(4)
    [] t = "create"   -> <<2, 2, 2>> \o Bytes(1) \o Bytes(2)
    [] t = "input"    -> <<2>> \o Bytes(2)
    [] t = "destroy"  -> <<2>>
    [] t = "startapp" -> Bytes(1)
    [] t = "resize"   -> <<2, 2>>
    [] OTHER          -> <<>>

ClientNumber(t) == (CHOOSE i \in DOMAIN ClientTypes : ClientTypes[i] = t) - 1

(* The message the server makes of the bytes of a message of type t: its    *)
(* type, or "garbage" when the number is unknown or the lengths differ.     *)
ServerReads(t) ==
  LET known == {s \in DOMAIN ServerTypes : ServerTypes[s] = ClientNumber(t)}
      match == {s \in known : ServerLayout(s) = ClientLayout(t)}
  IN IF match = {} THEN "garbage" ELSE CHOOSE s \in match : TRUE
=============================================================================
