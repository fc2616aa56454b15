----------------------------- MODULE ClientProofs -----------------------------
(***************************************************************************)
(* Proofs about two parts of the client that share nothing: its connection *)
(* to the server (ServerConn), then its input, down to what Android        *)
(* receives (InputRelay).                                                  *)
(*                                                                         *)
(* The connection, for any set of streams, any number of adb commands,     *)
(* ports and attempts: wherever it fails or is stopped, the server thread  *)
(* leaves nothing behind, and nobody kills a process that was already      *)
(* reaped.                                                                 *)
(*                                                                         *)
(* The input, for any set of configurations and of bindings, any limit of  *)
(* the queue, of the pointers and of the events: what the client sends is  *)
(* accepted, the stream of touches that Android receives is consistent,    *)
(* and nothing stays pressed, unless a press or a release was lost.        *)
(***************************************************************************)
EXTENDS ServerConn, InputRelay, FiniteSetTheorems, SequenceTheorems,
        WellFoundedInduction, TLAPS

-------------------------------------------------------------------------------
(* The inductive invariant, by what it relates to the program counter of   *)
(* the server thread.                                                      *)

BeforeServer == {"adb", "reverse", "listen", "unreverse", "forward", "execute"}
Connecting == {"accept", "connect", "byte", "retry", "dial"}
WithObserver == Connecting \cup {"close_tunnel", "close_aborted", "info", "abort",
                                 "serving", "watchdog", "join"}
Served == {"serving", "watchdog", "join", "kill_adb"}
Ending == {"kill_adb", "failed", "kill_adb_failed", "notify", "exited"}
Alive == {"waiting", "terminated", "notifying", "ended"}

(* A blocking call is registered, unless it was interrupted, and the       *)
(* process that is registered is not reaped before it is unregistered.     *)
CallInv ==
  /\ intr.set => intr.held = "none"
  /\ call = "idle" => intr.held = "none"
  /\ call # "idle" => pc \in CommandSteps \cup SocketSteps
  /\ call # "idle" /\ pc \in CommandSteps => adb \in {"running", "exited"}
  /\ intr.held = "process" => pc \in CommandSteps

(* The process of the server, and the thread that observes it. *)
ProcInv ==
  /\ pc \in BeforeServer => proc = "none" /\ observer = "none"
  /\ pc = "list" => proc # "reaped" /\ observer = "none"
  /\ pc \in WithObserver => proc \in {"running", "exited"} /\ observer \in Alive
  /\ pc = "abort_join" => proc = "reaped" /\ observer \in Alive
  /\ pc = "close_failed" => proc \in {"none", "reaped"} /\ observer = "none"
  /\ pc \in Ending => proc \in {"none", "reaped"} /\ observer \in {"none", "joined"}

(* The tunnel is open until it is closed, once the device is connected or  *)
(* given up.                                                               *)
TunnelInv ==
  tunnel # "closed" =>
    pc \in Connecting \cup {"execute", "close_tunnel", "close_aborted", "close_failed"}

(* The sockets, and to whom they belong. *)
SocketInv ==
  /\ pc \in BeforeServer \cup {"list", "connect", "byte", "retry", "close_failed"} =>
       sock.open = {}
  /\ pc \in {"accept", "dial"} => sock.open # Streams
  /\ pc \in {"close_tunnel", "info"} => sock.open = Streams
  /\ pc \in {"abort_join", "failed", "kill_adb_failed", "notify"} => sock.open = {}
  /\ pc \in Served => sock.open = Streams /\ sock.kept = Streams
  /\ pc \notin Served \cup {"exited"} => sock.kept = {}
  /\ pc = "exited" => sock.open = sock.kept

(* on_connected() is called once the sockets are given, or with --list-*.  *)
CalledInv ==
  /\ "connected" \in called => pc \in Served \cup {"exited"}
  /\ main = "destroyed" => pc = "exited"
  /\ pc = "exited" /\ "connected" \in called /\ observer # "none"
       /\ main # "destroyed" => sock.kept = Streams

(* An attempt remains as long as the thread may connect again.             *)
LeftInv == pc \in {"connect", "byte", "retry"} => left > 0

ServerInv ==
  /\ ServerTypeOK /\ CallInv /\ ProcInv /\ TunnelInv /\ SocketInv /\ CalledInv
  /\ LeftInv /\ ~stray

-------------------------------------------------------------------------------
(* No action breaks the invariant: one step per action, each of them       *)
(* proved from the whole invariant.                                        *)
THEOREM ServerInvariant == Spec => []ServerInv
<1>. USE ServerConnAssumption
<1>1. Cardinality(Streams) \in Nat
  BY FS_CardinalityType DEF ServerConnAssumption
<1>2. Init => ServerInv
  <2>. SUFFICES ASSUME Init PROVE ServerInv
    OBVIOUS
  <2>1. ServerTypeOK
    <3>1. sock \in [open : SUBSET Streams, kept : SUBSET Streams]
      BY DEF Init
    <3>2. device \in [ready : 0 .. Cardinality(Streams), info : BOOLEAN]
      BY <1>1 DEF Init
    <3>3. intr \in [set : BOOLEAN, held : {"none", "socket", "process"}]
          /\ left \in Nat
      BY DEF Init, ServerConnAssumption
    <3>. QED
      BY <3>1, <3>2, <3>3 DEF Init, ServerTypeOK, CommandSteps
  <2>2. CallInv
    BY DEF Init, CallInv, CommandSteps, SocketSteps
  <2>3. ProcInv /\ TunnelInv /\ SocketInv /\ CalledInv /\ LeftInv /\ ~stray
    BY DEF Init, ProcInv, TunnelInv, SocketInv, CalledInv, LeftInv,
      BeforeServer, Connecting, WithObserver, Served, Ending
  <2>. QED
    BY <2>1, <2>2, <2>3 DEF ServerInv
<1>3. ServerInv /\ [Next]_vars => ServerInv'
  <2>. SUFFICES ASSUME ServerInv, [Next]_vars PROVE ServerInv'
    OBVIOUS
  <2>. USE DEF ServerInv, ServerTypeOK, CallInv, ProcInv, TunnelInv, SocketInv,
       CalledInv, LeftInv, CommandSteps, SocketSteps, BeforeServer, Connecting,
       WithObserver, Served, Ending, Alive
  <2>1. CASE Spawn
    BY <2>1 DEF Spawn, thread
  <2>2. CASE Register
    BY <2>2 DEF Register, Refused
  <2>3. CASE ExecuteList
    BY <2>3 DEF ExecuteList
  <2>4. CASE ListEnds
    BY <2>4 DEF ListEnds
  <2>5. CASE Execute
    BY <2>5 DEF Execute
  <2>6. CASE Retry
    BY <2>6 DEF Retry, Quiet
  <2>7. CASE Abort
    BY <2>7 DEF Abort, ForgetsNone
  <2>8. CASE Serve
    BY <2>8 DEF Serve, Quiet
  <2>9. CASE Watchdog
    BY <2>9 DEF Watchdog
  <2>10. CASE JoinObserver
    <3>1. CASE pc = "abort_join"
      BY <2>10, <3>1 DEF JoinObserver
    <3>2. CASE pc = "join" /\ KillAdb
      BY <2>10, <3>2 DEF JoinObserver
    <3>3. CASE pc = "join" /\ ~KillAdb
      BY <2>10, <3>3 DEF JoinObserver
    <3>. QED
      BY <2>10, <3>1, <3>2, <3>3 DEF JoinObserver, ServerConnAssumption
  <2>11. CASE Failed
    BY <2>11 DEF Failed, Quiet
  <2>12. CASE ConnectionFailed
    BY <2>12 DEF ConnectionFailed
  <2>13. CASE ObserverWaits
    BY <2>13 DEF ObserverWaits, thread
  <2>14. CASE ObserverInterrupts
    BY <2>14 DEF ObserverInterrupts, ObserverInterrupt, Interrupt, thread
  <2>15. CASE ObserverNotifies
    BY <2>15 DEF ObserverNotifies, thread
  <2>16. CASE MainAwaits
    BY <2>16 DEF MainAwaits, thread
  <2>17. CASE Stop
    BY <2>17 DEF Stop, Interrupt, thread
  <2>18. CASE JoinAndDestroy
    BY <2>18 DEF JoinAndDestroy, thread
  <2>19. CASE MainQuits
    BY <2>19 DEF MainQuits, thread
  <2>20. CASE AdbExits
    BY <2>20 DEF AdbExits, thread
  <2>21. CASE DeviceConnects
    BY <2>21, <1>1 DEF DeviceConnects, thread
  <2>22. CASE DeviceSendsInfo
    <3>1. device' \in [ready : 0 .. Cardinality(Streams), info : BOOLEAN]
      BY <2>22, <1>1 DEF DeviceSendsInfo
    <3>2. UNCHANGED <<thread, intr, tunnel, sock, adb, proc, observer, stopped,
                      main, called, stray>>
      BY <2>22 DEF DeviceSendsInfo
    <3>. QED
      BY <3>1, <3>2 DEF thread
  <2>23. CASE ProcessExits
    BY <2>23 DEF ProcessExits, thread
  <2>24. ASSUME NEW success \in BOOLEAN, AdbDone(success) PROVE ServerInv'
    BY <2>24 DEF AdbDone, Over, Refused, Quiet
  <2>25. ASSUME NEW success \in BOOLEAN, ReverseDone(success) PROVE ServerInv'
    BY <2>25 DEF ReverseDone, Over, Refused, Quiet
  <2>26. ASSUME NEW success \in BOOLEAN, ListenDone(success) PROVE ServerInv'
    BY <2>26 DEF ListenDone, Over, Refused, Quiet
  <2>27. ASSUME NEW success \in BOOLEAN, UnreverseDone(success) PROVE ServerInv'
    BY <2>27 DEF UnreverseDone, Over, Refused, Quiet, MorePorts
  <2>28. ASSUME NEW success \in BOOLEAN, ForwardDone(success) PROVE ServerInv'
    BY <2>28 DEF ForwardDone, Over, Refused, Quiet, MorePorts
  <2>29. ASSUME NEW success \in BOOLEAN, AcceptDone(success) PROVE ServerInv'
    BY <2>29 DEF AcceptDone, Over, Refused, Quiet, Opened, Complete
  <2>30. ASSUME NEW success \in BOOLEAN, ConnectDone(success) PROVE ServerInv'
    BY <2>30 DEF ConnectDone, Over, Refused, Quiet
  <2>31. ASSUME NEW success \in BOOLEAN, ByteDone(success) PROVE ServerInv'
    BY <2>31 DEF ByteDone, Over, Refused, Quiet, Opened, Complete
  <2>32. ASSUME NEW success \in BOOLEAN, DialDone(success) PROVE ServerInv'
    <3>1. CASE success
      BY <2>32, <3>1 DEF DialDone, Over, Refused, Quiet, Opened, Complete
    <3>2. CASE ~success
      BY <2>32, <3>2 DEF DialDone, Over, Refused, Quiet
    <3>. QED
      BY <3>1, <3>2
  <2>33. ASSUME NEW success \in BOOLEAN, CloseTunnelDone(success) PROVE ServerInv'
    BY <2>33 DEF CloseTunnelDone, Over, Refused, Quiet
  <2>34. ASSUME NEW success \in BOOLEAN, InfoDone(success) PROVE ServerInv'
    BY <2>34 DEF InfoDone, Over, Refused
  <2>35. ASSUME NEW success \in BOOLEAN, KillAdbDone(success) PROVE ServerInv'
    BY <2>35 DEF KillAdbDone, Over, Refused, Quiet
  <2>36. ASSUME NEW success \in BOOLEAN, Return(success) PROVE ServerInv'
    BY <2>36 DEF Return, WaitKeeps
  <2>37. CASE UNCHANGED vars
    BY <2>37 DEF vars, thread
  <2>. HIDE DEF ServerInv
  <2>. QED
    BY <2>1, <2>2, <2>3, <2>4, <2>5, <2>6, <2>7, <2>8, <2>9, <2>10, <2>11,
       <2>12, <2>13, <2>14, <2>15, <2>16, <2>17, <2>18, <2>19, <2>20, <2>21,
       <2>22, <2>23, <2>24, <2>25, <2>26, <2>27, <2>28, <2>29, <2>30, <2>31,
       <2>32, <2>33, <2>34, <2>35, <2>36, <2>37 DEF Next, ServerThread, Done,
       Observer, Main
<1>. QED
  BY <1>2, <1>3, PTL DEF Spec

(* Wherever the connection fails or is stopped, the thread that ends has   *)
(* closed its tunnel, reaped its process, joined its observer and kept no  *)
(* socket but those that sc_server_destroy() closes.                       *)
THEOREM NothingEverLeaks == Spec => []NothingLeaks
<1>1. ServerInv => NothingLeaks
  BY DEF ServerInv, NothingLeaks, TunnelInv, CalledInv, SocketInv, ProcInv, CallInv,
    CommandSteps, SocketSteps, BeforeServer, Connecting, WithObserver, Served,
    Ending, Alive
<1>. QED
  BY <1>1, ServerInvariant, PTL

(* Neither sc_intr_interrupt() nor the watchdog nor the failure path ever  *)
(* kills a process whose pid was already given back to the system.         *)
THEOREM NeverKillsAnother == Spec => []NoStrayKill
<1>1. ServerInv => NoStrayKill
  BY DEF ServerInv, NoStrayKill
<1>. QED
  BY <1>1, ServerInvariant, PTL

-------------------------------------------------------------------------------
(* The relay of the input: what the messages are.                          *)

Ids == {"mouse", "generic", "virtual"} \cup Fingers
Actions == {"down", "up"}
Motions == {"DOWN", "UP", "MOVE", "HOVER"}
KeyMsgs == [t : {"keycode"}, a : Actions, key : Keys]
BackMsgs == [t : {"back"}, a : Actions]
TouchMsgs == [t : {"touch"}, a : Motions, id : Ids, size : Sizes,
              button : SUBSET Buttons, buttons : SUBSET Buttons]
ScrollMsgs == [t : {"scroll"}, size : Sizes]
HidMsgs == [t : {"input"}, buttons : SUBSET Buttons]
DisplayPlain == {"text", "notifications", "settings", "collapse", "getclip", "setclip",
                 "power", "rotate", "reset"}
CameraPlain == {"torch", "zoomin", "zoomout", "reset"}

(* What a client sends to a server that captures a camera, or a display.   *)
MessagesTo(camera) ==
  IF camera THEN [t : CameraPlain]
  ELSE KeyMsgs \cup BackMsgs \cup TouchMsgs \cup ScrollMsgs \cup HidMsgs \cup [t : DisplayPlain]
Plain == DisplayPlain \cup CameraPlain
Known == {"keycode", "back", "touch", "scroll", "input"} \cup Plain

(* A message, by its type.                                                 *)
LEMMA MessageFacts ==
  ASSUME NEW c \in BOOLEAN, NEW m \in MessagesTo(c)
  PROVE  /\ m.t \in Known /\ (c => m.t \in CameraPlain) /\ (~c => m.t \notin CameraPlain \ {"reset"})
         /\ m.t = "keycode" => m.a \in Actions /\ m.key \in Keys
         /\ m.t = "back" => m = [t |-> "back", a |-> m.a] /\ m.a \in Actions
         /\ m.t = "touch" => m \in TouchMsgs
         /\ m.t = "input" => m.buttons \subseteq Buttons
<1>1. CASE c
  BY <1>1 DEF MessagesTo, CameraPlain, Plain, Known
<1>2. CASE ~c
  <2>1. CASE m \in KeyMsgs
    BY <2>1, <1>2 DEF KeyMsgs, Known, CameraPlain
  <2>2. CASE m \in BackMsgs
    BY <2>2, <1>2 DEF BackMsgs, Known, CameraPlain
  <2>3. CASE m \in TouchMsgs
    <3>1. m.t = "touch"
      BY <2>3 DEF TouchMsgs
    <3> QED BY <2>3, <3>1, <1>2 DEF Known, CameraPlain
  <2>4. CASE m \in ScrollMsgs
    BY <2>4, <1>2 DEF ScrollMsgs, Known, CameraPlain
  <2>5. CASE m \in HidMsgs
    BY <2>5, <1>2 DEF HidMsgs, Known, CameraPlain
  <2>6. CASE m \in [t : DisplayPlain]
    BY <2>6, <1>2 DEF DisplayPlain, Plain, Known, CameraPlain
  <2> QED BY <1>2, <2>1, <2>2, <2>3, <2>4, <2>5, <2>6 DEF MessagesTo
<1> QED BY <1>1, <1>2

(* Both sides agree on the wire: the server reads the type that was sent.  *)
LEMMA WireNumbers ==
  /\ ClientNumber("keycode") = 0 /\ ClientNumber("text") = 1 /\ ClientNumber("touch") = 2
  /\ ClientNumber("scroll") = 3 /\ ClientNumber("back") = 4
  /\ ClientNumber("notifications") = 5 /\ ClientNumber("settings") = 6
  /\ ClientNumber("collapse") = 7 /\ ClientNumber("getclip") = 8
  /\ ClientNumber("setclip") = 9 /\ ClientNumber("power") = 10
  /\ ClientNumber("rotate") = 11 /\ ClientNumber("input") = 13 /\ ClientNumber("reset") = 17
  /\ ClientNumber("torch") = 18 /\ ClientNumber("zoomin") = 19 /\ ClientNumber("zoomout") = 20
<1> DEFINE c == ClientTypes
<1>1. DOMAIN c = 1 .. 23
  BY DEF ClientTypes
<1>2. /\ c[1] = "keycode" /\ c[2] = "text" /\ c[3] = "touch" /\ c[4] = "scroll"
      /\ c[5] = "back" /\ c[6] = "notifications" /\ c[7] = "settings" /\ c[8] = "collapse"
      /\ c[9] = "getclip" /\ c[10] = "setclip" /\ c[11] = "power" /\ c[12] = "rotate"
      /\ c[13] = "create" /\ c[14] = "input" /\ c[15] = "destroy" /\ c[16] = "hardkeyboard"
      /\ c[17] = "startapp" /\ c[18] = "reset" /\ c[19] = "torch" /\ c[20] = "zoomin"
      /\ c[21] = "zoomout" /\ c[22] = "resize" /\ c[23] = "scan"
  BY DEF ClientTypes
<1>3. \A i \in 1 .. 23 : i = 1 \/ i = 2 \/ i = 3 \/ i = 4 \/ i = 5 \/ i = 6 \/ i = 7 \/ i = 8
        \/ i = 9 \/ i = 10 \/ i = 11 \/ i = 12 \/ i = 13 \/ i = 14 \/ i = 15 \/ i = 16
        \/ i = 17 \/ i = 18 \/ i = 19 \/ i = 20 \/ i = 21 \/ i = 22 \/ i = 23
  OBVIOUS
<1> HIDE DEF c
<1>4. \A i, j \in DOMAIN c : c[i] = c[j] => i = j
  BY <1>1, <1>2, <1>3
<1>5. ASSUME NEW i \in DOMAIN c PROVE ClientNumber(c[i]) = i - 1
  <2>1. (CHOOSE j \in DOMAIN c : c[j] = c[i]) = i
    BY <1>4
  <2> QED BY <2>1 DEF ClientNumber, c
<1>6. /\ 1 \in DOMAIN c /\ 2 \in DOMAIN c /\ 3 \in DOMAIN c /\ 4 \in DOMAIN c /\ 5 \in DOMAIN c
      /\ 6 \in DOMAIN c /\ 7 \in DOMAIN c /\ 8 \in DOMAIN c /\ 9 \in DOMAIN c /\ 10 \in DOMAIN c
      /\ 11 \in DOMAIN c /\ 12 \in DOMAIN c /\ 14 \in DOMAIN c /\ 18 \in DOMAIN c
      /\ 19 \in DOMAIN c /\ 20 \in DOMAIN c /\ 21 \in DOMAIN c
  BY <1>1
<1> QED BY <1>2, <1>5, <1>6

(* The server reads the number of each message as the type that was        *)
(* meant.                                                                  *)
LEMMA WireAgrees == \A t \in Known : ServerReads(t) = t
<1>1. ASSUME NEW t \in Known
      PROVE  /\ t \in DOMAIN ServerTypes /\ ServerTypes[t] = ClientNumber(t)
             /\ \A s \in DOMAIN ServerTypes : ServerTypes[s] = ServerTypes[t] => s = t
  BY WireNumbers DEF Known, Plain, DisplayPlain, CameraPlain, ServerTypes
<1>2. ASSUME NEW t \in Known PROVE ServerLayout(t) = ClientLayout(t)
  BY DEF Known, Plain, DisplayPlain, CameraPlain, ServerLayout, ClientLayout, ClientString,
         ClientTinyString, ClientPosition, ServerPosition, Bytes
<1>3. ASSUME NEW t \in Known PROVE ServerReads(t) = t
  <2> DEFINE known == {s \in DOMAIN ServerTypes : ServerTypes[s] = ClientNumber(t)}
             match == {s \in known : ServerLayout(s) = ClientLayout(t)}
  <2>1. match = {t}
    BY <1>1, <1>2
  <2>2. ServerReads(t) = IF match = {} THEN "garbage" ELSE CHOOSE s \in match : TRUE
    BY DEF ServerReads
  <2> HIDE DEF match
  <2> QED BY <2>1, <2>2
<1> QED BY <1>3

-------------------------------------------------------------------------------
(* The pointers of the server, for any list and any number of pointers.    *)

PointerList == Seq([id : Ids, local : LocalIds])
IdsOf(ps) == {ps[i].id : i \in DOMAIN ps}

(* A list of pointers, and the ids and local ids that it uses.             *)
LEMMA ListFacts ==
  ASSUME NEW ps \in PointerList
  PROVE  /\ Len(ps) \in Nat /\ DOMAIN ps = 1 .. Len(ps)
         /\ \A i \in DOMAIN ps : /\ ps[i] = [id |-> ps[i].id, local |-> ps[i].local]
                                 /\ ps[i].id \in Ids /\ ps[i].local \in LocalIds
         /\ UsedLocalIds(ps) \subseteq LocalIds /\ IdsOf(ps) \subseteq Ids
<1>1. Len(ps) \in Nat /\ DOMAIN ps = 1 .. Len(ps) /\ \A i \in DOMAIN ps : ps[i] \in [id : Ids, local : LocalIds]
  BY LenProperties, ElementOfSeq DEF PointerList
<1> QED BY <1>1 DEF UsedLocalIds, IdsOf

(* PointersState.indexOf(): a position of the id, or none.                 *)
LEMMA IndexFacts ==
  ASSUME NEW ps \in PointerList, NEW id
  PROVE  /\ IndexOf(ps, id) # 0 <=> id \in IdsOf(ps)
         /\ IndexOf(ps, id) # 0 => IndexOf(ps, id) \in DOMAIN ps /\ ps[IndexOf(ps, id)].id = id
<1>1. DOMAIN ps = 1 .. Len(ps) /\ Len(ps) \in Nat
  BY ListFacts
<1>2. CASE \E i \in DOMAIN ps : ps[i].id = id
  <2>1. IndexOf(ps, id) = CHOOSE i \in DOMAIN ps : ps[i].id = id
    BY <1>2 DEF IndexOf
  <2>2. IndexOf(ps, id) \in DOMAIN ps /\ ps[IndexOf(ps, id)].id = id
    BY <1>2, <2>1
  <2>3. IndexOf(ps, id) # 0
    BY <1>1, <2>2
  <2> QED BY <1>2, <2>2, <2>3 DEF IdsOf
<1>3. CASE ~ \E i \in DOMAIN ps : ps[i].id = id
  BY <1>3 DEF IndexOf, IdsOf
<1> QED BY <1>2, <1>3

(* A set of natural numbers that is not empty has a least one.             *)
LEMMA LeastNat ==
  ASSUME NEW I \in SUBSET Nat, I # {}
  PROVE  \E n \in I : \A m \in I : n <= m
<1> DEFINE R == OpToRel(<, Nat)
<1>1. \A x, y \in Nat : y < x => <<y, x>> \in R
  BY DEF OpToRel
<1>2. IsWellFoundedOn(R, Nat)
  BY NatLessThanWellFounded DEF OpToRel
<1> HIDE DEF R
<1>3. PICK x \in I : \A y \in I : ~ (<<y, x>> \in R)
  BY <1>2, WFMin
<1>4. \A y \in I : ~(y < x)
  BY <1>1, <1>3
<1> QED BY <1>3, <1>4

(* There is a free local id for a new pointer, as long as the list is not  *)
(* full: the lowest one is taken.                                          *)
LEMMA FreeLocalId ==
  ASSUME NEW ps \in PointerList, ~Full(ps)
  PROVE  NextUnusedLocalId(ps) \in LocalIds \ UsedLocalIds(ps)
<1> DEFINE free == LocalIds \ UsedLocalIds(ps)
           n == Len(ps)
           f == [i \in 1 .. n |-> ps[i].local]
<1>1. n \in Nat /\ n < MaxPointers /\ DOMAIN ps = 1 .. n /\ MaxPointers \in Nat \ {0}
  BY ListFacts, PointersAssumption DEF Full
<1>2. f \in Surjection(1 .. n, UsedLocalIds(ps))
  BY <1>1 DEF UsedLocalIds, Surjection
<1>3. IsFiniteSet(1 .. n) /\ Cardinality(1 .. n) = n
  <2> HIDE DEF n
  <2>3. 1 \in Int /\ n \in Int
    BY <1>1
  <2>1. IsFiniteSet(1 .. n) /\ Cardinality(1 .. n) = IF 1 > n THEN 0 ELSE n - 1 + 1
    BY <2>3, FS_Interval
  <2>2. (IF 1 > n THEN 0 ELSE n - 1 + 1) = n
    BY <1>1
  <2> QED BY <2>1, <2>2
<1>4. Cardinality(UsedLocalIds(ps)) <= n
  BY <1>2, <1>3, FS_Surjection
<1>5. Cardinality(LocalIds) = MaxPointers
  <2>1. Cardinality(0 .. MaxPointers - 1) = IF 0 > MaxPointers - 1 THEN 0 ELSE MaxPointers - 1 - 0 + 1
    BY <1>1, FS_Interval
  <2>2. (IF 0 > MaxPointers - 1 THEN 0 ELSE MaxPointers - 1 - 0 + 1) = MaxPointers
    BY <1>1
  <2> QED BY <2>1, <2>2 DEF LocalIds
<1>6. LocalIds # UsedLocalIds(ps)
  BY <1>1, <1>4, <1>5
<1>7. free # {} /\ free \subseteq Nat
  <2>1. UsedLocalIds(ps) \subseteq LocalIds
    BY ListFacts
  <2>2. LocalIds \subseteq Nat
    BY <1>1 DEF LocalIds
  <2> QED BY <1>6, <2>1, <2>2
<1> HIDE DEF free
<1>9. \E m \in free : \A k \in free : m <= k
  BY <1>7, LeastNat
<1>10. NextUnusedLocalId(ps) = CHOOSE j \in free : \A k \in free : j <= k
  BY DEF NextUnusedLocalId, free
<1>11. NextUnusedLocalId(ps) \in free
  BY <1>9, <1>10
<1> QED BY <1>11 DEF free

(* PointersState.getPointerIndex(): a new pointer gets a local id that is  *)
(* free, unless the list is full.                                          *)
LEMMA WithFacts ==
  ASSUME NEW ps \in PointerList, WellFormed(ps), NEW id \in Ids
  PROVE  /\ WithPointer(ps, id) \in PointerList /\ WellFormed(WithPointer(ps, id))
         /\ IndexOf(WithPointer(ps, id), id) = 0 <=> id \notin IdsOf(ps) /\ Full(ps)
         /\ id \in IdsOf(ps) \/ Full(ps) => WithPointer(ps, id) = ps
         /\ id \notin IdsOf(ps) /\ ~Full(ps) =>
              \E l \in LocalIds \ UsedLocalIds(ps) :
                /\ Len(WithPointer(ps, id)) = Len(ps) + 1
                /\ IdsOf(WithPointer(ps, id)) = IdsOf(ps) \cup {id}
                /\ UsedLocalIds(WithPointer(ps, id)) = UsedLocalIds(ps) \cup {l}
                /\ WithPointer(ps, id)[IndexOf(WithPointer(ps, id), id)].local = l
<1> DEFINE qs == WithPointer(ps, id)
<1>1. CASE id \in IdsOf(ps) \/ Full(ps)
  <2>1. qs = ps
    BY <1>1, IndexFacts DEF WithPointer
  <2> QED BY <1>1, <2>1, IndexFacts
<1>2. CASE id \notin IdsOf(ps) /\ ~Full(ps)
  <2> DEFINE n == Len(ps)
             l == NextUnusedLocalId(ps)
             p == [id |-> id, local |-> l]
  <2>1. l \in LocalIds /\ l \notin UsedLocalIds(ps)
    BY <1>2, FreeLocalId
  <2>2. qs = Append(ps, p)
    BY <1>2, IndexFacts DEF WithPointer
  <2>3. n \in Nat /\ n < MaxPointers /\ DOMAIN ps = 1 .. n /\ MaxPointers \in Nat
    BY <1>2, ListFacts, PointersAssumption DEF Full
  <2>4. p \in [id : Ids, local : LocalIds] /\ p.id = id /\ p.local = l
    BY <2>1
  <2> HIDE DEF p, l
  <2>5. /\ qs \in PointerList /\ Len(qs) = n + 1 /\ qs[n + 1] = p
        /\ \A i \in 1 .. n : qs[i] = ps[i]
    BY <2>2, <2>4, AppendProperties DEF PointerList
  <2> HIDE DEF qs
  <2>6. /\ DOMAIN qs = 1 .. n + 1 /\ \A i \in 1 .. n + 1 : i \in 1 .. n \/ i = n + 1
        /\ n + 1 \in 1 .. n + 1 /\ 1 .. n \subseteq 1 .. n + 1
    BY <2>3, <2>5, ListFacts
  <2>7. IdsOf(qs) = IdsOf(ps) \cup {id}
    BY <2>3, <2>4, <2>5, <2>6 DEF IdsOf
  <2>8. UsedLocalIds(qs) = UsedLocalIds(ps) \cup {l}
    BY <2>3, <2>4, <2>5, <2>6 DEF UsedLocalIds
  <2>9. WellFormed(qs)
    <3>1. Len(qs) <= MaxPointers /\ UsedLocalIds(qs) \subseteq LocalIds
      BY <2>1, <2>3, <2>5, <2>8, ListFacts
    <3>2. ASSUME NEW i \in DOMAIN qs, NEW j \in DOMAIN qs, i # j
          PROVE  qs[i].id # qs[j].id /\ qs[i].local # qs[j].local
      <4>1. \A k \in 1 .. n : ps[k].id # id /\ ps[k].local # l
        BY <1>2, <2>1, <2>3 DEF IdsOf, UsedLocalIds
      <4>2. CASE i \in 1 .. n /\ j \in 1 .. n
        BY <2>3, <2>5, <3>2, <4>2 DEF WellFormed
      <4>3. CASE i = n + 1 /\ j \in 1 .. n
        BY <2>4, <2>5, <4>1, <4>3
      <4>4. CASE j = n + 1 /\ i \in 1 .. n
        BY <2>4, <2>5, <4>1, <4>4
      <4> QED BY <2>6, <3>2, <4>2, <4>3, <4>4
    <3> QED BY <3>1, <3>2 DEF WellFormed
  <2>10. IndexOf(qs, id) # 0 /\ IndexOf(qs, id) = n + 1
    <3>1. IndexOf(qs, id) # 0 /\ IndexOf(qs, id) \in DOMAIN qs /\ qs[IndexOf(qs, id)].id = id
      BY <2>5, <2>7, IndexFacts
    <3> QED BY <2>4, <2>5, <2>6, <2>9, <3>1 DEF WellFormed
  <2> QED BY <1>2, <2>1, <2>4, <2>5, <2>7, <2>8, <2>9, <2>10 DEF qs
<1> QED BY <1>1, <1>2

(* PointersState.cleanUp(): the pointer that went up leaves, and no        *)
(* other.                                                                  *)
LEMMA CleanFacts ==
  ASSUME NEW ps \in PointerList, WellFormed(ps), NEW i \in DOMAIN ps
  PROVE  /\ CleanUp(ps, i) \in PointerList /\ WellFormed(CleanUp(ps, i))
         /\ IdsOf(CleanUp(ps, i)) = IdsOf(ps) \ {ps[i].id}
         /\ UsedLocalIds(CleanUp(ps, i)) = UsedLocalIds(ps) \ {ps[i].local}
<1> DEFINE n == Len(ps)
           p == SubSeq(ps, 1, i - 1)
           q == SubSeq(ps, i + 1, n)
           r == CleanUp(ps, i)
           old(k) == IF k < i THEN k ELSE k + 1
<1>1. n \in Nat /\ i \in 1 .. n /\ DOMAIN ps = 1 .. n
      /\ \A k \in 1 .. n : ps[k] \in [id : Ids, local : LocalIds]
  BY ListFacts, ElementOfSeq DEF PointerList
<1>2. /\ p \in PointerList /\ Len(p) = i - 1 /\ \A k \in 1 .. i - 1 : p[k] = ps[k]
  <2>1. \A k \in 1 .. i - 1 : k \in 1 .. n
    BY <1>1
  <2>2. /\ p \in PointerList /\ Len(p) = IF 1 <= i - 1 THEN (i - 1) - 1 + 1 ELSE 0
        /\ \A k \in 1 .. (i - 1) - 1 + 1 : p[k] = ps[1 + k - 1]
    BY <1>1, <2>1, SubSeqProperties DEF PointerList
  <2> HIDE DEF p
  <2> QED BY <1>1, <2>2
<1>3. /\ q \in PointerList /\ Len(q) = n - i /\ \A k \in 1 .. n - i : q[k] = ps[i + k]
  <2>1. \A k \in i + 1 .. n : k \in 1 .. n
    BY <1>1
  <2>2. /\ q \in PointerList /\ Len(q) = IF i + 1 <= n THEN n - (i + 1) + 1 ELSE 0
        /\ \A k \in 1 .. n - (i + 1) + 1 : q[k] = ps[(i + 1) + k - 1]
    BY <1>1, <2>1, SubSeqProperties DEF PointerList
  <2> HIDE DEF n, q
  <2>3. Len(q) = n - i
    BY <1>1, <2>2
  <2>4. ASSUME NEW k \in 1 .. n - i PROVE q[k] = ps[i + k]
    <3>1. k \in 1 .. n - (i + 1) + 1 /\ (i + 1) + k - 1 = i + k
      BY <1>1
    <3> QED BY <2>2, <3>1
  <2> QED BY <2>2, <2>3, <2>4
<1>4. r = p \o q
  BY DEF CleanUp
<1> HIDE DEF p, q, r
<1>5. /\ r \in PointerList /\ Len(r) = Len(p) + Len(q)
      /\ \A k \in 1 .. Len(p) + Len(q) : r[k] = IF k <= Len(p) THEN p[k] ELSE q[k - Len(p)]
  BY <1>2, <1>3, <1>4, ConcatProperties DEF PointerList
<1> HIDE DEF n
<1>6. Len(r) = n - 1 /\ n - 1 \in Nat /\ DOMAIN r = 1 .. n - 1
  BY <1>1, <1>2, <1>3, <1>5, ListFacts
<1>7. ASSUME NEW k \in 1 .. n - 1 PROVE r[k] = ps[old(k)] /\ old(k) \in 1 .. n /\ old(k) # i
  <2>1. CASE k < i
    <3>1. k \in 1 .. i - 1 /\ k <= Len(p) /\ k \in 1 .. Len(p) + Len(q) /\ old(k) = k /\ k \in 1 .. n /\ k # i
      BY <1>1, <1>2, <1>3, <2>1
    <3> QED BY <1>2, <1>5, <3>1
  <2>2. CASE ~(k < i)
    <3>1. k - (i - 1) \in 1 .. n - i /\ i + (k - (i - 1)) = k + 1 /\ k + 1 \in 1 .. n /\ k + 1 # i
      BY <1>1, <2>2
    <3>3. ~(k <= Len(p)) /\ k \in 1 .. Len(p) + Len(q) /\ old(k) = k + 1
      BY <1>1, <1>2, <1>3, <2>2
    <3>2. r[k] = q[k - (i - 1)]
      BY <1>2, <1>5, <3>1, <3>3
    <3> QED BY <1>3, <3>1, <3>2, <3>3
  <2> QED BY <2>1, <2>2
<1>8. \A k \in 1 .. n : k # i => \E j \in 1 .. n - 1 : old(j) = k
  <2>1. ASSUME NEW k \in 1 .. n, k # i PROVE \E j \in 1 .. n - 1 : old(j) = k
    <3>1. CASE k < i
      <4>1. k \in 1 .. n - 1 /\ old(k) = k
        BY <1>1, <3>1
      <4> QED BY <4>1
    <3>2. CASE k > i
      <4>1. k - 1 \in 1 .. n - 1 /\ old(k - 1) = k
        BY <1>1, <3>2
      <4> QED BY <4>1
    <3> QED BY <1>1, <2>1, <3>1, <3>2
  <2> QED BY <2>1
<1>9. \A j, k \in 1 .. n - 1 : j # k => old(j) # old(k)
  BY <1>1
<1> HIDE DEF old
<1>10. /\ \A k \in 1 .. n : k # i => ps[k].id # ps[i].id /\ ps[k].local # ps[i].local
       /\ \A j, k \in 1 .. n : j # k => ps[k].id # ps[j].id /\ ps[k].local # ps[j].local
  BY <1>1 DEF WellFormed
<1>11. IdsOf(r) = IdsOf(ps) \ {ps[i].id}
  <2>1. ASSUME NEW x \in IdsOf(r) PROVE x \in IdsOf(ps) \ {ps[i].id}
    <3>1. PICK k \in 1 .. n - 1 : x = r[k].id
      BY <1>6 DEF IdsOf
    <3> QED BY <1>1, <1>7, <1>10, <3>1 DEF IdsOf
  <2>2. ASSUME NEW x \in IdsOf(ps) \ {ps[i].id} PROVE x \in IdsOf(r)
    <3>1. PICK k \in 1 .. n : x = ps[k].id /\ k # i
      BY <1>1 DEF IdsOf
    <3>2. PICK j \in 1 .. n - 1 : old(j) = k
      BY <1>8, <3>1
    <3>3. r[j] = ps[k]
      BY <1>7, <3>2
    <3> QED BY <1>6, <3>1, <3>3 DEF IdsOf
  <2> QED BY <2>1, <2>2
<1>12. UsedLocalIds(r) = UsedLocalIds(ps) \ {ps[i].local}
  <2>1. ASSUME NEW x \in UsedLocalIds(r) PROVE x \in UsedLocalIds(ps) \ {ps[i].local}
    <3>1. PICK k \in 1 .. n - 1 : x = r[k].local
      BY <1>6 DEF UsedLocalIds
    <3> QED BY <1>1, <1>7, <1>10, <3>1 DEF UsedLocalIds
  <2>2. ASSUME NEW x \in UsedLocalIds(ps) \ {ps[i].local} PROVE x \in UsedLocalIds(r)
    <3>1. PICK k \in 1 .. n : x = ps[k].local /\ k # i
      BY <1>1 DEF UsedLocalIds
    <3>2. PICK j \in 1 .. n - 1 : old(j) = k
      BY <1>8, <3>1
    <3>3. r[j] = ps[k]
      BY <1>7, <3>2
    <3> QED BY <1>6, <3>1, <3>3 DEF UsedLocalIds
  <2> QED BY <2>1, <2>2
<1>13. WellFormed(r)
  <2>1. Len(r) <= MaxPointers /\ UsedLocalIds(r) \subseteq LocalIds
    BY <1>1, <1>5, <1>6, ListFacts, PointersAssumption DEF WellFormed
  <2>2. ASSUME NEW j \in DOMAIN r, NEW k \in DOMAIN r, j # k
        PROVE  r[j].id # r[k].id /\ r[j].local # r[k].local
    <3>1. r[j] = ps[old(j)] /\ r[k] = ps[old(k)] /\ old(j) \in 1 .. n /\ old(k) \in 1 .. n /\ old(j) # old(k)
      BY <1>6, <1>7, <1>9, <2>2
    <3> QED BY <1>10, <3>1
  <2> QED BY <2>1, <2>2 DEF WellFormed
<1> QED BY <1>5, <1>11, <1>12, <1>13 DEF r

-------------------------------------------------------------------------------
(* The relay: what every state is made of.                                 *)

(* What the user may hold, and how the left button may be clicked.         *)
Holdings == SUBSET (Keys \cup Buttons \cup Fingers)
Clicks == [clicks : {1, 2}, outside : BOOLEAN]

RelayTypes ==
  /\ InputTypeOK
  /\ queue \in Seq(MessagesTo(cfg.camera))
  /\ pointers \in PointerList
  /\ lastPress \in Clicks
  /\ cfg.mouse = "none" => buttonsState = {}
  /\ cfg.mouse # "sdk" => ~vfingerDown
  /\ ServerAccepts

(* A session without control or of a camera has no keyboard and no mouse.  *)
LEMMA ConfigFacts ==
  ASSUME cfg \in Configs
  PROVE  /\ cfg.camera \in BOOLEAN /\ cfg.control \in BOOLEAN /\ cfg.keyboard \in BOOLEAN
         /\ cfg.mouse \in {"none", "sdk", "relative"} /\ cfg.typing \in {"mixed", "text", "raw"}
         /\ cfg.limit \in Nat
         /\ cfg.camera => ~cfg.keyboard /\ cfg.mouse = "none"
         /\ ~cfg.control => ~cfg.keyboard /\ cfg.mouse = "none"
BY InputAssumption DEF ConfigOK

(* The queue takes what there is room for.                                 *)
LEMMA PushFacts ==
  ASSUME queue \in Seq(MessagesTo(cfg.camera)), Len(queue) <= QueueLimit,
         NEW ms \in Seq(MessagesTo(cfg.camera)), Push(ms)
  PROVE  /\ queue' \in Seq(MessagesTo(cfg.camera)) /\ Len(queue') <= QueueLimit
         /\ Room(Len(ms)) => queue' = queue \o ms
         /\ ms = <<>> => queue' = queue
<1> DEFINE M == MessagesTo(cfg.camera)
           n == IF Room(Len(ms)) THEN Len(ms) ELSE QueueLimit - Len(queue)
           p == SubSeq(ms, 1, n)
<1>1. Len(ms) \in Nat /\ Len(queue) \in Nat /\ QueueLimit \in Nat
  BY LenProperties, InputAssumption
<1>2. n \in 0 .. Len(ms) /\ n <= QueueLimit - Len(queue)
  <2>1. CASE Room(Len(ms))
    BY <1>1, <2>1 DEF Room
  <2>2. CASE ~Room(Len(ms))
    BY <1>1, <2>2 DEF Room
  <2> QED BY <2>1, <2>2
<1>3. queue' = queue \o p
  BY DEF Push
<1>4. \A i \in 1 .. Len(ms) : ms[i] \in M
  BY ElementOfSeq
<1>9. Room(Len(ms)) => n = Len(ms)
  OBVIOUS
<1> HIDE DEF n, M
<1>5. /\ p \in Seq(M) /\ Len(p) = n /\ \A i \in 1 .. n : p[i] = ms[i]
  <2>1. \A i \in 1 .. n : ms[i] \in M
    BY <1>1, <1>2, <1>4
  <2>2. /\ p \in Seq(M) /\ Len(p) = IF 1 <= n THEN n - 1 + 1 ELSE 0
        /\ \A i \in 1 .. n - 1 + 1 : p[i] = ms[1 + i - 1]
    BY <1>1, <1>2, <2>1, SubSeqProperties
  <2> HIDE DEF p
  <2> QED BY <1>1, <1>2, <2>2
<1> HIDE DEF p
<1>6. queue \o p \in Seq(M) /\ Len(queue \o p) = Len(queue) + n
  BY <1>5, ConcatProperties DEF M
<1>7. Room(Len(ms)) => p = ms
  <2>1. ASSUME Room(Len(ms)) PROVE p = ms
    BY <1>1, <1>5, <1>9, <2>1, SeqEqual DEF M
  <2> QED BY <2>1
<1>8. ms = <<>> => queue' = queue
  <2>1. ASSUME ms = <<>> PROVE queue' = queue
    <3>1. Len(ms) = 0 /\ Room(0)
      BY <1>1, <2>1, EmptySeq DEF Room
    <3>2. p = <<>>
      BY <1>7, <2>1, <3>1
    <3> QED BY <1>3, <3>2, ConcatEmptySeq
  <2> QED BY <2>1
<1>10. Len(queue \o p) <= QueueLimit
  BY <1>1, <1>2, <1>6
<1> QED BY <1>3, <1>6, <1>7, <1>8, <1>10 DEF M

(* When a pressed key reaches the device: the key events that go through,  *)
(* with what is held in h.                                                 *)
Forwards(k, h) ==
  /\ cfg.keyboard /\ ~paused /\ k # "MOD"
  /\ IF "MOD" \in h
     THEN k \in PressKeys \cup VolumeKeys /\ "SHIFT" \notin h /\ ~disconnected
     ELSE Convertible(KeyClass[k], cfg.typing, FALSE, "SHIFT" \in h, "CTRL" \in h)
Action(down) == IF down THEN "down" ELSE "up"

(* The messages of a shortcut: at most one, and a key event is that of the *)
(* key.                                                                    *)
LEMMA ShortcutFacts ==
  ASSUME cfg \in Configs, NEW k \in Keys, NEW down \in BOOLEAN, NEW repeat \in BOOLEAN,
         NEW h, "MOD" \in h \/ k = "MOD",
         NEW ms, ms = ShortcutMessages(k, down, repeat, "SHIFT" \in h)
  PROVE  /\ \/ ms = <<>>
            \/ \E t \in (IF cfg.camera THEN CameraPlain ELSE DisplayPlain) : ms = <<Message(t)>>
            \/ ms = <<Key(Action(down), k)>> /\ ~cfg.camera /\ Forwards(k, h)
         /\ Forwards(k, h) /\ ~repeat => ms = <<Key(Action(down), k)>>
<1> DEFINE once == down /\ ~repeat
           live == ~paused
           shift == "SHIFT" \in h
           a == Action(down)
           ignored == \/ k \in LocalKeys \/ (k \in VolumeKeys /\ shift)
                      \/ disconnected \/ ~cfg.control
           plain == IF cfg.camera THEN CameraPlain ELSE DisplayPlain
<1>0. /\ cfg.camera => ~cfg.keyboard /\ cfg.mouse = "none"
      /\ ~cfg.control => ~cfg.keyboard /\ cfg.mouse = "none"
  BY ConfigFacts
<1>5. Forwards(k, h) => /\ cfg.keyboard /\ live /\ ~shift /\ ~disconnected /\ "MOD" \in h
                        /\ k \in PressKeys \cup VolumeKeys
  <2>1. k = "MOD" => ~Forwards(k, h)
    BY DEF Forwards
  <2>2. "MOD" \in h => (Forwards(k, h) => /\ cfg.keyboard /\ live /\ ~shift /\ ~disconnected /\ "MOD" \in h
                        /\ k \in PressKeys \cup VolumeKeys)
    BY DEF Forwards
  <2> QED BY <2>1, <2>2
<1>6. k \in PressKeys \cup VolumeKeys /\ cfg.keyboard /\ live /\ ~shift /\ ~disconnected => Forwards(k, h)
  <2>1. k \in PressKeys \cup VolumeKeys => k # "MOD" /\ k \notin LocalKeys /\ k # "r"
    BY DEF PressKeys, VolumeKeys, LocalKeys
  <2> QED BY <2>1 DEF Forwards
<1>7. k \in PressKeys \cup VolumeKeys => k \notin LocalKeys /\ k # "r"
  BY DEF PressKeys, VolumeKeys, LocalKeys
<1> SUFFICES /\ ms = <<>> \/ (\E t \in plain : ms = <<Message(t)>>)
                \/ (ms = <<Key(a, k)>> /\ ~cfg.camera /\ Forwards(k, h))
             /\ Forwards(k, h) /\ ~repeat => ms = <<Key(a, k)>>
  OBVIOUS
<1>1. CASE ignored
  <2>1. ms = <<>>
    BY <1>1 DEF ShortcutMessages
  <2>2. ~Forwards(k, h)
    BY <1>0, <1>1, <1>5, <1>7
  <2> QED BY <2>1, <2>2
<1>2. CASE ~ignored /\ k = "r" /\ shift
  <2>1. ms = IF once /\ live THEN <<Message("reset")>> ELSE <<>>
    BY <1>2 DEF ShortcutMessages
  <2>2. "reset" \in plain
    BY DEF CameraPlain, DisplayPlain
  <2> QED BY <1>2, <1>5, <2>1, <2>2
<1>3. CASE ~ignored /\ ~(k = "r" /\ shift) /\ cfg.camera
  <2>1. ms = CameraShortcut(k, down, once, live, shift)
    BY <1>3 DEF ShortcutMessages
  <2>2. ms = <<>> \/ ms = <<Message("torch")>> \/ ms = <<Message("zoomout")>> \/ ms = <<Message("zoomin")>>
    BY <2>1 DEF CameraShortcut
  <2>3. {"torch", "zoomout", "zoomin"} \subseteq plain
    BY <1>3 DEF CameraPlain
  <2> QED BY <1>0, <1>3, <1>5, <2>2, <2>3
<1>4. CASE ~ignored /\ ~(k = "r" /\ shift) /\ ~cfg.camera
  <2>1. ms = DeviceShortcut(k, a, once, repeat, live, shift)
    BY <1>4 DEF ShortcutMessages, Action
  <2>2. CASE k \in PressKeys
    <3>1. ms = IF cfg.keyboard /\ ~shift /\ ~repeat /\ live THEN <<Key(a, k)>> ELSE <<>>
      BY <2>1, <2>2 DEF DeviceShortcut, PressKeys, VolumeKeys
    <3> HIDE DEF a
    <3> QED BY <1>4, <1>5, <1>6, <2>2, <3>1
  <2>3. CASE k \in VolumeKeys
    <3>1. k \notin PressKeys
      BY <2>3 DEF VolumeKeys, PressKeys
    <3>2. ms = IF cfg.keyboard /\ ~shift /\ live THEN <<Key(a, k)>> ELSE <<>>
      BY <2>1, <2>3, <3>1 DEF DeviceShortcut, PressKeys, VolumeKeys
    <3> HIDE DEF a
    <3> QED BY <1>4, <1>5, <1>6, <2>3, <3>2
  <2>4. CASE k \notin PressKeys \cup VolumeKeys
    <3> DEFINE sent == {"power", "getclip", "text", "setclip", "collapse", "notifications",
                        "settings", "rotate"}
    <3>1. ms = <<>> \/ \E t \in sent : ms = <<Message(t)>>
      BY <2>1, <2>4 DEF DeviceShortcut
    <3>2. sent \subseteq plain
      BY <1>4 DEF DisplayPlain
    <3> HIDE DEF sent, plain
    <3> QED BY <1>5, <2>4, <3>1, <3>2
  <2> QED BY <2>2, <2>3, <2>4
<1> QED BY <1>1, <1>2, <1>3, <1>4

(* Concatenations of at most one message each.                             *)
LEMMA OneAndOne ==
  ASSUME NEW m, NEW n
  PROVE  /\ <<m>> \o <<n>> = <<m, n>> /\ <<m>> \o <<>> = <<m>>
         /\ <<>> \o <<n>> = <<n>> /\ <<>> \o <<>> = <<>>
<1> DEFINE S == {m, n}
           p == <<m>>
           q == <<n>>
           r == <<m, n>>
<1>1. /\ p \in Seq(S) /\ q \in Seq(S) /\ r \in Seq(S) /\ <<>> \in Seq(S)
      /\ Len(p) = 1 /\ Len(q) = 1 /\ Len(r) = 2 /\ p[1] = m /\ q[1] = n /\ r[1] = m /\ r[2] = n
  OBVIOUS
<1> HIDE DEF S, p, q, r
<1>2. /\ p \o q \in Seq(S) /\ Len(p \o q) = 2
      /\ \A i \in 1 .. 2 : (p \o q)[i] = IF i <= 1 THEN p[i] ELSE q[i - 1]
  <2>1. /\ p \o q \in Seq(S) /\ Len(p \o q) = Len(p) + Len(q)
        /\ \A i \in 1 .. Len(p) + Len(q) :
             (p \o q)[i] = IF i <= Len(p) THEN p[i] ELSE q[i - Len(p)]
    BY <1>1, ConcatProperties
  <2> QED BY <1>1, <2>1
<1>3. (p \o q)[1] = r[1] /\ (p \o q)[2] = r[2] /\ \A i \in 1 .. 2 : i = 1 \/ i = 2
  BY <1>1, <1>2
<1>4. p \o q = r
  BY <1>1, <1>2, <1>3, SeqEqual
<1>5. p \o <<>> = p /\ <<>> \o q = q /\ <<>> \o <<>> = <<>>
  BY <1>1, ConcatEmptySeq
<1> QED BY <1>4, <1>5 DEF p, q, r

(* The messages of a key.                                                  *)
LEMMA KeyMessagesFacts ==
  ASSUME cfg \in Configs, NEW k \in Keys, NEW down \in BOOLEAN, NEW repeat \in BOOLEAN, NEW h,
         NEW ms, ms = KeyMessages(k, down, repeat, h)
  PROVE  /\ \/ ms = <<>>
            \/ \E t \in (IF cfg.camera THEN CameraPlain ELSE DisplayPlain) : ms = <<Message(t)>>
            \/ ms = <<Key(Action(down), k)>> /\ ~cfg.camera /\ Forwards(k, h)
            \/ /\ ms = <<Message("setclip"), Key(Action(down), k)>>
               /\ ~cfg.camera /\ Forwards(k, h) /\ down
         /\ Forwards(k, h) /\ ~down /\ ~repeat => ms = <<Key(Action(down), k)>>
<1> DEFINE shift == "SHIFT" \in h
           ctrl == "CTRL" \in h
           a == Action(down)
           paste == cfg.autosync /\ ctrl /\ ~shift /\ k = "v" /\ down /\ ~repeat
           clipboard == IF paste THEN <<Message("setclip")>> ELSE <<>>
           conv == Convertible(KeyClass[k], cfg.typing, FALSE, shift, ctrl)
           key == IF conv THEN <<Key(a, k)>> ELSE <<>>
<1>0. cfg.camera => ~cfg.keyboard
  BY ConfigFacts
<1>1. CASE IsShortcut(k, h)
  <2>1. ms = ShortcutMessages(k, down, repeat, shift)
    BY <1>1 DEF KeyMessages
  <2> HIDE DEF shift
  <2>2. "MOD" \in h \/ k = "MOD"
    BY <1>1 DEF IsShortcut
  <2> QED BY <2>1, <2>2, ShortcutFacts DEF shift
<1>2. CASE ~IsShortcut(k, h) /\ (~cfg.keyboard \/ paused)
  <2>1. ms = <<>>
    BY <1>2 DEF KeyMessages
  <2>2. ~Forwards(k, h)
    BY <1>2 DEF Forwards
  <2> QED BY <2>1, <2>2
<1>3. CASE ~IsShortcut(k, h) /\ cfg.keyboard /\ ~paused
  <2>1. ms = IF paste /\ cfg.legacyPaste THEN <<Message("text")>>
             ELSE IF paste /\ ~Room(1) THEN <<>> ELSE clipboard \o key
    BY <1>3 DEF KeyMessages, Action
  <2>2. Forwards(k, h) <=> conv
    BY <1>3 DEF Forwards, IsShortcut
  <2>3. clipboard \o key = IF paste THEN IF conv THEN <<Message("setclip"), Key(a, k)>> ELSE <<Message("setclip")>>
                           ELSE key
    <3> HIDE DEF paste, conv, a
    <3>1. CASE paste
      BY <3>1, OneAndOne
    <3>2. CASE ~paste
      BY <3>2, OneAndOne
    <3> QED BY <3>1, <3>2
  <2>4. paste => down
    OBVIOUS
  <2>5. "text" \in DisplayPlain /\ "setclip" \in DisplayPlain /\ ~cfg.camera
    BY <1>0, <1>3 DEF DisplayPlain
  <2> HIDE DEF paste, conv, clipboard, a
  <2> QED BY <2>1, <2>2, <2>3, <2>4, <2>5 DEF a
<1> QED BY <1>1, <1>2, <1>3

(* Push, for the none, one or two messages that an event sends: as many    *)
(* are appended as there is room for.                                      *)
LEMMA PushAppends ==
  ASSUME queue \in Seq(MessagesTo(cfg.camera)), Len(queue) <= QueueLimit
  PROVE  /\ Push(<<>>) => queue' = queue
         /\ \A m \in MessagesTo(cfg.camera) : Push(<<m>>) =>
              /\ queue' \in Seq(MessagesTo(cfg.camera)) /\ Len(queue') <= QueueLimit
              /\ Room(1) => queue' = Append(queue, m)
              /\ queue' = queue \/ queue' = Append(queue, m)
         /\ \A m, n \in MessagesTo(cfg.camera) : Push(<<m, n>>) =>
              /\ queue' \in Seq(MessagesTo(cfg.camera)) /\ Len(queue') <= QueueLimit
              /\ Room(2) => queue' = Append(Append(queue, m), n)
              /\ \/ queue' = queue \/ queue' = Append(queue, m)
                 \/ queue' = Append(Append(queue, m), n)
<1> DEFINE M == MessagesTo(cfg.camera)
<1>1. Push(<<>>) => queue' = queue
  <2>1. <<>> \in Seq(M)
    OBVIOUS
  <2> QED BY <2>1, PushFacts
<1>2. ASSUME NEW m \in M, Push(<<m>>)
      PROVE  /\ queue' \in Seq(M) /\ Len(queue') <= QueueLimit
             /\ Room(1) => queue' = Append(queue, m)
             /\ queue' = queue \/ queue' = Append(queue, m)
  <2>1. <<m>> \in Seq(M) /\ Len(<<m>>) = 1
    OBVIOUS
  <2>2. Append(queue, m) = queue \o <<m>>
    BY AppendIsConcat
  <2>3. queue' = queue \o SubSeq(<<m>>, 1, IF Room(1) THEN 1 ELSE QueueLimit - Len(queue))
    BY <1>2, <2>1 DEF Push
  <2>4. ~Room(1) => QueueLimit - Len(queue) = 0
    BY LenProperties, InputAssumption DEF Room
  <2>5. SubSeq(<<m>>, 1, 0) = <<>> /\ queue \o <<>> = queue
    BY <2>1, SubSeqEmpty, ConcatEmptySeq
  <2>6. Room(1) => queue' = Append(queue, m)
    BY <1>2, <2>1, <2>2, PushFacts
  <2>7. queue' = queue \/ queue' = Append(queue, m)
    BY <2>3, <2>4, <2>5, <2>6
  <2> QED BY <1>2, <2>1, <2>2, <2>7, PushFacts
<1>3. ASSUME NEW m \in M, NEW n \in M, Push(<<m, n>>)
      PROVE  /\ queue' \in Seq(M) /\ Len(queue') <= QueueLimit
             /\ Room(2) => queue' = Append(Append(queue, m), n)
             /\ \/ queue' = queue \/ queue' = Append(queue, m)
                \/ queue' = Append(Append(queue, m), n)
  <2>1. <<m, n>> \in Seq(M) /\ Len(<<m, n>>) = 2 /\ <<m>> \in Seq(M) /\ <<n>> \in Seq(M)
    OBVIOUS
  <2>2. Append(queue, m) = queue \o <<m>> /\ Append(queue, m) \in Seq(M)
    BY AppendIsConcat, AppendProperties
  <2>3. Append(Append(queue, m), n) = Append(queue, m) \o <<n>>
    BY <2>2, AppendIsConcat
  <2>4. (queue \o <<m>>) \o <<n>> = queue \o (<<m>> \o <<n>>)
    BY <2>1, ConcatAssociative
  <2>5. Append(Append(queue, m), n) = queue \o <<m, n>>
    BY <2>2, <2>3, <2>4, OneAndOne
  <2> DEFINE p == <<m, n>>
             room == QueueLimit - Len(queue)
  <2>6. queue' = queue \o SubSeq(p, 1, IF Room(2) THEN 2 ELSE room)
    BY <1>3, <2>1 DEF Push
  <2>7. ~Room(2) => room = 0 \/ room = 1
    BY LenProperties, InputAssumption DEF Room
  <2>8. SubSeq(p, 1, 0) = <<>> /\ queue \o <<>> = queue
    BY <2>1, SubSeqEmpty, ConcatEmptySeq
  <2>9. SubSeq(p, 1, 1) = <<m>>
    <3>1. p \in Seq(M) /\ Len(p) = 2 /\ p[1] = m
      BY <2>1
    <3> HIDE DEF p, M
    <3> DEFINE r == SubSeq(p, 1, 1)
    <3>2. /\ r \in Seq(M) /\ Len(r) = IF 1 <= 1 THEN 1 - 1 + 1 ELSE 0
          /\ \A i \in 1 .. 1 - 1 + 1 : r[i] = p[1 + i - 1]
      <4>1. \A i \in 1 .. 1 : p[i] \in M
        BY <1>3, <3>1
      <4> QED BY <4>1, SubSeqProperties
    <3> HIDE DEF r
    <3>3. Len(r) = 1 /\ r[1] = m
      BY <3>1, <3>2
    <3>4. <<m>> \in Seq(M) /\ Len(<<m>>) = 1 /\ <<m>>[1] = m
      BY <2>1
    <3> DEFINE o == <<m>>
    <3> HIDE DEF o
    <3>5. r = o
      <4>1. o \in Seq(M) /\ Len(o) = 1 /\ o[1] = m
        BY <3>4 DEF o
      <4> QED BY <3>2, <3>3, <4>1, SeqEqual
    <3> QED BY <3>5 DEF r, o
  <2>10. Room(2) => queue' = Append(Append(queue, m), n)
    BY <1>3, <2>1, <2>5, PushFacts
  <2> HIDE DEF room
  <2>11. \/ queue' = queue \/ queue' = Append(queue, m)
         \/ queue' = Append(Append(queue, m), n)
    <3>1. CASE Room(2)
      BY <2>10, <3>1
    <3>2. CASE ~Room(2) /\ room = 0
      BY <2>6, <2>8, <3>2
    <3>3. CASE ~Room(2) /\ room = 1
      BY <2>2, <2>6, <2>9, <3>3
    <3> QED BY <2>7, <3>1, <3>2, <3>3
  <2> QED BY <1>3, <2>1, <2>5, <2>11, PushFacts
<1> QED BY <1>1, <1>2, <1>3

(* What the client makes are messages.                                     *)
LEMMA MadeMessages ==
  ASSUME RelayTypes
  PROVE  /\ \A t \in (IF cfg.camera THEN CameraPlain ELSE DisplayPlain) :
              Message(t) \in MessagesTo(cfg.camera) /\ Message(t).t = t
         /\ ~cfg.camera =>
              /\ \A a \in Actions, k \in Keys : Key(a, k) \in MessagesTo(cfg.camera)
              /\ \A a \in Actions : [t |-> "back", a |-> a] \in MessagesTo(cfg.camera)
              /\ \A a \in Motions, id \in Ids, b, bs \in SUBSET Buttons :
                   Touch(a, id, b, bs) \in MessagesTo(cfg.camera)
              /\ \A bs \in SUBSET Buttons : HidInput(bs) \in MessagesTo(cfg.camera)
              /\ Scroll \in MessagesTo(cfg.camera)
<1>1. frameSize \in Sizes
  BY DEF RelayTypes, InputTypeOK
<1>2. ASSUME NEW t \in (IF cfg.camera THEN CameraPlain ELSE DisplayPlain)
      PROVE  Message(t) \in MessagesTo(cfg.camera) /\ Message(t).t = t
  BY DEF Message, MessagesTo
<1>3. ASSUME NEW a \in Actions, NEW k \in Keys PROVE Key(a, k) \in KeyMsgs
  BY DEF Key, KeyMsgs
<1>4. ASSUME NEW a \in Actions PROVE [t |-> "back", a |-> a] \in BackMsgs
  BY DEF BackMsgs
<1>5. ASSUME NEW a \in Motions, NEW id \in Ids, NEW b \in SUBSET Buttons, NEW bs \in SUBSET Buttons
      PROVE  Touch(a, id, b, bs) \in TouchMsgs
  BY <1>1 DEF Touch, TouchMsgs
<1>6. ASSUME NEW bs \in SUBSET Buttons PROVE HidInput(bs) \in HidMsgs
  BY DEF HidInput, HidMsgs
<1>7. Scroll \in ScrollMsgs
  BY <1>1 DEF Scroll, ScrollMsgs
<1>8. ASSUME ~cfg.camera
      PROVE  KeyMsgs \cup BackMsgs \cup TouchMsgs \cup ScrollMsgs \cup HidMsgs \subseteq MessagesTo(cfg.camera)
  BY <1>8 DEF MessagesTo
<1> QED BY <1>2, <1>3, <1>4, <1>5, <1>6, <1>7, <1>8

(* The history variables are booleans.                                     *)
LEMMA LostTypes ==
  ASSUME RelayTypes, NEW touch, NEW key
  PROVE  /\ TouchAfter(touch) => touchLost' \in BOOLEAN
         /\ KeyAfter(key) => keyLost' \in BOOLEAN
BY DEF TouchAfter, KeyAfter, RelayTypes, InputTypeOK

(* What a user event must leave well typed.                                *)
LEMMA UserTypes ==
  ASSUME RelayTypes, NEW h \in Holdings, UserEvent(h),
         queue' \in Seq(MessagesTo(cfg.camera)), Len(queue') <= QueueLimit,
         paused' \in BOOLEAN, vfingerDown' \in BOOLEAN, capture' \in BOOLEAN,
         touchLost' \in BOOLEAN, keyLost' \in BOOLEAN,
         disconnected' = disconnected, buttonsState' \in SUBSET Buttons,
         frameSize' \in Sizes, resumeSize' \in {0} \cup Sizes,
         lastPress' \in Clicks,
         cfg.mouse = "none" => buttonsState' = {},
         cfg.mouse # "sdk" => ~vfingerDown'
  PROVE  RelayTypes'
<1>1. /\ cfg' = cfg /\ events' = events + 1 /\ events < cfg.limit /\ held' = h
      /\ mapperSize' = mapperSize /\ pointers' = pointers /\ alive' = alive
      /\ touching' = touching /\ legal' = legal /\ devKeys' = devKeys
      /\ hidButtons' = hidButtons /\ screenOn' = screenOn
  BY DEF UserEvent, serverVars
<1>2. events' \in 0 .. cfg'.limit
  BY <1>1, ConfigFacts DEF RelayTypes, InputTypeOK
<1>3. InputTypeOK'
  BY <1>1, <1>2 DEF RelayTypes, InputTypeOK, PointersDistinct, Holdings
<1> QED BY <1>1, <1>3 DEF RelayTypes, ServerAccepts

QueueOK == queue' \in Seq(MessagesTo(cfg.camera)) /\ Len(queue') <= QueueLimit

(* A push of messages of this session keeps the queue typed and bounded.   *)
LEMMA TypeFacts ==
  ASSUME RelayTypes
  PROVE  /\ queue \in Seq(MessagesTo(cfg.camera)) /\ Len(queue) <= QueueLimit /\ cfg \in Configs
         /\ Push(<<>>) => QueueOK
         /\ UNCHANGED queue => QueueOK
         /\ \A m \in MessagesTo(cfg.camera) : Push(<<m>>) => QueueOK
         /\ \A m, n \in MessagesTo(cfg.camera) : Push(<<m, n>>) => QueueOK
<1>1. queue \in Seq(MessagesTo(cfg.camera)) /\ Len(queue) <= QueueLimit /\ cfg \in Configs
  BY DEF RelayTypes, InputTypeOK
<1> QED BY <1>1, PushAppends DEF QueueOK

(* The same for what a key sends.                                          *)
LEMMA KeyQueue ==
  ASSUME RelayTypes, NEW k \in Keys, NEW down \in BOOLEAN, NEW repeat \in BOOLEAN, NEW h,
         NEW ms, ms = KeyMessages(k, down, repeat, h), Push(ms)
  PROVE  QueueOK
<1>1. Action(down) \in Actions
  BY DEF Action, Actions
<1>2. CASE ms = <<>>
  BY <1>2, TypeFacts
<1>3. CASE \E t \in (IF cfg.camera THEN CameraPlain ELSE DisplayPlain) : ms = <<Message(t)>>
  BY <1>3, TypeFacts, MadeMessages
<1>4. CASE ms = <<Key(Action(down), k)>> /\ ~cfg.camera
  BY <1>1, <1>4, TypeFacts, MadeMessages
<1>5. CASE ms = <<Message("setclip"), Key(Action(down), k)>> /\ ~cfg.camera
  <2>1. "setclip" \in DisplayPlain
    BY DEF DisplayPlain
  <2> QED BY <1>1, <1>5, <2>1, TypeFacts, MadeMessages
<1>6. cfg \in Configs
  BY TypeFacts
<1> QED BY <1>2, <1>3, <1>4, <1>5, <1>6, KeyMessagesFacts

(* An event of a key preserves the types.                                  *)
LEMMA KeyTypes ==
  ASSUME RelayTypes, NEW k \in Keys, NEW down \in BOOLEAN, NEW repeat \in BOOLEAN,
         NEW h \in Holdings, KeyEvent(k, down, repeat, h)
  PROVE  RelayTypes'
<1>0. UserEvent(h) /\ cfg \in Configs
  BY TypeFacts DEF KeyEvent
<1>1. /\ paused \in BOOLEAN /\ vfingerDown \in BOOLEAN /\ capture \in BOOLEAN
      /\ buttonsState \in SUBSET Buttons /\ frameSize \in Sizes /\ resumeSize \in {0} \cup Sizes
      /\ lastPress \in Clicks
      /\ cfg.mouse = "none" => buttonsState = {}
      /\ cfg.mouse # "sdk" => ~vfingerDown
  BY DEF RelayTypes, InputTypeOK
<1>2. CASE Relative /\ k = "MOD"
  <2>1. Captures(k, down, repeat)
    BY <1>2 DEF KeyEvent
  <2>2. /\ paused' = paused /\ disconnected' = disconnected /\ buttonsState' = buttonsState
        /\ vfingerDown' = vfingerDown /\ frameSize' = frameSize /\ resumeSize' = resumeSize
        /\ queue' = queue /\ lastPress' = lastPress
    BY <2>1 DEF Captures
  <2>3. capture' \in BOOLEAN
    BY <1>1, <2>1 DEF Captures, CaptureKeyDown, CaptureKeyUp
  <2>4. touchLost' \in BOOLEAN /\ keyLost' \in BOOLEAN
    BY <2>1, LostTypes DEF Captures
  <2>5. QueueOK
    BY <2>2, TypeFacts
  <2> QED BY <1>0, <1>1, <2>2, <2>3, <2>4, <2>5, UserTypes DEF QueueOK
<1>3. CASE ~(Relative /\ k = "MOD")
  <2> DEFINE ms == KeyMessages(k, down, repeat, h)
  <2>1. ProcessKey(k, down, repeat, h) /\ capture' = capture
    BY <1>3 DEF KeyEvent
  <2>2. /\ disconnected' = disconnected /\ buttonsState' = buttonsState
        /\ vfingerDown' = vfingerDown /\ lastPress' = lastPress /\ Push(ms)
    BY <2>1 DEF ProcessKey
  <2>3. QueueOK
    BY <2>2, KeyQueue
  <2>4. /\ paused' \in BOOLEAN /\ frameSize' \in Sizes /\ resumeSize' \in {0} \cup Sizes
    BY <1>1, <2>1 DEF ProcessKey, SetPaused
  <2>5. touchLost' \in BOOLEAN /\ keyLost' \in BOOLEAN
    BY <2>1, LostTypes DEF ProcessKey
  <2> QED BY <1>0, <1>1, <2>1, <2>2, <2>3, <2>4, <2>5, UserTypes DEF QueueOK
<1> QED BY <1>2, <1>3

(* The messages of a button.                                               *)
LEMMA BoundFacts ==
  ASSUME RelayTypes, NEW binding, NEW down \in BOOLEAN, NEW a, a = (IF down THEN "DOWN" ELSE "UP"),
         NEW ms, ms = BoundMessages(binding, a), ~cfg.camera
  PROVE  \/ ms = <<[t |-> "back", a |-> Action(down)]>> /\ binding = "back" /\ cfg.keyboard
         \/ ms = <<Key(Action(down), "h")>> /\ binding = "home" /\ cfg.keyboard
         \/ ms = <<Message("notifications")>>
         \/ ms = <<>> /\ ~(binding \in {"back", "home"} /\ cfg.keyboard)
BY DEF BoundMessages, Action

(* The messages of a click, case by case.                                  *)
LEMMA ClickFacts ==
  ASSUME NEW b \in Buttons, NEW down \in BOOLEAN, NEW a, down => a = "DOWN", ~down => a = "UP",
         NEW bs
  PROVE  /\ Relative => ClickMessages(b, a, bs) = <<HidInput(bs)>>
         /\ ~Relative /\ ChangesVfinger(b, down) =>
              ClickMessages(b, a, bs) = <<Touch(a, "generic", {b}, bs), VirtualFinger(a)>>
         /\ ~Relative /\ ~ChangesVfinger(b, down) /\ vfingerDown =>
              ClickMessages(b, a, bs) = <<Touch(a, "generic", {b}, bs)>>
         /\ ~Relative /\ ~ChangesVfinger(b, down) /\ ~vfingerDown =>
              ClickMessages(b, a, bs) = <<Touch(a, "mouse", {b}, bs)>>
<1> DEFINE change == ChangesVfinger(b, down)
           id == IF vfingerDown \/ change THEN "generic" ELSE "mouse"
<1>1. (a = "DOWN") <=> down
  OBVIOUS
<1>2. ChangesVfinger(b, a = "DOWN") <=> change
  BY <1>1 DEF ChangesVfinger
<1>3. ClickMessages(b, a, bs) =
        IF Relative THEN <<HidInput(bs)>>
        ELSE <<Touch(a, id, {b}, bs)>> \o (IF change THEN <<VirtualFinger(a)>> ELSE <<>>)
  <2>1. (IF vfingerDown \/ ChangesVfinger(b, a = "DOWN") THEN "generic" ELSE "mouse") = id
    BY <1>2
  <2> QED BY <1>2, <2>1 DEF ClickMessages
<1> HIDE DEF change
<1>4. Relative => ClickMessages(b, a, bs) = <<HidInput(bs)>>
  BY <1>3
<1>5. ~Relative /\ change => ClickMessages(b, a, bs) = <<Touch(a, "generic", {b}, bs), VirtualFinger(a)>>
  BY <1>3, OneAndOne
<1>6. ~Relative /\ ~change /\ vfingerDown => ClickMessages(b, a, bs) = <<Touch(a, "generic", {b}, bs)>>
  BY <1>3, OneAndOne
<1>7. ~Relative /\ ~change /\ ~vfingerDown => ClickMessages(b, a, bs) = <<Touch(a, "mouse", {b}, bs)>>
  BY <1>3, OneAndOne
<1> QED BY <1>4, <1>5, <1>6, <1>7 DEF change

(* An event of a button preserves the types.                               *)
LEMMA ButtonTypes ==
  ASSUME RelayTypes, NEW b \in Buttons, NEW down \in BOOLEAN, NEW clicks \in {1, 2},
         NEW outside \in BOOLEAN, NEW h \in Holdings,
         ButtonEvent(b, down, clicks, outside, h),
         lastPress' \in Clicks
  PROVE  RelayTypes'
<1>0. UserEvent(h) /\ cfg \in Configs
  BY TypeFacts DEF ButtonEvent
<1>1. /\ paused \in BOOLEAN /\ vfingerDown \in BOOLEAN /\ capture \in BOOLEAN
      /\ buttonsState \in SUBSET Buttons /\ frameSize \in Sizes /\ resumeSize \in {0} \cup Sizes
      /\ cfg.mouse = "none" => buttonsState = {}
      /\ cfg.mouse # "sdk" => ~vfingerDown
  BY DEF RelayTypes, InputTypeOK
<1>2. /\ paused' = paused /\ disconnected' = disconnected /\ frameSize' = frameSize
      /\ resumeSize' = resumeSize
  BY DEF ButtonEvent
<1>3. CASE Relative /\ ~capture
  <2>1. /\ buttonsState' = buttonsState /\ vfingerDown' = vfingerDown /\ queue' = queue
        /\ capture' = ~down /\ touchLost' \in BOOLEAN /\ keyLost' \in BOOLEAN
    BY <1>3, LostTypes DEF ButtonEvent
  <2>2. QueueOK
    BY <2>1, TypeFacts
  <2> QED BY <1>0, <1>1, <1>2, <2>1, <2>2, UserTypes DEF QueueOK
<1>4. CASE ~(Relative /\ ~capture)
  <2>1. ProcessButton(b, down, clicks, outside) /\ capture' = capture
    BY <1>4 DEF ButtonEvent
  <2>2. touchLost' \in BOOLEAN /\ keyLost' \in BOOLEAN
    BY <2>1, LostTypes DEF ProcessButton
  <2>3. CASE cfg.camera \/ disconnected
    <3>1. buttonsState' = buttonsState /\ vfingerDown' = vfingerDown /\ queue' = queue
      BY <2>1, <2>3 DEF ProcessButton
    <3>2. QueueOK
      BY <3>1, TypeFacts
    <3> QED BY <1>0, <1>1, <1>2, <2>1, <2>2, <3>1, <3>2, UserTypes DEF QueueOK
  <2>4. CASE ~(cfg.camera \/ disconnected)
    <3> DEFINE a == IF down THEN "DOWN" ELSE "UP"
               bound == cfg.control /\ ~paused /\ Binding(b) # "click"
               border == OnBorder(b, clicks, outside)
               bs == IF down THEN buttonsState \cup {b} ELSE buttonsState \ {b}
               ms == IF bound THEN BoundMessages(Binding(b), a)
                     ELSE IF border \/ cfg.mouse = "none" \/ paused THEN <<>>
                     ELSE ClickMessages(b, a, bs)
               sent == ~bound /\ ~border /\ cfg.mouse # "none" /\ ~paused
    <3>1. /\ Push(ms) /\ buttonsState' = IF sent THEN bs ELSE Released(b, down)
          /\ vfingerDown' = IF sent /\ ~Relative /\ ChangesVfinger(b, down) /\ Room(Len(ms))
                            THEN down ELSE vfingerDown
      BY <2>1, <2>4 DEF ProcessButton
    <3>2. bs \in SUBSET Buttons /\ a \in Motions /\ Action(down) \in Actions
      BY <1>1 DEF Motions, Action, Actions
    <3>3. QueueOK
      <4>1. CASE bound
        <5>1. "h" \in Keys /\ "notifications" \in DisplayPlain
          BY DEF Keys, PressKeys, DisplayPlain
        <5>2. \/ ms = <<[t |-> "back", a |-> Action(down)]>> \/ ms = <<Key(Action(down), "h")>>
              \/ ms = <<Message("notifications")>> \/ ms = <<>>
          <6>1. ms = BoundMessages(Binding(b), a)
            BY <4>1
          <6> HIDE DEF ms
          <6> QED BY <2>4, <6>1, BoundFacts DEF a
        <5> HIDE DEF ms
        <5> QED BY <2>4, <3>1, <3>2, <5>1, <5>2, TypeFacts, MadeMessages
      <4>2. CASE ~bound /\ ~(border \/ cfg.mouse = "none" \/ paused)
        <5>1. ms = ClickMessages(b, a, bs)
          BY <4>2
        <5> HIDE DEF ms, bs, a
        <5>2. \/ ms = <<HidInput(bs)>>
              \/ ms = <<Touch(a, "generic", {b}, bs), VirtualFinger(a)>>
              \/ ms = <<Touch(a, "generic", {b}, bs)>>
              \/ ms = <<Touch(a, "mouse", {b}, bs)>>
          <6>1. (down => a = "DOWN") /\ (~down => a = "UP")
            BY DEF a
          <6>2. CASE Relative
            BY <5>1, <6>1, <6>2, ClickFacts
          <6>3. CASE ~Relative /\ ChangesVfinger(b, down)
            BY <5>1, <6>1, <6>3, ClickFacts
          <6>4. CASE ~Relative /\ ~ChangesVfinger(b, down) /\ vfingerDown
            BY <5>1, <6>1, <6>4, ClickFacts
          <6>5. CASE ~Relative /\ ~ChangesVfinger(b, down) /\ ~vfingerDown
            BY <5>1, <6>1, <6>5, ClickFacts
          <6> QED BY <6>2, <6>3, <6>4, <6>5
        <5>3. {"generic", "mouse", "virtual"} \subseteq Ids /\ {b} \in SUBSET Buttons /\ {} \in SUBSET Buttons
          BY DEF Ids
        <5>4. \A x \in {"generic", "mouse"} : Touch(a, x, {b}, bs) \in MessagesTo(cfg.camera)
          BY <2>4, <3>2, <5>3, MadeMessages
        <5>5. VirtualFinger(a) \in MessagesTo(cfg.camera)
          BY <2>4, <3>2, <5>3, MadeMessages DEF VirtualFinger
        <5>6. HidInput(bs) \in MessagesTo(cfg.camera)
          BY <2>4, <3>2, MadeMessages
        <5> QED BY <3>1, <5>2, <5>4, <5>5, <5>6, TypeFacts
      <4>3. CASE ~bound /\ (border \/ cfg.mouse = "none" \/ paused)
        <5>1. ms = <<>>
          BY <4>3
        <5> QED BY <3>1, <5>1, TypeFacts
      <4> QED BY <4>1, <4>2, <4>3
    <3>4. buttonsState' \in SUBSET Buttons /\ (cfg.mouse = "none" => buttonsState' = {})
      BY <1>1, <3>1, <3>2 DEF Released
    <3>5. vfingerDown' \in BOOLEAN
      BY <1>1, <3>1
    <3>6. cfg.mouse # "sdk" => ~vfingerDown'
      <4>1. cfg.mouse \in {"none", "sdk", "relative"}
        BY <1>0, ConfigFacts
      <4> QED BY <1>1, <3>1, <4>1 DEF Relative
    <3> QED BY <1>0, <1>1, <1>2, <2>1, <2>2, <3>3, <3>4, <3>5, <3>6, UserTypes DEF QueueOK
  <2> QED BY <2>3, <2>4
<1> QED BY <1>3, <1>4

(* The messages of a motion and of the wheel.                              *)
LEMMA MotionFacts ==
  ASSUME RelayTypes
  PROVE  \/ Relative /\ MotionMessages = <<HidInput(buttonsState)>>
         \/ /\ ~Relative /\ ~vfingerDown /\ buttonsState = {} /\ ~cfg.hover
            /\ MotionMessages = <<>>
         \/ /\ ~Relative /\ ~vfingerDown /\ ~(buttonsState = {} /\ ~cfg.hover)
            /\ MotionMessages = <<Touch(IF buttonsState = {} THEN "HOVER" ELSE "MOVE", "mouse", {}, buttonsState)>>
         \/ /\ ~Relative /\ vfingerDown /\ buttonsState = {} /\ ~cfg.hover
            /\ MotionMessages = <<VirtualFinger("MOVE")>>
         \/ /\ ~Relative /\ vfingerDown /\ ~(buttonsState = {} /\ ~cfg.hover)
            /\ MotionMessages = <<Touch(IF buttonsState = {} THEN "HOVER" ELSE "MOVE", "generic", {}, buttonsState),
                                  VirtualFinger("MOVE")>>
<1> DEFINE x == Touch(IF buttonsState = {} THEN "HOVER" ELSE "MOVE",
                      IF vfingerDown THEN "generic" ELSE "mouse", {}, buttonsState)
           silent == buttonsState = {} /\ ~cfg.hover
<1>1. MotionMessages = IF Relative THEN <<HidInput(buttonsState)>>
        ELSE (IF silent THEN <<>> ELSE <<x>>) \o (IF vfingerDown THEN <<VirtualFinger("MOVE")>> ELSE <<>>)
  BY DEF MotionMessages
<1>2. x = IF vfingerDown THEN Touch(IF buttonsState = {} THEN "HOVER" ELSE "MOVE", "generic", {}, buttonsState)
          ELSE Touch(IF buttonsState = {} THEN "HOVER" ELSE "MOVE", "mouse", {}, buttonsState)
  OBVIOUS
<1> HIDE DEF x, silent
<1>3. \/ Relative /\ MotionMessages = <<HidInput(buttonsState)>>
      \/ ~Relative /\ ~vfingerDown /\ silent /\ MotionMessages = <<>>
      \/ ~Relative /\ ~vfingerDown /\ ~silent /\ MotionMessages = <<x>>
      \/ ~Relative /\ vfingerDown /\ silent /\ MotionMessages = <<VirtualFinger("MOVE")>>
      \/ ~Relative /\ vfingerDown /\ ~silent /\ MotionMessages = <<x, VirtualFinger("MOVE")>>
  BY <1>1, OneAndOne
<1> QED BY <1>2, <1>3 DEF silent

(* A motion of the mouse preserves the types.                              *)
LEMMA MotionTypes ==
  ASSUME RelayTypes, Motion
  PROVE  RelayTypes'
<1> DEFINE ms == IF Silent \/ (Relative /\ ~capture) THEN <<>> ELSE MotionMessages
<1>1. UserEvent(held) /\ Push(ms) /\ UNCHANGED <<clientVars, lastPress>>
      /\ touchLost' \in BOOLEAN /\ keyLost' \in BOOLEAN
  BY LostTypes DEF Motion
<1>2. buttonsState \in SUBSET Buttons
  BY DEF RelayTypes, InputTypeOK
<1>3. QueueOK
  <2>1. CASE Silent \/ (Relative /\ ~capture)
    <3>1. ms = <<>>
      BY <2>1
    <3> QED BY <1>1, <3>1, TypeFacts
  <2>2. CASE ~(Silent \/ (Relative /\ ~capture))
    <3>1. ms = MotionMessages /\ ~cfg.camera
      BY <2>2 DEF Silent
    <3> HIDE DEF ms
    <3>2. /\ HidInput(buttonsState) \in MessagesTo(cfg.camera)
          /\ VirtualFinger("MOVE") \in MessagesTo(cfg.camera)
          /\ \A x \in {"mouse", "generic"} :
               Touch(IF buttonsState = {} THEN "HOVER" ELSE "MOVE", x, {}, buttonsState) \in MessagesTo(cfg.camera)
      <4>1. /\ {"HOVER", "MOVE"} \subseteq Motions /\ {"mouse", "generic", "virtual"} \subseteq Ids
            /\ (IF buttonsState = {} THEN "HOVER" ELSE "MOVE") \in Motions /\ {} \in SUBSET Buttons
        BY DEF Motions, Ids
      <4> QED BY <1>2, <3>1, <4>1, MadeMessages DEF VirtualFinger
    <3> QED BY <1>1, <3>1, <3>2, TypeFacts, MotionFacts
  <2> QED BY <2>1, <2>2
<1> QED BY <1>1, <1>3, UserTypes DEF QueueOK, RelayTypes, InputTypeOK, clientVars, Holdings

(* So does any event that sends at most one message and leaves the input   *)
(* manager as it is.                                                       *)
LEMMA OneMessageTypes ==
  ASSUME RelayTypes, NEW h \in Holdings, UserEvent(h),
         NEW ms, Push(ms), ms = <<>> \/ (\E m \in MessagesTo(cfg.camera) : ms = <<m>>),
         UNCHANGED <<clientVars, lastPress>>, touchLost' \in BOOLEAN, keyLost' \in BOOLEAN
  PROVE  RelayTypes'
<1>1. QueueOK
  BY TypeFacts
<1> QED BY <1>1, UserTypes DEF QueueOK, RelayTypes, InputTypeOK, clientVars, Holdings

(* The wheel.                                                              *)
LEMMA WheelTypes ==
  ASSUME RelayTypes, Wheel
  PROVE  RelayTypes'
<1>1. ~cfg.camera => ScrollReport \in MessagesTo(cfg.camera) /\ Scroll \in MessagesTo(cfg.camera)
  BY MadeMessages DEF ScrollReport
<1>2. PICK ms : Push(ms) /\ (ms = <<>> \/ (~cfg.camera /\ (ms = <<ScrollReport>> \/ ms = <<Scroll>>)))
  BY DEF Wheel
<1>3. UserEvent(held) /\ UNCHANGED <<clientVars, lastPress>> /\ held \in Holdings
      /\ touchLost' \in BOOLEAN /\ keyLost' \in BOOLEAN
  BY LostTypes DEF Wheel, RelayTypes, InputTypeOK, Holdings
<1> QED BY <1>1, <1>2, <1>3, OneMessageTypes

(* A finger.                                                               *)
LEMMA FingerTypes ==
  ASSUME RelayTypes, NEW f \in Fingers, NEW a \in {"DOWN", "UP", "MOVE"},
         NEW h \in Holdings, Finger(f, a, h)
  PROVE  RelayTypes'
<1> DEFINE ms == IF Silent \/ Relative THEN <<>> ELSE <<Touch(a, f, {}, {})>>
<1>1. a \in Motions /\ f \in Ids /\ {} \in SUBSET Buttons
  BY DEF Motions, Ids
<1>2. ms = <<>> \/ (\E m \in MessagesTo(cfg.camera) : ms = <<m>>)
  BY <1>1, MadeMessages DEF Silent
<1>3. Push(ms) /\ UserEvent(h) /\ UNCHANGED <<clientVars, lastPress>>
      /\ touchLost' \in BOOLEAN /\ keyLost' \in BOOLEAN
  BY LostTypes DEF Finger
<1> QED BY <1>2, <1>3, OneMessageTypes

(* A text event.                                                           *)
LEMMA TextTypes ==
  ASSUME RelayTypes, NEW class, TextInput(class)
  PROVE  RelayTypes'
<1> DEFINE ms == IF ~cfg.keyboard \/ paused \/ disconnected \/ "MOD" \in held
                   \/ ~TextSends(class, cfg.typing) THEN <<>> ELSE <<Message("text")>>
<1>1. cfg.camera => ~cfg.keyboard
  BY TypeFacts, ConfigFacts
<1>2. ms = <<>> \/ (\E m \in MessagesTo(cfg.camera) : ms = <<m>>)
  <2>1. ~cfg.camera => Message("text") \in MessagesTo(cfg.camera)
    BY MadeMessages DEF DisplayPlain
  <2> QED BY <1>1, <2>1
<1>3. Push(ms) /\ UserEvent(held) /\ UNCHANGED <<clientVars, lastPress>>
      /\ touchLost' \in BOOLEAN /\ keyLost' \in BOOLEAN /\ held \in Holdings
  BY DEF TextInput, RelayTypes, InputTypeOK, Holdings
<1> QED BY <1>2, <1>3, OneMessageTypes

(* The loss of the focus.                                                  *)
LEMMA FocusTypes ==
  ASSUME RelayTypes, FocusLost
  PROVE  RelayTypes'
<1>1. touchLost' \in BOOLEAN /\ keyLost' \in BOOLEAN
  BY LostTypes DEF FocusLost
<1>2. QueueOK /\ UserEvent(held) /\ capture' = FALSE
      /\ UNCHANGED <<paused, disconnected, buttonsState, vfingerDown, lastKey,
                     keyRepeat, captureKey, frameSize, resumeSize, queue, lastPress>>
  BY TypeFacts DEF FocusLost
<1> QED BY <1>1, <1>2, UserTypes DEF QueueOK, RelayTypes, InputTypeOK, Holdings

(* What the device and the screen do.                                      *)
LEMMA OtherTypes ==
  ASSUME RelayTypes, Rotate \/ NewFrameSize \/ Disconnected \/ WheelCrash
  PROVE  RelayTypes'
<1>0. 1 \in Sizes /\ 2 \in Sizes
  BY DEF Sizes
<1>1. CASE Rotate
  BY <1>0, <1>1 DEF Rotate, RelayTypes, InputTypeOK, ServerAccepts, PointersDistinct, userVars, clientVars
<1>2. CASE NewFrameSize
  BY <1>2 DEF NewFrameSize, RelayTypes, InputTypeOK, ServerAccepts, PointersDistinct, userVars, serverVars
<1>3. CASE Disconnected
  BY <1>3 DEF Disconnected, RelayTypes, InputTypeOK, ServerAccepts, PointersDistinct, userVars
<1>4. CASE WheelCrash
  <2>1. events' = cfg.limit /\ cfg' = cfg /\ cfg.limit \in 0 .. cfg.limit
    BY <1>4, TypeFacts, ConfigFacts DEF WheelCrash
  <2> QED BY <1>4, <2>1 DEF WheelCrash, RelayTypes, InputTypeOK, ServerAccepts, PointersDistinct
<1> QED BY <1>1, <1>2, <1>3, <1>4

(* The server.                                                             *)
LEMMA InjectFacts ==
  ASSUME RelayTypes, NEW m \in TouchMsgs, InjectTouch(m)
  PROVE  /\ pointers' \in PointerList /\ WellFormed(pointers')
         /\ touching' \subseteq LocalIds /\ legal' \in BOOLEAN
<1> DEFINE ps == WithPointer(pointers, m.id)
           index == IndexOf(ps, m.id)
           local == ps[index].local
           action == Injected(m, MultiAction(m.a, Len(ps)))
<1>0. /\ pointers \in PointerList /\ WellFormed(pointers) /\ touching \subseteq LocalIds
      /\ legal \in BOOLEAN /\ touchLost \in BOOLEAN /\ m.id \in Ids
  BY DEF RelayTypes, InputTypeOK, PointersDistinct, TouchMsgs
<1>1. ps \in PointerList /\ WellFormed(ps)
  BY <1>0, WithFacts
<1>2. CASE m.size # mapperSize \/ index = 0
  BY <1>0, <1>2 DEF InjectTouch
<1>3. CASE ~(m.size # mapperSize \/ index = 0)
  <2>1. /\ pointers' = IF PointerUp(m) THEN CleanUp(ps, index) ELSE ps
        /\ touching' = TouchingAfter(action, local)
        /\ legal' = (legal /\ (touchLost \/ Consistent(action, UsedLocalIds(ps), local)))
    BY <1>3 DEF InjectTouch
  <2>2. index \in DOMAIN ps
    BY <1>1, <1>3, IndexFacts
  <2> HIDE DEF ps, index, action
  <2>3. local \in LocalIds
    BY <1>1, <2>2, ListFacts
  <2>4. CleanUp(ps, index) \in PointerList /\ WellFormed(CleanUp(ps, index))
    BY <1>1, <2>2, CleanFacts
  <2>5. legal' \in BOOLEAN
    BY <2>1
  <2>6. touching' \subseteq LocalIds
    BY <1>0, <2>1, <2>3 DEF TouchingAfter
  <2> QED BY <1>1, <2>1, <2>4, <2>5, <2>6
<1> QED BY <1>2, <1>3

(* The server takes a message: it is accepted, and the lists stay typed.   *)
LEMMA HandleTypes ==
  ASSUME RelayTypes, HandleEvent
  PROVE  RelayTypes' /\ alive'
<1> DEFINE M == MessagesTo(cfg.camera)
           m == Head(queue)
<1>1. /\ queue \in Seq(M) /\ queue # <<>> /\ queue' = Tail(queue) /\ Len(queue) <= QueueLimit
      /\ cfg.camera \in BOOLEAN /\ alive
  BY TypeFacts, ConfigFacts DEF HandleEvent
<1>2. m \in M /\ Tail(queue) \in Seq(M) /\ Len(Tail(queue)) = Len(queue) - 1 /\ Len(queue) \in Nat
  BY <1>1, HeadTailProperties, LenProperties
<1> HIDE DEF m
<1>3. /\ m.t \in Known /\ ServerReads(m.t) = m.t
      /\ (cfg.camera => m.t \in CameraPlain) /\ (~cfg.camera => m.t \notin CameraPlain \ {"reset"})
  BY <1>1, <1>2, MessageFacts, WireAgrees
<1>4. Handled(m.t)
  BY <1>3 DEF Handled, Known, Plain, CameraPlain, DisplayPlain, CameraTypes, DisplayTypes
<1>5. /\ alive' = Handled(m.t)
      /\ IF m.t = "touch" THEN InjectTouch(m) ELSE UNCHANGED <<pointers, touching, legal>>
      /\ hidButtons' = IF m.t = "input" THEN m.buttons ELSE hidButtons
      /\ CASE m.t = "keycode" -> InjectKey(m.a, m.key)
           [] m.t = "back" -> PressBackOrTurnScreenOn(m.a)
           [] OTHER -> UNCHANGED <<devKeys, screenOn>>
      /\ UNCHANGED <<userVars, clientVars, mapperSize>>
  BY <1>3 DEF HandleEvent, m
<1>6. /\ touchLost' \in BOOLEAN /\ keyLost' \in BOOLEAN
  BY LostTypes DEF HandleEvent
<1>7. /\ pointers' \in PointerList /\ WellFormed(pointers')
      /\ touching' \subseteq LocalIds /\ legal' \in BOOLEAN
  <2>1. CASE m.t = "touch"
    <3>1. m \in TouchMsgs
      BY <1>1, <1>2, <2>1, MessageFacts
    <3> QED BY <1>5, <2>1, <3>1, InjectFacts
  <2>2. CASE m.t # "touch"
    BY <1>5, <2>2 DEF RelayTypes, InputTypeOK, PointersDistinct
  <2> QED BY <2>1, <2>2
<1>8. hidButtons' \subseteq Buttons
  BY <1>1, <1>2, <1>5, MessageFacts DEF RelayTypes, InputTypeOK
<1>9. devKeys' \subseteq Keys /\ screenOn' \in BOOLEAN
  <2>0. devKeys \subseteq Keys /\ screenOn \in BOOLEAN /\ "b" \in Keys
    BY DEF RelayTypes, InputTypeOK, Keys, PressKeys
  <2>1. CASE m.t = "keycode"
    BY <1>1, <1>2, <1>5, <2>0, <2>1, MessageFacts DEF InjectKey
  <2>2. CASE m.t = "back"
    BY <1>5, <2>0, <2>2 DEF PressBackOrTurnScreenOn, InjectKey
  <2>3. CASE m.t # "keycode" /\ m.t # "back"
    BY <1>5, <2>0, <2>3
  <2> QED BY <2>1, <2>2, <2>3
<1>10. Len(queue') <= QueueLimit
  BY <1>1, <1>2, InputAssumption
<1>11. InputTypeOK'
  BY <1>5, <1>6, <1>7, <1>8, <1>9, <1>10, <1>4
     DEF RelayTypes, InputTypeOK, PointersDistinct, userVars, clientVars
<1> QED BY <1>1, <1>2, <1>4, <1>5, <1>7, <1>11 DEF RelayTypes, ServerAccepts, userVars, clientVars

(* The types hold initially.                                               *)
LEMMA TypesInit == InputInit => RelayTypes
<1> SUFFICES ASSUME InputInit PROVE RelayTypes
  OBVIOUS
<1>0. cfg \in Configs /\ cfg.limit \in Nat /\ MaxPointers \in Nat \ {0} /\ QueueLimit \in Nat
  BY ConfigFacts, PointersAssumption, InputAssumption DEF InputInit
<1>1. <<>> \in Seq(MessagesTo(cfg.camera)) /\ <<>> \in PointerList /\ Len(<<>>) = 0 /\ DOMAIN <<>> = {}
  BY EmptySeq DEF PointerList
<1>2. UsedLocalIds(<<>>) = {}
  BY <1>1 DEF UsedLocalIds
<1>3. WellFormed(<<>>)
  BY <1>0, <1>1, <1>2 DEF WellFormed
<1>4. InputTypeOK
  <2>1. cfg \in Configs /\ events \in 0 .. cfg.limit /\ held = {} /\ buttonsState = {}
        /\ Len(queue) <= QueueLimit /\ touching = {} /\ devKeys = {} /\ hidButtons = {}
        /\ frameSize = 1 /\ mapperSize = 1 /\ resumeSize = 0 /\ PointersDistinct
    BY <1>0, <1>1, <1>3 DEF InputInit, PointersDistinct
  <2>2. {paused, disconnected, vfingerDown, capture, alive, legal, screenOn,
         touchLost, keyLost} \subseteq BOOLEAN
    <3>1. capture \in BOOLEAN
      BY DEF InputInit
    <3> QED BY <3>1 DEF InputInit
  <2> QED BY <2>1, <2>2 DEF InputTypeOK, Sizes
<1> QED BY <1>0, <1>1, <1>4 DEF InputInit, RelayTypes, ServerAccepts, Clicks

(* Every step preserves the types.                                         *)
LEMMA TypesNext == RelayTypes /\ [InputNext]_inputVars => RelayTypes'
<1> SUFFICES ASSUME RelayTypes, [InputNext]_inputVars PROVE RelayTypes'
  OBVIOUS
<1>0. /\ held \in Holdings
      /\ lastPress \in Clicks
  BY DEF RelayTypes, InputTypeOK, Holdings
<1>1. ASSUME NEW k \in Keys, KeyPress(k) \/ KeyRepeat(k) \/ KeyRelease(k) PROVE RelayTypes'
  <2>1. held \cup {k} \in Holdings /\ held \ {k} \in Holdings
    BY <1>0 DEF Holdings
  <2> QED BY <1>0, <1>1, <2>1, KeyTypes DEF KeyPress, KeyRepeat, KeyRelease
<1>2. ASSUME NEW class \in {"alpha", "punct"}, TextInput(class) PROVE RelayTypes'
  BY <1>2, TextTypes
<1>3. ASSUME NEW b \in Buttons, NEW outside \in BOOLEAN, NEW clicks \in {1, 2},
             ButtonPress(b, clicks, outside)
      PROVE  RelayTypes'
  <2>1. held \cup {b} \in Holdings
    BY <1>0 DEF Holdings
  <2>2. lastPress' \in Clicks
    BY <1>0, <1>3 DEF ButtonPress, Clicks
  <2>3. ButtonEvent(b, TRUE, clicks, outside, held \cup {b})
    BY <1>3 DEF ButtonPress
  <2>4. TRUE \in BOOLEAN /\ b \in Buttons /\ outside \in BOOLEAN /\ clicks \in {1, 2}
    OBVIOUS
  <2> QED BY <2>1, <2>2, <2>3, <2>4, ButtonTypes
<1>4. ASSUME NEW b \in Buttons, NEW outside \in BOOLEAN, ButtonRelease(b, outside)
      PROVE  RelayTypes'
  <2> DEFINE clicks == IF b = Left THEN lastPress.clicks ELSE 1
  <2>1. held \ {b} \in Holdings
    BY <1>0 DEF Holdings
  <2>2. lastPress' \in Clicks /\ clicks \in {1, 2}
    BY <1>0, <1>4 DEF ButtonRelease, Clicks
  <2>3. ButtonEvent(b, FALSE, clicks, outside, held \ {b})
    BY <1>4 DEF ButtonRelease
  <2>4. FALSE \in BOOLEAN /\ b \in Buttons /\ outside \in BOOLEAN /\ clicks \in {1, 2}
    BY <2>2
  <2> HIDE DEF clicks
  <2> QED BY <2>1, <2>2, <2>3, <2>4, ButtonTypes
<1>5. ASSUME NEW f \in Fingers, FingerDown(f) \/ FingerUp(f) \/ FingerMotion(f) PROVE RelayTypes'
  <2>1. held \cup {f} \in Holdings /\ held \ {f} \in Holdings
    BY <1>0 DEF Holdings
  <2> QED BY <1>0, <1>5, <2>1, FingerTypes DEF FingerDown, FingerUp, FingerMotion
<1>6. CASE UNCHANGED inputVars
  BY <1>6 DEF inputVars, userVars, clientVars, serverVars, RelayTypes, InputTypeOK, PointersDistinct, ServerAccepts
<1> QED BY <1>1, <1>2, <1>3, <1>4, <1>5, <1>6, MotionTypes, WheelTypes, FocusTypes, OtherTypes, HandleTypes
        DEF InputNext

(* Every state of the relay is well typed: what waits in the queue are     *)
(* messages of the client for this kind of source, and the pointers of the *)
(* server have distinct ids.                                               *)
THEOREM RelayInvariant == InputSpec => []RelayTypes
<1> QED BY TypesInit, TypesNext, PTL DEF InputSpec

(* The server accepts every message of the client, for a display and for a *)
(* camera: none ends its control thread (Controller.java).                 *)
THEOREM ClientAccepted == InputSpec => []ServerAccepts
<1>1. RelayTypes => ServerAccepts
  BY DEF RelayTypes
<1> QED BY <1>1, RelayInvariant, PTL

(* Each character is typed once, as a key event or as a text event, in     *)
(* every key injection mode (keyboard_sdk.c).                              *)
THEOREM CharactersTypedOnce == InputSpec => []TypedOnce
<1>1. RelayTypes => TypedOnce
  <2>1. RelayTypes => cfg.typing \in {"mixed", "text", "raw"}
    BY TypeFacts, ConfigFacts
  <2> QED BY <2>1 DEF TypedOnce, SdlText, Convertible, TextSends
<1> QED BY <1>1, RelayInvariant, PTL

-------------------------------------------------------------------------------
(* The pointers and the buttons.  The queue leads the device, as the       *)
(* server knows it, to the state that the client expects: each message is  *)
(* understood in the state that the messages before it lead to.            *)

DevStates == [ids : SUBSET Ids, hid : SUBSET Buttons]

(* The first button of the mouse, and the last one, are a pointer that     *)
(* goes down or up; another finger always is.                              *)
FirstButton(m) == m.id # "mouse" \/ m.buttons = m.button
LastButton(m) == m.id # "mouse" \/ m.buttons = {}

Hovers(d, m) == m.a = "HOVER" /\ m.id = "mouse" /\ m.buttons = {} /\ d.ids = {}
Lands(d, m) ==
  /\ m.a = "DOWN" /\ FirstButton(m) /\ m.id \notin d.ids
  /\ m.id = "mouse" => d.ids = {} /\ m.button # {}
Adds(d, m) ==
  /\ m.a = "DOWN" /\ ~FirstButton(m) /\ d.ids = {"mouse"} /\ m.buttons # {}
  /\ m.button \cup m.buttons # {Left}
Lifts(d, m) ==
  /\ m.a = "UP" /\ LastButton(m) /\ m.id \in d.ids
  /\ m.id = "mouse" => d.ids = {"mouse"}
Frees(d, m) ==
  /\ m.a = "UP" /\ ~LastButton(m) /\ d.ids = {"mouse"}
  /\ m.button \cup m.buttons # {Left}
Moves(d, m) ==
  /\ m.a = "MOVE" /\ m.id \in d.ids
  /\ m.id = "mouse" => d.ids = {"mouse"} /\ m.buttons # {}
Understood(d, m) ==
  m.t = "touch" =>
    Hovers(d, m) \/ Lands(d, m) \/ Adds(d, m) \/ Lifts(d, m) \/ Frees(d, m) \/ Moves(d, m)

After(d, m) ==
  CASE m.t = "touch" /\ m.a = "DOWN" -> [d EXCEPT !.ids = @ \cup {m.id}]
    [] m.t = "touch" /\ m.a = "UP" /\ LastButton(m) -> [d EXCEPT !.ids = @ \ {m.id}]
    [] m.t = "input" -> [d EXCEPT !.hid = m.buttons]
    [] OTHER -> d

Run(d, q, h) ==
  /\ h \in [0 .. Len(q) -> DevStates] /\ h[0] = d
  /\ \A i \in 1 .. Len(q) : Understood(h[i - 1], q[i]) /\ h[i] = After(h[i - 1], q[i])
Leads(d, q, e) == \E h : Run(d, q, h) /\ h[Len(q)] = e

(* What a message leads to, in general and when it is about no pointer.    *)
LEMMA AfterFacts ==
  ASSUME NEW c \in BOOLEAN, NEW m \in MessagesTo(c), NEW d \in DevStates
  PROVE  /\ After(d, m) \in DevStates
         /\ m.t \notin {"touch", "input"} => Understood(d, m) /\ After(d, m) = d
<1>1. /\ m.t = "touch" => m.id \in Ids
      /\ m.t = "input" => m.buttons \subseteq Buttons
  BY MessageFacts DEF TouchMsgs
<1>2. d = [ids |-> d.ids, hid |-> d.hid] /\ d.ids \subseteq Ids /\ d.hid \subseteq Buttons
  BY DEF DevStates
<1>3. CASE m.t = "touch" /\ m.a = "DOWN"
  BY <1>1, <1>2, <1>3 DEF After, DevStates
<1>4. CASE m.t = "touch" /\ m.a # "DOWN" /\ m.a = "UP" /\ LastButton(m)
  <2>1. After(d, m) = [d EXCEPT !.ids = @ \ {m.id}]
    BY <1>4 DEF After
  <2> QED BY <1>1, <1>2, <1>4, <2>1 DEF DevStates
<1>5. CASE m.t = "input"
  BY <1>1, <1>2, <1>5 DEF After, DevStates
<1>6. CASE /\ m.t # "input" /\ ~(m.t = "touch" /\ m.a = "DOWN")
           /\ ~(m.t = "touch" /\ m.a = "UP" /\ LastButton(m))
  <2>1. After(d, m) = d
    BY <1>6 DEF After
  <2> QED BY <1>6, <2>1 DEF Understood
<1> QED BY <1>3, <1>4, <1>5, <1>6 DEF Understood

(* An empty queue leads nowhere else.                                      *)
LEMMA LeadsNone ==
  ASSUME NEW d \in DevStates
  PROVE  Leads(d, <<>>, d)
<1> DEFINE h == [i \in {0} |-> d]
<1>1. Len(<<>>) = 0 /\ 0 .. 0 = {0}
  OBVIOUS
<1>2. h \in [{0} -> DevStates] /\ h[0] = d
  OBVIOUS
<1> HIDE DEF h
<1>3. Run(d, <<>>, h) /\ h[Len(<<>>)] = d
  BY <1>1, <1>2 DEF Run
<1> QED BY <1>3 DEF Leads

(* A message that is understood where the queue leads may be appended.     *)
LEMMA LeadsNext ==
  ASSUME NEW c \in BOOLEAN, NEW d, NEW q \in Seq(MessagesTo(c)), NEW e \in DevStates,
         Leads(d, q, e), NEW m \in MessagesTo(c), Understood(e, m)
  PROVE  Leads(d, Append(q, m), After(e, m))
<1>1. PICK h : Run(d, q, h) /\ h[Len(q)] = e
  BY DEF Leads
<1> DEFINE n == Len(q)
           r == Append(q, m)
           g == [i \in 0 .. n + 1 |-> IF i = n + 1 THEN After(e, m) ELSE h[i]]
<1>2. /\ n \in Nat /\ Len(r) = n + 1 /\ r[n + 1] = m
      /\ \A i \in 1 .. n : r[i] = q[i]
      /\ \A i \in 1 .. n + 1 : i \in 1 .. n \/ i = n + 1
  BY AppendProperties, LenProperties
<1>3. /\ h \in [0 .. n -> DevStates] /\ h[0] = d /\ h[n] = e
      /\ \A i \in 1 .. n : Understood(h[i - 1], q[i]) /\ h[i] = After(h[i - 1], q[i])
  BY <1>1 DEF Run
<1>4. After(e, m) \in DevStates
  BY AfterFacts
<1> HIDE DEF n, r
<1>5. /\ g[n + 1] = After(e, m) /\ \A i \in 0 .. n : g[i] = h[i]
      /\ g \in [0 .. n + 1 -> DevStates]
  <2>1. \A i \in 0 .. n + 1 : i # n + 1 => i \in 0 .. n
    BY <1>2
  <2>2. \A i \in 0 .. n : i \in 0 .. n + 1 /\ i # n + 1
    BY <1>2
  <2>3. n + 1 \in 0 .. n + 1
    BY <1>2
  <2> QED BY <1>3, <1>4, <2>1, <2>2, <2>3
<1> HIDE DEF g
<1>6. ASSUME NEW i \in 1 .. n + 1
      PROVE  Understood(g[i - 1], r[i]) /\ g[i] = After(g[i - 1], r[i])
  <2>1. CASE i \in 1 .. n
    <3>1. i - 1 \in 0 .. n /\ i \in 0 .. n
      BY <1>2, <2>1
    <3>2. g[i - 1] = h[i - 1] /\ g[i] = h[i] /\ r[i] = q[i]
      BY <1>2, <1>5, <2>1, <3>1
    <3> QED BY <1>3, <2>1, <3>2
  <2>2. CASE i = n + 1
    <3>1. i - 1 = n /\ n \in 0 .. n
      BY <1>2, <2>2
    <3> QED BY <1>2, <1>3, <1>5, <2>2, <3>1
  <2> QED BY <1>2, <2>1, <2>2
<1>7. g[0] = d
  <2>1. 0 \in 0 .. n
    BY <1>2
  <2> QED BY <1>3, <1>5, <2>1
<1>8. Run(d, r, g) /\ g[Len(r)] = After(e, m)
  BY <1>2, <1>5, <1>6, <1>7 DEF Run
<1> QED BY <1>8 DEF Leads, r

(* The first message is understood, and the others lead from there.        *)
LEMMA LeadsTail ==
  ASSUME NEW c \in BOOLEAN, NEW d, NEW q \in Seq(MessagesTo(c)), NEW e, Leads(d, q, e), q # <<>>
  PROVE  Understood(d, Head(q)) /\ Leads(After(d, Head(q)), Tail(q), e)
<1>1. PICK h : Run(d, q, h) /\ h[Len(q)] = e
  BY DEF Leads
<1> DEFINE n == Len(q) - 1
           r == Tail(q)
           g == [i \in 0 .. n |-> h[i + 1]]
<1>2. /\ Len(q) \in Nat /\ Len(q) = n + 1 /\ n \in Nat /\ Len(r) = n /\ Head(q) = q[1]
      /\ \A i \in 1 .. n : r[i] = q[i + 1]
  BY HeadTailProperties, EmptySeq, LenProperties
<1> HIDE DEF n, r
<1>3. /\ h \in [0 .. n + 1 -> DevStates] /\ h[0] = d /\ h[n + 1] = e
      /\ \A i \in 1 .. n + 1 : Understood(h[i - 1], q[i]) /\ h[i] = After(h[i - 1], q[i])
  BY <1>1, <1>2 DEF Run
<1>4. Understood(d, Head(q)) /\ h[1] = After(d, Head(q))
  <2>1. 1 \in 1 .. n + 1 /\ 1 - 1 = 0
    BY <1>2
  <2>2. Understood(h[1 - 1], q[1]) /\ h[1] = After(h[1 - 1], q[1])
    BY <1>3, <2>1
  <2> QED BY <1>2, <1>3, <2>1, <2>2
<1>5. g \in [0 .. n -> DevStates] /\ \A i \in 0 .. n : g[i] = h[i + 1]
  <2>1. \A i \in 0 .. n : i + 1 \in 0 .. n + 1
    BY <1>2
  <2> QED BY <1>3, <2>1
<1> HIDE DEF g
<1>6. ASSUME NEW i \in 1 .. n
      PROVE  Understood(g[i - 1], r[i]) /\ g[i] = After(g[i - 1], r[i])
  <2>1. i - 1 \in 0 .. n /\ i \in 0 .. n /\ i + 1 \in 1 .. n + 1 /\ (i - 1) + 1 = i /\ (i + 1) - 1 = i
    BY <1>2
  <2>2. g[i - 1] = h[i] /\ g[i] = h[i + 1] /\ r[i] = q[i + 1]
    BY <1>2, <1>5, <2>1
  <2>3. Understood(h[(i + 1) - 1], q[i + 1]) /\ h[i + 1] = After(h[(i + 1) - 1], q[i + 1])
    BY <1>3, <2>1
  <2> QED BY <2>1, <2>2, <2>3
<1>7. g[0] = After(d, Head(q)) /\ g[n] = e
  <2>1. 0 \in 0 .. n /\ n \in 0 .. n /\ 0 + 1 = 1
    BY <1>2
  <2> QED BY <1>3, <1>4, <1>5, <2>1
<1>8. Run(After(d, Head(q)), r, g) /\ g[Len(r)] = e
  BY <1>2, <1>5, <1>6, <1>7 DEF Run
<1> QED BY <1>4, <1>8 DEF Leads, r

(* With nothing in the queue the device is where the client expects it.    *)
LEMMA LeadsEmpty ==
  ASSUME NEW d, NEW e, Leads(d, <<>>, e)
  PROVE  d = e
BY DEF Leads, Run

(* Messages that are about neither pointers nor buttons change nothing.    *)
LEMMA LeadsPlain ==
  ASSUME NEW c \in BOOLEAN, NEW d, NEW q \in Seq(MessagesTo(c)), NEW e \in DevStates,
         Leads(d, q, e), NEW m \in MessagesTo(c), m.t \notin {"touch", "input"}
  PROVE  Leads(d, Append(q, m), e)
BY LeadsNext, AfterFacts

(* The server: what it injects is consistent when it understands.          *)
Device == [ids |-> IdsOf(pointers), hid |-> hidButtons]

(* A list without pointer, and one with a single pointer.                  *)
LEMMA OnePointer ==
  ASSUME NEW ps \in PointerList, WellFormed(ps)
  PROVE  /\ IdsOf(ps) = {} => ps = <<>> /\ UsedLocalIds(ps) = {}
         /\ \A id \in IdsOf(ps) :
              /\ ps[IndexOf(ps, id)].local \in UsedLocalIds(ps)
              /\ Len(ps) > 1 <=> IdsOf(ps) # {id}
              /\ IdsOf(ps) = {id} => UsedLocalIds(ps) = {ps[IndexOf(ps, id)].local}
<1> DEFINE n == Len(ps)
<1>1. n \in Nat /\ DOMAIN ps = 1 .. n
  BY ListFacts
<1>2. ASSUME IdsOf(ps) = {} PROVE ps = <<>> /\ UsedLocalIds(ps) = {}
  <2>1. 1 .. n = {}
    BY <1>1, <1>2 DEF IdsOf
  <2>2. n = 0
    BY <1>1, <2>1
  <2>3. ps = <<>>
    BY <2>2, EmptySeq DEF PointerList
  <2> QED BY <1>1, <2>1, <2>3 DEF UsedLocalIds
<1>3. ASSUME NEW id \in IdsOf(ps)
      PROVE  /\ ps[IndexOf(ps, id)].local \in UsedLocalIds(ps)
             /\ Len(ps) > 1 <=> IdsOf(ps) # {id}
             /\ IdsOf(ps) = {id} => UsedLocalIds(ps) = {ps[IndexOf(ps, id)].local}
  <2> DEFINE i == IndexOf(ps, id)
  <2>1. i \in 1 .. n /\ ps[i].id = id
    BY <1>1, IndexFacts
  <2> HIDE DEF i, n
  <2>2. ps[i].local \in UsedLocalIds(ps)
    BY <1>1, <2>1 DEF UsedLocalIds
  <2>3. CASE n > 1
    <3>1. PICK j \in 1 .. n : j # i
      <4>1. 1 \in 1 .. n /\ 2 \in 1 .. n /\ 1 # 2
        BY <1>1, <2>3
      <4> QED BY <4>1
    <3>2. ps[j].id # id /\ ps[j].id \in IdsOf(ps)
      BY <1>1, <2>1, <3>1 DEF WellFormed, IdsOf
    <3> QED BY <2>2, <2>3, <3>2 DEF i, n
  <2>4. CASE ~(n > 1)
    <3>1. \A j \in 1 .. n : j = i
      BY <1>1, <2>1, <2>4
    <3>2. IdsOf(ps) = {id}
      BY <1>1, <2>1, <3>1 DEF IdsOf
    <3>3. UsedLocalIds(ps) = {ps[i].local}
      BY <1>1, <2>1, <3>1 DEF UsedLocalIds
    <3> QED BY <2>2, <2>4, <3>2, <3>3 DEF i, n
  <2> QED BY <2>3, <2>4
<1> QED BY <1>2, <1>3

(* Controller.injectTouch(): a touch that is understood and not lost       *)
(* keeps the stream legal, and what Android touches is what the list       *)
(* says.                                                                   *)
LEMMA TouchHandled ==
  ASSUME RelayTypes, NEW m \in TouchMsgs, InjectTouch(m),
         m.size = mapperSize, IndexOf(WithPointer(pointers, m.id), m.id) # 0,
         Understood(Device, m), touching = UsedLocalIds(pointers)
  PROVE  /\ legal => legal'
         /\ touching' = UsedLocalIds(pointers')
         /\ IdsOf(pointers') = After(Device, m).ids
<1> DEFINE D == IdsOf(pointers)
           ps == WithPointer(pointers, m.id)
           index == IndexOf(ps, m.id)
           local == ps[index].local
           used == UsedLocalIds(ps)
           action == Injected(m, MultiAction(m.a, Len(ps)))
<1>0. /\ pointers \in PointerList /\ WellFormed(pointers) /\ m.id \in Ids /\ m.t = "touch"
      /\ m.button \subseteq Buttons /\ m.buttons \subseteq Buttons
  BY DEF RelayTypes, InputTypeOK, PointersDistinct, TouchMsgs
<1>1. /\ pointers' = IF PointerUp(m) THEN CleanUp(ps, index) ELSE ps
      /\ touching' = TouchingAfter(action, local)
      /\ legal' = (legal /\ (touchLost \/ Consistent(action, used, local)))
  BY DEF InjectTouch
<1>2. ps \in PointerList /\ WellFormed(ps)
  BY <1>0, WithFacts
<1>3. index \in DOMAIN ps /\ ps[index].id = m.id /\ m.id \in IdsOf(ps)
  BY <1>2, IndexFacts
<1>4. /\ local \in used
      /\ Len(ps) > 1 <=> IdsOf(ps) # {m.id}
      /\ IdsOf(ps) = {m.id} => used = {local}
  BY <1>2, <1>3, OnePointer
<1>5. D = {} => touching = {}
  BY <1>0, OnePointer
<1>6. m.id \in D => IdsOf(ps) = D /\ used = touching
  BY <1>0, WithFacts
<1>7. m.id \notin D => IdsOf(ps) = D \cup {m.id} /\ used = touching \cup {local} /\ local \notin touching
  BY <1>0, WithFacts
<1>8. /\ IdsOf(CleanUp(ps, index)) = IdsOf(ps) \ {m.id}
      /\ UsedLocalIds(CleanUp(ps, index)) = used \ {local}
  BY <1>2, <1>3, CleanFacts
<1>9. /\ IdsOf(pointers') = IF PointerUp(m) THEN IdsOf(ps) \ {m.id} ELSE IdsOf(ps)
      /\ UsedLocalIds(pointers') = IF PointerUp(m) THEN used \ {local} ELSE used
  BY <1>1, <1>8
<1>10. After(Device, m).ids = IF m.a = "DOWN" THEN D \cup {m.id}
                              ELSE IF m.a = "UP" /\ LastButton(m) THEN D \ {m.id} ELSE D
  BY <1>0 DEF After, Device
<1>11. Device.ids = D
  BY DEF Device
<1> DEFINE many == Len(ps) > 1
<1>12. MultiAction(m.a, Len(ps)) = IF many /\ m.a = "UP" THEN "POINTER_UP"
                                   ELSE IF many /\ m.a = "DOWN" THEN "POINTER_DOWN" ELSE m.a
  BY DEF MultiAction
<1>13. action = IF IsMouse(m) /\ ~many /\ m.a = "DOWN"
                THEN IF m.button = m.buttons THEN "DOWN" ELSE "BUTTON_PRESS"
                ELSE IF IsMouse(m) /\ ~many /\ m.a = "UP"
                THEN IF m.buttons = {} THEN "UP" ELSE "BUTTON_RELEASE"
                ELSE MultiAction(m.a, Len(ps))
  BY <1>12 DEF Injected
<1>14. many <=> IdsOf(ps) # {m.id}
  BY <1>4
<1>15. ~many => used = {local}
  BY <1>4
<1> HIDE DEF D, ps, index, local, used, action, many
<1>16. /\ Consistent(action, used, local)
       /\ TouchingAfter(action, local) = IF PointerUp(m) THEN used \ {local} ELSE used
       /\ (IF PointerUp(m) THEN IdsOf(ps) \ {m.id} ELSE IdsOf(ps))
            = (IF m.a = "DOWN" THEN D \cup {m.id}
               ELSE IF m.a = "UP" /\ LastButton(m) THEN D \ {m.id} ELSE D)
  <2>1. CASE Hovers(Device, m)
    <3>1. m.a = "HOVER" /\ m.id = "mouse" /\ m.buttons = {} /\ D = {} /\ m.id \notin D
      BY <1>11, <2>1 DEF Hovers
    <3>2. IsMouse(m) /\ PointerUp(m)
      BY <3>1 DEF IsMouse, PointerUp
    <3>3. action = "HOVER" /\ touching = {}
      BY <1>5, <1>12, <1>13, <3>1
    <3>4. Consistent(action, used, local) /\ TouchingAfter(action, local) = touching
      BY <3>3 DEF Consistent, TouchingAfter
    <3> QED BY <1>7, <3>1, <3>2, <3>3, <3>4
  <2>2. CASE Lands(Device, m)
    <3>1. /\ m.a = "DOWN" /\ FirstButton(m) /\ m.id \notin D
          /\ m.id = "mouse" => D = {} /\ m.button # {}
      BY <1>11, <2>2 DEF Lands
    <3>2. ~PointerUp(m)
      BY <3>1 DEF PointerUp, IsMouse, FirstButton
    <3>3. action = IF many THEN "POINTER_DOWN" ELSE "DOWN"
      BY <1>12, <1>13, <3>1 DEF IsMouse, FirstButton
    <3>4. TouchingAfter(action, local) = used
      BY <1>7, <3>1, <3>3 DEF TouchingAfter
    <3>5. Consistent(action, used, local)
      <4>1. CASE many
        BY <1>7, <3>1, <3>3, <4>1 DEF Consistent
      <4>2. CASE ~many
        <5>1. D = {}
          BY <1>7, <1>14, <3>1, <4>2
        <5> QED BY <1>5, <1>15, <3>3, <4>2, <5>1 DEF Consistent
      <4> QED BY <4>1, <4>2
    <3> QED BY <1>7, <3>1, <3>2, <3>4, <3>5
  <2>3. CASE Adds(Device, m)
    <3>1. /\ m.a = "DOWN" /\ m.id = "mouse" /\ m.buttons # m.button /\ D = {"mouse"} /\ m.buttons # {}
          /\ m.button \cup m.buttons # {Left}
      BY <1>11, <2>3 DEF Adds, FirstButton
    <3>2. IsMouse(m)
      BY <3>1 DEF IsMouse
    <3>3. ~PointerUp(m) /\ action = "BUTTON_PRESS"
      BY <1>6, <1>13, <1>14, <3>1, <3>2 DEF PointerUp
    <3>4. Consistent(action, used, local) /\ TouchingAfter(action, local) = touching
      BY <1>4, <1>6, <3>1, <3>3 DEF Consistent, TouchingAfter
    <3> QED BY <1>6, <3>1, <3>3, <3>4
  <2>4. CASE Lifts(Device, m)
    <3>1. /\ m.a = "UP" /\ LastButton(m) /\ m.id \in D
          /\ m.id = "mouse" => D = {"mouse"}
      BY <1>11, <2>4 DEF Lifts
    <3>2. PointerUp(m)
      BY <3>1 DEF PointerUp, IsMouse, LastButton
    <3>3. action = IF many THEN "POINTER_UP" ELSE "UP"
      BY <1>12, <1>13, <3>1 DEF IsMouse, LastButton
    <3>4. Consistent(action, used, local)
      BY <1>4, <1>6, <1>15, <3>1, <3>3 DEF Consistent
    <3>5. TouchingAfter(action, local) = used \ {local}
      BY <1>6, <3>1, <3>3 DEF TouchingAfter
    <3> QED BY <1>6, <3>1, <3>2, <3>4, <3>5
  <2>5. CASE Frees(Device, m)
    <3>1. /\ m.a = "UP" /\ m.id = "mouse" /\ m.buttons # {} /\ D = {"mouse"}
          /\ m.button \cup m.buttons # {Left} /\ ~LastButton(m)
      BY <1>11, <2>5 DEF Frees, LastButton
    <3>2. IsMouse(m)
      BY <3>1 DEF IsMouse
    <3>3. ~PointerUp(m) /\ action = "BUTTON_RELEASE"
      BY <1>6, <1>13, <1>14, <3>1, <3>2 DEF PointerUp
    <3>4. Consistent(action, used, local) /\ TouchingAfter(action, local) = touching
      BY <1>4, <1>6, <3>1, <3>3 DEF Consistent, TouchingAfter
    <3> QED BY <1>6, <3>1, <3>3, <3>4
  <2>6. CASE Moves(Device, m)
    <3>1. /\ m.a = "MOVE" /\ m.id \in D
          /\ m.id = "mouse" => D = {"mouse"} /\ m.buttons # {}
      BY <1>11, <2>6 DEF Moves
    <3>2. ~PointerUp(m)
      BY <3>1 DEF PointerUp, IsMouse
    <3>3. action = "MOVE"
      BY <1>12, <1>13, <3>1
    <3>4. Consistent(action, used, local) /\ TouchingAfter(action, local) = touching
      BY <1>4, <1>6, <3>1, <3>3 DEF Consistent, TouchingAfter
    <3> QED BY <1>6, <3>1, <3>2, <3>4
  <2> QED BY <1>0, <2>1, <2>2, <2>3, <2>4, <2>5, <2>6 DEF Understood
<1> QED BY <1>1, <1>9, <1>10, <1>16

(* The client: the pointers that its messages put down.                    *)
Pointed(vfinger, bs, fingers) ==
  [ids |-> (IF vfinger THEN {"generic", "virtual"}
            ELSE IF bs # {} /\ ~Relative THEN {"mouse"} ELSE {})
             \cup (IF cfg.mouse = "sdk" THEN fingers ELSE {}),
   hid |-> IF Relative THEN bs ELSE {}]
Expected == Pointed(vfingerDown, buttonsState, HeldFingers)

(* The press of a button that is held was sent: it was neither bound to an *)
(* action nor made on the border.                                          *)
SentDown(b) ==
  /\ cfg.mouse # "none" /\ ~(cfg.control /\ Binding(b) # "click")
  /\ ~(b = Left /\ ~Relative /\ lastPress.clicks = 2 /\ lastPress.outside)

InTouch ==
  /\ Leads(Device, queue, Expected)
  /\ touching = UsedLocalIds(pointers)
  /\ buttonsState \subseteq held
  /\ \A b \in HeldButtons : b \in buttonsState <=> SentDown(b)
  /\ vfingerDown => buttonsState = {Left}
  /\ HeldButtons = {} \/ HeldFingers = {}
TouchInv == legal /\ (~touchLost => InTouch)

(* The states of the device and those that the client expects are of one   *)
(* type.                                                                   *)
LEMMA DeviceFacts ==
  ASSUME RelayTypes
  PROVE  Device \in DevStates /\ Expected \in DevStates
<1>1. pointers \in PointerList /\ hidButtons \subseteq Buttons /\ buttonsState \subseteq Buttons
  BY DEF RelayTypes, InputTypeOK
<1>2. Device \in DevStates
  BY <1>1, ListFacts DEF Device, DevStates
<1>3. Expected.ids \subseteq Ids /\ Expected.hid \subseteq Buttons
  BY <1>1 DEF Expected, Pointed, Ids, HeldFingers
<1> QED BY <1>2, <1>3 DEF DevStates, Expected, Pointed

(* What was lost is forgotten when nothing is down any more.               *)
LEMMA LostTouch ==
  ASSUME RelayTypes', NEW loss, TouchAfter(loss), touchLost \/ loss, legal'
  PROVE  TouchInv'
<1>1. CASE touchLost'
  BY <1>1 DEF TouchInv
<1>2. CASE ~touchLost'
  <2>1. /\ held' = {} /\ queue' = <<>> /\ buttonsState' = {} /\ ~vfingerDown'
        /\ pointers' = <<>> /\ touching' = {} /\ hidButtons' = {}
    BY <1>2 DEF TouchAfter, AllReleased
  <2>2. DOMAIN <<>> = {}
    OBVIOUS
  <2>3. UsedLocalIds(pointers') = {} /\ IdsOf(pointers') = {}
    BY <2>1, <2>2 DEF UsedLocalIds, IdsOf
  <2> DEFINE d == [ids |-> {}, hid |-> {}]
  <2>4. Device' = d
    BY <2>1, <2>3 DEF Device
  <2>5. Expected' = d
    BY <2>1 DEF Expected, Pointed, HeldFingers, Relative
  <2>6. d \in DevStates
    BY DEF DevStates
  <2> HIDE DEF d
  <2>7. Leads(d, <<>>, d)
    BY <2>6, LeadsNone
  <2>8. HeldButtons' = {} /\ HeldFingers' = {}
    BY <2>1 DEF HeldButtons, HeldFingers
  <2>9. Leads(Device, queue, Expected)'
    BY <2>1, <2>4, <2>5, <2>7
  <2>10. InTouch'
    BY <2>1, <2>3, <2>8, <2>9 DEF InTouch
  <2> QED BY <2>10 DEF TouchInv
<1> QED BY <1>1, <1>2

(* An event of the user touches nothing of the device.                     *)
LEMMA UserFacts ==
  ASSUME NEW h, UserEvent(h)
  PROVE  /\ cfg' = cfg /\ held' = h /\ Device' = Device /\ touching' = touching
         /\ UsedLocalIds(pointers') = UsedLocalIds(pointers) /\ legal' = legal
         /\ devKeys' = devKeys /\ screenOn' = screenOn
BY DEF UserEvent, serverVars, Device

(* An event that changes neither the buttons nor the fingers.              *)
LEMMA SameTouch ==
  ASSUME InTouch, legal, NEW h, UserEvent(h), Leads(Device, queue', Expected),
         buttonsState' = buttonsState, vfingerDown' = vfingerDown, lastPress' = lastPress,
         h \cap Fingers = HeldFingers, h \cap Buttons = HeldButtons,
         buttonsState \subseteq Buttons,
         HeldButtons = {} \/ ("SHIFT" \in h <=> "SHIFT" \in held)
  PROVE  TouchInv'
<1>1. /\ cfg' = cfg /\ held' = h /\ Device' = Device /\ touching' = touching
      /\ UsedLocalIds(pointers') = UsedLocalIds(pointers) /\ legal' = legal
  BY UserFacts
<1>2. HeldButtons' = HeldButtons /\ HeldFingers' = HeldFingers
  BY <1>1 DEF HeldButtons, HeldFingers
<1>3. Expected' = Expected
  BY <1>1, <1>2 DEF Expected, Pointed, Relative
<1>4. Leads(Device, queue, Expected)'
  BY <1>1, <1>3
<1>5. buttonsState' \subseteq held'
  BY <1>1 DEF InTouch, HeldButtons
<1>6. ASSUME NEW b \in HeldButtons' PROVE b \in buttonsState' <=> SentDown(b)'
  <2>1. "SHIFT" \in held' <=> "SHIFT" \in held
    BY <1>1, <1>2, <1>6
  <2>2. Binding(b)' = Binding(b)
    BY <1>1, <2>1 DEF Binding, Relative
  <2>3. SentDown(b)' <=> SentDown(b)
    BY <1>1, <2>2 DEF SentDown, Relative
  <2> QED BY <1>2, <2>3 DEF InTouch
<1>7. InTouch'
  BY <1>1, <1>2, <1>4, <1>5, <1>6 DEF InTouch
<1> QED BY <1>1, <1>7 DEF TouchInv

(* Messages that leave the device as it is, all pushed or not.             *)
LEMMA PushKept ==
  ASSUME RelayTypes, NEW e \in DevStates, Leads(Device, queue, e), NEW ms, Push(ms),
         \/ ms = <<>>
         \/ \E m \in MessagesTo(cfg.camera) : ms = <<m>> /\ Understood(e, m) /\ After(e, m) = e
         \/ \E m, n \in MessagesTo(cfg.camera) :
              /\ ms = <<m, n>> /\ Understood(e, m) /\ After(e, m) = e
              /\ Understood(e, n) /\ After(e, n) = e
  PROVE  Leads(Device, queue', e)
<1>0. queue \in Seq(MessagesTo(cfg.camera)) /\ Len(queue) <= QueueLimit /\ cfg.camera \in BOOLEAN
  BY TypeFacts, ConfigFacts
<1>1. CASE ms = <<>>
  BY <1>0, <1>1, PushAppends
<1>2. CASE \E m \in MessagesTo(cfg.camera) : ms = <<m>> /\ Understood(e, m) /\ After(e, m) = e
  <2>1. PICK m \in MessagesTo(cfg.camera) : ms = <<m>> /\ Understood(e, m) /\ After(e, m) = e
    BY <1>2
  <2>2. queue' = queue \/ queue' = Append(queue, m)
    BY <1>0, <2>1, PushAppends
  <2>3. Leads(Device, Append(queue, m), e)
    BY <1>0, <2>1, LeadsNext
  <2> QED BY <2>2, <2>3
<1>3. CASE \E m, n \in MessagesTo(cfg.camera) :
              /\ ms = <<m, n>> /\ Understood(e, m) /\ After(e, m) = e
              /\ Understood(e, n) /\ After(e, n) = e
  <2>1. PICK m, n \in MessagesTo(cfg.camera) :
              /\ ms = <<m, n>> /\ Understood(e, m) /\ After(e, m) = e
              /\ Understood(e, n) /\ After(e, n) = e
    BY <1>3
  <2>2. queue' = queue \/ queue' = Append(queue, m) \/ queue' = Append(Append(queue, m), n)
    BY <1>0, <2>1, PushAppends
  <2>3. Leads(Device, Append(queue, m), e) /\ Append(queue, m) \in Seq(MessagesTo(cfg.camera))
    BY <1>0, <2>1, LeadsNext, AppendProperties
  <2>4. Leads(Device, Append(Append(queue, m), n), e)
    BY <1>0, <2>1, <2>3, LeadsNext
  <2> QED BY <2>2, <2>3, <2>4
<1> QED BY <1>1, <1>2, <1>3

(* A message about no pointer is always understood and changes nothing.    *)
LEMMA PlainKept ==
  ASSUME RelayTypes, NEW e \in DevStates, NEW m \in MessagesTo(cfg.camera), m.t \notin {"touch", "input"}
  PROVE  Understood(e, m) /\ After(e, m) = e
BY TypeFacts, ConfigFacts, AfterFacts

(* The messages without parameters are such messages.                      *)
LEMMA PlainTypes ==
  ASSUME RelayTypes, NEW t \in (IF cfg.camera THEN CameraPlain ELSE DisplayPlain)
  PROVE  Message(t) \in MessagesTo(cfg.camera) /\ Message(t).t \notin {"touch", "input"}
<1>1. Message(t) \in MessagesTo(cfg.camera) /\ Message(t).t = t
  BY MadeMessages
<1>2. t \notin {"touch", "input"}
  BY DEF CameraPlain, DisplayPlain
<1> QED BY <1>1, <1>2

(* A key sends nothing about a pointer.  It is a named loss if a button is *)
(* held and the key changes its binding, pauses the display or frees the   *)
(* mouse.                                                                  *)
LEMMA KeyTouch ==
  ASSUME RelayTypes, RelayTypes', TouchInv, NEW k \in Keys, NEW down \in BOOLEAN, NEW repeat \in BOOLEAN,
         NEW h, h \cap Fingers = HeldFingers, h \cap Buttons = HeldButtons,
         k # "SHIFT" => ("SHIFT" \in h <=> "SHIFT" \in held),
         KeyEvent(k, down, repeat, h)
  PROVE  TouchInv'
<1>0. /\ UserEvent(h) /\ legal /\ cfg \in Configs /\ buttonsState \subseteq Buttons
      /\ Expected \in DevStates /\ legal'
  BY UserFacts, TypeFacts, DeviceFacts DEF KeyEvent, TouchInv, RelayTypes, InputTypeOK
<1>1. CASE Relative /\ k = "MOD"
  <2>1. Captures(k, down, repeat)
    BY <1>1 DEF KeyEvent
  <2>2. /\ buttonsState' = buttonsState /\ vfingerDown' = vfingerDown /\ queue' = queue
        /\ lastPress' = lastPress /\ TouchAfter(HeldButtons # {})
    BY <2>1 DEF Captures
  <2>3. CASE touchLost \/ HeldButtons # {}
    BY <1>0, <2>2, <2>3, LostTouch
  <2>4. CASE ~(touchLost \/ HeldButtons # {})
    <3>1. InTouch
      BY <2>4 DEF TouchInv
    <3>2. Leads(Device, queue', Expected)
      BY <2>2, <3>1 DEF InTouch
    <3> QED BY <1>0, <2>2, <2>4, <3>1, <3>2, SameTouch
  <2> QED BY <2>3, <2>4
<1>2. CASE ~(Relative /\ k = "MOD")
  <2> DEFINE ms == KeyMessages(k, down, repeat, h)
             loss == \/ k = "SHIFT" /\ HeldButtons # {}
                     \/ paused' # paused /\ HeldButtons # {}
  <2>1. ProcessKey(k, down, repeat, h)
    BY <1>2 DEF KeyEvent
  <2>2. /\ buttonsState' = buttonsState /\ vfingerDown' = vfingerDown
        /\ lastPress' = lastPress /\ TouchAfter(loss) /\ Push(ms)
    BY <2>1 DEF ProcessKey
  <2>3. CASE touchLost \/ loss
    BY <1>0, <2>2, <2>3, LostTouch
  <2>4. CASE ~(touchLost \/ loss)
    <3>1. InTouch
      BY <2>4 DEF TouchInv
    <3>2. \/ ms = <<>>
          \/ \E m \in MessagesTo(cfg.camera) : ms = <<m>> /\ m.t \notin {"touch", "input"}
          \/ \E m, n \in MessagesTo(cfg.camera) :
               ms = <<m, n>> /\ m.t \notin {"touch", "input"} /\ n.t \notin {"touch", "input"}
      <4>1. /\ \/ ms = <<>>
               \/ \E t \in (IF cfg.camera THEN CameraPlain ELSE DisplayPlain) : ms = <<Message(t)>>
               \/ ms = <<Key(Action(down), k)>> /\ ~cfg.camera
               \/ ms = <<Message("setclip"), Key(Action(down), k)>> /\ ~cfg.camera
        BY <1>0, KeyMessagesFacts
      <4>2. ~cfg.camera => /\ Key(Action(down), k) \in MessagesTo(cfg.camera)
                           /\ Key(Action(down), k).t \notin {"touch", "input"}
        <5>1. Action(down) \in Actions
          BY DEF Action, Actions
        <5>2. Key(Action(down), k).t = "keycode"
          BY DEF Key
        <5> QED BY <5>1, <5>2, MadeMessages
      <4>3. ~cfg.camera => /\ Message("setclip") \in MessagesTo(cfg.camera)
                           /\ Message("setclip").t \notin {"touch", "input"}
        <5>1. "setclip" \in DisplayPlain
          BY DEF DisplayPlain
        <5> QED BY <5>1, PlainTypes
      <4> HIDE DEF ms
      <4> QED BY <4>1, <4>2, <4>3, PlainTypes
    <3> HIDE DEF ms
    <3>3. Leads(Device, queue', Expected)
      <4>1. Leads(Device, queue, Expected)
        BY <3>1 DEF InTouch
      <4> QED BY <1>0, <2>2, <3>2, <4>1, PlainKept, PushKept
    <3>4. HeldButtons = {} \/ ("SHIFT" \in h <=> "SHIFT" \in held)
      BY <2>4
    <3> QED BY <1>0, <2>2, <3>1, <3>3, <3>4, SameTouch
  <2> QED BY <2>3, <2>4
<1> QED BY <1>1, <1>2

(* A text event is about no pointer.                                       *)
LEMMA TextTouch ==
  ASSUME RelayTypes, RelayTypes', TouchInv, NEW class, TextInput(class)
  PROVE  TouchInv'
<1> DEFINE ms == IF ~cfg.keyboard \/ paused \/ disconnected \/ "MOD" \in held
                   \/ ~TextSends(class, cfg.typing) THEN <<>> ELSE <<Message("text")>>
<1>0. /\ UserEvent(held) /\ legal /\ buttonsState \subseteq Buttons /\ Expected \in DevStates /\ legal'
      /\ cfg \in Configs /\ cfg.camera \in BOOLEAN
  BY UserFacts, TypeFacts, DeviceFacts, ConfigFacts DEF TextInput, TouchInv, RelayTypes, InputTypeOK
<1>1. Push(ms) /\ UNCHANGED <<buttonsState, vfingerDown, lastPress>> /\ touchLost' = touchLost
  BY DEF TextInput, clientVars
<1>2. CASE touchLost
  BY <1>0, <1>1, <1>2 DEF TouchInv
<1>3. CASE ~touchLost
  <2>1. InTouch
    BY <1>3 DEF TouchInv
  <2>2. ms = <<>> \/ \E m \in MessagesTo(cfg.camera) : ms = <<m>> /\ m.t \notin {"touch", "input"}
    <3>1. ~cfg.camera => "text" \in DisplayPlain
      BY DEF DisplayPlain
    <3>2. cfg.camera => ~cfg.keyboard
      BY <1>0, ConfigFacts
    <3> QED BY <3>1, <3>2, PlainTypes
  <2> HIDE DEF ms
  <2>3. Leads(Device, queue, Expected)
    BY <2>1 DEF InTouch
  <2>4. Leads(Device, queue', Expected)
    BY <1>0, <1>1, <2>2, <2>3, PlainKept, PushKept
  <2>5. held \cap Fingers = HeldFingers /\ held \cap Buttons = HeldButtons
    BY DEF HeldFingers, HeldButtons
  <2> QED BY <1>0, <1>1, <2>1, <2>4, <2>5, SameTouch
<1> QED BY <1>2, <1>3

(* Nor is the loss of the focus.                                           *)
LEMMA FocusTouch ==
  ASSUME RelayTypes, RelayTypes', TouchInv, FocusLost
  PROVE  TouchInv'
<1>0. /\ UserEvent(held) /\ legal /\ buttonsState \subseteq Buttons /\ legal'
  BY UserFacts DEF FocusLost, TouchInv, RelayTypes, InputTypeOK
<1>1. UNCHANGED <<buttonsState, vfingerDown, lastPress, queue>> /\ TouchAfter(HeldButtons # {})
  BY DEF FocusLost
<1>2. CASE touchLost \/ HeldButtons # {}
  BY <1>0, <1>1, <1>2, LostTouch
<1>3. CASE ~(touchLost \/ HeldButtons # {})
  <2>1. InTouch
    BY <1>3 DEF TouchInv
  <2>2. Leads(Device, queue', Expected)
    BY <1>1, <2>1 DEF InTouch
  <2>3. held \cap Fingers = HeldFingers /\ held \cap Buttons = HeldButtons
    BY DEF HeldFingers, HeldButtons
  <2> QED BY <1>0, <1>1, <2>1, <2>2, <2>3, SameTouch
<1> QED BY <1>2, <1>3

(* A motion.                                                               *)
LEMMA MotionKept ==
  ASSUME RelayTypes, InTouch, HeldFingers = {}, cfg.mouse # "none", ~cfg.camera,
         NEW m, \/ m = HidInput(buttonsState) /\ Relative
                \/ /\ m = Touch(IF buttonsState = {} THEN "HOVER" ELSE "MOVE", "mouse", {}, buttonsState)
                   /\ ~Relative /\ ~vfingerDown
                \/ /\ m = Touch(IF buttonsState = {} THEN "HOVER" ELSE "MOVE", "generic", {}, buttonsState)
                   /\ ~Relative /\ vfingerDown
                \/ m = VirtualFinger("MOVE") /\ ~Relative /\ vfingerDown
  PROVE  m \in MessagesTo(cfg.camera) /\ Understood(Expected, m) /\ After(Expected, m) = Expected
<1>0. /\ buttonsState \in SUBSET Buttons /\ {} \in SUBSET Buttons
      /\ {"HOVER", "MOVE"} \subseteq Motions /\ {"mouse", "generic", "virtual"} \subseteq Ids
      /\ cfg.mouse \in {"none", "sdk", "relative"}
  BY TypeFacts, ConfigFacts DEF RelayTypes, InputTypeOK, Motions, Ids
<1>1. CASE m = HidInput(buttonsState) /\ Relative
  <2>1. m.t = "input" /\ m.buttons = buttonsState
    BY <1>1 DEF HidInput
  <2>2. Expected.hid = buttonsState
    BY <1>1 DEF Expected, Pointed
  <2>3. After(Expected, m) = [Expected EXCEPT !.hid = buttonsState]
    BY <2>1 DEF After
  <2>4. After(Expected, m) = Expected
    BY <2>2, <2>3 DEF Expected, Pointed
  <2> QED BY <1>0, <1>1, <2>1, <2>4, MadeMessages DEF Understood
<1>2. CASE /\ m = Touch(IF buttonsState = {} THEN "HOVER" ELSE "MOVE", "mouse", {}, buttonsState)
           /\ ~Relative /\ ~vfingerDown
  <2> DEFINE a == IF buttonsState = {} THEN "HOVER" ELSE "MOVE"
  <2>1. m.t = "touch" /\ m.a = a /\ m.id = "mouse" /\ m.buttons = buttonsState
    BY <1>2 DEF Touch
  <2>2. Expected.ids = IF buttonsState = {} THEN {} ELSE {"mouse"}
    BY <1>2 DEF Expected, Pointed
  <2>3. Understood(Expected, m)
    BY <2>1, <2>2 DEF Understood, Hovers, Moves
  <2>4. After(Expected, m) = Expected
    BY <2>1 DEF After
  <2>5. m \in MessagesTo(cfg.camera)
    BY <1>0, <1>2, MadeMessages
  <2> QED BY <2>3, <2>4, <2>5
<1>3. CASE /\ m = Touch(IF buttonsState = {} THEN "HOVER" ELSE "MOVE", "generic", {}, buttonsState)
           /\ ~Relative /\ vfingerDown
  <2>0. buttonsState = {Left}
    BY <1>3 DEF InTouch
  <2>1. m.t = "touch" /\ m.a = "MOVE" /\ m.id = "generic"
    BY <1>3, <2>0 DEF Touch
  <2>2. Expected.ids = {"generic", "virtual"}
    BY <1>3 DEF Expected, Pointed
  <2>3. Understood(Expected, m)
    BY <2>1, <2>2 DEF Understood, Moves
  <2>4. After(Expected, m) = Expected
    BY <2>1 DEF After
  <2>5. m \in MessagesTo(cfg.camera)
    BY <1>0, <1>3, MadeMessages
  <2> QED BY <2>3, <2>4, <2>5
<1>4. CASE m = VirtualFinger("MOVE") /\ ~Relative /\ vfingerDown
  <2>1. m.t = "touch" /\ m.a = "MOVE" /\ m.id = "virtual"
    BY <1>4 DEF Touch, VirtualFinger
  <2>2. Expected.ids = {"generic", "virtual"}
    BY <1>4 DEF Expected, Pointed
  <2>3. Understood(Expected, m)
    BY <2>1, <2>2 DEF Understood, Moves
  <2>4. After(Expected, m) = Expected
    BY <2>1 DEF After
  <2>5. m \in MessagesTo(cfg.camera)
    BY <1>0, <1>4, MadeMessages DEF VirtualFinger
  <2> QED BY <2>3, <2>4, <2>5
<1> QED BY <1>1, <1>2, <1>3, <1>4

(* A motion moves the pointer that is down, or hovers.                     *)
LEMMA MotionTouch ==
  ASSUME RelayTypes, RelayTypes', TouchInv, Motion
  PROVE  TouchInv'
<1> DEFINE ms == IF Silent \/ (Relative /\ ~capture) THEN <<>> ELSE MotionMessages
<1>0. /\ UserEvent(held) /\ legal /\ buttonsState \subseteq Buttons /\ legal' /\ Expected \in DevStates
  BY UserFacts, DeviceFacts DEF Motion, TouchInv, RelayTypes, InputTypeOK
<1>1. Push(ms) /\ UNCHANGED <<buttonsState, vfingerDown, lastPress>> /\ TouchAfter(HeldFingers # {})
  BY DEF Motion, clientVars
<1>2. CASE touchLost \/ HeldFingers # {}
  BY <1>0, <1>1, <1>2, LostTouch
<1>3. CASE ~(touchLost \/ HeldFingers # {})
  <2>1. InTouch
    BY <1>3 DEF TouchInv
  <2>2. \/ ms = <<>>
        \/ \E m \in MessagesTo(cfg.camera) :
             ms = <<m>> /\ Understood(Expected, m) /\ After(Expected, m) = Expected
        \/ \E m, n \in MessagesTo(cfg.camera) :
             /\ ms = <<m, n>> /\ Understood(Expected, m) /\ After(Expected, m) = Expected
             /\ Understood(Expected, n) /\ After(Expected, n) = Expected
    <3>1. CASE Silent \/ (Relative /\ ~capture)
      BY <3>1
    <3>2. CASE ~(Silent \/ (Relative /\ ~capture))
      <4>1. ms = MotionMessages /\ cfg.mouse # "none" /\ ~cfg.camera
        BY <3>2 DEF Silent
      <4> HIDE DEF ms
      <4>2. CASE Relative /\ ms = <<HidInput(buttonsState)>>
        BY <1>3, <2>1, <4>1, <4>2, MotionKept
      <4>3. CASE ms = <<>>
        BY <4>3
      <4>4. CASE /\ ~Relative /\ ~vfingerDown
                 /\ ms = <<Touch(IF buttonsState = {} THEN "HOVER" ELSE "MOVE", "mouse", {}, buttonsState)>>
        BY <1>3, <2>1, <4>1, <4>4, MotionKept
      <4>5. CASE ~Relative /\ vfingerDown /\ ms = <<VirtualFinger("MOVE")>>
        BY <1>3, <2>1, <4>1, <4>5, MotionKept
      <4>6. CASE /\ ~Relative /\ vfingerDown
                 /\ ms = <<Touch(IF buttonsState = {} THEN "HOVER" ELSE "MOVE", "generic", {}, buttonsState),
                           VirtualFinger("MOVE")>>
        <5> DEFINE x == Touch(IF buttonsState = {} THEN "HOVER" ELSE "MOVE", "generic", {}, buttonsState)
                   y == VirtualFinger("MOVE")
        <5>1. x \in MessagesTo(cfg.camera) /\ Understood(Expected, x) /\ After(Expected, x) = Expected
          BY <1>3, <2>1, <4>1, <4>6, MotionKept
        <5>2. y \in MessagesTo(cfg.camera) /\ Understood(Expected, y) /\ After(Expected, y) = Expected
          BY <1>3, <2>1, <4>1, <4>6, MotionKept
        <5>3. ms = <<x, y>>
          BY <4>6
        <5> HIDE DEF x, y
        <5> QED BY <5>1, <5>2, <5>3
      <4> QED BY <4>1, <4>2, <4>3, <4>4, <4>5, <4>6, MotionFacts
    <3> QED BY <3>1, <3>2
  <2> HIDE DEF ms
  <2>3. Leads(Device, queue, Expected)
    BY <2>1 DEF InTouch
  <2>4. Leads(Device, queue', Expected)
    BY <1>0, <1>1, <2>2, <2>3, PushKept
  <2>5. held \cap Fingers = HeldFingers /\ held \cap Buttons = HeldButtons
    BY DEF HeldFingers, HeldButtons
  <2> QED BY <1>0, <1>1, <2>1, <2>4, <2>5, SameTouch
<1> QED BY <1>2, <1>3

(* The wheel.                                                              *)
LEMMA WheelTouch ==
  ASSUME RelayTypes, RelayTypes', TouchInv, Wheel
  PROVE  TouchInv'
<1> DEFINE consumed == cfg.camera \/ ~cfg.keyboard \/ paused \/ disconnected \/ (Relative /\ ~capture)
           ms == IF consumed THEN <<>> ELSE IF Relative THEN <<ScrollReport>> ELSE <<Scroll>>
<1>0. /\ UserEvent(held) /\ legal /\ buttonsState \in SUBSET Buttons /\ legal' /\ Expected \in DevStates
      /\ {} \in SUBSET Buttons
  BY UserFacts, DeviceFacts DEF Wheel, TouchInv, RelayTypes, InputTypeOK
<1>1. Push(ms) /\ UNCHANGED <<buttonsState, vfingerDown, lastPress>>
      /\ TouchAfter(Relative /\ HeldButtons # {})
  BY DEF Wheel, clientVars
<1>2. CASE touchLost \/ (Relative /\ HeldButtons # {})
  BY <1>0, <1>1, <1>2, LostTouch
<1>3. CASE ~(touchLost \/ (Relative /\ HeldButtons # {}))
  <2>1. InTouch
    BY <1>3 DEF TouchInv
  <2>2. ms = <<>> \/ \E m \in MessagesTo(cfg.camera) :
             ms = <<m>> /\ Understood(Expected, m) /\ After(Expected, m) = Expected
    <3>1. CASE consumed
      BY <3>1
    <3>2. CASE ~consumed /\ Relative
      <4>1. buttonsState = {}
        BY <1>0, <1>3, <2>1, <3>2 DEF InTouch, HeldButtons
      <4> DEFINE m == ScrollReport
      <4>2. m.t = "input" /\ m.buttons = {}
        BY DEF ScrollReport, HidInput
      <4>3. Expected.hid = {}
        BY <4>1 DEF Expected, Pointed
      <4>4. After(Expected, m) = [Expected EXCEPT !.hid = {}]
        BY <4>2 DEF After
      <4>5. After(Expected, m) = Expected /\ Understood(Expected, m)
        BY <4>2, <4>3, <4>4 DEF Expected, Pointed, Understood
      <4>6. m \in MessagesTo(cfg.camera)
        BY <1>0, <3>2, MadeMessages DEF ScrollReport
      <4>7. ms = <<m>>
        BY <3>2
      <4> HIDE DEF m, ms
      <4> QED BY <4>5, <4>6, <4>7
    <3>3. CASE ~consumed /\ ~Relative
      <4>1. Scroll \in MessagesTo(cfg.camera) /\ Scroll.t \notin {"touch", "input"}
        BY <3>3, MadeMessages DEF Scroll
      <4>2. ms = <<Scroll>>
        BY <3>3
      <4> HIDE DEF ms
      <4> QED BY <1>0, <4>1, <4>2, PlainKept
    <3> QED BY <3>1, <3>2, <3>3
  <2> HIDE DEF ms
  <2>3. Leads(Device, queue, Expected)
    BY <2>1 DEF InTouch
  <2>4. Leads(Device, queue', Expected)
    BY <1>0, <1>1, <2>2, <2>3, PushKept
  <2>5. held \cap Fingers = HeldFingers /\ held \cap Buttons = HeldButtons
    BY DEF HeldFingers, HeldButtons
  <2> QED BY <1>0, <1>1, <2>1, <2>4, <2>5, SameTouch
<1> QED BY <1>2, <1>3

(* A finger of the touch screen of the computer.                           *)
LEMMA FingerTouch ==
  ASSUME RelayTypes, RelayTypes', TouchInv, NEW f \in Fingers, NEW a, NEW h, Finger(f, a, h),
         \/ a = "DOWN" /\ f \notin held /\ h = held \cup {f}
         \/ a = "UP" /\ f \in held /\ h = held \ {f}
         \/ a = "MOVE" /\ f \in held /\ h = held
  PROVE  TouchInv'
<1> DEFINE ms == IF Silent \/ Relative THEN <<>> ELSE <<Touch(a, f, {}, {})>>
           loss == paused \/ disconnected \/ ~Room(Len(ms)) \/ HeldButtons # {}
<1>0. /\ UserEvent(h) /\ legal /\ buttonsState \subseteq Buttons /\ legal' /\ Expected \in DevStates
      /\ cfg.camera \in BOOLEAN /\ queue \in Seq(MessagesTo(cfg.camera)) /\ Len(queue) <= QueueLimit
      /\ cfg.mouse \in {"none", "sdk", "relative"} /\ (cfg.camera => cfg.mouse = "none")
  BY UserFacts, DeviceFacts, TypeFacts, ConfigFacts DEF Finger, TouchInv, RelayTypes, InputTypeOK
<1>1. Push(ms) /\ UNCHANGED <<buttonsState, vfingerDown, lastPress>> /\ TouchAfter(loss)
  BY DEF Finger, clientVars
<1>2. CASE touchLost \/ loss
  BY <1>0, <1>1, <1>2, LostTouch
<1>3. CASE ~(touchLost \/ loss)
  <2>1. InTouch
    BY <1>3 DEF TouchInv
  <2>2. buttonsState = {} /\ ~vfingerDown
    BY <1>0, <1>3, <2>1 DEF InTouch, HeldButtons
  <2>3. /\ cfg' = cfg /\ held' = h /\ Device' = Device /\ touching' = touching
        /\ UsedLocalIds(pointers') = UsedLocalIds(pointers)
    BY <1>0, UserFacts
  <2>4. f \notin Buttons /\ f \notin {"mouse", "generic", "virtual"}
    <3>1. f \notin {"mouse", "generic", "virtual"}
      BY DEF Fingers
    <3>2. f \notin Buttons
      BY Zenon DEF Fingers, Buttons
    <3> QED BY <3>1, <3>2
  <2>5. HeldButtons' = {}
    BY <1>3, <2>3, <2>4 DEF HeldButtons
  <2>6. Leads(Device, queue', Expected')
    <3>1. Expected' = Pointed({} # {}, {}, h \cap Fingers)
      BY <1>1, <2>2, <2>3 DEF Expected, Pointed, HeldFingers, Relative
    <3>2. Expected = Pointed({} # {}, {}, HeldFingers)
      BY <2>2 DEF Expected, Pointed
    <3>3. CASE cfg.mouse # "sdk"
      <4>1. Expected' = Expected
        BY <3>1, <3>2, <3>3 DEF Pointed
      <4>2. ms = <<>>
        BY <1>0, <3>3 DEF Silent, Relative
      <4> HIDE DEF ms
      <4>3. queue' = queue
        BY <1>0, <1>1, <4>2, PushAppends
      <4> QED BY <2>1, <4>1, <4>3 DEF InTouch
    <3>4. CASE cfg.mouse = "sdk"
      <4> DEFINE m == Touch(a, f, {}, {})
      <4>1. ms = <<m>>
        BY <1>0, <1>3, <3>4 DEF Silent, Relative
      <4>2. m.t = "touch" /\ m.a = a /\ m.id = f /\ m.buttons = {}
        BY DEF Touch
      <4>3. m \in MessagesTo(cfg.camera)
        <5>1. a \in Motions /\ f \in Ids /\ {} \in SUBSET Buttons /\ ~cfg.camera
          BY <1>0, <3>4 DEF Motions, Ids
        <5> QED BY <5>1, MadeMessages
      <4>4. Len(ms) = 1
        BY <4>1
      <4>5. Room(1)
        BY <1>3, <4>4
      <4> HIDE DEF ms, m
      <4>6. queue' = Append(queue, m)
        BY <1>0, <1>1, <4>1, <4>3, <4>5, PushAppends
      <4>7. Expected = [ids |-> HeldFingers, hid |-> {}] /\ Expected' = [ids |-> h \cap Fingers, hid |-> {}]
        BY <3>1, <3>2, <3>4 DEF Pointed
      <4>8. Understood(Expected, m) /\ After(Expected, m) = Expected'
        <5>1. CASE a = "DOWN" /\ f \notin held /\ h = held \cup {f}
          <6>1. h \cap Fingers = HeldFingers \cup {f} /\ f \notin HeldFingers
            BY <5>1 DEF HeldFingers
          <6>2. Understood(Expected, m)
            BY <2>4, <4>2, <4>7, <5>1, <6>1 DEF Understood, Lands, FirstButton
          <6> QED BY <4>2, <4>7, <5>1, <6>1, <6>2 DEF After
        <5>2. CASE a = "UP" /\ f \in held /\ h = held \ {f}
          <6>1. h \cap Fingers = HeldFingers \ {f} /\ f \in HeldFingers
            BY <5>2 DEF HeldFingers
          <6>2. Understood(Expected, m) /\ LastButton(m)
            BY <2>4, <4>2, <4>7, <5>2, <6>1 DEF Understood, Lifts, LastButton
          <6> QED BY <4>2, <4>7, <5>2, <6>1, <6>2 DEF After
        <5>3. CASE a = "MOVE" /\ f \in held /\ h = held
          <6>1. h \cap Fingers = HeldFingers /\ f \in HeldFingers
            BY <5>3 DEF HeldFingers
          <6>2. Understood(Expected, m)
            BY <2>4, <4>2, <4>7, <5>3, <6>1 DEF Understood, Moves
          <6> QED BY <4>2, <4>7, <5>3, <6>1, <6>2 DEF After
        <5> QED BY <5>1, <5>2, <5>3
      <4> QED BY <1>0, <2>1, <4>3, <4>6, <4>8, LeadsNext DEF InTouch
    <3> QED BY <3>3, <3>4
  <2>7. Leads(Device, queue, Expected)'
    BY <2>3, <2>6
  <2>8. buttonsState' = {} /\ ~vfingerDown'
    BY <1>1, <2>2
  <2>9. InTouch'
    BY <2>1, <2>3, <2>5, <2>7, <2>8 DEF InTouch
  <2> QED BY <1>0, <2>9 DEF TouchInv
<1> QED BY <1>2, <1>3

(* The buttons, the keys and the fingers are apart.                        *)
LEMMA Apart ==
  /\ Left \in Buttons
  /\ \A b \in Buttons : b \notin Fingers /\ b \notin Keys /\ b \notin {"SHIFT", "CTRL", "MOD"}
  /\ \A f \in Fingers : f \notin Keys /\ f \notin Buttons
  /\ \A k \in Keys : k \notin Buttons /\ k \notin Fingers
  /\ Modifiers \subseteq Keys
<1>1. Left \in Buttons
  BY Zenon DEF Left, Buttons
<1>2. \A k \in Keys : k \notin Fingers
  BY DEF Keys, Fingers, Modifiers, PressKeys, VolumeKeys, OneShotKeys, CameraKeys, LocalKeys, PlainKeys
<1>3. \A k \in Keys : k # "left button"
  BY Zenon DEF Keys, Modifiers, PressKeys, VolumeKeys, OneShotKeys, CameraKeys, LocalKeys, PlainKeys
<1>4. \A k \in Keys : k # "right button"
  BY Zenon DEF Keys, Modifiers, PressKeys, VolumeKeys, OneShotKeys, CameraKeys, LocalKeys, PlainKeys
<1>5. \A k \in Keys : k \notin Buttons
  BY Zenon, <1>3, <1>4 DEF Buttons
<1>6. \A f \in Fingers : f \notin Buttons
  BY Zenon DEF Fingers, Buttons
<1>7. {"SHIFT", "CTRL", "MOD"} \subseteq Keys /\ Modifiers \subseteq Keys
  BY DEF Keys, Modifiers
<1> QED BY <1>1, <1>2, <1>5, <1>6, <1>7

(* The messages of a click move the device to what the client expects.     *)
LEMMA ClickMoves ==
  ASSUME RelayTypes, InTouch, HeldFingers = {}, ~cfg.camera, cfg.mouse # "none",
         NEW b \in Buttons, NEW down \in BOOLEAN, NEW a, down => a = "DOWN", ~down => a = "UP",
         NEW bs \in SUBSET Buttons,
         down => bs = buttonsState \cup {b}, ~down => bs = buttonsState \ {b},
         NEW ms, ms = ClickMessages(b, a, bs),
         down => b \notin buttonsState, ~down => b \in buttonsState, vfingerDown => b = Left,
         ChangesVfinger(b, down) => buttonsState \ {b} = {}
  PROVE  Push(ms) /\ Room(Len(ms)) =>
           Leads(Device, queue', Pointed(IF ~Relative /\ ChangesVfinger(b, down) THEN down ELSE vfingerDown, bs, {}))
<1> DEFINE change == ChangesVfinger(b, down)
           M == MessagesTo(cfg.camera)
<1>5. /\ Relative => ms = <<HidInput(bs)>>
      /\ ~Relative /\ change => ms = <<Touch(a, "generic", {b}, bs), VirtualFinger(a)>>
      /\ ~Relative /\ ~change /\ ~vfingerDown => ms = <<Touch(a, "mouse", {b}, bs)>>
  BY ClickFacts
<1> SUFFICES ASSUME Push(ms), Room(Len(ms))
             PROVE  Leads(Device, queue', Pointed(IF ~Relative /\ ChangesVfinger(b, down) THEN down ELSE vfingerDown, bs, {}))
  OBVIOUS
<1>0. /\ queue \in Seq(M) /\ Len(queue) <= QueueLimit /\ cfg.camera \in BOOLEAN
      /\ buttonsState \in SUBSET Buttons /\ bs \in SUBSET Buttons /\ {b} \in SUBSET Buttons
      /\ {} \in SUBSET Buttons /\ a \in Motions /\ {"mouse", "generic", "virtual"} \subseteq Ids
      /\ Expected \in DevStates /\ Expected = Pointed(vfingerDown, buttonsState, {})
      /\ Leads(Device, queue, Expected) /\ (vfingerDown => buttonsState = {Left})
      /\ (Relative => ~vfingerDown) /\ vfingerDown \in BOOLEAN
  BY TypeFacts, ConfigFacts, DeviceFacts DEF RelayTypes, InputTypeOK, Motions, Ids, InTouch, Expected, Relative
<1>1. CASE Relative /\ ms = <<HidInput(bs)>>
  <2> DEFINE m == HidInput(bs)
             e == Pointed(vfingerDown, bs, {})
  <2>1. m \in M /\ m.t = "input" /\ m.buttons = bs
    BY <1>0, MadeMessages DEF HidInput
  <2>2. Understood(Expected, m) /\ After(Expected, m) = [Expected EXCEPT !.hid = bs]
    BY <2>1 DEF Understood, After
  <2>3. After(Expected, m) = e
    BY <1>0, <1>1, <2>2 DEF Pointed
  <2>4. ms = <<m>> /\ Len(ms) = 1
    BY <1>1
  <2>5. Room(1)
    BY <2>4
  <2> HIDE DEF m
  <2>6. queue' = Append(queue, m)
    BY <1>0, <2>1, <2>4, <2>5, PushAppends
  <2>7. Leads(Device, queue', e)
    BY <1>0, <2>1, <2>2, <2>3, <2>6, LeadsNext
  <2> QED BY <1>1, <2>7
<1>2. CASE ~Relative /\ change /\ ms = <<Touch(a, "generic", {b}, bs), VirtualFinger(a)>>
  <2> DEFINE m == Touch(a, "generic", {b}, bs)
             n == VirtualFinger(a)
             d == After(Expected, m)
             e == Pointed(down, bs, {})
  <2>1. m \in M /\ m.t = "touch" /\ m.id = "generic" /\ m.a = a
    BY <1>0, MadeMessages DEF Touch
  <2>2. n \in M /\ n.t = "touch" /\ n.id = "virtual" /\ n.a = a
    BY <1>0, MadeMessages DEF Touch, VirtualFinger
  <2>3. ms = <<m, n>> /\ Len(ms) = 2
    BY <1>2
  <2>4. Room(2)
    BY <2>3
  <2> HIDE DEF m, n
  <2>5. queue' = Append(Append(queue, m), n)
    BY <1>0, <2>1, <2>2, <2>3, <2>4, PushAppends
  <2>6. /\ Understood(Expected, m) /\ Understood(d, n)
        /\ After(d, n) = e
    <3>1. CASE down
      <4>1. buttonsState = {} /\ ~vfingerDown
        BY <1>2, <3>1 DEF ChangesVfinger
      <4>2. Expected = [ids |-> {}, hid |-> {}]
        BY <1>0, <1>2, <4>1 DEF Pointed
      <4>3. d = [ids |-> {"generic"}, hid |-> {}]
        BY <2>1, <3>1, <4>2 DEF After
      <4> HIDE DEF d
      <4>4. After(d, n) = [ids |-> {"generic", "virtual"}, hid |-> {}]
        BY <2>2, <3>1, <4>3 DEF After
      <4>5. Understood(Expected, m)
        BY <2>1, <3>1, <4>2 DEF Understood, Lands, FirstButton
      <4>6. Understood(d, n)
        BY <2>2, <3>1, <4>3 DEF Understood, Lands, FirstButton
      <4>7. e = [ids |-> {"generic", "virtual"}, hid |-> {}]
        BY <1>2, <3>1 DEF Pointed
      <4> QED BY <4>4, <4>5, <4>6, <4>7
    <3>2. CASE ~down
      <4>1. vfingerDown /\ b = Left /\ bs = {} /\ a = "UP"
        BY <1>0, <1>2, <3>2 DEF ChangesVfinger
      <4>2. Expected = [ids |-> {"generic", "virtual"}, hid |-> {}]
        BY <1>0, <1>2, <4>1 DEF Pointed
      <4>3. d = [ids |-> {"virtual"}, hid |-> {}]
        BY <2>1, <4>1, <4>2 DEF After, LastButton
      <4> HIDE DEF d
      <4>4. After(d, n) = [ids |-> {}, hid |-> {}]
        BY <2>2, <4>1, <4>3 DEF After, LastButton
      <4>5. Understood(Expected, m)
        BY <2>1, <4>1, <4>2 DEF Understood, Lifts, LastButton
      <4>6. Understood(d, n)
        BY <2>2, <4>1, <4>3 DEF Understood, Lifts, LastButton
      <4>7. e = [ids |-> {}, hid |-> {}]
        BY <1>2, <3>2, <4>1 DEF Pointed
      <4> QED BY <4>4, <4>5, <4>6, <4>7
    <3> QED BY <3>1, <3>2
  <2>7. d \in DevStates
    BY <1>0, <2>1, AfterFacts
  <2>8. Leads(Device, Append(queue, m), d) /\ Append(queue, m) \in Seq(M)
    BY <1>0, <2>1, <2>6, LeadsNext, AppendProperties
  <2> HIDE DEF d, e
  <2>9. Leads(Device, queue', e)
    BY <1>0, <2>2, <2>5, <2>6, <2>7, <2>8, LeadsNext
  <2> QED BY <1>2, <2>9 DEF e
<1>3. CASE ~Relative /\ ~change /\ vfingerDown
  BY <1>0, <1>3 DEF ChangesVfinger
<1>4. CASE ~Relative /\ ~change /\ ~vfingerDown /\ ms = <<Touch(a, "mouse", {b}, bs)>>
  <2> DEFINE m == Touch(a, "mouse", {b}, bs)
             e == Pointed(FALSE, bs, {})
  <2>1. m \in M /\ m.t = "touch" /\ m.id = "mouse" /\ m.a = a /\ m.button = {b} /\ m.buttons = bs
    BY <1>0, MadeMessages DEF Touch
  <2>2. ms = <<m>> /\ Len(ms) = 1
    BY <1>4
  <2>3. Room(1)
    BY <2>2
  <2> HIDE DEF m
  <2>4. queue' = Append(queue, m)
    BY <1>0, <2>1, <2>2, <2>3, PushAppends
  <2>5. Expected = [ids |-> IF buttonsState = {} THEN {} ELSE {"mouse"}, hid |-> {}]
    BY <1>0, <1>4 DEF Pointed
  <2>6. e = [ids |-> IF bs = {} THEN {} ELSE {"mouse"}, hid |-> {}]
    BY <1>4 DEF Pointed
  <2>7. Understood(Expected, m) /\ After(Expected, m) = e
    <3>1. CASE down /\ buttonsState = {}
      <4>1. bs = {b}
        BY <3>1
      <4>2. Understood(Expected, m)
        BY <2>1, <2>5, <3>1, <4>1 DEF Understood, Lands, FirstButton
      <4> QED BY <2>1, <2>5, <2>6, <3>1, <4>1, <4>2 DEF After
    <3>2. CASE down /\ buttonsState # {}
      <4>1. bs # {b} /\ bs # {} /\ m.button \cup m.buttons # {Left}
        BY <2>1, <3>2
      <4>2. Understood(Expected, m)
        BY <2>1, <2>5, <3>2, <4>1 DEF Understood, Adds, FirstButton
      <4> QED BY <2>1, <2>5, <2>6, <3>2, <4>1, <4>2 DEF After
    <3>3. CASE ~down /\ bs = {}
      <4>1. buttonsState # {} /\ a = "UP"
        BY <3>3
      <4>2. Understood(Expected, m) /\ LastButton(m)
        BY <2>1, <2>5, <3>3, <4>1 DEF Understood, Lifts, LastButton
      <4> QED BY <2>1, <2>5, <2>6, <3>3, <4>1, <4>2 DEF After
    <3>4. CASE ~down /\ bs # {}
      <4>1. buttonsState # {} /\ a = "UP" /\ m.button \cup m.buttons # {Left} /\ ~LastButton(m)
        BY <2>1, <3>4 DEF LastButton
      <4>2. Understood(Expected, m)
        BY <2>1, <2>5, <3>4, <4>1 DEF Understood, Frees
      <4> QED BY <2>1, <2>5, <2>6, <3>4, <4>1, <4>2 DEF After
    <3> QED BY <3>1, <3>2, <3>3, <3>4
  <2> HIDE DEF e
  <2>8. Leads(Device, queue', e)
    BY <1>0, <2>1, <2>4, <2>7, LeadsNext
  <2> QED BY <1>0, <1>4, <2>8 DEF e
<1> QED BY <1>1, <1>2, <1>3, <1>4, <1>5

(* The press and the release of a button.                                  *)
LEMMA ButtonTouch ==
  ASSUME RelayTypes, RelayTypes', TouchInv, NEW b \in Buttons, NEW down \in BOOLEAN,
         NEW clicks \in {1, 2}, NEW outside \in BOOLEAN, NEW h,
         ButtonEvent(b, down, clicks, outside, h),
         down => /\ b \notin held /\ h = held \cup {b}
                 /\ lastPress' = IF b = Left THEN [clicks |-> clicks, outside |-> outside] ELSE lastPress,
         ~down => /\ b \in held /\ h = held \ {b} /\ lastPress' = lastPress
                  /\ clicks = IF b = Left THEN lastPress.clicks ELSE 1
  PROVE  TouchInv'
<1> DEFINE a == IF down THEN "DOWN" ELSE "UP"
           bound == cfg.control /\ ~paused /\ Binding(b) # "click"
           border == OnBorder(b, clicks, outside)
           bs == IF down THEN buttonsState \cup {b} ELSE buttonsState \ {b}
           ms == IF bound THEN BoundMessages(Binding(b), a)
                 ELSE IF border \/ cfg.mouse = "none" \/ paused THEN <<>>
                 ELSE ClickMessages(b, a, bs)
           sent == ~bound /\ ~border /\ cfg.mouse # "none" /\ ~paused
           loss == ClickLoss(b, down, outside, ms)
           change == ChangesVfinger(b, down)
<1>0. /\ UserEvent(h) /\ legal /\ legal' /\ buttonsState \in SUBSET Buttons /\ Expected \in DevStates
      /\ cfg \in Configs /\ cfg.camera \in BOOLEAN /\ (cfg.camera => cfg.mouse = "none")
      /\ (cfg.mouse = "none" => buttonsState = {}) /\ (cfg.mouse # "sdk" => ~vfingerDown)
      /\ vfingerDown \in BOOLEAN
  BY UserFacts, TypeFacts, DeviceFacts, ConfigFacts DEF ButtonEvent, TouchInv, RelayTypes, InputTypeOK
<1>1. CASE Relative /\ ~capture
  <2>1. TouchAfter(TRUE)
    BY <1>1 DEF ButtonEvent
  <2> QED BY <1>0, <2>1, LostTouch
<1>2. CASE ~(Relative /\ ~capture)
  <2>0. ProcessButton(b, down, clicks, outside)
    BY <1>2 DEF ButtonEvent
  <2>1. TouchAfter(loss)
    BY <2>0 DEF ProcessButton
  <2>2. CASE touchLost \/ loss
    BY <1>0, <2>1, <2>2, LostTouch
  <2>3. CASE ~(touchLost \/ loss)
    <3>1. /\ InTouch /\ Room(Len(ms)) /\ ~paused /\ ~disconnected /\ (vfingerDown => b = Left)
          /\ (change => HeldButtons \ {b} = {}) /\ HeldFingers = {}
          /\ (~down /\ lastPress.clicks = 2 => lastPress.outside = outside)
      BY <2>3 DEF TouchInv, ClickLoss
    <3>2. IF cfg.camera THEN UNCHANGED <<buttonsState, vfingerDown, queue>>
          ELSE /\ Push(ms) /\ buttonsState' = IF sent THEN bs ELSE Released(b, down)
               /\ vfingerDown' = IF sent /\ ~Relative /\ change /\ Room(Len(ms)) THEN down ELSE vfingerDown
      BY <2>0, <3>1 DEF ProcessButton
    <3> HIDE DEF ms, bound, border, bs, sent, loss, change, a
    <3>3. /\ cfg' = cfg /\ held' = h /\ Device' = Device /\ touching' = touching
          /\ UsedLocalIds(pointers') = UsedLocalIds(pointers)
      BY <1>0, UserFacts
    <3>4. /\ Leads(Device, queue, Expected) /\ buttonsState \subseteq held
          /\ \A x \in HeldButtons : x \in buttonsState <=> SentDown(x)
          /\ (vfingerDown => buttonsState = {Left}) /\ touching = UsedLocalIds(pointers)
      BY <3>1 DEF InTouch
    <3>5. /\ HeldFingers' = {} /\ ("SHIFT" \in held' <=> "SHIFT" \in held)
          /\ HeldButtons' = (IF down THEN HeldButtons \cup {b} ELSE HeldButtons \ {b})
      BY <3>1, <3>3, Apart DEF HeldButtons, HeldFingers
    <3>6. \A x \in Buttons : Binding(x)' = Binding(x)
      BY <3>3, <3>5 DEF Binding, Relative
    <3>7. ASSUME NEW x \in Buttons, x # b PROVE SentDown(x)' <=> SentDown(x)
      <4>1. Binding(x)' = Binding(x)
        BY <3>6
      <4>2. x = Left => lastPress' = lastPress
        BY <3>7
      <4> QED BY <3>3, <4>1, <4>2 DEF SentDown, Relative
    <3>8. /\ ~down => (sent <=> SentDown(b)) /\ (b \in buttonsState <=> sent)
          /\ down => (sent <=> SentDown(b)') /\ b \notin buttonsState
      <4>1. sent <=> cfg.mouse # "none" /\ ~(cfg.control /\ Binding(b) # "click")
                       /\ ~(~Relative /\ b = Left /\ clicks = 2 /\ outside)
        BY <3>1 DEF sent, bound, border, OnBorder
      <4>2. ASSUME ~down PROVE (sent <=> SentDown(b)) /\ (b \in buttonsState <=> sent)
        <5>1. b = Left => (clicks = 2 /\ outside <=> lastPress.clicks = 2 /\ lastPress.outside)
          BY <3>1, <4>2 DEF RelayTypes, Clicks
        <5>2. sent <=> SentDown(b)
          BY <4>1, <5>1 DEF SentDown
        <5>3. b \in HeldButtons
          BY <4>2 DEF HeldButtons
        <5> QED BY <3>4, <5>2, <5>3
      <4>3. ASSUME down PROVE (sent <=> SentDown(b)') /\ b \notin buttonsState
        <5>1. b = Left => lastPress'.clicks = clicks /\ lastPress'.outside = outside
          BY <4>3
        <5>2. Binding(b)' = Binding(b)
          BY <3>6
        <5>3. SentDown(b)' <=> cfg.mouse # "none" /\ ~(cfg.control /\ Binding(b) # "click")
                       /\ ~(~Relative /\ b = Left /\ clicks = 2 /\ outside)
          BY <3>3, <5>1, <5>2 DEF SentDown, Relative
        <5> QED BY <3>4, <4>1, <4>3, <5>3
      <4> QED BY <4>2, <4>3
    <3>9. buttonsState' = (IF down THEN (IF sent THEN buttonsState \cup {b} ELSE buttonsState)
                           ELSE buttonsState \ {b})
      <4>1. cfg.camera => ~sent /\ buttonsState = {}
        BY <1>0 DEF sent
      <4>2. CASE cfg.camera
        BY <3>2, <4>1, <4>2
      <4>3. CASE ~cfg.camera
        BY <3>2, <4>3 DEF bs, Released
      <4> QED BY <4>2, <4>3
    <3>10. vfingerDown' = (IF sent /\ ~Relative /\ change THEN down ELSE vfingerDown)
      <4>1. cfg.camera => ~sent
        BY <1>0 DEF sent
      <4> QED BY <3>1, <3>2, <4>1
    <3>11. Leads(Device, queue', Pointed(vfingerDown', buttonsState', {}))
      <4>0. Expected = Pointed(vfingerDown, buttonsState, {})
        BY <3>1 DEF Expected
      <4>1. CASE cfg.camera
        BY <3>2, <3>4, <4>0, <4>1
      <4>2. CASE ~cfg.camera /\ sent
        <5>1. ms = ClickMessages(b, a, bs) /\ cfg.mouse # "none"
          BY <4>2 DEF ms, sent
        <5>2. (down => bs = buttonsState \cup {b}) /\ (~down => bs = buttonsState \ {b})
              /\ (down => a = "DOWN") /\ (~down => a = "UP") /\ bs \in SUBSET Buttons
          BY <1>0 DEF bs, a
        <5>3. (down => b \notin buttonsState) /\ (~down => b \in buttonsState)
          BY <3>8, <4>2
        <5>4. change => buttonsState \ {b} = {}
          BY <1>0, <3>1, <3>4 DEF HeldButtons
        <5>5. Push(ms) /\ buttonsState' = bs
          BY <3>2, <4>2
        <5>6. Leads(Device, queue', Pointed(IF ~Relative /\ change THEN down ELSE vfingerDown, bs, {}))
          BY <3>1, <4>2, <5>1, <5>2, <5>3, <5>4, <5>5, ClickMoves DEF change
        <5>7. vfingerDown' = IF ~Relative /\ change THEN down ELSE vfingerDown
          BY <3>10, <4>2
        <5> QED BY <5>5, <5>6, <5>7
      <4>3. CASE ~cfg.camera /\ ~sent
        <5>1. buttonsState' = buttonsState /\ vfingerDown' = vfingerDown /\ Push(ms)
          BY <3>2, <3>8, <3>9, <3>10, <4>3
        <5>2. ms = <<>> \/ \E m \in MessagesTo(cfg.camera) : ms = <<m>> /\ m.t \notin {"touch", "input"}
          <6>1. CASE bound
            <7>1. ms = BoundMessages(Binding(b), a)
              BY <6>1 DEF ms
            <7>2. \/ ms = <<[t |-> "back", a |-> Action(down)]>> \/ ms = <<Key(Action(down), "h")>>
                  \/ ms = <<Message("notifications")>> \/ ms = <<>>
              BY <4>3, <7>1, BoundFacts DEF a
            <7>3. /\ "h" \in Keys /\ "notifications" \in DisplayPlain /\ Action(down) \in Actions
              BY DEF Keys, PressKeys, DisplayPlain, Action, Actions
            <7>4. /\ Message("notifications") \in MessagesTo(cfg.camera)
                  /\ Message("notifications").t \notin {"touch", "input"}
              BY <4>3, <7>3, PlainTypes
            <7>5. /\ Key(Action(down), "h") \in MessagesTo(cfg.camera)
                  /\ [t |-> "back", a |-> Action(down)] \in MessagesTo(cfg.camera)
              BY <4>3, <7>3, MadeMessages
            <7>6. /\ Key(Action(down), "h").t \notin {"touch", "input"}
                  /\ [t |-> "back", a |-> Action(down)].t \notin {"touch", "input"}
              BY DEF Key
            <7> QED BY <7>2, <7>4, <7>5, <7>6
          <6>2. CASE ~bound
            BY <4>3, <6>2 DEF ms, sent
          <6> QED BY <6>1, <6>2
        <5>3. Leads(Device, queue', Expected)
          BY <1>0, <3>4, <5>1, <5>2, PlainKept, PushKept
        <5> QED BY <4>0, <5>1, <5>3
      <4> QED BY <4>1, <4>2, <4>3
    <3>12. Expected' = Pointed(vfingerDown', buttonsState', {})
      BY <3>3, <3>5 DEF Expected, Pointed, Relative
    <3>13. Leads(Device, queue, Expected)'
      BY <3>3, <3>11, <3>12
    <3>14. buttonsState' \subseteq held'
      BY <3>3, <3>4, <3>9, Apart
    <3>15. ASSUME NEW x \in HeldButtons' PROVE x \in buttonsState' <=> SentDown(x)'
      <4>1. x \in Buttons
        BY <3>15 DEF HeldButtons
      <4>2. CASE x = b
        BY <3>5, <3>8, <3>9, <3>15, <4>2
      <4>3. CASE x # b
        <5>1. x \in HeldButtons /\ (x \in buttonsState' <=> x \in buttonsState)
          BY <3>5, <3>9, <3>15, <4>3
        <5> QED BY <3>4, <3>7, <4>1, <4>3, <5>1
      <4> QED BY <4>2, <4>3
    <3>16. vfingerDown' => buttonsState' = {Left}
      <4>1. CASE sent /\ ~Relative /\ change
        <5>1. down => b = Left /\ buttonsState \subseteq {b}
          BY <1>0, <3>1, <3>4, <4>1 DEF HeldButtons, change, ChangesVfinger
        <5> QED BY <3>8, <3>9, <3>10, <4>1, <5>1
      <4>2. CASE ~(sent /\ ~Relative /\ change)
        <5>1. vfingerDown' = vfingerDown
          BY <3>10, <4>2
        <5>2. vfingerDown => b = Left /\ buttonsState = {b} /\ ~down
          BY <3>1, <3>4, <3>8
        <5>3. vfingerDown => sent /\ change /\ ~Relative
          BY <1>0, <3>8, <5>2 DEF change, ChangesVfinger, Relative
        <5> QED BY <4>2, <5>1, <5>3
      <4> QED BY <4>1, <4>2
    <3>17. InTouch'
      BY <3>3, <3>4, <3>5, <3>13, <3>14, <3>15, <3>16 DEF InTouch
    <3> QED BY <1>0, <3>17 DEF TouchInv
  <2> QED BY <2>2, <2>3
<1> QED BY <1>1, <1>2

(* What the device and the screen do.                                      *)
LEMMA OtherTouch ==
  ASSUME RelayTypes, RelayTypes', TouchInv, Rotate \/ NewFrameSize \/ Disconnected \/ WheelCrash
  PROVE  TouchInv'
<1>1. CASE Rotate \/ NewFrameSize
  <2>1. UNCHANGED <<cfg, held, lastPress, buttonsState, vfingerDown, queue, pointers, touching,
                    hidButtons, legal, touchLost>>
    BY <1>1 DEF Rotate, NewFrameSize, userVars, clientVars, serverVars
  <2>2. Device' = Device /\ Expected' = Expected /\ HeldButtons' = HeldButtons /\ HeldFingers' = HeldFingers
    BY <2>1 DEF Device, Expected, Pointed, HeldButtons, HeldFingers, Relative
  <2>3. \A b \in Buttons : SentDown(b)' <=> SentDown(b)
    BY <2>1 DEF SentDown, Binding, Relative
  <2>4. UsedLocalIds(pointers') = UsedLocalIds(pointers)
    BY <2>1
  <2>5. InTouch => InTouch'
    <3>1. Leads(Device, queue, Expected) => Leads(Device, queue, Expected)'
      BY <2>1, <2>2
    <3>2. \A b \in HeldButtons : b \in Buttons
      BY DEF HeldButtons
    <3> QED BY <2>1, <2>2, <2>3, <2>4, <3>1, <3>2 DEF InTouch
  <2> QED BY <2>1, <2>5 DEF TouchInv
<1>2. CASE Disconnected \/ WheelCrash
  BY <1>2 DEF Disconnected, WheelCrash, TouchInv
<1> QED BY <1>1, <1>2

(* The server takes the first message of the queue.                        *)
LEMMA HandleTouch ==
  ASSUME RelayTypes, RelayTypes', TouchInv, HandleEvent
  PROVE  TouchInv'
<1> DEFINE M == MessagesTo(cfg.camera)
           m == Head(queue)
           loss == ServerTouchLoss(m)
<1>1. /\ queue \in Seq(M) /\ queue # <<>> /\ queue' = Tail(queue) /\ cfg.camera \in BOOLEAN
      /\ TouchAfter(loss) /\ legal
  BY TypeFacts, ConfigFacts DEF HandleEvent, TouchInv
<1>2. m \in M
  BY <1>1, HeadTailProperties
<1>3. m.t \in Known /\ ServerReads(m.t) = m.t
  BY <1>1, <1>2, MessageFacts, WireAgrees
<1>4. /\ IF m.t = "touch" THEN InjectTouch(m) ELSE UNCHANGED <<pointers, touching, legal>>
      /\ hidButtons' = IF m.t = "input" THEN m.buttons ELSE hidButtons
      /\ UNCHANGED <<userVars, clientVars, mapperSize>>
  BY <1>3 DEF HandleEvent
<1> HIDE DEF m, loss
<1>5. CASE touchLost \/ loss
  <2>1. legal'
    <3>1. CASE m.t # "touch"
      BY <1>1, <1>4, <3>1
    <3>2. CASE m.t = "touch" /\ loss
      BY <1>1, <1>4, <3>2 DEF loss, ServerTouchLoss, InjectTouch
    <3>3. CASE m.t = "touch" /\ ~loss /\ touchLost
      <4>1. /\ legal' = (legal /\ (touchLost \/
                 Consistent(Injected(m, MultiAction(m.a, Len(WithPointer(pointers, m.id)))),
                            UsedLocalIds(WithPointer(pointers, m.id)),
                            WithPointer(pointers, m.id)[IndexOf(WithPointer(pointers, m.id), m.id)].local)))
        BY <1>4, <3>3 DEF loss, ServerTouchLoss, InjectTouch
      <4> QED BY <1>1, <3>3, <4>1
    <3> QED BY <1>5, <3>1, <3>2, <3>3
  <2> QED BY <1>1, <1>5, <2>1, LostTouch
<1>6. CASE ~(touchLost \/ loss)
  <2>1. InTouch
    BY <1>6 DEF TouchInv
  <2>2. Understood(Device, m) /\ Leads(After(Device, m), queue', Expected)
    BY <1>1, <2>1, LeadsTail DEF InTouch, m
  <2>3. /\ cfg' = cfg /\ held' = held /\ lastPress' = lastPress /\ buttonsState' = buttonsState
        /\ vfingerDown' = vfingerDown
    BY <1>4 DEF userVars, clientVars
  <2>4. Expected' = Expected /\ HeldButtons' = HeldButtons /\ HeldFingers' = HeldFingers
    BY <2>3 DEF Expected, Pointed, HeldButtons, HeldFingers, Relative
  <2>5. \A b \in HeldButtons : SentDown(b)' <=> SentDown(b)
    BY <2>3 DEF SentDown, Binding, Relative
  <2>6. legal' /\ touching' = UsedLocalIds(pointers') /\ IdsOf(pointers') = After(Device, m).ids
    <3>1. CASE m.t = "touch"
      <4>1. m \in TouchMsgs
        BY <1>1, <1>2, <3>1, MessageFacts
      <4>2. m.size = mapperSize /\ IndexOf(WithPointer(pointers, m.id), m.id) # 0
        BY <1>6, <3>1 DEF loss, ServerTouchLoss
      <4>3. InjectTouch(m) /\ touching = UsedLocalIds(pointers)
        BY <1>4, <2>1, <3>1 DEF InTouch
      <4> QED BY <1>1, <2>2, <4>1, <4>2, <4>3, TouchHandled
    <3>2. CASE m.t # "touch"
      <4>1. pointers' = pointers /\ touching' = touching /\ legal' = legal
        BY <1>4, <3>2
      <4>2. After(Device, m).ids = IdsOf(pointers)
        BY <3>2 DEF After, Device
      <4>3. touching' = UsedLocalIds(pointers')
        BY <2>1, <4>1 DEF InTouch
      <4> QED BY <1>1, <4>1, <4>2, <4>3
    <3> QED BY <3>1, <3>2
  <2>7. After(Device, m) = [ids |-> After(Device, m).ids, hid |-> hidButtons']
    BY <1>4 DEF After, Device
  <2>8. Device' = After(Device, m)
    BY <2>6, <2>7 DEF Device
  <2>9. Leads(Device, queue, Expected)'
    BY <2>2, <2>4, <2>8
  <2>10. InTouch'
    BY <2>1, <2>3, <2>4, <2>5, <2>6, <2>9 DEF InTouch
  <2> QED BY <2>6, <2>10 DEF TouchInv
<1> QED BY <1>5, <1>6

(* Initially nothing is down on either side.                               *)
LEMMA TouchInit == InputInit => TouchInv
<1> SUFFICES ASSUME InputInit PROVE TouchInv
  OBVIOUS
<1> DEFINE d == [ids |-> {}, hid |-> {}]
<1>1. pointers = <<>> /\ DOMAIN <<>> = {}
  BY DEF InputInit
<1>2. UsedLocalIds(pointers) = {} /\ IdsOf(pointers) = {}
  BY <1>1 DEF UsedLocalIds, IdsOf
<1>3. Device = d
  BY <1>2 DEF InputInit, Device
<1>4. Expected = d
  BY DEF InputInit, Expected, Pointed, HeldFingers
<1>5. d \in DevStates
  BY DEF DevStates
<1> HIDE DEF d
<1>6. Leads(Device, queue, Expected)
  BY <1>3, <1>4, <1>5, LeadsNone DEF InputInit
<1>7. HeldButtons = {} /\ HeldFingers = {}
  BY DEF InputInit, HeldButtons, HeldFingers
<1>8. InTouch
  BY <1>2, <1>6, <1>7 DEF InputInit, InTouch
<1> QED BY <1>8 DEF InputInit, TouchInv

(* Every step preserves the invariant of the pointers.                     *)
LEMMA TouchNext == RelayTypes /\ RelayTypes' /\ TouchInv /\ [InputNext]_inputVars => TouchInv'
<1> SUFFICES ASSUME RelayTypes, RelayTypes', TouchInv, [InputNext]_inputVars PROVE TouchInv'
  OBVIOUS
<1>1. ASSUME NEW k \in Keys, KeyPress(k) \/ KeyRepeat(k) \/ KeyRelease(k) PROVE TouchInv'
  <2>0. /\ k \notin Fingers /\ k \notin Buttons /\ TRUE \in BOOLEAN /\ FALSE \in BOOLEAN
    BY Apart
  <2> DEFINE same(h) == /\ h \cap Fingers = HeldFingers /\ h \cap Buttons = HeldButtons
                        /\ (k # "SHIFT" => ("SHIFT" \in h <=> "SHIFT" \in held))
  <2>1. same(held) /\ same(held \cup {k}) /\ same(held \ {k})
    BY <2>0 DEF HeldFingers, HeldButtons
  <2>2. CASE KeyPress(k)
    <3>1. KeyEvent(k, TRUE, FALSE, held \cup {k})
      BY <2>2 DEF KeyPress
    <3> QED BY <2>0, <2>1, <3>1, KeyTouch
  <2>3. CASE KeyRepeat(k)
    <3>1. KeyEvent(k, TRUE, TRUE, held)
      BY <2>3 DEF KeyRepeat
    <3> QED BY <2>0, <2>1, <3>1, KeyTouch
  <2>4. CASE KeyRelease(k)
    <3>1. KeyEvent(k, FALSE, FALSE, held \ {k})
      BY <2>4 DEF KeyRelease
    <3> QED BY <2>0, <2>1, <3>1, KeyTouch
  <2> QED BY <1>1, <2>2, <2>3, <2>4
<1>2. ASSUME NEW class \in {"alpha", "punct"}, TextInput(class) PROVE TouchInv'
  BY <1>2, TextTouch
<1>3. ASSUME NEW b \in Buttons, NEW outside \in BOOLEAN, NEW clicks \in {1, 2},
             ButtonPress(b, clicks, outside)
      PROVE  TouchInv'
  <2> DEFINE down == TRUE
             h == held \cup {b}
  <2>1. ButtonEvent(b, down, clicks, outside, h) /\ down \in BOOLEAN
    BY <1>3 DEF ButtonPress
  <2>2. /\ b \notin held /\ h = held \cup {b}
        /\ lastPress' = IF b = Left THEN [clicks |-> clicks, outside |-> outside] ELSE lastPress
    BY <1>3 DEF ButtonPress
  <2>3. down
    OBVIOUS
  <2> HIDE DEF down, h
  <2> QED BY <2>1, <2>2, <2>3, ButtonTouch
<1>4. ASSUME NEW b \in Buttons, NEW outside \in BOOLEAN, ButtonRelease(b, outside)
      PROVE  TouchInv'
  <2> DEFINE down == FALSE
             h == held \ {b}
             clicks == IF b = Left THEN lastPress.clicks ELSE 1
  <2>1. ButtonEvent(b, down, clicks, outside, h) /\ down \in BOOLEAN
    BY <1>4 DEF ButtonRelease
  <2>2. b \in held /\ h = held \ {b} /\ lastPress' = lastPress /\ clicks = IF b = Left THEN lastPress.clicks ELSE 1
    BY <1>4 DEF ButtonRelease
  <2>3. ~down /\ clicks \in {1, 2}
    BY DEF RelayTypes, Clicks
  <2> HIDE DEF down, h, clicks
  <2> QED BY <2>1, <2>2, <2>3, ButtonTouch
<1>5. ASSUME NEW f \in Fingers, FingerDown(f) \/ FingerUp(f) \/ FingerMotion(f) PROVE TouchInv'
  BY <1>5, FingerTouch DEF FingerDown, FingerUp, FingerMotion
<1>6. CASE UNCHANGED inputVars
  <2>1. UNCHANGED <<cfg, held, lastPress, buttonsState, vfingerDown, queue, pointers, touching,
                    hidButtons, legal, touchLost>>
    BY <1>6 DEF inputVars, userVars, clientVars, serverVars
  <2>2. Device' = Device /\ Expected' = Expected /\ HeldButtons' = HeldButtons /\ HeldFingers' = HeldFingers
    BY <2>1 DEF Device, Expected, Pointed, HeldButtons, HeldFingers, Relative
  <2>3. \A b \in HeldButtons : SentDown(b)' <=> SentDown(b)
    BY <2>1 DEF SentDown, Binding, Relative
  <2>4. UsedLocalIds(pointers') = UsedLocalIds(pointers)
    BY <2>1
  <2>5. Leads(Device, queue, Expected) => Leads(Device, queue, Expected)'
    BY <2>1, <2>2
  <2>6. InTouch => InTouch'
    BY <2>1, <2>2, <2>3, <2>4, <2>5 DEF InTouch
  <2> QED BY <2>1, <2>6 DEF TouchInv
<1> QED BY <1>1, <1>2, <1>3, <1>4, <1>5, <1>6, MotionTouch, WheelTouch, FocusTouch, OtherTouch, HandleTouch
        DEF InputNext

(* The pointers and the buttons of both sides: as long as nothing was      *)
(* lost, the queue leads the device to what the client has.                *)
THEOREM TouchInvariant == InputSpec => [](RelayTypes /\ TouchInv)
<1>1. InputInit => RelayTypes /\ TouchInv
  BY TypesInit, TouchInit
<1>2. RelayTypes /\ TouchInv /\ [InputNext]_inputVars => (RelayTypes /\ TouchInv)'
  BY TypesNext, TouchNext
<1> QED BY <1>1, <1>2, PTL DEF InputSpec

(* Android receives a consistent stream of motion events, unless a press   *)
(* or a release was lost (input_manager.c, Controller.java).               *)
THEOREM StreamStaysConsistent == InputSpec => []StreamConsistent
<1>1. RelayTypes /\ TouchInv => StreamConsistent
  BY DEF RelayTypes, TouchInv, StreamConsistent
<1> QED BY <1>1, TouchInvariant, PTL

-------------------------------------------------------------------------------
(* The keys.  A key that is down on the device, or that the queue leaves   *)
(* down, is wanted by something that the user holds.                       *)

About(m, a, k) ==
  \/ m.t = "keycode" /\ m.a = a /\ m.key = k
  \/ m.t = "back" /\ m.a = a /\ k = "b"
NoKey(m) == m.t \notin {"keycode", "back"}
BackDown == [t |-> "back", a |-> "down"]
BackUp == [t |-> "back", a |-> "up"]

(* k is down once the messages of q have reached a device where those of   *)
(* keys are down.                                                          *)
Pending(q, keys, k) ==
  \/ k \in keys /\ \A j \in 1 .. Len(q) : ~About(q[j], "up", k)
  \/ \E i \in 1 .. Len(q) : About(q[i], "down", k) /\ \A j \in i + 1 .. Len(q) : ~About(q[j], "up", k)

(* On a device whose screen is off BACK only turns the screen on: a press  *)
(* comes before each release.                                              *)
HasBack(q) == \E j \in 1 .. Len(q) : q[j] = BackDown
BackFirst(q) == \A i \in 1 .. Len(q) : q[i] = BackUp => \E j \in 1 .. i - 1 : q[j] = BackDown

(* A message more in the queue.                                            *)
LEMMA PendingNext ==
  ASSUME NEW M, NEW q \in Seq(M), NEW m \in M, NEW keys, NEW k
  PROVE  /\ Pending(Append(q, m), keys, k) =>
              About(m, "down", k) \/ (Pending(q, keys, k) /\ ~About(m, "up", k))
         /\ HasBack(q) \/ m = BackDown => HasBack(Append(q, m))
         /\ BackFirst(q) /\ (m = BackUp => HasBack(q)) => BackFirst(Append(q, m))
<1> DEFINE n == Len(q)
           r == Append(q, m)
<1>1. /\ n \in Nat /\ Len(r) = n + 1 /\ r[n + 1] = m /\ \A i \in 1 .. n : r[i] = q[i]
      /\ \A i \in 1 .. n + 1 : i \in 1 .. n \/ i = n + 1
      /\ \A i \in 1 .. n : i \in 1 .. n + 1
      /\ n + 1 \in 1 .. n + 1
  BY AppendProperties, LenProperties
<1> HIDE DEF n, r
<1>2. ASSUME Pending(r, keys, k)
      PROVE  About(m, "down", k) \/ (Pending(q, keys, k) /\ ~About(m, "up", k))
  <2>1. CASE k \in keys /\ \A j \in 1 .. n + 1 : ~About(r[j], "up", k)
    <3>1. ~About(m, "up", k) /\ \A j \in 1 .. n : ~About(q[j], "up", k)
      BY <1>1, <2>1
    <3> QED BY <2>1, <3>1 DEF Pending, n
  <2>2. CASE \E i \in 1 .. n + 1 : About(r[i], "down", k) /\ \A j \in i + 1 .. n + 1 : ~About(r[j], "up", k)
    <3>1. PICK i \in 1 .. n + 1 : About(r[i], "down", k) /\ \A j \in i + 1 .. n + 1 : ~About(r[j], "up", k)
      BY <2>2
    <3>2. CASE i = n + 1
      BY <1>1, <3>1, <3>2
    <3>3. CASE i \in 1 .. n
      <4>1. n + 1 \in i + 1 .. n + 1 /\ \A j \in i + 1 .. n : j \in i + 1 .. n + 1 /\ j \in 1 .. n
        BY <1>1, <3>3
      <4>2. ~About(m, "up", k) /\ \A j \in i + 1 .. n : ~About(q[j], "up", k)
        BY <1>1, <3>1, <4>1
      <4>3. About(q[i], "down", k)
        BY <1>1, <3>1, <3>3
      <4> QED BY <3>3, <4>2, <4>3 DEF Pending, n
    <3> QED BY <1>1, <3>2, <3>3
  <2> QED BY <1>1, <1>2, <2>1, <2>2 DEF Pending
<1>3. HasBack(q) \/ m = BackDown => HasBack(r)
  <2>1. ASSUME HasBack(q) PROVE HasBack(r)
    <3>1. PICK j \in 1 .. n : q[j] = BackDown
      BY <2>1 DEF HasBack, n
    <3> QED BY <1>1, <3>1 DEF HasBack
  <2>2. ASSUME m = BackDown PROVE HasBack(r)
    BY <1>1, <2>2 DEF HasBack
  <2> QED BY <2>1, <2>2
<1>4. ASSUME BackFirst(q), m = BackUp => HasBack(q), NEW i \in 1 .. n + 1, r[i] = BackUp
      PROVE  \E j \in 1 .. i - 1 : r[j] = BackDown
  <2>1. CASE i \in 1 .. n
    <3>1. PICK j \in 1 .. i - 1 : q[j] = BackDown
      BY <1>1, <1>4, <2>1 DEF BackFirst, n
    <3>2. j \in 1 .. n
      BY <1>1, <2>1
    <3> QED BY <1>1, <3>1, <3>2
  <2>2. CASE i = n + 1
    <3>1. PICK j \in 1 .. n : q[j] = BackDown
      BY <1>1, <1>4, <2>2 DEF HasBack, n
    <3>2. j \in 1 .. i - 1
      BY <1>1, <2>2
    <3> QED BY <1>1, <3>1, <3>2
  <2> QED BY <1>1, <2>1, <2>2
<1> QED BY <1>1, <1>2, <1>3, <1>4 DEF BackFirst, r

(* A message less, once the server has done what it says.                  *)
LEMMA PendingTail ==
  ASSUME NEW M, NEW q \in Seq(M), q # <<>>, NEW keys, NEW rest, NEW k,
         k \in rest => About(Head(q), "down", k) \/ (k \in keys /\ ~About(Head(q), "up", k))
  PROVE  /\ Pending(Tail(q), rest, k) => Pending(q, keys, k)
         /\ HasBack(q) /\ Head(q) # BackDown => HasBack(Tail(q))
         /\ BackFirst(q) /\ Head(q) # BackDown => BackFirst(Tail(q))
         /\ BackFirst(q) => Head(q) # BackUp
<1> DEFINE n == Len(q) - 1
           r == Tail(q)
<1>1. /\ Len(q) \in Nat /\ Len(q) = n + 1 /\ n \in Nat /\ Len(r) = n /\ Head(q) = q[1]
      /\ \A i \in 1 .. n : r[i] = q[i + 1]
  BY HeadTailProperties, EmptySeq, LenProperties
<1> HIDE DEF n, r
<1>2. /\ \A i \in 1 .. n + 1 : i = 1 \/ (i - 1 \in 1 .. n /\ r[i - 1] = q[i])
      /\ 1 \in 1 .. n + 1
  BY <1>1
<1>3. ASSUME Pending(r, rest, k) PROVE Pending(q, keys, k)
  <2>1. CASE k \in rest /\ \A j \in 1 .. n : ~About(r[j], "up", k)
    <3>1. \A j \in 2 .. n + 1 : ~About(q[j], "up", k)
      <4>1. ASSUME NEW j \in 2 .. n + 1 PROVE ~About(q[j], "up", k)
        <5>1. j - 1 \in 1 .. n /\ r[j - 1] = q[j]
          BY <1>1, <1>2
        <5> QED BY <2>1, <5>1
      <4> QED BY <4>1
    <3>2. CASE About(q[1], "down", k)
      <4>1. 1 + 1 = 2
        OBVIOUS
      <4> QED BY <1>1, <1>2, <3>1, <3>2, <4>1 DEF Pending
    <3>3. CASE k \in keys /\ ~About(q[1], "up", k)
      <4>1. \A j \in 1 .. n + 1 : j = 1 \/ j \in 2 .. n + 1
        BY <1>1
      <4> QED BY <1>1, <3>1, <3>3, <4>1 DEF Pending
    <3> QED BY <1>1, <2>1, <3>2, <3>3
  <2>2. CASE \E i \in 1 .. n : About(r[i], "down", k) /\ \A j \in i + 1 .. n : ~About(r[j], "up", k)
    <3>1. PICK i \in 1 .. n : About(r[i], "down", k) /\ \A j \in i + 1 .. n : ~About(r[j], "up", k)
      BY <2>2
    <3>2. i + 1 \in 1 .. n + 1 /\ About(q[i + 1], "down", k)
      BY <1>1, <3>1
    <3>3. ASSUME NEW j \in (i + 1) + 1 .. n + 1 PROVE ~About(q[j], "up", k)
      <4>1. j - 1 \in i + 1 .. n /\ j \in 1 .. n + 1 /\ j # 1
        BY <1>1
      <4> QED BY <1>2, <3>1, <4>1
    <3> QED BY <1>1, <3>2, <3>3 DEF Pending
  <2> QED BY <1>1, <1>3, <2>1, <2>2 DEF Pending
<1>4. ASSUME HasBack(q), Head(q) # BackDown PROVE HasBack(r)
  <2>1. PICK j \in 1 .. n + 1 : q[j] = BackDown
    BY <1>1, <1>4 DEF HasBack
  <2> QED BY <1>1, <1>2, <1>4, <2>1 DEF HasBack
<1>5. ASSUME BackFirst(q), Head(q) # BackDown, NEW i \in 1 .. n, r[i] = BackUp
      PROVE  \E j \in 1 .. i - 1 : r[j] = BackDown
  <2>1. i + 1 \in 1 .. n + 1 /\ q[i + 1] = BackUp /\ (i + 1) - 1 = i
    BY <1>1, <1>5
  <2>2. PICK j \in 1 .. i : q[j] = BackDown
    BY <1>1, <1>5, <2>1 DEF BackFirst
  <2>3. j # 1 /\ j \in 1 .. n + 1
    BY <1>1, <1>5, <2>2
  <2>4. j - 1 \in 1 .. i - 1 /\ r[j - 1] = BackDown
    BY <1>1, <1>2, <2>2, <2>3
  <2> QED BY <2>4
<1>6. ASSUME BackFirst(q) PROVE Head(q) # BackUp
  <2>1. \A j \in 1 .. 1 - 1 : FALSE
    OBVIOUS
  <2> QED BY <1>1, <1>2, <1>6, <2>1 DEF BackFirst
<1> QED BY <1>1, <1>3, <1>4, <1>5, <1>6 DEF BackFirst, r

(* What wants a key of the device to be down.                              *)
Holds(x, k) ==
  \/ x \in Keys /\ x = k /\ Forwards(k, held)
  \/ /\ x \in Buttons /\ cfg.keyboard
     /\ (Binding(x) = "back" /\ k = "b") \/ (Binding(x) = "home" /\ k = "h")
BackHeld == cfg.keyboard /\ \E x \in HeldButtons : Binding(x) = "back"

InKeys ==
  /\ \A k \in Keys : Pending(queue, devKeys, k) => \E x \in held : Holds(x, k)
  /\ ~screenOn => BackFirst(queue) /\ (BackHeld => HasBack(queue))
KeysInv == ~keyLost => InKeys

(* With nothing down and nothing queued, no key is pending.                *)
LEMMA NonePending == \A k : ~Pending(<<>>, {}, k)
<1>1. Len(<<>>) = 0 /\ 1 .. 0 = {}
  OBVIOUS
<1> QED BY <1>1 DEF Pending

(* Once a loss was named, there is nothing to show until everything is     *)
(* released.                                                               *)
LEMMA LostKeys ==
  ASSUME NEW loss, KeyAfter(loss), keyLost \/ loss
  PROVE  KeysInv'
<1>1. CASE keyLost'
  BY <1>1 DEF KeysInv
<1>2. CASE ~keyLost'
  <2>1. held' = {} /\ queue' = <<>> /\ devKeys' = {}
    BY <1>2 DEF KeyAfter, AllReleased
  <2>2. Len(<<>>) = 0 /\ 1 .. 0 = {}
    OBVIOUS
  <2>3. BackFirst(queue)'
    BY <2>1, <2>2 DEF BackFirst
  <2>4. ~BackHeld'
    BY <2>1 DEF BackHeld, HeldButtons
  <2>5. \A k \in Keys : ~Pending(queue, devKeys, k)'
    BY <2>1, NonePending
  <2> QED BY <2>3, <2>4, <2>5 DEF KeysInv, InKeys
<1> QED BY <1>1, <1>2

(* Messages that are about no key leave no key down.                       *)
LEMMA QuietPush ==
  ASSUME RelayTypes, NEW ms, Push(ms),
         \/ ms = <<>>
         \/ \E m \in MessagesTo(cfg.camera) : ms = <<m>> /\ NoKey(m)
         \/ \E m, n \in MessagesTo(cfg.camera) : ms = <<m, n>> /\ NoKey(m) /\ NoKey(n)
  PROVE  /\ \A keys, k : Pending(queue', keys, k) => Pending(queue, keys, k)
         /\ HasBack(queue) => HasBack(queue')
         /\ BackFirst(queue) => BackFirst(queue')
<1> DEFINE M == MessagesTo(cfg.camera)
<1>0. queue \in Seq(M) /\ Len(queue) <= QueueLimit
  BY TypeFacts
<1>1. ASSUME NEW q \in Seq(M), NEW m \in M, NoKey(m)
      PROVE  /\ \A keys, k : Pending(Append(q, m), keys, k) => Pending(q, keys, k)
             /\ HasBack(q) => HasBack(Append(q, m))
             /\ BackFirst(q) => BackFirst(Append(q, m))
  <2>1. m # BackUp /\ \A k : ~About(m, "down", k)
    BY <1>1 DEF NoKey, BackUp, About
  <2> QED BY <2>1, PendingNext
<1>2. CASE ms = <<>>
  BY <1>0, <1>2, PushAppends
<1>3. CASE \E m \in M : ms = <<m>> /\ NoKey(m)
  <2>1. PICK m \in M : ms = <<m>> /\ NoKey(m)
    BY <1>3
  <2>2. queue' = queue \/ queue' = Append(queue, m)
    BY <1>0, <2>1, PushAppends
  <2> QED BY <1>0, <1>1, <2>1, <2>2
<1>4. CASE \E m, n \in M : ms = <<m, n>> /\ NoKey(m) /\ NoKey(n)
  <2>1. PICK m, n \in M : ms = <<m, n>> /\ NoKey(m) /\ NoKey(n)
    BY <1>4
  <2>2. queue' = queue \/ queue' = Append(queue, m) \/ queue' = Append(Append(queue, m), n)
    BY <1>0, <2>1, PushAppends
  <2>3. Append(queue, m) \in Seq(M)
    BY <1>0, <2>1, AppendProperties
  <2> DEFINE r == Append(queue, m)
  <2>4. /\ \A keys, k : Pending(r, keys, k) => Pending(queue, keys, k)
        /\ HasBack(queue) => HasBack(r)
        /\ BackFirst(queue) => BackFirst(r)
    BY <1>0, <1>1, <2>1
  <2>5. /\ \A keys, k : Pending(Append(r, n), keys, k) => Pending(r, keys, k)
        /\ HasBack(r) => HasBack(Append(r, n))
        /\ BackFirst(r) => BackFirst(Append(r, n))
    BY <1>1, <2>1, <2>3
  <2> HIDE DEF r
  <2> QED BY <2>2, <2>4, <2>5 DEF r
<1> QED BY <1>2, <1>3, <1>4

(* An event that changes neither the keys nor the buttons.                 *)
LEMMA SameKeys ==
  ASSUME RelayTypes, InKeys, NEW h, UserEvent(h), NEW ms, Push(ms) \/ (ms = <<>> /\ queue' = queue),
         \/ ms = <<>>
         \/ \E m \in MessagesTo(cfg.camera) : ms = <<m>> /\ NoKey(m)
         \/ \E m, n \in MessagesTo(cfg.camera) : ms = <<m, n>> /\ NoKey(m) /\ NoKey(n),
         \A x \in Keys \cup Buttons : x \in h <=> x \in held,
         paused' = paused, disconnected' = disconnected
  PROVE  InKeys'
<1>1. cfg' = cfg /\ held' = h /\ devKeys' = devKeys /\ screenOn' = screenOn
  BY UserFacts
<1>2. /\ \A k : Pending(queue', devKeys', k) => Pending(queue, devKeys, k)
      /\ HasBack(queue) => HasBack(queue')
      /\ BackFirst(queue) => BackFirst(queue')
  BY <1>1, QuietPush
<1>3. /\ "MOD" \in held' <=> "MOD" \in held
      /\ "SHIFT" \in held' <=> "SHIFT" \in held
      /\ "CTRL" \in held' <=> "CTRL" \in held
  BY <1>1, Apart DEF Modifiers
<1>4. \A x, k : Holds(x, k)' <=> Holds(x, k)
  <2>1. \A x : Binding(x)' = Binding(x)
    BY <1>1, <1>3 DEF Binding, Relative
  <2>2. \A k : Forwards(k, held)' <=> Forwards(k, held)
    BY <1>1, <1>3 DEF Forwards, Convertible
  <2> QED BY <1>1, <2>1, <2>2 DEF Holds
<1>5. HeldButtons' = HeldButtons
  BY <1>1 DEF HeldButtons
<1>6. BackHeld' <=> BackHeld
  BY <1>1, <1>3, <1>5 DEF BackHeld, Binding, Relative
<1>7. ASSUME NEW k \in Keys, Pending(queue', devKeys', k) PROVE \E x \in held' : Holds(x, k)'
  <2>1. PICK x \in held : Holds(x, k)
    BY <1>2, <1>7 DEF InKeys
  <2>2. x \in Keys \cup Buttons
    BY <2>1 DEF Holds
  <2> QED BY <1>1, <1>4, <2>1, <2>2
<1> QED BY <1>1, <1>2, <1>6, <1>7 DEF InKeys

(* A key that goes through is pressed by its messages, or released.        *)
LEMMA KeyPush ==
  ASSUME RelayTypes, NEW k \in Keys, NEW down \in BOOLEAN, NEW repeat \in BOOLEAN, NEW h,
         NEW ms, ms = KeyMessages(k, down, repeat, h), Push(ms), NEW keys
  PROVE  Room(Len(ms)) =>
         /\ \A j : Pending(queue', keys, j) =>
              \/ j = k /\ down /\ Forwards(k, h)
              \/ Pending(queue, keys, j) /\ ~(j = k /\ ~down /\ ~repeat /\ Forwards(k, h))
         /\ HasBack(queue) => HasBack(queue')
         /\ BackFirst(queue) => BackFirst(queue')
<1> DEFINE M == MessagesTo(cfg.camera)
           key == Key(Action(down), k)
           clip == Message("setclip")
<1>0. /\ queue \in Seq(M) /\ Len(queue) <= QueueLimit /\ cfg \in Configs
      /\ (down => Action(down) = "down") /\ (~down => Action(down) = "up") /\ Action(down) \in Actions
  BY TypeFacts DEF Action, Actions
<1>1. /\ \/ ms = <<>>
         \/ \E t \in (IF cfg.camera THEN CameraPlain ELSE DisplayPlain) : ms = <<Message(t)>>
         \/ ms = <<key>> /\ ~cfg.camera /\ Forwards(k, h)
         \/ ms = <<clip, key>> /\ ~cfg.camera /\ Forwards(k, h) /\ down
      /\ Forwards(k, h) /\ ~down /\ ~repeat => ms = <<key>>
  BY <1>0, KeyMessagesFacts
<1>2. key.t = "keycode" /\ key.a = Action(down) /\ key.key = k
  BY DEF Key
<1>3. ~cfg.camera => key \in M /\ clip \in M /\ NoKey(clip)
  <2>1. "setclip" \in DisplayPlain /\ "setclip" \notin {"keycode", "back"}
    BY DEF DisplayPlain
  <2> QED BY <1>0, <2>1, MadeMessages DEF NoKey
<1>4. \A t \in (IF cfg.camera THEN CameraPlain ELSE DisplayPlain) : Message(t) \in M /\ NoKey(Message(t))
  <2>1. \A t \in (IF cfg.camera THEN CameraPlain ELSE DisplayPlain) : t \notin {"keycode", "back"}
    BY DEF CameraPlain, DisplayPlain
  <2> QED BY <2>1, MadeMessages DEF NoKey
<1> SUFFICES ASSUME Room(Len(ms))
             PROVE  /\ \A j : Pending(queue', keys, j) =>
                         \/ j = k /\ down /\ Forwards(k, h)
                         \/ Pending(queue, keys, j) /\ ~(j = k /\ ~down /\ ~repeat /\ Forwards(k, h))
                    /\ HasBack(queue) => HasBack(queue')
                    /\ BackFirst(queue) => BackFirst(queue')
  OBVIOUS
<1> HIDE DEF key, clip
<1>5. CASE /\ \/ ms = <<>>
              \/ \E t \in (IF cfg.camera THEN CameraPlain ELSE DisplayPlain) : ms = <<Message(t)>>
           /\ ~(Forwards(k, h) /\ ~down /\ ~repeat)
  <2>1. ms = <<>> \/ \E m \in M : ms = <<m>> /\ NoKey(m)
    BY <1>4, <1>5
  <2> QED BY <1>5, <2>1, QuietPush
<1>6. CASE ms = <<key>> /\ ~cfg.camera /\ Forwards(k, h)
  <2>1. Len(ms) = 1
    BY <1>6
  <2>2. Room(1)
    BY <2>1
  <2>3. queue' = Append(queue, key)
    BY <1>0, <1>3, <1>6, <2>2, PushAppends
  <2>4. key # BackUp
    BY <1>2 DEF BackUp
  <2>5. \A j : /\ About(key, "down", j) => j = k /\ down
               /\ ~down => About(key, "up", k)
    BY <1>0, <1>2 DEF About
  <2> QED BY <1>0, <1>3, <1>6, <2>3, <2>4, <2>5, PendingNext
<1>7. CASE ms = <<clip, key>> /\ ~cfg.camera /\ Forwards(k, h) /\ down
  <2>1. ms = <<clip, key>>
    BY <1>7
  <2>2. Room(2)
    <3>1. Len(<<clip, key>>) = 2
      OBVIOUS
    <3> QED BY <2>1, <3>1
  <2> DEFINE r == Append(queue, clip)
  <2>3. queue' = Append(r, key) /\ r \in Seq(M)
    <3>1. clip \in M /\ key \in M /\ Push(<<clip, key>>)
      BY <1>3, <1>7, <2>1
    <3>2. queue' = Append(Append(queue, clip), key)
      BY <1>0, <2>2, <3>1, PushAppends
    <3>3. r \in Seq(M)
      BY <1>0, <3>1, AppendProperties
    <3> QED BY <3>2, <3>3
  <2>4. key # BackUp /\ clip # BackUp
    BY <1>2, <1>3, <1>7 DEF BackUp, NoKey
  <2>5. \A j : /\ About(key, "down", j) => j = k
               /\ ~About(clip, "down", j)
    BY <1>2, <1>3, <1>7 DEF About, NoKey
  <2>6. /\ \A j : Pending(r, keys, j) => Pending(queue, keys, j)
        /\ HasBack(queue) => HasBack(r)
        /\ BackFirst(queue) => BackFirst(r)
    BY <1>0, <1>3, <1>7, <2>4, <2>5, PendingNext
  <2> HIDE DEF r
  <2>7. /\ \A j : Pending(Append(r, key), keys, j) => j = k \/ Pending(r, keys, j)
        /\ HasBack(r) => HasBack(Append(r, key))
        /\ BackFirst(r) => BackFirst(Append(r, key))
    BY <1>3, <1>7, <2>3, <2>4, <2>5, PendingNext
  <2>8. /\ HasBack(queue) => HasBack(queue')
        /\ BackFirst(queue) => BackFirst(queue')
    BY <2>3, <2>6, <2>7
  <2>9. ASSUME NEW j, Pending(queue', keys, j) PROVE j = k \/ Pending(queue, keys, j)
    BY <2>3, <2>6, <2>7, <2>9
  <2>10. ASSUME NEW j, Pending(queue', keys, j)
         PROVE  \/ j = k /\ down /\ Forwards(k, h)
                \/ Pending(queue, keys, j) /\ ~(j = k /\ ~down /\ ~repeat /\ Forwards(k, h))
    <3>1. down /\ Forwards(k, h)
      BY <1>7
    <3> QED BY <2>9, <2>10, <3>1
  <2> QED BY <2>8, <2>10
<1>8. Forwards(k, h) => ~cfg.camera
  BY <1>0, ConfigFacts DEF Forwards
<1>9. CASE Forwards(k, h) /\ ~down /\ ~repeat
  BY <1>1, <1>6, <1>8, <1>9
<1> QED BY <1>1, <1>5, <1>6, <1>7, <1>9

(* Between the press of a key and its release, what is held changes in     *)
(* ways only that keep forwarding it, unless the event counts as a loss.   *)
LEMMA ForwardsStays ==
  ASSUME RelayTypes, NEW k \in Keys, NEW h, h = held \cup {k} \/ h = held \ {k},
         k \in {"MOD", "SHIFT"} => (HeldKeys \ {k}) \cup HeldButtons = {},
         k = "CTRL" /\ cfg.typing = "text" => HeldKeys \ {k} = {},
         NEW j \in Keys, j \in held, Forwards(j, held)
  PROVE  Forwards(j, h)
<1>0. /\ j \in HeldKeys /\ j # "MOD" /\ ("MOD" \in held => "MOD" \in HeldKeys)
      /\ {"MOD", "SHIFT", "CTRL"} \subseteq Keys
  BY Apart DEF HeldKeys, Forwards, Modifiers
<1>1. KeyClass["SHIFT"] = "special" /\ KeyClass["CTRL"] = "special"
  BY <1>0 DEF KeyClass, Modifiers
<1>2. KeyClass[j] \in {"special", "alpha"}
  BY DEF KeyClass
<1>3. CASE HeldKeys \ {k} = {} /\ k \in {"MOD", "SHIFT", "CTRL"}
  <2>1. j = k /\ k \in {"SHIFT", "CTRL"}
    BY <1>0, <1>3
  <2>2. "MOD" \notin held
    BY <1>0, <1>3, <2>1
  <2>3. "MOD" \notin h
    BY <2>1, <2>2
  <2> QED BY <1>1, <2>1, <2>2, <2>3 DEF Forwards, Convertible
<1>4. CASE k = "CTRL" /\ cfg.typing # "text"
  <2>1. ("MOD" \in h <=> "MOD" \in held) /\ ("SHIFT" \in h <=> "SHIFT" \in held)
    BY <1>4
  <2>2. KeyClass[j] = "special" \/ (KeyClass[j] = "alpha" /\ cfg.typing # "text")
    BY <1>2, <1>4
  <2> QED BY <2>1, <2>2 DEF Forwards, Convertible
<1>5. CASE k \notin {"MOD", "SHIFT", "CTRL"}
  <2>1. /\ "MOD" \in h <=> "MOD" \in held
        /\ "SHIFT" \in h <=> "SHIFT" \in held
        /\ "CTRL" \in h <=> "CTRL" \in held
    BY <1>5
  <2> QED BY <2>1 DEF Forwards, Convertible
<1> QED BY <1>3, <1>4, <1>5

(* An event of a key: its release finds the press in the queue or on the   *)
(* device, and says so after it.                                           *)
LEMMA KeyKeys ==
  ASSUME RelayTypes, KeysInv, NEW k \in Keys, NEW down \in BOOLEAN, NEW repeat \in BOOLEAN, NEW h,
         KeyEvent(k, down, repeat, h),
         down => h = held \cup {k}, ~down => ~repeat /\ k \in held /\ h = held \ {k}
  PROVE  KeysInv'
<1> DEFINE ms == KeyMessages(k, down, repeat, h)
<1>0. UserEvent(h) /\ cfg' = cfg /\ held' = h /\ devKeys' = devKeys /\ screenOn' = screenOn
  BY UserFacts DEF KeyEvent
<1>1. HeldButtons' = HeldButtons /\ \A x \in held : x # k => x \in h
  BY <1>0, Apart DEF HeldButtons
<1>2. CASE Relative /\ k = "MOD"
  <2>1. queue' = queue /\ KeyAfter(HeldKeys \cup HeldButtons # {})
    BY <1>2 DEF KeyEvent, Captures
  <2>2. CASE keyLost \/ HeldKeys \cup HeldButtons # {}
    BY <2>1, <2>2, LostKeys
  <2>3. CASE ~(keyLost \/ HeldKeys \cup HeldButtons # {})
    <3>1. InKeys
      BY <2>3 DEF KeysInv
    <3>2. \A x \in held : x \notin Keys /\ x \notin Buttons
      BY <2>3, Apart DEF HeldKeys, HeldButtons
    <3>3. \A j \in Keys : ~Pending(queue, devKeys, j)
      BY <3>1, <3>2 DEF InKeys, Holds
    <3>4. ~BackHeld'
      BY <1>1, <2>3 DEF BackHeld
    <3> QED BY <1>0, <2>1, <3>1, <3>3, <3>4 DEF InKeys, KeysInv
  <2> QED BY <2>2, <2>3
<1>3. CASE ~(Relative /\ k = "MOD")
  <2>1. ProcessKey(k, down, repeat, h)
    BY <1>3 DEF KeyEvent
  <2>2. Push(ms) /\ KeyAfter(KeyLoss(k, ms, h)) /\ disconnected' = disconnected
    BY <2>1 DEF ProcessKey
  <2>3. CASE keyLost \/ KeyLoss(k, ms, h)
    BY <2>2, <2>3, LostKeys
  <2>4. CASE ~(keyLost \/ KeyLoss(k, ms, h))
    <3>1. /\ Room(Len(ms)) /\ InKeys
          /\ paused' # paused => HeldKeys \cup HeldButtons = {}
          /\ k \in {"MOD", "SHIFT"} => (HeldKeys \ {k}) \cup HeldButtons = {}
          /\ k = "CTRL" /\ cfg.typing = "text" => HeldKeys \ {k} = {}
      BY <2>4 DEF KeyLoss, KeysInv
    <3>2. paused' = paused
      <4>1. paused' # paused => k = "z" /\ "MOD" \in h
        BY <2>1 DEF ProcessKey, PauseKey, IsShortcut
      <4>2. k = "z" /\ "MOD" \in h => "MOD" \in HeldKeys
        BY Apart DEF HeldKeys, Modifiers
      <4> QED BY <3>1, <4>1, <4>2
    <3>3. /\ \A j : Pending(queue', devKeys', j) =>
               \/ j = k /\ down /\ Forwards(k, h)
               \/ Pending(queue, devKeys, j) /\ ~(j = k /\ ~down /\ ~repeat /\ Forwards(k, h))
          /\ HasBack(queue) => HasBack(queue')
          /\ BackFirst(queue) => BackFirst(queue')
      BY <1>0, <2>2, <3>1, KeyPush
    <3> HIDE DEF ms
    <3>4. \A j : Forwards(j, held)' <=> Forwards(j, h)
      BY <1>0, <2>2, <3>2 DEF Forwards, Convertible
    <3>5. \A x \in HeldButtons : Binding(x)' = Binding(x)
      <4>1. HeldButtons # {} => ("SHIFT" \in held' <=> "SHIFT" \in held)
        BY <1>0, <3>1
      <4> QED BY <1>0, <4>1 DEF Binding, Relative
    <3>6. BackHeld' => BackHeld
      BY <1>0, <1>1, <3>5 DEF BackHeld
    <3>7. ASSUME NEW j \in Keys, Pending(queue', devKeys', j) PROVE \E x \in held' : Holds(x, j)'
      <4>1. CASE j = k /\ down /\ Forwards(k, h)
        <5>1. k \in held' /\ Holds(k, k)'
          BY <1>0, <3>4, <4>1 DEF Holds
        <5> QED BY <4>1, <5>1
      <4>2. CASE Pending(queue, devKeys, j) /\ ~(j = k /\ ~down /\ ~repeat /\ Forwards(k, h))
        <5>1. PICK x \in held : Holds(x, j)
          BY <3>1, <4>2 DEF InKeys
        <5>2. CASE x \in Keys /\ x = j /\ Forwards(j, held)
          <6>1. Forwards(j, h)
            BY <3>1, <5>2, ForwardsStays
          <6>2. j \in h
            BY <1>1, <4>2, <5>2, <6>1
          <6> QED BY <1>0, <3>4, <5>2, <6>1, <6>2 DEF Holds
        <5>3. CASE x \in Buttons /\ cfg.keyboard /\ ((Binding(x) = "back" /\ j = "b") \/ (Binding(x) = "home" /\ j = "h"))
          <6>1. x \in HeldButtons /\ x \in held'
            BY <1>1, <5>1, <5>3 DEF HeldButtons
          <6> QED BY <1>0, <3>5, <5>3, <6>1 DEF Holds
        <5> QED BY <5>1, <5>2, <5>3 DEF Holds
      <4> QED BY <3>3, <3>7, <4>1, <4>2
    <3> QED BY <1>0, <3>1, <3>3, <3>6, <3>7 DEF InKeys, KeysInv
  <2> QED BY <2>3, <2>4
<1> QED BY <1>2, <1>3

(* A button that is bound to a key presses it and releases it.             *)
LEMMA ButtonPush ==
  ASSUME RelayTypes, NEW b \in Buttons, NEW down \in BOOLEAN, ~cfg.camera, NEW keys,
         NEW ms, Push(ms),
         \/ /\ ms = <<>> \/ (\E m \in MessagesTo(cfg.camera) : ms = <<m>> /\ NoKey(m))
                  \/ (\E m, n \in MessagesTo(cfg.camera) : ms = <<m, n>> /\ NoKey(m) /\ NoKey(n))
            /\ ~(Binding(b) \in {"back", "home"} /\ cfg.keyboard)
         \/ ms = <<[t |-> "back", a |-> Action(down)]>> /\ Binding(b) = "back" /\ cfg.keyboard
         \/ ms = <<Key(Action(down), "h")>> /\ Binding(b) = "home" /\ cfg.keyboard
  PROVE  Room(Len(ms)) =>
         /\ \A j : Pending(queue', keys, j) =>
              \/ down /\ Holds(b, j)
              \/ Pending(queue, keys, j) /\ ~(~down /\ Holds(b, j))
         /\ HasBack(queue) => HasBack(queue')
         /\ down /\ Binding(b) = "back" /\ cfg.keyboard => HasBack(queue')
         /\ BackFirst(queue) /\ (~down /\ Binding(b) = "back" /\ cfg.keyboard => HasBack(queue)) =>
              BackFirst(queue')
<1> DEFINE M == MessagesTo(cfg.camera)
           back == [t |-> "back", a |-> Action(down)]
           home == Key(Action(down), "h")
<1>0. /\ queue \in Seq(M) /\ Len(queue) <= QueueLimit
      /\ (down => Action(down) = "down") /\ (~down => Action(down) = "up") /\ Action(down) \in Actions
  BY TypeFacts DEF Action, Actions
<1>1. \A j : Holds(b, j) <=> cfg.keyboard /\ ((Binding(b) = "back" /\ j = "b") \/ (Binding(b) = "home" /\ j = "h"))
  <2>1. b \notin Keys
    BY Apart
  <2> QED BY <2>1 DEF Holds
<1>2. back \in M /\ home \in M
  <2>1. "h" \in Keys
    BY DEF Keys, PressKeys
  <2> QED BY <1>0, <2>1, MadeMessages
<1>3. /\ back.t = "back" /\ back.a = Action(down)
      /\ home.t = "keycode" /\ home.a = Action(down) /\ home.key = "h"
  BY DEF Key
<1>4. (down <=> back = BackDown) /\ (~down <=> back = BackUp) /\ home # BackUp /\ home # BackDown
  BY <1>0, <1>3 DEF BackDown, BackUp
<1>5. /\ \A j : About(back, "down", j) <=> down /\ j = "b"
      /\ \A j : About(back, "up", j) <=> ~down /\ j = "b"
      /\ \A j : About(home, "down", j) <=> down /\ j = "h"
      /\ \A j : About(home, "up", j) <=> ~down /\ j = "h"
  BY <1>0, <1>3 DEF About
<1> HIDE DEF back, home
<1> SUFFICES ASSUME Room(Len(ms))
             PROVE  /\ \A j : Pending(queue', keys, j) =>
                         \/ down /\ Holds(b, j)
                         \/ Pending(queue, keys, j) /\ ~(~down /\ Holds(b, j))
                    /\ HasBack(queue) => HasBack(queue')
                    /\ down /\ Binding(b) = "back" /\ cfg.keyboard => HasBack(queue')
                    /\ BackFirst(queue) /\ (~down /\ Binding(b) = "back" /\ cfg.keyboard => HasBack(queue)) =>
                         BackFirst(queue')
  OBVIOUS
<1>6. CASE /\ ms = <<>> \/ (\E m \in M : ms = <<m>> /\ NoKey(m))
                 \/ (\E m, n \in M : ms = <<m, n>> /\ NoKey(m) /\ NoKey(n))
           /\ ~(Binding(b) \in {"back", "home"} /\ cfg.keyboard)
  <2>1. /\ \A k, j : Pending(queue', k, j) => Pending(queue, k, j)
        /\ HasBack(queue) => HasBack(queue')
        /\ BackFirst(queue) => BackFirst(queue')
    BY <1>6, QuietPush
  <2>2. \A j : ~Holds(b, j)
    BY <1>1, <1>6
  <2> QED BY <1>6, <2>1, <2>2
<1>7. CASE ms = <<back>> /\ Binding(b) = "back" /\ cfg.keyboard
  <2>1. Len(ms) = 1
    BY <1>7
  <2>2. Room(1)
    BY <2>1
  <2>3. queue' = Append(queue, back)
    BY <1>0, <1>2, <1>7, <2>2, PushAppends
  <2>4. \A j : Holds(b, j) <=> j = "b"
    BY <1>1, <1>7
  <2>5. ASSUME NEW j, Pending(queue', keys, j)
        PROVE  (down /\ Holds(b, j)) \/ (Pending(queue, keys, j) /\ ~(~down /\ Holds(b, j)))
    <3>1. About(back, "down", j) \/ (Pending(queue, keys, j) /\ ~About(back, "up", j))
      BY <1>0, <1>2, <2>3, <2>5, PendingNext
    <3> QED BY <1>5, <2>4, <3>1
  <2>6. /\ HasBack(queue) \/ down => HasBack(queue')
        /\ BackFirst(queue) /\ (~down => HasBack(queue)) => BackFirst(queue')
    BY <1>0, <1>2, <1>4, <2>3, PendingNext
  <2> QED BY <1>7, <2>5, <2>6
<1>8. CASE ms = <<home>> /\ Binding(b) = "home" /\ cfg.keyboard
  <2>1. Len(ms) = 1
    BY <1>8
  <2>2. Room(1)
    BY <2>1
  <2>3. queue' = Append(queue, home)
    BY <1>0, <1>2, <1>8, <2>2, PushAppends
  <2>4. \A j : Holds(b, j) <=> j = "h"
    BY <1>1, <1>8
  <2>5. ASSUME NEW j, Pending(queue', keys, j)
        PROVE  (down /\ Holds(b, j)) \/ (Pending(queue, keys, j) /\ ~(~down /\ Holds(b, j)))
    <3>1. About(home, "down", j) \/ (Pending(queue, keys, j) /\ ~About(home, "up", j))
      BY <1>0, <1>2, <2>3, <2>5, PendingNext
    <3> QED BY <1>5, <2>4, <3>1
  <2>6. /\ HasBack(queue) => HasBack(queue')
        /\ BackFirst(queue) => BackFirst(queue')
    BY <1>0, <1>2, <1>4, <2>3, PendingNext
  <2>7. Binding(b) # "back"
    BY <1>8
  <2> QED BY <2>5, <2>6, <2>7
<1> QED BY <1>6, <1>7, <1>8 DEF back, home

(* An event of a button bound to BACK or HOME, or to none of them.         *)
LEMMA ButtonKeys ==
  ASSUME RelayTypes, KeysInv, NEW b \in Buttons, NEW down \in BOOLEAN,
         NEW clicks \in {1, 2}, NEW outside \in BOOLEAN, NEW h,
         ButtonEvent(b, down, clicks, outside, h),
         down => h = held \cup {b}, ~down => b \in held /\ h = held \ {b}
  PROVE  KeysInv'
<1> DEFINE a == IF down THEN "DOWN" ELSE "UP"
           bound == cfg.control /\ ~paused /\ Binding(b) # "click"
           border == OnBorder(b, clicks, outside)
           bs == IF down THEN buttonsState \cup {b} ELSE buttonsState \ {b}
           ms == IF bound THEN BoundMessages(Binding(b), a)
                 ELSE IF border \/ cfg.mouse = "none" \/ paused THEN <<>>
                 ELSE ClickMessages(b, a, bs)
           loss == ~Room(Len(ms)) \/ paused \/ disconnected
<1>0. /\ UserEvent(h) /\ cfg' = cfg /\ held' = h /\ devKeys' = devKeys /\ screenOn' = screenOn
      /\ paused' = paused /\ disconnected' = disconnected /\ cfg \in Configs
      /\ (cfg.camera => ~cfg.keyboard) /\ (~cfg.control => ~cfg.keyboard)
  BY UserFacts, TypeFacts, ConfigFacts DEF ButtonEvent
<1>1. /\ "MOD" \in held' <=> "MOD" \in held
      /\ "SHIFT" \in held' <=> "SHIFT" \in held
      /\ "CTRL" \in held' <=> "CTRL" \in held
      /\ \A x \in held : x # b => x \in h
  BY <1>0, Apart
<1>2. \A x, k : Holds(x, k)' <=> Holds(x, k)
  <2>1. \A x : Binding(x)' = Binding(x)
    BY <1>0, <1>1 DEF Binding, Relative
  <2>2. \A k : Forwards(k, held)' <=> Forwards(k, held)
    BY <1>0, <1>1 DEF Forwards, Convertible
  <2> QED BY <1>0, <2>1, <2>2 DEF Holds
<1>3. BackHeld' => BackHeld \/ (down /\ Binding(b) = "back" /\ cfg.keyboard)
  <2>1. \A x : Binding(x)' = Binding(x)
    BY <1>0, <1>1 DEF Binding, Relative
  <2>2. ASSUME NEW x \in HeldButtons' PROVE x \in HeldButtons \/ (x = b /\ down)
    BY <1>0, <2>2 DEF HeldButtons
  <2> QED BY <1>0, <2>1, <2>2 DEF BackHeld
<1>4. CASE Relative /\ ~capture
  <2>1. KeyAfter(TRUE)
    BY <1>4 DEF ButtonEvent
  <2> QED BY <2>1, LostKeys
<1>5. CASE ~(Relative /\ ~capture)
  <2>1. /\ KeyAfter(loss)
        /\ IF cfg.camera \/ disconnected THEN queue' = queue ELSE Push(ms)
    BY <1>5 DEF ButtonEvent, ProcessButton
  <2>2. CASE keyLost \/ loss
    BY <2>1, <2>2, LostKeys
  <2>3. CASE ~(keyLost \/ loss) /\ ~cfg.keyboard /\ cfg.camera
    <3>1. InKeys /\ queue' = queue
      BY <2>1, <2>3 DEF KeysInv
    <3>2. \A x, k : ~Holds(x, k)
      BY <2>3 DEF Holds, Forwards
    <3>3. \A j \in Keys : ~Pending(queue, devKeys, j)
      BY <3>1, <3>2 DEF InKeys
    <3>4. ~BackHeld'
      BY <1>0, <2>3 DEF BackHeld
    <3> QED BY <1>0, <3>1, <3>3, <3>4 DEF InKeys, KeysInv
  <2>4. CASE ~(keyLost \/ loss) /\ ~cfg.camera
    <3>1. InKeys /\ Room(Len(ms)) /\ ~paused /\ ~disconnected /\ Push(ms)
      BY <2>1, <2>4 DEF KeysInv
    <3>2. \/ /\ ms = <<>> \/ (\E m \in MessagesTo(cfg.camera) : ms = <<m>> /\ NoKey(m))
                   \/ (\E m, n \in MessagesTo(cfg.camera) : ms = <<m, n>> /\ NoKey(m) /\ NoKey(n))
             /\ ~(Binding(b) \in {"back", "home"} /\ cfg.keyboard)
          \/ ms = <<[t |-> "back", a |-> Action(down)]>> /\ Binding(b) = "back" /\ cfg.keyboard
          \/ ms = <<Key(Action(down), "h")>> /\ Binding(b) = "home" /\ cfg.keyboard
      <4>1. CASE bound
        <5>1. ms = BoundMessages(Binding(b), a)
          BY <4>1
        <5> HIDE DEF ms
        <5>2. \/ ms = <<[t |-> "back", a |-> Action(down)]>> /\ Binding(b) = "back" /\ cfg.keyboard
              \/ ms = <<Key(Action(down), "h")>> /\ Binding(b) = "home" /\ cfg.keyboard
              \/ ms = <<Message("notifications")>> /\ Binding(b) = "notifications"
              \/ ms = <<>> /\ ~(Binding(b) \in {"back", "home"} /\ cfg.keyboard)
          BY <5>1 DEF BoundMessages, Action, a
        <5>3. Message("notifications") \in MessagesTo(cfg.camera) /\ NoKey(Message("notifications"))
          <6>1. "notifications" \in DisplayPlain /\ "notifications" \notin {"keycode", "back"}
            BY DEF DisplayPlain
          <6> QED BY <2>4, <6>1, MadeMessages DEF NoKey
        <5> QED BY <5>2, <5>3
      <4>2. CASE ~bound
        <5>1. ~(Binding(b) \in {"back", "home"} /\ cfg.keyboard)
          BY <1>0, <3>1, <4>2
        <5>2. CASE border \/ cfg.mouse = "none" \/ paused
          BY <4>2, <5>1, <5>2
        <5>3. CASE ~(border \/ cfg.mouse = "none" \/ paused)
          <6>1. ms = ClickMessages(b, a, bs)
            BY <4>2, <5>3
          <6>2. /\ bs \in SUBSET Buttons /\ a \in Motions /\ {b} \in SUBSET Buttons /\ {} \in SUBSET Buttons
                /\ {"generic", "mouse", "virtual"} \subseteq Ids
                /\ (down => a = "DOWN") /\ (~down => a = "UP")
            BY DEF Motions, Ids, RelayTypes, InputTypeOK
          <6> HIDE DEF ms, bs, a
          <6>3. \A x \in Ids, c \in SUBSET Buttons, d \in SUBSET Buttons :
                  Touch(a, x, c, d) \in MessagesTo(cfg.camera) /\ NoKey(Touch(a, x, c, d))
            <7>1. \A x, c, d : NoKey(Touch(a, x, c, d))
              BY DEF Touch, NoKey
            <7> QED BY <2>4, <6>2, <7>1, MadeMessages
          <6>4. HidInput(bs) \in MessagesTo(cfg.camera) /\ NoKey(HidInput(bs))
            <7>1. NoKey(HidInput(bs))
              BY DEF HidInput, NoKey
            <7> QED BY <2>4, <6>2, <7>1, MadeMessages
          <6>5. VirtualFinger(a) \in MessagesTo(cfg.camera) /\ NoKey(VirtualFinger(a))
            BY <6>2, <6>3 DEF VirtualFinger
          <6>6. CASE Relative
            <7>1. ms = <<HidInput(bs)>>
              BY <6>1, <6>2, <6>6, ClickFacts
            <7> QED BY <5>1, <6>4, <7>1
          <6>7. CASE ~Relative /\ ChangesVfinger(b, down)
            <7>1. ms = <<Touch(a, "generic", {b}, bs), VirtualFinger(a)>>
              BY <6>1, <6>2, <6>7, ClickFacts
            <7> QED BY <5>1, <6>2, <6>3, <6>5, <7>1
          <6>8. CASE ~Relative /\ ~ChangesVfinger(b, down)
            <7>1. ms = <<Touch(a, "generic", {b}, bs)>> \/ ms = <<Touch(a, "mouse", {b}, bs)>>
              <8>1. CASE vfingerDown
                BY <6>1, <6>2, <6>8, <8>1, ClickFacts
              <8>2. CASE ~vfingerDown
                BY <6>1, <6>2, <6>8, <8>2, ClickFacts
              <8> QED BY <8>1, <8>2
            <7> QED BY <5>1, <6>2, <6>3, <7>1
          <6> QED BY <6>6, <6>7, <6>8
        <5> QED BY <5>2, <5>3
      <4> QED BY <4>1, <4>2
    <3> HIDE DEF ms
    <3>3. /\ \A j : Pending(queue', devKeys, j) =>
               \/ down /\ Holds(b, j)
               \/ Pending(queue, devKeys, j) /\ ~(~down /\ Holds(b, j))
          /\ HasBack(queue) => HasBack(queue')
          /\ down /\ Binding(b) = "back" /\ cfg.keyboard => HasBack(queue')
          /\ BackFirst(queue) /\ (~down /\ Binding(b) = "back" /\ cfg.keyboard => HasBack(queue)) =>
               BackFirst(queue')
      BY <2>4, <3>1, <3>2, ButtonPush
    <3>4. ~down /\ Binding(b) = "back" /\ cfg.keyboard => BackHeld
      BY <1>0 DEF BackHeld, HeldButtons
    <3>5. ASSUME ~screenOn PROVE BackFirst(queue') /\ (BackHeld' => HasBack(queue'))
      BY <1>3, <3>1, <3>3, <3>4, <3>5 DEF InKeys
    <3>6. ASSUME NEW j \in Keys, Pending(queue', devKeys', j) PROVE \E x \in held' : Holds(x, j)'
      <4>1. Pending(queue', devKeys, j)
        BY <1>0, <3>6
      <4>2. CASE down /\ Holds(b, j)
        BY <1>0, <1>2, <4>2
      <4>3. CASE Pending(queue, devKeys, j) /\ ~(~down /\ Holds(b, j))
        <5>1. PICK x \in held : Holds(x, j)
          BY <3>1, <4>3 DEF InKeys
        <5>2. x \in held'
          BY <1>0, <1>1, <4>3, <5>1
        <5> QED BY <1>2, <5>1, <5>2
      <4> QED BY <3>3, <4>1, <4>2, <4>3
    <3> QED BY <1>0, <3>5, <3>6 DEF InKeys, KeysInv
  <2> QED BY <1>0, <2>2, <2>3, <2>4
<1> QED BY <1>4, <1>5

(* The events that are about no key.                                       *)
LEMMA OtherKeys ==
  ASSUME RelayTypes, KeysInv,
         \/ \E class : TextInput(class)
         \/ Motion \/ Wheel \/ FocusLost
         \/ \E f \in Fingers, a \in {"DOWN", "UP", "MOVE"} : \E h :
              Finger(f, a, h) /\ h \in {held, held \cup {f}, held \ {f}}
  PROVE  KeysInv'
<1> DEFINE M == MessagesTo(cfg.camera)
           quiet(ms) == \/ ms = <<>>
                        \/ \E m \in M : ms = <<m>> /\ NoKey(m)
                        \/ \E m, n \in M : ms = <<m, n>> /\ NoKey(m) /\ NoKey(n)
<1>0. (cfg.camera => ~cfg.keyboard) /\ buttonsState \in SUBSET Buttons /\ {} \in SUBSET Buttons
  BY TypeFacts, ConfigFacts DEF RelayTypes, InputTypeOK
<1>1. ASSUME NEW h, UserEvent(h), NEW ms, Push(ms) \/ (ms = <<>> /\ queue' = queue), quiet(ms),
             \A x \in Keys \cup Buttons : x \in h <=> x \in held,
             paused' = paused, disconnected' = disconnected, KeyAfter(FALSE) \/ keyLost' = keyLost
      PROVE  KeysInv'
  <2>1. CASE keyLost
    <3>1. CASE KeyAfter(FALSE)
      BY <2>1, <3>1, LostKeys
    <3>2. CASE keyLost' = keyLost
      BY <2>1, <3>2 DEF KeysInv
    <3> QED BY <1>1, <3>1, <3>2
  <2>2. CASE ~keyLost
    <3>1. InKeys
      BY <2>2 DEF KeysInv
    <3>2. InKeys'
      BY <1>1, <3>1, SameKeys
    <3> QED BY <3>2 DEF KeysInv
  <2> QED BY <2>1, <2>2
<1>2. ASSUME NEW class, TextInput(class) PROVE KeysInv'
  <2> DEFINE ms == IF ~cfg.keyboard \/ paused \/ disconnected \/ "MOD" \in held
                      \/ ~TextSends(class, cfg.typing) THEN <<>> ELSE <<Message("text")>>
  <2>1. ~cfg.camera => Message("text") \in M /\ NoKey(Message("text"))
    <3>1. "text" \in DisplayPlain /\ "text" \notin {"keycode", "back"}
      BY DEF DisplayPlain
    <3> QED BY <3>1, MadeMessages DEF NoKey
  <2>2. quiet(ms)
    BY <1>0, <2>1
  <2>3. UserEvent(held) /\ Push(ms) /\ paused' = paused /\ disconnected' = disconnected /\ keyLost' = keyLost
    BY <1>2 DEF TextInput, clientVars
  <2> HIDE DEF ms, quiet
  <2> QED BY <1>1, <2>2, <2>3
<1>3. ASSUME NEW bs \in SUBSET Buttons, NEW a \in Motions, NEW id \in Ids, ~cfg.camera
      PROVE  /\ Touch(a, id, {}, bs) \in M /\ NoKey(Touch(a, id, {}, bs))
             /\ HidInput(bs) \in M /\ NoKey(HidInput(bs))
  BY <1>0, <1>3, MadeMessages DEF Touch, HidInput, NoKey
<1>4. CASE Motion
  <2> DEFINE ms == IF Silent \/ (Relative /\ ~capture) THEN <<>> ELSE MotionMessages
  <2>1. quiet(ms)
    <3>1. CASE Silent \/ (Relative /\ ~capture)
      BY <3>1
    <3>2. CASE ~(Silent \/ (Relative /\ ~capture))
      <4>1. ms = MotionMessages /\ ~cfg.camera
        BY <3>2 DEF Silent
      <4>2. {"mouse", "generic", "virtual"} \subseteq Ids /\ {"HOVER", "MOVE"} \subseteq Motions
        BY DEF Ids, Motions
      <4> DEFINE a == IF buttonsState = {} THEN "HOVER" ELSE "MOVE"
      <4>3. a \in Motions
        BY <4>2
      <4>4. \A id \in Ids : Touch(a, id, {}, buttonsState) \in M /\ NoKey(Touch(a, id, {}, buttonsState))
        BY <1>0, <1>3, <4>1, <4>3
      <4>5. VirtualFinger("MOVE") \in M /\ NoKey(VirtualFinger("MOVE"))
        BY <1>0, <1>3, <4>1, <4>2 DEF VirtualFinger
      <4>6. HidInput(buttonsState) \in M /\ NoKey(HidInput(buttonsState))
        BY <1>0, <1>3, <4>1, <4>2
      <4>7. \/ ms = <<HidInput(buttonsState)>> \/ ms = <<>> \/ ms = <<Touch(a, "mouse", {}, buttonsState)>>
            \/ ms = <<VirtualFinger("MOVE")>>
            \/ ms = <<Touch(a, "generic", {}, buttonsState), VirtualFinger("MOVE")>>
        BY <4>1, MotionFacts
      <4> HIDE DEF a, ms
      <4> QED BY <4>2, <4>4, <4>5, <4>6, <4>7
    <3> QED BY <3>1, <3>2
  <2>2. UserEvent(held) /\ Push(ms) /\ paused' = paused /\ disconnected' = disconnected /\ KeyAfter(FALSE)
    BY <1>4 DEF Motion, clientVars
  <2> HIDE DEF ms, quiet
  <2> QED BY <1>1, <2>1, <2>2
<1>5. CASE Wheel
  <2>1. PICK ms : Push(ms) /\ (ms = <<>> \/ (~cfg.camera /\ (ms = <<ScrollReport>> \/ ms = <<Scroll>>)))
    BY <1>5 DEF Wheel
  <2>2. ~cfg.camera => Scroll \in M /\ NoKey(Scroll) /\ ScrollReport \in M /\ NoKey(ScrollReport)
    <3>1. NoKey(Scroll) /\ NoKey(ScrollReport)
      BY DEF NoKey, Scroll, ScrollReport, HidInput
    <3> QED BY <1>0, <3>1, MadeMessages DEF ScrollReport
  <2>3. UserEvent(held) /\ paused' = paused /\ disconnected' = disconnected /\ KeyAfter(FALSE)
    BY <1>5 DEF Wheel, clientVars
  <2>4. quiet(ms)
    BY <2>1, <2>2
  <2> HIDE DEF quiet
  <2> QED BY <1>1, <2>1, <2>3, <2>4
<1>6. CASE FocusLost
  <2> DEFINE ms == <<>>
  <2>1. UserEvent(held) /\ queue' = queue /\ paused' = paused /\ disconnected' = disconnected /\ KeyAfter(FALSE)
    BY <1>6 DEF FocusLost
  <2>2. quiet(ms) /\ ms = <<>>
    OBVIOUS
  <2> HIDE DEF ms, quiet
  <2> QED BY <1>1, <2>1, <2>2
<1>7. ASSUME NEW f \in Fingers, NEW a \in {"DOWN", "UP", "MOVE"}, NEW h, Finger(f, a, h),
             h \in {held, held \cup {f}, held \ {f}}
      PROVE  KeysInv'
  <2> DEFINE ms == IF Silent \/ Relative THEN <<>> ELSE <<Touch(a, f, {}, {})>>
  <2>1. quiet(ms)
    <3>1. ~Silent => ~cfg.camera
      BY DEF Silent
    <3>2. a \in Motions /\ f \in Ids
      BY DEF Motions, Ids
    <3> QED BY <1>0, <1>3, <3>1, <3>2
  <2>2. UserEvent(h) /\ Push(ms) /\ paused' = paused /\ disconnected' = disconnected /\ KeyAfter(FALSE)
    BY <1>7 DEF Finger, clientVars
  <2>3. \A x \in Keys \cup Buttons : x \in h <=> x \in held
    BY <1>7, Apart
  <2> HIDE DEF ms, quiet
  <2> QED BY <1>1, <2>1, <2>2, <2>3
<1> QED BY <1>2, <1>4, <1>5, <1>6, <1>7

(* What the device and the screen do.                                      *)
LEMMA DeviceKeys ==
  ASSUME KeysInv, Rotate \/ NewFrameSize \/ Disconnected \/ WheelCrash \/ UNCHANGED inputVars
  PROVE  KeysInv'
<1>1. CASE Rotate \/ NewFrameSize \/ UNCHANGED inputVars
  <2>1. UNCHANGED <<cfg, held, queue, devKeys, screenOn, keyLost, paused, disconnected>>
    BY <1>1 DEF Rotate, NewFrameSize, inputVars, userVars, clientVars, serverVars
  <2>2. \A x : Binding(x)' = Binding(x)
    BY <2>1 DEF Binding, Relative
  <2>3. \A k : Forwards(k, held)' <=> Forwards(k, held)
    BY <2>1 DEF Forwards, Convertible
  <2>4. \A x, k : Holds(x, k)' <=> Holds(x, k)
    BY <2>1, <2>2, <2>3 DEF Holds
  <2>5. BackHeld' <=> BackHeld
    BY <2>1, <2>2 DEF BackHeld, HeldButtons
  <2>6. InKeys => InKeys'
    BY <2>1, <2>4, <2>5 DEF InKeys
  <2> QED BY <2>1, <2>6 DEF KeysInv
<1>2. CASE Disconnected \/ WheelCrash
  BY <1>2 DEF Disconnected, WheelCrash, KeysInv
<1> QED BY <1>1, <1>2

(* The server takes the first message.                                     *)
LEMMA HandleKeys ==
  ASSUME RelayTypes, KeysInv, HandleEvent
  PROVE  KeysInv'
<1> DEFINE M == MessagesTo(cfg.camera)
           m == Head(queue)
<1>1. /\ queue \in Seq(M) /\ queue # <<>> /\ queue' = Tail(queue) /\ cfg.camera \in BOOLEAN
      /\ KeyAfter(screenOn' # screenOn) /\ screenOn \in BOOLEAN
  BY TypeFacts, ConfigFacts DEF HandleEvent, RelayTypes, InputTypeOK
<1>2. m \in M
  BY <1>1, HeadTailProperties
<1>3. /\ m.t \in Known /\ ServerReads(m.t) = m.t
      /\ (m.t = "back" => m = [t |-> "back", a |-> m.a]) /\ (m.t \in {"keycode", "back"} => m.a \in Actions)
  BY <1>1, <1>2, MessageFacts, WireAgrees
<1>4. /\ CASE m.t = "keycode" -> InjectKey(m.a, m.key)
           [] m.t = "back" -> PressBackOrTurnScreenOn(m.a)
           [] OTHER -> UNCHANGED <<devKeys, screenOn>>
      /\ UNCHANGED <<userVars, clientVars>>
  BY <1>3 DEF HandleEvent
<1>5. CASE keyLost \/ screenOn' # screenOn
  BY <1>1, <1>5, LostKeys
<1>6. CASE ~(keyLost \/ screenOn' # screenOn)
  <2>1. InKeys
    BY <1>6 DEF KeysInv
  <2>2. ~screenOn => m # BackDown /\ m # BackUp
    <3>1. ~screenOn => m # BackUp
      BY <1>1, <2>1, PendingTail DEF InKeys
    <3>2. ASSUME ~screenOn, m = BackDown PROVE FALSE
      <4>1. m.t = "back" /\ m.a = "down"
        BY <3>2 DEF BackDown
      <4>2. PressBackOrTurnScreenOn("down")
        BY <1>4, <4>1
      <4>3. screenOn'
        BY <3>2, <4>2 DEF PressBackOrTurnScreenOn
      <4> QED BY <1>6, <3>2, <4>3
    <3> QED BY <3>1, <3>2
  <2>3. m.t = "back" => screenOn
    BY <1>3, <2>2 DEF Actions, BackDown, BackUp
  <2>4. \A k : k \in devKeys' => About(m, "down", k) \/ (k \in devKeys /\ ~About(m, "up", k))
    <3>1. CASE m.t = "keycode"
      <4>1. devKeys' = IF m.a = "down" THEN devKeys \cup {m.key} ELSE devKeys \ {m.key}
        BY <1>4, <3>1 DEF InjectKey
      <4> QED BY <1>3, <3>1, <4>1 DEF About, Actions
    <3>2. CASE m.t = "back"
      <4>1. PressBackOrTurnScreenOn(m.a)
        BY <1>4, <3>2
      <4>2. devKeys' = IF m.a = "down" THEN devKeys \cup {"b"} ELSE devKeys \ {"b"}
        BY <2>3, <3>2, <4>1 DEF PressBackOrTurnScreenOn, InjectKey
      <4> QED BY <1>3, <3>2, <4>2 DEF About, Actions
    <3>3. CASE m.t \notin {"keycode", "back"}
      <4>1. devKeys' = devKeys
        BY <1>4, <3>3
      <4> QED BY <3>3, <4>1 DEF About
    <3> QED BY <3>1, <3>2, <3>3
  <2>5. \A k : Pending(queue', devKeys', k) => Pending(queue, devKeys, k)
    BY <1>1, <2>4, PendingTail
  <2>6. ~screenOn => /\ HasBack(queue) => HasBack(queue')
                     /\ BackFirst(queue) => BackFirst(queue')
    BY <1>1, <2>2, <2>4, PendingTail
  <2>7. UNCHANGED <<cfg, held, paused, disconnected>>
    BY <1>4 DEF userVars, clientVars
  <2>8. \A x : Binding(x)' = Binding(x)
    BY <2>7 DEF Binding, Relative
  <2>9. \A k : Forwards(k, held)' <=> Forwards(k, held)
    BY <2>7 DEF Forwards, Convertible
  <2>10. \A x, k : Holds(x, k)' <=> Holds(x, k)
    BY <2>7, <2>8, <2>9 DEF Holds
  <2>11. BackHeld' <=> BackHeld
    BY <2>7, <2>8 DEF BackHeld, HeldButtons
  <2>12. InKeys'
    BY <1>6, <2>1, <2>5, <2>6, <2>7, <2>10, <2>11 DEF InKeys
  <2> QED BY <2>12 DEF KeysInv
<1> QED BY <1>5, <1>6

(* Initially no key is down.                                               *)
LEMMA KeysInit == InputInit => KeysInv
<1> SUFFICES ASSUME InputInit PROVE InKeys
  BY DEF KeysInv
<1>1. \A k : ~Pending(queue, devKeys, k)
  BY NonePending DEF InputInit
<1> QED BY <1>1 DEF InputInit, InKeys

(* Every step preserves the invariant of the keys.                         *)
LEMMA KeysNext == RelayTypes /\ KeysInv /\ [InputNext]_inputVars => KeysInv'
<1> SUFFICES ASSUME RelayTypes, KeysInv, [InputNext]_inputVars PROVE KeysInv'
  OBVIOUS
<1>0. TRUE \in BOOLEAN /\ FALSE \in BOOLEAN
  OBVIOUS
<1>1. ASSUME NEW k \in Keys, KeyPress(k) \/ KeyRepeat(k) \/ KeyRelease(k) PROVE KeysInv'
  <2>1. CASE KeyPress(k)
    <3>1. KeyEvent(k, TRUE, FALSE, held \cup {k})
      BY <2>1 DEF KeyPress
    <3> QED BY <1>0, <3>1, KeyKeys
  <2>2. CASE KeyRepeat(k)
    <3>1. KeyEvent(k, TRUE, TRUE, held) /\ held = held \cup {k}
      BY <2>2 DEF KeyRepeat
    <3> QED BY <1>0, <3>1, KeyKeys
  <2>3. CASE KeyRelease(k)
    <3>1. KeyEvent(k, FALSE, FALSE, held \ {k}) /\ k \in held
      BY <2>3 DEF KeyRelease
    <3> QED BY <1>0, <3>1, KeyKeys
  <2> QED BY <1>1, <2>1, <2>2, <2>3
<1>2. ASSUME NEW b \in Buttons, NEW outside \in BOOLEAN, NEW clicks \in {1, 2},
             ButtonPress(b, clicks, outside)
      PROVE  KeysInv'
  <2> DEFINE down == TRUE
             h == held \cup {b}
  <2>1. ButtonEvent(b, down, clicks, outside, h) /\ down \in BOOLEAN
    BY <1>2 DEF ButtonPress
  <2>2. h = held \cup {b} /\ down
    OBVIOUS
  <2> HIDE DEF down, h
  <2> QED BY <2>1, <2>2, ButtonKeys
<1>3. ASSUME NEW b \in Buttons, NEW outside \in BOOLEAN, ButtonRelease(b, outside)
      PROVE  KeysInv'
  <2> DEFINE down == FALSE
             h == held \ {b}
             clicks == IF b = Left THEN lastPress.clicks ELSE 1
  <2>1. ButtonEvent(b, down, clicks, outside, h) /\ down \in BOOLEAN
    BY <1>3 DEF ButtonRelease
  <2>2. b \in held /\ h = held \ {b} /\ ~down
    BY <1>3 DEF ButtonRelease
  <2>3. clicks \in {1, 2}
    BY DEF RelayTypes, Clicks
  <2> HIDE DEF down, h, clicks
  <2> QED BY <2>1, <2>2, <2>3, ButtonKeys
<1>4. ASSUME NEW f \in Fingers, FingerDown(f) \/ FingerUp(f) \/ FingerMotion(f) PROVE KeysInv'
  <2>1. \E a \in {"DOWN", "UP", "MOVE"} : \E h : Finger(f, a, h) /\ h \in {held, held \cup {f}, held \ {f}}
    BY <1>4 DEF FingerDown, FingerUp, FingerMotion
  <2> QED BY <2>1, OtherKeys
<1>5. ASSUME NEW class \in {"alpha", "punct"}, TextInput(class) PROVE KeysInv'
  BY <1>5, OtherKeys
<1>6. CASE Motion \/ Wheel \/ FocusLost
  BY <1>6, OtherKeys
<1>7. CASE Rotate \/ NewFrameSize \/ Disconnected \/ WheelCrash \/ UNCHANGED inputVars
  BY <1>7, DeviceKeys
<1> QED BY <1>1, <1>2, <1>3, <1>4, <1>5, <1>6, <1>7, HandleKeys DEF InputNext

(* The keys of both sides: as long as no press and no release was lost,    *)
(* each key that is down on the device, or that the queue leaves down, is  *)
(* wanted by a key or by a button that the user holds.                     *)
THEOREM KeysInvariant == InputSpec => [](RelayTypes /\ KeysInv)
<1>1. InputInit => RelayTypes /\ KeysInv
  BY TypesInit, KeysInit
<1>2. RelayTypes /\ KeysInv /\ [InputNext]_inputVars => (RelayTypes /\ KeysInv)'
  BY TypesNext, KeysNext
<1> QED BY <1>1, <1>2, PTL DEF InputSpec

(* Nothing stays pressed on the device once the user holds nothing and the *)
(* queue is empty, unless a press or a release was lost: no pointer, no    *)
(* button of the UHID mouse, no key (input_manager.c, Controller.java).    *)
THEOREM NothingStaysStuck == InputSpec => []NothingStuck
<1>1. ASSUME RelayTypes, TouchInv, held = {}, queue = <<>>, ~touchLost
      PROVE  pointers = <<>> /\ touching = {} /\ hidButtons = {}
  <2>1. InTouch
    BY <1>1 DEF TouchInv
  <2>2. Device = Expected
    BY <1>1, <2>1, LeadsEmpty DEF InTouch
  <2>3. buttonsState = {} /\ ~vfingerDown /\ HeldFingers = {}
    BY <1>1, <2>1 DEF InTouch, HeldFingers
  <2>4. Expected.ids = {} /\ Expected.hid = {}
    BY <2>3 DEF Expected, Pointed
  <2>5. IdsOf(pointers) = {} /\ hidButtons = {}
    BY <2>2, <2>4 DEF Device
  <2>6. pointers \in PointerList /\ WellFormed(pointers)
    BY <1>1 DEF RelayTypes, InputTypeOK, PointersDistinct
  <2>7. pointers = <<>> /\ UsedLocalIds(pointers) = {}
    BY <2>5, <2>6, OnePointer
  <2> QED BY <2>1, <2>5, <2>7 DEF InTouch
<1>2. ASSUME RelayTypes, KeysInv, held = {}, queue = <<>>, ~keyLost
      PROVE  devKeys = {}
  <2>1. \A k \in Keys : ~Pending(<<>>, devKeys, k)
    BY <1>2 DEF KeysInv, InKeys
  <2>2. Len(<<>>) = 0 /\ 1 .. 0 = {}
    OBVIOUS
  <2>3. \A k \in Keys : k \notin devKeys
    BY <2>1, <2>2 DEF Pending
  <2> QED BY <1>2, <2>3 DEF RelayTypes, InputTypeOK
<1>3. RelayTypes /\ TouchInv /\ KeysInv => NothingStuck
  BY <1>1, <1>2 DEF NothingStuck
<1> QED BY <1>3, TouchInvariant, KeysInvariant, PTL
===============================================================================
