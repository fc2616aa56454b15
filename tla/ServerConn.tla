------------------------------ MODULE ServerConn ------------------------------
(***************************************************************************)
(* The connection to the server (app/src/server.c): the thread             *)
(* "scrcpy-server" runs adb commands, opens an adb tunnel (adb_tunnel.c),  *)
(* executes the server on the device, connects one socket per stream,      *)
(* waits to be stopped and tears everything down.  The thread              *)
(* "scrcpy-proc" (util/process.c) observes the process of the server.  The *)
(* main thread awaits the connection and stops the server at any time.     *)
(*                                                                         *)
(* Every blocking call of the server thread is interruptible               *)
(* (util/intr.c): it registers its socket or its process, blocks, and      *)
(* unregisters it, in three steps.                                         *)
(***************************************************************************)
EXTENDS Naturals, FiniteSets

CONSTANTS
  Streams,     (* the sockets requested among "video", "audio", "control"  *)
  AdbCommands, (* adb commands run before the tunnel is opened             *)
  Ports,       (* ports in the range                                       *)
  Attempts,    (* connection attempts through a forward tunnel             *)
  KillAdb      (* --kill-adb-on-close                                      *)

ASSUME ServerConnAssumption ==
  /\ IsFiniteSet(Streams) /\ Streams # {}
  /\ AdbCommands \in Nat /\ Ports \in Nat \ {0} /\ Attempts \in Nat \ {0}
  /\ KillAdb \in BOOLEAN

VARIABLES
  pc,        (* where the server thread is                                 *)
  left,      (* adb commands, ports or attempts that remain                *)
  call,      (* its blocking call: "idle", "blocked", "back"               *)
  ok,        (* whether the last blocking call succeeded                   *)
  intr,      (* server->intr: interrupted, and what is registered          *)
  tunnel,    (* server->tunnel: "closed", "reverse", "forward"             *)
  sock,      (* the sockets opened, and those of the struct sc_server      *)
  adb,       (* the adb process of the current command                     *)
  proc,      (* the process of the server, as "adb shell" runs it          *)
  device,    (* connections the device made or accepted; info sent         *)
  observer,  (* where the thread "scrcpy-proc" is                          *)
  stopped,   (* server->stopped                                            *)
  main,      (* where the main thread is                                   *)
  called,    (* the callbacks that were called                             *)
  stray      (* ghost: a process already reaped was killed                 *)

thread == <<pc, left, call, ok>>
vars == <<thread, intr, tunnel, sock, adb, proc, device, observer, stopped,
          main, called, stray>>

Init ==
  /\ pc = "adb" /\ left = AdbCommands /\ call = "idle" /\ ok = FALSE
  /\ intr = [set |-> FALSE, held |-> "none"]
  /\ tunnel = "closed"
  /\ sock = [open |-> {}, kept |-> {}]
  /\ adb = "none" /\ proc = "none"
  /\ device = [ready |-> 0, info |-> FALSE]
  /\ observer = "none"
  /\ stopped = FALSE /\ main = "await"
  /\ called = {} /\ stray = FALSE

-------------------------------------------------------------------------------
(* Interruptible calls.                                                    *)

(* sc_intr_set_socket() and sc_intr_set_process() refuse what is           *)
(* registered after the interruption.                                      *)
(* Variant: they do not look at it.                                        *)
NeverRefused == FALSE
Refused == intr.set

(* sc_process_wait(pid, close): adb commands are waited for with           *)
(* close = false, then closed once they are not registered any more.       *)
(* Variant: close = true.                                                  *)
WaitReaps == "reaped"
WaitKeeps == "exited"

(* sc_intr_interrupt(): the process registered is killed, the socket       *)
(* registered is shut down.                                                *)
Interrupt ==
  /\ intr' = [set |-> TRUE, held |-> "none"]
  /\ stray' = (stray \/ (intr.held = "process" /\ adb = "reaped"))
  /\ adb' = IF intr.held = "process" /\ adb = "running" THEN "exited" ELSE adb

CommandSteps == {"adb", "reverse", "unreverse", "forward", "close_tunnel",
                 "close_failed", "close_aborted", "kill_adb", "kill_adb_failed"}
SocketSteps == {"listen", "accept", "connect", "byte", "dial", "info"}

Interrupted == call = "blocked" /\ intr.held = "none"

(* What the blocking socket call of each step waits for. *)
CanSucceed ==
  CASE pc = "accept" -> Cardinality(sock.open) < device.ready
    [] pc = "byte" -> device.ready > 0
    [] pc = "info" -> device.info
    [] OTHER -> TRUE

(* An adb command is executed whether the thread is interrupted or not. *)
Spawn ==
  /\ pc \in CommandSteps /\ call = "idle" /\ adb \in {"none", "reaped"}
  /\ adb' = "running"
  /\ UNCHANGED <<thread, intr, tunnel, sock, proc, device, observer, stopped,
                 main, called, stray>>

AdbExits ==
  /\ adb = "running"
  /\ adb' = "exited"
  /\ UNCHANGED <<thread, intr, tunnel, sock, proc, device, observer, stopped,
                 main, called, stray>>

Register ==
  /\ call = "idle" /\ ~Refused
  /\ \/ /\ pc \in CommandSteps /\ adb \in {"running", "exited"}
        /\ intr' = [intr EXCEPT !.held = "process"]
     \/ pc \in SocketSteps /\ intr' = [intr EXCEPT !.held = "socket"]
  /\ call' = "blocked"
  /\ UNCHANGED <<pc, left, ok, tunnel, sock, adb, proc, device, observer,
                 stopped, main, called, stray>>

(* The call returns: a command because its process exited, a socket call   *)
(* because it succeeded or failed.                                         *)
Return(success) ==
  /\ call = "blocked"
  /\ \/ pc \in CommandSteps /\ adb = "exited" /\ adb' = WaitKeeps
     \/ pc \in SocketSteps /\ (success => CanSucceed) /\ UNCHANGED adb
  /\ call' = "back" /\ ok' = success
  /\ UNCHANGED <<pc, left, intr, tunnel, sock, proc, device, observer, stopped,
                 main, called, stray>>

(* The call is over, with this result: it returned and is unregistered,    *)
(* and its process reaped, or it was refused.                              *)
Over(success) ==
  /\ \/ /\ call = "back" /\ success = ok
        /\ intr' = IF Refused THEN intr ELSE [intr EXCEPT !.held = "none"]
        /\ adb' = IF pc \in CommandSteps THEN "reaped" ELSE adb
     \/ /\ call = "idle" /\ Refused /\ ~success
        /\ pc \in CommandSteps => adb \in {"running", "exited"}
        /\ adb' = IF pc \in CommandSteps THEN "none" ELSE adb
        /\ UNCHANGED intr
  /\ call' = "idle"
  /\ UNCHANGED ok

Quiet == UNCHANGED <<proc, device, observer, stopped, main, called, stray>>

-------------------------------------------------------------------------------
(* run_server(): commands, tunnel, process.                                *)

AdbDone(success) ==
  /\ pc = "adb" /\ Over(success)
  /\ \/ success /\ left > 0 /\ left' = left - 1 /\ UNCHANGED pc
     \/ success /\ left = 0 /\ left' = Ports - 1 /\ pc' \in {"reverse", "forward", "list"}
     \/ ~success /\ pc' = "failed" /\ UNCHANGED left
  /\ UNCHANGED <<tunnel, sock>> /\ Quiet

(* With --list-*, the server prints the requested data and exits; nothing  *)
(* observes nor interrupts it.                                             *)
ExecuteList ==
  /\ pc = "list" /\ proc = "none"
  /\ \/ proc' = "running" /\ UNCHANGED pc
     \/ pc' = "failed" /\ UNCHANGED proc
  /\ UNCHANGED <<left, call, ok, intr, tunnel, sock, adb, device, observer,
                 stopped, main, called, stray>>

ListEnds ==
  /\ pc = "list" /\ proc = "exited"
  /\ proc' = "reaped"
  /\ pc' = "exited"
  /\ called' = called \cup {"connected"}
  /\ UNCHANGED <<left, call, ok, intr, tunnel, sock, adb, device, observer,
                 stopped, main, stray>>

(* The next port is tried if there is one.                                 *)
MorePorts == left > 0

(* enable_tunnel_reverse_any_port(): if the command fails, "adb forward"   *)
(* is tried instead.                                                       *)
ReverseDone(success) ==
  /\ pc = "reverse" /\ Over(success)
  /\ IF success THEN pc' = "listen" /\ UNCHANGED left
                ELSE pc' = "forward" /\ left' = Ports - 1
  /\ UNCHANGED <<tunnel, sock>> /\ Quiet

ListenDone(success) ==
  /\ pc = "listen" /\ Over(success)
  /\ \/ success /\ tunnel' = "reverse" /\ pc' = "execute" /\ UNCHANGED left
     \/ ~success /\ intr.set /\ pc' = "forward" /\ left' = Ports - 1 /\ UNCHANGED tunnel
     \/ ~success /\ ~intr.set /\ pc' = "unreverse" /\ UNCHANGED <<tunnel, left>>
  /\ UNCHANGED sock /\ Quiet

UnreverseDone(success) ==
  /\ pc = "unreverse" /\ Over(success)
  /\ IF MorePorts THEN pc' = "reverse" /\ left' = left - 1
                  ELSE pc' = "forward" /\ left' = Ports - 1
  /\ UNCHANGED <<tunnel, sock>> /\ Quiet

(* enable_tunnel_forward_any_port() *)
ForwardDone(success) ==
  /\ pc = "forward" /\ Over(success)
  /\ \/ success /\ tunnel' = "forward" /\ pc' = "execute" /\ UNCHANGED left
     \/ /\ ~success /\ UNCHANGED tunnel
        /\ IF ~intr.set /\ MorePorts
           THEN left' = left - 1 /\ UNCHANGED pc
           ELSE pc' = "failed" /\ UNCHANGED left
  /\ UNCHANGED sock /\ Quiet

(* execute_server(), then the observer is started; either may fail.        *)
Execute ==
  /\ pc = "execute"
  /\ \/ /\ proc' = "running" /\ observer' = "waiting"
        /\ pc' = IF tunnel = "reverse" THEN "accept" ELSE "connect"
        /\ left' = Attempts
     \/ /\ proc' = "none" /\ pc' = "close_failed" /\ UNCHANGED <<left, observer>>
     \/ /\ proc' = "reaped" /\ pc' = "close_failed" /\ UNCHANGED <<left, observer>>
  /\ UNCHANGED <<call, ok, intr, tunnel, sock, adb, device, stopped, main,
                 called, stray>>

-------------------------------------------------------------------------------
(* sc_server_connect_to()                                                  *)

Opened == [sock EXCEPT !.open = @ \cup {CHOOSE s \in Streams \ @ : TRUE}]
Complete(s) == s.open = Streams

(* With a reverse tunnel, the device connects once per stream. *)
AcceptDone(success) ==
  /\ pc = "accept" /\ Over(success)
  /\ IF success
     THEN /\ sock' = Opened
          /\ pc' = IF Complete(sock') THEN "close_tunnel" ELSE "accept"
     ELSE pc' = "close_aborted" /\ UNCHANGED sock
  /\ UNCHANGED <<left, tunnel>> /\ Quiet

(* With a forward tunnel, connect() succeeds even if nobody listens behind *)
(* adb: one byte is read to know, and the socket is closed if it fails.    *)
ConnectDone(success) ==
  /\ pc = "connect" /\ Over(success)
  /\ pc' = IF success THEN "byte" ELSE "retry"
  /\ UNCHANGED <<left, sock, tunnel>> /\ Quiet

ByteDone(success) ==
  /\ pc = "byte" /\ Over(success)
  /\ IF success
     THEN /\ sock' = Opened
          /\ pc' = IF Complete(sock') THEN "close_tunnel" ELSE "dial"
     ELSE pc' = "retry" /\ UNCHANGED sock
  /\ UNCHANGED <<left, tunnel>> /\ Quiet

(* connect_to_server() sleeps between two attempts, unless interrupted;    *)
(* sc_server_stop() wakes it up.                                           *)
Retry ==
  /\ pc = "retry"
  /\ left' = left - 1
  /\ pc' = IF intr.set \/ stopped \/ left' = 0 THEN "close_aborted" ELSE "connect"
  /\ UNCHANGED <<call, ok, intr, tunnel, sock, adb>> /\ Quiet

DialDone(success) ==
  /\ pc = "dial" /\ Over(success)
  /\ sock' = IF success THEN Opened ELSE sock
  /\ pc' = CASE ~success -> "close_aborted"
             [] success /\ Complete(sock') -> "close_tunnel"
             [] OTHER -> "dial"
  /\ UNCHANGED <<left, tunnel>> /\ Quiet

(* sc_adb_tunnel_close(): the tunnel is considered closed in any case.     *)
CloseTunnelDone(success) ==
  /\ pc \in {"close_tunnel", "close_aborted", "close_failed"} /\ Over(success)
  /\ tunnel' = "closed"
  /\ pc' = CASE pc = "close_tunnel" -> "info"
             [] pc = "close_aborted" -> "abort"
             [] OTHER -> "failed"
  /\ UNCHANGED <<left, sock>> /\ Quiet

(* The sockets are given to the struct sc_server only once the information *)
(* on the device was read, and on_connected() is called.                   *)
InfoDone(success) ==
  /\ pc = "info" /\ Over(success)
  /\ \/ /\ success /\ pc' = "serving"
        /\ sock' = [sock EXCEPT !.kept = sock.open]
        /\ called' = called \cup {"connected"}
     \/ /\ ~success /\ pc' = "abort" /\ UNCHANGED <<sock, called>>
  /\ UNCHANGED <<left, tunnel, proc, device, observer, stopped, main, stray>>

(* The sockets that are still open after a failure: none.                  *)
(* Variant: the control socket, the last one connected, is forgotten.      *)
ForgetsLast == IF Complete(sock) THEN {CHOOSE s \in Streams : TRUE} ELSE {}
ForgetsNone == {}

(* sc_process_terminate(), followed by sc_process_wait(pid, true). *)
Abort ==
  /\ pc = "abort"
  /\ sock' = [sock EXCEPT !.open = ForgetsNone]
  /\ stray' = (stray \/ proc = "reaped")
  /\ proc' = "reaped"
  /\ pc' = "abort_join"
  /\ UNCHANGED <<left, call, ok, intr, tunnel, adb, device, observer, stopped,
                 main, called>>

-------------------------------------------------------------------------------
(* run_server(): the end.                                                  *)

(* Once stopped, the sockets are shut down, which makes the device exit,   *)
(* and a watchdog waits for the process.                                   *)
Serve ==
  /\ pc = "serving" /\ stopped
  /\ pc' = "watchdog"
  /\ UNCHANGED <<left, call, ok, intr, tunnel, sock, adb>> /\ Quiet

(* The watchdog kills the server after a second, although it may have      *)
(* exited since.                                                           *)
Watchdog ==
  /\ pc = "watchdog"
  /\ \/ /\ observer \in {"terminated", "notifying", "ended"}
        /\ UNCHANGED <<proc, stray>>
     \/ /\ observer = "waiting"
        /\ stray' = (stray \/ proc = "reaped")
        /\ proc' = IF proc = "running" THEN "exited" ELSE proc
  /\ pc' = "join"
  /\ UNCHANGED <<left, call, ok, intr, tunnel, sock, adb, device, observer,
                 stopped, main, called>>

JoinObserver ==
  /\ pc \in {"join", "abort_join"}
  /\ observer = "ended"
  /\ observer' = "joined"
  /\ proc' = "reaped"
  /\ pc' = CASE pc = "abort_join" -> "failed"
             [] pc = "join" /\ KillAdb -> "kill_adb"
             [] pc = "join" /\ ~KillAdb -> "exited"
  /\ UNCHANGED <<left, call, ok, intr, tunnel, sock, adb, device, stopped, main,
                 called, stray>>

(* error_connection_failed: *)
Failed ==
  /\ pc = "failed" /\ KillAdb
  /\ pc' = "kill_adb_failed"
  /\ UNCHANGED <<left, call, ok, intr, tunnel, sock, adb>> /\ Quiet

KillAdbDone(success) ==
  /\ pc \in {"kill_adb", "kill_adb_failed"} /\ Over(success)
  /\ pc' = IF pc = "kill_adb" THEN "exited" ELSE "notify"
  /\ UNCHANGED <<left, sock, tunnel>> /\ Quiet

ConnectionFailed ==
  /\ pc = "notify" \/ (pc = "failed" /\ ~KillAdb)
  /\ pc' = "exited"
  /\ called' = called \cup {"connection_failed"}
  /\ UNCHANGED <<left, call, ok, intr, tunnel, sock, adb, proc, device, observer,
                 stopped, main, stray>>

-------------------------------------------------------------------------------
(* The thread "scrcpy-proc": it waits without reaping, tells the watchdog, *)
(* then sc_server_on_terminated() interrupts what the server thread does.  *)

ObserverWaits ==
  /\ observer = "waiting" /\ proc \in {"exited", "reaped"}
  /\ observer' = "terminated"
  /\ UNCHANGED <<thread, intr, tunnel, sock, adb, proc, device, stopped, main,
                 called, stray>>

(* Variant: the end of the process does not interrupt the server thread.   *)
ObserverSilent == UNCHANGED <<intr, adb, stray>>
ObserverInterrupt == Interrupt

ObserverInterrupts ==
  /\ observer = "terminated"
  /\ observer' = "notifying"
  /\ ObserverInterrupt
  /\ UNCHANGED <<thread, tunnel, sock, proc, device, stopped, main, called>>

ObserverNotifies ==
  /\ observer = "notifying"
  /\ observer' = "ended"
  /\ called' = called \cup {"disconnected"}
  /\ UNCHANGED <<thread, intr, tunnel, sock, adb, proc, device, stopped, main,
                 stray>>

-------------------------------------------------------------------------------
(* The device.                                                             *)

DeviceConnects ==
  /\ proc = "running" /\ tunnel # "closed"
  /\ device.ready < Cardinality(Streams)
  /\ device' = [device EXCEPT !.ready = @ + 1]
  /\ UNCHANGED <<thread, intr, tunnel, sock, adb, proc, observer, stopped, main,
                 called, stray>>

DeviceSendsInfo ==
  /\ proc = "running" /\ device.ready = Cardinality(Streams)
  /\ device' = [device EXCEPT !.info = TRUE]
  /\ UNCHANGED <<thread, intr, tunnel, sock, adb, proc, observer, stopped, main,
                 called, stray>>

ProcessExits ==
  /\ proc = "running"
  /\ proc' = "exited"
  /\ UNCHANGED <<thread, intr, tunnel, sock, adb, device, observer, stopped,
                 main, called, stray>>

-------------------------------------------------------------------------------
(* The main thread: await_for_server(), the event loop, sc_server_stop();  *)
(* there is no loop with --list-*, where no thread observes the process.   *)

MainAwaits ==
  /\ main = "await"
  /\ \/ "connected" \in called /\ main' = IF observer = "none" THEN "end" ELSE "loop"
     \/ "connection_failed" \in called /\ main' = "end"
  /\ UNCHANGED <<thread, intr, tunnel, sock, adb, proc, device, observer,
                 stopped, called, stray>>

(* The user quits, or the event loop ends for any other reason. *)
MainQuits ==
  /\ main \in {"await", "loop"}
  /\ main' = "end"
  /\ UNCHANGED <<thread, intr, tunnel, sock, adb, proc, device, observer,
                 stopped, called, stray>>

Stop ==
  /\ main = "end" /\ ~stopped
  /\ stopped' = TRUE
  /\ Interrupt
  /\ UNCHANGED <<thread, tunnel, sock, proc, device, observer, main, called>>

(* sc_server_join() and sc_server_destroy(), which closes the sockets. *)
JoinAndDestroy ==
  /\ main = "end" /\ stopped /\ pc = "exited"
  /\ main' = "destroyed"
  /\ sock' = [open |-> sock.open \ sock.kept, kept |-> {}]
  /\ UNCHANGED <<thread, intr, tunnel, adb, proc, device, observer, stopped,
                 called, stray>>

-------------------------------------------------------------------------------
Done(success) ==
  \/ AdbDone(success) \/ ReverseDone(success) \/ ListenDone(success)
  \/ UnreverseDone(success) \/ ForwardDone(success) \/ AcceptDone(success)
  \/ ConnectDone(success) \/ ByteDone(success) \/ DialDone(success)
  \/ CloseTunnelDone(success) \/ InfoDone(success) \/ KillAdbDone(success)

(* The steps of the server thread that do not depend on anyone. *)
ServerThread ==
  \/ Spawn
  \/ Register
  \/ \E success \in BOOLEAN : Done(success)
  \/ ExecuteList
  \/ ListEnds
  \/ Execute
  \/ Retry
  \/ Abort
  \/ Serve
  \/ Watchdog
  \/ JoinObserver
  \/ Failed
  \/ ConnectionFailed

Observer == ObserverWaits \/ ObserverInterrupts \/ ObserverNotifies

Main == MainAwaits \/ Stop \/ JoinAndDestroy

Next ==
  \/ ServerThread
  \/ \E success \in BOOLEAN : Return(success)
  \/ Observer
  \/ Main
  \/ MainQuits
  \/ AdbExits
  \/ DeviceConnects
  \/ DeviceSendsInfo
  \/ ProcessExits

Spec == Init /\ [][Next]_vars

(* The threads are scheduled.  A blocking call that is interrupted         *)
(* returns: its process was killed, its socket was shut down.  Nothing is  *)
(* assumed of adb, of the device or of the user.                           *)
Fairness ==
  /\ WF_vars(ServerThread)
  /\ WF_vars(Interrupted /\ \E success \in BOOLEAN : Return(success))
  /\ WF_vars(Observer)
  /\ WF_vars(Main)

FairSpec == Spec /\ Fairness

-------------------------------------------------------------------------------
ServerTypeOK ==
  /\ pc \in CommandSteps \cup SocketSteps
       \cup {"list", "execute", "retry", "abort", "serving", "watchdog", "join",
             "abort_join", "failed", "notify", "exited"}
  /\ left \in Nat
  /\ call \in {"idle", "blocked", "back"} /\ ok \in BOOLEAN
  /\ intr \in [set : BOOLEAN, held : {"none", "socket", "process"}]
  /\ tunnel \in {"closed", "reverse", "forward"}
  /\ sock \in [open : SUBSET Streams, kept : SUBSET Streams]
  /\ adb \in {"none", "running", "exited", "reaped"}
  /\ proc \in {"none", "running", "exited", "reaped"}
  /\ device \in [ready : 0 .. Cardinality(Streams), info : BOOLEAN]
  /\ observer \in {"none", "waiting", "terminated", "notifying", "ended", "joined"}
  /\ stopped \in BOOLEAN
  /\ main \in {"await", "loop", "end", "destroyed"}
  /\ called \subseteq {"connected", "connection_failed", "disconnected"}
  /\ stray \in BOOLEAN

(* Whatever the point at which the connection fails or is stopped, the     *)
(* server thread leaves no socket behind but those of the struct           *)
(* sc_server, no tunnel, no process and no observer, and nothing           *)
(* registered to be interrupted (asserted by sc_intr_destroy()).  The      *)
(* types are checked with it.                                              *)
NothingLeaks ==
  /\ ServerTypeOK
  /\ pc = "exited" =>
       /\ sock.open = sock.kept
       /\ tunnel = "closed"
       /\ proc \in {"none", "reaped"}
       /\ observer \in {"none", "joined"}
       /\ intr.held = "none"
  /\ "connected" \in called /\ observer # "none" /\ main # "destroyed" =>
       sock.kept = Streams

(* A process is killed only while its pid is its own: the interruption and *)
(* the watchdog may race with the end of the process, never with its reap. *)
NoStrayKill == ~stray

(* sc_server_stop() is enough for the server thread to be joined, whatever *)
(* call it is blocked in or about to make, even if adb or the device hang; *)
(* except that nothing ends a server that lists.                           *)
StopTerminates == stopped ~> (main = "destroyed" \/ pc = "list")

(* If the server dies before it connects, the client is not "stuck forever *)
(* on accept()".                                                           *)
DeathEndsAwait == (proc = "exited") ~> (main # "await")
===============================================================================
