----------------------------- MODULE ServerMain -----------------------------
(***************************************************************************)
(* The process of the server on the device, from its start to its end:     *)
(* Server.java opens the connection (DesktopConnection.java), starts the   *)
(* processors (AsyncProcessor.java), and waits in its looper until the     *)
(* Completion tells that one of them failed or that all of them ended.     *)
(* Then it stops everything, shuts the sockets, joins everything and exits.*)
(* The control thread and the encoder of the video are here only as        *)
(* threads that end (InputRelay and VideoEncoder have what they do); the   *)
(* audio is AudioStream and the cleanup is CleanUp.                        *)
(***************************************************************************)
EXTENDS CleanUp, AudioStream

CONSTANT Configs

ConfigOK(c) ==
  /\ c.processors \subseteq {"control", "audio", "video"}
  /\ c.processors # {}
  /\ c.audio \in {"encoder", "raw"}
  /\ {c.supported, c.cleanup, c.powerOffOnClose} \subseteq BOOLEAN
  /\ c.settings \subseteq Settings /\ c.requests \in Nat

ASSUME ServerAssumption == \A c \in Configs : ConfigOK(c)

VARIABLES
  main,        (* where the main thread is                                 *)
  toStart,     (* the processors to start, in order                        *)
  thread,      (* the threads of the control and of the video              *)
  stopped,     (* stop() was called                                        *)
  completion,  (* running and fatalError                                   *)
  quit,        (* the looper was told to quit                              *)
  joined       (* cleanUp.join() returned                                  *)

mainVars == <<main, toStart, thread, stopped, completion, quit, joined>>
vars == <<cfg, process, link, mainVars, cleanUpVars, audioVars>>

(* The processors of the session, in the order of their start.             *)
Wants(p) == IF p \in cfg.processors THEN <<p>> ELSE <<>>
Processors == Wants("control") \o Wants("audio") \o Wants("video")

Init ==
  /\ cfg \in Configs
  /\ process = "running" /\ link = "none"
  /\ main = "start" /\ toStart = Processors
  /\ thread = [p \in {"control", "video"} |-> "off"]
  /\ stopped = FALSE /\ quit = FALSE /\ joined = FALSE
  /\ completion = [running |-> 0, fatal |-> FALSE]
  /\ CleanUpInit /\ AudioInit

Goes(from, to) == Alive /\ main = from /\ main' = to

(* Completion.addCompleted().                                               *)
(* Variant: a fatal error of one processor does not end the others.         *)
QuitsAtEnd(c) == c.running = 0
Quits(c) == c.running = 0 \/ c.fatal
AddCompleted(fatal) ==
  /\ completion' = [running |-> completion.running - 1,
                    fatal |-> completion.fatal \/ fatal]
  /\ quit' = (quit \/ Quits(completion'))

-----------------------------------------------------------------------------
(* scrcpy(): the main thread. *)

OtherUnchanged == UNCHANGED <<cfg, deviceVars, childVars, powerVars>>
CleanerUnchanged == UNCHANGED cleanerVars

StartCleanUp ==
  /\ Goes("start", "open")
  /\ cleaner' = IF cfg.cleanup THEN "putting" ELSE "off"
  /\ UNCHANGED <<process, link, toStart, thread, stopped, completion, quit,
                 joined, toPut, remembered, interrupted, pending, writing,
                 spawnFailed, audioVars>>
  /\ OtherUnchanged

(* An exception here is outside of the try: nothing is interrupted.         *)
Open ==
  /\ \/ Goes("open", "meta") /\ link' = "up"
     \/ Goes("open", "exit") /\ UNCHANGED link
  /\ UNCHANGED <<process, toStart, thread, stopped, completion, quit, joined,
                 audioVars>>
  /\ CleanerUnchanged /\ OtherUnchanged

(* sendDeviceMeta(): if it fails, there is no processor yet.                *)
SendDeviceMeta ==
  /\ \/ /\ link = "up" /\ Goes("meta", "starting")
        /\ completion' = [completion EXCEPT !.running = Len(toStart)]
     \/ /\ link # "up" /\ Goes("meta", "interrupt")
        /\ UNCHANGED completion
  /\ UNCHANGED <<process, link, toStart, thread, stopped, quit, joined,
                 audioVars>>
  /\ CleanerUnchanged /\ OtherUnchanged

StartProcessor ==
  /\ Goes("starting", "starting") /\ toStart # <<>>
  /\ toStart' = Tail(toStart)
  /\ IF Head(toStart) = "audio"
     THEN /\ StartAudio
          /\ UNCHANGED <<thread, audioFatal, ended, audioStopped, input,
                         output, header>>
     ELSE /\ thread' = [thread EXCEPT ![Head(toStart)] = "running"]
          /\ UNCHANGED audioVars
  /\ UNCHANGED <<process, link, stopped, completion, quit, joined>>
  /\ CleanerUnchanged /\ OtherUnchanged

Step(from, to) ==
  /\ Goes(from, to)
  /\ UNCHANGED <<toStart, thread, completion, quit>>
  /\ OtherUnchanged

Loop ==
  /\ toStart = <<>> /\ Step("starting", "looper")
  /\ UNCHANGED <<process, link, stopped, joined, audioVars, cleanerVars>>

QuitLooper ==
  /\ quit /\ Step("looper", "interrupt")
  /\ UNCHANGED <<process, link, stopped, joined, audioVars, cleanerVars>>

InterruptCleanUp ==
  /\ Step("interrupt", "stop")
  /\ interrupted' = cfg.cleanup
  /\ UNCHANGED <<process, link, stopped, joined, audioVars, cleaner, toPut,
                 remembered, pending, writing, spawnFailed>>

StopProcessors ==
  /\ Step("stop", "shutdown")
  /\ stopped' = TRUE
  /\ StopAudio
  /\ UNCHANGED <<process, link, joined, cleanerVars>>

(* An IOException skips the rest of the block.                              *)
Shutdown ==
  /\ link' = "shut"
  /\ Step("shutdown", "join cleanup") \/ Step("shutdown", "exit")
  /\ UNCHANGED <<process, stopped, joined, audioVars, cleanerVars>>

JoinCleanUp ==
  /\ cleaner \in {"off", "ended"}
  /\ Step("join cleanup", "join")
  /\ joined' = TRUE
  /\ UNCHANGED <<process, link, stopped, audioVars, cleanerVars>>

(* The threads that were not started are not waited for.                    *)
JoinProcessors ==
  /\ \A p \in DOMAIN thread : thread[p] # "running"
  /\ audio \in {"off", "ended"}
  /\ Step("join", "exit")
  /\ UNCHANGED <<process, link, stopped, joined, audioVars, cleanerVars>>

(* System.exit(), or the death of the process, which closes the sockets and *)
(* the pipe of the child.                                                   *)
Dies ==
  /\ process' = "dead" /\ link' = "shut"
  /\ UNCHANGED <<main, stopped, joined, toStart, thread, completion, quit,
                 audioVars, cleanerVars>>
  /\ OtherUnchanged
Exit == Alive /\ main = "exit" /\ Dies
Killed == Alive /\ Dies

Main ==
  \/ StartCleanUp \/ SendDeviceMeta \/ StartProcessor \/ Loop \/ QuitLooper
  \/ InterruptCleanUp \/ StopProcessors \/ Shutdown \/ JoinCleanUp
  \/ JoinProcessors \/ Exit

-----------------------------------------------------------------------------
(* The threads of the processors. *)

ThreadEnds(p) ==
  /\ Alive /\ thread[p] = "running"
  /\ thread' = [thread EXCEPT ![p] = "ended"]
  /\ AddCompleted(TRUE)
  /\ UNCHANGED <<process, link, main, toStart, stopped, joined, audioVars>>
  /\ CleanerUnchanged /\ OtherUnchanged

Audio ==
  /\ AudioStep
  /\ UNCHANGED <<cfg, process, link, mainVars, cleanUpVars>>

AudioEnds ==
  /\ TerminateAudio
  /\ AddCompleted(audioFatal)
  /\ UNCHANGED <<cfg, process, link, main, toStart, thread, stopped, joined,
                 cleanUpVars>>

(* The control thread handles the messages about the power, whether the     *)
(* main thread is stopping or not.                                          *)
Control ==
  /\ Alive /\ thread["control"] = "running" /\ link = "up"
  /\ Power
  /\ UNCHANGED <<cfg, process, link, mainVars, audioVars>>

-----------------------------------------------------------------------------
(* The outside: the client, the device.                                     *)

ClientLeaves ==
  /\ Alive /\ link = "up"
  /\ link' = "closed"
  /\ UNCHANGED <<cfg, process, mainVars, cleanUpVars, audioVars>>

CleanerSteps ==
  /\ Cleaner \/ Child
  /\ UNCHANGED <<cfg, process, link, mainVars, audioVars>>

Device ==
  /\ Alive /\ (ForceDisplayOff \/ (cfg.requests > 0 /\ PowerButton))
  /\ UNCHANGED <<cfg, process, link, mainVars, audioVars>>

Next ==
  \/ Main \/ Open \/ Killed
  \/ \E p \in DOMAIN thread : ThreadEnds(p)
  \/ Audio \/ AudioEnds \/ Control
  \/ CleanerSteps \/ ClientLeaves \/ Device

(* A thread ends once its socket does: the control thread by the end of the *)
(* stream, the encoder by a broken pipe or by stop() (see VideoEncoder).    *)
(* The client may wait for ever before it connects, and stop reading.       *)
BrokenThread(p) ==
  /\ link # "up" \/ (stopped /\ p = "video")
  /\ ThreadEnds(p)

AudioGoesOn == AudioProgress /\ UNCHANGED <<cfg, process, link, mainVars, cleanUpVars>>

Spec ==
  /\ Init /\ [][Next]_vars
  /\ WF_vars(Main) /\ WF_vars(CleanerSteps)
  /\ \A p \in {"control", "video"} : WF_vars(BrokenThread(p))
  /\ WF_vars(AudioGoesOn) /\ WF_vars(AudioEnds)

-----------------------------------------------------------------------------
(* Types; no processor ends without being counted.                          *)
Processing ==
  Len(toStart)
    + Cardinality({p \in DOMAIN thread : thread[p] = "running"})
    + (IF audio \in {"off", "ended"} THEN 0 ELSE 1)
ServerTypeOK ==
  /\ CleanUpTypeOK /\ AudioTypeOK
  /\ process \in {"running", "dead"} /\ link \in {"none", "up", "closed", "shut"}
  /\ main \in {"start", "open", "meta", "starting", "looper", "interrupt", "stop",
              "shutdown", "join cleanup", "join", "exit"}
  /\ thread \in [{"control", "video"} -> {"off", "running", "ended"}]
  /\ {stopped, quit, joined, completion.fatal} \subseteq BOOLEAN
  /\ main \in {"starting", "looper"} => completion.running = Processing

(* What scrcpy changed on the device is given back, whatever ends the       *)
(* server and whenever: see SettingsRestored and DisplayRestored.  The      *)
(* types are checked with it.                                               *)
DeviceRestored ==
  ServerTypeOK /\ SettingsRestored(joined) /\ DisplayRestored

(* A fatal error of a processor, or the client that leaves once connected,  *)
(* ends the process: the looper quits, every thread is joined, whichever    *)
(* threads wait, and no join waits for ever.                                *)
ServerEnds ==
  (completion.fatal \/ (link = "closed" /\ main # "open")) ~> process = "dead"
=============================================================================
