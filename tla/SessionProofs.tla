----------------------------- MODULE SessionProofs -----------------------------
(***************************************************************************)
(* Proofs about a session on both sides.                                   *)
(*                                                                         *)
(* ServerMain, for any options, settings and number of requests about the  *)
(* power: what scrcpy changed on the device is given back whatever ends    *)
(* the server, and the stream of the audio starts with one answer.         *)
(*                                                                         *)
(* Options, for any command line, any device and both ways to open the     *)
(* tunnel: the server gets the options of the client, every stream has a   *)
(* sink, and the input modes are ones that the session can serve.          *)
(***************************************************************************)
EXTENDS Options, ServerMain, FiniteSetTheorems, SequenceTheorems, TLAPS

-------------------------------------------------------------------------------
(* ServerMain: the inductive invariant.                                    *)

(* The types that ServerTypeOK does not give. *)
TypeInv ==
  /\ ServerTypeOK
  /\ cfg \in Configs
  /\ completion \in [running : Int, fatal : BOOLEAN]
  /\ toStart \in Seq({"control", "audio", "video"})
  /\ pending \in {{}, {TRUE}, {FALSE}} /\ writing \in {{}, {TRUE}, {FALSE}}

(* A processor waits to be started once, and did not start. *)
StartInv ==
  /\ \A i \in 1 .. Len(toStart) :
       /\ toStart[i] = "audio" => audio = "off"
       /\ toStart[i] # "audio" => thread[toStart[i]] = "off"
       /\ \A j \in 1 .. Len(toStart) : i # j => toStart[i] # toStart[j]
  /\ main \in {"start", "open", "meta"} =>
       thread = [p \in {"control", "video"} |-> "off"] /\ audio = "off"

(* The header of the stream of the audio, by where its threads are. *)
AudioInv ==
  /\ Len(header) <= 1
  /\ audio \in {"off", "begin", "codec", "capture", "launch", "header"} =>
       header = <<>> /\ output = "off"
  /\ audio \in {"wait", "join"} =>
       \/ output = "running" /\ header = <<>>
       \/ output = "writing" /\ Len(header) = 1
       \/ output = "ended" /\ (link = "up" => Len(header) = 1)
  /\ audio \in {"stream", "terminating", "ended"} => output \in {"off", "ended"}
  /\ audio = "stream" => Len(header) = 1
  /\ audio \in {"terminating", "ended"} => (link = "up" => Len(header) = 1)

(* What the cleanup remembers is what scrcpy changed. *)
SettingsInv ==
  /\ \A s \in remembered : userValue[s] # Wanted
  /\ child # "done" => setting = [s \in cfg.settings |-> IF s \in remembered THEN Wanted
                                                         ELSE userValue[s]]
  /\ child = "done" => setting = userValue /\ ~Alive

(* Where the cleanup thread and its child are. *)
CleanerInv ==
  /\ main = "start" => cleaner = "off"
  /\ cleaner = "off" => remembered = {}
  /\ cleaner \in {"off", "putting"} => child = "none"
  /\ cleaner = "ended" /\ child = "none" => spawnFailed
  /\ cleaner # "off" \/ child # "none" => cfg.cleanup
  /\ cleaner \in {"looping", "writing"} => child # "none"
  /\ joined => cleaner \in {"off", "ended"} /\ main \in {"join", "exit"}
  /\ cleaner # "writing" => writing = {}
  /\ writing # {} => child # "none"

(* The last request about the display that succeeded, wherever it is: to   *)
(* be written, in the pipe, or read.                                       *)
Asked ==
  IF pending # {} THEN TRUE \in pending
  ELSE IF writing # {} THEN TRUE \in writing
  ELSE IF pipe # <<>> THEN pipe[Len(pipe)]
  ELSE restorePower

(* A panel without power is one that the child will be told about.         *)
PowerInv ==
  /\ cfg.cleanup /\ child # "done" => /\ keepOff => Asked
                                      /\ ~powered => Asked \/ lateOff
  /\ child = "done" => DisplayRestored

SessionInv ==
  /\ TypeInv /\ StartInv /\ AudioInv /\ SettingsInv /\ CleanerInv /\ PowerInv

-------------------------------------------------------------------------------
(* Counting the processors.                                                *)

Threads == {"control", "video"}
Runs(f, p) == IF f[p] = "running" THEN 1 ELSE 0

LEMMA RunningThreads ==
  ASSUME NEW f, DOMAIN f = Threads
  PROVE  Cardinality({p \in DOMAIN f : f[p] = "running"}) = Runs(f, "control") + Runs(f, "video")
<1>. DEFINE R == {p \in DOMAIN f : f[p] = "running"}
<1>1. CASE f["control"] = "running" /\ f["video"] = "running"
  <2>1. R = {"control"} \cup {"video"} /\ "video" \notin {"control"}
    BY <1>1 DEF Threads
  <2>2. IsFiniteSet({"control"}) /\ Cardinality({"control"}) = 1
    BY FS_Singleton
  <2>3. Cardinality({"control"} \cup {"video"}) = 1 + 1
    BY <2>1, <2>2, FS_AddElement
  <2>. QED
    BY <1>1, <2>1, <2>3 DEF Runs
<1>2. CASE f["control"] = "running" /\ f["video"] # "running"
  <2>1. R = {"control"}
    BY <1>2 DEF Threads
  <2>. QED
    BY <1>2, <2>1, FS_Singleton DEF Runs
<1>3. CASE f["control"] # "running" /\ f["video"] = "running"
  <2>1. R = {"video"}
    BY <1>3 DEF Threads
  <2>. QED
    BY <1>3, <2>1, FS_Singleton DEF Runs
<1>4. CASE f["control"] # "running" /\ f["video"] # "running"
  <2>1. R = {}
    BY <1>4 DEF Threads
  <2>. QED
    BY <1>4, <2>1, FS_EmptySet DEF Runs
<1>. QED
  BY <1>1, <1>2, <1>3, <1>4

(* The processors that are not yet ended, and those still to start.        *)
AudioRuns == IF audio \in {"off", "ended"} THEN 0 ELSE 1
Counted ==
  main \in {"starting", "looper"} =>
    completion.running = Len(toStart) + (Runs(thread, "control") + Runs(thread, "video"))
                           + AudioRuns
MainTypes ==
  /\ process \in {"running", "dead"} /\ link \in {"none", "up", "closed", "shut"}
  /\ main \in {"start", "open", "meta", "starting", "looper", "interrupt", "stop",
              "shutdown", "join cleanup", "join", "exit"}
  /\ thread \in [Threads -> {"off", "running", "ended"}]
  /\ {stopped, quit, joined} \subseteq BOOLEAN
  /\ cfg \in Configs
  /\ completion \in [running : Int, fatal : BOOLEAN]
  /\ toStart \in Seq({"control", "audio", "video"})
CleanUpTypes ==
  /\ CleanUpTypeOK
  /\ pending \in {{}, {TRUE}, {FALSE}} /\ writing \in {{}, {TRUE}, {FALSE}}

LEMMA Types == TypeInv <=> CleanUpTypes /\ AudioTypeOK /\ MainTypes /\ Counted
<1>1. ASSUME MainTypes PROVE Processing = Len(toStart) + (Runs(thread, "control")
                                 + Runs(thread, "video")) + AudioRuns
  <2>1. DOMAIN thread = Threads
    BY <1>1 DEF MainTypes
  <2>. QED
    BY <2>1, RunningThreads DEF Processing, AudioRuns
<1>2. TypeInv => MainTypes
  BY DEF TypeInv, ServerTypeOK, MainTypes, Threads
<1>3. MainTypes => (Counted <=> (main \in {"starting", "looper"} =>
                                   completion.running = Processing))
  BY <1>1 DEF Counted
<1>4. MainTypes => completion.fatal \in BOOLEAN
  BY DEF MainTypes
<1>. QED
  BY <1>2, <1>3, <1>4 DEF TypeInv, ServerTypeOK, CleanUpTypes, MainTypes, Threads
(* The parts of SessionInv, by the component whose variables they are      *)
(* about.                                                                  *)
CleanUpPart == CleanUpTypes /\ SettingsInv /\ CleanerInv /\ PowerInv
AudioPart == AudioTypeOK /\ AudioInv
MainPart == MainTypes /\ Counted /\ StartInv

LEMMA Parts == SessionInv <=> CleanUpPart /\ AudioPart /\ MainPart
  BY Types DEF SessionInv, CleanUpPart, AudioPart, MainPart

LEMMA PartsNext == SessionInv' <=> CleanUpPart' /\ AudioPart' /\ MainPart'
  BY Parts, PTL

-------------------------------------------------------------------------------
(* What leaves a component alone.                                          *)

LEMMA CleanUpIdle ==
  ASSUME CleanUpPart, UNCHANGED <<cfg, cleanUpVars>>,
         main' = "start" => main = "start",
         joined' => cleaner \in {"off", "ended"} /\ main' \in {"join", "exit"},
         Alive' => Alive
  PROVE  CleanUpPart'
<1>. USE DEF CleanUpPart, cleanUpVars, deviceVars, cleanerVars, childVars, powerVars
<1>1. CleanUpTypes'
  BY DEF CleanUpTypes, CleanUpTypeOK
<1>2. SettingsInv'
  BY DEF SettingsInv
<1>3. CleanerInv'
  BY DEF CleanerInv
<1>4. Asked' = Asked /\ (DisplayRestored' <=> DisplayRestored)
  BY DEF Asked, DisplayRestored
<1>5. PowerInv'
  BY <1>4 DEF PowerInv
<1>. QED
  BY <1>1, <1>2, <1>3, <1>5

LEMMA AudioIdle ==
  ASSUME AudioPart, UNCHANGED <<audio, audioFatal, input, output, header>>,
         ended' \in BOOLEAN, audioStopped' \in BOOLEAN,
         audio # "off" => (link' = "up" => link = "up")
  PROVE  AudioPart'
<1>1. AudioTypeOK'
  BY DEF AudioPart, AudioTypeOK
<1>2. AudioInv'
  BY DEF AudioPart, AudioInv
<1>. QED
  BY <1>1, <1>2 DEF AudioPart

LEMMA MainIdle ==
  ASSUME MainPart, UNCHANGED <<cfg, process, link, mainVars>>,
         AudioRuns' = AudioRuns, audio' = "off" <=> audio = "off"
  PROVE  MainPart'
<1>. USE DEF MainPart, mainVars
<1>1. MainTypes'
  BY DEF MainTypes
<1>2. Counted'
  BY DEF Counted, Runs
<1>3. StartInv'
  BY DEF StartInv
<1>. QED
  BY <1>1, <1>2, <1>3

-------------------------------------------------------------------------------
(* The audio.                                                              *)

Codes == {"codec", "disabled", "error"}
Silent == header = <<>> /\ output = "off"

LEMMA Answers ==
  /\ <<>> \in Seq(Codes) /\ Len(<<>>) = 0
  /\ \A code \in Codes : <<code>> \in Seq(Codes) /\ Len(<<code>>) = 1
OBVIOUS

LEMMA DisableAnswers ==
  ASSUME AudioPart, Silent, NEW code \in Codes, NEW fatal \in BOOLEAN,
         Disable(code, fatal, TRUE) \/ Disable(code, fatal, FALSE),
         UNCHANGED <<link, input, output, ended, audioStopped>>
  PROVE  AudioPart' /\ audio' = "terminating"
<1>. USE DEF AudioPart, Silent, Disable
<1>1. \/ link = "up" /\ header' = Append(<<>>, code) /\ audioFatal' = fatal
      \/ link # "up" /\ header' = header /\ audioFatal' \in BOOLEAN
  OBVIOUS
<1>2. Append(<<>>, code) = <<code>>
  OBVIOUS
<1>3. header' \in Seq(Codes) /\ Len(header') <= 1 /\ (link = "up" => Len(header') = 1)
  <2>1. CASE link = "up"
    <3>1. header' = <<code>>
      BY <1>1, <1>2, <2>1
    <3>2. header' \in Seq(Codes) /\ Len(header') = 1
      BY <3>1, Answers
    <3>. QED
      BY <3>2
  <2>2. CASE link # "up"
    <3>1. header' = <<>>
      BY <1>1, <2>2
    <3>2. header' \in Seq(Codes) /\ Len(header') = 0
      BY <3>1, Answers
    <3>. QED
      BY <2>2, <3>2
  <2>. QED
    BY <2>1, <2>2
<1>4. AudioTypeOK'
  BY <1>1, <1>3 DEF AudioTypeOK, Codes
<1>5. AudioInv'
  BY <1>3 DEF AudioInv
<1>. QED
  BY <1>4, <1>5

LEMMA HeaderAnswers ==
  ASSUME header = <<>>
  PROVE  Append(header, "codec") \in Seq(Codes) /\ Len(Append(header, "codec")) = 1
<1>1. Append(header, "codec") = <<"codec">>
  OBVIOUS
<1>. QED
  BY <1>1 DEF Codes

LEMMA AudioStepKeeps ==
  ASSUME AudioPart, AudioStep, UNCHANGED link
  PROVE  /\ AudioPart'
         /\ audio' \in {"off", "ended"} <=> audio \in {"off", "ended"}
         /\ audio' = "off" <=> audio = "off"
<1>. USE DEF HelpersUnchanged, FlagsUnchanged, ThreadsUnchanged, At
<1>0. audio \in {"begin", "codec", "capture", "launch"} => Silent
  BY DEF AudioPart, AudioInv, Silent
<1>1. CASE Begin
  <2>1. Silent
    BY <1>0, <1>1 DEF Begin
  <2>2. \/ audio' \in {"codec", "capture"} /\ UNCHANGED <<audioFatal, header>>
        \/ \E code \in Codes, fatal \in BOOLEAN :
             Disable(code, fatal, TRUE) \/ Disable(code, fatal, FALSE)
    BY <1>1 DEF Begin, Codes
  <2>3. CASE audio' \in {"codec", "capture"} /\ UNCHANGED <<audioFatal, header>>
    BY <1>1, <2>1, <2>3 DEF AudioPart, AudioTypeOK, AudioInv, Silent, Begin
  <2>4. CASE \E code \in Codes, fatal \in BOOLEAN :
               Disable(code, fatal, TRUE) \/ Disable(code, fatal, FALSE)
    BY <1>1, <2>1, <2>4, DisableAnswers DEF Begin
  <2>. QED
    BY <2>2, <2>3, <2>4
<1>2. CASE CreateCodec
  <2>1. Silent
    BY <1>0, <1>2 DEF CreateCodec
  <2>2. \/ audio' = "capture" /\ UNCHANGED <<audioFatal, header>>
        \/ \E code \in Codes, fatal \in BOOLEAN :
             Disable(code, fatal, TRUE) \/ Disable(code, fatal, FALSE)
    BY <1>2 DEF CreateCodec, Codes
  <2>3. CASE audio' = "capture" /\ UNCHANGED <<audioFatal, header>>
    BY <1>2, <2>1, <2>3 DEF AudioPart, AudioTypeOK, AudioInv, Silent, CreateCodec
  <2>4. CASE \E code \in Codes, fatal \in BOOLEAN :
               Disable(code, fatal, TRUE) \/ Disable(code, fatal, FALSE)
    BY <1>2, <2>1, <2>4, DisableAnswers DEF CreateCodec
  <2>. QED
    BY <2>2, <2>3, <2>4
<1>3. CASE StartCapture
  <2>1. Silent
    BY <1>0, <1>3 DEF StartCapture
  <2>2. \/ audio' \in {"launch", "header"} /\ UNCHANGED <<audioFatal, header>>
        \/ \E code \in Codes, fatal \in BOOLEAN :
             Disable(code, fatal, TRUE) \/ Disable(code, fatal, FALSE)
    BY <1>3 DEF StartCapture, Codes
  <2>3. CASE audio' \in {"launch", "header"} /\ UNCHANGED <<audioFatal, header>>
    BY <1>3, <2>1, <2>3 DEF AudioPart, AudioTypeOK, AudioInv, Silent, StartCapture
  <2>4. CASE \E code \in Codes, fatal \in BOOLEAN :
               Disable(code, fatal, TRUE) \/ Disable(code, fatal, FALSE)
    BY <1>3, <2>1, <2>4, DisableAnswers DEF StartCapture
  <2>. QED
    BY <2>2, <2>3, <2>4
<1>4. CASE Launch
  <2>1. Silent
    BY <1>0, <1>4 DEF Launch
  <2>2. PICK ok \in BOOLEAN :
          /\ IF ok THEN audio' = "wait" /\ UNCHANGED <<audioFatal, header>>
             ELSE Disable("error", FALSE, TRUE)
          /\ input' = ThreadIf(ok) /\ output' = ThreadIf(ok)
    BY <1>4 DEF Launch
  <2>3. CASE ok
    BY <1>4, <2>1, <2>2, <2>3 DEF AudioPart, AudioTypeOK, AudioInv, Silent, Launch,
      ThreadIf
  <2>4. CASE ~ok
    <3>1. /\ audio' = "terminating" /\ input' = "off" /\ output' = "off"
          /\ audioFatal' \in BOOLEAN
          /\ header' = IF link = "up" THEN Append(header, "error") ELSE header
      BY <2>2, <2>4 DEF ThreadIf, Disable
    <3>2. header' = IF link = "up" THEN <<"error">> ELSE <<>>
      BY <2>1, <3>1 DEF Silent
    <3>3. header' \in Seq(Codes) /\ Len(header') <= 1 /\ (link = "up" => Len(header') = 1)
      <4>1. "error" \in Codes
        BY DEF Codes
      <4>. QED
        BY <3>2, <4>1, Answers
    <3>. QED
      BY <1>4, <3>1, <3>3 DEF AudioPart, AudioTypeOK, AudioInv, Launch, Codes
  <2>. QED
    BY <2>3, <2>4
<1>5. CASE WaitEnded
  BY <1>5 DEF AudioPart, AudioTypeOK, AudioInv, WaitEnded
<1>6. CASE JoinThreads
  BY <1>6 DEF AudioPart, AudioTypeOK, AudioInv, JoinThreads
<1>7. CASE InputEnds
  BY <1>7 DEF AudioPart, AudioTypeOK, AudioInv, InputEnds
<1>8. CASE CodecError
  BY <1>8 DEF AudioPart, AudioTypeOK, AudioInv, CodecError
<1>9. CASE WriteHeader
  <2>1. header = <<>> /\ audio \in {"wait", "join"}
    BY <1>9 DEF AudioPart, AudioInv, AudioTypeOK, WriteHeader
  <2>. QED
    BY <1>9, <2>1, HeaderAnswers DEF AudioPart, AudioTypeOK, AudioInv, WriteHeader,
      Codes
<1>10. CASE OutputEnds
  BY <1>10 DEF AudioPart, AudioTypeOK, AudioInv, OutputEnds
<1>11. CASE RawHeader
  <2>1. header = <<>> /\ output = "off" /\ audio = "header"
    BY <1>11 DEF AudioPart, AudioInv, RawHeader
  <2>2. CASE link = "up"
    <3>1. /\ header' \in Seq(Codes) /\ Len(header') = 1 /\ audio' = "stream"
          /\ UNCHANGED <<audioFatal, input, output, ended, audioStopped>>
      BY <1>11, <2>1, <2>2, HeaderAnswers DEF RawHeader
    <3>. QED
      BY <2>1, <3>1 DEF AudioPart, AudioTypeOK, AudioInv, Codes
  <2>3. CASE link # "up"
    BY <1>11, <2>1, <2>3 DEF AudioPart, AudioTypeOK, AudioInv, RawHeader
  <2>. QED
    BY <2>2, <2>3
<1>12. CASE RawEnds
  BY <1>12 DEF AudioPart, AudioTypeOK, AudioInv, RawEnds
<1>. QED
  BY <1>1, <1>2, <1>3, <1>4, <1>5, <1>6, <1>7, <1>8, <1>9, <1>10, <1>11, <1>12 DEF
    AudioStep

LEMMA AudioEndsKeeps ==
  ASSUME AudioPart, TerminateAudio, UNCHANGED link
  PROVE  AudioPart' /\ audio = "terminating" /\ audio' = "ended"
BY DEF AudioPart, AudioTypeOK, AudioInv, TerminateAudio, At, HelpersUnchanged,
  FlagsUnchanged

-------------------------------------------------------------------------------
(* The cleanup.                                                            *)

LEMMA AtMostOne == \A S \in {{}, {TRUE}, {FALSE}} : Cardinality(S) <= 1
<1>1. Cardinality({}) = 0 /\ Cardinality({TRUE}) = 1 /\ Cardinality({FALSE}) = 1
  BY FS_EmptySet, FS_Singleton
<1>2. ASSUME NEW S \in {{}, {TRUE}, {FALSE}} PROVE Cardinality(S) <= 1
  <2>1. S = {} \/ S = {TRUE} \/ S = {FALSE}
    OBVIOUS
  <2>2. Cardinality(S) = 0 \/ Cardinality(S) = 1
    BY <1>1, <2>1
  <2>. QED
    BY <2>2
<1>. QED
  BY <1>2

LEMMA PutKeeps ==
  ASSUME CleanUpPart, NEW s, UNCHANGED <<cfg, process, main, joined>>, Put(s)
  PROVE  CleanUpPart'
<1>. USE DEF CleanUpPart, Put, deviceVars, cleanerVars, childVars, powerVars, Alive
<1>1. CleanUpTypes'
  BY AtMostOne DEF CleanUpTypes, CleanUpTypeOK
<1>2. SettingsInv'
  BY DEF SettingsInv, CleanUpTypes, CleanUpTypeOK
<1>3. CleanerInv'
  BY CleanUpPart DEF CleanerInv
<1>4. PowerInv'
  BY CleanUpPart DEF PowerInv, Asked, DisplayRestored, CleanerInv, SettingsInv
<1>. QED
  BY <1>1, <1>2, <1>3, <1>4

LEMMA StartChildKeeps ==
  ASSUME CleanUpPart, UNCHANGED <<cfg, process, main, joined>>, StartChild
  PROVE  CleanUpPart'
<1>. USE DEF CleanUpPart, StartChild, deviceVars, cleanerVars, childVars, powerVars,
  Alive
<1>1. CleanUpTypes'
  BY AtMostOne DEF CleanUpTypes, CleanUpTypeOK
<1>2. SettingsInv'
  BY DEF SettingsInv, CleanUpTypes, CleanUpTypeOK
<1>3. CleanerInv'
  BY CleanUpPart DEF CleanerInv
<1>4. PowerInv'
  BY CleanUpPart DEF PowerInv, Asked, DisplayRestored, CleanerInv, SettingsInv
<1>. QED
  BY <1>1, <1>2, <1>3, <1>4

LEMMA TakeChangeKeeps ==
  ASSUME CleanUpPart, UNCHANGED <<cfg, process, main, joined>>, TakeChange
  PROVE  CleanUpPart'
<1>. USE DEF CleanUpPart, TakeChange, deviceVars, cleanerVars, childVars, powerVars,
  Alive
<1>1. CleanUpTypes'
  BY AtMostOne DEF CleanUpTypes, CleanUpTypeOK
<1>2. SettingsInv'
  BY DEF SettingsInv, CleanUpTypes, CleanUpTypeOK
<1>3. CleanerInv'
  BY CleanUpPart DEF CleanerInv
<1>4. PowerInv'
  BY CleanUpPart DEF PowerInv, Asked, DisplayRestored, CleanerInv, SettingsInv
<1>. QED
  BY <1>1, <1>2, <1>3, <1>4

LEMMA WriteChangeKeeps ==
  ASSUME CleanUpPart, UNCHANGED <<cfg, process, main, joined>>, WriteChange
  PROVE  CleanUpPart'
<1>. USE DEF CleanUpPart, WriteChange, deviceVars, cleanerVars, childVars,
  powerVars, Alive
<1>0. \E b \in BOOLEAN : /\ writing = {b} /\ pipe' = Append(pipe, b) /\ pipe' \in Seq(BOOLEAN)
                        /\ pipe' # <<>> /\ pipe'[Len(pipe')] = b
  <2>1. PICK b \in BOOLEAN : writing = {b} /\ pipe' = Append(pipe, b)
    BY DEF CleanUpTypes
  <2>2. pipe \in Seq(BOOLEAN)
    BY DEF CleanUpTypes, CleanUpTypeOK
  <2>. QED
    BY <2>1, <2>2
<1>1. CleanUpTypes'
  BY <1>0, AtMostOne DEF CleanUpTypes, CleanUpTypeOK
<1>2. SettingsInv'
  BY DEF SettingsInv, CleanUpTypes, CleanUpTypeOK
<1>3. CleanerInv'
  BY <1>0, CleanUpPart DEF CleanerInv
<1>4. PowerInv'
  BY <1>0, CleanUpPart DEF PowerInv, Asked, DisplayRestored, CleanerInv, SettingsInv
<1>. QED
  BY <1>1, <1>2, <1>3, <1>4

LEMMA ReadChangeKeeps ==
  ASSUME CleanUpPart, UNCHANGED <<cfg, process, main, joined>>, ReadChange
  PROVE  CleanUpPart'
<1>. USE DEF CleanUpPart, ReadChange, deviceVars, cleanerVars, childVars, powerVars,
  Alive
<1>0. /\ Head(pipe) \in BOOLEAN /\ Tail(pipe) \in Seq(BOOLEAN)
      /\ Tail(pipe) = <<>> => Head(pipe) = pipe[Len(pipe)]
      /\ Tail(pipe) # <<>> => Tail(pipe)[Len(Tail(pipe))] = pipe[Len(pipe)]
  <2>1. pipe \in Seq(BOOLEAN) /\ pipe # <<>>
    BY DEF CleanUpTypes, CleanUpTypeOK
  <2>2. /\ Head(pipe) \in BOOLEAN /\ Tail(pipe) \in Seq(BOOLEAN)
        /\ Len(Tail(pipe)) = Len(pipe) - 1 /\ Len(pipe) \in Nat \ {0}
        /\ Head(pipe) = pipe[1] /\ \A i \in 1 .. Len(Tail(pipe)) : Tail(pipe)[i] = pipe[i + 1]
    BY <2>1, HeadTailProperties, EmptySeq, LenProperties
  <2>3. CASE Tail(pipe) = <<>>
    <3>0. Len(Tail(pipe)) = 0
      BY <2>2, <2>3, EmptySeq
    <3>1. Len(pipe) = 1
      BY <2>2, <3>0
    <3>. QED
      BY <2>2, <2>3, <3>1
  <2>4. CASE Tail(pipe) # <<>>
    <3>1. Len(Tail(pipe)) \in 1 .. Len(Tail(pipe))
      BY <2>2, <2>4, EmptySeq, LenProperties
    <3>2. Tail(pipe)[Len(Tail(pipe))] = pipe[Len(Tail(pipe)) + 1]
      BY <2>2, <3>1
    <3>3. Len(Tail(pipe)) + 1 = Len(pipe)
      BY <2>2
    <3>. QED
      BY <2>2, <2>4, <3>2, <3>3
  <2>. QED
    BY <2>3, <2>4
<1>1. CleanUpTypes'
  BY <1>0, AtMostOne DEF CleanUpTypes, CleanUpTypeOK
<1>2. SettingsInv'
  BY DEF SettingsInv, CleanUpTypes, CleanUpTypeOK
<1>3. CleanerInv'
  BY <1>0, CleanUpPart DEF CleanerInv
<1>4. PowerInv'
  BY <1>0, CleanUpPart DEF PowerInv, Asked, DisplayRestored, CleanerInv, SettingsInv
<1>. QED
  BY <1>1, <1>2, <1>3, <1>4

LEMMA RestoreKeeps ==
  ASSUME CleanUpPart, UNCHANGED <<cfg, process, main, joined>>, Restore
  PROVE  CleanUpPart'
<1>. USE DEF CleanUpPart, Restore, deviceVars, cleanerVars, childVars, powerVars, Alive
<1>1. CleanUpTypes'
  BY AtMostOne DEF CleanUpTypes, CleanUpTypeOK
<1>2. SettingsInv'
  BY DEF SettingsInv, CleanUpTypes, CleanUpTypeOK
<1>3. CleanerInv'
  BY CleanUpPart DEF CleanerInv
<1>4. PowerInv'
  BY CleanUpPart DEF PowerInv, Asked, DisplayRestored, CleanerInv, SettingsInv
<1>. QED
  BY <1>1, <1>2, <1>3, <1>4

LEMMA SetDisplayPowerKeeps ==
  ASSUME CleanUpPart, cfg.requests \in Nat, NEW on \in BOOLEAN,
         UNCHANGED <<cfg, process, main, joined>>, Alive, SetDisplayPower(on)
  PROVE  CleanUpPart'
<1>. USE DEF CleanUpPart, SetDisplayPower, deviceVars, cleanerVars, childVars,
  powerVars, Alive, Request, MustRestore
<1>0. /\ requests \in Nat /\ scheduled \in Nat /\ scheduled <= requests
      /\ requests <= cfg.requests
  BY DEF CleanUpTypes, CleanUpTypeOK
<1>a. requests' \in 0 .. cfg.requests /\ scheduled' \in 0 .. requests'
  BY <1>0
<1>b. \/ /\ powered' = on /\ keepOff' = ~on /\ lateOff' = FALSE
         /\ pending' = IF cfg.cleanup THEN {~on} ELSE pending
      \/ UNCHANGED <<powered, keepOff, pending, lateOff>>
  OBVIOUS
<1>c. pending' \in {{}, {TRUE}, {FALSE}}
  BY <1>b DEF CleanUpTypes
<1>1. CleanUpTypes'
  BY <1>a, <1>b, <1>c, AtMostOne DEF CleanUpTypes, CleanUpTypeOK
<1>2. SettingsInv'
  BY DEF SettingsInv, CleanUpTypes, CleanUpTypeOK
<1>3. CleanerInv'
  BY <1>a, <1>b, <1>c, CleanUpPart DEF CleanerInv
<1>4. PowerInv'
  <2>1. CASE UNCHANGED <<powered, keepOff, pending, lateOff>>
    <3>1. Asked' = Asked
      BY <2>1 DEF Asked
    <3>. QED
      BY <2>1, <3>1 DEF PowerInv, SettingsInv, DisplayRestored
  <2>2. CASE powered' = on /\ keepOff' = ~on /\ lateOff' = FALSE
             /\ pending' = IF cfg.cleanup THEN {~on} ELSE pending
    <3>1. child # "done"
      BY DEF SettingsInv
    <3>2. cfg.cleanup => pending' = {~on}
      BY <2>2
    <3>3. cfg.cleanup => (Asked' <=> ~on)
      BY <3>2 DEF Asked
    <3>. QED
      BY <2>2, <3>1, <3>3 DEF PowerInv
  <2>. QED
    BY <1>b, <2>1, <2>2
<1>. QED
  BY <1>1, <1>2, <1>3, <1>4

LEMMA PowerKeyKeeps ==
  ASSUME CleanUpPart, cfg.requests \in Nat,
         UNCHANGED <<cfg, process, main, joined>>, Alive, PowerKey
  PROVE  CleanUpPart'
<1>. USE DEF CleanUpPart, PowerKey, deviceVars, cleanerVars, childVars, powerVars,
  Alive, Request
<1>0. /\ requests \in Nat /\ scheduled \in Nat /\ scheduled <= requests
      /\ requests <= cfg.requests
  BY DEF CleanUpTypes, CleanUpTypeOK
<1>a. requests' \in 0 .. cfg.requests /\ scheduled' \in 0 .. requests'
  <2>1. requests' = requests + 1 /\ scheduled' \in {scheduled, scheduled + 1}
    OBVIOUS
  <2>. QED
    BY <1>0, <2>1
<1>1. CleanUpTypes'
  BY <1>a, AtMostOne DEF CleanUpTypes, CleanUpTypeOK
<1>2. SettingsInv'
  BY DEF SettingsInv, CleanUpTypes, CleanUpTypeOK
<1>3. CleanerInv'
  BY <1>a, CleanUpPart DEF CleanerInv
<1>4. PowerInv'
  BY <1>a, CleanUpPart DEF PowerInv, Asked, DisplayRestored, CleanerInv, SettingsInv
<1>. QED
  BY <1>1, <1>2, <1>3, <1>4

LEMMA ForceDisplayOffKeeps ==
  ASSUME CleanUpPart, cfg.requests \in Nat,
         UNCHANGED <<cfg, process, main, joined>>, Alive, ForceDisplayOff
  PROVE  CleanUpPart'
<1>. USE DEF CleanUpPart, ForceDisplayOff, deviceVars, cleanerVars, childVars,
  powerVars, Alive
<1>0. /\ requests \in Nat /\ scheduled \in Nat /\ scheduled <= requests
      /\ requests <= cfg.requests
  BY DEF CleanUpTypes, CleanUpTypeOK
<1>a. requests' = requests /\ requests \in 0 .. cfg.requests /\ scheduled' \in 0 .. requests
  BY <1>0
<1>1. CleanUpTypes'
  BY <1>a, AtMostOne DEF CleanUpTypes, CleanUpTypeOK
<1>2. SettingsInv'
  BY DEF SettingsInv, CleanUpTypes, CleanUpTypeOK
<1>3. CleanerInv'
  BY <1>a, CleanUpPart DEF CleanerInv
<1>4. PowerInv'
  BY <1>a, CleanUpPart DEF PowerInv, Asked, DisplayRestored, CleanerInv, SettingsInv
<1>. QED
  BY <1>1, <1>2, <1>3, <1>4

LEMMA PowerButtonKeeps ==
  ASSUME CleanUpPart, UNCHANGED <<cfg, process, main, joined>>, Alive, PowerButton
  PROVE  CleanUpPart'
<1>. USE DEF CleanUpPart, PowerButton, deviceVars, cleanerVars, childVars,
  powerVars, Alive
<1>1. CleanUpTypes'
  BY AtMostOne DEF CleanUpTypes, CleanUpTypeOK
<1>2. SettingsInv'
  BY DEF SettingsInv, CleanUpTypes, CleanUpTypeOK
<1>3. CleanerInv'
  BY CleanUpPart DEF CleanerInv
<1>4. PowerInv'
  BY CleanUpPart DEF PowerInv, Asked, DisplayRestored, CleanerInv, SettingsInv
<1>. QED
  BY <1>1, <1>2, <1>3, <1>4

LEMMA CleanUpStepKeeps ==
  ASSUME CleanUpPart, cfg.requests \in Nat, UNCHANGED <<cfg, process, main, joined>>,
         Cleaner \/ Child \/ (Alive /\ (Power \/ ForceDisplayOff \/ PowerButton))
  PROVE  CleanUpPart'
BY PutKeeps, StartChildKeeps, TakeChangeKeeps, WriteChangeKeeps, ReadChangeKeeps,
  RestoreKeeps,
   SetDisplayPowerKeeps, PowerKeyKeeps, ForceDisplayOffKeeps, PowerButtonKeeps
   DEF Cleaner, Child, Power, InjectPowerKey, TurnScreenOn

(* The thread of the cleanup is started, or interrupted.                   *)
LEMMA StartCleanUpKeeps ==
  ASSUME CleanUpPart, StartCleanUp
  PROVE  CleanUpPart'
<1>. USE DEF CleanUpPart, StartCleanUp, OtherUnchanged, deviceVars, childVars,
  powerVars, Alive,
             Goes
<1>1. CleanUpTypes'
  BY AtMostOne DEF CleanUpTypes, CleanUpTypeOK
<1>2. SettingsInv'
  BY DEF SettingsInv
<1>3. CleanerInv'
  BY DEF CleanerInv
<1>4. PowerInv'
  BY DEF PowerInv, Asked, DisplayRestored
<1>. QED
  BY <1>1, <1>2, <1>3, <1>4

LEMMA InterruptCleanUpKeeps ==
  ASSUME CleanUpPart, MainTypes, ConfigOK(cfg), InterruptCleanUp
  PROVE  CleanUpPart'
<1>. USE DEF CleanUpPart, InterruptCleanUp, Step, Goes, OtherUnchanged, deviceVars,
  childVars,
             powerVars, Alive
<1>1. CleanUpTypes'
  BY AtMostOne DEF CleanUpTypes, CleanUpTypeOK, ConfigOK
<1>2. SettingsInv'
  BY DEF SettingsInv
<1>3. CleanerInv'
  BY DEF CleanerInv
<1>4. PowerInv'
  BY DEF PowerInv, Asked, DisplayRestored
<1>. QED
  BY <1>1, <1>2, <1>3, <1>4

-------------------------------------------------------------------------------
(* The main thread.                                                        *)

Ending == {"interrupt", "stop", "shutdown", "join cleanup", "join", "exit"}

(* Most of its steps only move it, or change the link.                     *)
LEMMA MainMoves ==
  ASSUME MainPart, UNCHANGED <<cfg, toStart, thread, completion, quit, audio>>,
         process' \in {"running", "dead"}, link' \in {"none", "up", "closed", "shut"},
         stopped' \in BOOLEAN, joined' \in BOOLEAN,
         \/ main' = main
         \/ main = "start" /\ main' = "open"
         \/ main = "open" /\ main' = "meta"
         \/ main = "starting" /\ main' = "looper"
         \/ main' \in Ending
  PROVE  MainPart'
<1>. USE DEF MainPart, Ending
<1>1. MainTypes'
  BY DEF MainTypes
<1>2. Counted'
  BY DEF Counted, Runs, AudioRuns
<1>3. StartInv'
  BY DEF StartInv
<1>. QED
  BY <1>1, <1>2, <1>3

LEMMA SendDeviceMetaKeeps ==
  ASSUME MainPart, SendDeviceMeta
  PROVE  MainPart'
<1>. USE DEF MainPart, SendDeviceMeta, Goes
<1>0. /\ thread = [p \in {"control", "video"} |-> "off"] /\ audio = "off"
      /\ UNCHANGED <<cfg, toStart, thread, quit, audio, process, link, stopped, joined>>
  BY DEF StartInv, OtherUnchanged, audioVars
<1>1. MainTypes'
  <2>1. completion' = completion \/ completion' = [completion EXCEPT !.running = Len(toStart)]
    OBVIOUS
  <2>2. completion' \in [running : Int, fatal : BOOLEAN]
    <3>0. toStart \in Seq({"control", "audio", "video"})
      BY DEF MainTypes
    <3>1. completion \in [running : Int, fatal : BOOLEAN]
      BY DEF MainTypes
    <3>2. Len(toStart) \in Int
      BY <3>0, LenProperties
    <3>. QED
      BY <2>1, <3>1, <3>2
  <2>. QED
    BY <1>0, <2>2 DEF MainTypes
<1>2. Counted'
  <2>1. CASE main' = "starting"
    <3>1. completion'.running = Len(toStart) /\ Len(toStart) \in Nat
      BY <2>1 DEF MainTypes
    <3>2. Runs(thread', "control") = 0 /\ Runs(thread', "video") = 0 /\ AudioRuns' = 0
      BY <1>0 DEF Runs, AudioRuns
    <3>. QED
      BY <1>0, <3>1, <3>2 DEF Counted
  <2>2. CASE main' = "interrupt"
    BY <2>2 DEF Counted
  <2>. QED
    BY <2>1, <2>2
<1>3. StartInv'
  BY <1>0 DEF StartInv
<1>. QED
  BY <1>1, <1>2, <1>3

LEMMA StartProcessorKeeps ==
  ASSUME MainPart, AudioPart, StartProcessor
  PROVE  MainPart' /\ AudioPart'
<1>. USE DEF MainPart, StartProcessor, Goes
<1>. DEFINE first == Head(toStart)
<1>0. /\ main = "starting" /\ main' = "starting" /\ toStart' = Tail(toStart)
      /\ UNCHANGED <<cfg, quit, completion, process, link, stopped, joined>>
  BY DEF OtherUnchanged
<1>1. /\ toStart \in Seq({"control", "audio", "video"}) /\ Len(toStart) \in Nat \ {0}
      /\ first \in {"control", "audio", "video"} /\ first = toStart[1]
      /\ toStart' \in Seq({"control", "audio", "video"}) /\ Len(toStart') = Len(toStart) - 1
      /\ \A i \in 1 .. Len(toStart') : i + 1 \in 1 .. Len(toStart) /\ toStart'[i] = toStart[i + 1]
  <2>1. toStart \in Seq({"control", "audio", "video"}) /\ toStart # <<>>
    BY DEF MainTypes
  <2>2. Len(toStart) \in Nat \ {0} /\ first = toStart[1] /\ Len(toStart') = Len(toStart) - 1
    BY <1>0, <2>1, HeadTailProperties, EmptySeq, LenProperties
  <2>. QED
    BY <1>0, <2>1, <2>2, HeadTailProperties
<1>2. \A i \in 1 .. Len(toStart') : toStart'[i] # first
  <2>. SUFFICES ASSUME NEW i \in 1 .. Len(toStart') PROVE toStart'[i] # first
    OBVIOUS
  <2>1. i + 1 \in 1 .. Len(toStart) /\ 1 \in 1 .. Len(toStart) /\ i + 1 # 1
    BY <1>1
  <2>2. toStart[i + 1] # toStart[1]
    BY <2>1 DEF StartInv
  <2>. QED
    BY <1>1, <2>2
<1>3. \A i, j \in 1 .. Len(toStart') : i # j => toStart'[i] # toStart'[j]
  <2>. SUFFICES ASSUME NEW i \in 1 .. Len(toStart'), NEW j \in 1 .. Len(toStart'), i # j
                PROVE  toStart'[i] # toStart'[j]
    OBVIOUS
  <2>1. i + 1 \in 1 .. Len(toStart) /\ j + 1 \in 1 .. Len(toStart) /\ i + 1 # j + 1
    BY <1>1
  <2>2. toStart[i + 1] # toStart[j + 1]
    BY <2>1 DEF StartInv
  <2>. QED
    BY <1>1, <2>2
<1>4. \A i \in 1 .. Len(toStart') :
        /\ toStart'[i] = "audio" => audio = "off"
        /\ toStart'[i] # "audio" => thread[toStart'[i]] = "off"
  BY <1>1 DEF StartInv
<1>5. first = "audio" => audio = "off"
  BY <1>1 DEF StartInv
<1>6. first # "audio" => thread[first] = "off" /\ first \in Threads
  BY <1>1 DEF StartInv, Threads
<1>7. /\ thread \in [Threads -> {"off", "running", "ended"}]
      /\ completion.running = Len(toStart) + (Runs(thread, "control") + Runs(thread, "video"))
                                + AudioRuns
  BY <1>0 DEF MainTypes, Counted
<1>8. CASE first = "audio"
  <2>1. audio = "off" /\ audio' = "begin"
        /\ UNCHANGED <<thread, audioFatal, ended, audioStopped, input, output, header>>
    BY <1>5, <1>8 DEF StartAudio
  <2>2. AudioRuns = 0 /\ AudioRuns' = 1
    BY <2>1 DEF AudioRuns
  <2>3. Runs(thread, "control") \in Nat /\ Runs(thread, "video") \in Nat
    BY DEF Runs
  <2>4. Counted'
    BY <1>0, <1>1, <1>7, <2>1, <2>2, <2>3 DEF Counted
  <2>5. MainTypes'
    BY <1>0, <1>1, <2>1 DEF MainTypes
  <2>6. StartInv'
    BY <1>0, <1>2, <1>3, <1>4, <1>8, <2>1 DEF StartInv
  <2>7. AudioPart'
    BY <1>0, <2>1 DEF AudioPart, AudioTypeOK, AudioInv
  <2>. QED
    BY <2>4, <2>5, <2>6, <2>7
<1>9. CASE first # "audio"
  <2>1. thread' = [thread EXCEPT ![first] = "running"] /\ UNCHANGED audioVars
    BY <1>9
  <2>2. Runs(thread', "control") + Runs(thread', "video")
          = (Runs(thread, "control") + Runs(thread, "video")) + 1
    BY <1>6, <1>7, <1>9, <2>1 DEF Runs, Threads
  <2>3. Runs(thread, "control") \in Nat /\ Runs(thread, "video") \in Nat
        /\ AudioRuns' = AudioRuns /\ AudioRuns \in Nat
    BY <2>1 DEF Runs, AudioRuns, audioVars
  <2>4. Counted'
    BY <1>0, <1>1, <1>7, <2>2, <2>3 DEF Counted
  <2>5. MainTypes'
    BY <1>0, <1>1, <1>6, <1>9, <2>1 DEF MainTypes
  <2>6. \A i \in 1 .. Len(toStart') : toStart'[i] # "audio" => thread'[toStart'[i]] = "off"
    <3>. SUFFICES ASSUME NEW i \in 1 .. Len(toStart'), toStart'[i] # "audio"
                  PROVE  thread'[toStart'[i]] = "off"
      OBVIOUS
    <3>0. toStart'[i] \in {"control", "audio", "video"}
      BY <1>1
    <3>a. toStart'[i] = toStart[i + 1] /\ thread[toStart[i + 1]] = "off"
      <4>1. i + 1 \in 1 .. Len(toStart) /\ toStart'[i] = toStart[i + 1]
        BY <1>1
      <4>2. toStart[i + 1] # "audio"
        BY <4>1
      <4>. QED
        BY <4>1, <4>2 DEF StartInv
    <3>. HIDE DEF first
    <3>1. toStart'[i] \in Threads
      BY <3>0 DEF Threads
    <3>2. toStart'[i] # first
      BY <1>2
    <3>3. thread[toStart'[i]] = "off"
      BY <3>a DEF Threads
    <3>. QED
      BY <1>7, <2>1, <3>1, <3>2, <3>3
  <2>7. StartInv'
    BY <1>0, <1>3, <1>4, <2>1, <2>6 DEF StartInv, audioVars
  <2>8. AudioPart'
    BY <1>0, <2>1 DEF AudioPart, AudioTypeOK, AudioInv, audioVars
  <2>. QED
    BY <2>4, <2>5, <2>7, <2>8
<1>. QED
  BY <1>8, <1>9

LEMMA ThreadEndsKeeps ==
  ASSUME MainPart, NEW p \in Threads, ThreadEnds(p)
  PROVE  MainPart'
<1>. USE DEF MainPart, ThreadEnds
<1>0. /\ thread[p] = "running" /\ thread' = [thread EXCEPT ![p] = "ended"]
      /\ UNCHANGED <<cfg, process, link, main, toStart, stopped, joined, audio>>
      /\ completion' = [running |-> completion.running - 1, fatal |-> TRUE]
      /\ quit' \in BOOLEAN
  BY DEF AddCompleted, OtherUnchanged, audioVars, MainTypes
<1>1. /\ thread \in [Threads -> {"off", "running", "ended"}]
      /\ completion.running \in Int /\ toStart \in Seq({"control", "audio", "video"})
  BY DEF MainTypes
<1>2. Runs(thread', "control") + Runs(thread', "video")
        = (Runs(thread, "control") + Runs(thread, "video")) - 1
  BY <1>0, <1>1 DEF Runs, Threads
<1>3. Counted'
  <2>1. Runs(thread, "control") + Runs(thread, "video") \in Nat /\ Len(toStart) \in Nat
        /\ AudioRuns' = AudioRuns /\ AudioRuns \in Nat
    BY <1>0, <1>1 DEF Runs, AudioRuns
  <2>. QED
    BY <1>0, <1>1, <1>2, <2>1 DEF Counted
<1>4. MainTypes'
  <2>1. completion' \in [running : Int, fatal : BOOLEAN]
    BY <1>0, <1>1
  <2>2. thread' \in [Threads -> {"off", "running", "ended"}]
    BY <1>0, <1>1
  <2>. QED
    BY <1>0, <1>1, <2>1, <2>2 DEF MainTypes
<1>5. \A q \in Threads : thread[q] = "off" => thread'[q] = "off"
  BY <1>0, <1>1
<1>6. StartInv'
  <2>1. \A i \in 1 .. Len(toStart) : toStart[i] # "audio" => toStart[i] \in Threads
    BY <1>1 DEF Threads
  <2>2. main \notin {"start", "open", "meta"}
    BY <1>0 DEF StartInv, Threads
  <2>. QED
    BY <1>0, <1>5, <2>1, <2>2 DEF StartInv
<1>. QED
  BY <1>3, <1>4, <1>6

(* The thread of the audio ends, which is counted.                         *)
LEMMA AudioCounted ==
  ASSUME MainPart, audio = "terminating", audio' = "ended", AddCompleted(audioFatal),
         audioFatal \in BOOLEAN,
         UNCHANGED <<cfg, process, link, main, toStart, thread, stopped, joined>>
  PROVE  MainPart'
<1>. USE DEF MainPart
<1>1. AudioRuns = 1 /\ AudioRuns' = 0
  BY DEF AudioRuns
<1>2. /\ completion'.running = completion.running - 1 /\ completion.running \in Int
      /\ completion' \in [running : Int, fatal : BOOLEAN] /\ quit' \in BOOLEAN
  <2>1. completion \in [running : Int, fatal : BOOLEAN]
    BY DEF MainTypes
  <2>2. completion' = [running |-> completion.running - 1,
                       fatal |-> completion.fatal \/ audioFatal]
    BY DEF AddCompleted
  <2>3. (completion.fatal \/ audioFatal) \in BOOLEAN /\ completion.running - 1 \in Int
    BY <2>1
  <2>4. quit' \in BOOLEAN
    BY DEF AddCompleted
  <2>. QED
    BY <2>1, <2>2, <2>3, <2>4
<1>3. Len(toStart) \in Nat /\ Runs(thread, "control") + Runs(thread, "video") \in Nat
  <2>1. toStart \in Seq({"control", "audio", "video"})
    BY DEF MainTypes
  <2>2. Runs(thread, "control") \in 0 .. 1 /\ Runs(thread, "video") \in 0 .. 1
    BY DEF Runs
  <2>. QED
    BY <2>1, <2>2
<1>4. Counted'
  BY <1>1, <1>2, <1>3 DEF Counted
<1>5. MainTypes'
  BY <1>2 DEF MainTypes
<1>6. StartInv'
  BY DEF StartInv
<1>. QED
  BY <1>4, <1>5, <1>6

-------------------------------------------------------------------------------
(* The parts hold together, whatever ends the server and whenever.         *)
THEOREM SessionInvariant == Spec => []SessionInv
<1>1. Init => SessionInv
  <2>. SUFFICES ASSUME Init PROVE SessionInv
    OBVIOUS
  <2>. USE DEF Init, CleanUpInit, AudioInit
  <2>1. ConfigOK(cfg)
    BY ServerAssumption DEF ServerAssumption
  <2>2. CleanUpPart
    <3>1. CleanUpTypes
      <4>1. userValue \in [cfg.settings -> {0, Wanted}] /\ setting \in [cfg.settings -> {0, Wanted}]
        OBVIOUS
      <4>2. Cardinality(pending) <= 1 /\ Cardinality(writing) <= 1
        BY AtMostOne
      <4>3. pipe \in Seq(BOOLEAN)
        OBVIOUS
      <4>4. requests \in 0 .. cfg.requests /\ scheduled \in 0 .. requests
        BY <2>1 DEF ConfigOK
      <4>5. toPut \subseteq cfg.settings /\ remembered \subseteq cfg.settings \ toPut
        OBVIOUS
      <4>. HIDE DEF Init, CleanUpInit
      <4>6. {screenOn, powered, interrupted, spawnFailed, restorePower, keepOff, lateOff}
              \subseteq BOOLEAN
        BY DEF Init, CleanUpInit
      <4>. QED
        BY <4>1, <4>2, <4>3, <4>4, <4>5, <4>6 DEF CleanUpTypes, CleanUpTypeOK, Init,
          CleanUpInit
    <3>2. SettingsInv
      BY DEF SettingsInv
    <3>3. CleanerInv
      BY DEF CleanerInv
    <3>4. PowerInv
      BY DEF PowerInv
    <3>. QED
      BY <3>1, <3>2, <3>3, <3>4 DEF CleanUpPart
  <2>3. AudioPart
    <3>1. header = <<>> /\ header \in Seq(Codes) /\ Len(header) = 0
      BY Answers
    <3>2. AudioTypeOK
      BY <3>1 DEF AudioTypeOK, Codes
    <3>3. AudioInv
      BY <3>1 DEF AudioInv
    <3>. QED
      BY <3>2, <3>3 DEF AudioPart
  <2>4. MainPart
    <3>1. toStart \in Seq({"control", "audio", "video"})
      <4>. DEFINE P == {"control", "audio", "video"}
      <4>1. Wants("control") \in Seq(P) /\ Wants("audio") \in Seq(P) /\ Wants("video") \in Seq(P)
        <5>1. \A p \in P : <<p>> \in Seq(P) /\ <<>> \in Seq(P)
          OBVIOUS
        <5>. HIDE DEF Init
        <5>. QED
          BY <5>1 DEF Wants
      <4>. QED
        BY <4>1, ConcatProperties DEF Processors
    <3>2. \A i, j \in 1 .. Len(toStart) : i # j => toStart[i] # toStart[j]
      <4>1. CASE "control" \in cfg.processors
        BY <4>1 DEF Processors, Wants
      <4>2. CASE "control" \notin cfg.processors
        BY <4>2 DEF Processors, Wants
      <4>. QED
        BY <4>1, <4>2
    <3>3. MainTypes
      <4>1. completion \in [running : Int, fatal : BOOLEAN]
        OBVIOUS
      <4>2. thread \in [Threads -> {"off", "running", "ended"}]
        BY DEF Threads
      <4>. QED
        BY <3>1, <4>1, <4>2 DEF MainTypes
    <3>4. Counted
      BY DEF Counted
    <3>5. StartInv
      BY <3>1, <3>2 DEF StartInv
    <3>. QED
      BY <3>3, <3>4, <3>5 DEF MainPart
  <2>. QED
    BY <2>2, <2>3, <2>4, Parts
<1>2. SessionInv /\ [Next]_vars => SessionInv'
  <2>. SUFFICES ASSUME CleanUpPart, AudioPart, MainPart, [Next]_vars
                PROVE  CleanUpPart' /\ AudioPart' /\ MainPart'
    BY Parts, PartsNext
  <2>0. ConfigOK(cfg) /\ cfg.requests \in Nat
    BY ServerAssumption DEF ServerAssumption, MainPart, MainTypes, ConfigOK
  <2>t. /\ process \in {"running", "dead"} /\ link \in {"none", "up", "closed", "shut"}
        /\ stopped \in BOOLEAN /\ joined \in BOOLEAN /\ ended \in BOOLEAN
        /\ audioStopped \in BOOLEAN
        /\ joined => cleaner \in {"off", "ended"} /\ main \in {"join", "exit"}
        /\ main \in {"start", "open", "meta"} => audio = "off"
    BY DEF MainPart, MainTypes, AudioPart, AudioTypeOK, CleanUpPart, CleanerInv,
      StartInv
  <2>1. CASE StartCleanUp
    <3>1. CleanUpPart'
      BY <2>1, <2>0, StartCleanUpKeeps DEF MainPart
    <3>2. AudioPart'
      BY <2>1, <2>t, AudioIdle DEF StartCleanUp, Step, Goes, Dies, Alive,
        OtherUnchanged, CleanerUnchanged, cleanUpVars, audioVars, mainVars,
        StopAudio
    <3>3. MainPart'
      BY <2>1, <2>t, MainMoves DEF StartCleanUp, Step, Goes, Dies, Alive,
        OtherUnchanged, CleanerUnchanged, cleanUpVars, audioVars, mainVars,
        StopAudio, Ending
    <3>. QED
      BY <3>1, <3>2, <3>3
  <2>2. CASE Open
    <3>1. CleanUpPart'
      BY <2>2, <2>t, CleanUpIdle DEF Open, Step, Goes, Dies, Alive, OtherUnchanged,
        CleanerUnchanged, cleanUpVars, audioVars, mainVars, StopAudio
    <3>2. AudioPart'
      BY <2>2, <2>t, AudioIdle DEF Open, Step, Goes, Dies, Alive, OtherUnchanged,
        CleanerUnchanged, cleanUpVars, audioVars, mainVars, StopAudio
    <3>3. MainPart'
      BY <2>2, <2>t, MainMoves DEF Open, Step, Goes, Dies, Alive, OtherUnchanged,
        CleanerUnchanged, cleanUpVars, audioVars, mainVars, StopAudio, Ending
    <3>. QED
      BY <3>1, <3>2, <3>3
  <2>3. CASE Loop
    <3>1. CleanUpPart'
      BY <2>3, <2>t, CleanUpIdle DEF Loop, Step, Goes, Dies, Alive, OtherUnchanged,
        CleanerUnchanged, cleanUpVars, audioVars, mainVars, StopAudio
    <3>2. AudioPart'
      BY <2>3, <2>t, AudioIdle DEF Loop, Step, Goes, Dies, Alive, OtherUnchanged,
        CleanerUnchanged, cleanUpVars, audioVars, mainVars, StopAudio
    <3>3. MainPart'
      BY <2>3, <2>t, MainMoves DEF Loop, Step, Goes, Dies, Alive, OtherUnchanged,
        CleanerUnchanged, cleanUpVars, audioVars, mainVars, StopAudio, Ending
    <3>. QED
      BY <3>1, <3>2, <3>3
  <2>4. CASE QuitLooper
    <3>1. CleanUpPart'
      BY <2>4, <2>t, CleanUpIdle DEF QuitLooper, Step, Goes, Dies, Alive,
        OtherUnchanged, CleanerUnchanged, cleanUpVars, audioVars, mainVars,
        StopAudio
    <3>2. AudioPart'
      BY <2>4, <2>t, AudioIdle DEF QuitLooper, Step, Goes, Dies, Alive,
        OtherUnchanged, CleanerUnchanged, cleanUpVars, audioVars, mainVars,
        StopAudio
    <3>3. MainPart'
      BY <2>4, <2>t, MainMoves DEF QuitLooper, Step, Goes, Dies, Alive,
        OtherUnchanged, CleanerUnchanged, cleanUpVars, audioVars, mainVars,
        StopAudio, Ending
    <3>. QED
      BY <3>1, <3>2, <3>3
  <2>5. CASE InterruptCleanUp
    <3>1. CleanUpPart'
      BY <2>5, <2>0, InterruptCleanUpKeeps DEF MainPart
    <3>2. AudioPart'
      BY <2>5, <2>t, AudioIdle DEF InterruptCleanUp, Step, Goes, Dies, Alive,
        OtherUnchanged, CleanerUnchanged, cleanUpVars, audioVars, mainVars,
        StopAudio
    <3>3. MainPart'
      BY <2>5, <2>t, MainMoves DEF InterruptCleanUp, Step, Goes, Dies, Alive,
        OtherUnchanged, CleanerUnchanged, cleanUpVars, audioVars, mainVars,
        StopAudio, Ending
    <3>. QED
      BY <3>1, <3>2, <3>3
  <2>6. CASE StopProcessors
    <3>1. CleanUpPart'
      BY <2>6, <2>t, CleanUpIdle DEF StopProcessors, Step, Goes, Dies, Alive,
        OtherUnchanged, CleanerUnchanged, cleanUpVars, audioVars, mainVars,
        StopAudio
    <3>2. AudioPart'
      BY <2>6, <2>t, AudioIdle DEF StopProcessors, Step, Goes, Dies, Alive,
        OtherUnchanged, CleanerUnchanged, cleanUpVars, audioVars, mainVars,
        StopAudio
    <3>3. MainPart'
      BY <2>6, <2>t, MainMoves DEF StopProcessors, Step, Goes, Dies, Alive,
        OtherUnchanged, CleanerUnchanged, cleanUpVars, audioVars, mainVars,
        StopAudio, Ending
    <3>. QED
      BY <3>1, <3>2, <3>3
  <2>7. CASE Shutdown
    <3>1. CleanUpPart'
      BY <2>7, <2>t, CleanUpIdle DEF Shutdown, Step, Goes, Dies, Alive,
        OtherUnchanged, CleanerUnchanged, cleanUpVars, audioVars, mainVars,
        StopAudio
    <3>2. AudioPart'
      BY <2>7, <2>t, AudioIdle DEF Shutdown, Step, Goes, Dies, Alive,
        OtherUnchanged, CleanerUnchanged, cleanUpVars, audioVars, mainVars,
        StopAudio
    <3>3. MainPart'
      BY <2>7, <2>t, MainMoves DEF Shutdown, Step, Goes, Dies, Alive,
        OtherUnchanged, CleanerUnchanged, cleanUpVars, audioVars, mainVars,
        StopAudio, Ending
    <3>. QED
      BY <3>1, <3>2, <3>3
  <2>8. CASE JoinCleanUp
    <3>1. CleanUpPart'
      BY <2>8, <2>t, CleanUpIdle DEF JoinCleanUp, Step, Goes, Dies, Alive,
        OtherUnchanged, CleanerUnchanged, cleanUpVars, audioVars, mainVars,
        StopAudio
    <3>2. AudioPart'
      BY <2>8, <2>t, AudioIdle DEF JoinCleanUp, Step, Goes, Dies, Alive,
        OtherUnchanged, CleanerUnchanged, cleanUpVars, audioVars, mainVars,
        StopAudio
    <3>3. MainPart'
      BY <2>8, <2>t, MainMoves DEF JoinCleanUp, Step, Goes, Dies, Alive,
        OtherUnchanged, CleanerUnchanged, cleanUpVars, audioVars, mainVars,
        StopAudio, Ending
    <3>. QED
      BY <3>1, <3>2, <3>3
  <2>9. CASE JoinProcessors
    <3>1. CleanUpPart'
      BY <2>9, <2>t, CleanUpIdle DEF JoinProcessors, Step, Goes, Dies, Alive,
        OtherUnchanged, CleanerUnchanged, cleanUpVars, audioVars, mainVars,
        StopAudio
    <3>2. AudioPart'
      BY <2>9, <2>t, AudioIdle DEF JoinProcessors, Step, Goes, Dies, Alive,
        OtherUnchanged, CleanerUnchanged, cleanUpVars, audioVars, mainVars,
        StopAudio
    <3>3. MainPart'
      BY <2>9, <2>t, MainMoves DEF JoinProcessors, Step, Goes, Dies, Alive,
        OtherUnchanged, CleanerUnchanged, cleanUpVars, audioVars, mainVars,
        StopAudio, Ending
    <3>. QED
      BY <3>1, <3>2, <3>3
  <2>10. CASE Exit
    <3>1. CleanUpPart'
      BY <2>10, <2>t, CleanUpIdle DEF Exit, Step, Goes, Dies, Alive, OtherUnchanged,
        CleanerUnchanged, cleanUpVars, audioVars, mainVars, StopAudio
    <3>2. AudioPart'
      BY <2>10, <2>t, AudioIdle DEF Exit, Step, Goes, Dies, Alive, OtherUnchanged,
        CleanerUnchanged, cleanUpVars, audioVars, mainVars, StopAudio
    <3>3. MainPart'
      BY <2>10, <2>t, MainMoves DEF Exit, Step, Goes, Dies, Alive, OtherUnchanged,
        CleanerUnchanged, cleanUpVars, audioVars, mainVars, StopAudio, Ending
    <3>. QED
      BY <3>1, <3>2, <3>3
  <2>11. CASE Killed
    <3>1. CleanUpPart'
      BY <2>11, <2>t, CleanUpIdle DEF Killed, Step, Goes, Dies, Alive,
        OtherUnchanged, CleanerUnchanged, cleanUpVars, audioVars, mainVars,
        StopAudio
    <3>2. AudioPart'
      BY <2>11, <2>t, AudioIdle DEF Killed, Step, Goes, Dies, Alive, OtherUnchanged,
        CleanerUnchanged, cleanUpVars, audioVars, mainVars, StopAudio
    <3>3. MainPart'
      BY <2>11, <2>t, MainMoves DEF Killed, Step, Goes, Dies, Alive, OtherUnchanged,
        CleanerUnchanged, cleanUpVars, audioVars, mainVars, StopAudio, Ending
    <3>. QED
      BY <3>1, <3>2, <3>3
  <2>12. CASE ClientLeaves
    <3>1. CleanUpPart'
      BY <2>12, <2>t, CleanUpIdle DEF ClientLeaves, Step, Goes, Dies, Alive,
        OtherUnchanged, CleanerUnchanged, cleanUpVars, audioVars, mainVars,
        StopAudio
    <3>2. AudioPart'
      BY <2>12, <2>t, AudioIdle DEF ClientLeaves, Step, Goes, Dies, Alive,
        OtherUnchanged, CleanerUnchanged, cleanUpVars, audioVars, mainVars,
        StopAudio
    <3>3. MainPart'
      BY <2>12, <2>t, MainMoves DEF ClientLeaves, Step, Goes, Dies, Alive,
        OtherUnchanged, CleanerUnchanged, cleanUpVars, audioVars, mainVars,
        StopAudio, Ending
    <3>. QED
      BY <3>1, <3>2, <3>3
  <2>13. CASE SendDeviceMeta
    <3>1. CleanUpPart'
      BY <2>13, <2>t, CleanUpIdle DEF SendDeviceMeta, Goes, OtherUnchanged,
        CleanerUnchanged, cleanUpVars
    <3>2. AudioPart'
      BY <2>13, <2>t, AudioIdle DEF SendDeviceMeta, audioVars
    <3>. QED
      BY <2>13, <3>1, <3>2, SendDeviceMetaKeeps
  <2>14. CASE StartProcessor
    <3>1. CleanUpPart'
      BY <2>14, <2>t, CleanUpIdle DEF StartProcessor, Goes, OtherUnchanged,
        CleanerUnchanged, cleanUpVars
    <3>. QED
      BY <2>14, <3>1, StartProcessorKeeps
  <2>15. ASSUME NEW p \in Threads, ThreadEnds(p) PROVE CleanUpPart' /\ AudioPart' /\ MainPart'
    <3>1. CleanUpPart'
      BY <2>15, <2>t, CleanUpIdle DEF ThreadEnds, OtherUnchanged, CleanerUnchanged,
        cleanUpVars, Alive
    <3>2. AudioPart'
      BY <2>15, <2>t, AudioIdle DEF ThreadEnds, audioVars
    <3>. QED
      BY <2>15, <3>1, <3>2, ThreadEndsKeeps
  <2>16. CASE Audio
    <3>1. CleanUpPart'
      BY <2>16, <2>t, CleanUpIdle DEF Audio, mainVars, Alive
    <3>2. /\ AudioPart'
          /\ audio' \in {"off", "ended"} <=> audio \in {"off", "ended"}
          /\ audio' = "off" <=> audio = "off"
      BY <2>16, AudioStepKeeps DEF Audio
    <3>3. MainPart'
      BY <2>16, <3>2, MainIdle DEF Audio, AudioRuns
    <3>. QED
      BY <3>1, <3>2, <3>3
  <2>17. CASE AudioEnds
    <3>1. CleanUpPart'
      BY <2>17, <2>t, CleanUpIdle DEF AudioEnds, Alive
    <3>2. AudioPart' /\ audio = "terminating" /\ audio' = "ended"
      BY <2>17, AudioEndsKeeps DEF AudioEnds
    <3>3. MainPart'
      BY <2>17, <3>2, AudioCounted DEF AudioEnds, AudioPart, AudioTypeOK
    <3>. QED
      BY <3>1, <3>2, <3>3
  <2>18. CASE Control
    <3>0. UNCHANGED <<cfg, process, link, mainVars, audioVars>>
      BY <2>18 DEF Control
    <3>1. CleanUpPart'
      BY <2>0, <2>18, <3>0, CleanUpStepKeeps DEF Control, mainVars
    <3>2. AudioPart'
      BY <2>t, <3>0, AudioIdle DEF audioVars
    <3>3. MainPart'
      BY <3>0, MainIdle DEF AudioRuns, audioVars
    <3>. QED
      BY <3>1, <3>2, <3>3
  <2>19. CASE CleanerSteps
    <3>0. UNCHANGED <<cfg, process, link, mainVars, audioVars>>
      BY <2>19 DEF CleanerSteps
    <3>1. CleanUpPart'
      BY <2>0, <2>19, <3>0, CleanUpStepKeeps DEF CleanerSteps, mainVars
    <3>2. AudioPart'
      BY <2>t, <3>0, AudioIdle DEF audioVars
    <3>3. MainPart'
      BY <3>0, MainIdle DEF AudioRuns, audioVars
    <3>. QED
      BY <3>1, <3>2, <3>3
  <2>20. CASE Device
    <3>0. UNCHANGED <<cfg, process, link, mainVars, audioVars>>
      BY <2>20 DEF Device
    <3>1. CleanUpPart'
      BY <2>0, <2>20, <3>0, CleanUpStepKeeps DEF Device, mainVars
    <3>2. AudioPart'
      BY <2>t, <3>0, AudioIdle DEF audioVars
    <3>3. MainPart'
      BY <3>0, MainIdle DEF AudioRuns, audioVars
    <3>. QED
      BY <3>1, <3>2, <3>3
  <2>21. CASE UNCHANGED vars
    <3>0. UNCHANGED <<cfg, process, link, mainVars, cleanUpVars, audioVars>>
      BY <2>21 DEF vars
    <3>1. CleanUpPart'
      BY <2>t, <3>0, CleanUpIdle DEF mainVars, Alive
    <3>2. AudioPart'
      BY <2>t, <3>0, AudioIdle DEF audioVars
    <3>3. MainPart'
      BY <3>0, MainIdle DEF AudioRuns, audioVars
    <3>. QED
      BY <3>1, <3>2, <3>3
  <2>d. DOMAIN thread = Threads
    BY DEF MainPart, MainTypes
  <2>. QED
    BY <2>d, <2>1, <2>2, <2>3, <2>4, <2>5, <2>6, <2>7, <2>8, <2>9, <2>10, <2>11,
      <2>12, <2>13, <2>14, <2>15, <2>16, <2>17, <2>18, <2>19, <2>20, <2>21 DEF Next,
      Main
<1>. QED
  BY <1>1, <1>2, PTL DEF Spec

(* DeviceRestored: once the server is dead and the child is done, every    *)
(* setting is back and an awake device has its panel powered, whichever    *)
(* step the death, the client, the device or a failing call interrupted.   *)
THEOREM AlwaysRestored == Spec => []DeviceRestored
<1>1. SessionInv => DeviceRestored
  <2>. SUFFICES ASSUME SessionInv PROVE DeviceRestored
    OBVIOUS
  <2>1. ServerTypeOK
    BY DEF SessionInv, TypeInv
  <2>2. SettingsRestored(joined)
    <3>1. child \in {"none", "reading", "done"}
      BY <2>1 DEF ServerTypeOK, CleanUpTypeOK
    <3>2. CASE child = "none" /\ joined /\ ~spawnFailed
      <4>1. cleaner = "off" /\ remembered = {}
        BY <3>2 DEF SessionInv, CleanerInv
      <4>2. setting = [s \in cfg.settings |-> userValue[s]]
        BY <3>2, <4>1 DEF SessionInv, SettingsInv
      <4>3. userValue \in [cfg.settings -> {0, Wanted}]
        BY <2>1 DEF ServerTypeOK, CleanUpTypeOK
      <4>. QED
        BY <4>2, <4>3 DEF SettingsRestored
    <3>. QED
      BY <3>1, <3>2 DEF SessionInv, SettingsInv, SettingsRestored
  <2>3. DisplayRestored
    BY DEF SessionInv, PowerInv, DisplayRestored
  <2>. QED
    BY <2>1, <2>2, <2>3 DEF DeviceRestored
<1>. QED
  BY <1>1, SessionInvariant, PTL

(* OneAudioHeader: whichever of the three threads of the audio fails, the  *)
(* client reads at most one answer before the packets, and one if the      *)
(* audio ended while it was connected.                                     *)
THEOREM AudioAnswersOnce == Spec => []OneAudioHeader
<1>1. SessionInv => OneAudioHeader
  BY DEF SessionInv, AudioInv, OneAudioHeader
<1>. QED
  BY <1>1, SessionInvariant, PTL

-------------------------------------------------------------------------------
(***************************************************************************)
(* Options: from the command line to the session.                          *)
(*                                                                         *)
(* The first half is about the operators: what getopt assigns keeps the    *)
(* types of the options, the checks of cli.c leave them settled, the line  *)
(* carries all of them, and the server reads them as they were meant.  The *)
(* second half is the inductive invariant over the phases of the start.    *)
(***************************************************************************)

(* The fields of struct scrcpy_options, and the values that each of them   *)
(* may have between the arguments and the checks.                          *)
Fields == DOMAIN DefaultOptions
Switches ==
  {"video", "audio", "control", "window", "video_playback", "audio_playback", "otg",
   "flex_display"}
Chosen ==
  {"log_level", "video_codec", "audio_codec", "video_source", "audio_source", "camera_facing",
   "display_ime_policy", "keyboard_input_mode", "mouse_input_mode", "gamepad_input_mode"}
Modes == {"disabled", "sdk", "uhid", "aoa", Automatic, "uhid_or_aoa"}
Locks == {"unlocked", "value", "initial"}

Fits(f, v) ==
  /\ f \in Switches => v \in BOOLEAN
  /\ f \in FreeStrings => v \in FreeText \cup {None}
  /\ f = "log_level" => v \in LogLevels
  /\ f = "video_codec" => v \in VideoCodecs
  /\ f = "audio_codec" => v \in AudioCodecs
  /\ f = "video_source" => v \in VideoSources
  /\ f = "audio_source" => v \in AudioSources \cup {Automatic}
  /\ f = "camera_facing" => v \in CameraFacings \cup {"any"}
  /\ f = "display_ime_policy" => v \in ImePolicies \cup {"undefined"}
  /\ f \in {"keyboard_input_mode", "mouse_input_mode"} => v \in Modes
  /\ f = "gamepad_input_mode" => v \in Modes \ {"sdk"}
  /\ f = "min_size_alignment" => v \in {1, 2, 4, 8, 16}
  /\ f = "audio_buffer" => v \in Int /\ v >= -1
  /\ f = "screen_off_timeout" => v \in Int /\ v >= -1
  /\ f = "capture_orientation" => v \in Orientations
  /\ f = "capture_orientation_lock" => v \in Locks

TypedOptions(o) == DOMAIN o = Fields /\ \A f \in Fields : Fits(f, o[f])

(* The fields that the proofs speak of exist.                              *)
LEMMA FieldFacts ==
  /\ Switches \subseteq Fields /\ FreeStrings \subseteq Fields /\ Chosen \subseteq Fields
  /\ {"min_size_alignment", "audio_buffer", "screen_off_timeout", "capture_orientation",
      "capture_orientation_lock", "record_filename", "display_id", "mouse_bindings", "render_fit",
      "power_on", "require_audio", "downsize_on_error", "force_adb_forward", "record_format",
      "window_aspect_ratio_lock", "start_fps_counter"} \subseteq Fields
<1>1. FreeStrings \subseteq Fields
  BY DEF Fields, DefaultOptions, Over
<1>2. Switches \subseteq Fields
  BY DEF Fields, DefaultOptions, Over, Switches
<1>3. Chosen \subseteq Fields
  BY DEF Fields, DefaultOptions, Over, Chosen
<1>4. /\ "min_size_alignment" \in Fields /\ "audio_buffer" \in Fields
      /\ "screen_off_timeout" \in Fields /\ "capture_orientation" \in Fields
      /\ "capture_orientation_lock" \in Fields /\ "record_filename" \in Fields
      /\ "display_id" \in Fields /\ "mouse_bindings" \in Fields
  BY DEF Fields, DefaultOptions, Over
<1>5. /\ "render_fit" \in Fields /\ "power_on" \in Fields /\ "require_audio" \in Fields
      /\ "downsize_on_error" \in Fields /\ "force_adb_forward" \in Fields
      /\ "record_format" \in Fields /\ "window_aspect_ratio_lock" \in Fields
      /\ "start_fps_counter" \in Fields
  BY DEF Fields, DefaultOptions, Over
<1> QED BY <1>1, <1>2, <1>3, <1>4, <1>5

(* The options before the first argument.                                  *)
LEMMA DefaultsTyped == TypedOptions(DefaultOptions)
<1>1. \A f \in FreeStrings : DefaultOptions[f] = None
  BY DEF DefaultOptions, Over
<1>2. \A f \in Switches : DefaultOptions[f] \in BOOLEAN /\ f \notin FreeStrings
  <2>1. /\ DefaultOptions["video"] = TRUE /\ DefaultOptions["audio"] = TRUE
        /\ DefaultOptions["control"] = TRUE /\ DefaultOptions["window"] = TRUE
    BY DEF DefaultOptions, Over, FreeStrings
  <2>2. /\ DefaultOptions["video_playback"] = TRUE /\ DefaultOptions["audio_playback"] = TRUE
        /\ DefaultOptions["otg"] = FALSE /\ DefaultOptions["flex_display"] = FALSE
    BY DEF DefaultOptions, Over, FreeStrings
  <2>3. \A f \in Switches : f \notin FreeStrings
    BY DEF Switches, FreeStrings
  <2> QED BY <2>1, <2>2, <2>3 DEF Switches
<1>3. /\ DefaultOptions["log_level"] = "info" /\ DefaultOptions["video_codec"] = "h264"
      /\ DefaultOptions["audio_codec"] = "opus" /\ DefaultOptions["video_source"] = "display"
      /\ DefaultOptions["audio_source"] = Automatic /\ DefaultOptions["camera_facing"] = "any"
  BY DEF DefaultOptions, Over, FreeStrings
<1>4. /\ DefaultOptions["display_ime_policy"] = "undefined"
      /\ DefaultOptions["keyboard_input_mode"] = Automatic /\ DefaultOptions["mouse_input_mode"] = Automatic
      /\ DefaultOptions["gamepad_input_mode"] = "disabled"
      /\ DefaultOptions["min_size_alignment"] = 1 /\ DefaultOptions["audio_buffer"] = -1
  BY DEF DefaultOptions, Over, FreeStrings
<1>5. /\ DefaultOptions["screen_off_timeout"] = -1 /\ DefaultOptions["capture_orientation"] = "0"
      /\ DefaultOptions["capture_orientation_lock"] = "unlocked"
  BY DEF DefaultOptions, Over, FreeStrings
<1>6. ASSUME NEW f \in Fields PROVE Fits(f, DefaultOptions[f])
  <2>1. \A g \in Switches : Fits(g, DefaultOptions[g])
    BY <1>2 DEF Fits, Switches
  <2>2. \A g \in FreeStrings : Fits(g, DefaultOptions[g])
    BY <1>1 DEF Fits, Switches, FreeStrings
  <2>3. f \notin Switches \cup FreeStrings => Fits(f, DefaultOptions[f])
    BY <1>3, <1>4, <1>5 DEF Fits, LogLevels, VideoCodecs, AudioCodecs, VideoSources,
      ImePolicies, Modes, Orientations, Rotations, Locks, Automatic
  <2> QED BY <2>1, <2>2, <2>3
<1> QED BY <1>6 DEF TypedOptions, Fields

(* What an argument assigns fits the fields that it sets.                  *)
AllFit(a) == DOMAIN a \subseteq Fields /\ \A f \in DOMAIN a : Fits(f, a[f])

(* The fields about which Fits says something.                             *)
Judged ==
  Switches \cup FreeStrings \cup Chosen \cup
  {"min_size_alignment", "audio_buffer", "screen_off_timeout", "capture_orientation",
   "capture_orientation_lock"}

(* Any value fits a field that Fits does not judge.                        *)
LEMMA UnjudgedFits ==
  ASSUME NEW f, f \notin Judged, NEW v
  PROVE  Fits(f, v)
BY DEF Fits, Judged, Chosen

(* A boolean fits any field that is not a text, a name or a number.        *)
LEMMA SwitchFits ==
  ASSUME NEW f, f \in Switches \/ f \notin Judged, NEW v \in BOOLEAN
  PROVE  Fits(f, v)
<1>1. f \in Switches => f \notin FreeStrings
  BY DEF Switches, FreeStrings
<1>2. CASE f \in Switches
  BY <1>1, <1>2 DEF Fits, Switches
<1> QED BY <1>2, UnjudgedFits

(* An assignment of one field fits when its value does.                    *)
LEMMA OnlyFits ==
  ASSUME NEW f \in Fields, NEW v, Fits(f, v)
  PROVE  AllFit(Only(f, v))
BY DEF AllFit, Only

(* What the flags that set a field assign fits it.                         *)
LEMMA EnablingFits == \A x \in Enabling : AllFit(Only(x, TRUE))
<1> SUFFICES ASSUME NEW x \in Enabling PROVE AllFit(Only(x, TRUE))
  OBVIOUS
<1>1. x \in Fields
  BY DEF Enabling, Fields, DefaultOptions, Over
<1>2. x \in Switches \/ x \notin Judged
  BY DEF Enabling, Switches, Judged, FreeStrings, Chosen
<1> QED BY <1>1, <1>2, SwitchFits, OnlyFits

(* What the flags that reset a field assign fits it.                       *)
LEMMA DisablingFits == \A x \in DOMAIN Disabling : AllFit(Only(Disabling[x], FALSE))
<1> SUFFICES ASSUME NEW x \in DOMAIN Disabling PROVE AllFit(Only(Disabling[x], FALSE))
  OBVIOUS
<1> DEFINE Disabled ==
             {"mouse_hover", "control", "video", "audio", "video_playback", "audio_playback",
              "forward_key_repeat", "clipboard_autosync", "downsize_on_error", "cleanup",
              "power_on", "window", "vd_destroy_content", "vd_system_decorations",
              "window_aspect_ratio_lock"}
<1>1. Disabling[x] \in Disabled
  BY DEF Disabling
<1>2. Disabled \subseteq Fields
  BY DEF Fields, DefaultOptions, Over
<1>3. \A f \in Disabled : f \in Switches \/ f \notin Judged
  BY DEF Switches, Judged, FreeStrings, Chosen
<1> HIDE DEF Disabled
<1> QED BY <1>1, <1>2, <1>3, SwitchFits, OnlyFits

(* What the other flags assign fits.                                       *)
LEMMA FlagFits == \A x \in DOMAIN Flag : AllFit(Flag[x])
<1> SUFFICES ASSUME NEW x \in DOMAIN Flag PROVE AllFit(Flag[x])
  OBVIOUS
<1>1. x \in {"K", "M", "G", "no_playback", "prefer_text", "raw_key_events", "print_fps"}
  BY DEF Flag
<1>2. CASE x \in {"K", "M", "G"}
  <2>1. /\ Flag["K"] = [keyboard_input_mode |-> "uhid_or_aoa"]
        /\ Flag["M"] = [mouse_input_mode |-> "uhid_or_aoa"]
        /\ Flag["G"] = [gamepad_input_mode |-> "uhid_or_aoa"]
    BY DEF Flag
  <2>2. "uhid_or_aoa" \in Modes \ {"sdk"}
    BY DEF Modes
  <2>3. /\ Fits("keyboard_input_mode", "uhid_or_aoa") /\ Fits("mouse_input_mode", "uhid_or_aoa")
        /\ Fits("gamepad_input_mode", "uhid_or_aoa")
    BY <2>2 DEF Fits, Switches, FreeStrings
  <2>4. {"keyboard_input_mode", "mouse_input_mode", "gamepad_input_mode"} \subseteq Fields
    BY FieldFacts DEF Chosen
  <2> QED BY <1>2, <2>1, <2>3, <2>4 DEF AllFit
<1>3. CASE x = "no_playback"
  <2>1. Flag[x] = [video_playback |-> FALSE, audio_playback |-> FALSE]
    BY <1>3 DEF Flag
  <2>3. "video_playback" \in Fields /\ "audio_playback" \in Fields
    BY FieldFacts DEF Switches
  <2>4. /\ DOMAIN Flag[x] = {"video_playback", "audio_playback"}
        /\ Flag[x]["video_playback"] \in BOOLEAN /\ Flag[x]["audio_playback"] \in BOOLEAN
    BY <2>1
  <2>5. \A f \in DOMAIN Flag[x] : f \in Switches /\ f \in Fields /\ Flag[x][f] \in BOOLEAN
    BY <2>3, <2>4 DEF Switches
  <2> QED BY <2>5, SwitchFits DEF AllFit
<1>4. CASE x \in {"prefer_text", "raw_key_events", "print_fps"}
  <2>1. /\ Flag["prefer_text"] = [key_inject_mode |-> "text"]
        /\ Flag["raw_key_events"] = [key_inject_mode |-> "raw"]
        /\ Flag["print_fps"] = [start_fps_counter |-> TRUE]
    BY DEF Flag
  <2>2. "key_inject_mode" \in Fields /\ "start_fps_counter" \in Fields
    BY DEF Fields, DefaultOptions, Over
  <2>3. "key_inject_mode" \notin Judged /\ "start_fps_counter" \notin Judged
    BY DEF Judged, Switches, FreeStrings, Chosen
  <2> QED BY <1>4, <2>1, <2>2, <2>3, UnjudgedFits DEF AllFit
<1> QED BY <1>1, <1>2, <1>3, <1>4


(* The options with an arm of their own in Assigns.                        *)
Named == {"orientation", "capture_orientation", "mouse_bindings", "port_range",
          "background_color", "tcpip", "list"}

(* The kinds of options do not meet.                                       *)
LEMMA KindsDisjoint ==
  /\ \A y \in Enabling : y \notin DOMAIN Disabling \cup DOMAIN Flag \cup DOMAIN Bounds \cup Named
  /\ \A y \in DOMAIN Disabling : y \notin DOMAIN Flag \cup DOMAIN Bounds \cup Named
  /\ \A y \in DOMAIN Flag : y \notin DOMAIN Bounds \cup Named
  /\ \A y \in DOMAIN Bounds : y \notin Named
  /\ "window_x" \in DOMAIN Bounds
<1>1. \A y \in Enabling : y \notin DOMAIN Disabling \cup DOMAIN Flag \cup DOMAIN Bounds \cup Named
  BY DEF Enabling, Disabling, Flag, Bounds, Named
<1>2. \A y \in DOMAIN Disabling : y \notin DOMAIN Flag \cup DOMAIN Bounds \cup Named
  BY DEF Disabling, Flag, Bounds, Named
<1>3. \A y \in DOMAIN Flag : y \notin DOMAIN Bounds \cup Named
  BY DEF Flag, Bounds, Named
<1>4. (\A y \in DOMAIN Bounds : y \notin Named) /\ "window_x" \in DOMAIN Bounds
  BY DEF Bounds, Named
<1> QED BY <1>1, <1>2, <1>3, <1>4

(* Which arm of Assigns an option takes, kind by kind.                     *)
LEMMA AssignsSwitch ==
  ASSUME NEW arg, NEW o
  PROVE  /\ arg.opt \in Enabling => Assigns(arg, o) = Only(arg.opt, TRUE)
         /\ arg.opt \in DOMAIN Disabling => Assigns(arg, o) = Only(Disabling[arg.opt], FALSE)
<1>1. arg.opt \in Enabling => Assigns(arg, o) = Only(arg.opt, TRUE)
  BY KindsDisjoint DEF Assigns, Named
<1>2. arg.opt \in DOMAIN Disabling => Assigns(arg, o) = Only(Disabling[arg.opt], FALSE)
  BY KindsDisjoint DEF Assigns, Named
<1> QED BY ONLY <1>1, <1>2, Zenon

(* The flags with assignments of their own.                                *)
LEMMA AssignsFlag ==
  ASSUME NEW arg, NEW o, arg.opt \in DOMAIN Flag
  PROVE  Assigns(arg, o) = Flag[arg.opt]
BY KindsDisjoint DEF Assigns, Named

(* The options with an integer.                                            *)
LEMMA AssignsNumber ==
  ASSUME NEW arg, NEW o
  PROVE  /\ arg.opt = "window_x" => Assigns(arg, o) = [window_x |-> arg.val]
         /\ arg.opt \in DOMAIN Bounds \ {"window_x"} => Assigns(arg, o) = Only(arg.opt, IntegerOf(arg))
BY KindsDisjoint DEF Assigns, Named

(* The orientation of the capture.                                         *)
LEMMA AssignsOrientation ==
  ASSUME NEW arg, NEW o, arg.opt = "capture_orientation"
  PROVE  Assigns(arg, o) = CaptureOrientation(arg.val)
BY KindsDisjoint DEF Assigns, Named

(* The address of a device.                                                *)
LEMMA AssignsTcpip ==
  ASSUME NEW arg, NEW o, arg.opt = "tcpip"
  PROVE  Assigns(arg, o) = [tcpip |-> TRUE, tcpip_dst |-> arg.val]
BY KindsDisjoint DEF Assigns, Named

(* The other options with an arm of their own.                             *)
LEMMA AssignsNamed ==
  ASSUME NEW arg, NEW o, arg.opt \in Named \ {"capture_orientation", "tcpip"}
  PROVE  DOMAIN Assigns(arg, o) \subseteq
           {"display_orientation", "record_orientation", "mouse_bindings", "port_range",
            "background_color", "list"}
<1>1. /\ arg.opt = "orientation" =>
           Assigns(arg, o) = [display_orientation |-> arg.val, record_orientation |-> arg.val]
      /\ arg.opt = "mouse_bindings" => Assigns(arg, o) = [mouse_bindings |-> Bindings(arg.val)]
      /\ arg.opt = "port_range" => Assigns(arg, o) = [port_range |-> PortRange(arg.val)]
      /\ arg.opt = "background_color" => Assigns(arg, o) = [background_color |-> Colour(arg.val)]
      /\ arg.opt = "list" => Assigns(arg, o) = [list |-> o.list \cup {arg.val}]
  BY KindsDisjoint DEF Assigns, Named
<1>2. CASE arg.opt = "orientation"
  BY <1>1, <1>2
<1>3. CASE arg.opt = "mouse_bindings"
  BY <1>1, <1>3
<1>4. CASE arg.opt = "port_range"
  BY <1>1, <1>4
<1>5. CASE arg.opt = "background_color"
  BY <1>1, <1>5
<1>6. CASE arg.opt = "list"
  BY <1>1, <1>6
<1> QED BY <1>2, <1>3, <1>4, <1>5, <1>6 DEF Named

(* The options that set the field of their name.                           *)
LEMMA AssignsOther ==
  ASSUME NEW arg, NEW o,
         arg.opt \notin Enabling \cup DOMAIN Disabling \cup DOMAIN Flag \cup DOMAIN Bounds \cup Named
  PROVE  Assigns(arg, o) = Only(arg.opt, arg.val)
BY KindsDisjoint DEF Assigns, Named

(* A name of a list is one that the field of the option may hold.          *)
LEMMA ChoiceFits ==
  ASSUME NEW arg, arg.opt \in DOMAIN Choice,
         arg.val \in Choice[arg.opt]
  PROVE  AllFit(Only(arg.opt, arg.val))
<1>1. arg.opt \in Fields
  BY DEF Choice, Fields, DefaultOptions, Over
<1>2. arg.opt \notin Switches \cup FreeStrings
  BY DEF Choice, Switches, FreeStrings
<1>3. CASE arg.opt \in {"log_level", "video_codec", "audio_codec", "video_source", "audio_source",
                        "camera_facing", "display_ime_policy"}
  <2>1. /\ Choice["log_level"] = LogLevels /\ Choice["video_codec"] = VideoCodecs
        /\ Choice["audio_codec"] = AudioCodecs /\ Choice["video_source"] = VideoSources
        /\ Choice["audio_source"] = AudioSources /\ Choice["camera_facing"] = CameraFacings
        /\ Choice["display_ime_policy"] = ImePolicies
    BY DEF Choice
  <2>2. Fits(arg.opt, arg.val)
    BY <1>2, <1>3, <2>1 DEF Fits
  <2> QED BY <1>1, <2>2, OnlyFits
<1>4. CASE arg.opt \in {"keyboard_input_mode", "mouse_input_mode", "gamepad_input_mode"}
  <2>1. /\ Choice["keyboard_input_mode"] = Keyboards /\ Choice["mouse_input_mode"] = Mice
        /\ Choice["gamepad_input_mode"] = Gamepads
    BY DEF Choice
  <2>2. Keyboards \subseteq Modes /\ Mice \subseteq Modes /\ Gamepads \subseteq Modes \ {"sdk"}
    BY DEF Keyboards, Mice, Gamepads, Modes
  <2>3. Fits(arg.opt, arg.val)
    BY <1>2, <1>4, <2>1, <2>2 DEF Fits
  <2> QED BY <1>1, <2>3, OnlyFits
<1>5. CASE arg.opt \in {"record_format", "display_orientation", "record_orientation", "render_fit"}
  <2>1. arg.opt \notin Judged
    BY <1>2, <1>5 DEF Judged, Chosen
  <2> QED BY <1>1, <2>1, UnjudgedFits, OnlyFits
<1> QED BY <1>3, <1>4, <1>5 DEF Choice

(* An integer within its bounds, too.                                      *)
LEMMA BoundedFits ==
  ASSUME NEW arg, arg.opt \in DOMAIN Bounds, IntegerOf(arg) \in Int, InBounds(arg)
  PROVE  AllFit(Only(arg.opt, IntegerOf(arg)))
<1> DEFINE v == IntegerOf(arg)
<1>1. arg.opt \in Fields
  BY DEF Bounds, Fields, DefaultOptions, Over
<1>2. arg.opt \notin Switches \cup FreeStrings \cup Chosen
  BY DEF Bounds, Switches, FreeStrings, Chosen
<1>3. CASE arg.opt = "min_size_alignment"
  <2>1. v \in {1, 2, 4, 8, 16}
    BY <1>3 DEF InBounds
  <2>2. Fits("min_size_alignment", v)
    BY <1>2, <1>3, <2>1 DEF Fits
  <2> QED BY <1>1, <1>3, <2>2, OnlyFits
<1>4. CASE arg.opt \in {"audio_buffer", "screen_off_timeout"}
  <2>1. Bounds["audio_buffer"][1] = 0 /\ Bounds["screen_off_timeout"][1] = 0
    BY DEF Bounds
  <2>2. v \in Int /\ 0 <= v
    BY <1>4, <2>1 DEF InBounds
  <2> HIDE DEF v
  <2>3. Fits(arg.opt, v)
    BY <1>2, <1>4, <2>2 DEF Fits
  <2> QED BY <1>1, <2>3, OnlyFits DEF v
<1>5. CASE arg.opt \notin {"min_size_alignment", "audio_buffer", "screen_off_timeout"}
  <2>1. arg.opt \notin {"capture_orientation", "capture_orientation_lock"}
    BY DEF Bounds
  <2>2. arg.opt \notin Judged
    BY <1>2, <1>5, <2>1 DEF Judged
  <2> QED BY <1>1, <2>2, UnjudgedFits, OnlyFits
<1> QED BY <1>3, <1>4, <1>5

(* The orientation of the capture, with or without its lock.               *)
LEMMA OrientationFits ==
  ASSUME NEW val, val.lock \in BOOLEAN,
         val.orientation \in Orientations \/ (val.orientation = Empty /\ val.lock)
  PROVE  AllFit(CaptureOrientation(val))
<1>1. /\ "capture_orientation" \in Fields /\ "capture_orientation_lock" \in Fields
  BY FieldFacts
<1>2. \A v \in Locks : Fits("capture_orientation_lock", v)
  BY DEF Fits, Switches, FreeStrings
<1>3. \A v \in Orientations : Fits("capture_orientation", v)
  BY DEF Fits, Switches, FreeStrings
<1>4. CASE val.orientation = Empty /\ val.lock
  <2>1. CaptureOrientation(val) = [capture_orientation_lock |-> "initial"]
    BY <1>4 DEF CaptureOrientation
  <2>2. "initial" \in Locks
    BY DEF Locks
  <2> QED BY <1>1, <1>2, <2>1, <2>2 DEF AllFit
<1>5. CASE ~(val.orientation = Empty /\ val.lock)
  <2> DEFINE l == IF val.lock THEN "value" ELSE "unlocked"
  <2>1. CaptureOrientation(val) =
          [capture_orientation_lock |-> l, capture_orientation |-> val.orientation]
    BY <1>5 DEF CaptureOrientation
  <2>2. l \in Locks
    BY DEF Locks
  <2>3. val.orientation \in Orientations
    BY <1>5
  <2> HIDE DEF l
  <2> QED BY <1>1, <1>2, <1>3, <2>1, <2>2, <2>3 DEF AllFit
<1> QED BY <1>4, <1>5

(* What an argument of each of three kinds needs, to be accepted.          *)
LEMMA AcceptsArms ==
  ASSUME NEW arg, NEW o, Accepts(arg, o)
  PROVE  /\ arg.opt \in DOMAIN Choice => arg.val \in Choice[arg.opt]
         /\ arg.opt \in DOMAIN Bounds =>
              (arg.opt = "window_x" /\ arg.val = WindowAuto) \/ InBounds(arg)
         /\ arg.opt = "capture_orientation" =>
              arg.val.orientation \in Orientations \/ (arg.val.orientation = Empty /\ arg.val.lock)
<1> DEFINE Special == {"prefer_text", "raw_key_events", "otg", "v4l2_device", "orientation",
                       "capture_orientation", "mouse_bindings", "shortcut_mods", "port_range",
                       "background_color"}
<1>1. \A x \in DOMAIN Choice : x \notin Special /\ x \notin DOMAIN Bounds
  BY DEF Choice, Bounds
<1>2. \A x \in DOMAIN Bounds : x \notin Special
  BY DEF Bounds
<1>3. ASSUME arg.opt \in DOMAIN Choice PROVE arg.val \in Choice[arg.opt]
  BY <1>1, <1>3 DEF Accepts
<1>4. ASSUME arg.opt \in DOMAIN Bounds
      PROVE  (arg.opt = "window_x" /\ arg.val = WindowAuto) \/ InBounds(arg)
  BY <1>1, <1>2, <1>4 DEF Accepts
<1>5. ASSUME arg.opt = "capture_orientation"
      PROVE  arg.val.orientation \in Orientations \/ (arg.val.orientation = Empty /\ arg.val.lock)
  BY <1>1, <1>2, <1>5 DEF Accepts
<1> QED BY <1>3, <1>4, <1>5

(* Every argument that is accepted fits the fields that it sets.           *)
LEMMA AssignsFit ==
  ASSUME NEW arg, NEW o, IsArgument(arg), Accepts(arg, o)
  PROVE  AllFit(Assigns(arg, o))
<1>1. CASE arg.opt \in Enabling
  BY <1>1, AssignsSwitch, EnablingFits
<1>2. CASE arg.opt \in DOMAIN Disabling
  BY <1>2, AssignsSwitch, DisablingFits
<1>3. CASE arg.opt \in DOMAIN Flag
  BY <1>3, AssignsFlag, FlagFits
<1>4. CASE arg.opt \in DOMAIN Bounds
  <2>2. (arg.opt = "window_x" /\ arg.val = WindowAuto) \/ InBounds(arg)
    BY <1>4, AcceptsArms
  <2>3. CASE arg.opt = "window_x"
    <3>1. Assigns(arg, o) = [window_x |-> arg.val]
      BY <2>3, AssignsNumber
    <3>2. "window_x" \in Fields /\ "window_x" \notin Judged
      BY DEF Fields, DefaultOptions, Over, Judged, Switches, FreeStrings, Chosen
    <3> QED BY <3>1, <3>2, UnjudgedFits DEF AllFit
  <2>4. CASE arg.opt # "window_x"
    <3>1. Assigns(arg, o) = Only(arg.opt, IntegerOf(arg))
      BY <1>4, <2>4, AssignsNumber
    <3>2. IntegerOf(arg) \in Int
      BY <1>4 DEF IsArgument
    <3> QED BY <1>4, <2>2, <2>4, <3>1, <3>2, BoundedFits
  <2> QED BY <2>3, <2>4
<1>5. CASE arg.opt \in DOMAIN Choice
  <2>1. arg.opt \notin Enabling \cup DOMAIN Disabling \cup DOMAIN Flag \cup DOMAIN Bounds \cup Named
    <3>1. arg.opt \notin Enabling \cup DOMAIN Disabling \cup DOMAIN Flag
      BY <1>5 DEF Choice, Enabling, Disabling, Flag
    <3>2. arg.opt \notin DOMAIN Bounds \cup Named
      BY <1>5 DEF Choice, Bounds, Named
    <3> QED BY <3>1, <3>2
  <2>2. Assigns(arg, o) = Only(arg.opt, arg.val)
    BY <2>1, AssignsOther
  <2>4. arg.val \in Choice[arg.opt]
    BY <1>5, AcceptsArms
  <2> QED BY <1>5, <2>2, <2>4, ChoiceFits
<1>6. CASE arg.opt \in FreeStrings \ {"tcpip_dst"}
  <2>1. arg.opt \notin Enabling \cup DOMAIN Disabling \cup DOMAIN Flag \cup DOMAIN Bounds \cup Named
    <3>1. arg.opt \notin Enabling \cup DOMAIN Disabling \cup DOMAIN Flag
      BY <1>6 DEF FreeStrings, Enabling, Disabling, Flag
    <3>2. arg.opt \notin DOMAIN Bounds \cup Named
      BY <1>6 DEF FreeStrings, Bounds, Named
    <3> QED BY <3>1, <3>2
  <2>2. Assigns(arg, o) = Only(arg.opt, arg.val)
    BY <2>1, AssignsOther
  <2>3. arg.val \in FreeText
    BY <1>6 DEF IsArgument
  <2>4. arg.opt \in Fields
    BY <1>6, FieldFacts
  <2>5. Fits(arg.opt, arg.val)
    BY <1>6, <2>3 DEF Fits, FreeStrings, Switches
  <2> QED BY <2>2, <2>4, <2>5, OnlyFits
<1>7. CASE arg.opt \in Named
  <2>1. CASE arg.opt = "capture_orientation"
    <3>1. Assigns(arg, o) = CaptureOrientation(arg.val)
      BY <2>1, AssignsOrientation
    <3>2. arg.val.lock \in BOOLEAN
      BY <2>1 DEF IsArgument
    <3>4. arg.val.orientation \in Orientations \/ (arg.val.orientation = Empty /\ arg.val.lock)
      BY <2>1, AcceptsArms
    <3> QED BY <3>1, <3>2, <3>4, OrientationFits
  <2>2. CASE arg.opt = "tcpip"
    <3>1. Assigns(arg, o) = [tcpip |-> TRUE, tcpip_dst |-> arg.val]
      BY <2>2, AssignsTcpip
    <3>2. arg.val \in FreeText \cup {None}
      BY <2>2 DEF IsArgument
    <3>3. Fits("tcpip_dst", arg.val)
      BY <3>2 DEF Fits, FreeStrings, Switches
    <3>4. /\ "tcpip" \in Fields /\ "tcpip_dst" \in Fields /\ "tcpip" \notin Judged
      BY DEF Fields, DefaultOptions, Over, FreeStrings, Judged, Switches, Chosen
    <3>5. Fits("tcpip", TRUE)
      BY <3>4, UnjudgedFits
    <3> QED BY <3>1, <3>3, <3>4, <3>5, UnjudgedFits DEF AllFit
  <2>3. CASE arg.opt \notin {"capture_orientation", "tcpip"}
    <3> DEFINE Others == {"display_orientation", "record_orientation", "mouse_bindings", "port_range",
                          "background_color", "list"}
    <3>1. Others \subseteq Fields
      BY DEF Fields, DefaultOptions, Over
    <3>2. \A f \in Others : f \notin Judged
      BY DEF Judged, Switches, FreeStrings, Chosen
    <3>3. DOMAIN Assigns(arg, o) \subseteq Others
      BY <1>7, <2>3, AssignsNamed
    <3> HIDE DEF Others
    <3> QED BY <3>1, <3>2, <3>3, UnjudgedFits DEF AllFit
  <2> QED BY <2>1, <2>2, <2>3
<1>8. CASE arg.opt \in {"shortcut_mods", "record_filename", "tunnel_host"}
  <2>1. arg.opt \notin Enabling \cup DOMAIN Disabling \cup DOMAIN Flag \cup DOMAIN Bounds \cup Named
    <3>1. arg.opt \notin Enabling \cup DOMAIN Disabling \cup DOMAIN Flag
      BY <1>8 DEF Enabling, Disabling, Flag
    <3>2. arg.opt \notin DOMAIN Bounds \cup Named
      BY <1>8 DEF Bounds, Named
    <3> QED BY <3>1, <3>2
  <2>2. Assigns(arg, o) = Only(arg.opt, arg.val)
    BY <2>1, AssignsOther
  <2>3. arg.opt \in Fields /\ arg.opt \notin Judged
    BY <1>8 DEF Fields, DefaultOptions, Over, Judged, Switches, FreeStrings, Chosen
  <2> QED BY <2>2, <2>3, UnjudgedFits, OnlyFits
<1>9. \/ arg.opt \in Enabling \/ arg.opt \in DOMAIN Disabling \/ arg.opt \in DOMAIN Flag
      \/ arg.opt \in DOMAIN Bounds \/ arg.opt \in DOMAIN Choice
      \/ arg.opt \in FreeStrings \ {"tcpip_dst"} \/ arg.opt \in Named
      \/ arg.opt \in {"shortcut_mods", "record_filename", "tunnel_host"}
  BY DEF IsArgument, OptionNames, Named
<1> QED BY <1>1, <1>2, <1>3, <1>4, <1>5, <1>6, <1>7, <1>8, <1>9

(* The options stay typed argument after argument.                         *)
LEMMA ArgumentTaken ==
  ASSUME NEW arg, NEW o, IsArgument(arg), TypedOptions(o), Accepts(arg, o)
  PROVE  TypedOptions(Over(Assigns(arg, o), o))
<1> DEFINE a == Assigns(arg, o)
<1>1. AllFit(a)
  BY AssignsFit
<1> HIDE DEF a
<1>2. DOMAIN Over(a, o) = Fields
  BY <1>1 DEF AllFit, TypedOptions, Over
<1>3. \A f \in Fields : Over(a, o)[f] = IF f \in DOMAIN a THEN a[f] ELSE o[f]
  BY <1>1 DEF AllFit, TypedOptions, Over
<1>4. \A f \in Fields : Fits(f, Over(a, o)[f])
  BY <1>1, <1>3 DEF AllFit, TypedOptions
<1> QED BY <1>2, <1>4 DEF TypedOptions, a

(* What the types of the options say, one field at a time.                 *)
LEMMA OptionTypes ==
  ASSUME NEW o, TypedOptions(o)
  PROVE  /\ o.video \in BOOLEAN /\ o.audio \in BOOLEAN /\ o.control \in BOOLEAN
         /\ o.window \in BOOLEAN /\ o.video_playback \in BOOLEAN /\ o.audio_playback \in BOOLEAN
         /\ o.otg \in BOOLEAN /\ o.flex_display \in BOOLEAN
         /\ o.audio_buffer \in Int /\ o.audio_buffer >= -1
         /\ o.video_source \in VideoSources /\ o.audio_source \in AudioSources \cup {Automatic}
         /\ o.keyboard_input_mode \in Modes /\ o.mouse_input_mode \in Modes
         /\ o.gamepad_input_mode \in Modes \ {"sdk"}
<1>1. \A f \in Switches : o[f] \in BOOLEAN
  BY FieldFacts DEF TypedOptions, Fits
<1>2. \A f \in Chosen : Fits(f, o[f])
  BY FieldFacts DEF TypedOptions
<1>3. /\ Fits("audio_buffer", o.audio_buffer) /\ Fits("video_source", o.video_source)
      /\ Fits("audio_source", o.audio_source) /\ Fits("keyboard_input_mode", o.keyboard_input_mode)
      /\ Fits("mouse_input_mode", o.mouse_input_mode)
      /\ Fits("gamepad_input_mode", o.gamepad_input_mode)
  BY <1>2, FieldFacts DEF TypedOptions, Chosen
<1>4. /\ o.video \in BOOLEAN /\ o.audio \in BOOLEAN /\ o.control \in BOOLEAN
      /\ o.window \in BOOLEAN /\ o.video_playback \in BOOLEAN /\ o.audio_playback \in BOOLEAN
      /\ o.otg \in BOOLEAN /\ o.flex_display \in BOOLEAN
  BY <1>1 DEF Switches
<1>5. /\ o.audio_buffer \in Int /\ o.audio_buffer >= -1
      /\ o.video_source \in VideoSources /\ o.audio_source \in AudioSources \cup {Automatic}
  BY <1>3 DEF Fits
<1>6. /\ o.keyboard_input_mode \in Modes /\ o.mouse_input_mode \in Modes
      /\ o.gamepad_input_mode \in Modes \ {"sdk"}
  BY <1>3 DEF Fits
<1> QED BY <1>4, <1>5, <1>6

(* A check that changes the fields of a set F and no other.                *)
Changes(o, p, F) ==
  DOMAIN p = Fields /\ F \subseteq Fields /\ \A f \in Fields \ F : p[f] = o[f]

(* A check keeps the types when the fields that it sets fit.               *)
LEMMA StageTyped ==
  ASSUME NEW o, NEW p, NEW F, TypedOptions(o), Changes(o, p, F), \A f \in F : Fits(f, p[f])
  PROVE  TypedOptions(p)
BY DEF TypedOptions, Changes

(* PlaybackOff: nothing is displayed without a window or a video stream.   *)
LEMMA PlaybackStage ==
  ASSUME NEW o, TypedOptions(o)
  PROVE  /\ TypedOptions(PlaybackOff(o))
         /\ Changes(o, PlaybackOff(o), {"video_playback", "power_on", "audio_playback"})
         /\ PlaybackOff(o).video_playback => o.window /\ o.video
         /\ PlaybackOff(o).audio_playback => o.audio
<1> DEFINE p == PlaybackOff(o)
           F == {"video_playback", "power_on", "audio_playback"}
<1>1. /\ "video_playback" \in Fields /\ "power_on" \in Fields /\ "audio_playback" \in Fields
  BY FieldFacts DEF Switches
<1>2. Changes(o, p, F)
  BY <1>1 DEF TypedOptions, PlaybackOff, Changes
<1>3. /\ p.video_playback = (o.video_playback /\ o.window /\ o.video)
      /\ p.audio_playback = (o.audio_playback /\ o.audio)
      /\ p.power_on = (o.power_on /\ o.video)
  BY <1>1 DEF TypedOptions, PlaybackOff
<1>4. /\ p.video_playback \in BOOLEAN /\ p.audio_playback \in BOOLEAN /\ p.power_on \in BOOLEAN
  BY <1>3
<1>5. \A f \in F : f \in Switches \/ f \notin Judged
  BY DEF Switches, Judged, FreeStrings, Chosen
<1>6. \A f \in F : Fits(f, p[f])
  BY <1>4, <1>5, SwitchFits
<1>7. TypedOptions(p)
  BY <1>2, <1>6, StageTyped
<1> QED BY <1>2, <1>3, <1>7

(* CaptureOff: what nobody uses is not captured.                           *)
LEMMA CaptureStage ==
  ASSUME NEW o, TypedOptions(o)
  PROVE  /\ TypedOptions(CaptureOff(o))
         /\ Changes(o, CaptureOff(o), {"video", "audio"})
         /\ CaptureOff(o).video <=>
              o.video /\ (o.video_playback \/ o.record_filename # None \/ V4l2(o))
         /\ CaptureOff(o).audio <=> o.audio /\ (o.audio_playback \/ o.record_filename # None)
<1> DEFINE p == CaptureOff(o)
           F == {"video", "audio"}
<1>1. "video" \in Fields /\ "audio" \in Fields
  BY FieldFacts DEF Switches
<1>2. Changes(o, p, F)
  BY <1>1 DEF TypedOptions, CaptureOff, Changes
<1>3. /\ p.video = (o.video /\ (o.video_playback \/ o.record_filename # None \/ V4l2(o)))
      /\ p.audio = (o.audio /\ (o.audio_playback \/ o.record_filename # None))
  BY <1>1 DEF TypedOptions, CaptureOff
<1>4. p.video \in BOOLEAN /\ p.audio \in BOOLEAN
  BY <1>3
<1>5. \A f \in F : f \in Switches
  BY DEF Switches
<1>6. \A f \in F : Fits(f, p[f])
  BY <1>4, <1>5, SwitchFits
<1>7. TypedOptions(p)
  BY <1>2, <1>6, StageTyped
<1> QED BY <1>2, <1>3, <1>7

(* StreamDefaults: the buffer of the player gets a size.                   *)
LEMMA DefaultsStage ==
  ASSUME NEW o, TypedOptions(o)
  PROVE  /\ TypedOptions(StreamDefaults(o))
         /\ Changes(o, StreamDefaults(o), {"require_audio", "audio_buffer", "downsize_on_error"})
         /\ o.audio_playback => StreamDefaults(o).audio_buffer >= 0
<1> DEFINE p == StreamDefaults(o)
           F == {"require_audio", "audio_buffer", "downsize_on_error"}
<1>1. "require_audio" \in Fields /\ "audio_buffer" \in Fields /\ "downsize_on_error" \in Fields
  BY FieldFacts
<1>2. Changes(o, p, F)
  BY <1>1 DEF TypedOptions, StreamDefaults, Changes
<1>3. p.audio_buffer = IF o.audio_playback /\ o.audio_buffer = -1
                       THEN IF o.audio_codec = "flac" THEN 120 ELSE 50
                       ELSE o.audio_buffer
  BY <1>1 DEF TypedOptions, StreamDefaults
<1>4. o.audio_buffer \in Int /\ o.audio_buffer >= -1
  BY OptionTypes
<1>5. p.audio_buffer \in Int /\ p.audio_buffer >= -1 /\ (o.audio_playback => p.audio_buffer >= 0)
  BY <1>3, <1>4
<1>6. Fits("audio_buffer", p.audio_buffer)
  BY <1>5 DEF Fits, Switches, FreeStrings
<1>7. \A f \in F \ {"audio_buffer"} : f \notin Judged
  BY DEF Switches, Judged, FreeStrings, Chosen
<1> HIDE DEF p
<1>8. \A f \in F : Fits(f, p[f])
  BY <1>6, <1>7, UnjudgedFits
<1>9. TypedOptions(p)
  BY <1>2, <1>8, StageTyped
<1> QED BY <1>2, <1>5, <1>9 DEF p

(* InputModes: for a display, a mode that was left open is chosen, and the *)
(* mouse is an SDK one by itself only where a picture is played.           *)
Settled == {"disabled", "sdk", "uhid", "aoa"}
InputFields == {"keyboard_input_mode", "mouse_input_mode", "gamepad_input_mode"}

(* The input modes are fields, and a settled mode fits them.               *)
LEMMA InputFieldFacts ==
  /\ InputFields \subseteq Fields
  /\ Settled \subseteq Modes
  /\ \A f \in InputFields : \A v \in Settled : (f = "gamepad_input_mode" => v # "sdk") => Fits(f, v)
<1>1. InputFields \subseteq Fields
  BY FieldFacts DEF InputFields, Chosen
<1>2. Settled \subseteq Modes
  BY DEF Settled, Modes
<1>3. ASSUME NEW f \in InputFields, NEW v \in Settled, f = "gamepad_input_mode" => v # "sdk"
      PROVE  Fits(f, v)
  <2>1. f \notin Switches \cup FreeStrings
    BY DEF InputFields, Switches, FreeStrings
  <2>2. v \in Modes /\ (f = "gamepad_input_mode" => v \in Modes \ {"sdk"})
    BY <1>2, <1>3
  <2> QED BY <2>1, <2>2 DEF Fits, InputFields
<1> QED BY <1>1, <1>2, <1>3

(* InputModes settles the modes of a session that mirrors a display.       *)
LEMMA InputStage ==
  ASSUME NEW o, TypedOptions(o)
  PROVE  /\ TypedOptions(InputModes(o))
         /\ Changes(o, InputModes(o), InputFields)
         /\ o.control /\ o.video_source = "display" =>
              /\ InputModes(o).keyboard_input_mode \in Settled
              /\ InputModes(o).mouse_input_mode \in Settled
              /\ InputModes(o).gamepad_input_mode \in Settled
              /\ InputModes(o).mouse_input_mode = "sdk" =>
                   o.mouse_input_mode = "sdk" \/ o.video_playback
<1> DEFINE p == InputModes(o)
<1> USE InputFieldFacts
<1>1. CASE ~(o.control /\ o.video_source = "display")
  <2>1. p = o
    BY <1>1 DEF InputModes
  <2>2. Changes(o, p, InputFields)
    BY <2>1 DEF Changes, TypedOptions
  <2> HIDE DEF p
  <2> QED BY <1>1, <2>1, <2>2 DEF p
<1>2. CASE o.control /\ o.video_source = "display"
  <2> DEFINE hid == IF Otg(o) THEN "aoa" ELSE "uhid"
             Chooses(mode, auto) ==
               CASE mode = Automatic -> auto [] mode = "uhid_or_aoa" -> hid [] OTHER -> mode
             keyboard == Chooses(o.keyboard_input_mode, IF Otg(o) THEN "aoa" ELSE "sdk")
             mouse == Chooses(o.mouse_input_mode, IF Otg(o) THEN "aoa"
                                                  ELSE IF o.video_playback THEN "sdk"
                                                  ELSE "disabled")
             gamepad == Chooses(o.gamepad_input_mode, "disabled")
  <2>1. p = [o EXCEPT !.keyboard_input_mode = keyboard, !.mouse_input_mode = mouse,
                      !.gamepad_input_mode = gamepad]
    BY <1>2 DEF InputModes
  <2>2. \A m, a : /\ m = Automatic => Chooses(m, a) = a
                  /\ m = "uhid_or_aoa" => Chooses(m, a) = hid
                  /\ m \in Settled => Chooses(m, a) = m
    BY DEF Settled, Automatic
  <2>3. hid \in Settled /\ hid # "sdk"
    BY DEF Settled
  <2>4. \A m \in Modes : m = Automatic \/ m = "uhid_or_aoa" \/ m \in Settled
    BY DEF Modes, Settled
  <2>5. /\ o.keyboard_input_mode \in Modes /\ o.mouse_input_mode \in Modes
        /\ o.gamepad_input_mode \in Modes /\ o.gamepad_input_mode # "sdk"
    BY OptionTypes
  <2> HIDE DEF hid, Chooses
  <2>6. keyboard \in Settled
    <3>1. (IF Otg(o) THEN "aoa" ELSE "sdk") \in Settled
      BY DEF Settled
    <3> QED BY <2>2, <2>3, <2>4, <2>5, <3>1
  <2>7. mouse \in Settled /\ (mouse = "sdk" => o.mouse_input_mode = "sdk" \/ o.video_playback)
    <3> DEFINE auto == IF Otg(o) THEN "aoa" ELSE IF o.video_playback THEN "sdk" ELSE "disabled"
    <3>1. auto \in Settled /\ (auto = "sdk" => o.video_playback)
      BY DEF Settled
    <3> HIDE DEF auto
    <3>2. Chooses(o.mouse_input_mode, auto) \in Settled
      BY <2>2, <2>3, <2>4, <2>5, <3>1
    <3>3. Chooses(o.mouse_input_mode, auto) = "sdk" => o.mouse_input_mode = "sdk" \/ o.video_playback
      BY <2>2, <2>3, <2>4, <2>5, <3>1
    <3> QED BY <3>2, <3>3 DEF auto
  <2>8. gamepad \in Settled /\ gamepad # "sdk"
    <3>1. "disabled" \in Settled /\ "disabled" # "sdk"
      BY DEF Settled
    <3> QED BY <2>2, <2>3, <2>4, <2>5, <3>1
  <2> HIDE DEF p, keyboard, mouse, gamepad
  <2>9. DOMAIN o = Fields
    BY DEF TypedOptions
  <2>10. /\ "keyboard_input_mode" \in Fields /\ "mouse_input_mode" \in Fields
         /\ "gamepad_input_mode" \in Fields
    BY DEF InputFields
  <2>11. Changes(o, p, InputFields)
    BY <2>1, <2>9 DEF Changes, InputFields
  <2>12. /\ p.keyboard_input_mode = keyboard /\ p.mouse_input_mode = mouse
         /\ p.gamepad_input_mode = gamepad
    BY <2>1, <2>9, <2>10
  <2>13. /\ Fits("keyboard_input_mode", keyboard) /\ Fits("mouse_input_mode", mouse)
         /\ Fits("gamepad_input_mode", gamepad)
    BY <2>6, <2>7, <2>8 DEF InputFields
  <2>14. \A f \in InputFields : Fits(f, p[f])
    BY <2>12, <2>13 DEF InputFields
  <2>15. TypedOptions(p)
    BY <2>11, <2>14, StageTyped
  <2> QED BY <2>6, <2>7, <2>8, <2>11, <2>12, <2>15 DEF p
<1> QED BY <1>1, <1>2

(* DefaultBindings and RenderFit: neither is left open.                    *)
LEMMA BindingsStage ==
  ASSUME NEW o, TypedOptions(o)
  PROVE  /\ TypedOptions(DefaultBindings(o))
         /\ Changes(o, DefaultBindings(o), {"mouse_bindings"})
         /\ DefaultBindings(o).mouse_bindings # AutoBindings
<1> DEFINE p == DefaultBindings(o)
           sdk == [pri |-> DefaultShortcuts, sec |-> ForwardClicks]
           other == [pri |-> ForwardClicks, sec |-> DefaultShortcuts]
<1>1. "mouse_bindings" \in Fields /\ "mouse_bindings" \notin Judged
  BY FieldFacts DEF Judged, Switches, FreeStrings, Chosen
<1>2. Changes(o, p, {"mouse_bindings"})
  BY <1>1 DEF TypedOptions, DefaultBindings, Changes
<1>3. p.mouse_bindings = IF o.mouse_bindings # AutoBindings THEN o.mouse_bindings
                         ELSE IF o.mouse_input_mode = "sdk" THEN sdk ELSE other
  BY <1>1 DEF TypedOptions, DefaultBindings
<1>4. sdk # AutoBindings /\ other # AutoBindings
  <2>1. Len(DefaultShortcuts) = 4 /\ Len(ForwardClicks) = 4 /\ Len(<<>>) = 0
    BY DEF DefaultShortcuts, ForwardClicks
  <2>2. AutoBindings.pri = <<>>
    BY DEF AutoBindings
  <2> QED BY <2>1, <2>2
<1> HIDE DEF sdk, other
<1>5. p.mouse_bindings # AutoBindings
  BY <1>3, <1>4
<1> HIDE DEF p
<1>6. TypedOptions(p)
  BY <1>1, <1>2, UnjudgedFits, StageTyped
<1> QED BY <1>2, <1>5, <1>6 DEF p

(* RenderFit settles how the frames are fitted in the window.              *)
LEMMA RenderStage ==
  ASSUME NEW o, TypedOptions(o)
  PROVE  /\ TypedOptions(RenderFit(o))
         /\ Changes(o, RenderFit(o), {"render_fit"})
         /\ RenderFit(o).render_fit # Automatic
<1> DEFINE p == RenderFit(o)
<1>1. "render_fit" \in Fields /\ "render_fit" \notin Judged
  BY FieldFacts DEF Judged, Switches, FreeStrings, Chosen
<1>2. Changes(o, p, {"render_fit"})
  BY <1>1 DEF TypedOptions, RenderFit, Changes
<1>3. p.render_fit # Automatic
  BY <1>1 DEF TypedOptions, RenderFit, Automatic
<1> HIDE DEF p
<1>4. TypedOptions(p)
  BY <1>1, <1>2, UnjudgedFits, StageTyped
<1> QED BY <1>2, <1>3, <1>4 DEF p

(* ForcedForward, FreeResizing, RecordFormat and FpsCounter set one field  *)
(* that no property reads.                                                 *)
LEMMA PlainStages ==
  ASSUME NEW o, TypedOptions(o)
  PROVE  /\ TypedOptions(ForcedForward(o)) /\ Changes(o, ForcedForward(o), {"force_adb_forward"})
         /\ TypedOptions(FreeResizing(o))
         /\ Changes(o, FreeResizing(o), {"window_aspect_ratio_lock"})
         /\ TypedOptions(RecordFormat(o)) /\ Changes(o, RecordFormat(o), {"record_format"})
         /\ TypedOptions(FpsCounter(o)) /\ Changes(o, FpsCounter(o), {"start_fps_counter"})
<1>1. /\ "force_adb_forward" \in Fields /\ "window_aspect_ratio_lock" \in Fields
      /\ "record_format" \in Fields /\ "start_fps_counter" \in Fields
  BY FieldFacts
<1>2. /\ "force_adb_forward" \notin Judged /\ "window_aspect_ratio_lock" \notin Judged
      /\ "record_format" \notin Judged /\ "start_fps_counter" \notin Judged
  BY DEF Judged, Switches, FreeStrings, Chosen
<1>3. Changes(o, ForcedForward(o), {"force_adb_forward"})
  BY <1>1 DEF TypedOptions, ForcedForward, Changes
<1>4. Changes(o, FreeResizing(o), {"window_aspect_ratio_lock"})
  BY <1>1 DEF TypedOptions, FreeResizing, Changes
<1>5. Changes(o, RecordFormat(o), {"record_format"})
  BY <1>1 DEF TypedOptions, RecordFormat, Changes
<1>6. Changes(o, FpsCounter(o), {"start_fps_counter"})
  BY <1>1 DEF TypedOptions, FpsCounter, Changes
<1> QED BY <1>2, <1>3, <1>4, <1>5, <1>6, UnjudgedFits, StageTyped

(* CameraInput: a camera takes no input.                                   *)
LEMMA CameraStage ==
  ASSUME NEW o, TypedOptions(o)
  PROVE  /\ TypedOptions(CameraInput(o))
         /\ Changes(o, CameraInput(o), InputFields)
         /\ o.video_source = "camera" /\ o.control =>
              \A f \in InputFields : CameraInput(o)[f] = "disabled"
         /\ ~(o.video_source = "camera" /\ o.control) => CameraInput(o) = o
<1> DEFINE p == CameraInput(o)
<1> USE InputFieldFacts
<1>1. CASE ~(o.video_source = "camera" /\ o.control)
  <2>1. p = o
    BY <1>1 DEF CameraInput
  <2>2. Changes(o, p, InputFields)
    BY <2>1 DEF Changes, TypedOptions
  <2> HIDE DEF p
  <2> QED BY <1>1, <2>1, <2>2 DEF p
<1>2. CASE o.video_source = "camera" /\ o.control
  <2>1. p = [o EXCEPT !.keyboard_input_mode = "disabled", !.mouse_input_mode = "disabled",
                      !.gamepad_input_mode = "disabled"]
    BY <1>2 DEF CameraInput
  <2>2. DOMAIN o = Fields
    BY DEF TypedOptions
  <2> HIDE DEF p
  <2>3. Changes(o, p, InputFields)
    BY <2>1, <2>2 DEF Changes, InputFields
  <2>4. \A f \in InputFields : p[f] = "disabled"
    BY <2>1, <2>2 DEF InputFields
  <2>5. \A f \in InputFields : Fits(f, "disabled")
    BY DEF Settled
  <2>6. TypedOptions(p)
    BY <2>3, <2>4, <2>5, StageTyped
  <2> QED BY <1>2, <2>3, <2>4, <2>6 DEF p
<1> QED BY <1>1, <1>2

(* AudioSource: a source that was left open is chosen when audio is there. *)
LEMMA SourceStage ==
  ASSUME NEW o, TypedOptions(o)
  PROVE  /\ TypedOptions(AudioSource(o))
         /\ Changes(o, AudioSource(o), {"audio_source"})
         /\ o.audio => AudioSource(o).audio_source \in AudioSources
<1> DEFINE p == AudioSource(o)
<1>1. "audio_source" \in Fields
  BY FieldFacts DEF Chosen
<1>2. Changes(o, p, {"audio_source"})
  BY <1>1 DEF TypedOptions, AudioSource, Changes
<1>3. p.audio_source = IF ~(o.audio /\ o.audio_source = Automatic) THEN o.audio_source
                       ELSE IF o.video_source = "camera" THEN "mic"
                       ELSE IF o.audio_dup THEN "playback" ELSE "output"
  BY <1>1 DEF TypedOptions, AudioSource
<1>4. "mic" \in AudioSources /\ "playback" \in AudioSources /\ "output" \in AudioSources
  BY DEF AudioSources
<1>5. o.audio_source \in AudioSources \cup {Automatic}
  BY OptionTypes
<1> HIDE DEF p
<1>6. p.audio_source \in AudioSources \cup {Automatic} /\ (o.audio => p.audio_source \in AudioSources)
  BY <1>3, <1>4, <1>5
<1>7. Fits("audio_source", p.audio_source)
  BY <1>6 DEF Fits, Switches, FreeStrings
<1>8. TypedOptions(p)
  BY <1>2, <1>7, StageTyped
<1> QED BY <1>2, <1>6, <1>8 DEF p

(* A field that a check does not set.                                      *)
LEMMA Kept ==
  ASSUME NEW o, NEW p, NEW F, Changes(o, p, F), NEW f \in Fields, f \notin F
  PROVE  p[f] = o[f]
BY DEF Changes

(* What cli.c has settled once it accepts the options.                     *)
StreamsSettled(c) ==
  /\ c.video_playback => c.video /\ c.window
  /\ c.audio_playback => c.audio /\ c.audio_buffer >= 0
  /\ c.video => c.video_playback \/ c.record_filename # None \/ V4l2(c)
  /\ V4l2(c) => c.video
  /\ c.audio => c.audio_playback \/ c.record_filename # None
  /\ c.video \/ c.audio \/ c.control \/ Otg(c)
  /\ c.audio => c.audio_source \in AudioSources

InputSettled(c) ==
  /\ c.control => \A f \in InputFields : c[f] \in Settled
  /\ c.control /\ c.video_source = "camera" => \A f \in InputFields : c[f] = "disabled"
  /\ c.control /\ c.mouse_input_mode = "sdk" => c.video_playback
  /\ Otg(c) => c.control /\ \A f \in InputFields : c[f] \in {"aoa", "disabled"}
  /\ c.mouse_bindings # AutoBindings /\ c.render_fit # Automatic

DisplaySettled(c) ==
  /\ c.new_display # None => c.display_id = 0 /\ c.video /\ c.video_source = "display"
  /\ c.flex_display => c.new_display # None /\ c.control

Checked(c) == TypedOptions(c) /\ StreamsSettled(c) /\ InputSettled(c) /\ DisplaySettled(c)

(* Options that no check refuses are settled.                              *)
LEMMA CheckFacts ==
  ASSUME NEW o, TypedOptions(o), ~CheckOptions(o).refused
  PROVE  Checked(CheckOptions(o).opts)
<1> DEFINE played == PlaybackOff(o)
           streams == CaptureOff(played)
           sized == StreamDefaults(streams)
           inputs == InputModes(sized)
           bound == DefaultBindings(inputs)
           fitted == RenderFit(bound)
           tunnel == ForcedForward(fitted)
           camera == CameraInput(tunnel)
           free == FreeResizing(camera)
           source == AudioSource(free)
           record == RecordFormat(source)
           c == FpsCounter(record)
<1>1. /\ CheckOptions(o).opts = c
      /\ ~NothingToDo(streams) /\ ~V4l2Refused(sized) /\ ~SdkMouseRefused(sized)
      /\ ~NewDisplayRefused(inputs) /\ ~OtgInputRefused(fitted) /\ ~DisplayRefused(camera)
  BY DEF CheckOptions
<1>2. /\ TypedOptions(played) /\ TypedOptions(streams) /\ TypedOptions(sized) /\ TypedOptions(inputs)
      /\ TypedOptions(bound) /\ TypedOptions(fitted) /\ TypedOptions(tunnel)
      /\ TypedOptions(camera) /\ TypedOptions(free) /\ TypedOptions(source)
      /\ TypedOptions(record) /\ TypedOptions(c)
  <2>1. TypedOptions(played)
    BY PlaybackStage
  <2>2. TypedOptions(streams)
    BY <2>1, CaptureStage
  <2>3. TypedOptions(sized)
    BY <2>2, DefaultsStage
  <2>4. TypedOptions(inputs)
    BY <2>3, InputStage
  <2>5. TypedOptions(bound)
    BY <2>4, BindingsStage
  <2>6. TypedOptions(fitted)
    BY <2>5, RenderStage
  <2>7. TypedOptions(tunnel)
    BY <2>6, PlainStages
  <2>8. TypedOptions(camera)
    BY <2>7, CameraStage
  <2>9. TypedOptions(free)
    BY <2>8, PlainStages
  <2>10. TypedOptions(source)
    BY <2>9, SourceStage
  <2>11. TypedOptions(record)
    BY <2>10, PlainStages
  <2>12. TypedOptions(c)
    BY <2>11, PlainStages
  <2> QED BY <2>1, <2>2, <2>3, <2>4, <2>5, <2>6, <2>7, <2>8, <2>9, <2>10, <2>11, <2>12
<1>3. /\ played.video_playback => played.window /\ played.video
      /\ played.audio_playback => played.audio
  BY PlaybackStage, Kept, FieldFacts DEF Switches
<1>4. /\ streams.video <=>
           played.video /\ (played.video_playback \/ played.record_filename # None \/ V4l2(played))
      /\ streams.audio <=> played.audio /\ (played.audio_playback \/ played.record_filename # None)
      /\ Changes(played, streams, {"video", "audio"})
  BY <1>2, CaptureStage
<1>5. /\ Changes(streams, sized, {"require_audio", "audio_buffer", "downsize_on_error"})
      /\ streams.audio_playback => sized.audio_buffer >= 0
  BY <1>2, DefaultsStage
<1>6. /\ Changes(sized, inputs, InputFields)
      /\ sized.control /\ sized.video_source = "display" =>
              /\ inputs.keyboard_input_mode \in Settled
              /\ inputs.mouse_input_mode \in Settled
              /\ inputs.gamepad_input_mode \in Settled
              /\ inputs.mouse_input_mode = "sdk" =>
                   sized.mouse_input_mode = "sdk" \/ sized.video_playback
  BY <1>2, InputStage
<1>7. Changes(inputs, bound, {"mouse_bindings"}) /\ bound.mouse_bindings # AutoBindings
  BY <1>2, BindingsStage
<1>8. Changes(bound, fitted, {"render_fit"}) /\ fitted.render_fit # Automatic
  BY <1>2, RenderStage
<1>9. Changes(fitted, tunnel, {"force_adb_forward"})
  BY <1>2, PlainStages
<1>10. /\ Changes(tunnel, camera, InputFields)
       /\ tunnel.video_source = "camera" /\ tunnel.control =>
              \A f \in InputFields : camera[f] = "disabled"
       /\ ~(tunnel.video_source = "camera" /\ tunnel.control) => camera = tunnel
  BY <1>2, CameraStage
<1>11. Changes(camera, free, {"window_aspect_ratio_lock"})
  BY <1>2, PlainStages
<1>12. Changes(free, source, {"audio_source"}) /\ (free.audio => source.audio_source \in AudioSources)
  BY <1>2, SourceStage
<1>13. Changes(source, record, {"record_format"})
  BY <1>2, PlainStages
<1>14. Changes(record, c, {"start_fps_counter"})
  BY <1>2, PlainStages
<1> HIDE DEF played, streams, sized, inputs, bound, fitted, tunnel, camera, free, source, record, c
<1>15. Changes(source, c, {"record_format", "start_fps_counter"})
  BY <1>13, <1>14 DEF Changes
<1>16. Changes(camera, c, {"window_aspect_ratio_lock", "audio_source", "record_format",
                           "start_fps_counter"})
  BY <1>11, <1>12, <1>15 DEF Changes
<1> DEFINE Late == {"force_adb_forward", "window_aspect_ratio_lock", "audio_source", "record_format",
                    "start_fps_counter"}
<1>17. Changes(fitted, c, InputFields \cup Late)
  BY <1>9, <1>10, <1>16 DEF Changes
<1>18. Changes(inputs, c, InputFields \cup Late \cup {"mouse_bindings", "render_fit"})
  BY <1>7, <1>8, <1>17 DEF Changes
<1>19. Changes(sized, c, InputFields \cup Late \cup {"mouse_bindings", "render_fit"})
  BY <1>6, <1>18 DEF Changes
<1>20. Changes(streams, c, InputFields \cup Late \cup {"mouse_bindings", "render_fit",
                             "require_audio", "audio_buffer", "downsize_on_error"})
  BY <1>5, <1>19 DEF Changes
<1>21. Changes(played, c, InputFields \cup Late \cup {"mouse_bindings", "render_fit",
                 "require_audio", "audio_buffer", "downsize_on_error", "video", "audio"})
  BY <1>4, <1>20 DEF Changes
<1> DEFINE Fixed == {"video_source", "control", "window", "otg", "flex_display", "record_filename",
                     "v4l2_device", "new_display", "display_id", "video_playback", "audio_playback"}
<1>22. Fixed \subseteq Fields
  BY FieldFacts DEF Switches, Chosen, FreeStrings
<1>23. \A f \in Fixed : /\ f \notin InputFields \cup Late
                        /\ f \notin {"mouse_bindings", "render_fit", "require_audio", "audio_buffer",
                                     "downsize_on_error", "video", "audio"}
  BY DEF InputFields
<1>24. \A f \in Fixed : /\ c[f] = played[f] /\ c[f] = streams[f] /\ c[f] = sized[f]
                        /\ c[f] = inputs[f] /\ c[f] = fitted[f] /\ c[f] = camera[f]
  BY <1>16, <1>17, <1>18, <1>19, <1>20, <1>21, <1>22, <1>23 DEF Changes
<1>25. \A f \in {"video", "audio"} : /\ c[f] = streams[f] /\ c[f] = sized[f]
                                     /\ c[f] = inputs[f] /\ c[f] = free[f]
  BY <1>11, <1>16, <1>18, <1>19, <1>20, FieldFacts DEF Changes, Switches, InputFields
<1>26. /\ c.audio_buffer = sized.audio_buffer /\ c.mouse_bindings = bound.mouse_bindings
       /\ c.render_fit = fitted.render_fit /\ c.audio_source = source.audio_source
  BY <1>8, <1>15, <1>17, <1>19, FieldFacts DEF Changes, Chosen, InputFields
<1>27. \A f \in InputFields : c[f] = camera[f] /\ inputs[f] = fitted[f] /\ fitted[f] = tunnel[f]
  BY <1>7, <1>8, <1>9, <1>16, InputFieldFacts DEF Changes, InputFields
<1>28. tunnel.control = c.control /\ tunnel.video_source = c.video_source
  BY <1>9, <1>24, FieldFacts DEF Changes, Switches, Chosen
<1> HIDE DEF Fixed, Late
<1>29. /\ c.video_source = sized.video_source /\ c.video_source = inputs.video_source
       /\ c.control = sized.control /\ c.control = streams.control
       /\ c.control = fitted.control /\ c.control = camera.control
  BY <1>24 DEF Fixed
<1>30. /\ c.window = played.window /\ c.flex_display = camera.flex_display
       /\ c.new_display = inputs.new_display /\ c.new_display = camera.new_display
       /\ c.display_id = camera.display_id /\ c.record_filename = played.record_filename
  BY <1>24 DEF Fixed
<1>31. /\ c.video_playback = played.video_playback /\ c.video_playback = sized.video_playback
       /\ c.audio_playback = played.audio_playback /\ c.audio_playback = streams.audio_playback
  BY <1>24 DEF Fixed
<1>32. /\ (V4l2(c) <=> V4l2(played)) /\ (V4l2(c) <=> V4l2(sized))
       /\ (Otg(c) <=> Otg(streams)) /\ (Otg(c) <=> Otg(fitted))
  <2>1. /\ c.v4l2_device = played.v4l2_device /\ c.v4l2_device = sized.v4l2_device
        /\ c.otg = streams.otg /\ c.otg = fitted.otg
    BY <1>24 DEF Fixed
  <2> QED BY <2>1 DEF V4l2, Otg
<1>33. /\ c.video = streams.video /\ c.video = sized.video /\ c.video = inputs.video
       /\ c.audio = streams.audio /\ c.audio = free.audio
  BY <1>25
<1>34. StreamsSettled(c)
  <2>1. c.video_playback => c.video /\ c.window
    BY <1>3, <1>4, <1>30, <1>31, <1>33
  <2>2. c.audio_playback => c.audio /\ c.audio_buffer >= 0
    BY <1>3, <1>4, <1>5, <1>26, <1>31, <1>33
  <2>3. c.video => c.video_playback \/ c.record_filename # None \/ V4l2(c)
    BY <1>4, <1>30, <1>31, <1>32, <1>33
  <2>4. V4l2(c) => c.video
    BY <1>1, <1>32, <1>33 DEF V4l2Refused
  <2>5. c.audio => c.audio_playback \/ c.record_filename # None
    BY <1>4, <1>30, <1>31, <1>33
  <2>6. c.video \/ c.audio \/ c.control \/ Otg(c)
    BY <1>1, <1>29, <1>32, <1>33 DEF NothingToDo
  <2>7. c.audio => c.audio_source \in AudioSources
    BY <1>12, <1>26, <1>33
  <2> QED BY <2>1, <2>2, <2>3, <2>4, <2>5, <2>6, <2>7 DEF StreamsSettled
<1>35. InputSettled(c)
  <2>1. c.video_source \in {"display", "camera"}
    BY <1>2, OptionTypes DEF VideoSources
  <2>2. ASSUME c.control, c.video_source = "camera"
        PROVE  \A f \in InputFields : c[f] = "disabled"
    BY <1>10, <1>27, <1>28, <2>2
  <2>3. ASSUME ~(c.control /\ c.video_source = "camera")
        PROVE  \A f \in InputFields : c[f] = inputs[f]
    BY <1>10, <1>27, <1>28, <2>3
  <2>4. c.control => \A f \in InputFields : c[f] \in Settled
    <3>1. CASE c.video_source = "camera"
      BY <2>2, <3>1 DEF Settled
    <3>2. CASE c.video_source = "display"
      <4>1. c.control => \A f \in InputFields : inputs[f] \in Settled
        BY <1>6, <1>29, <3>2 DEF InputFields
      <4> QED BY <2>3, <3>2, <4>1
    <3> QED BY <2>1, <3>1, <3>2
  <2>5. c.control /\ c.mouse_input_mode = "sdk" => c.video_playback
    <3>1. CASE c.video_source = "camera"
      BY <2>2, <3>1 DEF InputFields
    <3>2. CASE c.video_source = "display"
      <4>1. c.mouse_input_mode = inputs.mouse_input_mode
        BY <2>3, <3>2 DEF InputFields
      <4>2. c.control /\ sized.mouse_input_mode = "sdk" => sized.video_playback
        BY <1>1, <1>29, <3>2 DEF SdkMouseRefused
      <4> QED BY <1>6, <1>29, <1>31, <3>2, <4>1, <4>2
    <3> QED BY <2>1, <3>1, <3>2
  <2>6. Otg(c) => c.control /\ \A f \in InputFields : c[f] \in {"aoa", "disabled"}
    <3>1. Otg(c) => /\ c.control
                    /\ {fitted.keyboard_input_mode, fitted.mouse_input_mode, fitted.gamepad_input_mode}
                         \subseteq {"aoa", "disabled"}
      BY <1>1, <1>29, <1>32 DEF OtgInputRefused
    <3>2. Otg(c) => \A f \in InputFields : inputs[f] \in {"aoa", "disabled"}
      BY <1>27, <3>1 DEF InputFields
    <3> QED BY <2>2, <2>3, <3>1, <3>2
  <2>7. c.mouse_bindings # AutoBindings /\ c.render_fit # Automatic
    BY <1>7, <1>8, <1>26
  <2> QED BY <2>2, <2>4, <2>5, <2>6, <2>7 DEF InputSettled
<1>36. DisplaySettled(c)
  <2>1. c.new_display # None => c.video /\ c.video_source = "display"
    BY <1>1, <1>29, <1>30, <1>33 DEF NewDisplayRefused
  <2>2. c.new_display # None => c.display_id = 0
    BY <1>1, <1>30 DEF DisplayRefused
  <2>3. c.flex_display => c.new_display # None /\ c.control
    BY <1>1, <1>29, <1>30 DEF DisplayRefused
  <2> QED BY <2>1, <2>2, <2>3 DEF DisplaySettled
<1> QED BY <1>1, <1>2, <1>34, <1>35, <1>36 DEF Checked

(* The parameters of the server: the ones every line may have, and those   *)
(* that are written only when the client has something to say.             *)
Always == {"log_level", "tunnel_forward", "capture_orientation"}
Strings == {"crop", "max_fps", "angle", "video_codec_options", "audio_codec_options",
            "video_encoder", "audio_encoder", "camera_id", "camera_size", "camera_ar",
            "camera_zoom", "new_display"}
Streaming == {"video", "video_bit_rate", "audio", "audio_bit_rate", "video_codec", "audio_codec",
              "video_source", "audio_source", "audio_dup", "max_size", "min_size_alignment"}
Displaying == {"control", "display_id", "camera_facing", "camera_fps", "camera_high_speed",
            "camera_torch", "show_touches", "stay_awake", "screen_off_timeout",
            "power_off_on_close", "clipboard_autosync"}
Session == {"downsize_on_error", "cleanup", "power_on", "flex_display",
           "ignore_video_encoder_constraints", "display_ime_policy", "vd_destroy_content",
           "vd_system_decorations", "keep_active", "list"}
Omitted == Strings \cup Streaming \cup Displaying \cup Session

(* The tables of both sides have the same parameters.                      *)
LEMMA Tables ==
  /\ DOMAIN ClientOmits = Omitted
  /\ DOMAIN ServerDefaults = Omitted \cup Always
  /\ \A k \in Omitted : k \notin Always
  /\ Strings = FreeStrings \ {"start_app", "v4l2_device", "serial", "tcpip_dst"}
  /\ \A k \in Streaming \cup Displaying \cup Session : k \notin FreeStrings
  /\ Validated = Strings
<1>1. Strings = FreeStrings \ {"start_app", "v4l2_device", "serial", "tcpip_dst"}
  BY DEF Strings, FreeStrings
<1>2. DOMAIN ClientOmits = Omitted
  <2>1. DOMAIN ClientOmits = Strings \cup (Streaming \cup Displaying \cup Session)
    BY <1>1 DEF ClientOmits, Over, Streaming, Displaying, Session
  <2> QED BY <2>1 DEF Omitted
<1>3. DOMAIN ServerDefaults = Omitted \cup Always
  BY DEF ServerDefaults, Omitted, Always, Strings, Streaming, Displaying, Session
<1>4. \A k \in Omitted : k \notin Always
  BY DEF Omitted, Always, Strings, Streaming, Displaying, Session
<1>5. \A k \in Streaming \cup Displaying \cup Session : k \notin FreeStrings
  BY DEF FreeStrings, Streaming, Displaying, Session
<1>6. Validated = Strings
  BY <1>1, <1>2, <1>5 DEF Validated, Omitted
<1> QED BY <1>1, <1>2, <1>3, <1>4, <1>5, <1>6

(* What the client leaves out is the default of the server, except for the *)
(* bit rates, whose 0 means the default.                                   *)
LEMMA SameDefaults ==
  \A k \in Omitted \ {"video_bit_rate", "audio_bit_rate"} : ClientOmits[k] = ServerDefaults[k]
<1> DEFINE Same(k) == ClientOmits[k] = ServerDefaults[k]
<1>1. \A k \in Strings : ClientOmits[k] = None
  BY Tables DEF ClientOmits, Over
<1>2. \A k \in Strings : ServerDefaults[k] = None
  <2>1. /\ ServerDefaults["crop"] = None /\ ServerDefaults["max_fps"] = None
        /\ ServerDefaults["angle"] = None /\ ServerDefaults["video_codec_options"] = None
        /\ ServerDefaults["audio_codec_options"] = None /\ ServerDefaults["video_encoder"] = None
    BY DEF ServerDefaults
  <2>2. /\ ServerDefaults["audio_encoder"] = None /\ ServerDefaults["camera_id"] = None
        /\ ServerDefaults["camera_size"] = None /\ ServerDefaults["camera_ar"] = None
        /\ ServerDefaults["camera_zoom"] = None /\ ServerDefaults["new_display"] = None
    BY DEF ServerDefaults
  <2> QED BY <2>1, <2>2 DEF Strings
<1>3. /\ Same("video") /\ Same("audio") /\ Same("video_codec") /\ Same("audio_codec")
      /\ Same("video_source") /\ Same("audio_source")
  <2>1. /\ ServerDefaults["video"] = TRUE /\ ServerDefaults["audio"] = TRUE
        /\ ServerDefaults["video_codec"] = "h264" /\ ServerDefaults["audio_codec"] = "opus"
        /\ ServerDefaults["video_source"] = "display"
        /\ ServerDefaults["audio_source"] = "output"
    BY SMT DEF ServerDefaults
  <2>2. /\ ClientOmits["video"] = TRUE /\ ClientOmits["audio"] = TRUE
        /\ ClientOmits["video_codec"] = "h264" /\ ClientOmits["audio_codec"] = "opus"
        /\ ClientOmits["video_source"] = "display" /\ ClientOmits["audio_source"] = "output"
    BY SMT DEF ClientOmits, Over, FreeStrings
  <2> QED BY <2>1, <2>2
<1>4. /\ Same("audio_dup") /\ Same("max_size") /\ Same("min_size_alignment") /\ Same("control")
      /\ Same("display_id") /\ Same("camera_facing")
  <2>1. /\ ServerDefaults["audio_dup"] = FALSE /\ ServerDefaults["max_size"] = 0
        /\ ServerDefaults["min_size_alignment"] = 1 /\ ServerDefaults["control"] = TRUE
        /\ ServerDefaults["display_id"] = 0 /\ ServerDefaults["camera_facing"] = "any"
    BY SMT DEF ServerDefaults
  <2>2. /\ ClientOmits["audio_dup"] = FALSE /\ ClientOmits["max_size"] = 0
        /\ ClientOmits["min_size_alignment"] = 1 /\ ClientOmits["control"] = TRUE
        /\ ClientOmits["display_id"] = 0 /\ ClientOmits["camera_facing"] = "any"
    BY SMT DEF ClientOmits, Over, FreeStrings
  <2> QED BY <2>1, <2>2
<1>5. /\ Same("camera_fps") /\ Same("camera_high_speed") /\ Same("camera_torch")
      /\ Same("show_touches") /\ Same("stay_awake") /\ Same("screen_off_timeout")
  <2>1. /\ ServerDefaults["camera_fps"] = 0 /\ ServerDefaults["camera_high_speed"] = FALSE
        /\ ServerDefaults["camera_torch"] = FALSE /\ ServerDefaults["show_touches"] = FALSE
        /\ ServerDefaults["stay_awake"] = FALSE /\ ServerDefaults["screen_off_timeout"] = -1
    BY SMT DEF ServerDefaults
  <2>2. /\ ClientOmits["camera_fps"] = 0 /\ ClientOmits["camera_high_speed"] = FALSE
        /\ ClientOmits["camera_torch"] = FALSE /\ ClientOmits["show_touches"] = FALSE
        /\ ClientOmits["stay_awake"] = FALSE /\ ClientOmits["screen_off_timeout"] = -1
    BY SMT DEF ClientOmits, Over, FreeStrings
  <2> QED BY <2>1, <2>2
<1>6. /\ Same("power_off_on_close") /\ Same("clipboard_autosync") /\ Same("downsize_on_error")
      /\ Same("cleanup") /\ Same("power_on") /\ Same("flex_display")
  <2>1. /\ ServerDefaults["power_off_on_close"] = FALSE
        /\ ServerDefaults["clipboard_autosync"] = TRUE
        /\ ServerDefaults["downsize_on_error"] = TRUE /\ ServerDefaults["cleanup"] = TRUE
        /\ ServerDefaults["power_on"] = TRUE /\ ServerDefaults["flex_display"] = FALSE
    BY SMT DEF ServerDefaults
  <2>2. /\ ClientOmits["power_off_on_close"] = FALSE /\ ClientOmits["clipboard_autosync"] = TRUE
        /\ ClientOmits["downsize_on_error"] = TRUE /\ ClientOmits["cleanup"] = TRUE
        /\ ClientOmits["power_on"] = TRUE /\ ClientOmits["flex_display"] = FALSE
    BY SMT DEF ClientOmits, Over, FreeStrings
  <2> QED BY <2>1, <2>2
<1>7. /\ Same("ignore_video_encoder_constraints") /\ Same("display_ime_policy")
      /\ Same("vd_destroy_content") /\ Same("vd_system_decorations") /\ Same("keep_active")
      /\ Same("list")
  <2>1. /\ ServerDefaults["ignore_video_encoder_constraints"] = FALSE
        /\ ServerDefaults["display_ime_policy"] = "undefined"
        /\ ServerDefaults["vd_destroy_content"] = TRUE
        /\ ServerDefaults["vd_system_decorations"] = TRUE
        /\ ServerDefaults["keep_active"] = FALSE /\ ServerDefaults["list"] = {}
    BY SMT DEF ServerDefaults
  <2>2. /\ ClientOmits["ignore_video_encoder_constraints"] = FALSE
        /\ ClientOmits["display_ime_policy"] = "undefined"
        /\ ClientOmits["vd_destroy_content"] = TRUE
        /\ ClientOmits["vd_system_decorations"] = TRUE /\ ClientOmits["keep_active"] = FALSE
        /\ ClientOmits["list"] = {}
    BY SMT DEF ClientOmits, Over, FreeStrings
  <2> QED BY <2>1, <2>2
<1>8. \A k \in Strings : Same(k)
  BY <1>1, <1>2
<1> HIDE DEF Same
<1>9. \A k \in Omitted \ {"video_bit_rate", "audio_bit_rate"} : Same(k)
  BY <1>3, <1>4, <1>5, <1>6, <1>7, <1>8 DEF Omitted, Streaming, Displaying, Session
<1> QED BY <1>9 DEF Same

(* The bit rates, the only parameters with another default on each side.   *)
LEMMA BitRates ==
  /\ ClientOmits["video_bit_rate"] = 0 /\ ServerDefaults["video_bit_rate"] = 8000000
  /\ ClientOmits["audio_bit_rate"] = 0 /\ ServerDefaults["audio_bit_rate"] = 128000
<1>1. ServerDefaults["video_bit_rate"] = 8000000 /\ ServerDefaults["audio_bit_rate"] = 128000
  BY SMT DEF ServerDefaults
<1>2. ClientOmits["video_bit_rate"] = 0 /\ ClientOmits["audio_bit_rate"] = 0
  BY SMT DEF ClientOmits, Over, FreeStrings
<1> QED BY <1>1, <1>2

(* What the line holds.                                                    *)
AlwaysWritten(text, o, fwd) ==
  /\ DOMAIN text \subseteq Omitted \cup Always
  /\ "log_level" \in DOMAIN text /\ text["log_level"] = o.log_level
  /\ "tunnel_forward" \in DOMAIN text <=> fwd
  /\ fwd => text["tunnel_forward"] = TRUE
  /\ "capture_orientation" \in DOMAIN text <=> OrientationWritten(o)
  /\ OrientationWritten(o) => text["capture_orientation"] = PrintedOrientation(o)

WrittenIfNeeded(text, o) ==
  \A k \in Omitted :
    /\ k \in DOMAIN text <=> o[k] # ClientOmits[k] /\ ~(k = "audio_source" /\ ~o.audio)
    /\ k \in DOMAIN text => text[k] = IF k = "screen_off_timeout" THEN 1000 * o[k] ELSE o[k]

(* What execute_server writes on the line.                                 *)
LEMMA LineFacts ==
  ASSUME NEW o, NEW fwd \in BOOLEAN
  PROVE  /\ AlwaysWritten(CommandLineOf(o, fwd), o, fwd)
         /\ WrittenIfNeeded(CommandLineOf(o, fwd), o)
<1> DEFINE text == CommandLineOf(o, fwd)
<1> DEFINE Keys == {"log_level"} \cup Written(o)
                     \cup (IF fwd THEN {"tunnel_forward"} ELSE {})
                     \cup (IF OrientationWritten(o) THEN {"capture_orientation"} ELSE {})
           value(f) == CASE f = "tunnel_forward" -> fwd
                         [] f = "capture_orientation" -> PrintedOrientation(o)
                         [] OTHER -> Printed(f, o)
<1>1. text = [f \in Keys |-> value(f)]
  BY DEF CommandLineOf
<1>2. \A f \in Omitted : f \in Written(o) <=>
        o[f] # ClientOmits[f] /\ ~(f = "audio_source" /\ ~o.audio)
  BY Tables DEF Written
<1>3. Written(o) \subseteq Omitted
  BY Tables DEF Written
<1>4. /\ "log_level" \in Always /\ "tunnel_forward" \in Always /\ "capture_orientation" \in Always
  BY DEF Always
<1>5. /\ value("tunnel_forward") = fwd /\ value("capture_orientation") = PrintedOrientation(o)
      /\ value("log_level") = o.log_level
      /\ \A k \in Omitted : value(k) = Printed(k, o)
  <2>1. \A k \in Omitted : k # "tunnel_forward" /\ k # "capture_orientation"
    BY Tables, <1>4
  <2> QED BY <2>1 DEF Printed
<1> HIDE DEF value, text
<1>6. DOMAIN text = Keys /\ \A f \in Keys : text[f] = value(f)
  BY <1>1
<1>7. \A f \in Keys : f \in Written(o) \/ f \in Always
  BY <1>4
<1>8. "log_level" \in Keys
  OBVIOUS
<1>9. "tunnel_forward" \in Keys <=> fwd
  BY <1>3, <1>4, Tables
<1>10. "capture_orientation" \in Keys <=> OrientationWritten(o)
  BY <1>3, <1>4, Tables
<1>11. \A k \in Omitted : k \in Keys <=> k \in Written(o)
  BY <1>4, Tables
<1> HIDE DEF Keys
<1>12. AlwaysWritten(text, o, fwd)
  <2>1. DOMAIN text \subseteq Omitted \cup Always
    BY <1>3, <1>6, <1>7
  <2>2. "log_level" \in DOMAIN text /\ text["log_level"] = o.log_level
    BY <1>5, <1>6, <1>8
  <2>3. ("tunnel_forward" \in DOMAIN text <=> fwd) /\ (fwd => text["tunnel_forward"] = TRUE)
    BY <1>5, <1>6, <1>9
  <2>4. /\ "capture_orientation" \in DOMAIN text <=> OrientationWritten(o)
        /\ OrientationWritten(o) => text["capture_orientation"] = PrintedOrientation(o)
    BY <1>5, <1>6, <1>10
  <2> QED BY <2>1, <2>2, <2>3, <2>4 DEF AlwaysWritten
<1>13. ASSUME NEW k \in Omitted
       PROVE  /\ k \in DOMAIN text <=>
                   o[k] # ClientOmits[k] /\ ~(k = "audio_source" /\ ~o.audio)
              /\ k \in DOMAIN text => text[k] = IF k = "screen_off_timeout" THEN 1000 * o[k] ELSE o[k]
  <2>1. k \in DOMAIN text <=> k \in Written(o)
    BY <1>6, <1>11
  <2>2. k \in DOMAIN text => text[k] = Printed(k, o)
    BY <1>5, <1>6
  <2>3. Printed(k, o) = IF k = "screen_off_timeout" THEN 1000 * o[k] ELSE o[k]
    BY DEF Printed
  <2> QED BY <1>2, <2>1, <2>2, <2>3
<1> QED BY <1>12, <1>13 DEF WrittenIfNeeded, text

(* The value that the server keeps for a parameter.                        *)
ReadBack(text, k) == IF k \in DOMAIN text THEN Read(k, text[k]) ELSE ServerDefaults[k]

(* What Options.parse makes of a line.                                     *)
LEMMA ParseFacts ==
  ASSUME NEW text, DOMAIN text \subseteq Omitted \cup Always
  PROVE  LET parsed == ServerParse(text)
         IN  /\ parsed.thrown <=>
                  \/ \E k \in DOMAIN text : ~Readable(k, text[k])
                  \/ ReadBack(text, "new_display") # None /\ ReadBack(text, "display_id") # 0
             /\ DOMAIN parsed.opts = Omitted \cup Always
             /\ \A k \in (Omitted \cup Always) \ {"display_id"} : parsed.opts[k] = ReadBack(text, k)
             /\ parsed.opts["display_id"] = IF ReadBack(text, "new_display") # None THEN -1
                                            ELSE ReadBack(text, "display_id")
<1> DEFINE read == [k \in DOMAIN ServerDefaults |->
                      IF k \in DOMAIN text THEN Read(k, text[k]) ELSE ServerDefaults[k]]
           parsed == ServerParse(text)
<1>1. DOMAIN read = Omitted \cup Always /\ \A k \in Omitted \cup Always : read[k] = ReadBack(text, k)
  BY Tables DEF ReadBack
<1>2. "new_display" \in Omitted /\ "display_id" \in Omitted
  BY DEF Omitted, Strings, Displaying
<1>3. /\ parsed.thrown <=>
           \/ \E k \in DOMAIN text \cap DOMAIN ServerDefaults : ~Readable(k, text[k])
           \/ read.new_display # None /\ read.display_id # 0
      /\ parsed.opts = IF read.new_display # None
                       THEN [read EXCEPT !.display_id = DisplayIdNone] ELSE read
  BY DEF ServerParse
<1> HIDE DEF read, parsed
<1>4. DOMAIN text \cap DOMAIN ServerDefaults = DOMAIN text
  BY Tables
<1>5. parsed.thrown <=>
           \/ \E k \in DOMAIN text : ~Readable(k, text[k])
           \/ ReadBack(text, "new_display") # None /\ ReadBack(text, "display_id") # 0
  BY <1>1, <1>2, <1>3, <1>4
<1>6. DOMAIN parsed.opts = Omitted \cup Always
  BY <1>1, <1>3
<1>7. \A k \in (Omitted \cup Always) \ {"display_id"} : parsed.opts[k] = ReadBack(text, k)
  BY <1>1, <1>3
<1>8. parsed.opts["display_id"] = IF ReadBack(text, "new_display") # None THEN -1
                                  ELSE ReadBack(text, "display_id")
  BY <1>1, <1>2, <1>3 DEF DisplayIdNone
<1> QED BY <1>5, <1>6, <1>7, <1>8 DEF parsed

(* Read keeps the value of most parameters as it is.                       *)
LEMMA ReadFacts ==
  ASSUME NEW k, NEW v
  PROVE  /\ k \notin EmptyIsDefault /\ k # "capture_orientation" => Read(k, v) = v
         /\ k \in EmptyIsDefault => Read(k, v) = IF v = Empty THEN ServerDefaults[k] ELSE v
         /\ k = "capture_orientation" =>
              Read(k, v) = IF v.orientation = Empty THEN [lock |-> TRUE, orientation |-> "initial"]
                           ELSE v
<1>1. "capture_orientation" \notin EmptyIsDefault
  BY DEF EmptyIsDefault
<1> QED BY <1>1 DEF Read

(* The server reads what the client meant.                                 *)
LEMMA ServerReads ==
  ASSUME TypedOptions(opts), forward \in BOOLEAN, line = CommandLineOf(opts, forward),
         ~ServerParse(line).thrown
  PROVE  LET o == ServerParse(line).opts
         IN  \A key \in DOMAIN o : o[key] = Meant(key) \/ (key = "audio_source" /\ ~opts.audio)
<1> DEFINE o == ServerParse(line).opts
<1>1. /\ DOMAIN line \subseteq Omitted \cup Always
      /\ "log_level" \in DOMAIN line /\ line["log_level"] = opts.log_level
      /\ "tunnel_forward" \in DOMAIN line <=> forward
      /\ forward => line["tunnel_forward"] = TRUE
      /\ "capture_orientation" \in DOMAIN line <=> OrientationWritten(opts)
      /\ OrientationWritten(opts) => line["capture_orientation"] = PrintedOrientation(opts)
  <2>1. AlwaysWritten(line, opts, forward)
    BY LineFacts
  <2> QED BY <2>1 DEF AlwaysWritten
<1>2. \A k \in Omitted :
        /\ k \in DOMAIN line <=>
             opts[k] # ClientOmits[k] /\ ~(k = "audio_source" /\ ~opts.audio)
        /\ k \in DOMAIN line =>
             line[k] = IF k = "screen_off_timeout" THEN 1000 * opts[k] ELSE opts[k]
  <2>1. WrittenIfNeeded(line, opts)
    BY LineFacts
  <2> QED BY <2>1 DEF WrittenIfNeeded
<1>3. /\ DOMAIN o = Omitted \cup Always
      /\ \A k \in (Omitted \cup Always) \ {"display_id"} : o[k] = ReadBack(line, k)
      /\ o["display_id"] = IF ReadBack(line, "new_display") # None THEN -1 ELSE ReadBack(line, "display_id")
      /\ \A k \in DOMAIN line : Readable(k, line[k])
  BY <1>1, ParseFacts
<1>4. \A f \in Fields : Fits(f, opts[f])
  BY DEF TypedOptions
<1> HIDE DEF o
<1> DEFINE Right(k) == o[k] = Meant(k) \/ (k = "audio_source" /\ ~opts.audio)
           Special == {"video_bit_rate", "audio_bit_rate", "screen_off_timeout", "display_id"}
<1>5. "display_id" \notin Always
  BY DEF Always
<1>6. Right("log_level")
  <2>1. Meant("log_level") = opts["log_level"]
    BY DEF Meant, FreeStrings
  <2>2. "log_level" \in Always /\ "log_level" \notin EmptyIsDefault
    BY DEF Always, EmptyIsDefault
  <2> QED BY <1>1, <1>3, <1>5, <2>1, <2>2, ReadFacts DEF ReadBack
<1>7. Right("tunnel_forward")
  <2>1. Meant("tunnel_forward") = forward
    BY DEF Meant, FreeStrings
  <2>2. "tunnel_forward" \in Always /\ "tunnel_forward" \notin EmptyIsDefault
    BY DEF Always, EmptyIsDefault
  <2>3. ServerDefaults["tunnel_forward"] = FALSE
    BY SMT DEF ServerDefaults
  <2>4. ReadBack(line, "tunnel_forward") = forward
    BY <1>1, <2>2, <2>3, ReadFacts DEF ReadBack
  <2> QED BY <1>3, <1>5, <2>1, <2>2, <2>4
<1>8. Right("capture_orientation")
  <2> DEFINE locked == opts.capture_orientation_lock # "unlocked"
             shown == IF opts.capture_orientation_lock = "initial" THEN "initial"
                      ELSE opts.capture_orientation
  <2>1. Meant("capture_orientation") = [lock |-> locked, orientation |-> shown]
    BY DEF Meant, FreeStrings
  <2>2. "capture_orientation" \in Always
    BY DEF Always
  <2>3. ServerDefaults["capture_orientation"] = [lock |-> FALSE, orientation |-> "0"]
    BY SMT DEF ServerDefaults
  <2>4. opts.capture_orientation \in Orientations /\ opts.capture_orientation # Empty
    <3>1. Fits("capture_orientation", opts.capture_orientation)
      BY <1>4, FieldFacts
    <3>2. opts.capture_orientation \in Orientations
      BY <3>1 DEF Fits
    <3> QED BY <3>2 DEF Orientations, Rotations, Mirrors, Empty
  <2>5. ReadBack(line, "capture_orientation") = [lock |-> locked, orientation |-> shown]
    <3>1. CASE ~OrientationWritten(opts)
      <4>1. ~locked /\ opts.capture_orientation = "0" /\ shown = "0"
        BY <3>1 DEF OrientationWritten
      <4> QED BY <1>1, <2>3, <3>1, <4>1 DEF ReadBack
    <3>2. CASE OrientationWritten(opts) /\ opts.capture_orientation_lock = "initial"
      <4>1. PrintedOrientation(opts) = [lock |-> TRUE, orientation |-> Empty]
        BY <3>2 DEF PrintedOrientation
      <4>2. Read("capture_orientation", PrintedOrientation(opts)) = [lock |-> TRUE, orientation |-> "initial"]
        <5>1. PrintedOrientation(opts).orientation = Empty
          BY <4>1
        <5> QED BY <5>1, ReadFacts
      <4> QED BY <1>1, <3>2, <4>2 DEF ReadBack
    <3>3. CASE OrientationWritten(opts) /\ opts.capture_orientation_lock # "initial"
      <4>1. PrintedOrientation(opts) = [lock |-> locked, orientation |-> opts.capture_orientation]
        BY <3>3 DEF PrintedOrientation
      <4>2. PrintedOrientation(opts).orientation # Empty
        BY <2>4, <4>1
      <4>3. Read("capture_orientation", PrintedOrientation(opts)) = PrintedOrientation(opts)
        BY <4>2, ReadFacts
      <4> QED BY <1>1, <3>3, <4>1, <4>3 DEF ReadBack
    <3> QED BY <3>1, <3>2, <3>3
  <2> QED BY <1>3, <1>5, <2>1, <2>2, <2>5
<1>9. \A k \in {"video_bit_rate", "audio_bit_rate"} : Right(k)
  <2>1. /\ Meant("video_bit_rate") = IF opts["video_bit_rate"] = 0 THEN 8000000 ELSE opts["video_bit_rate"]
        /\ Meant("audio_bit_rate") = IF opts["audio_bit_rate"] = 0 THEN 128000 ELSE opts["audio_bit_rate"]
    BY DEF Meant, FreeStrings
  <2>2. \A k \in {"video_bit_rate", "audio_bit_rate"} :
          k \in Omitted /\ k \notin EmptyIsDefault /\ k # "display_id" /\ k # "capture_orientation"
          /\ k # "screen_off_timeout" /\ k # "audio_source"
    BY DEF Omitted, Streaming, EmptyIsDefault
  <2>3. \A k \in {"video_bit_rate", "audio_bit_rate"} : o[k] = ReadBack(line, k)
    BY <1>3, <2>2
  <2>4. \A k \in {"video_bit_rate", "audio_bit_rate"} :
          ReadBack(line, k) = IF opts[k] = 0 THEN ServerDefaults[k] ELSE opts[k]
    BY <1>2, <2>2, BitRates, ReadFacts DEF ReadBack
  <2> QED BY <2>1, <2>3, <2>4, BitRates
<1>10. Right("screen_off_timeout")
  <2>1. Meant("screen_off_timeout") = IF opts["screen_off_timeout"] = -1 THEN -1
                                      ELSE opts["screen_off_timeout"] * 1000
    BY DEF Meant, FreeStrings
  <2>2. "screen_off_timeout" \in Omitted /\ "screen_off_timeout" \notin EmptyIsDefault
    BY DEF Omitted, Displaying, EmptyIsDefault
  <2>3. ServerDefaults["screen_off_timeout"] = -1
    BY SMT DEF ServerDefaults
  <2>4. ClientOmits["screen_off_timeout"] = -1
    BY <2>2, <2>3, SameDefaults
  <2>5. opts["screen_off_timeout"] \in Int
    <3>1. Fits("screen_off_timeout", opts["screen_off_timeout"])
      BY <1>4, FieldFacts
    <3> QED BY <3>1 DEF Fits
  <2>6. o["screen_off_timeout"] = ReadBack(line, "screen_off_timeout")
    BY <1>3, <2>2
  <2>7. ReadBack(line, "screen_off_timeout") = IF opts["screen_off_timeout"] = -1 THEN -1
                                            ELSE 1000 * opts["screen_off_timeout"]
    BY <1>2, <2>2, <2>3, <2>4, ReadFacts DEF ReadBack
  <2> QED BY <2>1, <2>5, <2>6, <2>7
<1>11. ReadBack(line, "new_display") = opts["new_display"]
  <2>1. "new_display" \in Omitted /\ "new_display" \notin EmptyIsDefault
    BY DEF Omitted, Strings, EmptyIsDefault
  <2>2. ClientOmits["new_display"] = ServerDefaults["new_display"]
    BY <2>1, SameDefaults
  <2> QED BY <1>2, <2>1, <2>2, ReadFacts DEF ReadBack
<1>12. Right("display_id")
  <2>1. Meant("display_id") = IF opts["new_display"] # None THEN -1 ELSE opts["display_id"]
    BY DEF Meant, FreeStrings, DisplayIdNone
  <2>2. "display_id" \in Omitted /\ "display_id" \notin EmptyIsDefault
    BY DEF Omitted, Displaying, EmptyIsDefault
  <2>3. ClientOmits["display_id"] = ServerDefaults["display_id"]
    BY <2>2, SameDefaults
  <2>4. ReadBack(line, "display_id") = opts["display_id"]
    BY <1>2, <2>2, <2>3, ReadFacts DEF ReadBack
  <2> QED BY <1>3, <1>11, <2>1, <2>4
<1>13. \A k \in (Streaming \cup Displaying \cup Session) \ Special : Right(k)
  <2> SUFFICES ASSUME NEW k \in (Streaming \cup Displaying \cup Session) \ Special PROVE Right(k)
    OBVIOUS
  <2>1. k \in Omitted /\ k \notin FreeStrings
    BY Tables DEF Omitted
  <2>2. k \notin Always
    BY <2>1, Tables
  <2>3. k # "tunnel_forward" /\ k # "capture_orientation" /\ k # "log_level"
    BY <2>2 DEF Always
  <2>4. Meant(k) = opts[k]
    BY <2>1, <2>3 DEF Meant
  <2>5. ClientOmits[k] = ServerDefaults[k]
    BY <2>1, SameDefaults
  <2>6. k \in EmptyIsDefault => opts[k] # Empty
    <3>1. k \in EmptyIsDefault => k = "camera_facing"
      BY <2>1 DEF EmptyIsDefault, FreeStrings
    <3>2. opts["camera_facing"] \in CameraFacings \cup {"any"}
      <4>1. Fits("camera_facing", opts["camera_facing"])
        BY <1>4, FieldFacts DEF Chosen
      <4> QED BY <4>1 DEF Fits
    <3> QED BY <3>1, <3>2 DEF CameraFacings, Empty
  <2>7. o[k] = ReadBack(line, k)
    BY <1>3, <2>1
  <2>8. k \in DOMAIN line => ReadBack(line, k) = opts[k]
    BY <1>2, <2>1, <2>3, <2>6, ReadFacts DEF ReadBack
  <2>9. k \notin DOMAIN line => opts[k] = ServerDefaults[k] \/ (k = "audio_source" /\ ~opts.audio)
    BY <1>2, <2>1, <2>5
  <2> QED BY <2>4, <2>7, <2>8, <2>9 DEF ReadBack
<1>14. \A k \in Strings : Right(k)
  <2> SUFFICES ASSUME NEW k \in Strings PROVE Right(k)
    OBVIOUS
  <2>1. k \in Omitted /\ k \in FreeStrings
    BY Tables DEF Omitted
  <2>2. k # "tunnel_forward" /\ k # "capture_orientation" /\ k \notin Special /\ k # "audio_source"
    BY DEF Strings
  <2>3. /\ k = "new_display" => Meant(k) = opts[k]
        /\ k # "new_display" => Meant(k) = IF opts[k] = Empty THEN None ELSE opts[k]
    BY <2>1, <2>2 DEF Meant
  <2>4. ClientOmits[k] = ServerDefaults[k] /\ ServerDefaults[k] = None
    <3>1. ClientOmits[k] = None
      BY <2>1, Tables DEF ClientOmits, Over
    <3> QED BY <2>1, <2>2, <3>1, SameDefaults
  <2>5. o[k] = ReadBack(line, k)
    BY <1>3, <2>1, <2>2
  <2>6. CASE k \notin DOMAIN line
    <3>1. opts[k] = None /\ ReadBack(line, k) = None
      BY <1>2, <2>1, <2>2, <2>4, <2>6 DEF ReadBack
    <3>2. None # Empty
      BY DEF None, Empty
    <3> QED BY <2>3, <2>5, <3>1, <3>2
  <2>7. CASE k \in DOMAIN line /\ k \in EmptyIsDefault
    <3>1. line[k] = opts[k]
      BY <1>2, <2>1, <2>2, <2>7
    <3>2. ReadBack(line, k) = IF opts[k] = Empty THEN None ELSE opts[k]
      BY <2>4, <2>7, <3>1, ReadFacts DEF ReadBack
    <3>3. k # "new_display"
      BY <2>7 DEF EmptyIsDefault
    <3> QED BY <2>3, <2>5, <3>2, <3>3
  <2>8. CASE k \in DOMAIN line /\ k \notin EmptyIsDefault
    <3>1. line[k] = opts[k]
      BY <1>2, <2>1, <2>2, <2>8
    <3>2. ReadBack(line, k) = opts[k]
      BY <2>2, <2>8, <3>1, ReadFacts DEF ReadBack
    <3>3. k = "new_display" \/ k \in Floats
      BY <2>8 DEF Strings, EmptyIsDefault, Floats
    <3>4. k \in Floats => opts[k] = "ok"
      BY <1>3, <2>8, <3>1 DEF Readable, Floats
    <3> QED BY <2>3, <2>5, <3>2, <3>3, <3>4 DEF Empty
  <2> QED BY <2>6, <2>7, <2>8
<1>15. \A k \in Omitted \cup Always : Right(k)
  <2> HIDE DEF Right
  <2>1. \A k \in Always : Right(k)
    BY <1>6, <1>7, <1>8 DEF Always
  <2>2. \A k \in Special : Right(k)
    BY <1>9, <1>10, <1>12
  <2> HIDE DEF Special
  <2> QED BY <1>13, <1>14, <2>1, <2>2 DEF Omitted
<1> QED BY <1>3, <1>15 DEF o

(* Readable, one kind of parameter at a time.                              *)
LEMMA ReadableNames ==
  ASSUME NEW v
  PROVE  /\ v \in VideoCodecs => Readable("video_codec", v)
         /\ v \in AudioCodecs => Readable("audio_codec", v)
         /\ v \in VideoSources => Readable("video_source", v)
         /\ v \in AudioSources => Readable("audio_source", v)
         /\ v \in CameraFacings => Readable("camera_facing", v)
         /\ v \in ImePolicies => Readable("display_ime_policy", v)
         /\ v \in LogLevels => Readable("log_level", v)
<1>1. /\ v \in VideoCodecs => Readable("video_codec", v)
      /\ v \in AudioCodecs => Readable("audio_codec", v)
  BY DEF Readable, VideoCodecs, ServerVideoCodecs, AudioCodecs, ServerAudioCodecs, FreeStrings, Floats
<1>2. /\ v \in VideoSources => Readable("video_source", v)
      /\ v \in AudioSources => Readable("audio_source", v)
  BY DEF Readable, VideoSources, ServerVideoSources, AudioSources, ServerAudioSources, FreeStrings, Floats
<1>3. /\ v \in CameraFacings => Readable("camera_facing", v)
      /\ v \in ImePolicies => Readable("display_ime_policy", v)
  BY DEF Readable, CameraFacings, ServerCameraFacings, ImePolicies, FreeStrings, Floats
<1>4. v \in LogLevels => Readable("log_level", v)
  BY DEF Readable, LogLevels, FreeStrings, Floats
<1> QED BY <1>1, <1>2, <1>3, <1>4

(* The numbers, and the orientation of the capture.                        *)
LEMMA ReadableNumbers ==
  ASSUME NEW v
  PROVE  /\ v \in {1, 2, 4, 8, 16} => Readable("min_size_alignment", v)
         /\ v \in Int /\ v >= -1 => Readable("screen_off_timeout", v)
         /\ v.orientation \in Orientations \/ (v.lock /\ v.orientation = Empty) =>
              Readable("capture_orientation", v)
<1>1. /\ v \in {1, 2, 4, 8, 16} => Readable("min_size_alignment", v)
      /\ v \in Int /\ v >= -1 => Readable("screen_off_timeout", v)
  BY DEF Readable, FreeStrings, Floats
<1>2. ServerOrientations = Orientations
  BY DEF ServerOrientations, Orientations, Rotations, Mirrors
<1>3. v.orientation \in Orientations \/ (v.lock /\ v.orientation = Empty) =>
        Readable("capture_orientation", v)
  BY <1>2 DEF Readable, FreeStrings, Floats
<1> QED BY <1>1, <1>3

Judges == {"video_codec", "audio_codec", "video_source", "audio_source", "camera_facing",
           "display_ime_policy", "log_level", "min_size_alignment", "screen_off_timeout",
           "capture_orientation"}

(* The texts: the server parses the numbers in them at once.               *)
LEMMA ReadableStrings ==
  ASSUME NEW k \in Strings, NEW v
  PROVE  /\ k \in Floats /\ v = "ok" => Readable(k, v)
         /\ k \notin Floats /\ v \in {"ok", Empty} => Readable(k, v)
<1>1. k \in FreeStrings
  BY Tables
<1>2. \A f \in FreeStrings : f \notin Judges
  BY DEF FreeStrings, Judges
<1>3. \A f \in Floats : f \notin {"video_encoder", "audio_encoder", "camera_id"}
  BY DEF Floats
<1>4. k \in Floats /\ v = "ok" => Readable(k, v)
  BY <1>1, <1>2, <1>3 DEF Readable, Judges
<1>5. k \notin Floats /\ v \in {"ok", Empty} => Readable(k, v)
  BY <1>1, <1>2, <1>3 DEF Readable, Judges
<1> QED BY <1>4, <1>5

(* Any other value is understood.                                          *)
LEMMA ReadableOthers ==
  ASSUME NEW k, k \notin Judges, k \notin FreeStrings, NEW v
  PROVE  Readable(k, v)
<1>1. k \notin Floats /\ k \notin {"video_encoder", "audio_encoder", "camera_id"}
  BY DEF Floats, FreeStrings
<1> QED BY <1>1 DEF Readable, Judges

(* The server throws only at a text that the client does not look at.      *)
LEMMA ServerThrows ==
  ASSUME Checked(opts), ValidStrings(opts), forward \in BOOLEAN,
         line = CommandLineOf(opts, forward), ServerParse(line).thrown
  PROVE  \/ \E f \in Validated : opts[f] = "malformed"
         \/ \E f \in Floats : opts[f] = Empty
<1>1. AlwaysWritten(line, opts, forward) /\ WrittenIfNeeded(line, opts)
  BY LineFacts
<1>2. /\ DOMAIN line \subseteq Omitted \cup Always
      /\ "log_level" \in DOMAIN line /\ line["log_level"] = opts.log_level
      /\ "capture_orientation" \in DOMAIN line <=> OrientationWritten(opts)
      /\ OrientationWritten(opts) => line["capture_orientation"] = PrintedOrientation(opts)
  BY <1>1 DEF AlwaysWritten
<1>3. \A k \in Omitted :
        /\ k \in DOMAIN line <=>
             opts[k] # ClientOmits[k] /\ ~(k = "audio_source" /\ ~opts.audio)
        /\ k \in DOMAIN line =>
             line[k] = IF k = "screen_off_timeout" THEN 1000 * opts[k] ELSE opts[k]
  BY <1>1 DEF WrittenIfNeeded
<1>4. TypedOptions(opts)
  BY DEF Checked
<1>5. \A f \in Fields : Fits(f, opts[f])
  BY <1>4 DEF TypedOptions
<1>6. ~(ReadBack(line, "new_display") # None /\ ReadBack(line, "display_id") # 0)
  <2>1. /\ "new_display" \in Omitted /\ "new_display" \notin EmptyIsDefault
        /\ "display_id" \in Omitted /\ "display_id" \notin EmptyIsDefault
    BY DEF Omitted, Strings, Displaying, EmptyIsDefault
  <2>2. ReadBack(line, "new_display") = opts["new_display"]
    BY <1>3, <2>1, SameDefaults, ReadFacts DEF ReadBack
  <2>3. ReadBack(line, "display_id") = opts["display_id"]
    BY <1>3, <2>1, SameDefaults, ReadFacts DEF ReadBack
  <2> QED BY <2>2, <2>3 DEF Checked, DisplaySettled
<1>7. PICK k \in DOMAIN line : ~Readable(k, line[k])
  BY <1>2, <1>6, ParseFacts
<1>8. k # "capture_orientation"
  <2> SUFFICES ASSUME k = "capture_orientation" PROVE FALSE
    OBVIOUS
  <2>1. OrientationWritten(opts) /\ line[k] = PrintedOrientation(opts)
    BY <1>2
  <2>2. opts.capture_orientation \in Orientations
    <3>1. Fits("capture_orientation", opts.capture_orientation)
      BY <1>5, FieldFacts
    <3> QED BY <3>1 DEF Fits
  <2>3. \/ PrintedOrientation(opts).orientation \in Orientations
        \/ PrintedOrientation(opts).lock /\ PrintedOrientation(opts).orientation = Empty
    <3>1. CASE opts.capture_orientation_lock = "initial"
      <4>1. PrintedOrientation(opts) = [lock |-> TRUE, orientation |-> Empty]
        BY <3>1 DEF PrintedOrientation
      <4>2. PrintedOrientation(opts).lock = TRUE /\ PrintedOrientation(opts).orientation = Empty
        BY <4>1
      <4> QED BY <4>2
    <3>2. CASE opts.capture_orientation_lock # "initial"
      <4>1. PrintedOrientation(opts).orientation = opts.capture_orientation
        BY <3>2 DEF PrintedOrientation
      <4> QED BY <2>2, <4>1
    <3> QED BY <3>1, <3>2
  <2> QED BY <1>7, <2>1, <2>3, ReadableNumbers
<1>9. k \notin Judges
  <2> SUFFICES ASSUME k \in Judges PROVE FALSE
    OBVIOUS
  <2>1. CASE k = "log_level"
    <3>1. Fits("log_level", opts.log_level)
      BY <1>5, FieldFacts DEF Chosen
    <3>2. opts.log_level \in LogLevels
      BY <3>1 DEF Fits
    <3> QED BY <1>2, <1>7, <2>1, <3>2, ReadableNames
  <2>2. CASE k \in {"video_codec", "audio_codec", "video_source", "audio_source", "camera_facing",
                    "display_ime_policy"}
    <3>1. k \in Omitted /\ k # "screen_off_timeout"
      BY <2>2 DEF Omitted, Streaming, Displaying, Session
    <3>2. /\ line[k] = opts[k] /\ opts[k] # ClientOmits[k]
          /\ k = "audio_source" => opts.audio
      BY <1>3, <1>7, <3>1
    <3>3. /\ Fits("video_codec", opts["video_codec"]) /\ Fits("audio_codec", opts["audio_codec"])
          /\ Fits("video_source", opts["video_source"])
          /\ Fits("camera_facing", opts["camera_facing"])
          /\ Fits("display_ime_policy", opts["display_ime_policy"])
      BY <1>5, FieldFacts DEF Chosen
    <3>4. /\ opts["video_codec"] \in VideoCodecs /\ opts["audio_codec"] \in AudioCodecs
          /\ opts["video_source"] \in VideoSources
          /\ opts["camera_facing"] \in CameraFacings \cup {"any"}
          /\ opts["display_ime_policy"] \in ImePolicies \cup {"undefined"}
      BY <3>3 DEF Fits
    <3>5. k = "audio_source" => opts["audio_source"] \in AudioSources
      BY <3>2 DEF Checked, StreamsSettled
    <3>6. ClientOmits["camera_facing"] = "any" /\ ClientOmits["display_ime_policy"] = "undefined"
      BY SMT DEF ClientOmits, Over, FreeStrings
    <3> QED BY <1>7, <2>2, <3>2, <3>4, <3>5, <3>6, ReadableNames
  <2>3. CASE k = "min_size_alignment"
    <3>1. k \in Omitted
      BY <2>3 DEF Omitted, Streaming
    <3>2. line[k] = opts[k]
      BY <1>3, <1>7, <2>3, <3>1
    <3>3. Fits("min_size_alignment", opts["min_size_alignment"])
      BY <1>5, FieldFacts
    <3>4. opts["min_size_alignment"] \in {1, 2, 4, 8, 16}
      BY <3>3 DEF Fits
    <3> QED BY <1>7, <2>3, <3>2, <3>4, ReadableNumbers
  <2>4. CASE k = "screen_off_timeout"
    <3>1. k \in Omitted
      BY <2>4 DEF Omitted, Displaying
    <3>2. line[k] = 1000 * opts[k] /\ opts[k] # ClientOmits[k]
      BY <1>3, <1>7, <2>4, <3>1
    <3>3. Fits("screen_off_timeout", opts["screen_off_timeout"])
      BY <1>5, FieldFacts
    <3>4. opts["screen_off_timeout"] \in Int /\ opts["screen_off_timeout"] >= -1
      BY <3>3 DEF Fits
    <3>5. ClientOmits["screen_off_timeout"] = -1
      BY SMT DEF ClientOmits, Over, FreeStrings
    <3>6. line[k] \in Int /\ line[k] >= -1
      BY <2>4, <3>2, <3>4, <3>5
    <3> QED BY <1>7, <2>4, <3>6, ReadableNumbers
  <2> QED BY <1>8, <2>1, <2>2, <2>3, <2>4 DEF Judges
<1>10. k \in FreeStrings
  BY <1>7, <1>9, ReadableOthers
<1>11. k \in Strings
  <2>1. k \in Omitted \/ k \in Always
    BY <1>2, <1>7
  <2>2. k \notin Always
    BY <1>10 DEF Always, FreeStrings
  <2> QED BY <1>10, <2>1, <2>2, Tables DEF Omitted
<1>12. k \in Omitted /\ k # "screen_off_timeout" /\ k # "audio_source"
  BY <1>11 DEF Omitted, Strings
<1>13. line[k] = opts[k] /\ opts[k] # ClientOmits[k]
  BY <1>3, <1>7, <1>12
<1>14. ClientOmits[k] = None
  BY <1>10, <1>11, Tables DEF ClientOmits, Over
<1>15. opts[k] # "unsafe"
  BY <1>11, Tables DEF ValidStrings
<1>16. opts[k] \in FreeText \cup {None}
  <2>1. Fits(k, opts[k])
    BY <1>5, <1>10, FieldFacts
  <2> QED BY <1>10, <2>1 DEF Fits
<1>17. opts[k] \in {"ok", "malformed", Empty}
  BY <1>13, <1>14, <1>15, <1>16 DEF FreeText
<1>18. opts[k] = "malformed" \/ (k \in Floats /\ opts[k] = Empty)
  BY <1>7, <1>11, <1>13, <1>17, ReadableStrings
<1> QED BY <1>11, <1>18, Tables

(***************************************************************************)
(* The inductive invariant of the start: what each phase knows             *)
(***************************************************************************)
Executed ==
  {"executed", "server_threw", "listed", "parsed", "unsupported", "serving", "running",
   "unexpected_message"}

ServerStarted ==
  device = [processors |-> {p \in {"control", "audio", "video"} : srv[p]},
            capture |-> IF srv.video THEN Capture(srv) ELSE None,
            supportsInput |-> device.supportsInput]

ClientStarted ==
  client = [demuxers |-> {s \in {"audio", "video"} : opts[s]},
            videoSinks |-> VideoSinks(opts), audioSinks |-> AudioSinks(opts),
            window |-> opts.window,
            keyboard |-> IF opts.control
                         THEN Processor(opts.keyboard_input_mode, {"sdk", "uhid", "aoa"}) ELSE None,
            mouse |-> IF opts.control
                      THEN Processor(opts.mouse_input_mode, {"sdk", "uhid", "aoa"}) ELSE None,
            gamepad |-> IF opts.control
                        THEN Processor(opts.gamepad_input_mode, {"uhid", "aoa"}) ELSE None,
            resizes |-> opts.window /\ opts.flex_display]

OtgStarted ==
  /\ Otg(opts)
  /\ client.keyboard = OtgMode(opts.keyboard_input_mode)
  /\ client.mouse = OtgMode(opts.mouse_input_mode)
  /\ client.gamepad = OtgMode(opts.gamepad_input_mode)
  /\ client.resizes = FALSE

OptionsInv ==
  /\ theme \in DOMAIN Themes
  /\ TypedOptions(opts)
  /\ phase \notin {"getopt", "refused"} => Checked(opts)
  /\ phase \in Executed =>
       /\ ~Otg(opts) /\ ValidStrings(opts)
       /\ forward \in BOOLEAN /\ line = CommandLineOf(opts, forward)
  /\ phase = "server_threw" => ServerParse(line).thrown
  /\ Parsed => ~ServerParse(line).thrown /\ srv = ServerParse(line).opts
  /\ phase \in {"serving", "running", "unexpected_message"} => ServerStarted
  /\ phase \in {"running", "unexpected_message"} => ClientStarted
  /\ phase = "otg" => OtgStarted

(* The inductive invariant holds before the first argument.                *)
LEMMA OptionsInvInit == OptionsInit => OptionsInv
BY DefaultsTyped DEF OptionsInit, OptionsInv, Executed, Parsed

(* Every step keeps the inductive invariant.                               *)
LEMMA OptionsInvStep == OptionsInv /\ [OptionsNext]_optionsVars => OptionsInv'
<1> SUFFICES ASSUME OptionsInv, [OptionsNext]_optionsVars PROVE OptionsInv'
  OBVIOUS
<1> USE DEF Executed, Parsed
<1>1. ASSUME NEW arg \in Themes[theme], TakeArgument(arg) PROVE OptionsInv'
  <2>1. IsArgument(arg)
    BY ThemesAssumption DEF OptionsInv
  <2>2. TypedOptions(Over(Assigns(arg, opts), opts))
    BY <1>1, <2>1, ArgumentTaken DEF OptionsInv, TakeArgument
  <2>3. TypedOptions(opts')
    BY <1>1, <2>2 DEF TakeArgument
  <2>4. phase' = "getopt" /\ theme' = theme
    BY <1>1 DEF TakeArgument
  <2> QED BY <2>3, <2>4 DEF OptionsInv
<1>2. ASSUME NEW arg \in Themes[theme], RefuseArgument(arg) PROVE OptionsInv'
  BY <1>2 DEF OptionsInv, RefuseArgument
<1>3. CASE EndOfArguments
  <2>1. CASE CheckOptions(opts).refused
    <3>1. phase' = "refused" /\ opts' = opts /\ theme' = theme
      BY <1>3, <2>1 DEF EndOfArguments
    <3> QED BY <3>1 DEF OptionsInv
  <2>2. CASE ~CheckOptions(opts).refused
    <3>1. phase' = "checked" /\ opts' = CheckOptions(opts).opts /\ theme' = theme
      BY <1>3, <2>2 DEF EndOfArguments
    <3>2. Checked(CheckOptions(opts).opts)
      BY <2>2, CheckFacts DEF OptionsInv
    <3>3. Checked(opts')
      BY <3>1, <3>2
    <3>4. TypedOptions(opts')
      BY <3>3 DEF Checked
    <3> QED BY <3>1, <3>3, <3>4 DEF OptionsInv
  <2> QED BY <2>1, <2>2
<1>4. CASE StartOtg
  <2>1. /\ phase = "checked" /\ phase' = "otg" /\ Otg(opts) /\ opts' = opts /\ theme' = theme
    BY <1>4 DEF StartOtg
  <2>2. /\ client'.keyboard = OtgMode(opts.keyboard_input_mode)
        /\ client'.mouse = OtgMode(opts.mouse_input_mode)
        /\ client'.gamepad = OtgMode(opts.gamepad_input_mode)
        /\ client'.resizes = FALSE
    BY <1>4 DEF StartOtg, Unwired
  <2>3. OtgStarted'
    BY <2>1, <2>2 DEF OtgStarted
  <2> QED BY <2>1, <2>3 DEF OptionsInv
<1>5. CASE ExecuteServer
  <2>1. /\ phase = "checked" /\ ~Otg(opts) /\ opts' = opts /\ theme' = theme
        /\ forward' \in BOOLEAN
        /\ IF ValidStrings(opts)
           THEN phase' = "executed" /\ line' = CommandLineOf(opts, forward')
           ELSE phase' = "not_executed"
    BY <1>5 DEF ExecuteServer
  <2> QED BY <2>1 DEF OptionsInv
<1>6. CASE ParseOptions
  <2>1. /\ phase = "executed" /\ opts' = opts /\ theme' = theme /\ forward' = forward /\ line' = line
    BY <1>6 DEF ParseOptions
  <2>2. CASE ServerParse(line).thrown
    <3>1. phase' = "server_threw"
      BY <1>6, <2>2 DEF ParseOptions
    <3> QED BY <2>1, <2>2, <3>1 DEF OptionsInv
  <2>3. CASE ~ServerParse(line).thrown
    <3>1. phase' \in {"listed", "parsed"} /\ srv' = ServerParse(line).opts
      BY <1>6, <2>3 DEF ParseOptions
    <3> QED BY <2>1, <2>3, <3>1 DEF OptionsInv
  <2> QED BY <2>2, <2>3
<1>7. CASE StartServer
  <2>1. /\ phase = "parsed" /\ opts' = opts /\ theme' = theme /\ forward' = forward /\ line' = line
        /\ srv' = srv /\ phase' \in {"unsupported", "serving"}
    BY <1>7 DEF StartServer
  <2>2. phase' = "serving" => ServerStarted'
    <3> SUFFICES ASSUME phase' = "serving" PROVE ServerStarted'
      OBVIOUS
    <3>1. \E able : device' =
                  [processors |-> {p \in {"control", "audio", "video"} : srv[p]},
                   capture |-> IF srv.video THEN Capture(srv) ELSE None,
                   supportsInput |-> able]
      <4>1. PICK sdk \in SdkVersions :
              device' = [processors |-> {p \in {"control", "audio", "video"} : srv[p]},
                         capture |-> IF srv.video THEN Capture(srv) ELSE None,
                         supportsInput |-> srv.video_source # "camera"
                                           /\ (srv.display_id = 0 \/ sdk >= 29)]
        BY <1>7 DEF StartServer
      <4> QED BY <4>1
    <3> QED BY <2>1, <3>1 DEF ServerStarted
  <2> QED BY <2>1, <2>2 DEF OptionsInv
<1>8. CASE SetUpClient
  <2>1. /\ phase = "serving" /\ phase' = "running" /\ opts' = opts /\ theme' = theme
        /\ forward' = forward /\ line' = line /\ srv' = srv /\ device' = device
    BY <1>8 DEF SetUpClient
  <2>2. ClientStarted'
    BY <1>8, <2>1 DEF SetUpClient, ClientStarted
  <2>3. ServerStarted'
    BY <2>1 DEF OptionsInv, ServerStarted
  <2> QED BY <2>1, <2>2, <2>3 DEF OptionsInv
<1>9. CASE HandleFirstMessage
  <2>1. /\ phase = "running" /\ phase' \in {"running", "unexpected_message"} /\ opts' = opts
        /\ theme' = theme /\ forward' = forward /\ line' = line /\ srv' = srv
        /\ device' = device /\ client' = client
    BY <1>9 DEF HandleFirstMessage
  <2>2. ServerStarted' /\ ClientStarted'
    BY <2>1 DEF OptionsInv, ServerStarted, ClientStarted
  <2> QED BY <2>1, <2>2 DEF OptionsInv
<1>10. CASE UNCHANGED optionsVars
  <2>1. /\ phase' = phase /\ theme' = theme /\ opts' = opts /\ forward' = forward /\ line' = line
        /\ srv' = srv /\ device' = device /\ client' = client
    BY <1>10 DEF optionsVars
  <2>2. /\ ServerStarted' <=> ServerStarted
        /\ ClientStarted' <=> ClientStarted
        /\ OtgStarted' <=> OtgStarted
    BY <2>1 DEF ServerStarted, ClientStarted, OtgStarted
  <2> QED BY <2>1, <2>2 DEF OptionsInv
<1> QED BY <1>1, <1>2, <1>3, <1>4, <1>5, <1>6, <1>7, <1>8, <1>9, <1>10 DEF OptionsNext

(* The inductive invariant holds in every behaviour of the start.          *)
THEOREM OptionsInvariant == OptionsSpec => []OptionsInv
BY OptionsInvInit, OptionsInvStep, PTL DEF OptionsSpec

(* What the server has read, once it has: the parameters that the rest of  *)
(* the start depends on.                                                   *)
LEMMA Agreed ==
  ASSUME OptionsInv, Parsed
  PROVE  /\ Checked(opts) /\ TypedOptions(opts)
         /\ \A key \in DOMAIN srv :
              srv[key] = Meant(key) \/ (key = "audio_source" /\ ~opts.audio)
         /\ srv.video = opts.video /\ srv.audio = opts.audio /\ srv.control = opts.control
         /\ srv.video_source = opts.video_source /\ srv.new_display = opts.new_display
<1>1. Checked(opts) /\ TypedOptions(opts)
  BY DEF OptionsInv, Parsed
<1>2. forward \in BOOLEAN /\ line = CommandLineOf(opts, forward)
  BY DEF OptionsInv, Parsed, Executed
<1>3. ~ServerParse(line).thrown /\ srv = ServerParse(line).opts
  BY DEF OptionsInv
<1>4. \A key \in DOMAIN srv : srv[key] = Meant(key) \/ (key = "audio_source" /\ ~opts.audio)
  BY <1>1, <1>2, <1>3, ServerReads
<1>5. AlwaysWritten(line, opts, forward)
  BY <1>2, LineFacts
<1>6. DOMAIN line \subseteq Omitted \cup Always
  BY <1>5 DEF AlwaysWritten
<1>7. DOMAIN srv = Omitted \cup Always
  BY <1>3, <1>6, ParseFacts
<1>8. {"video", "audio", "control", "video_source", "new_display"} \subseteq DOMAIN srv
  BY <1>7 DEF Omitted, Streaming, Displaying, Strings
<1>9. /\ Meant("video") = opts["video"] /\ Meant("audio") = opts["audio"]
      /\ Meant("control") = opts["control"]
  BY DEF Meant, FreeStrings
<1>10. Meant("video_source") = opts["video_source"] /\ Meant("new_display") = opts["new_display"]
  BY DEF Meant, FreeStrings
<1> QED BY <1>1, <1>4, <1>8, <1>9, <1>10

(* ServerGetsOptions in every state.                                       *)
THEOREM ServerHasOptions == OptionsSpec => []ServerGetsOptions
<1>1. OptionsInv => ServerGetsOptions
  BY Agreed DEF ServerGetsOptions
<1> QED BY <1>1, OptionsInvariant, PTL

(* ServerUnderstands in every state.                                       *)
THEOREM ServerReadsAll == OptionsSpec => []ServerUnderstands
<1>1. OptionsInv => ServerUnderstands
  <2> SUFFICES ASSUME OptionsInv, phase = "server_threw"
               PROVE  \/ \E f \in Validated : opts[f] = "malformed"
                      \/ \E f \in Floats : opts[f] = Empty
    BY DEF ServerUnderstands
  <2>1. /\ Checked(opts) /\ ValidStrings(opts) /\ forward \in BOOLEAN
        /\ line = CommandLineOf(opts, forward) /\ ServerParse(line).thrown
    BY DEF OptionsInv, Executed
  <2> QED BY <2>1, ServerThrows
<1> QED BY <1>1, OptionsInvariant, PTL

(* EveryStreamHasASink in every state.                                     *)
THEOREM StreamsHaveSinks == OptionsSpec => []EveryStreamHasASink
<1>1. OptionsInv => EveryStreamHasASink
  <2> SUFFICES ASSUME OptionsInv, phase = "running" PROVE EveryStreamHasASink
    BY DEF EveryStreamHasASink
  <2>1. Parsed
    BY DEF Parsed
  <2>2. ServerStarted /\ ClientStarted
    BY DEF OptionsInv
  <2>3. /\ Checked(opts) /\ TypedOptions(opts)
        /\ srv.video = opts.video /\ srv.audio = opts.audio /\ srv.control = opts.control
    BY <2>1, Agreed
  <2>4. StreamsSettled(opts)
    BY <2>3 DEF Checked
  <2>5. device.processors = {p \in {"control", "audio", "video"} : srv[p]}
    BY <2>2 DEF ServerStarted
  <2>6. /\ client.demuxers = {s \in {"audio", "video"} : opts[s]}
        /\ client.videoSinks = VideoSinks(opts) /\ client.audioSinks = AudioSinks(opts)
        /\ client.window = opts.window
    BY <2>2 DEF ClientStarted
  <2>7. /\ "video" \in device.processors <=> opts.video
        /\ "audio" \in device.processors <=> opts.audio
        /\ "control" \in device.processors <=> opts.control
    BY <2>3, <2>5
  <2>8. ~Otg(opts)
    BY DEF OptionsInv, Executed
  <2>9. client.demuxers = device.processors \cap {"audio", "video"}
    BY <2>3, <2>5, <2>6
  <2>10. client.videoSinks # {} <=> "video" \in device.processors
    BY <2>4, <2>6, <2>7 DEF VideoSinks, StreamsSettled
  <2>11. client.audioSinks # {} <=> "audio" \in device.processors
    BY <2>4, <2>6, <2>7 DEF AudioSinks, StreamsSettled
  <2>12. "screen" \in client.videoSinks => client.window
    BY <2>4, <2>6 DEF VideoSinks, StreamsSettled
  <2>13. "player" \in client.audioSinks => opts.audio_buffer >= 0
    BY <2>4, <2>6 DEF AudioSinks, StreamsSettled
  <2>14. client.demuxers # {} \/ "control" \in device.processors
    BY <2>4, <2>6, <2>7, <2>8 DEF StreamsSettled
  <2> QED BY <2>9, <2>10, <2>11, <2>12, <2>13, <2>14 DEF EveryStreamHasASink
<1> QED BY <1>1, OptionsInvariant, PTL

(* InputModesUsable in every state.                                        *)
THEOREM InputUsable == OptionsSpec => []InputModesUsable
<1> DEFINE given == {opts.keyboard_input_mode, opts.mouse_input_mode, opts.gamepad_input_mode}
           modes == {client.keyboard, client.mouse, client.gamepad} \ {None}
<1>1. ASSUME OptionsInv, phase = "running" PROVE InputModesUsable
  <2>1. Parsed
    BY <1>1 DEF Parsed
  <2>2. ServerStarted /\ ClientStarted
    BY <1>1 DEF OptionsInv
  <2>3. /\ Checked(opts) /\ TypedOptions(opts)
        /\ srv.video = opts.video /\ srv.control = opts.control
        /\ srv.video_source = opts.video_source /\ srv.new_display = opts.new_display
    BY <1>1, <2>1, Agreed
  <2>4. InputSettled(opts) /\ DisplaySettled(opts)
    BY <2>3 DEF Checked
  <2>5. /\ client.videoSinks = VideoSinks(opts) /\ client.resizes = (opts.window /\ opts.flex_display)
        /\ client.keyboard = IF opts.control
             THEN Processor(opts.keyboard_input_mode, {"sdk", "uhid", "aoa"}) ELSE None
        /\ client.mouse = IF opts.control
             THEN Processor(opts.mouse_input_mode, {"sdk", "uhid", "aoa"}) ELSE None
        /\ client.gamepad = IF opts.control
             THEN Processor(opts.gamepad_input_mode, {"uhid", "aoa"}) ELSE None
    BY <2>2 DEF ClientStarted
  <2>6. "control" \in device.processors <=> opts.control
    BY <2>2, <2>3 DEF ServerStarted
  <2>7. device.capture = IF srv.video THEN Capture(srv) ELSE None
    BY <2>2 DEF ServerStarted
  <2>8. opts.gamepad_input_mode # "sdk"
    BY <2>3, OptionTypes
  <2>9. opts.control => given \subseteq modes \cup {"disabled"}
    <3> SUFFICES ASSUME opts.control PROVE given \subseteq modes \cup {"disabled"}
      OBVIOUS
    <3>1. /\ opts.keyboard_input_mode \in Settled /\ opts.mouse_input_mode \in Settled
          /\ opts.gamepad_input_mode \in Settled
      BY <2>4 DEF InputSettled, InputFields
    <3>2. opts.keyboard_input_mode # "disabled" => client.keyboard = opts.keyboard_input_mode
      BY <2>5, <3>1 DEF Processor, Settled
    <3>3. opts.mouse_input_mode # "disabled" => client.mouse = opts.mouse_input_mode
      BY <2>5, <3>1 DEF Processor, Settled
    <3>4. opts.gamepad_input_mode # "disabled" => client.gamepad = opts.gamepad_input_mode
      BY <2>5, <2>8, <3>1 DEF Processor, Settled
    <3>5. None \notin Settled
      BY DEF None, Settled
    <3> QED BY <3>1, <3>2, <3>3, <3>4, <3>5
  <2>10. modes \cap {"sdk", "uhid"} # {} => "control" \in device.processors /\ HandlesDisplayMessages
    <3> SUFFICES ASSUME modes \cap {"sdk", "uhid"} # {}
                 PROVE  opts.control /\ opts.video_source # "camera"
      BY <2>3, <2>6 DEF HandlesDisplayMessages
    <3>1. opts.control
      BY <2>5
    <3>2. \A m \in {"sdk", "uhid"} : m \in modes => m \in given
      BY <2>5, <3>1 DEF Processor, None
    <3>3. opts.video_source = "camera" => given = {"disabled"}
      BY <2>4, <3>1 DEF InputSettled, InputFields
    <3> QED BY <3>1, <3>2, <3>3
  <2>11. client.mouse = "sdk" => "screen" \in client.videoSinks
    <3> SUFFICES ASSUME client.mouse = "sdk" PROVE "screen" \in client.videoSinks
      OBVIOUS
    <3>1. opts.control /\ opts.mouse_input_mode = "sdk"
      BY <2>5 DEF Processor, None
    <3>2. opts.video_playback
      BY <2>4, <3>1 DEF InputSettled
    <3> QED BY <2>5, <3>2 DEF VideoSinks
  <2>12. client.resizes => device.capture = "new_display" /\ "control" \in device.processors
    <3> SUFFICES ASSUME opts.flex_display
                 PROVE  device.capture = "new_display" /\ "control" \in device.processors
      BY <2>5
    <3>1. /\ opts.new_display # None /\ opts.control /\ opts.video
          /\ opts.video_source = "display"
      BY <2>4 DEF DisplaySettled
    <3>2. Capture(srv) = "new_display"
      BY <2>3, <3>1 DEF Capture
    <3> QED BY <2>3, <2>6, <2>7, <3>1, <3>2
  <2>13. opts.mouse_bindings # AutoBindings /\ opts.render_fit # Automatic
    BY <2>4 DEF InputSettled
  <2> QED BY <2>9, <2>10, <2>11, <2>12, <2>13 DEF InputModesUsable
<1>2. ASSUME OptionsInv, phase = "otg" PROVE InputModesUsable
  <2>1. Checked(opts) /\ OtgStarted
    BY <1>2 DEF OptionsInv
  <2>2. InputSettled(opts)
    BY <2>1 DEF Checked
  <2>3. /\ opts.keyboard_input_mode \in {"aoa", "disabled"}
        /\ opts.mouse_input_mode \in {"aoa", "disabled"}
        /\ opts.gamepad_input_mode \in {"aoa", "disabled"}
    BY <2>1, <2>2 DEF InputSettled, InputFields, OtgStarted
  <2>4. /\ client.keyboard = OtgMode(opts.keyboard_input_mode)
        /\ client.mouse = OtgMode(opts.mouse_input_mode)
        /\ client.gamepad = OtgMode(opts.gamepad_input_mode)
        /\ client.resizes = FALSE
    BY <2>1 DEF OtgStarted
  <2>5. given \subseteq modes \cup {"disabled"}
    BY <2>3, <2>4 DEF OtgMode, None
  <2>6. modes \subseteq {"aoa"} /\ client.mouse # "sdk"
    BY <2>4 DEF OtgMode, None
  <2>7. opts.mouse_bindings # AutoBindings /\ opts.render_fit # Automatic
    BY <2>2 DEF InputSettled
  <2> QED BY <2>4, <2>5, <2>6, <2>7 DEF InputModesUsable
<1>3. OptionsInv => InputModesUsable
  BY <1>1, <1>2 DEF InputModesUsable
<1> QED BY <1>3, OptionsInvariant, PTL

===============================================================================
