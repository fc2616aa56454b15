---------------------------- MODULE AudioStream -----------------------------
(***************************************************************************)
(* The audio of the server: AudioEncoder.java, its thread and the two      *)
(* threads that feed the codec and write its packets, or                   *)
(* AudioRawRecorder.java, one thread.  The stream must start with the id   *)
(* of the codec or with a code that disables it (Streamer.java), because   *)
(* the demuxer of the client reads it before anything else.                *)
(***************************************************************************)
EXTENDS ServerProcess

VARIABLES
  audio,         (* where the thread is                                    *)
  audioFatal,    (* fatalError                                             *)
  ended,         (* the flag of end() and waitEnded()                      *)
  audioStopped,  (* the thread of the raw recorder is interrupted          *)
  input, output, (* the two other threads                                  *)
  header         (* what was written in place of the codec id              *)

audioVars == <<audio, audioFatal, ended, audioStopped, input, output, header>>

AudioInit ==
  /\ audio = "off" /\ audioFatal = FALSE
  /\ ended = FALSE /\ audioStopped = FALSE
  /\ input = "off" /\ output = "off"
  /\ header = <<>>

StartAudio == audio' = "begin"

Encoder == cfg.audio = "encoder"
Raw == cfg.audio = "raw"
At(pc) == Alive /\ audio = pc

(* writeDisableStream() before the end, in a thread that ends with fatal.   *)
Disable(code, fatal, fatalIfBroken) ==
  /\ audio' = "terminating"
  /\ IF link = "up"
     THEN header' = Append(header, code) /\ audioFatal' = fatal
     ELSE audioFatal' = fatalIfBroken /\ UNCHANGED header

HelpersUnchanged == UNCHANGED <<input, output>>
FlagsUnchanged == UNCHANGED <<ended, audioStopped>>

(* Below Android 11.                                                        *)
Begin ==
  /\ At("begin")
  /\ IF cfg.supported
     THEN /\ audio' = IF Encoder THEN "codec" ELSE "capture"
          /\ UNCHANGED <<audioFatal, header>>
     ELSE Disable("disabled", FALSE, TRUE)
  /\ HelpersUnchanged /\ FlagsUnchanged

(* checkCompatibility(), createMediaCodec(), configure().                   *)
CreateCodec ==
  /\ At("codec")
  /\ \/ audio' = "capture" /\ UNCHANGED <<audioFatal, header>>
     \/ Disable("disabled", FALSE, TRUE)
     \/ \E fatal \in BOOLEAN : Disable("error", fatal, TRUE)
  /\ HelpersUnchanged /\ FlagsUnchanged

(* capture.start(): an AudioCaptureException is never fatal.                *)
StartCapture ==
  /\ At("capture")
  /\ \/ /\ audio' = IF Encoder THEN "launch" ELSE "header"
        /\ UNCHANGED <<audioFatal, header>>
     \/ Encoder /\ Disable("disabled", FALSE, TRUE)
     \/ Encoder /\ Disable("error", FALSE, TRUE)
     \/ Raw /\ \E fatal \in BOOLEAN : Disable("disabled", fatal, FALSE)
  /\ HelpersUnchanged /\ FlagsUnchanged

(* mediaCodec.start(), then the threads.                                    *)
(* Variant: the threads first.                                              *)
ThreadAlways(ok) == "running"
ThreadIf(ok) == IF ok THEN "running" ELSE "off"
Launch ==
  /\ At("launch")
  /\ \E ok \in BOOLEAN :
       /\ IF ok THEN audio' = "wait" /\ UNCHANGED <<audioFatal, header>>
          ELSE Disable("error", FALSE, TRUE)
       /\ input' = ThreadIf(ok) /\ output' = ThreadIf(ok)
  /\ FlagsUnchanged

WaitEnded ==
  /\ At("wait") /\ ended
  /\ audio' = "join"
  /\ UNCHANGED <<audioFatal, header>> /\ HelpersUnchanged /\ FlagsUnchanged

JoinThreads ==
  /\ At("join") /\ input = "ended" /\ output = "ended"
  /\ audio' = "terminating"
  /\ UNCHANGED <<audioFatal, header>> /\ HelpersUnchanged /\ FlagsUnchanged

(* listener.onTerminated(): see AddCompleted in ServerMain.                 *)
TerminateAudio ==
  /\ At("terminating")
  /\ audio' = "ended"
  /\ UNCHANGED <<audioFatal, header>> /\ HelpersUnchanged /\ FlagsUnchanged

-----------------------------------------------------------------------------
(* The threads of the encoder.                                              *)

ThreadsUnchanged == UNCHANGED <<audio, audioFatal, audioStopped>>

(* An error of the capture, or the interruption.                            *)
InputEnds ==
  /\ Alive /\ input = "running"
  /\ input' = "ended" /\ ended' = TRUE
  /\ UNCHANGED <<output, header>> /\ ThreadsUnchanged

(* EncoderCallback.onError().                                               *)
CodecError ==
  /\ Alive /\ input = "running" /\ ~ended
  /\ ended' = TRUE
  /\ UNCHANGED <<input, output, header>> /\ ThreadsUnchanged

(* A write may block as long as the client does not read.                   *)
WriteHeader ==
  /\ Alive /\ output = "running" /\ link = "up"
  /\ header' = Append(header, "codec")
  /\ output' = "writing"
  /\ UNCHANGED <<input, ended>> /\ ThreadsUnchanged

OutputEnds ==
  /\ Alive
  /\ \/ output \in {"running", "writing"} /\ link # "up"
     \/ output = "writing" /\ audio = "join"
  /\ output' = "ended" /\ ended' = TRUE
  /\ UNCHANGED <<input, header>> /\ ThreadsUnchanged

-----------------------------------------------------------------------------
(* The raw recorder.                                                        *)

RawHeader ==
  /\ At("header")
  /\ IF link = "up" THEN audio' = "stream" /\ header' = Append(header, "codec")
     ELSE audio' = "terminating" /\ UNCHANGED header
  /\ UNCHANGED audioFatal /\ HelpersUnchanged /\ FlagsUnchanged

RawEnds ==
  /\ At("stream")
  /\ audio' = "terminating"
  /\ UNCHANGED <<audioFatal, header>> /\ HelpersUnchanged /\ FlagsUnchanged

(* stop(): end(), or an interruption.                                       *)
StopAudio ==
  /\ ended' = (ended \/ (Encoder /\ audio # "off"))
  /\ audioStopped' = (audioStopped \/ (Raw /\ audio # "off"))
  /\ UNCHANGED <<audio, audioFatal, input, output, header>>

AudioStep ==
  \/ Begin \/ CreateCodec \/ StartCapture \/ Launch \/ WaitEnded
  \/ JoinThreads \/ InputEnds \/ CodecError \/ WriteHeader \/ OutputEnds
  \/ RawHeader \/ RawEnds

(* What cannot fail to happen: a read of the capture returns, a write in a  *)
(* closed socket fails, and so do the next ones.                            *)
AudioProgress ==
  \/ Begin \/ CreateCodec \/ StartCapture \/ Launch \/ WaitEnded
  \/ JoinThreads \/ RawHeader \/ OutputEnds
  \/ audio = "join" /\ InputEnds
  \/ (audioStopped \/ link # "up") /\ RawEnds

-----------------------------------------------------------------------------
(* Types. *)
AudioTypeOK ==
  /\ audio \in {"off", "begin", "codec", "capture", "launch", "wait", "join",
               "header", "stream", "terminating", "ended"}
  /\ {audioFatal, ended, audioStopped} \subseteq BOOLEAN
  /\ input \in {"off", "running", "ended"}
  /\ output \in {"off", "running", "writing", "ended"}
  /\ header \in Seq({"codec", "disabled", "error"})

(* The client reads one code before the packets: the id of the codec, or    *)
(* the reason why there is no stream, never both, whichever of the three    *)
(* threads fails; and it is not left without an answer when the audio ends  *)
(* while the connection is up.                                              *)
OneAudioHeader ==
  /\ Len(header) <= 1
  /\ audio \in {"terminating", "ended"} /\ link = "up" => Len(header) = 1
=============================================================================
