------------------------------- MODULE Recorder -------------------------------
(***************************************************************************)
(* The recorder (app/src/recorder.c): the video and audio demuxers         *)
(* (demuxer.c) push packets into two queues; the thread "scrcpy-recorder"  *)
(* opens the file, writes the header once the streams are known, then the  *)
(* packets of both streams, shifted by the origin of the timestamps, and   *)
(* the trailer.  The end of a stream, or the main thread, stops it.        *)
(*                                                                         *)
(* One step is one critical section of recorder->mutex, or what the thread *)
(* does between two of them.  The condition variable is signalled on every *)
(* change, so waiting is a guard.                                          *)
(***************************************************************************)
EXTENDS Integers, Sequences

CONSTANTS
  NoPts,       (* AV_NOPTS_VALUE: the timestamp of a config packet         *)
  Pts,         (* timestamps of the media packets                          *)
  Tick,        (* duration of a tick of the file, in timestamp units       *)
  MaxFrames,   (* bound of the model: media packets per stream             *)
  MaxConfigs   (* bound of the model: config packets per stream            *)

ASSUME RecorderAssumption ==
  /\ Pts \subseteq Nat /\ NoPts \in Int /\ Tick \in Nat \ {0}
  /\ \A p, q \in Pts : NoPts < p - q
  /\ MaxFrames \in Nat /\ MaxConfigs \in Nat

Streams == {"video", "audio"}

VARIABLES
  rec,       (* where the thread "scrcpy-recorder" is                      *)
  ctx,       (* recorder->ctx: "none", "open", or dangling once "freed"    *)
  enabled,   (* recorder->video and recorder->audio                        *)
  inited,    (* the streams with video_init or audio_init                  *)
  expects,   (* the streams that expect a config packet first              *)
  queue,     (* video_queue and audio_queue                                *)
  held,      (* the local video_pkt and audio_pkt: <<>> or <<packet>>      *)
  previous,  (* the local video_pkt_previous                               *)
  origin,    (* the local pts_origin                                       *)
  last,      (* last_pts of each stream                                    *)
  stopped,   (* recorder->stopped                                          *)
  success,   (* what the thread reports when it ends                       *)
  file,      (* the packets written to the file, per stream                *)
  lost,      (* ghost: writing the last video packet failed                *)
  demux,     (* where each demuxer is                                      *)
  frames,    (* media packets that the sink accepted, per stream           *)
  configs,   (* config packets that the sink accepted, per stream          *)
  main       (* "loop", "stopped", "joined"; or "crashed", with the rest   *)

sinks == <<enabled, inited, expects>>
local == <<held, previous, origin, last>>
demuxers == <<demux, frames, configs>>
vars == <<rec, ctx, sinks, queue, local, stopped, success, file, lost,
          demuxers, main>>

All(x) == [s \in Streams |-> x]
Config(p) == p.pts = NoPts

Init ==
  /\ rec = "start" /\ ctx = "none"
  /\ enabled \in SUBSET Streams \ {{}}
  /\ inited = {} /\ expects = {}
  /\ queue = All(<<>>)
  /\ held = All(<<>>) /\ previous = <<>> /\ origin = NoPts /\ last = All(NoPts)
  /\ stopped = FALSE /\ success = FALSE
  /\ file = All(<<>>) /\ lost = FALSE
  /\ demux = [s \in Streams |-> IF s \in enabled THEN "start" ELSE "ended"]
  /\ frames = All(0) /\ configs = All(0)
  /\ main = "loop"

-------------------------------------------------------------------------------
(* The packet sinks, called by the demuxers.                               *)

(* The context is created by the recorder thread, without synchronization, *)
(* and stays dangling once freed.  The header is written without the lock. *)
(* Opening a sink then may crash the process.                              *)
UnsafeCtx == ctx # "open" \/ rec = "write_header"

(* Only the video sink looks at stopped. *)
SinkOpen(s) ==
  /\ demux[s] = "start"
  /\ \/ /\ s = "video" /\ stopped
        /\ demux' = [demux EXCEPT ![s] = "ended"]
        /\ UNCHANGED <<rec, inited, expects, main>>
     \/ /\ ~(s = "video" /\ stopped)
        /\ \/ /\ UnsafeCtx
              /\ rec' = "crashed" /\ main' = "crashed" /\ demux' = All("ended")
              /\ UNCHANGED <<inited, expects>>
           \/ /\ ctx = "open"
              /\ demux' = [demux EXCEPT ![s] = "opened"]
              /\ inited' = inited \cup {s}
              /\ expects' \in {expects, expects \cup {s}}
              /\ UNCHANGED <<rec, main>>
  /\ UNCHANGED <<ctx, enabled, queue, local, stopped, success, file, lost,
                 frames, configs>>

(* Only the streams that expect one have config packets.  A stopped        *)
(* recorder rejects the packet, which ends the demuxer and                 *)
(* closes its sinks.                                                       *)
SinkPush(s, pts) ==
  /\ demux[s] = "opened"
  /\ IF pts = NoPts THEN s \in expects /\ configs[s] < MaxConfigs
                    ELSE frames[s] < MaxFrames
  /\ \/ /\ ~stopped
        /\ queue' = [queue EXCEPT ![s] =
             Append(@, [n |-> IF pts = NoPts THEN 0 ELSE frames[s] + 1, pts |-> pts])]
        /\ IF pts = NoPts
           THEN configs' = [configs EXCEPT ![s] = @ + 1] /\ UNCHANGED frames
           ELSE frames' = [frames EXCEPT ![s] = @ + 1] /\ UNCHANGED configs
        /\ UNCHANGED demux
     \/ /\ stopped
        /\ demux' = [demux EXCEPT ![s] = "closing"]
        /\ UNCHANGED <<queue, frames, configs>>
  /\ UNCHANGED <<rec, ctx, sinks, local, stopped, success, file, lost, main>>

(* The end of the stream, at any time; EOS also stops the recorder. *)
SinkClose(s) ==
  /\ demux[s] \in {"opened", "closing"}
  /\ demux' = [demux EXCEPT ![s] = "ended"]
  /\ stopped' = TRUE
  /\ UNCHANGED <<rec, ctx, sinks, queue, local, success, file, lost, frames,
                 configs, main>>

(* The audio is disabled by the device, or its codec is not supported.     *)
SinkDisable ==
  /\ demux["audio"] = "start"
  /\ demux' = [demux EXCEPT !["audio"] = "ended"]
  /\ enabled' = enabled \ {"audio"}
  /\ inited' = inited \cup {"audio"}
  /\ UNCHANGED <<rec, ctx, expects, queue, local, stopped, success, file,
                 lost, frames, configs, main>>

(* The stream ends before its sinks are open. *)
DemuxerFails(s) ==
  /\ demux[s] = "start"
  /\ demux' = [demux EXCEPT ![s] = "ended"]
  /\ UNCHANGED <<rec, ctx, sinks, queue, local, stopped, success, file, lost,
                 frames, configs, main>>

-------------------------------------------------------------------------------
(* The thread "scrcpy-recorder".                                           *)

OpenOutputFile ==
  /\ rec = "start"
  /\ \/ ctx' = "open" /\ rec' = "header"
     \/ ctx' \in {"none", "freed"} /\ rec' = "end"
  /\ UNCHANGED <<sinks, queue, local, stopped, success, file, lost, demuxers,
                 main>>

(* Variant: the wait for the streams does not look at stopped.             *)
AwaitsAlways ==
  \/ ~(enabled \subseteq inited)
  \/ \E s \in enabled \cap expects : queue[s] = <<>>
AwaitsHeader ==
  /\ ~stopped
  /\ \/ ~(enabled \subseteq inited)
     \/ \E s \in enabled \cap expects : queue[s] = <<>>

PopOf(s, wanted) == IF wanted /\ queue[s] # <<>> THEN <<Head(queue[s])>> ELSE <<>>

(* sc_recorder_process_header(), with the lock. *)
TakeConfigs ==
  /\ rec = "header" /\ ~AwaitsHeader
  /\ \/ /\ stopped /\ "video" \in enabled /\ queue["video"] = <<>>
        /\ rec' = "close"
        /\ UNCHANGED <<queue, held>>
     \/ /\ ~(stopped /\ "video" \in enabled /\ queue["video"] = <<>>)
        /\ rec' = "write_header"
        /\ held' = [s \in Streams |-> PopOf(s, s \in expects)]
        /\ queue' = [s \in Streams |->
             IF held'[s] # <<>> THEN Tail(queue[s]) ELSE queue[s]]
  /\ UNCHANGED <<ctx, sinks, previous, origin, last, stopped, success, file,
                 lost, demuxers, main>>

(* The first packet of each stream must be a config packet, if one is      *)
(* expected; writing may fail, and does if there is no stream.             *)
WriteHeader ==
  /\ rec = "write_header"
  /\ \/ /\ \A s \in Streams : held[s] # <<>> => Config(held[s][1])
        /\ \E s \in Streams : s \in inited \cap enabled
        /\ rec' = "take"
     \/ rec' = "close"
  /\ held' = All(<<>>)
  /\ UNCHANGED <<ctx, sinks, queue, previous, origin, last, stopped, success,
                 file, lost, demuxers, main>>

Taken(s) == IF held[s] = <<>> THEN PopOf(s, TRUE) ELSE held[s]

(* Once stopped, the loop continues until nothing remains.                 *)
(* Variant: it ends at once.                                               *)
EndsAtOnce(popped) == stopped
EndsDrained(popped) == stopped /\ \A s \in Streams : popped[s] = <<>>

(* With the lock, one packet at most is taken from each queue; further     *)
(* config packets are ignored.                                             *)
TakePackets ==
  /\ rec = "take"
  /\ stopped \/ \E s \in enabled : held[s] = <<>> /\ queue[s] # <<>>
  /\ LET popped == [s \in Streams |-> Taken(s)] IN
       /\ queue' = [s \in Streams |->
            IF held[s] = <<>> /\ popped[s] # <<>> THEN Tail(queue[s]) ELSE queue[s]]
       /\ held' = [s \in Streams |->
            IF popped[s] # <<>> /\ Config(popped[s][1]) THEN <<>> ELSE popped[s]]
       /\ rec' = IF EndsDrained(popped) THEN "trailer" ELSE "origin"
  /\ UNCHANGED <<ctx, sinks, previous, origin, last, stopped, success, file,
                 lost, demuxers, main>>

PtsOf(s) == held[s][1].pts

(* Without the lock: the origin is the first timestamp of the only stream, *)
(* or the lowest of the first two; without audio, once stopped, the one of *)
(* the video.  There is no origin yet if a stream is missing.              *)
OriginOf ==
  LET both == enabled = Streams /\ \A s \in Streams : held[s] # <<>>
      only(s) == enabled = {s} /\ held[s] # <<>>
      alone == enabled = Streams /\ held["video"] # <<>> /\ held["audio"] = <<>>
  IN CASE \E s \in Streams : only(s) -> PtsOf(CHOOSE s \in Streams : only(s))
       [] both -> IF PtsOf("video") < PtsOf("audio") THEN PtsOf("video") ELSE PtsOf("audio")
       [] stopped /\ alone -> PtsOf("video")
       [] OTHER -> NoPts

WaitsForBoth(o) ==
  CASE o # NoPts -> "write"
    [] o = NoPts /\ stopped -> "close"
    [] OTHER -> "take"

SetOrigin ==
  /\ rec = "origin"
  /\ IF origin # NoPts
     THEN rec' = "write" /\ UNCHANGED origin
     ELSE /\ origin' = OriginOf
          /\ rec' = WaitsForBoth(origin')
  /\ UNCHANGED <<ctx, sinks, queue, held, previous, last, stopped, success,
                 file, lost, demuxers, main>>

Shifted(s) == [held[s][1] EXCEPT !.pts = @ - origin]

(* av_packet_rescale_ts(), rounding to the nearest tick. *)
Rescaled(pts) ==
  IF pts >= 0 THEN (pts + (Tick \div 2)) \div Tick
              ELSE -((-pts + (Tick \div 2)) \div Tick)

(* sc_recorder_write_stream() forces the timestamps to increase.           *)
(* Variant: they may be equal.                                             *)
FixedNonDecreasing(pts, prev) == IF prev # NoPts /\ pts < prev THEN prev ELSE pts
FixedIncreasing(pts, prev) == IF prev # NoPts /\ pts <= prev THEN prev + 1 ELSE pts

WriteStream(s, p) ==
  LET pts == FixedIncreasing(Rescaled(p.pts), last[s]) IN
    /\ last' = [last EXCEPT ![s] = pts]
    /\ file' = [file EXCEPT ![s] = Append(@, [n |-> p.n, pts |-> pts])]

(* A video packet is written when the next one is known; writing may fail. *)
WriteVideo ==
  /\ rec = "write" /\ held["video"] # <<>>
  /\ \/ /\ previous # <<>>
        /\ \/ WriteStream("video", previous[1]) /\ rec' = "write"
           \/ rec' = "close" /\ UNCHANGED <<last, file>>
     \/ previous = <<>> /\ UNCHANGED <<last, file, rec>>
  /\ previous' = IF rec' = "close" THEN <<>> ELSE <<Shifted("video")>>
  /\ held' = [held EXCEPT !["video"] = <<>>]
  /\ UNCHANGED <<ctx, sinks, queue, origin, stopped, success, lost, demuxers,
                 main>>

WriteAudio ==
  /\ rec = "write" /\ held["video"] = <<>>
  /\ \/ /\ held["audio"] # <<>>
        /\ \/ WriteStream("audio", Shifted("audio")) /\ rec' = "take"
           \/ rec' = "close" /\ UNCHANGED <<last, file>>
     \/ held["audio"] = <<>> /\ rec' = "take" /\ UNCHANGED <<last, file>>
  /\ held' = [held EXCEPT !["audio"] = <<>>]
  /\ UNCHANGED <<ctx, sinks, queue, previous, origin, stopped, success, lost,
                 demuxers, main>>

(* Failing to write the last packet is not an error; failing to write the  *)
(* trailer is.                                                             *)
WriteTrailer ==
  /\ rec = "trailer"
  /\ \/ previous # <<>> /\ WriteStream("video", previous[1]) /\ UNCHANGED lost
     \/ UNCHANGED <<last, file>> /\ lost' = (previous # <<>>)
  /\ previous' = <<>>
  /\ success' \in BOOLEAN
  /\ rec' = "close"
  /\ UNCHANGED <<ctx, sinks, queue, held, origin, stopped, demuxers, main>>

CloseOutputFile ==
  /\ rec = "close"
  /\ ctx' = "freed"
  /\ rec' = "end"
  /\ held' = All(<<>>)
  /\ UNCHANGED <<sinks, queue, previous, origin, last, stopped, success, file,
                 lost, demuxers, main>>

(* No packet is accepted any more, and those that remain are discarded. *)
End ==
  /\ rec = "end"
  /\ rec' = "ended"
  /\ stopped' = TRUE
  /\ queue' = All(<<>>)
  /\ UNCHANGED <<ctx, sinks, local, success, file, lost, demuxers, main>>

-------------------------------------------------------------------------------
(* The main thread: the demuxers are joined before the recorder.           *)

Stop ==
  /\ main = "loop"
  /\ main' = "stopped"
  /\ stopped' = TRUE
  /\ UNCHANGED <<rec, ctx, sinks, queue, local, success, file, lost,
                 demuxers>>

Join ==
  /\ main = "stopped"
  /\ rec = "ended" /\ demux = All("ended")
  /\ main' = "joined"
  /\ UNCHANGED <<rec, ctx, sinks, queue, local, stopped, success, file, lost,
                 demuxers>>

-------------------------------------------------------------------------------
RecorderThread ==
  \/ OpenOutputFile
  \/ TakeConfigs
  \/ WriteHeader
  \/ TakePackets
  \/ SetOrigin
  \/ WriteVideo
  \/ WriteAudio
  \/ WriteTrailer
  \/ CloseOutputFile
  \/ End

Next ==
  \/ RecorderThread
  \/ \E s \in Streams : SinkOpen(s) \/ SinkClose(s) \/ DemuxerFails(s)
  \/ \E s \in Streams, pts \in Pts \cup {NoPts} : SinkPush(s, pts)
  \/ SinkDisable
  \/ Stop
  \/ Join

Spec == Init /\ [][Next]_vars

(* The threads are scheduled; a demuxer whose packet was rejected closes   *)
(* its sinks, and once the main thread stops, the sockets are shut down,   *)
(* which ends the streams.  Nothing is assumed of the device.              *)
Fairness ==
  /\ WF_vars(RecorderThread)
  /\ \A s \in Streams :
       WF_vars(/\ main = "stopped" \/ demux[s] = "closing"
               /\ SinkClose(s) \/ DemuxerFails(s))
  /\ WF_vars(Join)

FairSpec == Spec /\ Fairness

-------------------------------------------------------------------------------
Packet == [n : 0 .. MaxFrames, pts : Pts \cup {NoPts}]
Written == [n : 1 .. MaxFrames, pts : {p \in Int : p > NoPts}]

(* The types of the variables; a packet is written or waits to be only     *)
(* once there is an origin, with a real timestamp.                         *)
RecorderTypeOK ==
  /\ rec \in {"start", "header", "write_header", "take", "origin", "write",
              "trailer", "close", "end", "ended", "crashed"}
  /\ ctx \in {"none", "open", "freed"}
  /\ enabled \subseteq Streams /\ inited \subseteq Streams /\ expects \subseteq inited
  /\ queue \in [Streams -> Seq(Packet)]
  /\ held \in [Streams -> {<<>>} \cup {<<p>> : p \in Packet}]
  /\ Len(previous) <= 1 /\ \A i \in DOMAIN previous : previous[i].n > 0
  /\ origin \in Pts \cup {NoPts}
  /\ file \in [Streams -> Seq(Written)]
  /\ origin = NoPts => previous = <<>> /\ file = All(<<>>)
  /\ stopped \in BOOLEAN /\ success \in BOOLEAN
  /\ demux \in [Streams -> {"start", "opened", "closing", "ended"}]
  /\ main \in {"loop", "stopped", "joined", "crashed"}

Numbers(s) == [i \in DOMAIN file[s] |-> file[s][i].n]

(* A recording that succeeds holds every packet that the sinks accepted,   *)
(* once and in order, whenever the recorder was stopped; only the last     *)
(* video packet may be missing, and only if it could not be written.  The  *)
(* types are checked with it.                                              *)
RecordedInOrder ==
  /\ RecorderTypeOK
  /\ rec = "ended" /\ success =>
       /\ Numbers("video") =
            [i \in 1 .. frames["video"] - (IF lost THEN 1 ELSE 0) |-> i]
       /\ Numbers("audio") = [i \in 1 .. frames["audio"] |-> i]

(* In each stream of the file the timestamps increase strictly, although   *)
(* the packets' may not and the rescaling rounds them.                     *)
TimestampsIncrease ==
  \A s \in Streams : \A i \in 2 .. Len(file[s]) : file[s][i - 1].pts < file[s][i].pts

(* The end of any stream, or the main thread, ends the recording: the      *)
(* recorder never waits for a stream that will not come.                   *)
StreamEnded == \E s \in inited \cap enabled : demux[s] = "ended"
RecorderEnds == (stopped \/ StreamEnded) ~> rec \in {"ended", "crashed"}
===============================================================================
