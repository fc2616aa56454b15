--------------------------- MODULE ServerOptions ---------------------------
(***************************************************************************)
(* The options the client gives to the server: the command line that       *)
(* execute_server (app/src/server.c) builds, a function from the keys it   *)
(* writes to their values, and what Options.parse (Options.java) reads.    *)
(***************************************************************************)
EXTENDS CommandLine

\* The parameters written as key=value, and for each one the value for which
\* the client writes nothing.
ClientOmits == Over(
    [f \in FreeStrings \ {"start_app", "v4l2_device", "serial", "tcpip_dst"} |-> None],
    [video |-> TRUE, video_bit_rate |-> 0, audio |-> TRUE, audio_bit_rate |-> 0,
     video_codec |-> "h264", audio_codec |-> "opus", video_source |-> "display",
     audio_source |-> "output", audio_dup |-> FALSE, max_size |-> 0,
     min_size_alignment |-> 1, control |-> TRUE, display_id |-> 0,
     camera_facing |-> "any", camera_fps |-> 0, camera_high_speed |-> FALSE,
     camera_torch |-> FALSE, show_touches |-> FALSE, stay_awake |-> FALSE,
     screen_off_timeout |-> -1, power_off_on_close |-> FALSE,
     clipboard_autosync |-> TRUE, downsize_on_error |-> TRUE, cleanup |-> TRUE,
     power_on |-> TRUE, flex_display |-> FALSE,
     ignore_video_encoder_constraints |-> FALSE, display_ime_policy |-> "undefined",
     vd_destroy_content |-> TRUE, vd_system_decorations |-> TRUE,
     keep_active |-> FALSE, list |-> {}])

\* The strings written as they are, after a check for shell characters.
Validated == FreeStrings \cap DOMAIN ClientOmits

ValidStrings(o) == \A f \in Validated : o[f] # "unsafe"

Written(o) ==
    {f \in DOMAIN ClientOmits : o[f] # ClientOmits[f]} \ (IF o.audio THEN {} ELSE {"audio_source"})

OrientationWritten(o) ==
    o.capture_orientation_lock # "unlocked" \/ o.capture_orientation # "0"

\* "@" alone, or the orientation behind "@" when it is locked.
PrintedOrientation(o) ==
    IF o.capture_orientation_lock = "initial" THEN [lock |-> TRUE, orientation |-> Empty]
    ELSE [lock |-> o.capture_orientation_lock # "unlocked", orientation |-> o.capture_orientation]

\* The screen off timeout is a number of seconds, written in milliseconds.
\* (Mutant: written in seconds.)
PrintedRaw(f, o) == o[f]

Printed(f, o) == IF f = "screen_off_timeout" THEN 1000 * o[f] ELSE o[f]

\* forward: the tunnel that the client opened (adb forward, or adb reverse).
CommandLineOf(o, forward) ==
    [f \in {"log_level"} \cup Written(o)
             \cup (IF forward THEN {"tunnel_forward"} ELSE {})
             \cup (IF OrientationWritten(o) THEN {"capture_orientation"} ELSE {}) |->
        CASE f = "tunnel_forward" -> forward
          [] f = "capture_orientation" -> PrintedOrientation(o)
          [] OTHER -> Printed(f, o)]

(***************************************************************************)
(* Server: Options.java                                                    *)
(***************************************************************************)
DisplayIdNone == -1

ServerDefaults ==
    [log_level |-> "debug", video |-> TRUE, audio |-> TRUE, max_size |-> 0,
     min_size_alignment |-> 1, video_codec |-> "h264", audio_codec |-> "opus",
     video_source |-> "display", audio_source |-> "output", audio_dup |-> FALSE,
     video_bit_rate |-> 8000000, audio_bit_rate |-> 128000, max_fps |-> None,
     angle |-> None, tunnel_forward |-> FALSE, crop |-> None, control |-> TRUE,
     display_id |-> 0, camera_id |-> None, camera_size |-> None,
     camera_facing |-> "any", camera_ar |-> None, camera_zoom |-> None,
     camera_fps |-> 0, camera_high_speed |-> FALSE, camera_torch |-> FALSE,
     show_touches |-> FALSE, stay_awake |-> FALSE, screen_off_timeout |-> -1,
     display_ime_policy |-> "undefined", video_codec_options |-> None,
     audio_codec_options |-> None, video_encoder |-> None, audio_encoder |-> None,
     power_off_on_close |-> FALSE, clipboard_autosync |-> TRUE,
     downsize_on_error |-> TRUE, cleanup |-> TRUE, power_on |-> TRUE,
     new_display |-> None, vd_destroy_content |-> TRUE,
     vd_system_decorations |-> TRUE, flex_display |-> FALSE, keep_active |-> FALSE,
     ignore_video_encoder_constraints |-> FALSE,
     capture_orientation |-> [lock |-> FALSE, orientation |-> "0"], list |-> {}]

\* The names each enumeration of the server knows (findByName).
ServerVideoCodecs == {"h264", "h265", "av1", "vp8", "vp9"}
ServerAudioCodecs == {"opus", "aac", "flac", "raw"}
ServerAudioSources ==
    {"output", "mic", "playback", "mic-unprocessed", "mic-camcorder",
     "mic-voice-recognition", "mic-voice-communication", "voice-call",
     "voice-call-uplink", "voice-call-downlink", "voice-performance"}
ServerCameraFacings == {"front", "back", "external"}
ServerVideoSources == {"display", "camera"}
ServerOrientations == {"0", "90", "180", "270", "flip0", "flip90", "flip180", "flip270"}

\* The keys whose empty value means the default, and those it is an error for.
EmptyIsDefault ==
    {"crop", "camera_id", "camera_size", "camera_facing", "camera_ar", "camera_zoom",
     "video_encoder", "audio_encoder", "video_codec_options", "audio_codec_options"}
Floats == {"max_fps", "angle"}

\* The values the server understands; for another one it throws.
Readable(key, value) ==
    CASE key = "video_codec" -> value \in ServerVideoCodecs
      [] key = "audio_codec" -> value \in ServerAudioCodecs
      [] key = "video_source" -> value \in ServerVideoSources
      [] key = "audio_source" -> value \in ServerAudioSources
      [] key = "camera_facing" -> value \in ServerCameraFacings
      [] key = "display_ime_policy" -> value \in {"local", "fallback", "hide"}
      [] key = "log_level" -> value \in {"verbose", "debug", "info", "warn", "error"}
      [] key = "min_size_alignment" -> value \in {1, 2, 4, 8, 16}
      [] key = "screen_off_timeout" -> value >= -1
      [] key = "capture_orientation" ->
            value.orientation \in ServerOrientations \/ (value.lock /\ value.orientation = Empty)
      [] key \in Floats -> value = "ok"
      [] key \in {"video_encoder", "audio_encoder", "camera_id"} -> TRUE
      [] key \in FreeStrings \ (Floats \cup {"video_encoder", "audio_encoder", "camera_id"}) ->
           value \in {"ok", Empty}
      [] OTHER -> TRUE

\* The value the server keeps; "@" alone locks the initial orientation.
Read(key, value) ==
    CASE key \in EmptyIsDefault -> IF value = Empty THEN ServerDefaults[key] ELSE value
      [] key = "capture_orientation" /\ value.orientation = Empty ->
            [lock |-> TRUE, orientation |-> "initial"]
      [] OTHER -> value

\* Options.parse: the assertion of its end refuses a display id beside a new
\* display, whose id is not known yet.
ServerParse(line) ==
    LET read == [k \in DOMAIN ServerDefaults |->
                    IF k \in DOMAIN line THEN Read(k, line[k]) ELSE ServerDefaults[k]]
    IN  [thrown |-> \/ \E k \in DOMAIN line \cap DOMAIN ServerDefaults : ~Readable(k, line[k])
                    \/ read.new_display # None /\ read.display_id # 0,
         opts |-> IF read.new_display # None
                  THEN [read EXCEPT !.display_id = DisplayIdNone] ELSE read]

============================================================================
