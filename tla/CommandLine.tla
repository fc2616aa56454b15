---------------------------- MODULE CommandLine ----------------------------
(***************************************************************************)
(* The command line of the client (app/src/cli.c): what getopt does with   *)
(* one argument, and what the checks after the last one do with the        *)
(* options (struct scrcpy_options, a record with the field names of the    *)
(* C structure).                                                           *)
(*                                                                         *)
(* An argument is a record [opt, val].  A NULL string is None, the string  *)
(* without a character Empty; the text of a free string is abstracted to   *)
(* the kinds the program tells apart (see FreeText); a file name is        *)
(* abstracted to its extension.                                            *)
(***************************************************************************)
EXTENDS Integers, Sequences, FiniteSets

CONSTANTS
    HaveUsb,    \* compiled with HAVE_USB (OTG and the AOA input modes)
    HaveV4l2    \* compiled with HAVE_V4L2

ASSUME BuildAssumption == HaveUsb \in BOOLEAN /\ HaveV4l2 \in BOOLEAN

None == "none"
Empty == "empty"
Automatic == "auto"

\* The texts of a free string: well formed for the parser of the server, not
\* well formed, holding a character that is special for a shell, empty.
FreeText == {"ok", "malformed", "unsafe", Empty}

FreeStrings ==
    {"crop", "max_fps", "angle", "video_codec_options", "audio_codec_options",
     "video_encoder", "audio_encoder", "camera_id", "camera_size", "camera_ar",
     "camera_zoom", "new_display", "start_app", "v4l2_device", "serial",
     "tcpip_dst"}

VideoCodecs == {"h264", "h265", "av1", "vp8", "vp9"}
AudioCodecs == {"opus", "aac", "flac", "raw"}
VideoSources == {"display", "camera"}
AudioSources ==
    {"mic", "output", "playback", "mic-unprocessed", "mic-camcorder",
     "mic-voice-recognition", "mic-voice-communication", "voice-call",
     "voice-call-uplink", "voice-call-downlink", "voice-performance"}
CameraFacings == {"front", "back", "external"}
Rotations == {"0", "90", "180", "270"}
Mirrors == {"flip0", "flip90", "flip180", "flip270"}
Orientations == Rotations \cup Mirrors
ImePolicies == {"local", "fallback", "hide"}
LogLevels == {"verbose", "debug", "info", "warn", "error"}
RecordFormats == {"mp4", "mkv", "m4a", "mka", "opus", "aac", "flac", "wav"}
AudioContainers == {"m4a", "mka", "opus", "aac", "flac", "wav"}
RenderFits == {"letterbox", "stretched", "unscaled"}
Keyboards == {"disabled", "sdk", "uhid"} \cup (IF HaveUsb THEN {"aoa"} ELSE {})
Mice == {"disabled", "sdk", "uhid"} \cup (IF HaveUsb THEN {"aoa"} ELSE {})
Gamepads == {"disabled", "uhid"} \cup (IF HaveUsb THEN {"aoa"} ELSE {})

\* A set of bindings is the four actions of the right, middle, 4th and 5th
\* buttons, each one of these letters.
BindingLetters == {"+", "-", "b", "h", "s", "n"}
ShortcutMods == {"lctrl", "rctrl", "lalt", "ralt", "lsuper", "rsuper"}
DefaultShortcuts == <<"b", "h", "s", "n">>
ForwardClicks == <<"+", "+", "+", "+">>
AutoBindings == [pri |-> <<>>, sec |-> <<>>]

\* SC_WINDOW_POSITION_UNDEFINED, written "auto" (window_y is parsed the same way).
WindowAuto == -32768

\* A record over another one, and the record of a single field.
Over(a, o) == [f \in DOMAIN a \cup DOMAIN o |-> IF f \in DOMAIN a THEN a[f] ELSE o[f]]
Only(field, value) == [f \in {field} |-> value]

DefaultOptions == Over([f \in FreeStrings |-> None],
    [log_level |-> "info", video_codec |-> "h264", audio_codec |-> "opus",
     video_source |-> "display", audio_source |-> Automatic, record_filename |-> None,
     record_format |-> Automatic, keyboard_input_mode |-> Automatic,
     mouse_input_mode |-> Automatic, gamepad_input_mode |-> "disabled",
     mouse_bindings |-> AutoBindings, camera_facing |-> "any", camera_fps |-> 0,
     port_range |-> <<27183, 27199>>, tunnel_host |-> 0, tunnel_port |-> 0,
     shortcut_mods |-> {"lalt", "lsuper"}, min_size_alignment |-> 1,
     max_size |-> 0, video_bit_rate |-> 0, audio_bit_rate |-> 0,
     capture_orientation |-> "0", capture_orientation_lock |-> "unlocked",
     display_orientation |-> "0", record_orientation |-> "0",
     display_ime_policy |-> "undefined", render_fit |-> Automatic,
     window_x |-> WindowAuto, window_width |-> 0, window_height |-> 0,
     display_id |-> 0, background_color |-> <<34, 34, 34>>, video_buffer |-> 0,
     audio_buffer |-> -1, audio_output_buffer |-> 10, time_limit |-> 0,
     screen_off_timeout |-> -1, v4l2_buffer |-> 0, otg |-> FALSE,
     show_touches |-> FALSE, control |-> TRUE, video_playback |-> TRUE,
     audio_playback |-> TRUE, turn_screen_off |-> FALSE,
     key_inject_mode |-> "mixed", window_aspect_ratio_lock |-> TRUE,
     stay_awake |-> FALSE, force_adb_forward |-> FALSE,
     forward_key_repeat |-> TRUE, power_off_on_close |-> FALSE,
     clipboard_autosync |-> TRUE, downsize_on_error |-> TRUE, tcpip |-> FALSE,
     select_tcpip |-> FALSE, select_usb |-> FALSE, cleanup |-> TRUE,
     start_fps_counter |-> FALSE, power_on |-> TRUE, video |-> TRUE,
     audio |-> TRUE, require_audio |-> FALSE, camera_high_speed |-> FALSE,
     list |-> {}, window |-> TRUE, mouse_hover |-> TRUE, audio_dup |-> FALSE,
     vd_destroy_content |-> TRUE, vd_system_decorations |-> TRUE,
     camera_torch |-> FALSE, keep_active |-> FALSE, flex_display |-> FALSE,
     ignore_video_encoder_constraints |-> FALSE])

(***************************************************************************)
(* getopt: one argument.  The cases of the switch of                       *)
(* parse_args_with_getopt (cli.c:2496-2950) are sorted by kind: flags,     *)
(* names, integers, texts; Accepts and Assigns dispatch on the option.     *)
(***************************************************************************)
\* Options without a value: those that set the field of their name, those that
\* reset a field, and the others, with the assignments they make.
Enabling ==
    {"select_usb", "select_tcpip", "turn_screen_off", "show_touches", "stay_awake",
     "force_adb_forward", "power_off_on_close", "otg", "require_audio", "camera_high_speed",
     "camera_torch", "audio_dup", "keep_active", "flex_display",
     "ignore_video_encoder_constraints"}

Disabling ==
    [no_mouse_hover |-> "mouse_hover", no_control |-> "control", no_video |-> "video",
     no_audio |-> "audio", no_video_playback |-> "video_playback",
     no_audio_playback |-> "audio_playback", no_key_repeat |-> "forward_key_repeat",
     no_clipboard_autosync |-> "clipboard_autosync", no_downsize_on_error |-> "downsize_on_error",
     no_cleanup |-> "cleanup", no_power_on |-> "power_on", no_window |-> "window",
     no_vd_destroy_content |-> "vd_destroy_content",
     no_vd_system_decorations |-> "vd_system_decorations",
     no_window_aspect_ratio_lock |-> "window_aspect_ratio_lock"]

Flag ==
    [K |-> [keyboard_input_mode |-> "uhid_or_aoa"], M |-> [mouse_input_mode |-> "uhid_or_aoa"],
     G |-> [gamepad_input_mode |-> "uhid_or_aoa"],
     no_playback |-> [video_playback |-> FALSE, audio_playback |-> FALSE],
     prefer_text |-> [key_inject_mode |-> "text"],
     raw_key_events |-> [key_inject_mode |-> "raw"],
     print_fps |-> [start_fps_counter |-> TRUE]]

\* Options whose value is one of a list of names.
Choice ==
    [record_format |-> RecordFormats, log_level |-> LogLevels,
     video_codec |-> VideoCodecs, audio_codec |-> AudioCodecs,
     video_source |-> VideoSources, audio_source |-> AudioSources,
     camera_facing |-> CameraFacings, display_ime_policy |-> ImePolicies,
     display_orientation |-> Orientations, record_orientation |-> Orientations,
     render_fit |-> RenderFits, keyboard_input_mode |-> Keyboards,
     mouse_input_mode |-> Mice, gamepad_input_mode |-> Gamepads]

\* Options whose value is an integer: the smallest and the largest one.
Range31 == 2147483647
Bounds ==
    [video_bit_rate |-> <<0, Range31>>, audio_bit_rate |-> <<0, Range31>>,
     max_size |-> <<0, 65535>>, min_size_alignment |-> <<1, 16>>,
     video_buffer |-> <<0, 3600000>>, audio_buffer |-> <<0, 3600000>>,
     v4l2_buffer |-> <<0, 3600000>>, audio_output_buffer |-> <<0, 1000>>,
     window_x |-> <<-32767, 32767>>, window_width |-> <<0, 65535>>,
     window_height |-> <<0, 65535>>, display_id |-> <<0, Range31>>,
     tunnel_port |-> <<0, 65535>>, camera_fps |-> <<0, 65535>>,
     time_limit |-> <<0, Range31>>, screen_off_timeout |-> <<0, Range31 \div 1000>>]

\* A bit rate may end with a suffix; the product must fit (str.c).
WithSuffix(val) ==
    LET mul == CASE val.suffix = "M" -> 1000000 [] val.suffix = "K" -> 1000 [] OTHER -> 1
    IN  IF val.n > Range31 \div mul THEN -1 ELSE val.n * mul

IntegerOf(arg) ==
    IF arg.opt \in {"video_bit_rate", "audio_bit_rate"} THEN WithSuffix(arg.val) ELSE arg.val

InBounds(arg) ==
    LET v == IntegerOf(arg)
    IN  /\ Bounds[arg.opt][1] <= v /\ v <= Bounds[arg.opt][2]
        /\ arg.opt = "min_size_alignment" => v \in {1, 2, 4, 8, 16}
        /\ arg.opt = "v4l2_buffer" => HaveV4l2

\* An argument as getopt hands it over: a known option, with a text of the kind
\* that this option has.  Whether the text is accepted is for Accepts.
OptionNames ==
    Enabling \cup DOMAIN Disabling \cup DOMAIN Flag \cup DOMAIN Choice \cup DOMAIN Bounds
    \cup (FreeStrings \ {"tcpip_dst"}) \cup
    {"orientation", "capture_orientation", "mouse_bindings", "shortcut_mods", "port_range",
     "background_color", "record_filename", "tcpip", "tunnel_host", "list"}

IsArgument(arg) ==
    /\ arg.opt \in OptionNames
    /\ arg.opt \in DOMAIN Bounds => IntegerOf(arg) \in Int
    /\ arg.opt \in FreeStrings => arg.val \in FreeText
    /\ arg.opt = "tcpip" => arg.val \in FreeText \cup {None}
    /\ arg.opt = "capture_orientation" => arg.val.lock \in BOOLEAN

\* parse_capture_orientation: the value is [lock, orientation]; a lone "@"
\* has no orientation and leaves the one already there.
CaptureOrientation(val) ==
    CASE val.orientation = Empty /\ val.lock -> [capture_orientation_lock |-> "initial"]
      [] OTHER -> [capture_orientation_lock |-> IF val.lock THEN "value" ELSE "unlocked",
                   capture_orientation |-> val.orientation]

\* parse_mouse_bindings: one set of bindings for both, or two of them.
BindingsOk(val) ==
    /\ Len(val) \in {1, 2}
    /\ \A i \in DOMAIN val : Len(val[i]) = 4 /\ \A b \in 1..4 : val[i][b] \in BindingLetters

Bindings(val) == [pri |-> val[1], sec |-> val[Len(val)]]

\* parse_port_range: one port, or two in any order.
PortsOk(val) == \A i \in DOMAIN val : val[i] \in 0..65535

PortRange(val) ==
    LET other == val[Len(val)]
    IN  IF val[1] < other THEN <<val[1], other>> ELSE <<other, val[1]>>

\* parse_hex_color: three digits, each doubled, or three pairs of digits.
Colour(digits) ==
    [i \in 1..3 |-> IF Len(digits) = 3 THEN 17 * digits[i]
                    ELSE 16 * digits[2 * i - 1] + digits[2 * i]]

\* The arguments getopt takes; for the others it prints an error and stops.
Accepts(arg, o) ==
    CASE arg.opt \in {"prefer_text", "raw_key_events"} -> o.key_inject_mode = "mixed"
      [] arg.opt = "otg" -> HaveUsb
      [] arg.opt = "v4l2_device" -> HaveV4l2
      [] arg.opt = "orientation" -> arg.val \in Orientations
      [] arg.opt \in DOMAIN Choice -> arg.val \in Choice[arg.opt]
      [] arg.opt \in DOMAIN Bounds ->
            (arg.opt = "window_x" /\ arg.val = WindowAuto) \/ InBounds(arg)
      [] arg.opt = "capture_orientation" ->
            arg.val.orientation \in Orientations \/ (arg.val.orientation = Empty /\ arg.val.lock)
      [] arg.opt = "mouse_bindings" -> BindingsOk(arg.val)
      [] arg.opt = "shortcut_mods" -> arg.val # {} /\ arg.val \subseteq ShortcutMods
      [] arg.opt = "port_range" -> PortsOk(arg.val)
      [] arg.opt = "background_color" -> Len(arg.val) \in {3, 6}
      [] OTHER -> TRUE

\* The assignments an accepted argument makes.
Assigns(arg, o) ==
    CASE arg.opt \in Enabling -> Only(arg.opt, TRUE)
      [] arg.opt \in DOMAIN Disabling -> Only(Disabling[arg.opt], FALSE)
      [] arg.opt \in DOMAIN Flag -> Flag[arg.opt]
      [] arg.opt = "orientation" ->
            [display_orientation |-> arg.val, record_orientation |-> arg.val]
      [] arg.opt = "window_x" -> [window_x |-> arg.val]
      [] arg.opt \in DOMAIN Bounds \ {"window_x"} -> Only(arg.opt, IntegerOf(arg))
      [] arg.opt = "capture_orientation" -> CaptureOrientation(arg.val)
      [] arg.opt = "mouse_bindings" -> [mouse_bindings |-> Bindings(arg.val)]
      [] arg.opt = "port_range" -> [port_range |-> PortRange(arg.val)]
      [] arg.opt = "background_color" -> [background_color |-> Colour(arg.val)]
      [] arg.opt = "tcpip" -> [tcpip |-> TRUE, tcpip_dst |-> arg.val]
      [] arg.opt = "list" -> [list |-> o.list \cup {arg.val}]
      [] OTHER -> Only(arg.opt, arg.val)

(***************************************************************************)
(* The checks after the last argument, in their order                      *)
(***************************************************************************)
V4l2(o) == HaveV4l2 /\ o.v4l2_device # None
Otg(o) == HaveUsb /\ o.otg

Selectors(o) ==
    {f \in {"serial", "tcpip_dst"} : o[f] # None} \cup {f \in {"select_tcpip", "select_usb"} : o[f]}

\* What is neither displayed, played, recorded nor sent to a sink is not captured.
\* (Mutant: the playback is not switched off with the window.)
PlaybackWithoutWindow(o) ==
    [o EXCEPT !.video_playback = @ /\ o.video, !.power_on = @ /\ o.video,
              !.audio_playback = @ /\ o.audio]

PlaybackOff(o) ==
    [o EXCEPT !.video_playback = @ /\ o.window /\ o.video,
              !.power_on = @ /\ o.video,
              !.audio_playback = @ /\ o.audio]

CaptureOff(o) ==
    [o EXCEPT !.video = @ /\ (o.video_playback \/ o.record_filename # None \/ V4l2(o)),
              !.audio = @ /\ (o.audio_playback \/ o.record_filename # None)]

NothingToDo(o) == ~(o.video \/ o.audio \/ o.control \/ Otg(o))

\* Without video, the session ends if the audio fails; the default buffer
\* depends on the codec; V4L2 cannot change its size.
StreamDefaults(o) ==
    [o EXCEPT !.require_audio = @ \/ (~o.video /\ ~Otg(o)),
              !.audio_buffer = IF o.audio_playback /\ @ = -1
                               THEN IF o.audio_codec = "flac" THEN 120 ELSE 50
                               ELSE @,
              !.downsize_on_error = @ /\ ~V4l2(o)]

V4l2Refused(o) ==
    \/ V4l2(o) /\ (~o.video \/ o.flex_display)
    \/ HaveV4l2 /\ o.v4l2_buffer # 0 /\ o.v4l2_device = None

\* The input modes left to the program, for a mirrored display.
InputModes(o) ==
    LET hid == IF Otg(o) THEN "aoa" ELSE "uhid"
        Resolve(mode, auto) ==
            CASE mode = Automatic -> auto [] mode = "uhid_or_aoa" -> hid [] OTHER -> mode
    IN  IF o.control /\ o.video_source = "display"
        THEN [o EXCEPT
                !.keyboard_input_mode = Resolve(@, IF Otg(o) THEN "aoa" ELSE "sdk"),
                !.mouse_input_mode = Resolve(@, IF Otg(o) THEN "aoa"
                                                ELSE IF o.video_playback THEN "sdk"
                                                ELSE "disabled"),
                !.gamepad_input_mode = Resolve(@, "disabled")]
        ELSE o

SdkMouseRefused(o) ==
    /\ o.control /\ o.video_source = "display"
    /\ o.mouse_input_mode = "sdk" /\ ~o.video_playback

DefaultBindings(o) ==
    [o EXCEPT !.mouse_bindings =
        IF @ # AutoBindings THEN @
        ELSE IF o.mouse_input_mode = "sdk"
             THEN [pri |-> DefaultShortcuts, sec |-> ForwardClicks]
             ELSE [pri |-> ForwardClicks, sec |-> DefaultShortcuts]]

NewDisplayRefused(o) ==
    o.new_display # None /\ (o.video_source # "display" \/ ~o.video)

RenderFit(o) ==
    [o EXCEPT !.render_fit = IF @ # Automatic THEN @
                             ELSE IF o.flex_display THEN "unscaled" ELSE "letterbox"]

OtgInputRefused(o) ==
    LET modes == {o.keyboard_input_mode, o.mouse_input_mode, o.gamepad_input_mode}
    IN  Otg(o) /\ (~o.control \/ ~(modes \subseteq {"aoa", "disabled"}) \/ modes = {"disabled"})

SdkOnlyRefused(o) ==
    \/ o.keyboard_input_mode # "sdk" /\ (o.key_inject_mode # "mixed" \/ ~o.forward_key_repeat)
    \/ o.mouse_input_mode # "sdk" /\ ~o.mouse_hover

ForcedForward(o) ==
    [o EXCEPT !.force_adb_forward = @ \/ o.tunnel_host # 0 \/ o.tunnel_port # 0]

CameraRefused(o) ==
    IF o.video_source = "camera"
    THEN \/ o.display_id # 0
         \/ o.display_ime_policy # "undefined"
         \/ o.camera_id # None /\ o.camera_facing # "any"
         \/ o.camera_size # None /\ (o.max_size # 0 \/ o.camera_ar # None)
         \/ o.camera_high_speed /\ o.camera_fps = 0
    ELSE \/ \E f \in {"camera_id", "camera_ar", "camera_size"} : o[f] # None
         \/ o.camera_facing # "any" \/ o.camera_fps # 0 \/ o.camera_high_speed

\* A camera takes no input.  (Mutant: the modes are left as they are.)
CameraKeepsInput(o) == o

CameraInput(o) ==
    IF o.video_source = "camera" /\ o.control
    THEN [o EXCEPT !.keyboard_input_mode = "disabled", !.mouse_input_mode = "disabled",
                   !.gamepad_input_mode = "disabled"]
    ELSE o

\* (Mutant: a display id is not refused beside a new display.)
FlexRefused(o) ==
    /\ o.flex_display
    /\ \/ o.video_source # "display" \/ o.new_display = None \/ ~o.control
       \/ o.crop # None \/ o.window_width # 0 \/ o.window_height # 0

DisplayRefused(o) ==
    \/ o.display_id # 0 /\ o.new_display # None
    \/ /\ o.flex_display
       /\ \/ o.video_source # "display" \/ o.new_display = None \/ ~o.control
          \/ o.crop # None \/ o.window_width # 0 \/ o.window_height # 0
    \/ o.display_ime_policy # "undefined" /\ o.display_id = 0 /\ o.new_display = None

FreeResizing(o) ==
    [o EXCEPT !.window_aspect_ratio_lock = @ /\ ~o.flex_display]

AudioSource(o) ==
    [o EXCEPT !.audio_source =
        IF ~(o.audio /\ @ = Automatic) THEN @
        ELSE IF o.video_source = "camera" THEN "mic"
        ELSE IF o.audio_dup THEN "playback" ELSE "output"]

AudioDupRefused(o) == o.audio_dup /\ (~o.audio \/ o.audio_source # "playback")

\* guess_record_format: the extension of the file, if it names a format.
RecordFormat(o) ==
    [o EXCEPT !.record_format =
        IF o.record_filename = None \/ @ # Automatic THEN @
        ELSE IF o.record_filename \in RecordFormats THEN o.record_filename ELSE Automatic]

RecordRefused(o) ==
    \/ o.record_format # Automatic /\ o.record_filename = None
    \/ /\ o.record_filename # None
       /\ \/ ~o.video /\ ~o.audio
          \/ o.record_format = Automatic
          \/ o.record_orientation \in Mirrors
          \/ o.video /\ o.record_format \in AudioContainers
          \/ o.record_format \in {"opus", "aac", "flac"} /\ o.audio_codec # o.record_format
          \/ o.record_format = "wav" /\ o.audio_codec # "raw"
          \/ o.record_format \in {"mp4", "m4a"} /\ o.audio_codec = "raw"
          \/ o.record_format = "mp4" /\ o.video_codec = "vp8"

ControlOnly ==
    {"turn_screen_off", "stay_awake", "show_touches", "power_off_on_close", "keep_active"}

ControlRefused(o) ==
    ~o.control /\ (o.start_app # None \/ \E f \in ControlOnly : o[f])

FpsCounter(o) == [o EXCEPT !.start_fps_counter = @ /\ o.video_playback]

OtgRefused(o) ==
    /\ Otg(o)
    /\ \/ o.record_filename # None \/ o.display_id # 0 \/ V4l2(o)
       \/ o.turn_screen_off \/ o.stay_awake \/ o.show_touches \/ o.power_off_on_close

\* The result of the checks: the options every stage has completed, and
\* whether one of them refused them as they were when it was reached.
CheckOptions(o) ==
    LET streams == CaptureOff(PlaybackOff(o))
        sized == StreamDefaults(streams)
        inputs == InputModes(sized)
        fitted == RenderFit(DefaultBindings(inputs))
        tunnel == ForcedForward(fitted)
        camera == CameraInput(tunnel)
        source == AudioSource(FreeResizing(camera))
        record == RecordFormat(source)
    IN  [refused |-> \/ Cardinality(Selectors(o)) > 1
                     \/ NothingToDo(streams)
                     \/ V4l2Refused(sized)
                     \/ SdkMouseRefused(sized)
                     \/ NewDisplayRefused(inputs)
                     \/ OtgInputRefused(fitted)
                     \/ SdkOnlyRefused(fitted)
                     \/ CameraRefused(tunnel)
                     \/ DisplayRefused(camera)
                     \/ AudioDupRefused(source)
                     \/ RecordRefused(record)
                     \/ ControlRefused(record)
                     \/ OtgRefused(record),
         opts |-> FpsCounter(record)]

============================================================================
