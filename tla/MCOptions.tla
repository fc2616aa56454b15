----------------------------- MODULE MCOptions -----------------------------
(***************************************************************************)
(* Instance of Options: command lines made of arguments that act on the    *)
(* same part of the program.  Every subset of a theme, in every order, is  *)
(* a command line.                                                         *)
(***************************************************************************)
EXTENDS Options

A(opt, val) == [opt |-> opt, val |-> val]
Given(flags) == {A(f, TRUE) : f \in flags}
Each(opt, vals) == {A(opt, v) : v \in vals}

Streams ==
    Given({"no_window", "no_video", "no_audio", "no_control", "no_video_playback",
         "no_audio_playback", "no_playback", "require_audio", "print_fps"})
    \cup Each("record_filename", {"mkv", "mka"}) \cup Each("v4l2_device", {"ok"})
    \cup Each("v4l2_buffer", {100, 4000000}) \cup Each("audio_buffer", {0})

Recordings ==
    Given({"no_video", "no_audio"})
    \cup Each("record_filename", RecordFormats \cup {"avi"})
    \cup Each("record_format", {"mkv", "mp4", "avi"})
    \cup Each("audio_codec", AudioCodecs \cup {"mp3"}) \cup Each("video_codec", {"vp8"})
    \cup Each("record_orientation", {"90", "flip0"})

Inputs ==
    Given({"K", "M", "G", "otg", "no_control", "no_video_playback", "no_mouse_hover",
         "prefer_text", "no_key_repeat"})
    \cup Each("keyboard_input_mode", {"sdk", "aoa"})
    \cup Each("mouse_input_mode", {"sdk", "uhid", "disabled"})
    \cup Each("gamepad_input_mode", {"aoa", "sdk"})

Bindings4 ==
    Each("mouse_bindings", {<<ForwardClicks>>, <<DefaultShortcuts, ForwardClicks>>,
                            <<<<"+", "x", "+", "+">>>>, <<<<"+">>>>})
    \cup Given({"M", "otg", "raw_key_events", "prefer_text", "no_window"})
    \cup Each("shortcut_mods", {{"lctrl"}, {"lctrl", "super"}, {}})
    \cup Each("mouse_input_mode", {"aoa"}) \cup Each("video_source", {"camera"})

Displays ==
    Given({"flex_display", "no_control", "no_video", "no_window", "no_window_aspect_ratio_lock",
         "no_vd_destroy_content", "no_vd_system_decorations"})
    \cup Each("display_id", {0, 1}) \cup Each("new_display", {"ok", Empty})
    \cup Each("display_ime_policy", {"local", "other"}) \cup Each("crop", {"ok"})
    \cup Each("window_width", {300}) \cup Each("video_source", {"camera"})
    \cup Each("v4l2_device", {"ok"})

Cameras ==
    Given({"camera_high_speed", "camera_torch", "no_video", "M"})
    \cup Each("video_source", {"camera"}) \cup Each("camera_id", {"ok", Empty})
    \cup Each("camera_facing", {"front"}) \cup Each("camera_size", {"ok"})
    \cup Each("camera_ar", {"ok", Empty}) \cup Each("camera_fps", {0, 60, 65536})
    \cup Each("camera_zoom", {"ok"}) \cup Each("max_size", {1024})
    \cup Each("display_ime_policy", {"hide"})

Sounds ==
    Given({"audio_dup", "no_audio", "no_video"}) \cup Each("audio_source", AudioSources)
    \cup Each("audio_codec", AudioCodecs) \cup Each("video_source", {"camera"})
    \cup Each("audio_bit_rate", {[n |-> 64, suffix |-> "K"], [n |-> 3000, suffix |-> "M"]})

Devices ==
    Given({"turn_screen_off", "stay_awake", "show_touches", "power_off_on_close", "keep_active",
         "no_control", "otg", "no_power_on", "no_cleanup", "no_clipboard_autosync", "K"})
    \cup Each("start_app", {"ok"}) \cup Each("screen_off_timeout", {0, 300, 2147484})

\* The other options given to the server, with the ends of their ranges.
Numbers ==
    Each("video_bit_rate", {[n |-> 0, suffix |-> ""], [n |-> 2147, suffix |-> "M"],
                            [n |-> 2148, suffix |-> "M"]})
    \cup Each("max_size", {65535, 65536}) \cup Each("min_size_alignment", {1, 6, 16, 17})
    \cup Each("display_id", {2147483647}) \cup Each("video_codec", VideoCodecs)
    \cup Each("log_level", {"verbose", "warn", "trace"})

CaptureOrientations ==
    {A("capture_orientation", [lock |-> l, orientation |-> o]) :
        l \in BOOLEAN, o \in Orientations \cup {Empty, "45"}}
    \cup Each("orientation", {"90", "45"}) \cup Each("display_orientation", {"flip90"})
    \cup Given({"no_downsize_on_error", "ignore_video_encoder_constraints"})

Texts ==
    Each("crop", FreeText) \cup Each("max_fps", FreeText) \cup Each("video_encoder", FreeText)
    \cup Each("angle", {"ok"}) \cup Each("video_codec_options", {"ok", Empty})

Connections ==
    Given({"select_usb", "select_tcpip", "force_adb_forward"}) \cup Each("serial", {"ok"})
    \cup Each("tcpip", {"ok", None}) \cup Each("tunnel_host", {1}) \cup Each("tunnel_port", {1234})
    \cup Each("port_range", {<<27200>>, <<27300, 27200>>, <<65536>>})
    \cup Each("list", {"encoders", "apps"})

Windows ==
    Each("window_x", {WindowAuto, 0, -32768 - 1}) \cup Each("window_height", {65535})
    \cup Each("render_fit", {"stretched", "other"}) \cup Each("background_color",
        {<<1, 2, 15>>, <<1, 2, 3, 4, 5, 6>>, <<1>>}) \cup Each("time_limit", {10})
    \cup Each("video_buffer", {3600000, 3600001}) \cup Each("audio_output_buffer", {1000, 1001})

\* Options of different parts of the program together.
Crossed ==
    Given({"otg", "K", "flex_display", "no_window", "no_control", "no_video", "no_playback",
           "audio_dup", "turn_screen_off", "no_audio"})
    \cup Each("video_source", {"camera"}) \cup Each("new_display", {Empty})
    \cup Each("record_filename", {"mkv"}) \cup Each("v4l2_device", {"ok"})
    \cup Each("mouse_input_mode", {"sdk"})

MCThemes ==
    <<Streams, Recordings, Inputs, Bindings4, Displays, Cameras, Sounds, Devices, Numbers,
      CaptureOrientations, Texts, Connections, Windows, Crossed>>
MCSdkVersions == {28, 30, 34}

\* For the messages of the start.
Startup ==
    Given({"turn_screen_off", "no_control"}) \cup Each("start_app", {"ok"})
    \cup Each("video_source", {"camera"})
MCStartup == <<Startup>>

============================================================================
