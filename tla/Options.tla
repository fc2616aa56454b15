------------------------------ MODULE Options ------------------------------
(***************************************************************************)
(* From the command line to a running session: the client reads its        *)
(* arguments (cli.c), starts the server with its options (server.c), the   *)
(* server reads them and starts its processors (Options.java, Server.java), *)
(* the client builds what will consume the streams (scrcpy.c) and sends    *)
(* its first control messages.                                             *)
(***************************************************************************)
EXTENDS ServerOptions

CONSTANTS
    Themes,      \* sequence of sets of arguments that are tried together
    SdkVersions  \* Android API levels of the device

ASSUME SdkAssumption == SdkVersions \subseteq Nat

ASSUME ThemesAssumption == \A i \in DOMAIN Themes : \A arg \in Themes[i] : IsArgument(arg)

VARIABLES
    phase,    \* how far the start has come
    theme,    \* the arguments of this command line come from Themes[theme]
    opts,     \* struct scrcpy_options
    forward,  \* the tunnel is an adb forward (server->tunnel.forward)
    line,     \* the parameters given to the server
    srv,      \* Options of the server
    device,   \* what the server runs
    client,   \* what the client runs
    toServer  \* the first control messages, in order

optionsVars == <<phase, theme, opts, forward, line, srv, device, client, toServer>>

Idle == [processors |-> {}, capture |-> None, supportsInput |-> FALSE]
Unwired ==
    [demuxers |-> {}, videoSinks |-> {}, audioSinks |-> {}, window |-> FALSE,
     keyboard |-> None, mouse |-> None, gamepad |-> None, resizes |-> FALSE]

OptionsInit ==
    /\ phase = "getopt"
    /\ theme \in DOMAIN Themes
    /\ opts = DefaultOptions
    /\ forward = FALSE
    /\ line = <<>>
    /\ srv = ServerDefaults
    /\ device = Idle
    /\ client = Unwired
    /\ toServer = <<>>

(***************************************************************************)
(* Client: cli.c                                                           *)
(***************************************************************************)
TakeArgument(arg) ==
    /\ phase = "getopt"
    /\ Accepts(arg, opts)
    /\ opts' = Over(Assigns(arg, opts), opts)
    /\ UNCHANGED <<phase, theme, forward, line, srv, device, client, toServer>>

RefuseArgument(arg) ==
    /\ phase = "getopt"
    /\ ~Accepts(arg, opts)
    /\ phase' = "refused"
    /\ UNCHANGED <<theme, opts, forward, line, srv, device, client, toServer>>

EndOfArguments ==
    /\ phase = "getopt"
    /\ LET checked == CheckOptions(opts)
       IN  IF checked.refused
           THEN phase' = "refused" /\ UNCHANGED opts
           ELSE phase' = "checked" /\ opts' = checked.opts
    /\ UNCHANGED <<theme, forward, line, srv, device, client, toServer>>

(***************************************************************************)
(* Client: scrcpy_otg.c, without a server                                  *)
(***************************************************************************)
OtgMode(mode) == IF mode = "aoa" THEN "aoa" ELSE None

StartOtg ==
    /\ phase = "checked" /\ Otg(opts)
    /\ phase' = "otg"
    /\ client' = [Unwired EXCEPT !.window = TRUE,
                                 !.keyboard = OtgMode(opts.keyboard_input_mode),
                                 !.mouse = OtgMode(opts.mouse_input_mode),
                                 !.gamepad = OtgMode(opts.gamepad_input_mode)]
    /\ UNCHANGED <<theme, opts, forward, line, srv, device, toServer>>

(***************************************************************************)
(* Client: server.c.  The tunnel is a forward when it is forced, or when   *)
(* adb reverse failed.                                                     *)
(***************************************************************************)
ExecuteServer ==
    /\ phase = "checked" /\ ~Otg(opts)
    /\ \E fwd \in BOOLEAN :
        /\ opts.force_adb_forward => fwd
        /\ forward' = fwd
        /\ IF ValidStrings(opts)
           THEN phase' = "executed" /\ line' = CommandLineOf(opts, fwd)
           ELSE phase' = "not_executed" /\ UNCHANGED line
    /\ UNCHANGED <<theme, opts, srv, device, client, toServer>>

(***************************************************************************)
(* Server: Options.java and Server.java                                    *)
(***************************************************************************)
ParseOptions ==
    /\ phase = "executed"
    /\ LET parsed == ServerParse(line)
       IN  IF parsed.thrown
           THEN phase' = "server_threw" /\ UNCHANGED srv
           ELSE /\ phase' = IF parsed.opts.list # {} THEN "listed" ELSE "parsed"
                /\ srv' = parsed.opts
    /\ UNCHANGED <<theme, opts, forward, line, device, client, toServer>>

\* A camera needs Android 12, a new display or an IME policy Android 10.
Unsupported(o, sdk) ==
    \/ o.video_source = "camera" /\ sdk < 31
    \/ (o.new_display # None \/ o.display_ime_policy # "undefined") /\ sdk < 29

Capture(o) ==
    CASE o.video_source = "camera" -> "camera"
      [] o.video_source # "camera" /\ o.new_display # None -> "new_display"
      [] OTHER -> "screen"

StartServer ==
    /\ phase = "parsed"
    /\ \E sdk \in SdkVersions :
        IF Unsupported(srv, sdk)
        THEN phase' = "unsupported" /\ UNCHANGED device
        ELSE /\ phase' = "serving"
             /\ device' =
                  [processors |-> {p \in {"control", "audio", "video"} : srv[p]},
                   capture |-> IF srv.video THEN Capture(srv) ELSE None,
                   supportsInput |-> srv.video_source # "camera"
                                     /\ (srv.display_id = 0 \/ sdk >= 29)]
    /\ UNCHANGED <<theme, opts, forward, line, srv, client, toServer>>

(***************************************************************************)
(* Client: scrcpy.c, once the server is connected                          *)
(***************************************************************************)
VideoSinks(o) ==
    (IF o.video_playback THEN {"screen"} ELSE {}) \cup
    (IF o.record_filename # None /\ o.video THEN {"recorder"} ELSE {}) \cup
    (IF V4l2(o) THEN {"v4l2"} ELSE {})

AudioSinks(o) ==
    (IF o.audio_playback THEN {"player"} ELSE {}) \cup
    (IF o.record_filename # None /\ o.audio THEN {"recorder"} ELSE {})

\* The processors of input events; there is none for another mode.
Processor(mode, modes) == IF mode \in modes THEN mode ELSE None

\* A UHID keyboard and mouse are created at once, gamepads when they appear.
FirstMessages(o) ==
    (IF o.control /\ o.keyboard_input_mode = "uhid" THEN <<"uhid_create">> ELSE <<>>) \o
    (IF o.control /\ o.mouse_input_mode = "uhid" THEN <<"uhid_create">> ELSE <<>>) \o
    (IF o.control /\ o.turn_screen_off THEN <<"set_display_power">> ELSE <<>>) \o
    (IF o.control /\ o.start_app # None THEN <<"start_app">> ELSE <<>>)

SetUpClient ==
    /\ phase = "serving"
    /\ phase' = "running"
    /\ client' =
        [demuxers |-> {s \in {"audio", "video"} : opts[s]},
         videoSinks |-> VideoSinks(opts), audioSinks |-> AudioSinks(opts),
         window |-> opts.window,
         keyboard |-> IF opts.control
                      THEN Processor(opts.keyboard_input_mode, {"sdk", "uhid", "aoa"}) ELSE None,
         mouse |-> IF opts.control
                   THEN Processor(opts.mouse_input_mode, {"sdk", "uhid", "aoa"}) ELSE None,
         gamepad |-> IF opts.control
                     THEN Processor(opts.gamepad_input_mode, {"uhid", "aoa"}) ELSE None,
         resizes |-> opts.window /\ opts.flex_display]
    /\ toServer' = FirstMessages(opts)
    /\ UNCHANGED <<theme, opts, forward, line, srv, device>>

\* Controller.handleEvent: a camera knows the messages of cameras only.
HandlesDisplayMessages == srv.video_source # "camera"

HandleFirstMessage ==
    /\ phase = "running" /\ toServer # <<>>
    /\ toServer' = Tail(toServer)
    /\ phase' = IF HandlesDisplayMessages THEN phase ELSE "unexpected_message"
    /\ UNCHANGED <<theme, opts, forward, line, srv, device, client>>

OptionsNext ==
    \/ \E arg \in Themes[theme] : TakeArgument(arg)
    \/ \E arg \in Themes[theme] : RefuseArgument(arg)
    \/ EndOfArguments
    \/ StartOtg
    \/ ExecuteServer
    \/ ParseOptions
    \/ StartServer
    \/ SetUpClient
    \/ HandleFirstMessage

OptionsSpec == OptionsInit /\ [][OptionsNext]_optionsVars

(***************************************************************************)
(* Properties                                                              *)
(***************************************************************************)
Parsed == phase \in {"listed", "parsed", "unsupported", "serving", "running", "unexpected_message"}

\* What the options of the client mean to the server: an option that was not
\* given has the value that the help of the client documents (cli.c:149-1066).
Meant(key) ==
    CASE key = "video_bit_rate" -> IF opts[key] = 0 THEN 8000000 ELSE opts[key]
      [] key = "audio_bit_rate" -> IF opts[key] = 0 THEN 128000 ELSE opts[key]
      [] key = "screen_off_timeout" -> IF opts[key] = -1 THEN -1 ELSE opts[key] * 1000
      [] key = "display_id" -> IF opts.new_display # None THEN DisplayIdNone ELSE opts[key]
      [] key = "tunnel_forward" -> forward
      [] key = "capture_orientation" ->
            [lock |-> opts.capture_orientation_lock # "unlocked",
             orientation |-> IF opts.capture_orientation_lock = "initial" THEN "initial"
                             ELSE opts.capture_orientation]
      [] key \in FreeStrings \ {"new_display"} -> IF opts[key] = Empty THEN None ELSE opts[key]
      [] OTHER -> opts[key]

\* The server works with the options of the client, the ones that were not
\* written included: both sides hold a copy of the defaults, and the client
\* writes only what differs from its own (server.c:266-462, Options.java:23-77).
\* The audio source means nothing without audio.
ServerGetsOptions ==
    Parsed => \A key \in DOMAIN srv :
        srv[key] = Meant(key) \/ (key = "audio_source" /\ ~opts.audio)

\* What cli.c accepts, Options.parse accepts too, assertion included, unless
\* a free text is one that only the server reads.
ServerUnderstands ==
    phase = "server_threw" =>
        \/ \E f \in Validated : opts[f] = "malformed"
        \/ \E f \in Floats : opts[f] = Empty

\* Every stream the device captures is read by a demuxer and used by a sink
\* at least, and no sink waits for a stream that is not there: the options
\* that switch streams off (--no-video, --no-playback, --no-window...) and
\* those that need one (--record, --v4l2-sink) agree whatever their order.
EveryStreamHasASink ==
    phase = "running" =>
        /\ client.demuxers = device.processors \cap {"audio", "video"}
        /\ client.videoSinks # {} <=> "video" \in device.processors
        /\ client.audioSinks # {} <=> "audio" \in device.processors
        /\ "screen" \in client.videoSinks => client.window
        /\ "player" \in client.audioSinks => opts.audio_buffer >= 0
        /\ client.demuxers # {} \/ "control" \in device.processors

\* A mode that was left to the program has been chosen when it is used: the
\* input goes through a processor that the session can serve (a UHID or SDK
\* processor needs a controller that mirrors a display, SDK positions need a
\* picture, SDK bindings go with the SDK mouse), and the window resizes a
\* display only if the device has created one.
InputModesUsable ==
    phase \in {"running", "otg"} =>
        LET modes == {client.keyboard, client.mouse, client.gamepad} \ {None}
        IN  /\ opts.control =>
                  {opts.keyboard_input_mode, opts.mouse_input_mode, opts.gamepad_input_mode}
                      \subseteq modes \cup {"disabled"}
            /\ modes \cap {"sdk", "uhid"} # {} =>
                  "control" \in device.processors /\ HandlesDisplayMessages
            /\ client.mouse = "sdk" => "screen" \in client.videoSinks
            /\ client.resizes => device.capture = "new_display" /\ "control" \in device.processors
            /\ opts.mouse_bindings # AutoBindings /\ opts.render_fit # Automatic

\* "Unexpected message type" (Controller.java:440): the client sends a message
\* that the controller of the device does not handle.
StartupMessagesHandled == phase # "unexpected_message"

============================================================================
