----------------------------- MODULE Libretro -----------------------------
(***************************************************************************)
(* The interface of libretro.h between a core (an emulator in a shared     *)
(* library) and the frontend that plays it, reduced to what its rules of   *)
(* order need: the functions of a core and the stages of its life in which *)
(* each may be called, and the commands of the environment callback with   *)
(* the functions of the core each may be called from.                      *)
(*                                                                         *)
(* A command that binds is one after whose TRUE the frontend has taken     *)
(* something from the core that is good for as long as the core is: a      *)
(* callback, an interface, a mode or a description.  The others ask for    *)
(* something, or tell what has no effect that lasts.                       *)
(***************************************************************************)
EXTENDS Naturals

-----------------------------------------------------------------------------
(* The life of a core.  It is opened with its library; retro_set_environment*)
(* comes before retro_init; there is a game between retro_load_game and    *)
(* retro_unload_game.                                                      *)
Life == {"opened", "environment", "inited", "game", "deinited"}

Loaded == {"inited", "game"}
BeforeRun == {"opened", "environment", "inited", "game"}

(* A function: the stages in which it may be called, and the stage after it*)
(* ("same", or for the functions that load a game, the stage if they did). *)
Function(names, needs, to) == [name : names, needs : {needs}, to : {to}]

Callbacks == {"retro_set_video_refresh", "retro_set_audio_sample",
              "retro_set_audio_sample_batch", "retro_set_input_poll",
              "retro_set_input_state"}

(* "Guaranteed to be called before retro_init()", and for the others before*)
(* "the first call to retro_run()".                                        *)
SettingFunctions ==
  Function({"retro_set_environment"}, {"opened"}, "environment")
    \cup Function(Callbacks, BeforeRun, "same")

(* retro_get_system_info "can be called at any time", and what needs a game*)
(* "only after retro_load_game() has successfully completed".              *)
SystemFunctions ==
  Function({"retro_init"}, {"environment"}, "inited")
    \cup Function({"retro_deinit"}, {"inited"}, "deinited")
    \cup Function({"retro_api_version", "retro_get_system_info"}, Life, "same")
    \cup Function({"retro_get_system_av_info"}, {"game"}, "same")

GameFunctions ==
  Function({"retro_set_controller_port_device"}, Loaded, "same")
    \cup Function({"retro_reset", "retro_run", "retro_serialize_size", "retro_serialize",
                   "retro_unserialize", "retro_cheat_reset", "retro_cheat_set"},
                  {"game"}, "same")
    \cup Function({"retro_load_game"}, {"inited"}, "game")

ContentFunctions ==
  Function({"retro_load_game_special"}, {"inited"}, "game")
    \cup Function({"retro_unload_game"}, {"game"}, "inited")
    \cup Function({"retro_get_region", "retro_get_memory_data", "retro_get_memory_size"},
                  {"game"}, "same")

Functions == SettingFunctions \cup SystemFunctions \cup GameFunctions \cup ContentFunctions
FunctionName == {f.name : f \in Functions}
FunctionOf == [n \in FunctionName |-> CHOOSE f \in Functions : f.name = n]

-----------------------------------------------------------------------------
(* The commands                                                            *)

Asks(when, names) == [name : names, when : {when}, binds : {FALSE}]
Binds(when, names) == [name : names, when : {when}, binds : {TRUE}]

Setup == {"retro_set_environment"}
Loading == {"retro_load_game", "retro_load_game_special"}
InitOrLoading == {"retro_init"} \cup Loading
Running == {"retro_run"}
Anywhere == FunctionName

ScreenCommands ==      \* 1 to 10
  Binds(Anywhere, {"SET_ROTATION"})
    \cup Asks(Anywhere, {"GET_OVERSCAN", "GET_CAN_DUPE", "SET_MESSAGE", "SHUTDOWN",
                         "GET_SYSTEM_DIRECTORY"})
    \cup Asks(Loading, {"SET_PERFORMANCE_LEVEL"})
    \cup Binds(Loading \cup {"retro_get_system_av_info"}, {"SET_PIXEL_FORMAT"})

CallbackCommands ==    \* 11 to 15
  Asks(Anywhere, {"SET_INPUT_DESCRIPTORS", "GET_VARIABLE"})
    \cup Binds(Anywhere, {"SET_KEYBOARD_CALLBACK", "SET_DISK_CONTROL_INTERFACE"})
    \cup Binds(Loading, {"SET_HW_RENDER"})

VariableCommands ==    \* 16 to 19
  Binds(Anywhere, {"SET_VARIABLES"})
    \cup Binds(Setup, {"SET_SUPPORT_NO_GAME"})
    \cup Asks(Anywhere, {"GET_VARIABLE_UPDATE", "GET_LIBRETRO_PATH"})

TimingCommands ==      \* 21 to 25
  Binds(Anywhere, {"SET_FRAME_TIME_CALLBACK", "SET_AUDIO_CALLBACK"})
    \cup Asks(InitOrLoading, {"GET_RUMBLE_INTERFACE"})
    \cup Asks(Running, {"GET_INPUT_DEVICE_CAPABILITIES"})
    \cup Asks(Anywhere, {"GET_SENSOR_INTERFACE"})

InterfaceCommands ==   \* 26 to 31
  Asks(Loading, {"GET_CAMERA_INTERFACE"})
    \cup Asks(Anywhere, {"GET_LOG_INTERFACE", "GET_PERF_INTERFACE", "GET_LOCATION_INTERFACE",
                         "GET_CORE_ASSETS_DIRECTORY", "GET_SAVE_DIRECTORY"})

SystemCommands ==      \* 32 and 33
  Binds(Running, {"SET_SYSTEM_AV_INFO"})
    \cup Binds(Setup, {"SET_PROC_ADDRESS_CALLBACK"})

DescriptionCommands == \* 34 and 35
  Binds(Setup, {"SET_SUBSYSTEM_INFO"})
    \cup Binds(Loading, {"SET_CONTROLLER_INFO"})

FrameCommands ==       \* 36 to 40
  Binds(Anywhere, {"SET_MEMORY_MAPS"})
    \cup Binds(Running, {"SET_GEOMETRY"})
    \cup Asks(Anywhere, {"GET_USERNAME", "GET_LANGUAGE"})
    \cup Asks(Running, {"GET_CURRENT_SOFTWARE_FRAMEBUFFER"})

HardwareCommands ==    \* 41 to 45
  Asks(Running, {"GET_HW_RENDER_INTERFACE"})
    \cup Asks(Setup \cup InitOrLoading, {"SET_SUPPORT_ACHIEVEMENTS"})
    \cup Binds(Loading, {"SET_HW_RENDER_CONTEXT_NEGOTIATION_INTERFACE"})
    \cup Binds(InitOrLoading, {"SET_SERIALIZATION_QUIRKS"})
    \cup Binds(Anywhere, {"SET_HW_SHARED_CONTEXT"})
    \cup Asks(Anywhere, {"GET_VFS_INTERFACE"})

StatusCommands ==      \* 46 to 51
  Asks(Anywhere, {"GET_LED_INTERFACE", "GET_AUDIO_VIDEO_ENABLE", "GET_MIDI_INTERFACE",
                  "GET_FASTFORWARDING", "GET_TARGET_REFRESH_RATE", "GET_INPUT_BITMASKS"})

OptionCommands ==      \* 52 to 54
  Asks(Anywhere, {"GET_CORE_OPTIONS_VERSION"})
    \cup Binds(Anywhere, {"SET_CORE_OPTIONS", "SET_CORE_OPTIONS_INTL"})

PreferenceCommands ==  \* 55 to 60
  Asks(Anywhere, {"SET_CORE_OPTIONS_DISPLAY", "GET_PREFERRED_HW_RENDER",
                  "GET_DISK_CONTROL_INTERFACE_VERSION", "GET_MESSAGE_INTERFACE_VERSION",
                  "SET_MESSAGE_EXT"})
    \cup Binds({"retro_init"}, {"SET_DISK_CONTROL_EXT_INTERFACE"})

PacingCommands ==      \* 61 to 65
  Asks(Anywhere, {"GET_INPUT_MAX_USERS"})
    \cup Binds(Anywhere, {"SET_AUDIO_BUFFER_STATUS_CALLBACK", "SET_FASTFORWARDING_OVERRIDE"})
    \cup Binds(Running, {"SET_MINIMUM_AUDIO_LATENCY"})
    \cup Binds(Setup, {"SET_CONTENT_INFO_OVERRIDE"})

ContentCommands ==     \* 66 to 68
  Asks(Loading, {"GET_GAME_INFO_EXT"})
    \cup Binds(Anywhere, {"SET_CORE_OPTIONS_V2", "SET_CORE_OPTIONS_V2_INTL"})

StateCommands ==       \* 69 to 73
  Binds(Setup, {"SET_CORE_OPTIONS_UPDATE_DISPLAY_CALLBACK"})
    \cup Asks(Anywhere, {"SET_VARIABLE", "GET_THROTTLE_STATE", "GET_SAVESTATE_CONTEXT",
                         "GET_HW_RENDER_CONTEXT_NEGOTIATION_INTERFACE_SUPPORT"})

DeviceCommands ==      \* 74 to 81
  Asks(Anywhere, {"GET_JIT_CAPABLE", "GET_MICROPHONE_INTERFACE", "GET_DEVICE_POWER",
                  "GET_PLAYLIST_DIRECTORY", "GET_FILE_BROWSER_START_DIRECTORY",
                  "GET_TARGET_SAMPLE_RATE"})
    \cup Binds(InitOrLoading, {"SET_NETPACKET_INTERFACE"})

Commands ==
  UNION {ScreenCommands, CallbackCommands, VariableCommands, TimingCommands,
         InterfaceCommands, SystemCommands, DescriptionCommands, FrameCommands,
         HardwareCommands, StatusCommands, OptionCommands, PreferenceCommands,
         PacingCommands, ContentCommands, StateCommands, DeviceCommands}

CommandName == {c.name : c \in Commands}
Binding == {c.name : c \in {d \in Commands : d.binds}}

(* The commands a function of the core may call the environment with.      *)
CommandsIn == [n \in FunctionName |-> {c.name : c \in {d \in Commands : n \in d.when}}]

-----------------------------------------------------------------------------
(* What the core shares with the frontend's drivers                        *)

(* The drawing interfaces a core may ask for in SET_HW_RENDER.             *)
retro_hw_context_type ==
  {"NONE", "OPENGL", "OPENGLES2", "OPENGL_CORE", "OPENGLES3", "OPENGLES_VERSION",
   "VULKAN", "D3D11", "D3D10", "D3D12", "D3D9"}

(* The formats of a frame; the first is used until a core sets another.    *)
retro_pixel_format == {"0RGB1555", "XRGB8888", "RGB565"}

retro_device == {"NONE", "JOYPAD", "MOUSE", "KEYBOARD", "LIGHTGUN", "ANALOG", "POINTER"}

(* The ids of the RetroPad's buttons: B, Y, SELECT, START, the four        *)
(* directions, A, X, L, R, L2, R2, L3, R3.                                 *)
JOYPAD_ID == 0..15
JOYPAD_L2 == 12
JOYPAD_R2 == 13

(* The keys of a keyboard.                                                 *)
retro_key ==
  {8, 9, 12, 13, 19, 27} \cup (32..36) \cup (38..64) \cup (91..127)
    \cup (256..296) \cup (300..341)
=============================================================================
