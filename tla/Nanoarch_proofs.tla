--------------------------- MODULE Nanoarch_proofs ---------------------------
(***************************************************************************)
(* What is proved of the frontend's side of libretro, for any number of    *)
(* loads and any interfaces and formats the cores ask for: the types, that *)
(* a core draws in its own context, and that each load implements the life *)
(* of a core that LibretroCore promises.  The last two hold until the loads*)
(* of two games overlap, however many cores before were never closed.      *)
(***************************************************************************)
EXTENDS Nanoarch, TLAPS

Place == Rest \cup OwnStep \cup FunctionName

(* The load that is at work, unless two overlap.                           *)
now == at[core]
running == playing[core]

(* The places, by what has happened to the core.                           *)
Setting == {"retro_set_environment", "retro_init"} \cup Callbacks
NoGameYet == Setting \cup {"retro_api_version", "retro_get_system_info", "core", "noGame",
                           "retro_load_game"}
PlayingAt == {"playing", "retro_serialize", "retro_get_memory_size"} \cup Played
Ended == {"retro_unload_game", "retro_deinit", "deinitVideo"}

(* The game is loaded, and the context not yet made.                       *)
PreVideo ==
  \/ now \in {"retro_get_system_av_info", "initVideo"}
  \/ now = "retro_serialize_size" /\ ~running

(* The context of a core that draws with OpenGL has been made.             *)
PostVideo ==
  \/ now \in {"context_reset", "retro_set_controller_port_device", "game", "noMedia", "started"}
  \/ now \in PlayingAt /\ running
  \/ now \in Ended

(* The loads before are left, those to come not begun.                     *)
Parked ==
  /\ \A j \in Loads0 : j < core => at[j] \in Left /\ inside[j] = 0
  /\ \A j \in Loads0 : j > core => at[j] = "closed" /\ inside[j] = 0 /\ image[j] = 0 /\ ~playing[j]
  /\ inside[core] \in {0, core}

(* Where the goroutine of the latest load can be.                          *)
Whereabouts ==
  /\ now \in NoGameYet \/ PreVideo \/ PostVideo \/ now \in {"closed", "closeLib"}
  /\ running => now \in PlayingAt
  /\ now # "closed" => core \in open /\ core # 0
  /\ Rot <= core /\ hw.of <= core /\ PixFmt.of <= core /\ ctx.of <= core

(* From initVideo to deinitVideo the context is the one made from the      *)
(* record in hw; before, none was made from the record of this core.       *)
Context ==
  /\ now \in {"initVideo", "context_reset", "deinitVideo"} => gl
  /\ now \in NoGameYet \/ PreVideo => ctx.of # core
  /\ PostVideo /\ gl => /\ ctx.of = hw.of
                        /\ ctx.state = IF now = "context_reset" THEN "created" ELSE "live"
  /\ PostVideo /\ ~gl => ctx.of # core
  /\ now = "closeLib" => ~gl /\ (ctx.of = core => ctx.state = "destroyed")
  /\ hw.of = core /\ now \notin {"closed", "closeLib"} => gl

IInv == TypeOK /\ (~overlapped => Parked /\ Whereabouts /\ Context)

-----------------------------------------------------------------------------
(* The tables of libretro.h                                                *)

InGame == {"retro_reset", "retro_run", "retro_serialize_size", "retro_serialize",
           "retro_unserialize", "retro_cheat_reset", "retro_cheat_set", "retro_get_region",
           "retro_get_memory_data", "retro_get_memory_size", "retro_get_system_av_info"}

(* A row has the name, the needs and the next stage it was made with.      *)
LEMMA RowFields ==
  ASSUME NEW names, NEW needs, NEW to, NEW f \in Function(names, needs, to)
  PROVE  f.name \in names /\ f.needs = needs /\ f.to = to
BY DEF Function

LEMMA RowMade ==
  ASSUME NEW names, NEW needs, NEW to, NEW n \in names
  PROVE  \E f \in Function(names, needs, to) : f.name = n
<1>1. [name |-> n, needs |-> needs, to |-> to] \in Function(names, needs, to)
  BY DEF Function
<1> QED
  BY <1>1

(* What the table of the functions says of a row, by its name.             *)
Row(f) ==
  /\ f.name = "retro_set_environment" => f.needs = {"opened"} /\ f.to = "environment"
  /\ f.name \in Callbacks => f.needs = BeforeRun /\ f.to = "same"
  /\ f.name = "retro_init" => f.needs = {"environment"} /\ f.to = "inited"
  /\ f.name = "retro_deinit" => f.needs = {"inited"} /\ f.to = "deinited"
  /\ f.name \in {"retro_api_version", "retro_get_system_info"} => f.needs = Life /\ f.to = "same"
  /\ f.name = "retro_load_game" => f.needs = {"inited"} /\ f.to = "game"
  /\ f.name = "retro_unload_game" => f.needs = {"game"} /\ f.to = "inited"
  /\ f.name = "retro_set_controller_port_device" => f.needs = Loaded /\ f.to = "same"
  /\ f.name \in InGame => f.needs = {"game"} /\ f.to = "same"

LEMMA Rows == \A f \in Functions : Row(f)
<1> SUFFICES ASSUME NEW f \in Functions PROVE Row(f)
  OBVIOUS
<1>1. CASE f \in SettingFunctions
  <2>1. CASE f \in Function({"retro_set_environment"}, {"opened"}, "environment")
    BY <2>1, RowFields DEF Row, Callbacks, InGame
  <2>2. CASE f \in Function(Callbacks, BeforeRun, "same")
    BY <2>2, RowFields DEF Row, Callbacks, InGame
  <2> QED
    BY <1>1, <2>1, <2>2 DEF SettingFunctions
<1>2. CASE f \in SystemFunctions
  <2>1. CASE f \in Function({"retro_init"}, {"environment"}, "inited")
    BY <2>1, RowFields DEF Row, Callbacks, InGame
  <2>2. CASE f \in Function({"retro_deinit"}, {"inited"}, "deinited")
    BY <2>2, RowFields DEF Row, Callbacks, InGame
  <2>3. CASE f \in Function({"retro_api_version", "retro_get_system_info"}, Life, "same")
    BY <2>3, RowFields DEF Row, Callbacks, InGame
  <2>4. CASE f \in Function({"retro_get_system_av_info"}, {"game"}, "same")
    BY <2>4, RowFields DEF Row, Callbacks, InGame
  <2> QED
    BY <1>2, <2>1, <2>2, <2>3, <2>4 DEF SystemFunctions
<1>3. CASE f \in GameFunctions
  <2>1. CASE f \in Function({"retro_set_controller_port_device"}, Loaded, "same")
    BY <2>1, RowFields DEF Row, Callbacks, InGame
  <2>2. CASE f \in Function({"retro_reset", "retro_run", "retro_serialize_size",
                             "retro_serialize", "retro_unserialize", "retro_cheat_reset",
                             "retro_cheat_set"}, {"game"}, "same")
    BY <2>2, RowFields DEF Row, Callbacks, InGame
  <2>3. CASE f \in Function({"retro_load_game"}, {"inited"}, "game")
    BY <2>3, RowFields DEF Row, Callbacks, InGame
  <2> QED
    BY <1>3, <2>1, <2>2, <2>3 DEF GameFunctions
<1>4. CASE f \in ContentFunctions
  <2>1. CASE f \in Function({"retro_load_game_special"}, {"inited"}, "game")
    BY <2>1, RowFields DEF Row, Callbacks, InGame
  <2>2. CASE f \in Function({"retro_unload_game"}, {"game"}, "inited")
    BY <2>2, RowFields DEF Row, Callbacks, InGame
  <2>3. CASE f \in Function({"retro_get_region", "retro_get_memory_data",
                             "retro_get_memory_size"}, {"game"}, "same")
    BY <2>3, RowFields DEF Row, Callbacks, InGame
  <2> QED
    BY <1>4, <2>1, <2>2, <2>3 DEF ContentFunctions
<1> QED
  BY <1>1, <1>2, <1>3, <1>4 DEF Functions

(* The functions the frontend calls are in the table.                      *)
LEMMA Names ==
  Callbacks \cup Played \cup
    {"retro_set_environment", "retro_init", "retro_api_version", "retro_get_system_info",
     "retro_load_game", "retro_get_system_av_info", "retro_set_controller_port_device",
     "retro_serialize", "retro_get_memory_size", "retro_unload_game", "retro_deinit"}
    \subseteq FunctionName
<1>1. \A n \in {"retro_set_environment"} \cup Callbacks :
        \E f \in SettingFunctions : f.name = n
  BY RowMade DEF SettingFunctions
<1>2. \A n \in {"retro_init", "retro_deinit", "retro_api_version", "retro_get_system_info",
                "retro_get_system_av_info"} : \E f \in SystemFunctions : f.name = n
  BY RowMade DEF SystemFunctions
<1>3. \A n \in {"retro_set_controller_port_device", "retro_reset", "retro_run",
                "retro_serialize_size", "retro_serialize", "retro_unserialize",
                "retro_load_game"} : \E f \in GameFunctions : f.name = n
  BY RowMade DEF GameFunctions
<1>4. \A n \in {"retro_unload_game", "retro_get_memory_data", "retro_get_memory_size"} :
        \E f \in ContentFunctions : f.name = n
  BY RowMade DEF ContentFunctions
<1> QED
  <2>1. \A n : (\E f \in Functions : f.name = n) => n \in FunctionName
    BY DEF FunctionName
  <2>2. /\ SettingFunctions \subseteq Functions /\ SystemFunctions \subseteq Functions
        /\ GameFunctions \subseteq Functions /\ ContentFunctions \subseteq Functions
    BY DEF Functions
  <2>3. {"retro_set_environment"} \cup Callbacks \subseteq FunctionName
    BY <1>1, <2>1, <2>2
  <2>4. {"retro_init", "retro_deinit", "retro_api_version", "retro_get_system_info",
         "retro_get_system_av_info"} \subseteq FunctionName
    BY <1>2, <2>1, <2>2
  <2>5. {"retro_set_controller_port_device", "retro_reset", "retro_run",
         "retro_serialize_size", "retro_serialize", "retro_unserialize",
         "retro_load_game"} \subseteq FunctionName
    BY <1>3, <2>1, <2>2
  <2>6. {"retro_unload_game", "retro_get_memory_data", "retro_get_memory_size"}
          \subseteq FunctionName
    BY <1>4, <2>1, <2>2
  <2> QED
    BY <2>3, <2>4, <2>5, <2>6 DEF Played

(* No place of the frontend's own is the name of a function.               *)
LEMMA OwnPlaces == FunctionName \cap (Rest \cup OwnStep) = {}
<1> SUFFICES ASSUME NEW f \in Functions PROVE f.name \notin Rest \cup OwnStep
  BY DEF FunctionName
<1> QED
  BY RowFields DEF Functions, SettingFunctions, SystemFunctions, GameFunctions,
                   ContentFunctions, Callbacks, Rest, OwnStep

LEMMA FunctionRow ==
  ASSUME NEW n \in FunctionName
  PROVE  FunctionOf[n].name = n /\ Row(FunctionOf[n])
<1>1. \E f \in Functions : f.name = n
  BY DEF FunctionName
<1>2. FunctionOf[n] \in Functions /\ FunctionOf[n].name = n
  BY <1>1 DEF FunctionOf
<1> QED
  BY <1>2, Rows

(* Likewise the table of the commands.                                     *)
LEMMA CommandFields ==
  ASSUME NEW when, NEW names, NEW c
  PROVE  /\ c \in Asks(when, names) => c.name \in names /\ c.when = when
         /\ c \in Binds(when, names) => c.name \in names /\ c.when = when
BY DEF Asks, Binds

LEMMA CommandMade ==
  ASSUME NEW when, NEW names, NEW n \in names
  PROVE  \E c \in Binds(when, names) : c.name = n /\ c.binds
<1>1. [name |-> n, when |-> when, binds |-> TRUE] \in Binds(when, names)
  BY DEF Binds
<1> QED
  BY <1>1, Zenon

(* A core asks for a context while it loads its game, and never after.     *)
LEMMA HwRenderOnlyLoading ==
  ASSUME NEW n \in FunctionName, "SET_HW_RENDER" \in CommandsIn[n]
  PROVE  n \in Loading
<1>1. PICK c \in Commands : n \in c.when /\ c.name = "SET_HW_RENDER"
  BY DEF CommandsIn
<1>2. c \in CallbackCommands => c.when = Loading
  BY <1>1, CommandFields DEF CallbackCommands
<1>3. c \notin ScreenCommands /\ c \notin VariableCommands /\ c \notin TimingCommands
  BY <1>1, CommandFields DEF ScreenCommands, VariableCommands, TimingCommands
<1>4. c \notin InterfaceCommands /\ c \notin SystemCommands /\ c \notin DescriptionCommands
  BY <1>1, CommandFields DEF InterfaceCommands, SystemCommands, DescriptionCommands
<1>5. c \notin FrameCommands /\ c \notin HardwareCommands /\ c \notin StatusCommands
  BY <1>1, CommandFields DEF FrameCommands, HardwareCommands, StatusCommands
<1>6. c \notin OptionCommands /\ c \notin PreferenceCommands /\ c \notin PacingCommands
  BY <1>1, CommandFields DEF OptionCommands, PreferenceCommands, PacingCommands
<1>7. c \notin ContentCommands /\ c \notin StateCommands /\ c \notin DeviceCommands
  BY <1>1, CommandFields DEF ContentCommands, StateCommands, DeviceCommands
<1> QED
  BY <1>1, <1>2, <1>3, <1>4, <1>5, <1>6, <1>7 DEF Commands

(* The commands whose effect the frontend keeps are binding ones.          *)
LEMMA Bound ==
  {"SET_KEYBOARD_CALLBACK", "SET_HW_RENDER", "SET_PIXEL_FORMAT", "SET_ROTATION"} \subseteq Binding
<1> DEFINE Has(n) == \E c \in Commands : c.name = n /\ c.binds
<1>1. \A n : Has(n) => n \in Binding
  BY DEF Binding
<1>2. Has("SET_ROTATION") /\ Has("SET_PIXEL_FORMAT")
  BY CommandMade DEF Commands, ScreenCommands
<1>3. Has("SET_KEYBOARD_CALLBACK") /\ Has("SET_HW_RENDER")
  BY CommandMade DEF Commands, CallbackCommands
<1> HIDE DEF Has
<1> QED
  BY <1>1, <1>2, <1>3

-----------------------------------------------------------------------------
(* The types                                                               *)

LEMMA FollowTable ==
  /\ DOMAIN Follow =
       Callbacks \cup {"retro_set_environment", "retro_init", "retro_api_version",
         "retro_get_system_info", "retro_get_system_av_info",
         "retro_set_controller_port_device", "retro_get_memory_data", "retro_unload_game"}
  /\ Follow["retro_set_environment"] = "retro_set_input_state"
  /\ \A n \in Callbacks : Follow[n] \in Callbacks \cup {"retro_init"}
  /\ Follow["retro_init"] = "retro_api_version"
  /\ Follow["retro_api_version"] = "retro_get_system_info"
  /\ Follow["retro_get_system_info"] = "core"
  /\ Follow["retro_get_system_av_info"] = "retro_serialize_size"
  /\ Follow["retro_set_controller_port_device"] = "game"
  /\ Follow["retro_get_memory_data"] = "retro_get_memory_size"
  /\ Follow["retro_unload_game"] = "retro_deinit"
BY DEF Follow, Callbacks

(* Where a function of the core leads when it returns.                     *)
LEMMA AfterTable ==
  ASSUME NEW k, NEW ok \in BOOLEAN
  PROVE  /\ at[k] = "retro_set_environment" => After(k, ok) = "retro_set_input_state"
         /\ at[k] \in Callbacks =>
              After(k, ok) = Follow[at[k]] /\ After(k, ok) \in Callbacks \cup {"retro_init"}
         /\ at[k] = "retro_init" => After(k, ok) = "retro_api_version"
         /\ at[k] = "retro_api_version" => After(k, ok) = "retro_get_system_info"
         /\ at[k] = "retro_get_system_info" => After(k, ok) = "core"
         /\ at[k] = "retro_load_game" =>
              After(k, ok) = IF ok THEN "retro_get_system_av_info" ELSE "noGame"
         /\ at[k] = "retro_get_system_av_info" => After(k, ok) = "retro_serialize_size"
         /\ at[k] = "retro_serialize_size" => After(k, ok) = AfterSerializeSize(k)
         /\ at[k] = "retro_set_controller_port_device" => After(k, ok) = "game"
         /\ at[k] = "retro_get_memory_data" => After(k, ok) = "retro_get_memory_size"
         /\ at[k] = "retro_unload_game" => After(k, ok) = "retro_deinit"
         /\ at[k] = "retro_deinit" => After(k, ok) = IF gl THEN "deinitVideo" ELSE "closeLib"
         /\ at[k] \notin DOMAIN Follow \cup {"retro_load_game", "retro_serialize_size",
                                             "retro_deinit"} => After(k, ok) = "playing"
<1>1. CASE at[k] \in DOMAIN Follow
  <2>1. After(k, ok) = Follow[at[k]]
    BY <1>1, FollowTable DEF After, Callbacks
  <2> QED
    BY <1>1, <2>1, FollowTable DEF Callbacks
<1>2. CASE at[k] \notin DOMAIN Follow
  BY <1>2, FollowTable DEF After, AfterLoadGame, Callbacks
<1> QED
  BY <1>1, <1>2

LEMMA AfterIsAPlace ==
  ASSUME NEW k, NEW ok \in BOOLEAN
  PROVE  After(k, ok) \in Place
<1>1. CASE at[k] \in DOMAIN Follow
  <2>1. After(k, ok) \in Callbacks \cup
          {"retro_set_input_state", "retro_init", "retro_api_version", "retro_get_system_info",
           "core", "retro_serialize_size", "game", "retro_get_memory_size", "retro_deinit"}
    BY <1>1, AfterTable, FollowTable
  <2> QED
    BY <2>1, Names DEF Place, Rest, Played, Callbacks
<1>2. CASE at[k] \in {"retro_load_game", "retro_serialize_size", "retro_deinit"}
  BY <1>2, AfterTable, Names DEF Place, Rest, OwnStep, AfterSerializeSize
<1>3. CASE at[k] \notin DOMAIN Follow \cup {"retro_load_game", "retro_serialize_size",
                                            "retro_deinit"}
  BY <1>3, AfterTable DEF Place, Rest
<1> QED
  BY <1>1, <1>2, <1>3

(* What a step of a goroutine does to its place.                           *)
LEMMA TypesOfPlaces ==
  ASSUME TypeOK, NEW k \in Loads, Step(k)
  PROVE  /\ at' \in [Loads0 -> Place]
         /\ inside' \in [Loads0 -> Loads0] /\ playing' \in [Loads0 -> BOOLEAN]
         /\ \A j \in Loads0 : inside'[j] # 0 => at'[j] \in FunctionName
<1>0. k \in Loads0 /\ at \in [Loads0 -> Place] /\ (inside[k] # 0 => at[k] \notin Rest \cup OwnStep)
  BY OwnPlaces DEF TypeOK, Loads, Loads0, Place
<1>1. ASSUME NEW p \in Place, Go(k, p), at[k] \in Rest \cup OwnStep, UNCHANGED inside
      PROVE  /\ at' \in [Loads0 -> Place] /\ inside' \in [Loads0 -> Loads0]
             /\ \A j \in Loads0 : inside'[j] # 0 => at'[j] \in FunctionName
  BY <1>0, <1>1 DEF Go, TypeOK
<1>2. ASSUME UNCHANGED <<at, inside>>
      PROVE  /\ at' \in [Loads0 -> Place] /\ inside' \in [Loads0 -> Loads0]
             /\ \A j \in Loads0 : inside'[j] # 0 => at'[j] \in FunctionName
  BY <1>0, <1>2 DEF TypeOK
<1>3. playing' \in [Loads0 -> BOOLEAN]
  <2>1. playing' = playing \/ \E b \in BOOLEAN : playing' = [playing EXCEPT ![k] = b]
    BY Zenon DEF Step, LoadGame, StartApp, Return, Play, Begin, Close, Shutdown, Call, Environment,
                 initVideo, context_reset, deinitVideo, closeLib, playVars
  <2> QED
    BY <2>1, Zenon DEF TypeOK
<1>4. CASE \E ok \in BOOLEAN : Return(k, ok)
  <2>1. PICK ok \in BOOLEAN : Return(k, ok)
    BY <1>4
  <2>2. After(k, ok) \in Place
    BY AfterIsAPlace
  <2>3. 0 \in Loads0
    BY LoadsAssumption DEF Loads0
  <2> QED
    BY <1>0, <1>3, <2>1, <2>2, <2>3 DEF Return, Go, TypeOK
<1>5. CASE Call(k)
  BY <1>0, <1>3, <1>5 DEF Call, TypeOK
<1>6. CASE \/ \E ok \in BOOLEAN : LoadGame(k, ok) \/ StartApp(k, ok)
           \/ \E f \in Played : Play(k, f)
           \/ Begin(k) \/ Shutdown(k)
  <2>1. /\ at[k] \in Rest /\ UNCHANGED inside
        /\ \E p \in Place : Go(k, p)
    BY <1>6, Names DEF LoadGame, StartApp, Play, Begin, Shutdown, Ends, Rest, Place, playVars
  <2> QED
    BY <1>1, <1>3, <2>1
<1>7. CASE Close(k) \/ \E cmd \in CommandName : Environment(k, cmd)
  BY <1>2, <1>3, <1>7 DEF Close, Environment
<1>8. CASE initVideo(k) \/ context_reset(k) \/ deinitVideo(k) \/ closeLib(k)
  <2>1. /\ at[k] \in OwnStep /\ UNCHANGED inside
        /\ UNCHANGED at \/ \E p \in Place : Go(k, p)
    BY <1>8, Names DEF initVideo, context_reset, deinitVideo, closeLib, Fails, Rest, OwnStep, Place
  <2> QED
    BY <1>1, <1>2, <1>3, <2>1
<1> QED
  BY <1>4, <1>5, <1>6, <1>7, <1>8 DEF Step

LEMMA TypesOfPointers ==
  ASSUME TypeOK, fault = "none", NEW k \in Loads, Step(k)
  PROVE  /\ UNCHANGED <<core, image, overlapped, kb>>
         /\ open' \in SUBSET Loads0 /\ fault' \in Fault \cup {"none"}
         /\ free' \in BOOLEAN /\ Stopped' \in BOOLEAN
         /\ keyboardCb' \in Loads0 /\ Rot' \in Loads0
         /\ hw' \in [of : Loads0, api : Api \cup {"NONE"}, destroy : BOOLEAN]
         /\ PixFmt' \in [of : Loads0, fmt : Format \cup {"0RGB1555"}]
         /\ gl' \in BOOLEAN /\ autoCtx' \in BOOLEAN /\ skip' \in BOOLEAN
         /\ ctx' \in [of : Loads0, state : {"none", "created", "live", "destroyed"}]
<1>0. k \in Loads0 /\ 0 \in Loads0 /\ inside[k] \in Loads0
  BY LoadsAssumption DEF Loads, Loads0, TypeOK
<1>1. /\ UNCHANGED <<core, image, overlapped, kb>>
      /\ open' = open \/ open' = open \ {core}
  BY DEF Step, LoadGame, StartApp, Return, Play, Begin, Close, Shutdown, Call, Environment,
         initVideo, context_reset, deinitVideo, closeLib, libVars
<1>2. fault' \in Fault \cup {"none"}
  BY DEF Step, LoadGame, StartApp, Return, Play, Begin, Close, Shutdown, Call, Environment,
         initVideo, context_reset, deinitVideo, closeLib, Fails, Fault
<1>3. free' \in BOOLEAN /\ Stopped' \in BOOLEAN
  BY Zenon DEF Step, LoadGame, StartApp, Return, Play, Begin, Close, Shutdown, Call, Environment,
               initVideo, context_reset, deinitVideo, closeLib, playVars, TypeOK
<1>4. gl' \in BOOLEAN /\ autoCtx' \in BOOLEAN /\ skip' \in BOOLEAN
  BY Zenon DEF Step, LoadGame, StartApp, Return, Play, Begin, Close, Shutdown, Call, Environment,
               initVideo, context_reset, deinitVideo, closeLib, Fails, glVars, TypeOK
<1>5. /\ keyboardCb' \in {keyboardCb, inside[k]} /\ Rot' \in {Rot, inside[k], 0}
      /\ PixFmt' = PixFmt \/ \E fmt \in Format : PixFmt' = [of |-> inside[k], fmt |-> fmt]
      /\ hw' = hw \/ \E api \in Api, destroy \in BOOLEAN :
                       hw' = [of |-> inside[k], api |-> api, destroy |-> destroy]
  BY DEF Step, LoadGame, StartApp, Return, Play, Begin, Close, Shutdown, Call, Environment,
         SetKeyboard, SetHwRender, SetPixelFormat, SetRotation,
         initVideo, context_reset, deinitVideo, closeLib, setVars
<1>6. /\ hw' \in [of : Loads0, api : Api \cup {"NONE"}, destroy : BOOLEAN]
      /\ PixFmt' \in [of : Loads0, fmt : Format \cup {"0RGB1555"}]
  BY <1>0, <1>5 DEF TypeOK
<1>7. ctx' \in [of : Loads0, state : {"none", "created", "live", "destroyed"}]
  <2>1. \/ ctx' = ctx \/ ctx' = [of |-> hw.of, state |-> "created"]
        \/ ctx' = [ctx EXCEPT !.state = "live"] \/ ctx' = [ctx EXCEPT !.state = "destroyed"]
    BY DEF Step, LoadGame, StartApp, Return, Play, Begin, Close, Shutdown, Call, Environment,
           initVideo, context_reset, deinitVideo, closeLib, Fails, glVars
  <2> QED
    BY <2>1 DEF TypeOK
<1> QED
  BY <1>0, <1>1, <1>2, <1>3, <1>4, <1>5, <1>6, <1>7 DEF TypeOK

LEMMA TypeStep ==
  ASSUME TypeOK, fault = "none", NEW k \in Loads, Step(k)
  PROVE  TypeOK'
BY TypesOfPlaces, TypesOfPointers DEF TypeOK, Place

LEMMA TypeCoreLoad ==
  ASSUME TypeOK, NEW meta \in Meta, CoreLoad(meta)
  PROVE  TypeOK'
<1>1. core \in Nat /\ core + 1 \in Loads0 /\ core \in Loads0 /\ 0 \in Loads0
  BY LoadsAssumption DEF TypeOK, Loads0, CoreLoad
<1>2. /\ free' \in BOOLEAN /\ overlapped' \in BOOLEAN
      /\ gl' \in BOOLEAN /\ autoCtx' \in BOOLEAN /\ skip' \in BOOLEAN
  <2>1. meta.IsGlAllowed \in BOOLEAN /\ meta.AutoGlContext \in BOOLEAN /\ meta.skip \in BOOLEAN
    BY MetaAssumption, Zenon
  <2>2. (overlapped \/ at[core] \notin Left) \in BOOLEAN
    OBVIOUS
  <2> QED
    BY <2>1, <2>2, Zenon DEF CoreLoad
<1>3. image' \in [Loads0 -> Loads0]
  <2>1. PICK m \in {core + 1} \cup {image[j] : j \in open} : image' = [image EXCEPT ![core + 1] = m]
    BY DEF CoreLoad
  <2>2. \A j \in open : image[j] \in Loads0
    BY DEF TypeOK
  <2>3. m \in Loads0
    BY <1>1, <2>2
  <2> QED
    BY <2>1, <2>3 DEF TypeOK
<1>4. /\ at' \in [Loads0 -> Rest \cup OwnStep \cup FunctionName]
      /\ \A j \in Loads0 : inside'[j] # 0 => at'[j] \in FunctionName
  BY Names DEF CoreLoad, Go, TypeOK
<1>5. core' \in Loads0 /\ open' \in SUBSET Loads0 /\ keyboardCb' \in Loads0
  BY <1>1 DEF CoreLoad, TypeOK
<1> QED
  BY <1>2, <1>3, <1>4, <1>5 DEF CoreLoad, TypeOK

-----------------------------------------------------------------------------
(* The invariant                                                           *)

LEMMA InitInv == Init => IInv
<1> SUFFICES ASSUME Init PROVE IInv
  OBVIOUS
<1>0. 0 \in Loads0
  BY LoadsAssumption DEF Loads0
<1>1. TypeOK
  <2>1. /\ hw \in [of : Loads0, api : Api \cup {"NONE"}, destroy : BOOLEAN]
        /\ PixFmt \in [of : Loads0, fmt : Format \cup {"0RGB1555"}]
        /\ ctx \in [of : Loads0, state : {"none", "created", "live", "destroyed"}]
    BY <1>0 DEF Init
  <2>2. /\ free \in BOOLEAN /\ Stopped \in BOOLEAN /\ kb \in BOOLEAN /\ overlapped \in BOOLEAN
        /\ gl \in BOOLEAN /\ autoCtx \in BOOLEAN /\ skip \in BOOLEAN
        /\ playing \in [Loads0 -> BOOLEAN]
    BY Zenon DEF Init
  <2> QED
    BY <1>0, <2>1, <2>2 DEF Init, TypeOK, Rest
<1>2. core = 0 /\ now = "closed" /\ ~running /\ inside[core] = 0
  BY <1>0 DEF Init, now, running
<1>3. Parked
  BY <1>0 DEF Init, Parked, Loads0
<1>4. Whereabouts /\ Context
  BY <1>2 DEF Init, Whereabouts, Context, PreVideo, PostVideo, NoGameYet, Setting, Callbacks,
              PlayingAt, Played, Ended
<1> QED
  BY <1>1, <1>3, <1>4 DEF IInv

(* A load after which two do not overlap: the one before is left.          *)
LEMMA CoreLoadStep ==
  ASSUME IInv, NEW meta \in Meta, CoreLoad(meta)
  PROVE  IInv'
<1>1. TypeOK'
  BY TypeCoreLoad DEF IInv
<1> SUFFICES ASSUME ~overlapped' PROVE (Parked /\ Whereabouts /\ Context)'
  BY <1>1 DEF IInv
<1>2. ~overlapped /\ at[core] \in Left
  BY DEF CoreLoad
<1>3. TypeOK /\ Parked /\ Whereabouts
  BY <1>2 DEF IInv
<1>4. core \in Nat /\ core' = core + 1 /\ core' \in Loads0 /\ core \in Loads0
  BY LoadsAssumption DEF TypeOK, Loads0, CoreLoad, IInv
<1>5. now' = "retro_set_environment" /\ ~running' /\ inside[core] = 0
  <2>1. at'[core'] = "retro_set_environment" /\ playing' = playing
    BY <1>3, <1>4 DEF CoreLoad, Go, TypeOK
  <2>2. ~playing[core'] /\ (inside[core] # 0 => at[core] \in FunctionName)
    BY <1>3, <1>4 DEF Parked, Loads0, TypeOK
  <2>3. inside[core] = 0
    BY <1>2, <2>2, OwnPlaces DEF Left, Rest
  <2> QED
    BY <2>1, <2>2, <2>3 DEF now, running
<1>6. Parked'
  <2>1. \A j \in Loads0 : j # core' => at'[j] = at[j] /\ image'[j] = image[j]
    BY <1>3, <1>4 DEF CoreLoad, Go, TypeOK
  <2>2. inside' = inside /\ playing' = playing
    BY DEF CoreLoad
  <2>3. \A j \in Loads0 : j < core' <=> j < core \/ j = core
    BY <1>4 DEF Loads0
  <2>4. \A j \in Loads0 : j > core' => j > core
    BY <1>4 DEF Loads0
  <2>5. core' > core
    BY <1>4
  <2> QED
    BY <1>2, <1>3, <1>4, <1>5, <2>1, <2>2, <2>3, <2>4, <2>5 DEF Parked, Loads0
<1>7. /\ Rot <= core /\ hw.of <= core /\ PixFmt.of <= core /\ ctx.of <= core
      /\ Rot \in Nat /\ hw.of \in Nat /\ PixFmt.of \in Nat /\ ctx.of \in Nat
  BY <1>3 DEF Whereabouts, TypeOK, Loads0
<1>8. UNCHANGED <<Rot, hw, PixFmt, ctx>> /\ open' = open \cup {core'}
  BY <1>4 DEF CoreLoad
<1>9. Whereabouts'
  BY <1>4, <1>5, <1>7, <1>8 DEF Whereabouts, NoGameYet, Setting
<1>10. Context'
  <2>1. hw'.of # core' /\ ctx'.of # core'
    BY <1>4, <1>7, <1>8
  <2>2. ~PreVideo' /\ ~PostVideo'
    BY <1>5 DEF PreVideo, PostVideo, PlayingAt, Played, Ended, Callbacks
  <2> QED
    BY <1>5, <2>1, <2>2 DEF Context
<1> QED
  BY <1>6, <1>9, <1>10

(* While no two overlap, only the latest is at work.                       *)
LEMMA Acts ==
  ASSUME TypeOK, Parked, NEW k \in Loads, at[k] \notin Left \/ inside[k] # 0
  PROVE  k = core /\ inside[k] \in {0, core}
BY DEF TypeOK, Parked, Left, Loads, Loads0

LEMMA Stepping ==
  ASSUME TypeOK, Parked, NEW k \in Loads, Step(k)
  PROVE  k = core /\ k \in Loads0 /\ inside[core] \in {0, core}
<1>1. at[k] \notin Left \/ inside[k] # 0 \/ k = core
  BY OwnPlaces DEF Step, LoadGame, StartApp, Return, Play, Begin, Close, Shutdown, Ends, Call,
                   Environment, initVideo, context_reset, deinitVideo, closeLib, Left, Rest
<1> QED
  BY <1>1, Acts DEF Parked, Loads, Loads0

(* The place it goes to; the others stay where they are.                   *)
LEMMA Moving ==
  ASSUME TypeOK, Parked, NEW k \in Loads, k = core, NEW p, Go(k, p), UNCHANGED <<core, image>>,
         \/ inside' = inside
         \/ \E i \in {0, core} : inside' = [inside EXCEPT ![k] = i],
         \/ playing' = playing
         \/ \E b \in BOOLEAN : playing' = [playing EXCEPT ![k] = b]
  PROVE  Parked' /\ now' = p
<1>0. core \in Loads0 /\ core \in Nat
  BY DEF TypeOK, Loads0
<1>1. now' = p /\ \A j \in Loads0 : j # core => at'[j] = at[j]
  BY <1>0 DEF Go, TypeOK, now
<1>2. (\A j \in Loads0 : j # core => inside'[j] = inside[j]) /\ inside'[core] \in {0, core}
  BY <1>0 DEF TypeOK, Parked
<1>3. \A j \in Loads0 : j # core => playing'[j] = playing[j]
  BY <1>0, Zenon DEF TypeOK
<1>4. \A j \in Loads0 : (j < core => j # core) /\ (j > core => j # core)
  BY <1>0 DEF Loads0
<1>5. Parked'
  BY <1>1, <1>2, <1>3, <1>4 DEF Parked
<1> QED
  BY <1>1, <1>5

LEMMA Resting ==
  ASSUME Parked, UNCHANGED <<core, image, at, inside, playing>>
  PROVE  Parked' /\ now' = now /\ running' = running
BY DEF Parked, now, running

(* The steps of the frontend between the functions of the core.            *)
LEMMA FrontendStep ==
  ASSUME TypeOK, Parked, Whereabouts, Context, NEW k \in Loads, k = core, k \in Loads0,
         \/ \E ok \in BOOLEAN : LoadGame(k, ok) \/ StartApp(k, ok)
         \/ \E f \in Played : Play(k, f)
         \/ Begin(k) \/ Close(k) \/ Shutdown(k) \/ Call(k)
  PROVE  (Parked /\ Whereabouts /\ Context)'
<1>0. UNCHANGED <<core, image, open, PixFmt, Rot, hw, gl, ctx>>
  BY DEF LoadGame, StartApp, Play, Begin, Close, Shutdown, Call, libVars, setVars, glVars
<1>1. ASSUME NEW ok \in BOOLEAN, LoadGame(k, ok)
      PROVE  (Parked /\ Whereabouts /\ Context)'
  <2>1. /\ now = "core" /\ Go(k, IF ok THEN "retro_load_game" ELSE "noGame")
        /\ UNCHANGED <<inside, playing>>
    BY <1>1 DEF LoadGame, now, playVars
  <2>2. Parked' /\ now' \in {"retro_load_game", "noGame"}
    BY <1>0, <2>1, Moving
  <2>3. running' = running
    BY <1>0, <2>1 DEF running
  <2>4. (Whereabouts /\ Context)'
    BY <1>0, <2>1, <2>2, <2>3 DEF Whereabouts, Context, NoGameYet, Setting, Callbacks, PreVideo,
                                  PostVideo, PlayingAt, Played, Ended
  <2> QED
    BY <2>2, <2>4
<1>2. ASSUME NEW ok \in BOOLEAN, StartApp(k, ok)
      PROVE  (Parked /\ Whereabouts /\ Context)'
  <2>1. /\ now = "game" /\ Go(k, IF ok THEN "started" ELSE "noMedia")
        /\ UNCHANGED <<inside, playing>>
    BY <1>2 DEF StartApp, now, playVars
  <2>2. Parked' /\ now' \in {"started", "noMedia"}
    BY <1>0, <2>1, Moving
  <2>3. running' = running
    BY <1>0, <2>1 DEF running
  <2>4. (Whereabouts /\ Context)'
    BY <1>0, <2>1, <2>2, <2>3 DEF Whereabouts, Context, NoGameYet, Setting, Callbacks, PreVideo,
                                  PostVideo, PlayingAt, Played, Ended
  <2> QED
    BY <2>2, <2>4
<1>3. ASSUME NEW f \in Played, Play(k, f)
      PROVE  (Parked /\ Whereabouts /\ Context)'
  <2>1. now = "playing" /\ Go(k, f) /\ UNCHANGED <<inside, playing>>
    BY <1>3 DEF Play, now, playVars
  <2>2. Parked' /\ now' = f
    BY <1>0, <2>1, Moving
  <2>3. running' = running /\ running
    <3>1. running
      BY <2>1 DEF Whereabouts, PreVideo, PostVideo, NoGameYet, Setting, Callbacks, Played, Ended
    <3> QED
      BY <1>0, <2>1, <3>1 DEF running
  <2>4. (Whereabouts /\ Context)'
    BY <1>0, <2>1, <2>2, <2>3 DEF Whereabouts, Context, NoGameYet, Setting, Callbacks, PreVideo,
                                  PostVideo, PlayingAt, Played, Ended
  <2> QED
    BY <2>2, <2>4
<1>4. CASE Begin(k)
  <2>1. /\ now = "started" /\ Go(k, "playing") /\ UNCHANGED inside
        /\ playing' = [playing EXCEPT ![k] = TRUE]
    BY <1>4 DEF Begin, now
  <2>2. Parked' /\ now' = "playing"
    BY <1>0, <2>1, Moving
  <2>3. running'
    BY <1>0, <2>1, Zenon DEF running, TypeOK
  <2>4. (Whereabouts /\ Context)'
    BY <1>0, <2>1, <2>2, <2>3 DEF Whereabouts, Context, NoGameYet, Setting, Callbacks, PreVideo,
                                  PostVideo, PlayingAt, Played, Ended
  <2> QED
    BY <2>2, <2>4
<1>5. CASE Shutdown(k)
  <2>1. /\ now \in {"playing", "started"} /\ Go(k, "retro_unload_game") /\ UNCHANGED inside
        /\ playing' = [playing EXCEPT ![k] = FALSE]
    BY <1>5 DEF Shutdown, Ends, now
  <2>2. Parked' /\ now' = "retro_unload_game"
    BY <1>0, <2>1, Moving
  <2>3. ~running'
    BY <1>0, <2>1, Zenon DEF running, TypeOK
  <2>4. (Whereabouts /\ Context)'
    BY <1>0, <2>1, <2>2, <2>3 DEF Whereabouts, Context, NoGameYet, Setting, Callbacks, PreVideo,
                                  PostVideo, PlayingAt, Played, Ended
  <2> QED
    BY <2>2, <2>4
<1>6. CASE Close(k) \/ Call(k)
  <2>1. /\ UNCHANGED <<at, playing>>
        /\ inside' = inside \/ inside' = [inside EXCEPT ![k] = core]
    BY <1>6 DEF Close, Call, playVars
  <2>2. now' = now /\ running' = running
    BY <1>0, <2>1 DEF now, running
  <2>3. Parked'
    <3>1. /\ \A j \in Loads0 : j # core => inside'[j] = inside[j]
          /\ inside'[core] \in {0, core}
      BY <1>0, <2>1 DEF TypeOK, Parked
    <3>2. \A j \in Loads0 : (j < core => j # core) /\ (j > core => j # core)
      BY DEF TypeOK, Loads0
    <3> QED
      BY <1>0, <2>1, <3>1, <3>2 DEF Parked
  <2>4. (Whereabouts /\ Context)'
    BY <1>0, <2>2 DEF Whereabouts, Context, PreVideo, PostVideo
  <2> QED
    BY <2>3, <2>4
<1> QED
  BY <1>1, <1>2, <1>3, <1>4, <1>5, <1>6

(* A function returns: before a game, with a game just loaded, or later.   *)
LEMMA ReturnStep ==
  ASSUME TypeOK, Parked, Whereabouts, Context, NEW k \in Loads, k = core, k \in Loads0,
         NEW ok \in BOOLEAN, Return(k, ok)
  PROVE  (Parked /\ Whereabouts /\ Context)'
<1>0. now \in FunctionName /\ now \notin Rest /\ now \notin OwnStep
  BY OwnPlaces DEF Return, TypeOK, now
<1>1. UNCHANGED <<core, image, open, PixFmt, Rot, hw, gl, ctx, playing>>
  BY DEF Return, libVars, setVars, glVars
<1>2. Parked' /\ now' = After(core, ok) /\ running' = running
  <2>1. inside' = [inside EXCEPT ![k] = 0] /\ Go(k, After(k, ok))
    BY DEF Return
  <2> QED
    BY <1>1, <2>1, Moving DEF running
<1>3. CASE now \in NoGameYet
  <2>1. ~running
    BY <1>3 DEF Whereabouts, NoGameYet, Setting, Callbacks, PlayingAt, Played
  <2>2. now' \in NoGameYet \/ now' = "retro_get_system_av_info"
    <3>1. CASE now \in Callbacks
      BY <1>2, <3>1, AfterTable DEF NoGameYet, Setting, now
    <3>2. CASE now \in {"retro_set_environment", "retro_init", "retro_api_version",
                        "retro_get_system_info", "retro_load_game"}
      BY <1>2, <3>2, AfterTable DEF NoGameYet, Setting, Callbacks, now
    <3> QED
      BY <1>0, <1>3, <3>1, <3>2 DEF NoGameYet, Setting, Rest
  <2>3. (Whereabouts /\ Context)'
    BY <1>1, <1>2, <1>3, <2>1, <2>2
       DEF Whereabouts, Context, PreVideo, PostVideo, NoGameYet, Setting, Callbacks, PlayingAt,
           Played, Ended
  <2> QED
    BY <1>2, <2>3
<1>4. CASE PreVideo
  <2>1. ~running /\ now \in {"retro_get_system_av_info", "retro_serialize_size"}
    BY <1>0, <1>4 DEF PreVideo, Whereabouts, PlayingAt, Played, OwnStep
  <2>2. now' = IF now = "retro_get_system_av_info" THEN "retro_serialize_size"
               ELSE IF gl THEN "initVideo" ELSE "retro_set_controller_port_device"
    BY <1>2, <2>1, AfterTable DEF AfterSerializeSize, now, running
  <2>3. (Whereabouts /\ Context)'
    BY <1>1, <1>2, <1>4, <2>1, <2>2
       DEF Whereabouts, Context, PreVideo, PostVideo, NoGameYet, Setting, Callbacks, PlayingAt,
           Played, Ended
  <2> QED
    BY <1>2, <2>3
<1>5. CASE PostVideo
  <2>1. CASE now \in {"retro_set_controller_port_device", "retro_unload_game", "retro_deinit"}
    <3>1. /\ now' \in {"game", "retro_deinit", "deinitVideo", "closeLib"} /\ ~running
          /\ now' = "deinitVideo" => gl
          /\ now' = "closeLib" => ~gl
      BY <1>2, <2>1, AfterTable DEF Whereabouts, PlayingAt, Played, now
    <3>2. (Whereabouts /\ Context)'
      BY <1>1, <1>2, <1>5, <2>1, <3>1
         DEF Whereabouts, Context, PreVideo, PostVideo, NoGameYet, Setting, Callbacks, PlayingAt,
             Played, Ended
    <3> QED
      BY <1>2, <3>2
  <2>2. CASE now \in PlayingAt /\ running
    <3>1. now' \in {"playing", "retro_serialize", "retro_get_memory_size"}
      <4>1. CASE now \in {"retro_serialize_size", "retro_get_memory_data"}
        BY <1>2, <2>2, <4>1, AfterTable DEF AfterSerializeSize, now, running
      <4>2. CASE now \notin {"retro_serialize_size", "retro_get_memory_data"}
        BY <1>0, <1>2, <2>2, <4>2, AfterTable, FollowTable
           DEF PlayingAt, Played, Rest, Callbacks, now
      <4> QED
        BY <4>1, <4>2
    <3>2. (Whereabouts /\ Context)'
      BY <1>1, <1>2, <1>5, <2>2, <3>1
         DEF Whereabouts, Context, PreVideo, PostVideo, NoGameYet, Setting, Callbacks, PlayingAt,
             Played, Ended
    <3> QED
      BY <1>2, <3>2
  <2> QED
    BY <1>0, <1>5, <2>1, <2>2 DEF PostVideo, Ended, Rest, OwnStep
<1> QED
  BY <1>0, <1>3, <1>4, <1>5 DEF Whereabouts, Rest, OwnStep

(* A command changes what the frontend keeps of the core, not where it is; *)
(* the record of the context is out of a core's hands once it has a game.  *)
LEMMA EnvironmentStep ==
  ASSUME TypeOK, Parked, Whereabouts, Context, NEW k \in Loads, k = core, k \in Loads0,
         NEW cmd \in CommandName, Environment(k, cmd)
  PROVE  (Parked /\ Whereabouts /\ Context)'
<1>0. /\ now \in FunctionName /\ inside[k] = core
      /\ UNCHANGED <<core, image, open, at, inside, playing, gl, ctx>>
  BY DEF Environment, TypeOK, Parked, now, libVars, playVars, glVars
<1>1. core \in Nat /\ now \notin {"closed", "closeLib"}
  BY <1>0, OwnPlaces DEF TypeOK, Loads0, Rest, OwnStep
<1>2. /\ Rot' \in {Rot, core}
      /\ PixFmt' = PixFmt \/ \E fmt \in Format : PixFmt' = [of |-> core, fmt |-> fmt]
  BY <1>0 DEF Environment, SetKeyboard, SetHwRender, SetPixelFormat, SetRotation
<1>3. \/ hw' = hw
      \/ /\ gl /\ cmd = "SET_HW_RENDER"
         /\ \E api \in Api, destroy \in BOOLEAN :
              hw' = [of |-> core, api |-> api, destroy |-> destroy]
  BY <1>0 DEF Environment, SetKeyboard, SetHwRender, SetPixelFormat, SetRotation
<1>4. hw' # hw => now = "retro_load_game" /\ gl
  <2> SUFFICES ASSUME hw' # hw PROVE now = "retro_load_game" /\ gl
    OBVIOUS
  <2>1. now \in Loading /\ gl
    BY <1>0, <1>3, HwRenderOnlyLoading DEF Environment, now
  <2> QED
    BY <1>0, <2>1, OwnPlaces DEF Loading, Whereabouts, PreVideo, PostVideo, NoGameYet, Setting,
                                 Callbacks, PlayingAt, Played, Ended
<1>5. Parked' /\ now' = now /\ running' = running
  BY <1>0, Resting
<1>6. Whereabouts'
  <2>1. Rot' <= core /\ hw'.of <= core /\ PixFmt'.of <= core
    BY <1>1, <1>2, <1>3 DEF Whereabouts
  <2> QED
    BY <1>0, <1>5, <2>1 DEF Whereabouts, PreVideo, PostVideo
<1>7. Context'
  <2>1. CASE hw' = hw
    BY <1>0, <1>5, <2>1 DEF Context, PreVideo, PostVideo
  <2>2. CASE hw' # hw
    <3>1. ~PreVideo /\ ~PostVideo /\ gl
      BY <1>4, <2>2 DEF PreVideo, PostVideo, PlayingAt, Played, Ended
    <3> QED
      BY <1>0, <1>1, <1>5, <3>1 DEF Context, PreVideo, PostVideo
  <2> QED
    BY <2>1, <2>2
<1> QED
  BY <1>5, <1>6, <1>7

(* The context is made, reset and destroyed, and the library closed.       *)
LEMMA VideoStep ==
  ASSUME TypeOK, Parked, Whereabouts, Context, NEW k \in Loads, k = core, k \in Loads0,
         initVideo(k) \/ context_reset(k) \/ deinitVideo(k) \/ closeLib(k)
  PROVE  (Parked /\ Whereabouts /\ Context)'
<1>0. UNCHANGED <<core, image, inside, playing, PixFmt, hw>>
  BY DEF initVideo, context_reset, deinitVideo, closeLib, libVars, playVars, setVars
<1>1. now \in OwnStep /\ ~running /\ running' = running /\ core \in Nat
  <2>1. now \in OwnStep
    BY DEF initVideo, context_reset, deinitVideo, closeLib, OwnStep, now
  <2>2. ~running /\ running' = running
    BY <1>0, <2>1 DEF Whereabouts, OwnStep, PlayingAt, Played, running
  <2> QED
    BY <2>1, <2>2 DEF TypeOK, Loads0
<1>2. CASE \E f \in Fault : Fails(f) /\ UNCHANGED <<open, Rot>>
  <2>1. UNCHANGED <<at, gl, ctx, open, Rot>>
    BY <1>2 DEF Fails, glVars
  <2>2. Parked' /\ now' = now /\ running' = running
    BY <1>0, <2>1, Resting
  <2> QED
    BY <1>0, <2>1, <2>2 DEF Whereabouts, Context, PreVideo, PostVideo
<1>3. CASE initVideo(k) /\ Go(k, "context_reset")
  <2>1. /\ now = "initVideo" /\ gl /\ PreVideo
        /\ ctx' = [of |-> hw.of, state |-> "created"] /\ UNCHANGED <<open, Rot, gl>>
    <3>1. now = "initVideo"
      BY <1>3 DEF initVideo, now
    <3>2. at' # at
      BY <1>3, <3>1 DEF Go, TypeOK, now
    <3> QED
      BY <1>3, <3>1, <3>2 DEF initVideo, Fails, Context, PreVideo, libVars, setVars
  <2>2. Parked' /\ now' = "context_reset"
    BY <1>0, <1>3, Moving
  <2> QED
    BY <1>0, <1>1, <2>1, <2>2 DEF Whereabouts, Context, PreVideo, PostVideo, NoGameYet, Setting,
                                  Callbacks, PlayingAt, Played, Ended
<1>4. CASE context_reset(k) /\ Go(k, "retro_set_controller_port_device")
  <2>1. /\ now = "context_reset" /\ gl /\ PostVideo
        /\ ctx' = [ctx EXCEPT !.state = "live"] /\ UNCHANGED <<open, Rot, gl>>
    <3>1. now = "context_reset"
      BY <1>4 DEF context_reset, now
    <3>2. at' # at
      BY <1>4, <3>1 DEF Go, TypeOK, now
    <3> QED
      BY <1>4, <3>1, <3>2 DEF context_reset, Fails, Context, PostVideo, libVars, setVars
  <2>2. Parked' /\ now' = "retro_set_controller_port_device"
    BY <1>0, <1>4, Moving
  <2>3. ctx'.of = ctx.of /\ ctx'.state = "live"
    BY <2>1 DEF TypeOK
  <2> QED
    BY <1>0, <1>1, <2>1, <2>2, <2>3 DEF Whereabouts, Context, PreVideo, PostVideo, NoGameYet,
                                        Setting, Callbacks, PlayingAt, Played, Ended
<1>5. CASE deinitVideo(k) /\ Go(k, "closeLib")
  <2>1. /\ now = "deinitVideo" /\ gl /\ PostVideo
        /\ ctx' = [ctx EXCEPT !.state = "destroyed"] /\ ~gl' /\ UNCHANGED <<open, Rot>>
    <3>1. now = "deinitVideo"
      BY <1>5 DEF deinitVideo, now
    <3>2. at' # at
      BY <1>5, <3>1 DEF Go, TypeOK, now
    <3> QED
      BY <1>5, <3>1, <3>2 DEF deinitVideo, Fails, Context, PostVideo, Ended, libVars, setVars
  <2>2. Parked' /\ now' = "closeLib"
    BY <1>0, <1>5, Moving
  <2>3. ctx'.of = ctx.of /\ ctx'.state = "destroyed"
    BY <2>1 DEF TypeOK
  <2> QED
    BY <1>0, <1>1, <2>1, <2>2, <2>3 DEF Whereabouts, Context, PreVideo, PostVideo, NoGameYet,
                                        Setting, Callbacks, PlayingAt, Played, Ended
<1>6. CASE closeLib(k)
  <2>1. now = "closeLib" /\ ~gl /\ Rot' = 0 /\ UNCHANGED <<gl, ctx>> /\ Go(k, "closed")
    BY <1>6 DEF closeLib, Context, now, glVars
  <2>2. Parked' /\ now' = "closed"
    BY <1>0, <2>1, Moving
  <2> QED
    BY <1>0, <1>1, <2>1, <2>2 DEF Whereabouts, Context, PreVideo, PostVideo, NoGameYet, Setting,
                                  Callbacks, PlayingAt, Played, Ended
<1> QED
  BY <1>2, <1>3, <1>4, <1>5, <1>6
     DEF initVideo, context_reset, deinitVideo, Fault, libVars, setVars

LEMMA StepKeeps ==
  ASSUME IInv, fault = "none", NEW k \in Loads, Step(k)
  PROVE  IInv'
<1>1. TypeOK' /\ UNCHANGED overlapped
  BY TypeStep, TypesOfPointers DEF IInv
<1> SUFFICES ASSUME ~overlapped PROVE (Parked /\ Whereabouts /\ Context)'
  BY <1>1 DEF IInv
<1>2. TypeOK /\ Parked /\ Whereabouts /\ Context
  BY DEF IInv
<1>3. k = core /\ k \in Loads0
  BY <1>2, Stepping
<1> QED
  BY <1>2, <1>3, FrontendStep, ReturnStep, EnvironmentStep, VideoStep DEF Step

(* An event of the keyboard changes nothing but kb, or ends the process.   *)
LEMMA KeyStep ==
  ASSUME IInv, fault = "none", InputKeyboard \/ keyboard_callback
  PROVE  IInv'
<1>1. UNCHANGED <<libVars, at, inside, playVars, setVars, glVars>>
  BY DEF InputKeyboard, keyboard_callback
<1>2. kb' \in BOOLEAN /\ fault' \in {fault, "keyboard"}
  BY Zenon DEF InputKeyboard, keyboard_callback
<1>3. TypeOK'
  BY <1>1, <1>2 DEF IInv, TypeOK, Fault, libVars, playVars, setVars, glVars
<1>4. ~overlapped => (Parked /\ Whereabouts /\ Context)'
  BY <1>1 DEF IInv, Parked, Whereabouts, Context, PreVideo, PostVideo, now, running, libVars,
              playVars, setVars, glVars
<1> QED
  BY <1>1, <1>3, <1>4 DEF IInv, libVars

(* The invariant is inductive.                                             *)
THEOREM Invariant == Spec => []IInv
<1>1. IInv /\ [Next]_vars => IInv'
  <2> SUFFICES ASSUME IInv, [Next]_vars PROVE IInv'
    OBVIOUS
  <2>1. CASE Next
    BY <2>1, CoreLoadStep, StepKeeps, KeyStep DEF Next
  <2>2. CASE UNCHANGED vars
    BY <2>2 DEF IInv, TypeOK, Parked, Whereabouts, Context, PreVideo, PostVideo, now, running,
                vars, libVars, playVars, setVars, glVars
  <2> QED
    BY <2>1, <2>2
<1> QED
  BY InitInv, <1>1, PTL DEF Spec

-----------------------------------------------------------------------------
(* The types of all variables, whether loads overlap or not.               *)
THEOREM TypeCorrect == Spec => []TypeOK
<1>1. IInv => TypeOK
  BY DEF IInv
<1> QED
  BY Invariant, <1>1, PTL

(* However many cores before were never closed, and whatever records and   *)
(* contexts they left, a core that was granted a context runs and is shut  *)
(* down with its own.                                                      *)
THEOREM CoresDrawInTheirOwn == Spec => []OwnContext
<1>1. IInv => OwnContext
  <2> SUFFICES ASSUME IInv, ~overlapped, hw.of = core, running \/ now = "deinitVideo"
               PROVE  ctx = [of |-> core, state |-> "live"]
    BY DEF OwnContext, running, now
  <2>1. Whereabouts /\ Context
    BY DEF IInv
  <2>2. PostVideo /\ now \notin {"closed", "closeLib", "context_reset"}
    BY <2>1 DEF Whereabouts, PostVideo, PlayingAt, Played, Ended
  <2>3. gl
    BY <2>1, <2>2 DEF Context
  <2>4. ctx.of = core /\ ctx.state = "live"
    BY <2>1, <2>2, <2>3 DEF Context
  <2> QED
    BY <2>4 DEF IInv, TypeOK
<1> QED
  BY Invariant, <1>1, PTL

-----------------------------------------------------------------------------
(* The refinement                                                          *)

(* The tables are the same on both sides.                                  *)
LEMMA SameNames ==
  ASSUME NEW k
  PROVE  /\ Promise(k)!Callbacks = Callbacks
         /\ Promise(k)!Loading = Loading
         /\ Promise(k)!Loaded = Loaded
         /\ Promise(k)!Life = Life
         /\ Promise(k)!BeforeRun = BeforeRun
BY DEF Promise!Callbacks, Callbacks, Promise!Loading, Loading, Promise!Loaded, Loaded,
       Promise!Life, Life, Promise!BeforeRun, BeforeRun

LEMMA SameFunctions ==
  ASSUME NEW k
  PROVE  /\ Promise(k)!FunctionName = FunctionName
         /\ Promise(k)!FunctionOf = FunctionOf
<1>1. \A n, a, b : Promise(k)!Function(n, a, b) = Function(n, a, b)
  BY DEF Promise!Function, Function
<1>2. Promise(k)!Functions = Functions
  BY <1>1, SameNames
     DEF Promise!Functions, Functions, Promise!SettingFunctions, SettingFunctions,
         Promise!SystemFunctions, SystemFunctions, Promise!GameFunctions, GameFunctions,
         Promise!ContentFunctions, ContentFunctions
<1>3. Promise(k)!FunctionName = FunctionName
  BY <1>2 DEF Promise!FunctionName, FunctionName
<1> QED
  BY <1>2, <1>3 DEF Promise!FunctionOf, FunctionOf

LEMMA SameCommands ==
  ASSUME NEW k
  PROVE  /\ Promise(k)!CommandsIn = CommandsIn
         /\ Promise(k)!Binding = Binding
<1>0. /\ \A w, n : Promise(k)!Asks(w, n) = Asks(w, n)
      /\ \A w, n : Promise(k)!Binds(w, n) = Binds(w, n)
      /\ Promise(k)!Setup = Setup /\ Promise(k)!Loading = Loading
      /\ Promise(k)!InitOrLoading = InitOrLoading /\ Promise(k)!Running = Running
      /\ Promise(k)!Anywhere = Anywhere
  BY SameFunctions
     DEF Promise!Asks, Asks, Promise!Binds, Binds, Promise!Setup, Setup, Promise!Loading, Loading,
         Promise!InitOrLoading, InitOrLoading, Promise!Running, Running, Promise!Anywhere, Anywhere
<1>1. /\ Promise(k)!ScreenCommands = ScreenCommands
      /\ Promise(k)!CallbackCommands = CallbackCommands
      /\ Promise(k)!VariableCommands = VariableCommands
      /\ Promise(k)!TimingCommands = TimingCommands
  BY <1>0 DEF Promise!ScreenCommands, ScreenCommands, Promise!CallbackCommands, CallbackCommands,
              Promise!VariableCommands, VariableCommands, Promise!TimingCommands, TimingCommands
<1>2. /\ Promise(k)!InterfaceCommands = InterfaceCommands
      /\ Promise(k)!SystemCommands = SystemCommands
      /\ Promise(k)!DescriptionCommands = DescriptionCommands
      /\ Promise(k)!FrameCommands = FrameCommands
  BY <1>0 DEF Promise!InterfaceCommands, InterfaceCommands, Promise!SystemCommands, SystemCommands,
              Promise!DescriptionCommands, DescriptionCommands, Promise!FrameCommands, FrameCommands
<1>3. /\ Promise(k)!HardwareCommands = HardwareCommands
      /\ Promise(k)!StatusCommands = StatusCommands
      /\ Promise(k)!OptionCommands = OptionCommands
      /\ Promise(k)!PreferenceCommands = PreferenceCommands
  BY <1>0 DEF Promise!HardwareCommands, HardwareCommands, Promise!StatusCommands, StatusCommands,
              Promise!OptionCommands, OptionCommands, Promise!PreferenceCommands,
              PreferenceCommands
<1>4. /\ Promise(k)!PacingCommands = PacingCommands
      /\ Promise(k)!ContentCommands = ContentCommands
      /\ Promise(k)!StateCommands = StateCommands
      /\ Promise(k)!DeviceCommands = DeviceCommands
  BY <1>0 DEF Promise!PacingCommands, PacingCommands, Promise!ContentCommands, ContentCommands,
              Promise!StateCommands, StateCommands, Promise!DeviceCommands, DeviceCommands
<1>5. Promise(k)!Commands = Commands
  BY <1>1, <1>2, <1>3, <1>4 DEF Promise!Commands, Commands
<1> QED
  BY <1>5, SameFunctions DEF Promise!CommandsIn, CommandsIn, Promise!Binding, Binding

(* The callbacks a core has been given when it is given the next one.      *)
LEMMA SettingTable ==
  /\ SetBefore("retro_set_input_state") = {"retro_set_environment"}
  /\ SetBefore("retro_set_video_refresh") = {"retro_set_environment", "retro_set_input_state"}
  /\ SetBefore("retro_set_input_poll") =
       {"retro_set_environment", "retro_set_input_state", "retro_set_video_refresh"}
  /\ SetBefore("retro_set_audio_sample") =
       {"retro_set_environment", "retro_set_input_state", "retro_set_video_refresh",
        "retro_set_input_poll"}
  /\ SetBefore("retro_set_audio_sample_batch") =
       {"retro_set_environment", "retro_set_input_state", "retro_set_video_refresh",
        "retro_set_input_poll", "retro_set_audio_sample"}
<1> DEFINE Earlier(s) == {j \in 1..6 : \E i \in (j + 1)..6 : SettingOrder[i] = s}
<1>1. /\ SettingOrder[1] = "retro_set_environment" /\ SettingOrder[2] = "retro_set_input_state"
      /\ SettingOrder[3] = "retro_set_video_refresh" /\ SettingOrder[4] = "retro_set_input_poll"
      /\ SettingOrder[5] = "retro_set_audio_sample"
      /\ SettingOrder[6] = "retro_set_audio_sample_batch"
  BY DEF SettingOrder
<1>2. Earlier("retro_set_input_state") = {1}
  BY <1>1
<1>3. Earlier("retro_set_video_refresh") = {1, 2}
  BY <1>1
<1>4. Earlier("retro_set_input_poll") = {1, 2, 3}
  BY <1>1
<1>5. Earlier("retro_set_audio_sample") = {1, 2, 3, 4}
  BY <1>1
<1>6. Earlier("retro_set_audio_sample_batch") = {1, 2, 3, 4, 5}
  BY <1>1
<1>7. \A s : SetBefore(s) = {SettingOrder[i] : i \in Earlier(s)}
  BY DEF SetBefore
<1> HIDE DEF Earlier
<1> QED
  BY <1>1, <1>2, <1>3, <1>4, <1>5, <1>6, <1>7

(* What the place of a load means to its core.                             *)
View(k) ==
  /\ lifeOf(k) = "closed" <=> at[k] = "closed"
  /\ at[k] = "retro_set_environment" => lifeOf(k) = "opened"
  /\ at[k] \in Callbacks \cup {"retro_init"} => lifeOf(k) = "environment"
  /\ at[k] \in {"retro_api_version", "retro_get_system_info", "core", "noGame",
                "retro_load_game", "retro_deinit"} => lifeOf(k) = "inited"
  /\ at[k] \in {"deinitVideo", "closeLib"} => lifeOf(k) = "deinited"
  /\ at[k] \in {"retro_get_system_av_info", "initVideo", "context_reset", "noMedia", "game",
                "started", "retro_set_controller_port_device", "retro_unload_game"} \cup PlayingAt
       => lifeOf(k) = "game"
  /\ at[k] \in {"closed", "retro_set_environment"} => givenTo(k) = {}
  /\ at[k] \in Callbacks => givenTo(k) = Callbacks \cap SetBefore(at[k])
  /\ at[k] \notin {"closed", "retro_set_environment"} \cup Callbacks => givenTo(k) = Callbacks

LEMMA Views == ASSUME NEW k PROVE View(k) /\ View(k)'
<1>1. View(k)
  BY DEF View, lifeOf, givenTo, Callbacks, PlayingAt, Played
<1>2. View(k)'
  BY DEF View, lifeOf, givenTo, Callbacks, PlayingAt, Played
<1> QED
  BY <1>1, <1>2

Stays(k) == UNCHANGED <<lifeOf(k), inOf(k), givenTo(k), grantedTo(k), contextOf(k)>>

LEMMA InitIsInit == ASSUME Init, NEW k \in Loads PROVE Promise(k)!Init
<1>1. at[k] = "closed" /\ inside[k] = 0 /\ k # 0
  BY DEF Init, Loads, Loads0
<1> QED
  BY <1>1, Views DEF View, Promise!Init, inOf, grantedTo, contextOf

(* Nothing happens to a core that has not been loaded, nor by a step that  *)
(* leaves its place and what is kept of it alone.                          *)
LEMMA UnloadedStays ==
  ASSUME NEW k \in Loads, at[k] = "closed", at'[k] = "closed", inside[k] = 0, inside'[k] = 0
  PROVE  Stays(k)
<1>1. k # 0
  BY DEF Loads
<1> QED
  BY <1>1, Views DEF Stays, View, inOf, grantedTo, contextOf

LEMMA Steady ==
  ASSUME NEW k, UNCHANGED <<at, inside, keyboardCb, PixFmt, Rot, hw, ctx>>
  PROVE  Stays(k)
<1>1. lifeOf(k)' = lifeOf(k)
  BY DEF lifeOf
<1> QED
  BY <1>1 DEF Stays, inOf, givenTo, grantedTo, contextOf

(* A step within one stage, after which the core has what it had.          *)
LEMMA SameStage ==
  ASSUME NEW k, lifeOf(k)' = lifeOf(k), UNCHANGED <<keyboardCb, PixFmt, Rot, hw, ctx>>
  PROVE  grantedTo(k)' = grantedTo(k) /\ contextOf(k)' = contextOf(k)
BY DEF grantedTo, contextOf, Held

(* A core is opened by its load; nothing of the core before is taken for   *)
(* the new one's.                                                          *)
LEMMA CoreLoadOpens ==
  ASSUME TypeOK, Parked, Whereabouts, NEW meta \in Meta, CoreLoad(meta),
         NEW k \in Loads, k = core'
  PROVE  Promise(k)!Open
<1>0. core \in Nat /\ k = core + 1 /\ k \in Loads0 /\ k > core
  BY LoadsAssumption DEF CoreLoad, TypeOK, Loads, Loads0
<1>1. /\ at[k] = "closed" /\ at'[k] = "retro_set_environment"
      /\ inside[k] = 0 /\ inside'[k] = 0
  BY <1>0 DEF CoreLoad, Go, TypeOK, Parked
<1>2. lifeOf(k) = "closed" /\ lifeOf(k)' = "opened" /\ givenTo(k)' = {}
  BY <1>1, Views DEF View
<1>3. /\ Rot \in Nat /\ hw.of \in Nat /\ PixFmt.of \in Nat /\ ctx.of \in Nat
      /\ Rot <= core /\ hw.of <= core /\ PixFmt.of <= core /\ ctx.of <= core
  BY DEF TypeOK, Whereabouts, Loads0
<1>4. /\ Rot' # k /\ keyboardCb' # k /\ hw'.of # k /\ PixFmt'.of # k /\ ctx'.of # k
  BY <1>0, <1>3 DEF CoreLoad
<1>5. grantedTo(k)' = {} /\ contextOf(k)' = "none" /\ inOf(k) = "none" /\ inOf(k)' = "none"
  BY <1>0, <1>1, <1>4 DEF grantedTo, contextOf, inOf, Held
<1> QED
  BY <1>2, <1>5 DEF Promise!Open

(* The frontend's own steps are none of a core's life.                     *)
LEMMA FrontendStays ==
  ASSUME TypeOK, NEW k \in Loads, k \in Loads0,
         \/ \E ok \in BOOLEAN : LoadGame(k, ok) \/ StartApp(k, ok)
         \/ \E f \in Played : Play(k, f)
         \/ Begin(k) \/ Close(k) \/ Shutdown(k)
  PROVE  Stays(k)
<1>0. UNCHANGED <<inside, keyboardCb, PixFmt, Rot, hw, ctx>>
  BY DEF LoadGame, StartApp, Play, Begin, Close, Shutdown, setVars, glVars
<1>1. CASE Close(k)
  BY <1>0, <1>1, Steady DEF Close
<1>2. CASE ~Close(k)
  <2>1. at[k] \in Rest /\ inside[k] = 0
    BY <1>2, OwnPlaces DEF LoadGame, StartApp, Play, Begin, Shutdown, Ends, Rest, TypeOK
  <2>2. \/ at[k] = "core" /\ at'[k] \in {"retro_load_game", "noGame"}
        \/ /\ at[k] \in {"game", "started", "playing"}
           /\ at'[k] \in {"noMedia", "started", "retro_unload_game"} \cup PlayingAt
    BY <1>2 DEF LoadGame, StartApp, Play, Begin, Shutdown, Ends, Go, TypeOK, PlayingAt
  <2>3. lifeOf(k)' = lifeOf(k) /\ givenTo(k)' = givenTo(k)
    BY <2>2, Views DEF View, Callbacks, PlayingAt, Played
  <2>4. inOf(k)' = inOf(k)
    BY <1>0, <2>1 DEF inOf, Loads
  <2> QED
    BY <1>0, <2>3, <2>4, SameStage DEF Stays
<1> QED
  BY <1>1, <1>2

(* Where the load is that is at work.                                      *)
LEMMA Here ==
  ASSUME TypeOK, Whereabouts, NEW k \in Loads, k = core
  PROVE  /\ now = at[k] /\ running = playing[k]
         /\ now # "none"
         /\ now \in FunctionName => now \notin Rest \cup OwnStep \cup {"none"}
BY OwnPlaces DEF now, running, Whereabouts, NoGameYet, Setting, Callbacks, PreVideo, PostVideo,
                 PlayingAt, Played, Ended

(* A function is called at a stage that allows it, and a frame is asked for*)
(* when the callbacks are set and the context granted is there.            *)
LEMMA CallCalls ==
  ASSUME TypeOK, Parked, Whereabouts, Context, NEW k \in Loads, k = core, Call(k)
  PROVE  Promise(k)!Call \/ Stays(k)
<1>0. UNCHANGED <<core, at, keyboardCb, PixFmt, Rot, hw, ctx>>
  BY DEF Call, libVars, setVars, glVars
<1>1. CASE inside' = inside
  BY <1>0, <1>1, Steady
<1>2. CASE inside' # inside
  <2>1. /\ at[k] \in FunctionName /\ now = at[k] /\ now # "none"
        /\ now \notin Rest /\ now \notin OwnStep
    BY Here DEF Call
  <2>2. inside[k] = 0 /\ inside'[k] = k /\ k # 0
    <3>1. inside[k] = 0 /\ inside' = [inside EXCEPT ![k] = core]
      BY <1>2 DEF Call
    <3>2. inside \in [Loads0 -> Loads0] /\ k \in Loads0 /\ k # 0
      BY DEF TypeOK, Loads, Loads0
    <3> QED
      BY <3>1, <3>2
  <2>3. inOf(k) = "none" /\ inOf(k)' = now
    BY <1>0, <2>1, <2>2 DEF inOf
  <2>4. lifeOf(k)' = lifeOf(k) /\ givenTo(k)' = givenTo(k)
    BY <1>0 DEF lifeOf, givenTo
  <2>5. grantedTo(k)' = grantedTo(k) /\ contextOf(k)' = contextOf(k)
    BY <1>0, <2>4, SameStage
  <2>6. lifeOf(k) \in FunctionOf[now].needs
    <3>1. Row(FunctionOf[now]) /\ FunctionOf[now].name = now
      BY <2>1, FunctionRow
    <3>2. CASE now \in NoGameYet
      BY <2>1, <3>1, <3>2, Views DEF NoGameYet, Setting, Row, View, BeforeRun, Life, Rest
    <3>3. CASE PreVideo \/ PostVideo
      BY <2>1, <3>1, <3>3, Views
         DEF PreVideo, PostVideo, PlayingAt, Played, Ended, Row, View, InGame, Loaded, Rest, OwnStep
    <3> QED
      BY <2>1, <3>2, <3>3 DEF Whereabouts, Rest, OwnStep
  <2>7. now = "retro_run" => Promise(k)!CanRun
    <3> SUFFICES ASSUME now = "retro_run" PROVE Promise(k)!CanRun
      OBVIOUS
    <3>1. givenTo(k) = Callbacks /\ lifeOf(k) = "game"
      BY <2>1, Views DEF View, Callbacks, PlayingAt, Played
    <3>2. PostVideo
      BY DEF Whereabouts, PreVideo, PostVideo, NoGameYet, Setting, Callbacks, PlayingAt, Played
    <3>3. ASSUME "SET_HW_RENDER" \in grantedTo(k) PROVE contextOf(k) = "live"
      <4>1. hw.of = k
        BY <3>1, <3>3 DEF grantedTo, Held
      <4>2. gl /\ ctx.of = k /\ ctx.state = "live"
        BY <2>1, <3>2, <4>1 DEF Context, Rest
      <4> QED
        BY <3>1, <4>2 DEF contextOf
    <3>4. Promise(k)!Callbacks = Callbacks
      BY SameNames
    <3> QED
      BY <3>1, <3>3, <3>4 DEF Promise!CanRun
  <2>8. Promise(k)!FunctionName = FunctionName /\ Promise(k)!FunctionOf = FunctionOf
    BY SameFunctions
  <2> QED
    BY <2>1, <2>3, <2>4, <2>5, <2>6, <2>7, <2>8 DEF Promise!Call
<1> QED
  BY <1>1, <1>2

(* Each callback a core has been given is one more before the next.        *)
LEMMA CallbacksAreGiven ==
  ASSUME TypeOK, NEW k \in Loads, k \in Loads0, NEW ok \in BOOLEAN, Return(k, ok),
         at[k] \in Callbacks
  PROVE  givenTo(k)' = givenTo(k) \cup {at[k]}
<1>1. givenTo(k) = Callbacks \cap SetBefore(at[k]) /\ at'[k] = Follow[at[k]]
  <2>1. at'[k] = After(k, ok) /\ After(k, ok) = Follow[at[k]]
    BY AfterTable DEF Return, Go, TypeOK
  <2> QED
    BY <2>1, Views DEF View
<1>2. CASE at[k] = "retro_set_audio_sample_batch"
  <2>1. at'[k] = "retro_init"
    BY <1>1, <1>2 DEF Follow
  <2> QED
    BY <1>1, <1>2, <2>1, SettingTable, Views DEF View, Callbacks
<1>3. CASE at[k] # "retro_set_audio_sample_batch"
  <2>1. /\ at[k] = "retro_set_input_state" => at'[k] = "retro_set_video_refresh"
        /\ at[k] = "retro_set_video_refresh" => at'[k] = "retro_set_input_poll"
        /\ at[k] = "retro_set_input_poll" => at'[k] = "retro_set_audio_sample"
        /\ at[k] = "retro_set_audio_sample" => at'[k] = "retro_set_audio_sample_batch"
    BY <1>1 DEF Follow
  <2>2. givenTo(k)' = Callbacks \cap SetBefore(at'[k])
    BY <1>3, <2>1, Views DEF View, Callbacks
  <2> QED
    BY <1>1, <1>3, <2>1, <2>2, SettingTable DEF Callbacks
<1> QED
  BY <1>2, <1>3

(* What the promise says of the stage a function leads to.                 *)
Leads(k, ok) ==
  IF FunctionOf[at[k]].to = "same" \/ (at[k] \in Loading /\ ~ok) THEN lifeOf(k)
                                                               ELSE FunctionOf[at[k]].to

LEMMA Advances ==
  ASSUME TypeOK, Parked, Whereabouts, Context, NEW k \in Loads, k = core, k \in Loads0,
         NEW ok \in BOOLEAN, Return(k, ok)
  PROVE  /\ lifeOf(k)' = Leads(k, ok) /\ at'[k] # "closed"
         /\ givenTo(k)' = givenTo(k) \cup ({at[k]} \cap Callbacks)
<1>1. /\ now \in FunctionName /\ now = at[k] /\ running = playing[k]
      /\ now \notin Rest /\ now \notin OwnStep
  BY Here DEF Return, TypeOK
<1>2. at'[k] = After(k, ok)
  BY DEF Return, Go, TypeOK
<1>3. FunctionOf[at[k]].name = at[k] /\ Row(FunctionOf[at[k]])
  BY <1>1, FunctionRow
<1>4. CASE at[k] \in Callbacks
  <2>1. givenTo(k)' = givenTo(k) \cup {at[k]} /\ at'[k] \in Callbacks \cup {"retro_init"}
    BY <1>2, <1>4, AfterTable, CallbacksAreGiven
  <2>2. lifeOf(k)' = "environment" /\ lifeOf(k) = "environment"
    BY <1>4, <2>1, Views DEF View
  <2> QED
    BY <1>3, <1>4, <2>1, <2>2 DEF Leads, Row, Callbacks
<1>5. CASE at[k] = "retro_set_environment"
  <2>1. at'[k] = "retro_set_input_state"
    BY <1>2, <1>5, AfterTable
  <2> QED
    BY <1>3, <1>5, <2>1, Views, SettingTable DEF View, Leads, Row, Callbacks, Loading
<1>6. CASE at[k] \in {"retro_init", "retro_api_version", "retro_get_system_info",
                      "retro_load_game"}
  <2>0. /\ at[k] = "retro_init" => at'[k] = "retro_api_version"
        /\ at[k] = "retro_api_version" => at'[k] = "retro_get_system_info"
        /\ at[k] = "retro_get_system_info" => at'[k] = "core"
        /\ at[k] = "retro_load_game" =>
             at'[k] = IF ok THEN "retro_get_system_av_info" ELSE "noGame"
    BY <1>2, AfterTable
  <2>1. givenTo(k)' = Callbacks /\ givenTo(k) = Callbacks /\ at'[k] # "closed"
    BY <1>6, <2>0, Views DEF View, Callbacks
  <2>2. lifeOf(k)' = Leads(k, ok)
    BY <1>3, <1>6, <2>0, Views DEF View, Leads, Row, Loading
  <2> QED
    BY <1>6, <2>1, <2>2 DEF Callbacks
<1>7. CASE PreVideo
  <2>1. at[k] \in {"retro_get_system_av_info", "retro_serialize_size"} /\ ~playing[k]
    BY <1>1, <1>7 DEF PreVideo, OwnStep, Whereabouts, PlayingAt, Played
  <2>2. at'[k] \in {"retro_serialize_size", "initVideo", "retro_set_controller_port_device"}
    BY <1>2, <2>1, AfterTable DEF AfterSerializeSize
  <2>3. /\ givenTo(k)' = Callbacks /\ givenTo(k) = Callbacks
        /\ lifeOf(k)' = "game" /\ lifeOf(k) = "game"
    BY <2>1, <2>2, Views DEF View, Callbacks, PlayingAt, Played
  <2> QED
    BY <1>3, <2>1, <2>2, <2>3 DEF Leads, Row, InGame, Loading
<1>8. CASE PostVideo
  <2>1. CASE at[k] \in {"retro_set_controller_port_device", "retro_unload_game", "retro_deinit"}
    <3>1. /\ at[k] = "retro_set_controller_port_device" => at'[k] = "game"
          /\ at[k] = "retro_unload_game" => at'[k] = "retro_deinit"
          /\ at[k] = "retro_deinit" => at'[k] \in {"deinitVideo", "closeLib"}
      BY <1>2, AfterTable
    <3> QED
      BY <1>3, <2>1, <3>1, Views DEF View, Callbacks, Leads, Row, Loading
  <2>2. CASE at[k] \in PlayingAt /\ playing[k]
    <3>1. at'[k] \in {"playing", "retro_serialize", "retro_get_memory_size"}
      <4>1. CASE at[k] \in {"retro_serialize_size", "retro_get_memory_data"}
        BY <1>2, <2>2, <4>1, AfterTable DEF AfterSerializeSize
      <4>2. CASE at[k] \notin {"retro_serialize_size", "retro_get_memory_data"}
        BY <1>1, <1>2, <2>2, <4>2, AfterTable, FollowTable DEF PlayingAt, Played, Rest, Callbacks
      <4> QED
        BY <4>1, <4>2
    <3>2. /\ givenTo(k)' = Callbacks /\ givenTo(k) = Callbacks
          /\ lifeOf(k)' = "game" /\ lifeOf(k) = "game"
      BY <2>2, <3>1, Views DEF View, Callbacks, PlayingAt, Played
    <3>3. FunctionOf[at[k]].to = "same"
      BY <1>1, <1>3, <2>2 DEF Row, InGame, PlayingAt, Played, Rest
    <3> QED
      BY <3>1, <3>2, <3>3 DEF Leads
  <2> QED
    BY <1>1, <1>8, <2>1, <2>2 DEF PostVideo, Ended, Rest, OwnStep
<1> QED
  BY <1>1, <1>4, <1>5, <1>6, <1>7, <1>8 DEF Whereabouts, NoGameYet, Setting, Rest, OwnStep

LEMMA ReturnReturns ==
  ASSUME TypeOK, Parked, Whereabouts, Context, NEW k \in Loads, k = core, k \in Loads0,
         NEW ok \in BOOLEAN, Return(k, ok)
  PROVE  Promise(k)!Return(ok)
<1>1. at[k] \in FunctionName /\ at[k] # "none" /\ at[k] # "closed"
  BY Here DEF Return, TypeOK, Rest
<1>2. inOf(k) = at[k] /\ inOf(k)' = "none"
  BY <1>1 DEF Return, TypeOK, Parked, inOf, Loads
<1>3. UNCHANGED <<keyboardCb, PixFmt, Rot, hw, ctx>>
  BY DEF Return, setVars, glVars
<1>4. /\ lifeOf(k)' = Leads(k, ok)
      /\ givenTo(k)' = givenTo(k) \cup ({at[k]} \cap Callbacks)
      /\ lifeOf(k) # "closed" /\ lifeOf(k)' # "closed"
  BY <1>1, Advances, Views DEF View
<1>5. grantedTo(k)' = grantedTo(k) /\ contextOf(k)' = contextOf(k)
  BY <1>3, <1>4 DEF grantedTo, contextOf, Held
<1>6. /\ Promise(k)!Callbacks = Callbacks /\ Promise(k)!Loading = Loading
      /\ Promise(k)!FunctionOf = FunctionOf
  BY SameNames, SameFunctions
<1> QED
  BY <1>1, <1>2, <1>4, <1>5, <1>6 DEF Promise!Return, Leads

(* What a command leaves with the frontend is granted, and what was granted*)
(* before stays so.                                                        *)
LEMMA EnvironmentGrants ==
  ASSUME TypeOK, Parked, Whereabouts, NEW k \in Loads, k = core,
         NEW cmd \in CommandName, Environment(k, cmd)
  PROVE  Promise(k)!Environment
<1>1. /\ at[k] \in FunctionName /\ inside[k] = k /\ cmd \in CommandsIn[at[k]]
      /\ UNCHANGED <<at, inside, ctx>>
  BY DEF Environment, TypeOK, Parked, Loads, Loads0, glVars
<1>2. at[k] # "closed" /\ at[k] # "none" /\ lifeOf(k) # "closed"
  BY <1>1, Here, Views DEF View, Rest
<1>3. lifeOf(k)' = lifeOf(k)
  BY <1>1 DEF lifeOf
<1>4. UNCHANGED <<inOf(k), givenTo(k), contextOf(k)>> /\ inOf(k) = at[k]
  BY <1>1, <1>3 DEF inOf, givenTo, contextOf
<1>5. cmd \in Binding /\ grantedTo(k)' = grantedTo(k) \cup {cmd}
  <2>1. /\ grantedTo(k) =
             UNION {Held(k, keyboardCb, "SET_KEYBOARD_CALLBACK"), Held(k, Rot, "SET_ROTATION"),
                    Held(k, hw.of, "SET_HW_RENDER"), Held(k, PixFmt.of, "SET_PIXEL_FORMAT")}
        /\ grantedTo(k)' =
             UNION {Held(k, keyboardCb', "SET_KEYBOARD_CALLBACK"), Held(k, Rot', "SET_ROTATION"),
                    Held(k, hw'.of, "SET_HW_RENDER"), Held(k, PixFmt'.of, "SET_PIXEL_FORMAT")}
    BY <1>2, <1>3 DEF grantedTo, Held
  <2>2. CASE cmd = "SET_KEYBOARD_CALLBACK" /\ SetKeyboard(k)
    <3>1. keyboardCb' = k /\ UNCHANGED <<Rot, hw, PixFmt>>
      BY <2>2 DEF SetKeyboard
    <3> QED
      BY <2>1, <2>2, <3>1, Bound DEF Held
  <2>3. CASE cmd = "SET_ROTATION" /\ SetRotation(k)
    <3>1. Rot' = k /\ UNCHANGED <<keyboardCb, hw, PixFmt>>
      BY <2>3 DEF SetRotation
    <3> QED
      BY <2>1, <2>3, <3>1, Bound DEF Held
  <2>4. CASE cmd = "SET_HW_RENDER" /\ SetHwRender(k)
    <3>1. hw'.of = k /\ UNCHANGED <<keyboardCb, Rot, PixFmt>>
      BY <2>4 DEF SetHwRender
    <3> QED
      BY <2>1, <2>4, <3>1, Bound DEF Held
  <2>5. CASE cmd = "SET_PIXEL_FORMAT" /\ SetPixelFormat(k)
    <3>1. PixFmt'.of = k /\ UNCHANGED <<keyboardCb, Rot, hw>>
      BY <2>5 DEF SetPixelFormat
    <3> QED
      BY <2>1, <2>5, <3>1, Bound DEF Held
  <2> QED
    BY <1>1, <2>2, <2>3, <2>4, <2>5 DEF Environment
<1>6. Promise(k)!CommandsIn = CommandsIn /\ Promise(k)!Binding = Binding
  BY SameCommands
<1> QED
  BY <1>1, <1>2, <1>3, <1>4, <1>5, <1>6 DEF Promise!Environment

(* The context is created, reset and destroyed, and the library closed.    *)
LEMMA VideoImplements ==
  ASSUME TypeOK, Parked, Whereabouts, Context, NEW k \in Loads, k = core, k \in Loads0,
         initVideo(k) \/ context_reset(k) \/ deinitVideo(k) \/ closeLib(k)
  PROVE  \/ Promise(k)!ContextCreate \/ Promise(k)!ContextReset \/ Promise(k)!ContextDestroy
         \/ Promise(k)!Close \/ Stays(k)
<1>0. /\ UNCHANGED <<inside, keyboardCb, PixFmt, hw>> /\ now = at[k]
      /\ inOf(k) = "none" /\ inOf(k)' = "none"
  <2>1. UNCHANGED <<inside, keyboardCb, PixFmt, hw>> /\ at[k] \in OwnStep /\ now = at[k]
    BY Here DEF initVideo, context_reset, deinitVideo, closeLib, OwnStep, setVars
  <2>2. inside[k] = 0
    BY <2>1, OwnPlaces DEF TypeOK
  <2> QED
    BY <2>1, <2>2 DEF inOf, Loads
<1>1. CASE at' = at /\ ~closeLib(k)
  <2>1. UNCHANGED <<Rot, ctx>>
    BY <1>1 DEF initVideo, context_reset, deinitVideo, Fails, Go, TypeOK, setVars, glVars
  <2> QED
    BY <1>0, <1>1, <2>1, Steady
<1>2. CASE initVideo(k) /\ at' # at
  <2>1. /\ now = "initVideo" /\ at'[k] = "context_reset" /\ UNCHANGED Rot
        /\ ctx' = [of |-> hw.of, state |-> "created"]
    BY <1>0, <1>2 DEF initVideo, Fails, Go, TypeOK, setVars
  <2>2. /\ lifeOf(k) = "game" /\ lifeOf(k)' = "game"
        /\ givenTo(k) = Callbacks /\ givenTo(k)' = Callbacks
    BY <1>0, <2>1, Views DEF View, Callbacks
  <2>3. contextOf(k) = "none" /\ contextOf(k)' = IF hw.of = k THEN "created" ELSE "none"
    BY <2>1, <2>2 DEF contextOf, Context, PreVideo
  <2>4. grantedTo(k)' = grantedTo(k) /\ (hw.of = k => "SET_HW_RENDER" \in grantedTo(k))
    BY <1>0, <2>1, <2>2 DEF grantedTo, Held
  <2>5. CASE hw.of = k
    BY <1>0, <2>2, <2>3, <2>4, <2>5 DEF Promise!ContextCreate
  <2>6. CASE hw.of # k
    BY <1>0, <2>2, <2>3, <2>4, <2>6 DEF Stays
  <2> QED
    BY <2>5, <2>6
<1>3. CASE context_reset(k) /\ at' # at
  <2>1. /\ now = "context_reset" /\ at'[k] = "retro_set_controller_port_device"
        /\ ctx' = [ctx EXCEPT !.state = "live"] /\ UNCHANGED Rot
    BY <1>0, <1>3 DEF context_reset, Fails, Go, TypeOK, setVars
  <2>2. ctx.state = "created" /\ ctx'.of = ctx.of /\ ctx'.state = "live"
    BY <2>1 DEF Context, PostVideo, TypeOK
  <2>3. /\ lifeOf(k) = "game" /\ lifeOf(k)' = "game"
        /\ givenTo(k) = Callbacks /\ givenTo(k)' = Callbacks
    BY <1>0, <2>1, Views DEF View, Callbacks
  <2>4. /\ contextOf(k) = IF ctx.of = k THEN "created" ELSE "none"
        /\ contextOf(k)' = IF ctx.of = k THEN "live" ELSE "none"
        /\ grantedTo(k)' = grantedTo(k)
    BY <1>0, <2>1, <2>2, <2>3 DEF contextOf, grantedTo, Held
  <2>5. CASE ctx.of = k
    BY <1>0, <2>3, <2>4, <2>5 DEF Promise!ContextReset
  <2>6. CASE ctx.of # k
    BY <1>0, <2>3, <2>4, <2>6 DEF Stays
  <2> QED
    BY <2>5, <2>6
<1>4. CASE deinitVideo(k) /\ at' # at
  <2>1. /\ now = "deinitVideo" /\ at'[k] = "closeLib" /\ UNCHANGED Rot
        /\ ctx' = [ctx EXCEPT !.state = "destroyed"]
    BY <1>0, <1>4 DEF deinitVideo, Fails, Go, TypeOK, setVars
  <2>2. ctx.state = "live" /\ ctx'.of = ctx.of /\ ctx'.state = "destroyed"
    BY <2>1 DEF Context, PostVideo, Ended, TypeOK
  <2>3. /\ lifeOf(k) = "deinited" /\ lifeOf(k)' = "deinited"
        /\ givenTo(k) = Callbacks /\ givenTo(k)' = Callbacks
    BY <1>0, <2>1, Views DEF View, Callbacks
  <2>4. /\ contextOf(k) = IF ctx.of = k THEN "live" ELSE "none"
        /\ contextOf(k)' = IF ctx.of = k THEN "destroyed" ELSE "none"
        /\ grantedTo(k)' = grantedTo(k)
    BY <1>0, <2>1, <2>2, <2>3 DEF contextOf, grantedTo, Held
  <2>5. CASE ctx.of = k
    BY <1>0, <2>3, <2>4, <2>5 DEF Promise!ContextDestroy
  <2>6. CASE ctx.of # k
    BY <1>0, <2>3, <2>4, <2>6 DEF Stays
  <2> QED
    BY <2>5, <2>6
<1>5. CASE closeLib(k)
  <2>1. now = "closeLib" /\ at'[k] = "closed"
    BY <1>0, <1>5 DEF closeLib, Go, TypeOK
  <2>2. lifeOf(k) = "deinited" /\ lifeOf(k)' = "closed" /\ givenTo(k)' = {}
    BY <1>0, <2>1, Views DEF View
  <2>3. contextOf(k) \in {"none", "destroyed"}
    BY <2>1 DEF contextOf, Context
  <2>4. grantedTo(k)' = {} /\ contextOf(k)' = "none"
    BY <2>2 DEF grantedTo, contextOf
  <2> QED
    BY <1>0, <2>2, <2>3, <2>4 DEF Promise!Close
<1> QED
  BY <1>1, <1>2, <1>3, <1>4, <1>5

(* A step of the next-state relation, to a load that is alone after it.    *)
LEMMA NextImplements ==
  ASSUME IInv, Next, NEW k \in Loads, Alone(k)'
  PROVE  Promise(k)!Next \/ Stays(k)
<1>1. fault = "none" /\ ~overlapped' /\ core' <= k /\ IInv'
  BY CoreLoadStep, StepKeeps, KeyStep DEF Next, Alone
<1>2. k \in Loads0 /\ Parked' /\ core' \in Nat /\ k \in Nat
  BY <1>1 DEF IInv, TypeOK, Loads, Loads0
<1>3. ASSUME NEW meta \in Meta, CoreLoad(meta)
      PROVE  Promise(k)!Next \/ Stays(k)
  <2>1. ~overlapped /\ core' = core + 1 /\ core \in Nat
    BY <1>1, <1>3 DEF CoreLoad, IInv, TypeOK, Loads0
  <2>2. TypeOK /\ Parked /\ Whereabouts
    BY <2>1 DEF IInv
  <2>3. CASE k = core'
    BY <1>3, <2>2, <2>3, CoreLoadOpens DEF Promise!Next
  <2>4. CASE k > core'
    <3>1. k > core
      BY <1>2, <2>1, <2>4
    <3> QED
      BY <1>2, <2>2, <2>4, <3>1, UnloadedStays DEF Parked
  <2> QED
    BY <1>1, <1>2, <2>3, <2>4
<1>4. ASSUME NEW j \in Loads, Step(j)
      PROVE  Promise(k)!Next \/ Stays(k)
  <2>1. UNCHANGED <<core, overlapped>> /\ TypeOK /\ Parked /\ Whereabouts /\ Context
    BY <1>1, <1>4, TypesOfPointers DEF IInv
  <2>2. j = core
    BY <1>4, <2>1, Stepping
  <2>3. CASE k = core
    <3>1. Step(k)
      BY <1>4, <2>2, <2>3
    <3>2. CASE \E ok \in BOOLEAN : Return(k, ok)
      BY <1>2, <2>1, <2>3, <3>2, ReturnReturns DEF Promise!Next
    <3>3. CASE \E cmd \in CommandName : Environment(k, cmd)
      BY <2>1, <2>3, <3>3, EnvironmentGrants DEF Promise!Next
    <3>4. CASE Call(k)
      BY <2>1, <2>3, <3>4, CallCalls DEF Promise!Next
    <3>5. CASE initVideo(k) \/ context_reset(k) \/ deinitVideo(k) \/ closeLib(k)
      BY <1>2, <2>1, <2>3, <3>5, VideoImplements DEF Promise!Next
    <3> QED
      BY <1>2, <2>1, <3>1, <3>2, <3>3, <3>4, <3>5, FrontendStays DEF Step
  <2>4. CASE k > core
    BY <1>2, <2>1, <2>4, UnloadedStays DEF Parked
  <2> QED
    BY <1>1, <1>2, <2>1, <2>3, <2>4
<1>5. CASE InputKeyboard \/ keyboard_callback
  BY <1>5, Steady DEF InputKeyboard, keyboard_callback, setVars, glVars
<1> QED
  BY <1>3, <1>4, <1>5 DEF Next

(* The frontend calls a core, however many were loaded before it and       *)
(* whatever became of them, in the order libretro.h promises: it is opened,*)
(* set up, given a game and left in this order, has its callbacks and its  *)
(* context when a frame is asked for, and keeps what it was granted, until *)
(* the next is loaded.                                                     *)
THEOREM CoresLiveAsPromised == Spec => ImplementsLibretro
<1>1. Init => \A k \in Loads : Promise(k)!Init
  BY InitIsInit
<1>2. IInv /\ [Next]_vars =>
        [\A k \in Loads : Alone(k)' => [Promise(k)!Next]_(Promise(k)!vars)]_vars
  <2> SUFFICES ASSUME IInv, Next, NEW k \in Loads, Alone(k)'
               PROVE  [Promise(k)!Next]_(Promise(k)!vars)
    OBVIOUS
  <2>1. Promise(k)!Next \/ Stays(k)
    BY NextImplements
  <2> QED
    BY <2>1 DEF Stays, Promise!vars
<1> QED
  BY <1>1, <1>2, Invariant, PTL DEF Spec, ImplementsLibretro
=============================================================================
