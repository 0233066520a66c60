----------------------------- MODULE Nanoarch -----------------------------
(***************************************************************************)
(* The frontend's side of libretro: the order in which nanoarch.go calls   *)
(* the functions of a core, what nanoarch.c and coreEnvironment answer it, *)
(* and the pointers into the core that are kept in the global Nan0.        *)
(*                                                                         *)
(* A game's goroutines load its core and the game, play, and shut it down. *)
(* Each load has a number and is at a place of its own; the pointers to a  *)
(* core, the context and what else is kept belong to the process, and every*)
(* goroutine acts through those of the latest load.  The next core may be  *)
(* loaded once the reservation is given back (module Emulator): over one   *)
(* that was never closed, its game or its encoders having failed, or while *)
(* the game before is still in its Shutdown or has yet to begin.           *)
(*                                                                         *)
(* The calls of one game's goroutines are serialised by the mutex of its   *)
(* frontend (module Emulator); keyboard events come from the data channels *)
(* at any time.  What happens inside Run before the core is called is      *)
(* module InputCache, and the thread it is called on CoreThread.  The      *)
(* assignments of CoreLoad are one step.                                   *)
(***************************************************************************)
EXTENDS Libretro

CONSTANTS MaxLoads,  \* bound: the loads of a core
          Meta,      \* what the configuration says of the cores
          Api,       \* the drawing interfaces and the formats of a frame
          Format     \* the cores ask for

ASSUME LoadsAssumption == MaxLoads \in Nat
ASSUME MetaAssumption ==
  Meta \subseteq [IsGlAllowed : BOOLEAN, AutoGlContext : BOOLEAN, skip : BOOLEAN]
ASSUME ApiAssumption == Api \subseteq retro_hw_context_type /\ Format \subseteq retro_pixel_format

VARIABLES
  core,        \* the load of the core in coreLib and in the retro* pointers
  image,       \* for each load, the one that mapped its library: a library
               \* that is mapped already is not mapped again
  open,        \* the loads whose library was not closed
  at,          \* what is being done for each load or, between operations,
               \* where it rests
  inside,      \* the load whose function it is inside of, or 0
  playing,     \* its frames are run
  free,        \* Nanoarch.reserved holds its token
  Stopped,     \* Nanoarch.Stopped
  keyboardCb,  \* Nan0.keyboardCb: the load whose memory it points into
  hw,          \* Nan0.Video.hw: likewise, and what is there
  PixFmt,      \* Nan0.Video.PixFmt, and the load that has set it
  Rot,         \* the load that has set Nan0.Rot, if it was not reset
  gl,          \* Nan0.Video.gl.enabled
  autoCtx,     \* Nan0.Video.gl.autoCtx
  skip,        \* Nan0.hackSkipHwContextDestroy
  ctx,         \* the context in Nan0.sdlCtx and the load whose record it was
               \* made from
  kb,          \* a keyboard event has passed the test of keyboardCb
  fault,       \* what a call went wrong with, or "none"
  overlapped   \* history: a core was loaded while another was in use

libVars == <<core, image, open, overlapped>>
playVars == <<playing, free, Stopped>>
setVars == <<keyboardCb, PixFmt, Rot, hw>>
glVars == <<gl, autoCtx, skip, ctx>>
vars == <<libVars, at, inside, playVars, setVars, glVars, kb, fault>>

Loads == 1..MaxLoads
Loads0 == 0..MaxLoads    \* 0 is no core

Fault == {"library", "hw", "api", "destroy", "keyboard"}

(* Where a core rests, what is done without it, and its Shutdown.          *)
Rest == {"closed", "core", "noGame", "game", "noMedia", "started", "playing"}
OwnStep == {"initVideo", "context_reset", "deinitVideo", "closeLib"}
Ending == {"retro_unload_game", "retro_deinit", "deinitVideo", "closeLib"}

(* Nothing is done with the core any more.                                 *)
Left == {"closed", "noGame", "noMedia"}

(* The memory of the library of a load is there.                           *)
Mapped(k) == \E j \in open : image[j] = image[k]

Go(k, place) == at' = [at EXCEPT ![k] = place]

(* What is called next, where there is no choice: the ends of CoreLoad,    *)
(* LoadGame and Shutdown.                                                  *)
Follow ==
  [ retro_set_environment            |-> "retro_set_input_state",
    retro_set_input_state            |-> "retro_set_video_refresh",
    retro_set_video_refresh          |-> "retro_set_input_poll",
    retro_set_input_poll             |-> "retro_set_audio_sample",
    retro_set_audio_sample           |-> "retro_set_audio_sample_batch",
    retro_set_audio_sample_batch     |-> "retro_init",
    retro_init                       |-> "retro_api_version",
    retro_api_version                |-> "retro_get_system_info",
    retro_get_system_info            |-> "core",
    retro_get_system_av_info         |-> "retro_serialize_size",
    retro_set_controller_port_device |-> "game",
    retro_get_memory_data            |-> "retro_get_memory_size",
    retro_unload_game                |-> "retro_deinit" ]

(* What a running game is asked for: a frame, a reset, a saved state (its  *)
(* size first) or one to go on from, the memory of the cartridge.          *)
Played == {"retro_run", "retro_reset", "retro_serialize_size", "retro_unserialize",
           "retro_get_memory_data"}

-----------------------------------------------------------------------------
(* CoreLoad, once NewFrontend has the reservation: the flags of the        *)
(* configuration, the callback of the core before is forgotten, and the    *)
(* library is opened, which may be one that is mapped still.               *)
CoreLoad(meta) ==
  /\ free /\ core < MaxLoads
  /\ core' = core + 1 /\ open' = open \cup {core + 1}
  /\ \E m \in {core + 1} \cup {image[j] : j \in open} : image' = [image EXCEPT ![core + 1] = m]
  /\ Go(core + 1, "retro_set_environment")
  /\ overlapped' = (overlapped \/ at[core] \notin Left)
  /\ free' = FALSE
  /\ gl' = meta.IsGlAllowed /\ autoCtx' = meta.AutoGlContext /\ skip' = meta.skip
  /\ keyboardCb' = 0
  /\ UNCHANGED <<inside, playing, Stopped, PixFmt, Rot, hw, ctx, kb, fault>>

(* LoadGame: the file may not be there.                                    *)
LoadGame(k, found) ==
  /\ at[k] = "core"
  /\ Go(k, IF found THEN "retro_load_game" ELSE "noGame")
  /\ UNCHANGED <<libVars, inside, playVars, setVars, glVars, kb, fault>>

(* The room starts the game if the encoders start.                         *)
StartApp(k, ok) ==
  /\ at[k] = "game"
  /\ Go(k, IF ok THEN "started" ELSE "noMedia")
  /\ UNCHANGED <<libVars, inside, playVars, setVars, glVars, kb, fault>>

(* Start goes on to the frames; it has looked at Stopped before, and the   *)
(* room may have been closed since.                                        *)
Begin(k) ==
  /\ at[k] = "started"
  /\ Go(k, "playing") /\ playing' = [playing EXCEPT ![k] = TRUE]
  /\ UNCHANGED <<libVars, inside, free, Stopped, setVars, glVars, kb, fault>>

(* Run, Reset, SaveState, RestoreSaveState, SaveRAM and RestoreSaveRAM.    *)
Play(k, f) ==
  /\ at[k] = "playing"
  /\ Go(k, f)
  /\ UNCHANGED <<libVars, inside, playVars, setVars, glVars, kb, fault>>

(* The room is closed: at once if its game or its encoders have failed or  *)
(* Start has not begun, and otherwise when Start has left the frames.      *)
Close(k) ==
  /\ k = core /\ ~free /\ at[k] \in Left \cup Ending \cup {"started"}
  /\ free' = TRUE /\ Stopped' = TRUE
  /\ UNCHANGED <<libVars, at, inside, playing, setVars, glVars, kb, fault>>

(* Start comes to its Shutdown: it was told to stop, by a Close that waits *)
(* for it with the reservation, or finds Stopped set.                      *)
Ends(k) ==
  \/ at[k] = "playing" /\ k = core /\ ~free
  \/ at[k] = "started" /\ Stopped

(* Mutant: the game is not unloaded.                                       *)
ShutdownInGame(k) ==
  /\ Ends(k)
  /\ Go(k, "retro_deinit") /\ playing' = [playing EXCEPT ![k] = FALSE]
  /\ UNCHANGED <<libVars, inside, free, Stopped, setVars, glVars, kb, fault>>

Shutdown(k) ==
  /\ Ends(k)
  /\ Go(k, "retro_unload_game") /\ playing' = [playing EXCEPT ![k] = FALSE]
  /\ UNCHANGED <<libVars, inside, free, Stopped, setVars, glVars, kb, fault>>

-----------------------------------------------------------------------------
(* Mutant: whatever is at hand is called.                                  *)
CallAnything(k) ==
  /\ inside[k] = 0 /\ Mapped(core)
  /\ inside' = [inside EXCEPT ![k] = core]
  /\ UNCHANGED <<libVars, at, playVars, setVars, glVars, kb, fault>>

(* A function of the core the pointers are to, from its call by a bridge   *)
(* function of nanoarch.c until it returns.                                *)
Call(k) ==
  /\ at[k] \in FunctionName /\ inside[k] = 0
  /\ \/ Mapped(core) /\ inside' = [inside EXCEPT ![k] = core] /\ UNCHANGED fault
     \/ ~Mapped(core) /\ fault' = "library" /\ UNCHANGED inside
  /\ UNCHANGED <<libVars, at, playVars, setVars, glVars, kb>>

AfterLoadGame == [ok \in BOOLEAN |-> IF ok THEN "retro_get_system_av_info" ELSE "noGame"]

(* What follows on the size of a state: its saving, or in LoadGame the     *)
(* context of a core that draws with OpenGL.                               *)
AfterSerializeSize(k) ==
  IF playing[k] THEN "retro_serialize"
  ELSE IF gl THEN "initVideo" ELSE "retro_set_controller_port_device"

After(k, ok) ==
  CASE at[k] \in DOMAIN Follow -> Follow[at[k]]
    [] at[k] = "retro_load_game" -> AfterLoadGame[ok]
    [] at[k] = "retro_serialize_size" -> AfterSerializeSize(k)
    [] at[k] = "retro_deinit" -> IF gl THEN "deinitVideo" ELSE "closeLib"
    [] OTHER -> "playing"

(* A game that is loaded clears Stopped.                                   *)
Return(k, ok) ==
  /\ inside[k] # 0 /\ inside' = [inside EXCEPT ![k] = 0]
  /\ Go(k, After(k, ok))
  /\ Stopped' = (Stopped /\ ~(at[k] = "retro_serialize_size" /\ ~playing[k]))
  /\ fault' = IF Mapped(inside[k]) THEN fault ELSE "library"
  /\ UNCHANGED <<libVars, playing, free, setVars, glVars, kb>>

-----------------------------------------------------------------------------
(* The environment                                                         *)

(* The core c sets what the frontend keeps of it.  Any interface is        *)
(* granted, if the configuration allows OpenGL at all.                     *)
SetKeyboard(c) ==
  /\ keyboardCb' = c
  /\ UNCHANGED <<hw, PixFmt, Rot>>

SetHwRender(c) ==
  /\ gl
  /\ \E api \in Api, destroy \in BOOLEAN : hw' = [of |-> c, api |-> api, destroy |-> destroy]
  /\ UNCHANGED <<keyboardCb, PixFmt, Rot>>

SetPixelFormat(c) ==
  /\ \E fmt \in Format : PixFmt' = [of |-> c, fmt |-> fmt]
  /\ UNCHANGED <<keyboardCb, hw, Rot>>

SetRotation(c) ==
  /\ Rot' = c
  /\ UNCHANGED <<keyboardCb, hw, PixFmt>>

(* core_environment_cgo and coreEnvironment: a command that the core may   *)
(* call in the function it is in, answered TRUE.  The others that are      *)
(* answered TRUE ask for something, or have an effect left out here: the   *)
(* geometry, whose timer applies it, and what is only logged.  An answer of*)
(* FALSE changes nothing.                                                  *)
Environment(k, cmd) ==
  /\ inside[k] # 0 /\ Mapped(inside[k]) /\ cmd \in CommandsIn[at[k]]
  /\ \/ cmd = "SET_KEYBOARD_CALLBACK" /\ SetKeyboard(inside[k])
     \/ cmd = "SET_HW_RENDER" /\ SetHwRender(inside[k])
     \/ cmd = "SET_PIXEL_FORMAT" /\ SetPixelFormat(inside[k])
     \/ cmd = "SET_ROTATION" /\ SetRotation(inside[k])
  /\ UNCHANGED <<libVars, at, inside, playVars, glVars, kb, fault>>

-----------------------------------------------------------------------------
(* The context of OpenGL                                                   *)

Fails(f) == fault' = f /\ UNCHANGED <<at, glVars>>

(* NewSDLContext, setGLAttrs: the interfaces SDL is asked for by name; with*)
(* autoCtx it takes what it finds.                                         *)
Drawable == autoCtx \/ hw.api \in {"OPENGL", "OPENGLES2", "OPENGL_CORE"}

(* Mutant: a context that is there is kept.                                *)
initVideoOnce(k) ==
  /\ at[k] = "initVideo"
  /\ \/ ~Mapped(hw.of) /\ Fails("hw")
     \/ Mapped(hw.of) /\ ~Drawable /\ Fails("api")
     \/ /\ Mapped(hw.of) /\ Drawable
        /\ ctx' = IF ctx.state = "live" THEN ctx ELSE [of |-> hw.of, state |-> "created"]
        /\ Go(k, "context_reset")
        /\ UNCHANGED <<gl, autoCtx, skip, fault>>
  /\ UNCHANGED <<libVars, inside, playVars, setVars, kb>>

(* initVideo: the record in hw is read, whichever core has left it there,  *)
(* and SDL makes a context, unless it does not know the interface; the     *)
(* error is a panic.                                                       *)
initVideo(k) ==
  /\ at[k] = "initVideo"
  /\ \/ ~Mapped(hw.of) /\ Fails("hw")
     \/ Mapped(hw.of) /\ ~Drawable /\ Fails("api")
     \/ /\ Mapped(hw.of) /\ Drawable
        /\ ctx' = [of |-> hw.of, state |-> "created"]
        /\ Go(k, "context_reset")
        /\ UNCHANGED <<gl, autoCtx, skip, fault>>
  /\ UNCHANGED <<libVars, inside, playVars, setVars, kb>>

(* bridge_context_reset                                                    *)
context_reset(k) ==
  /\ at[k] = "context_reset"
  /\ \/ ~Mapped(hw.of) /\ Fails("hw")
     \/ /\ Mapped(hw.of)
        /\ ctx' = [ctx EXCEPT !.state = "live"]
        /\ Go(k, "retro_set_controller_port_device")
        /\ UNCHANGED <<gl, autoCtx, skip, fault>>
  /\ UNCHANGED <<libVars, inside, playVars, setVars, kb>>

(* deinitVideo, after retro_deinit: the core's context_destroy is called,  *)
(* unless a hack says not to, and the context goes.                        *)
deinitVideo(k) ==
  /\ at[k] = "deinitVideo"
  /\ \/ (ctx.state = "none" \/ ~(skip \/ Mapped(hw.of))) /\ Fails("hw")
     \/ ~skip /\ Mapped(hw.of) /\ ~hw.destroy /\ Fails("destroy")
     \/ /\ ctx.state # "none" /\ (skip \/ (Mapped(hw.of) /\ hw.destroy))
        /\ ctx' = [ctx EXCEPT !.state = "destroyed"]
        /\ gl' = FALSE /\ autoCtx' = FALSE /\ skip' = FALSE
        /\ Go(k, "closeLib") /\ UNCHANGED fault
  /\ UNCHANGED <<libVars, inside, playVars, setVars, kb>>

(* The end of Shutdown: the library in coreLib is closed.  What dlclose    *)
(* makes of a handle that was closed before is not defined.                *)
closeLib(k) ==
  /\ at[k] = "closeLib"
  /\ Rot' = 0
  /\ open' = open \ {core}
  /\ Go(k, "closed")
  /\ fault' \in {fault} \cup (IF core \in open THEN {} ELSE {"library"})
  /\ UNCHANGED <<core, image, overlapped, inside, playVars, keyboardCb, PixFmt, hw, glVars, kb>>

-----------------------------------------------------------------------------
(* InputKeyboard: the callback is looked at and, whatever has become of it *)
(* since, called.                                                          *)
InputKeyboard ==
  /\ ~kb /\ keyboardCb # 0
  /\ kb' = TRUE
  /\ UNCHANGED <<libVars, at, inside, playVars, setVars, glVars, fault>>

keyboard_callback ==
  /\ kb /\ kb' = FALSE
  /\ fault' = IF Mapped(keyboardCb) THEN fault ELSE "keyboard"
  /\ UNCHANGED <<libVars, at, inside, playVars, setVars, glVars>>

-----------------------------------------------------------------------------
Init ==
  /\ core = 0 /\ image = [k \in Loads0 |-> 0] /\ open = {} /\ overlapped = FALSE
  /\ at = [k \in Loads0 |-> "closed"] /\ inside = [k \in Loads0 |-> 0]
  /\ playing = [k \in Loads0 |-> FALSE] /\ free = TRUE /\ Stopped = FALSE
  /\ keyboardCb = 0
  /\ hw = [of |-> 0, api |-> "NONE", destroy |-> FALSE]
  /\ PixFmt = [of |-> 0, fmt |-> "0RGB1555"] /\ Rot = 0
  /\ gl = FALSE /\ autoCtx = FALSE /\ skip = FALSE
  /\ ctx = [of |-> 0, state |-> "none"]
  /\ kb = FALSE /\ fault = "none"

(* A step of the goroutines of a game.                                     *)
Step(k) ==
  \/ \E ok \in BOOLEAN : LoadGame(k, ok) \/ StartApp(k, ok) \/ Return(k, ok)
  \/ \E f \in Played : Play(k, f)
  \/ Begin(k) \/ Close(k) \/ Shutdown(k) \/ Call(k)
  \/ \E cmd \in CommandName : Environment(k, cmd)
  \/ initVideo(k) \/ context_reset(k) \/ deinitVideo(k) \/ closeLib(k)

(* A fault ends the process.                                               *)
Next ==
  /\ fault = "none"
  /\ \/ \E meta \in Meta : CoreLoad(meta)
     \/ \E k \in Loads : Step(k)
     \/ InputKeyboard \/ keyboard_callback

Spec == Init /\ [][Next]_vars

-----------------------------------------------------------------------------
(* Types of all variables.                                                 *)
TypeOK ==
  /\ core \in Loads0 /\ image \in [Loads0 -> Loads0] /\ open \in SUBSET Loads0
  /\ at \in [Loads0 -> Rest \cup OwnStep \cup FunctionName]
  /\ inside \in [Loads0 -> Loads0] /\ playing \in [Loads0 -> BOOLEAN]
  /\ \A k \in Loads0 : inside[k] # 0 => at[k] \in FunctionName
  /\ free \in BOOLEAN /\ Stopped \in BOOLEAN /\ kb \in BOOLEAN /\ overlapped \in BOOLEAN
  /\ keyboardCb \in Loads0 /\ Rot \in Loads0
  /\ hw \in [of : Loads0, api : Api \cup {"NONE"}, destroy : BOOLEAN]
  /\ PixFmt \in [of : Loads0, fmt : Format \cup {"0RGB1555"}]
  /\ gl \in BOOLEAN /\ autoCtx \in BOOLEAN /\ skip \in BOOLEAN
  /\ ctx \in [of : Loads0, state : {"none", "created", "live", "destroyed"}]
  /\ fault \in Fault \cup {"none"}

(* A core that was granted a context draws, and is told of the end, in one *)
(* that was made for it and that it was told of: not in that of a core     *)
(* before, which may never have been closed and left its own behind.  This *)
(* is not so of cores whose loads overlap.                                 *)
OwnContext ==
  ~overlapped /\ hw.of = core /\ (playing[core] \/ at[core] = "deinitVideo")
    => ctx = [of |-> core, state |-> "live"]

(* What libretro.h says of 0RGB1555: "Used as the default if               *)
(* RETRO_ENVIRONMENT_SET_PIXEL_FORMAT is not called."  The format of the   *)
(* core before is.                                                         *)
DefaultPixelFormat ==
  at[core] = "retro_run" => PixFmt.of = core \/ PixFmt.fmt = "0RGB1555"

(* What libretro.h says of the answer to SET_HW_RENDER: true if "the       *)
(* requested rendering API is supported".  Any interface is granted.       *)
GrantedApi == hw.of = core /\ gl => Drawable

(* What libretro.h says of the callback: "context_destroy can be set to    *)
(* NULL, in which resources will just be destroyed without any             *)
(* notification."  It is called all the same.                              *)
DestroyedQuietly == fault # "destroy"

(* A keyboard event finds the core whose callback it was tested against,   *)
(* and initVideo and deinitVideo a record of the context.  Both are false  *)
(* of the code, and nothing it says promises them.                         *)
CallbackIsThere == fault # "keyboard"
RecordIsThere == fault # "hw"

-----------------------------------------------------------------------------
(* What the core of a load sees of the frontend                            *)

SettingOrder ==
  <<"retro_set_environment", "retro_set_input_state", "retro_set_video_refresh",
    "retro_set_input_poll", "retro_set_audio_sample", "retro_set_audio_sample_batch">>

SetBefore(s) ==
  {SettingOrder[i] : i \in {j \in 1..6 : \E k \in (j + 1)..6 : SettingOrder[k] = s}}

lifeOf(k) ==
  CASE at[k] = "closed" -> "closed"
    [] at[k] = "retro_set_environment" -> "opened"
    [] at[k] \in Callbacks \cup {"retro_init"} -> "environment"
    [] at[k] \in {"retro_api_version", "retro_get_system_info", "core", "noGame",
                  "retro_load_game", "retro_deinit"} -> "inited"
    [] at[k] \in {"deinitVideo", "closeLib"} -> "deinited"
    [] OTHER -> "game"

inOf(k) == IF inside[k] = k THEN at[k] ELSE "none"

givenTo(k) ==
  CASE lifeOf(k) \in {"closed", "opened"} -> {}
    [] at[k] \in Callbacks -> Callbacks \cap SetBefore(at[k])
    [] OTHER -> Callbacks

Held(k, of, cmd) == IF of = k THEN {cmd} ELSE {}

grantedTo(k) ==
  IF lifeOf(k) = "closed" THEN {}
  ELSE UNION {Held(k, keyboardCb, "SET_KEYBOARD_CALLBACK"), Held(k, Rot, "SET_ROTATION"),
              Held(k, hw.of, "SET_HW_RENDER"), Held(k, PixFmt.of, "SET_PIXEL_FORMAT")}

contextOf(k) == IF ctx.of = k /\ lifeOf(k) # "closed" THEN ctx.state ELSE "none"

(* What libretro.h says of retro_unload_game: "This is called before       *)
(* retro_deinit(void)."  The Shutdown of one game calls retro_deinit in the*)
(* core of the next, whose game is loaded.                                 *)
UnloadedBeforeDeinit ==
  \A k \in Loads : at[k] = "retro_deinit" /\ inside[k] # 0 => lifeOf(inside[k]) # "game"

(* The load is the latest if there was one, its library was not in use     *)
(* already, and no other game is at work in it.                            *)
Alone(k) == core <= k /\ image[k] \in {0, k} /\ ~overlapped

Promise(k) ==
  INSTANCE LibretroCore WITH life <- lifeOf(k), in <- inOf(k), given <- givenTo(k),
                             granted <- grantedTo(k), context <- contextOf(k)

(* The order of the calls is, to each core, the one libretro.h promises,   *)
(* and what it was granted stays in force, from its load to its close or   *)
(* until the next is loaded, whatever became of the cores before.          *)
ImplementsLibretro ==
  /\ \A k \in Loads : Promise(k)!Init
  /\ [][\A k \in Loads : Alone(k)' => [Promise(k)!Next]_(Promise(k)!vars)]_vars
=============================================================================
