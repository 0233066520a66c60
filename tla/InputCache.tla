---------------------------- MODULE InputCache ----------------------------
(***************************************************************************)
(* The way of a player's input to the core.                                *)
(*                                                                         *)
(* The goroutines of the data channels store what the players send into    *)
(* atomics of Nanoarch (input.go).  Before every frame the goroutine of    *)
(* the game copies them, one load after the other, into the input cache of *)
(* nanoarch.c, and during the frame the core reads the cache through       *)
(* core_input_state_cgo.  Mouse motion is consumed by the copy and again   *)
(* by the core's read.  A keyboard is copied, and its events are taken,    *)
(* only if the core has installed a keyboard callback.  CoreLoad clears    *)
(* the atomics and not the cache.                                          *)
(*                                                                         *)
(* One port and one axis of the mouse stand for all of them; the four axes *)
(* of the sticks hold one value, and so do the two triggers.               *)
(***************************************************************************)
EXTENDS Integers, Libretro

CONSTANTS Button,     \* buttons of the RetroPad
          Key,        \* keys of the keyboard
          NoKey,
          Delta,      \* the mouse motions a player sends
          Half,       \* bound: half the numbers of the int16_t of the mouse, 2^15
          MaxMotion   \* bound: motion the core has not seen

ASSUME ButtonAssumption == Button \subseteq JOYPAD_ID
ASSUME KeyAssumption == Key # {} /\ Key \subseteq retro_key /\ NoKey \notin Key
ASSUME MotionAssumption == Half \in Nat \ {0} /\ MaxMotion \in Nat /\ Delta \subseteq Int

VARIABLES
  pad,         \* InputState of the port
  storing,     \* the report being stored: its value, and the next field
  keyboard,    \* KeyboardState: the keys that are down
  arriving,    \* a keyboard event that has passed the test of keyboardCb
  dx, buttons, \* MouseState
  keyboardCb,  \* the core has a keyboard callback
  cache,       \* nanoarch.c: input_cache
  at,          \* where the goroutine of the game is
  got,         \* what it has loaded and not yet stored
  polled,      \* the core has read the motion in this frame
  owed,        \* history: motion sent and not read by the core
  told,        \* history: the buttons and the keys pressed since CoreLoad
  skipped,     \* history: a frame went by in which the core read no motion
  wrapped      \* history: a motion did not fit the int16_t

padVars == <<pad, storing>>
kbVars == <<keyboard, arriving>>
mouseVars == <<dx, buttons>>
history == <<told, skipped, wrapped>>
gameVars == <<cache, at, got, polled>>
vars == <<padVars, kbVars, mouseVars, keyboardCb, gameVars, owed, history>>

(* The atomic word of KeyboardState a key is in.                           *)
WordOf(k) == k \div 64
LastOfWords == 5

Words == {WordOf(k) : k \in Key}
LastWord == CHOOSE w \in Words : \A v \in Words : v <= w
FirstWord == CHOOSE w \in Words : \A v \in Words : w <= v
NextWord(w) == CHOOSE v \in Words : v > w /\ \A u \in Words : u > w => v <= u

(* A conversion to a signed integer of 2 * Half values.                    *)
int16_t == -Half..(Half - 1)
Int16(n) == ((n + Half) % (2 * Half)) - Half

NoReport == [down |-> {}, full |-> FALSE, next |-> "none"]
NothingTold == [pad |-> {}, keys |-> {}]
NoPad == [down |-> {}, axes |-> {}, triggers |-> {}]
NoLoad == [down |-> {}, axes |-> {}, keys |-> {}, word |-> 0, x |-> 0]

-----------------------------------------------------------------------------
(* What the core reads                                                     *)

Stick == {"LEFT", "RIGHT"}
Index == {"NONE", "BUTTON"} \cup Stick

Bool(b) == IF b THEN 1 ELSE 0

(* core_input_state_cgo, without the reads of motion.  An axis stands for  *)
(* the buttons of the report it came with.                                 *)
core_input_state(device, index, id) ==
  CASE device = "JOYPAD" -> Bool(id \in cache.down)
    [] device = "ANALOG" /\ index \in Stick -> Bool(cache.axes # {})
    [] device = "ANALOG" /\ index = "BUTTON" /\ id \in {JOYPAD_L2, JOYPAD_R2}
         -> Bool(id \in cache.triggers)
    [] device = "ANALOG" /\ index = "BUTTON" -> Bool(id \in cache.down)
    [] device = "KEYBOARD" -> Bool(id \in cache.keys)
    [] device = "MOUSE" -> Bool(cache.buttons)
    [] OTHER -> 0

-----------------------------------------------------------------------------
(* The data channels                                                       *)

(* InputState.SetInput: three stores.  A report without triggers leaves    *)
(* them alone, and one without axes clears them.                           *)
SetInput(down, full) ==
  /\ storing.next = "none"
  /\ pad' = [pad EXCEPT !.down = down]
  /\ storing' = [down |-> down, full |-> full, next |-> "axes"]
  /\ told' = [told EXCEPT !.pad = @ \cup down]
  /\ UNCHANGED <<kbVars, mouseVars, keyboardCb, gameVars, owed, skipped, wrapped>>

StoreAxes ==
  /\ storing.next = "axes"
  /\ pad' = [pad EXCEPT !.axes = IF storing.full THEN storing.down ELSE {}]
  /\ storing' = IF storing.full THEN [storing EXCEPT !.next = "triggers"] ELSE NoReport
  /\ told' = [told EXCEPT !.pad = @ \cup storing.down]
  /\ UNCHANGED <<kbVars, mouseVars, keyboardCb, gameVars, owed, skipped, wrapped>>

StoreTriggers ==
  /\ storing.next = "triggers"
  /\ pad' = [pad EXCEPT !.triggers = storing.down]
  /\ storing' = NoReport
  /\ told' = [told EXCEPT !.pad = @ \cup storing.down]
  /\ UNCHANGED <<kbVars, mouseVars, keyboardCb, gameVars, owed, skipped, wrapped>>

(* InputKeyboard: the test, and KeyboardState.SetKey.  The call of the     *)
(* core's callback that follows is in module Nanoarch.                     *)
InputKeyboard(k, down) ==
  /\ keyboardCb /\ arriving.key = NoKey
  /\ arriving' = [key |-> k, down |-> down]
  /\ UNCHANGED <<padVars, keyboard, mouseVars, keyboardCb, gameVars, owed, history>>

SetKey ==
  /\ arriving.key # NoKey
  /\ keyboard' = IF arriving.down THEN keyboard \cup {arriving.key}
                                  ELSE keyboard \ {arriving.key}
  /\ arriving' = [key |-> NoKey, down |-> FALSE]
  /\ told' = IF arriving.down THEN [told EXCEPT !.keys = @ \cup {arriving.key}] ELSE told
  /\ UNCHANGED <<padVars, mouseVars, keyboardCb, gameVars, owed, skipped, wrapped>>

(* InputMouse: MouseState.ShiftPos and SetButtons.                         *)
ShiftPos(d) ==
  /\ owed + d \in -MaxMotion..MaxMotion /\ dx + d \in -MaxMotion..MaxMotion
  /\ dx' = dx + d /\ owed' = owed + d
  /\ UNCHANGED <<padVars, kbVars, buttons, keyboardCb, gameVars, history>>

SetButtons(b) ==
  /\ buttons' = b
  /\ UNCHANGED <<padVars, kbVars, dx, keyboardCb, gameVars, owed, history>>

-----------------------------------------------------------------------------
(* The goroutine of the game                                               *)

Stay == UNCHANGED <<padVars, kbVars, buttons, keyboardCb, owed>>

Step(from, to) == at = from /\ at' = to

(* InputState.SyncToCache and input_cache_set_port.                        *)
LoadButtons ==
  /\ Step("idle", "axes")
  /\ got' = [got EXCEPT !.down = pad.down]
  /\ UNCHANGED <<dx, cache, polled, history>> /\ Stay

LoadAxes ==
  /\ Step("axes", "port")
  /\ got' = [got EXCEPT !.axes = pad.axes]
  /\ UNCHANGED <<dx, cache, polled, history>> /\ Stay

input_cache_set_port ==
  /\ Step("port", IF keyboardCb THEN "keyboard" ELSE "mouse")
  /\ cache' = [cache EXCEPT !.down = got.down, !.axes = got.axes, !.triggers = pad.triggers]
  /\ got' = [NoLoad EXCEPT !.word = FirstWord]
  /\ UNCHANGED <<dx, polled, history>> /\ Stay

(* KeyboardState.SyncToCache: the words in their order, and                *)
(* input_cache_set_keyboard_bulk.                                          *)
WordKeys(w) == {k \in keyboard : WordOf(k) = w}

LoadWord ==
  /\ at = "keyboard" /\ got.word # LastWord
  /\ got' = [got EXCEPT !.keys = @ \cup WordKeys(got.word), !.word = NextWord(@)]
  /\ UNCHANGED <<dx, cache, at, polled, history>> /\ Stay

(* Mutant: the last word is forgotten.                                     *)
bulk_without_last_word ==
  /\ Step("keyboard", "mouse") /\ got.word = LastWord
  /\ cache' = [cache EXCEPT !.keys = got.keys]
  /\ got' = NoLoad
  /\ UNCHANGED <<dx, polled, history>> /\ Stay

input_cache_set_keyboard_bulk ==
  /\ Step("keyboard", "mouse") /\ got.word = LastWord
  /\ cache' = [cache EXCEPT !.keys = got.keys \cup WordKeys(LastWord)]
  /\ got' = NoLoad
  /\ UNCHANGED <<dx, polled, history>> /\ Stay

(* Mutant: the motion is not brought to the size of the cache.             *)
SwapWholeMotion ==
  /\ Step("mouse", "set_mouse")
  /\ got' = [NoLoad EXCEPT !.x = dx] /\ dx' = 0
  /\ UNCHANGED <<cache, polled, history>> /\ Stay

(* Mutant: the motion is loaded and not taken away.                        *)
LoadMotion ==
  /\ Step("mouse", "set_mouse")
  /\ got' = [NoLoad EXCEPT !.x = Int16(dx)]
  /\ wrapped' = (wrapped \/ Int16(dx) # dx)
  /\ UNCHANGED <<dx, cache, polled, told, skipped>> /\ Stay

(* MouseState.SyncToCache: Swap(0), and then input_cache_set_mouse.        *)
SwapMotion ==
  /\ Step("mouse", "set_mouse")
  /\ got' = [NoLoad EXCEPT !.x = Int16(dx)] /\ dx' = 0
  /\ wrapped' = (wrapped \/ Int16(dx) # dx)
  /\ UNCHANGED <<cache, polled, told, skipped>> /\ Stay

input_cache_set_mouse ==
  /\ Step("set_mouse", "run")
  /\ cache' = [cache EXCEPT !.x = got.x, !.buttons = buttons]
  /\ got' = NoLoad /\ polled' = FALSE
  /\ UNCHANGED <<dx, history>> /\ Stay

(* The core reads the motion: it gets what the cache holds and leaves zero.*)
PollMotion ==
  /\ at = "run"
  /\ owed - cache.x \in -MaxMotion..MaxMotion
  /\ owed' = owed - cache.x
  /\ cache' = [cache EXCEPT !.x = 0]
  /\ polled' = TRUE
  /\ UNCHANGED <<padVars, kbVars, mouseVars, keyboardCb, at, got, history>>

(* retro_run returns.                                                      *)
EndFrame ==
  /\ Step("run", "idle")
  /\ skipped' = (skipped \/ ~polled)
  /\ UNCHANGED <<dx, cache, got, polled, told, wrapped>> /\ Stay

(* The game ends; its input may go on for a while.                         *)
Quit ==
  /\ Step("idle", "off")
  /\ UNCHANGED <<dx, cache, got, polled, history>> /\ Stay

(* Mutant: the keyboard is not cleared.                                    *)
CoreLoadKeepingKeys(cb) ==
  /\ Step("off", "idle")
  /\ pad' = NoPad /\ dx' = 0 /\ buttons' = FALSE
  /\ keyboardCb' = cb
  /\ owed' = 0 /\ told' = NothingTold
  /\ UNCHANGED <<storing, kbVars, cache, got, polled, skipped, wrapped>>

(* CoreLoad resets the controllers, and the core may install a callback.   *)
CoreLoad(cb) ==
  /\ Step("off", "idle")
  /\ pad' = NoPad /\ keyboard' = {} /\ dx' = 0 /\ buttons' = FALSE
  /\ keyboardCb' = cb
  /\ owed' = 0 /\ told' = NothingTold
  /\ UNCHANGED <<storing, arriving, cache, got, polled, skipped, wrapped>>

-----------------------------------------------------------------------------
Init ==
  /\ pad = NoPad /\ storing = NoReport
  /\ keyboard = {} /\ arriving = [key |-> NoKey, down |-> FALSE]
  /\ dx = 0 /\ buttons = FALSE /\ keyboardCb = FALSE
  /\ cache = [down |-> {}, axes |-> {}, triggers |-> {}, keys |-> {}, x |-> 0,
              buttons |-> FALSE]
  /\ at = "off" /\ got = NoLoad /\ polled = FALSE
  /\ owed = 0 /\ told = NothingTold /\ skipped = FALSE /\ wrapped = FALSE

PadInput ==
  \/ \E down \in SUBSET Button, full \in BOOLEAN : SetInput(down, full)
  \/ StoreAxes \/ StoreTriggers

KeyboardInput == (\E k \in Key, down \in BOOLEAN : InputKeyboard(k, down)) \/ SetKey

MouseInput == (\E d \in Delta : ShiftPos(d)) \/ \E b \in BOOLEAN : SetButtons(b)

Sync ==
  \/ LoadButtons \/ LoadAxes \/ input_cache_set_port
  \/ LoadWord \/ input_cache_set_keyboard_bulk
  \/ SwapMotion \/ input_cache_set_mouse

Frame == Sync \/ EndFrame

Game == Frame \/ PollMotion \/ Quit \/ \E cb \in BOOLEAN : CoreLoad(cb)

Next == PadInput \/ KeyboardInput \/ MouseInput \/ Game

Spec == Init /\ [][Next]_vars

(* The game is played frame by frame; nobody owes an input or a read.      *)
FairSpec == Spec /\ WF_vars(Frame)

-----------------------------------------------------------------------------
(* Types of all variables.                                                 *)
TypeOK ==
  /\ pad \in [down : SUBSET Button, axes : SUBSET Button, triggers : SUBSET Button]
  /\ storing \in [down : SUBSET Button, full : BOOLEAN, next : {"none", "axes", "triggers"}]
  /\ keyboard \in SUBSET Key
  /\ arriving \in [key : Key \cup {NoKey}, down : BOOLEAN]
  /\ dx \in Int /\ owed \in Int
  /\ buttons \in BOOLEAN /\ keyboardCb \in BOOLEAN
  /\ cache \in [down : SUBSET Button, axes : SUBSET Button, triggers : SUBSET Button,
                keys : SUBSET Key, x : int16_t, buttons : BOOLEAN]
  /\ at \in {"off", "idle", "axes", "port", "keyboard", "mouse", "set_mouse", "run"}
  /\ got \in [down : SUBSET Button, axes : SUBSET Button, keys : SUBSET Key,
              word : 0..LastOfWords, x : int16_t]
  /\ polled \in BOOLEAN /\ skipped \in BOOLEAN /\ wrapped \in BOOLEAN
  /\ told \in [pad : SUBSET Button, keys : SUBSET Key]

(* No motion is lost or counted twice on its way through the atomic, the   *)
(* copy and the cache, if the core reads it in every frame and no frame's  *)
(* motion is too large for the cache.                                      *)
MotionIsKept == ~skipped /\ ~wrapped => owed = dx + got.x + cache.x

(* What libretro.h says: "the result will be thee mouse's movement         *)
(* relative to the last poll".  Motion of a frame in which the core does   *)
(* not ask is overwritten by the copy before the next one.                 *)
MotionSinceLastPoll == ~wrapped => owed = dx + got.x + cache.x

(* A running core sees no button and no key held down in the game before   *)
(* it, whoever pressed it and whenever it reached the atomics.             *)
NothingInherited ==
  at = "run" =>
    /\ \A d \in retro_device \ {"KEYBOARD", "MOUSE"}, i \in Index, b \in Button :
         core_input_state(d, i, b) = 1 => b \in told.pad \/ (i \in Stick /\ told.pad # {})
    /\ keyboardCb => \A k \in Key : core_input_state("KEYBOARD", "NONE", k) = 1 => k \in told.keys

(* A state of the controllers that lasts while the game goes on is what    *)
(* the core reads in the end.                                              *)
Playing == at # "off"

CacheSettles ==
  /\ \A s \in SUBSET Button :
       <>[](Playing /\ pad = [down |-> s, axes |-> s, triggers |-> s])
         => <>[](cache.down = s /\ cache.axes = s /\ cache.triggers = s)
  /\ \A s \in SUBSET Key :
       <>[](Playing /\ keyboardCb /\ keyboard = s) => <>[](cache.keys = s)

(* The goroutine of the game is never held up: it waits for no player.     *)
(* The theorem about CacheSettles takes this from TLC.                     *)
StepsAreEnabled == Playing => ENABLED <<Frame>>_vars
=============================================================================
