-------------------------- MODULE InputCache_proofs --------------------------
(***************************************************************************)
(* What is proved of the way of the input, for any buttons, keys, motions  *)
(* and bounds.  The properties speak of what the core reads; the invariant *)
(* follows the input through each place it rests in on its way.  That      *)
(* input which lasts is read in the end is proved last.                    *)
(***************************************************************************)
EXTENDS InputCache, TLAPS

(* What the goroutine of the game has loaded is empty outside the copy, a  *)
(* motion is in its hands only between its two steps, and the walk over    *)
(* the keyboard is at a word that has keys.                                *)
Hands ==
  /\ at \in {"off", "idle", "run"} => got = NoLoad
  /\ at # "set_mouse" => got.x = 0
  /\ at = "keyboard" => keyboardCb /\ got.word \in Words

(* Whatever is in the atomics, in hand or, from the copy on, in the cache, *)
(* was told since the core was loaded.                                     *)
FromThePlayers ==
  /\ pad.down \subseteq told.pad /\ pad.axes \subseteq told.pad
  /\ pad.triggers \subseteq told.pad
  /\ keyboard \subseteq told.keys
  /\ got.down \subseteq told.pad /\ got.axes \subseteq told.pad
  /\ got.keys \subseteq told.keys
  /\ at \in {"keyboard", "mouse", "set_mouse", "run"} =>
       /\ cache.down \subseteq told.pad /\ cache.axes \subseteq told.pad
       /\ cache.triggers \subseteq told.pad
  /\ at \in {"mouse", "set_mouse", "run"} /\ keyboardCb => cache.keys \subseteq told.keys

(* The cache holds a motion only until the core has read it.               *)
MotionIsRead == ~skipped => cache.x = 0 \/ (at = "run" /\ ~polled)

IInv == TypeOK /\ Hands /\ FromThePlayers /\ MotionIsRead /\ MotionIsKept

-----------------------------------------------------------------------------
(* The conversion gives a number of the cache's size.                      *)
LEMMA Int16Type == ASSUME NEW n \in Int PROVE Int16(n) \in int16_t
<1>1. Half \in Nat /\ Half > 0
  BY MotionAssumption
<1>2. (n + Half) % (2 * Half) \in 0..(2 * Half - 1)
  BY <1>1
<1> QED
  BY <1>1, <1>2 DEF Int16, int16_t

(* The words of the keyboard: there is a first, a last and, before the     *)
(* last, a next one.                                                       *)
LEMMA WordsType == Words \subseteq 0..5 /\ Words # {}
<1>1. \A k \in Key : k \in 0..341
  BY KeyAssumption DEF retro_key
<1>2. \A k \in 0..341 : k \div 64 \in 0..5
  OBVIOUS
<1> QED
  BY <1>1, <1>2, KeyAssumption DEF Words, WordOf

(* Sets of words have a least element, and a greatest.                     *)
LEMMA Least ==
  ASSUME NEW W \in SUBSET (0..5), W # {}
  PROVE  \E w \in W : \A v \in W : w <= v
<1>1. CASE 0 \in W
  BY <1>1
<1>2. CASE 0 \notin W /\ 1 \in W
  BY <1>2
<1>3. CASE W \cap {0, 1} = {} /\ 2 \in W
  BY <1>3
<1>4. CASE W \cap {0, 1, 2} = {} /\ 3 \in W
  BY <1>4
<1>5. CASE W \cap {0, 1, 2, 3} = {} /\ 4 \in W
  BY <1>5
<1>6. CASE W \cap {0, 1, 2, 3, 4} = {}
  <2>1. \A w \in W : w = 5
    BY <1>6
  <2>2. PICK w \in W : TRUE
    OBVIOUS
  <2> QED
    BY <2>1, <2>2
<1> QED
  BY <1>1, <1>2, <1>3, <1>4, <1>5, <1>6

LEMMA Greatest ==
  ASSUME NEW W \in SUBSET (0..5), W # {}
  PROVE  \E w \in W : \A v \in W : v <= w
<1> DEFINE M == {5 - w : w \in W}
<1>1. M \in SUBSET (0..5) /\ M # {}
  <2>1. PICK w \in W : TRUE
    OBVIOUS
  <2>2. \A v \in W : 5 - v \in 0..5
    OBVIOUS
  <2> QED
    BY <2>1, <2>2
<1> HIDE DEF M
<1>2. PICK m \in M : \A v \in M : m <= v
  BY <1>1, Least
<1>3. PICK w \in W : m = 5 - w
  BY DEF M
<1>4. \A v \in W : 5 - v \in M
  BY DEF M
<1>5. \A v \in W : 5 - w <= 5 - v
  BY <1>2, <1>3, <1>4
<1> QED
  BY <1>3, <1>5

LEMMA Walk ==
  /\ FirstWord \in Words /\ \A v \in Words : FirstWord <= v
  /\ LastWord \in Words /\ \A v \in Words : v <= LastWord
  /\ \A w \in Words : w # LastWord =>
       /\ NextWord(w) \in Words /\ NextWord(w) > w
       /\ \A u \in Words : u > w => NextWord(w) <= u
<1>1. FirstWord \in Words /\ \A v \in Words : FirstWord <= v
  BY WordsType, Least DEF FirstWord
<1>2. LastWord \in Words /\ \A v \in Words : v <= LastWord
  BY WordsType, Greatest DEF LastWord
<1>3. ASSUME NEW w \in Words, w # LastWord
      PROVE  /\ NextWord(w) \in Words /\ NextWord(w) > w
             /\ \A u \in Words : u > w => NextWord(w) <= u
  <2> DEFINE Later == {v \in Words : v > w}
  <2>1. LastWord \in Later
    BY <1>2, <1>3, WordsType
  <2>2. Later \in SUBSET (0..5) /\ Later # {}
    BY <2>1, WordsType
  <2>3. PICK v \in Later : \A u \in Later : v <= u
    BY <2>2, Least
  <2>4. v \in Words /\ v > w /\ \A u \in Words : u > w => v <= u
    BY <2>3
  <2> QED
    BY <2>4 DEF NextWord
<1> QED
  BY <1>1, <1>2, <1>3

-----------------------------------------------------------------------------
LEMMA InitInv == Init => IInv
<1> SUFFICES ASSUME Init PROVE IInv
  OBVIOUS
<1>1. 0 \in int16_t
  BY MotionAssumption DEF int16_t
<1>2. TypeOK
  <2>1. {} \in SUBSET Button /\ {} \in SUBSET Key /\ 0 \in 0..LastOfWords
    BY DEF LastOfWords
  <2>2. pad \in [down : SUBSET Button, axes : SUBSET Button, triggers : SUBSET Button]
    BY <2>1 DEF Init, NoPad
  <2>3. storing \in [down : SUBSET Button, full : BOOLEAN, next : {"none", "axes", "triggers"}]
    BY <2>1 DEF Init, NoReport
  <2>4. cache \in [down : SUBSET Button, axes : SUBSET Button, triggers : SUBSET Button,
                   keys : SUBSET Key, x : int16_t, buttons : BOOLEAN]
    BY <1>1, <2>1 DEF Init
  <2>5. got \in [down : SUBSET Button, axes : SUBSET Button, keys : SUBSET Key,
                 word : 0..LastOfWords, x : int16_t]
    BY <1>1, <2>1 DEF Init, NoLoad
  <2>6. told \in [pad : SUBSET Button, keys : SUBSET Key]
    BY <2>1 DEF Init, NothingTold
  <2>7. keyboard \in SUBSET Key /\ arriving \in [key : Key \cup {NoKey}, down : BOOLEAN]
    BY <2>1 DEF Init
  <2>8. /\ buttons \in BOOLEAN /\ keyboardCb \in BOOLEAN
        /\ polled \in BOOLEAN /\ skipped \in BOOLEAN /\ wrapped \in BOOLEAN
    BY Zenon DEF Init
  <2>9. dx \in Int /\ owed \in Int /\ at = "off"
    BY DEF Init
  <2> QED
    BY <2>2, <2>3, <2>4, <2>5, <2>6, <2>7, <2>8, <2>9 DEF TypeOK
<1>3. Hands /\ FromThePlayers /\ MotionIsRead /\ MotionIsKept
  BY DEF Init, Hands, FromThePlayers, MotionIsRead, MotionIsKept, NoPad, NoLoad, NothingTold
<1> QED
  BY <1>2, <1>3 DEF IInv

(* The data channels: what they store they are told, and the goroutine of  *)
(* the game, the cache and the motion owed stay as they are.               *)
LEMMA PadStep == IInv /\ PadInput => IInv'
<1> SUFFICES ASSUME IInv, PadInput PROVE IInv'
  OBVIOUS
<1> USE DEF IInv
<1>1. TypeOK'
  <2>1. CASE \E down \in SUBSET Button, full \in BOOLEAN : SetInput(down, full)
    BY <2>1 DEF TypeOK, SetInput, kbVars, mouseVars, gameVars
  <2>2. CASE StoreAxes
    BY <2>2 DEF TypeOK, StoreAxes, NoReport, kbVars, mouseVars, gameVars
  <2>3. CASE StoreTriggers
    BY <2>3 DEF TypeOK, StoreTriggers, NoReport, kbVars, mouseVars, gameVars
  <2> QED
    BY <2>1, <2>2, <2>3 DEF PadInput
<1>2. FromThePlayers'
  BY DEF PadInput, SetInput, StoreAxes, StoreTriggers, TypeOK, FromThePlayers, kbVars,
         mouseVars, gameVars
<1>3. (Hands /\ MotionIsRead /\ MotionIsKept)'
  BY DEF PadInput, SetInput, StoreAxes, StoreTriggers, Hands, MotionIsRead, MotionIsKept,
         mouseVars, gameVars
<1> QED
  BY <1>1, <1>2, <1>3

LEMMA KeyboardStep == IInv /\ KeyboardInput => IInv'
<1> SUFFICES ASSUME IInv, KeyboardInput PROVE IInv'
  OBVIOUS
<1> USE DEF IInv
<1>1. TypeOK'
  <2>1. CASE \E k \in Key, down \in BOOLEAN : InputKeyboard(k, down)
    BY <2>1 DEF TypeOK, InputKeyboard, padVars, mouseVars, gameVars, history
  <2>2. CASE SetKey
    BY <2>2 DEF TypeOK, SetKey, padVars, mouseVars, gameVars
  <2> QED
    BY <2>1, <2>2 DEF KeyboardInput
<1>2. FromThePlayers'
  BY DEF KeyboardInput, InputKeyboard, SetKey, TypeOK, FromThePlayers, padVars, mouseVars,
         gameVars, history
<1>3. (Hands /\ MotionIsRead /\ MotionIsKept)'
  BY DEF KeyboardInput, InputKeyboard, SetKey, Hands, MotionIsRead, MotionIsKept, mouseVars,
         gameVars, history
<1> QED
  BY <1>1, <1>2, <1>3

LEMMA MouseStep == IInv /\ MouseInput => IInv'
<1> SUFFICES ASSUME IInv, MouseInput PROVE IInv'
  OBVIOUS
<1> USE DEF IInv
<1>0. \A x \in int16_t : x \in Int
  BY MotionAssumption DEF int16_t
<1>1. TypeOK'
  BY MotionAssumption
     DEF MouseInput, ShiftPos, SetButtons, TypeOK, padVars, kbVars, gameVars, history
<1>2. (Hands /\ FromThePlayers /\ MotionIsRead)'
  BY DEF MouseInput, ShiftPos, SetButtons, Hands, FromThePlayers, MotionIsRead, padVars,
         kbVars, gameVars, history
<1>3. MotionIsKept'
  <2>1. got.x \in Int /\ cache.x \in Int
    BY <1>0 DEF TypeOK
  <2>2. CASE \E d \in Delta : ShiftPos(d)
    BY <2>1, <2>2, MotionAssumption DEF TypeOK, ShiftPos, MotionIsKept, gameVars, history
  <2>3. CASE \E b \in BOOLEAN : SetButtons(b)
    BY <2>3 DEF SetButtons, MotionIsKept, gameVars, history
  <2> QED
    BY <2>2, <2>3 DEF MouseInput
<1> QED
  BY <1>1, <1>2, <1>3

-----------------------------------------------------------------------------
(* The goroutine of the game: each of its steps is one of these.           *)
LEMMA NoLoadType == 0 \in int16_t
                    /\ NoLoad \in [down : SUBSET Button, axes : SUBSET Button,
                                   keys : SUBSET Key, word : 0..LastOfWords, x : int16_t]
<1>1. 0 \in int16_t /\ 0 \in 0..LastOfWords
  BY MotionAssumption DEF int16_t, LastOfWords
<1> QED
  BY <1>1 DEF NoLoad

LEMMA PortStep ==
  ASSUME IInv, LoadButtons \/ LoadAxes \/ input_cache_set_port
  PROVE  IInv'
<1> USE DEF IInv, Stay, Step
<1>1. CASE LoadButtons
  <2>1. TypeOK'
    BY <1>1 DEF LoadButtons, TypeOK, padVars, kbVars, history
  <2>2. (Hands /\ FromThePlayers)'
    BY <1>1 DEF LoadButtons, TypeOK, Hands, FromThePlayers, NoLoad, padVars, kbVars, history
  <2>3. (MotionIsRead /\ MotionIsKept)'
    BY <1>1 DEF LoadButtons, TypeOK, MotionIsRead, MotionIsKept, history
  <2> QED
    BY <2>1, <2>2, <2>3
<1>2. CASE LoadAxes
  <2>1. TypeOK'
    BY <1>2 DEF LoadAxes, TypeOK, padVars, kbVars, history
  <2>2. (Hands /\ FromThePlayers)'
    BY <1>2 DEF LoadAxes, TypeOK, Hands, FromThePlayers, NoLoad, padVars, kbVars, history
  <2>3. (MotionIsRead /\ MotionIsKept)'
    BY <1>2 DEF LoadAxes, TypeOK, MotionIsRead, MotionIsKept, history
  <2> QED
    BY <2>1, <2>2, <2>3
<1>3. CASE input_cache_set_port
  <2>0. FirstWord \in Words /\ FirstWord \in 0..LastOfWords
    BY Walk, WordsType DEF LastOfWords
  <2>1. TypeOK'
    BY <1>3, <2>0, NoLoadType DEF input_cache_set_port, TypeOK, padVars, kbVars, history
  <2>2. (Hands /\ FromThePlayers)'
    BY <1>3, <2>0
       DEF input_cache_set_port, TypeOK, Hands, FromThePlayers, NoLoad, padVars, kbVars, history
  <2>3. (MotionIsRead /\ MotionIsKept)'
    BY <1>3 DEF input_cache_set_port, TypeOK, Hands, MotionIsRead, MotionIsKept, NoLoad, history
  <2> QED
    BY <2>1, <2>2, <2>3
<1> QED
  BY <1>1, <1>2, <1>3

LEMMA BulkStep ==
  ASSUME IInv, LoadWord \/ input_cache_set_keyboard_bulk
  PROVE  IInv'
<1> USE DEF IInv, Stay, Step
<1>0. \A w : WordKeys(w) \in SUBSET keyboard
  BY DEF WordKeys
<1>1. CASE LoadWord
  <2>0. NextWord(got.word) \in Words /\ NextWord(got.word) \in 0..LastOfWords
    BY <1>1, Walk, WordsType DEF LoadWord, Hands, LastOfWords
  <2>1. TypeOK'
    BY <1>0, <1>1, <2>0 DEF LoadWord, TypeOK, padVars, kbVars, history
  <2>2. (Hands /\ FromThePlayers)'
    BY <1>0, <1>1, <2>0 DEF LoadWord, TypeOK, Hands, FromThePlayers, padVars, kbVars, history
  <2>3. (MotionIsRead /\ MotionIsKept)'
    BY <1>1 DEF LoadWord, TypeOK, MotionIsRead, MotionIsKept, history
  <2> QED
    BY <2>1, <2>2, <2>3
<1>2. CASE input_cache_set_keyboard_bulk
  <2>1. TypeOK'
    BY <1>0, <1>2, NoLoadType
       DEF input_cache_set_keyboard_bulk, TypeOK, padVars, kbVars, history
  <2>2. (Hands /\ FromThePlayers)'
    BY <1>0, <1>2
       DEF input_cache_set_keyboard_bulk, TypeOK, Hands, FromThePlayers, NoLoad, padVars,
           kbVars, history
  <2>3. (MotionIsRead /\ MotionIsKept)'
    BY <1>2 DEF input_cache_set_keyboard_bulk, TypeOK, Hands, MotionIsRead, MotionIsKept,
                NoLoad, history
  <2> QED
    BY <2>1, <2>2, <2>3
<1> QED
  BY <1>1, <1>2

(* The motion: swapped out of the atomic, put into the cache, read.  Each  *)
(* place is empty when the next motion comes into it.                      *)
LEMMA MotionStep ==
  ASSUME IInv, SwapMotion \/ input_cache_set_mouse \/ PollMotion
  PROVE  IInv'
<1> USE DEF IInv, Stay, Step
<1>0. \A x \in int16_t : x \in Int
  BY MotionAssumption DEF int16_t
<1>1. CASE SwapMotion
  <2>0. Int16(dx) \in int16_t
    BY Int16Type DEF TypeOK
  <2>1. TypeOK'
    BY <1>1, <2>0, NoLoadType DEF SwapMotion, TypeOK, padVars, kbVars
  <2>2. (Hands /\ FromThePlayers)'
    BY <1>1 DEF SwapMotion, TypeOK, Hands, FromThePlayers, NoLoad, padVars, kbVars
  <2>3. (MotionIsRead /\ MotionIsKept)'
    <3>1. MotionIsRead'
      BY <1>1 DEF SwapMotion, MotionIsRead
    <3>2. ASSUME ~skipped', ~wrapped'
          PROVE  owed' = dx' + got'.x + cache'.x
      <4>1. ~skipped /\ ~wrapped /\ Int16(dx) = dx
        BY <1>1, <3>2 DEF SwapMotion
      <4>2. owed = dx + got.x + cache.x /\ got.x = 0
        BY <1>1, <4>1 DEF SwapMotion, Hands, MotionIsKept
      <4>3. owed' = owed /\ dx' = 0 /\ got'.x = Int16(dx) /\ cache' = cache
        BY <1>1 DEF SwapMotion, NoLoad
      <4> QED
        BY <1>0, <4>1, <4>2, <4>3 DEF TypeOK
    <3> QED
      BY <3>1, <3>2 DEF MotionIsKept
  <2> QED
    BY <2>1, <2>2, <2>3
<1>2. CASE input_cache_set_mouse
  <2>1. TypeOK'
    BY <1>2, NoLoadType DEF input_cache_set_mouse, TypeOK, padVars, kbVars, history
  <2>2. (Hands /\ FromThePlayers)'
    BY <1>2 DEF input_cache_set_mouse, TypeOK, Hands, FromThePlayers, NoLoad, padVars,
                kbVars, history
  <2>3. (MotionIsRead /\ MotionIsKept)'
    BY <1>0, <1>2
       DEF input_cache_set_mouse, TypeOK, Hands, MotionIsRead, MotionIsKept, NoLoad, history
  <2> QED
    BY <2>1, <2>2, <2>3
<1>3. CASE PollMotion
  <2>1. TypeOK'
    BY <1>0, <1>3, NoLoadType
       DEF PollMotion, TypeOK, padVars, kbVars, mouseVars, history
  <2>2. (Hands /\ FromThePlayers)'
    BY <1>3 DEF PollMotion, TypeOK, Hands, FromThePlayers, padVars, kbVars, mouseVars, history
  <2>3. (MotionIsRead /\ MotionIsKept)'
    BY <1>0, <1>3
       DEF PollMotion, TypeOK, Hands, MotionIsRead, MotionIsKept, mouseVars, history
  <2> QED
    BY <2>1, <2>2, <2>3
<1> QED
  BY <1>1, <1>2, <1>3

LEMMA RestStep ==
  ASSUME IInv, EndFrame \/ Quit \/ \E cb \in BOOLEAN : CoreLoad(cb)
  PROVE  IInv'
<1> USE DEF IInv, Stay, Step
<1>1. CASE EndFrame
  <2>1. TypeOK'
    BY <1>1 DEF EndFrame, TypeOK, padVars, kbVars
  <2>2. (Hands /\ FromThePlayers)'
    BY <1>1 DEF EndFrame, Hands, FromThePlayers, padVars, kbVars
  <2>3. (MotionIsRead /\ MotionIsKept)'
    BY <1>1 DEF EndFrame, MotionIsRead, MotionIsKept
  <2> QED
    BY <2>1, <2>2, <2>3
<1>2. CASE Quit
  <2>1. TypeOK'
    BY <1>2 DEF Quit, TypeOK, padVars, kbVars, history
  <2>2. (Hands /\ FromThePlayers)'
    BY <1>2 DEF Quit, Hands, FromThePlayers, padVars, kbVars, history
  <2>3. (MotionIsRead /\ MotionIsKept)'
    BY <1>2 DEF Quit, MotionIsRead, MotionIsKept, history
  <2> QED
    BY <2>1, <2>2, <2>3
<1>3. ASSUME NEW cb \in BOOLEAN, CoreLoad(cb)
      PROVE  IInv'
  <2>1. TypeOK'
    <3>1. NoPad \in [down : SUBSET Button, axes : SUBSET Button, triggers : SUBSET Button]
      BY DEF NoPad
    <3>2. NothingTold \in [pad : SUBSET Button, keys : SUBSET Key]
      BY DEF NothingTold
    <3>3. buttons' \in BOOLEAN /\ keyboardCb' \in BOOLEAN
      BY <1>3, Zenon DEF CoreLoad
    <3> QED
      BY <1>3, <3>1, <3>2, <3>3 DEF CoreLoad, TypeOK
  <2>2. (Hands /\ FromThePlayers)'
    BY <1>3 DEF CoreLoad, Hands, FromThePlayers, NoPad, NoLoad, NothingTold
  <2>3. (MotionIsRead /\ MotionIsKept)'
    BY <1>3 DEF CoreLoad, Hands, MotionIsRead, MotionIsKept, NoLoad
  <2> QED
    BY <2>1, <2>2, <2>3
<1> QED
  BY <1>1, <1>2, <1>3

(* The invariant is inductive.                                             *)
THEOREM Invariant == Spec => []IInv
<1>1. IInv /\ [Next]_vars => IInv'
  <2> SUFFICES ASSUME IInv, [Next]_vars PROVE IInv'
    OBVIOUS
  <2>1. CASE PadInput
    BY <2>1, PadStep
  <2>2. CASE KeyboardInput
    BY <2>2, KeyboardStep
  <2>3. CASE MouseInput
    BY <2>3, MouseStep
  <2>4. CASE Game
    BY <2>4, PortStep, BulkStep, MotionStep, RestStep DEF Game, Frame, Sync
  <2>5. CASE UNCHANGED vars
    BY <2>5 DEF IInv, TypeOK, Hands, FromThePlayers, MotionIsRead, MotionIsKept, vars,
                padVars, kbVars, mouseVars, gameVars, history
  <2> QED
    BY <2>1, <2>2, <2>3, <2>4, <2>5 DEF Next
<1> QED
  BY InitInv, <1>1, PTL DEF Spec

-----------------------------------------------------------------------------
(* The types; what is in the cache fits its fields.                        *)
THEOREM TypeCorrect == Spec => []TypeOK
<1>1. IInv => TypeOK
  BY DEF IInv
<1> QED
  BY Invariant, <1>1, PTL

(* No motion is lost or counted twice on its way to a core that reads it   *)
(* in every frame, whatever the motions are and whenever they come.        *)
THEOREM NoMotionIsLost == Spec => []MotionIsKept
<1>1. IInv => MotionIsKept
  BY DEF IInv
<1> QED
  BY Invariant, <1>1, PTL

(* No running core sees a button or a key held down in the game before it. *)
THEOREM NoInputIsInherited == Spec => []NothingInherited
<1>1. IInv => NothingInherited
  <2> SUFFICES ASSUME IInv, at = "run" PROVE NothingInherited
    BY DEF NothingInherited
  <2>1. ASSUME NEW d \in retro_device \ {"KEYBOARD", "MOUSE"}, NEW i \in Index,
               NEW b \in Button, core_input_state(d, i, b) = 1
        PROVE  b \in told.pad \/ (i \in Stick /\ told.pad # {})
    BY <2>1 DEF IInv, FromThePlayers, core_input_state, Bool, retro_device
  <2>2. ASSUME keyboardCb, NEW k \in Key, core_input_state("KEYBOARD", "NONE", k) = 1
        PROVE  k \in told.keys
    BY <2>2 DEF IInv, FromThePlayers, core_input_state, Bool, Stick
  <2> QED
    BY <2>1, <2>2 DEF NothingInherited
<1> QED
  BY Invariant, <1>1, PTL
-----------------------------------------------------------------------------
(* Liveness, as far as the prover reaches: that the goroutine of the game  *)
(* can take its next step is a hypothesis.  A state that lasts is loaded   *)
(* whole in the lap of the goroutine after the one it is in.               *)

(* The steps that are left of this lap.                                    *)
Lap(n) ==
  \/ at = "run" /\ n = 1
  \/ at = "set_mouse" /\ n = 2
  \/ at = "mouse" /\ n = 3
  \/ at = "keyboard" /\ n = 9 - got.word
  \/ at = "port" /\ n = 10
  \/ at = "axes" /\ n = 11

LapBelow(n) == at = "idle" \/ \E m \in 1..11 : m < n /\ Lap(m)

LapDescent(k, n) == LapBelow(k) ~> LapBelow(n)

Live == [][Next]_vars /\ WF_vars(Frame) /\ []StepsAreEnabled /\ []IInv

(* Only the goroutine itself moves it.                                     *)
LEMMA OthersLeaveTheFrame ==
  ASSUME Playing, Playing', [Next]_vars, ~Frame
  PROVE  at' = at /\ got' = got /\ keyboardCb' = keyboardCb
BY DEF Playing, Next, PadInput, SetInput, StoreAxes, StoreTriggers, KeyboardInput,
       InputKeyboard, SetKey, MouseInput, ShiftPos, SetButtons, Game, Frame,
       PollMotion, Quit, CoreLoad, Step, gameVars, vars

LEMMA FrameDescends ==
  ASSUME IInv, NEW n \in 1..11, Lap(n), Frame
  PROVE  LapBelow(n)'
<1>1. CASE at = "keyboard" /\ LoadWord
  <2>1. got.word \in Words /\ NextWord(got.word) \in Words /\ NextWord(got.word) > got.word
    BY <1>1, Walk DEF IInv, Hands, LoadWord
  <2>2. got'.word = NextWord(got.word) /\ at' = "keyboard"
    BY <1>1 DEF IInv, TypeOK, LoadWord
  <2>3. got.word \in 0..5 /\ got'.word \in 0..5 /\ got'.word > got.word
    BY <2>1, <2>2, WordsType
  <2>4. PICK m \in 1..11 : m = 9 - got'.word
    BY <2>3
  <2>5. Lap(m)'
    BY <2>2, <2>4 DEF Lap
  <2>6. at = "keyboard" /\ n = 9 - got.word
    BY <1>1 DEF Lap
  <2>7. m < n
    BY <2>3, <2>4, <2>6
  <2> QED BY <2>5, <2>7 DEF LapBelow
<1>2. CASE at = "port"
  <2>1. FirstWord \in 0..5
    BY Walk, WordsType
  <2>2. CASE at' = "mouse"
    <3>1. Lap(3)'
      BY <2>2 DEF Lap
    <3> QED BY <1>2, <3>1 DEF Lap, LapBelow
  <2>3. CASE at' = "keyboard" /\ got' = [NoLoad EXCEPT !.word = FirstWord]
    <3>1. got'.word = FirstWord
      BY <2>3 DEF NoLoad
    <3>2. PICK m \in 1..9 : m = 9 - FirstWord
      BY <2>1
    <3>3. Lap(m)'
      BY <2>3, <3>1, <3>2 DEF Lap
    <3> QED BY <1>2, <3>2, <3>3 DEF Lap, LapBelow
  <2> QED
    BY <1>2, <2>2, <2>3
    DEF Frame, Sync, LoadButtons, LoadAxes, input_cache_set_port, LoadWord,
        input_cache_set_keyboard_bulk, SwapMotion, input_cache_set_mouse, EndFrame, Step
<1>3. CASE at # "port" /\ ~LoadWord
  <2>1. at = "keyboard" => got.word \in 0..5
    BY WordsType DEF IInv, Hands
  <2>2. \/ at = "run" /\ at' = "idle"
        \/ at = "set_mouse" /\ at' = "run"
        \/ at = "mouse" /\ at' = "set_mouse"
        \/ at = "keyboard" /\ at' = "mouse"
        \/ at = "axes" /\ at' = "port"
    BY <1>3
    DEF Lap, Frame, Sync, LoadButtons, LoadAxes, input_cache_set_port,
        input_cache_set_keyboard_bulk, SwapMotion, input_cache_set_mouse, EndFrame, Step
  <2>3. /\ at' = "run" => Lap(1)'
        /\ at' = "set_mouse" => Lap(2)'
        /\ at' = "mouse" => Lap(3)'
        /\ at' = "port" => Lap(10)'
    BY DEF Lap
  <2> QED BY <2>1, <2>2, <2>3 DEF Lap, LapBelow
<1> QED BY <1>1, <1>2, <1>3 DEF LoadWord, Lap

LEMMA LapLess ==
  ASSUME NEW n \in 1..11, NEW k \in 2..12, k = n + 1
  PROVE  Live /\ []Playing => LapDescent(k, n)
<1>1. IInv /\ Playing /\ Playing' /\ Lap(n) /\ [Next]_vars => Lap(n)' \/ LapBelow(n)'
  BY FrameDescends, OthersLeaveTheFrame DEF Lap
<1>2. IInv /\ Lap(n) /\ <<Frame>>_vars => LapBelow(n)'
  BY FrameDescends
<1>3. StepsAreEnabled /\ Playing => ENABLED <<Frame>>_vars
  BY DEF StepsAreEnabled
<1>4. LapBelow(k) => Lap(n) \/ LapBelow(n)
  BY DEF LapBelow
<1> QED BY <1>1, <1>2, <1>3, <1>4, PTL DEF Live, LapDescent

(* A lap comes to its end.                                                 *)
LEMMA LapEnds == Live /\ []Playing => <>(at = "idle")
<1>1. Live /\ []Playing =>
        /\ LapDescent(12, 11) /\ LapDescent(11, 10) /\ LapDescent(10, 9)
        /\ LapDescent(9, 8) /\ LapDescent(8, 7) /\ LapDescent(7, 6)
        /\ LapDescent(6, 5) /\ LapDescent(5, 4) /\ LapDescent(4, 3)
        /\ LapDescent(3, 2) /\ LapDescent(2, 1)
  BY LapLess
<1>2. LapBelow(1) => at = "idle"
  BY DEF LapBelow
<1>3. IInv /\ Playing => LapBelow(12)
  <2> SUFFICES ASSUME IInv, Playing PROVE LapBelow(12)
    OBVIOUS
  <2>1. CASE at = "keyboard"
    <3>1. got.word \in 0..5
      BY <2>1, WordsType DEF IInv, Hands
    <3>2. PICK m \in 1..11 : m = 9 - got.word
      BY <3>1
    <3> QED BY <2>1, <3>2 DEF Lap, LapBelow
  <2>2. CASE at # "keyboard"
    <3>1. \/ at = "idle" \/ Lap(1) \/ Lap(2) \/ Lap(3) \/ Lap(10) \/ Lap(11)
      BY <2>2 DEF IInv, TypeOK, Playing, Lap
    <3> QED BY <3>1 DEF LapBelow
  <2> QED BY <2>1, <2>2
<1> QED BY <1>1, <1>2, <1>3, PTL DEF Live, LapDescent
-----------------------------------------------------------------------------
(* The buttons, the sticks and the triggers                                *)

PadHeld(s) == Playing /\ pad = [down |-> s, axes |-> s, triggers |-> s]
PadRead(s) == cache.down = s /\ cache.axes = s /\ cache.triggers = s

PadLoaded(s) ==
  /\ at \in {"axes", "port"} => got.down = s
  /\ at = "port" => got.axes = s

PadSettled(s) == PadRead(s) /\ PadLoaded(s)

(* A lap begun while the pad is held copies it, and so do all laps after.  *)
LEMMA PadStays ==
  ASSUME NEW s \in SUBSET Button, IInv, PadHeld(s), PadHeld(s)', PadLoaded(s), [Next]_vars
  PROVE  /\ PadLoaded(s)'
         /\ PadRead(s) => PadRead(s)'
         /\ at = "port" /\ Frame => PadRead(s)'
<1>1. Playing /\ Playing' /\ pad.down = s /\ pad.axes = s /\ pad.triggers = s
  BY DEF PadHeld
<1> USE <1>1 DEF PadLoaded, PadRead
<1>2. CASE Frame
  <2> USE DEF IInv, TypeOK, Step
  <2>1. CASE LoadButtons
    BY <2>1 DEF LoadButtons
  <2>2. CASE LoadAxes
    BY <2>2 DEF LoadAxes
  <2>3. CASE input_cache_set_port
    BY <2>3 DEF input_cache_set_port
  <2>4. CASE LoadWord
    BY <2>4 DEF LoadWord
  <2>5. CASE input_cache_set_keyboard_bulk
    BY <2>5 DEF input_cache_set_keyboard_bulk
  <2>6. CASE SwapMotion
    BY <2>6 DEF SwapMotion
  <2>7. CASE input_cache_set_mouse
    BY <2>7 DEF input_cache_set_mouse
  <2>8. CASE EndFrame
    BY <2>8 DEF EndFrame
  <2> QED
    BY <1>2, <2>1, <2>2, <2>3, <2>4, <2>5, <2>6, <2>7, <2>8 DEF Frame, Sync
<1>3. CASE ~Frame
  <2>1. at' = at /\ got' = got
    BY <1>3, OthersLeaveTheFrame
  <2>2. PadRead(s) => PadRead(s)'
    BY <1>3
    DEF IInv, TypeOK, Playing, Next, PadInput, SetInput, StoreAxes, StoreTriggers,
        KeyboardInput, InputKeyboard, SetKey, MouseInput, ShiftPos, SetButtons, Game,
        PollMotion, Quit, CoreLoad, Step, gameVars, vars
  <2> QED BY <1>3, <2>1, <2>2
<1> QED BY <1>2, <1>3

LEMMA PadSettles ==
  ASSUME NEW s \in SUBSET Button
  PROVE  Live /\ []PadHeld(s) => <>[]PadRead(s)
<1> DEFINE Begun == at = "idle" /\ PadLoaded(s)
           Second == at = "axes" /\ PadLoaded(s)
           Third == at = "port" /\ PadLoaded(s)
<1>1. at = "idle" => Begun
  BY DEF PadLoaded
<1>2. IInv /\ PadHeld(s) /\ PadHeld(s)' /\ PadLoaded(s) /\ [Next]_vars => PadLoaded(s)'
  BY PadStays
<1>3. IInv /\ PadHeld(s) /\ PadHeld(s)' /\ PadSettled(s) /\ [Next]_vars => PadSettled(s)'
  BY PadStays DEF PadSettled
<1>4. PadHeld(s) => Playing
  BY DEF PadHeld
<1>5. StepsAreEnabled /\ Playing => ENABLED <<Frame>>_vars
  BY DEF StepsAreEnabled
<1>6. PadHeld(s) /\ PadHeld(s)' /\ [Next]_vars =>
        /\ at = "idle" => at' \in {"idle", "axes"}
        /\ at = "axes" => at' \in {"axes", "port"}
        /\ at = "port" /\ ~Frame => at' = "port"
  BY OthersLeaveTheFrame
  DEF PadHeld, Frame, Sync, LoadButtons, LoadAxes, input_cache_set_port, LoadWord,
      input_cache_set_keyboard_bulk, SwapMotion, input_cache_set_mouse, EndFrame, Step
<1>7. /\ at = "idle" /\ Frame => at' = "axes"
      /\ at = "axes" /\ Frame => at' = "port"
  BY DEF Frame, Sync, LoadButtons, LoadAxes, input_cache_set_port, LoadWord,
      input_cache_set_keyboard_bulk, SwapMotion, input_cache_set_mouse, EndFrame, Step
<1>8. /\ IInv /\ PadHeld(s) /\ PadHeld(s)' /\ Begun /\ [Next]_vars => Begun' \/ Second'
      /\ IInv /\ PadHeld(s) /\ PadHeld(s)' /\ Begun /\ <<Frame>>_vars /\ [Next]_vars
           => Second'
  BY <1>2, <1>6, <1>7
<1>9. /\ IInv /\ PadHeld(s) /\ PadHeld(s)' /\ Second /\ [Next]_vars => Second' \/ Third'
      /\ IInv /\ PadHeld(s) /\ PadHeld(s)' /\ Second /\ <<Frame>>_vars /\ [Next]_vars
           => Third'
  BY <1>2, <1>6, <1>7
<1>10. /\ IInv /\ PadHeld(s) /\ PadHeld(s)' /\ Third /\ [Next]_vars
            => Third' \/ PadSettled(s)'
       /\ IInv /\ PadHeld(s) /\ PadHeld(s)' /\ Third /\ <<Frame>>_vars /\ [Next]_vars
            => PadSettled(s)'
  BY <1>6, PadStays DEF PadSettled
<1>11. PadSettled(s) => PadRead(s)
  BY DEF PadSettled
<1> HIDE DEF Begun, Second, Third
<1>12. Live /\ []PadHeld(s) => <>Begun
  BY <1>1, <1>4, LapEnds, PTL
<1>13. Live /\ []PadHeld(s) => (Begun ~> Second)
  BY <1>4, <1>5, <1>8, PTL DEF Live
<1>14. Live /\ []PadHeld(s) => (Second ~> Third)
  BY <1>4, <1>5, <1>9, PTL DEF Live
<1>15. Live /\ []PadHeld(s) => (Third ~> PadSettled(s))
  BY <1>4, <1>5, <1>10, PTL DEF Live
<1> QED BY <1>3, <1>11, <1>12, <1>13, <1>14, <1>15, PTL DEF Live

-----------------------------------------------------------------------------
(* The keys                                                                *)

KeysHeld(s) == Playing /\ keyboardCb /\ keyboard = s

KeysBefore(s, w) == {k \in s : WordOf(k) < w}

KeysLoaded(s) == at = "keyboard" => got.keys = KeysBefore(s, got.word)

KeysRead(s) == cache.keys = s

KeysSettled(s) == KeysRead(s) /\ KeysLoaded(s)

(* A walk over the keyboard that has so many words left to go.             *)
KeysLeft(s, n) == at = "keyboard" /\ KeysLoaded(s) /\ n = 6 - got.word

KeysBelow(s, n) == KeysSettled(s) \/ \E m \in 1..6 : m < n /\ KeysLeft(s, m)

KeysDescent(s, k, n) == KeysBelow(s, k) ~> KeysBelow(s, n)

(* The walk gathers the keys of the words it has passed.                   *)
LEMMA KeysGathered ==
  ASSUME NEW s \in SUBSET Key
  PROVE  /\ KeysBefore(s, FirstWord) = {}
         /\ \A w \in Words : w # LastWord =>
              KeysBefore(s, NextWord(w)) = KeysBefore(s, w) \cup {k \in s : WordOf(k) = w}
         /\ s = KeysBefore(s, LastWord) \cup {k \in s : WordOf(k) = LastWord}
<1>1. \A k \in s : WordOf(k) \in Words
  BY DEF Words
<1>2. \A w \in Words : w \in Int
  BY WordsType
<1>3. KeysBefore(s, FirstWord) = {}
  <2>1. \A v \in Words : ~(v < FirstWord)
    BY <1>2, Walk
  <2> QED BY <1>1, <2>1 DEF KeysBefore
<1>4. ASSUME NEW w \in Words, w # LastWord
      PROVE  KeysBefore(s, NextWord(w)) = KeysBefore(s, w) \cup {k \in s : WordOf(k) = w}
  <2>1. NextWord(w) \in Int /\ w \in Int /\ NextWord(w) > w
    BY <1>2, <1>4, Walk
  <2>2. ASSUME NEW u \in Words
        PROVE  u < NextWord(w) <=> (u < w \/ u = w)
    <3>1. u \in Int /\ (u > w => NextWord(w) <= u)
      BY <1>2, <1>4, Walk
    <3> QED BY <2>1, <3>1
  <2> QED BY <1>1, <2>2 DEF KeysBefore
<1>5. s = KeysBefore(s, LastWord) \cup {k \in s : WordOf(k) = LastWord}
  <2>1. \A v \in Words : v < LastWord \/ v = LastWord
    BY <1>2, Walk
  <2> QED BY <1>1, <2>1 DEF KeysBefore
<1> QED BY <1>3, <1>4, <1>5
(* A lap begun while the keys are held copies them, and so do all after.   *)
LEMMA KeysStay ==
  ASSUME NEW s \in SUBSET Key, IInv, KeysHeld(s), KeysHeld(s)', [Next]_vars
  PROVE  /\ KeysSettled(s) => KeysSettled(s)'
         /\ KeysLoaded(s) => KeysLoaded(s)'
         /\ at = "keyboard" /\ KeysLoaded(s) /\ Frame /\ ~LoadWord => KeysSettled(s)'
<1>1. Playing /\ Playing' /\ keyboardCb /\ keyboard = s
  BY DEF KeysHeld
<1> USE <1>1 DEF KeysLoaded, KeysRead, KeysSettled
<1>2. CASE LoadWord
  <2>1. /\ at = "keyboard" /\ got.word \in Words /\ got.word # LastWord
        /\ got'.word = NextWord(got.word) /\ cache' = cache
        /\ got'.keys = got.keys \cup {k \in s : WordOf(k) = got.word}
    BY <1>2 DEF IInv, TypeOK, Hands, LoadWord, WordKeys
  <2> QED BY <2>1, <1>2, KeysGathered DEF LoadWord
<1>3. CASE input_cache_set_keyboard_bulk
  <2>1. /\ at = "keyboard" /\ at' = "mouse" /\ got.word = LastWord
        /\ cache'.keys = got.keys \cup {k \in s : WordOf(k) = LastWord}
    BY <1>3 DEF IInv, TypeOK, input_cache_set_keyboard_bulk, Step, WordKeys
  <2> QED BY <1>3, <2>1, KeysGathered DEF LoadWord, input_cache_set_keyboard_bulk, Step
<1>4. CASE input_cache_set_port
  <2>1. /\ at = "port" /\ got'.keys = {} /\ got'.word = FirstWord /\ cache'.keys = cache.keys
    BY <1>4 DEF IInv, TypeOK, input_cache_set_port, Step, NoLoad
  <2> QED BY <2>1, KeysGathered
<1>5. CASE Frame /\ ~LoadWord /\ ~input_cache_set_keyboard_bulk /\ ~input_cache_set_port
  <2>1. at # "keyboard" /\ at' # "keyboard"
    BY <1>5 DEF Frame, Sync, LoadButtons, LoadAxes, SwapMotion, input_cache_set_mouse,
                EndFrame, Step
  <2>2. cache'.keys = cache.keys
    BY <1>5 DEF IInv, TypeOK, Frame, Sync, LoadButtons, LoadAxes, SwapMotion,
                input_cache_set_mouse, EndFrame
  <2> QED BY <2>1, <2>2
<1>6. CASE ~Frame
  <2>1. at' = at /\ got' = got
    BY <1>6, OthersLeaveTheFrame
  <2>2. cache'.keys = cache.keys
    BY <1>6
    DEF IInv, TypeOK, Playing, Next, PadInput, SetInput, StoreAxes, StoreTriggers,
        KeyboardInput, InputKeyboard, SetKey, MouseInput, ShiftPos, SetButtons, Game,
        PollMotion, Quit, CoreLoad, Step, gameVars, vars
  <2> QED BY <1>6, <2>1, <2>2
<1> QED BY <1>2, <1>3, <1>4, <1>5, <1>6

LEMMA KeysDescend ==
  ASSUME NEW s \in SUBSET Key, NEW n \in 1..6, IInv, KeysHeld(s), KeysHeld(s)',
         KeysLeft(s, n), Frame, [Next]_vars
  PROVE  KeysBelow(s, n)'
<1>1. CASE ~LoadWord
  BY <1>1, KeysStay DEF KeysLeft, KeysBelow
<1>2. CASE LoadWord
  <2>1. KeysLoaded(s)' /\ at' = "keyboard"
    BY <1>2, KeysStay DEF KeysLeft, LoadWord
  <2>2. got.word \in Words /\ got'.word = NextWord(got.word) /\ got.word # LastWord
    BY <1>2 DEF IInv, TypeOK, Hands, LoadWord
  <2>3. got.word \in 0..5 /\ got'.word \in 0..5 /\ got'.word > got.word
    BY <2>2, Walk, WordsType
  <2>4. PICK m \in 1..6 : m = 6 - got'.word
    BY <2>3
  <2>5. KeysLeft(s, m)'
    BY <2>1, <2>4 DEF KeysLeft
  <2>6. m < n
    BY <2>3, <2>4 DEF KeysLeft
  <2> QED BY <2>5, <2>6 DEF KeysBelow
<1> QED BY <1>1, <1>2

LEMMA KeysLess ==
  ASSUME NEW s \in SUBSET Key, NEW n \in 1..6, NEW k \in 2..7, k = n + 1
  PROVE  Live /\ []KeysHeld(s) => KeysDescent(s, k, n)
<1>1. IInv /\ KeysHeld(s) /\ KeysHeld(s)' /\ KeysLeft(s, n) /\ [Next]_vars
        => KeysLeft(s, n)' \/ KeysBelow(s, n)'
  <2> SUFFICES ASSUME IInv, KeysHeld(s), KeysHeld(s)', KeysLeft(s, n), [Next]_vars
               PROVE  KeysLeft(s, n)' \/ KeysBelow(s, n)'
    OBVIOUS
  <2>1. CASE Frame
    BY <2>1, KeysDescend
  <2>2. CASE ~Frame
    <3>1. at' = at /\ got' = got
      BY <2>2, OthersLeaveTheFrame DEF KeysHeld
    <3>2. KeysLoaded(s)'
      BY KeysStay DEF KeysLeft
    <3> QED BY <3>1, <3>2 DEF KeysLeft
  <2> QED BY <2>1, <2>2
<1>2. IInv /\ KeysHeld(s) /\ KeysHeld(s)' /\ KeysLeft(s, n) /\ <<Frame>>_vars /\ [Next]_vars
        => KeysBelow(s, n)'
  BY KeysDescend
<1>3. StepsAreEnabled /\ KeysHeld(s) => ENABLED <<Frame>>_vars
  BY DEF StepsAreEnabled, KeysHeld
<1>4. KeysBelow(s, k) => KeysLeft(s, n) \/ KeysBelow(s, n)
  BY DEF KeysBelow
<1> QED BY <1>1, <1>2, <1>3, <1>4, PTL DEF Live, KeysDescent

LEMMA KeysSettle ==
  ASSUME NEW s \in SUBSET Key
  PROVE  Live /\ []KeysHeld(s) => <>[]KeysRead(s)
<1> DEFINE On(p) == at = p /\ KeysLoaded(s)
<1>1. at = "idle" => On("idle")
  BY DEF KeysLoaded
<1>2. \A p \in {"idle", "axes", "port"} :
        IInv /\ KeysHeld(s) /\ KeysHeld(s)' /\ On(p) /\ [Next]_vars => KeysLoaded(s)'
  BY KeysStay
<1>3. KeysHeld(s) /\ KeysHeld(s)' /\ [Next]_vars =>
        /\ at = "idle" => at' \in {"idle", "axes"}
        /\ at = "axes" => at' \in {"axes", "port"}
        /\ at = "port" => at' \in {"port", "keyboard"}
  BY OthersLeaveTheFrame
  DEF KeysHeld, Frame, Sync, LoadButtons, LoadAxes, input_cache_set_port, LoadWord,
      input_cache_set_keyboard_bulk, SwapMotion, input_cache_set_mouse, EndFrame, Step
<1>4. KeysHeld(s) /\ Frame =>
        /\ at = "idle" => at' = "axes"
        /\ at = "axes" => at' = "port"
        /\ at = "port" => at' = "keyboard"
  BY DEF KeysHeld, Frame, Sync, LoadButtons, LoadAxes, input_cache_set_port, LoadWord,
         input_cache_set_keyboard_bulk, SwapMotion, input_cache_set_mouse, EndFrame, Step
<1>5. StepsAreEnabled /\ KeysHeld(s) => Playing /\ ENABLED <<Frame>>_vars
  BY DEF StepsAreEnabled, KeysHeld
<1> DEFINE Moves(p, q) ==
      /\ IInv /\ KeysHeld(s) /\ KeysHeld(s)' /\ On(p) /\ [Next]_vars => On(p)' \/ On(q)'
      /\ IInv /\ KeysHeld(s) /\ KeysHeld(s)' /\ On(p) /\ <<Frame>>_vars /\ [Next]_vars
           => On(q)'
<1>6. Moves("idle", "axes") /\ Moves("axes", "port") /\ Moves("port", "keyboard")
  BY <1>2, <1>3, <1>4
<1>7. IInv /\ On("keyboard") => KeysBelow(s, 7)
  <2> SUFFICES ASSUME IInv, On("keyboard") PROVE KeysBelow(s, 7)
    OBVIOUS
  <2>1. got.word \in 0..5
    BY WordsType DEF IInv, Hands
  <2>2. PICK m \in 1..6 : m = 6 - got.word
    BY <2>1
  <2> QED BY <2>2 DEF KeysLeft, KeysBelow
<1>8. KeysBelow(s, 1) => KeysSettled(s)
  BY DEF KeysBelow
<1>9. IInv /\ KeysHeld(s) /\ KeysHeld(s)' /\ KeysSettled(s) /\ [Next]_vars => KeysSettled(s)'
  BY KeysStay
<1>10. KeysSettled(s) => KeysRead(s)
  BY DEF KeysSettled
<1>11. Live /\ []KeysHeld(s) =>
         /\ KeysDescent(s, 7, 6) /\ KeysDescent(s, 6, 5) /\ KeysDescent(s, 5, 4)
         /\ KeysDescent(s, 4, 3) /\ KeysDescent(s, 3, 2) /\ KeysDescent(s, 2, 1)
  BY KeysLess
<1> HIDE DEF On
<1>12. Live /\ []KeysHeld(s) => <>On("idle")
  BY <1>1, <1>5, LapEnds, PTL DEF Live
<1>13. Live /\ []KeysHeld(s) => (On("idle") ~> On("axes"))
  BY <1>5, <1>6, PTL DEF Live
<1>14. Live /\ []KeysHeld(s) => (On("axes") ~> On("port"))
  BY <1>5, <1>6, PTL DEF Live
<1>15. Live /\ []KeysHeld(s) => (On("port") ~> On("keyboard"))
  BY <1>5, <1>6, PTL DEF Live
<1>16. Live /\ []KeysHeld(s) => (On("keyboard") ~> KeysSettled(s))
  BY <1>7, <1>8, <1>11, PTL DEF Live, KeysDescent
<1> QED BY <1>9, <1>10, <1>12, <1>13, <1>14, <1>15, <1>16, PTL DEF Live

(* What the players hold is what the core reads in the end, whatever the   *)
(* order in which the reports and the copy meet in the atomics.            *)
THEOREM HeldInputIsRead == FairSpec /\ []StepsAreEnabled => CacheSettles
<1>1. FairSpec /\ []StepsAreEnabled => Live
  BY Invariant, PTL DEF FairSpec, Spec, Live
<1>2. ASSUME NEW s \in SUBSET Button
      PROVE  Live => (<>[]PadHeld(s) => <>[]PadRead(s))
  BY PadSettles, PTL DEF Live
<1>3. ASSUME NEW s \in SUBSET Key
      PROVE  Live => (<>[]KeysHeld(s) => <>[]KeysRead(s))
  BY KeysSettle, PTL DEF Live
<1> QED BY <1>1, <1>2, <1>3 DEF CacheSettles, PadHeld, PadRead, KeysHeld, KeysRead
=============================================================================
