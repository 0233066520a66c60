-------------------------- MODULE Emulator_proofs --------------------------
(***************************************************************************)
(* The properties of Emulator, proved for any set of games.                *)
(*                                                                         *)
(* The argument: a goroutine that is inside the core holds the mutex of    *)
(* its frontend, except for the handler while it loads the game; then      *)
(* neither Start nor autosave of that frontend has begun.  A frame that    *)
(* was not saved is one of a Start that is still in its loop, or at the    *)
(* save that follows it.                                                   *)
(*                                                                         *)
(* That the handler returns and that a closed frontend ends is proved for  *)
(* games that are left and begun in time, from what the steps need         *)
(* (StepsAreEnabled, which TLC checks): whoever takes mu gives it back;    *)
(* then each goroutine comes, step by step, to the end of its work.        *)
(***************************************************************************)
EXTENDS Emulator, FiniteSetTheorems, TLAPS

(* Where each goroutine may be inside the core.                            *)
Places ==
  /\ \A g \in Game :
       /\ Inside(g, "start") => start[g] \in {"restore", "loop", "save", "shutdown"}
       /\ Inside(g, "auto") => auto[g] = "save"
       /\ Inside(g, "hand") => game = g /\ hand \in {"core", "load", "save", "restore", "reset"}
       /\ auto[g] \in {"wait", "save"} =>
            start[g] \in {"loop", "save", "unlock", "shutdown", "end"}
  /\ hand \in {"reserve", "core", "load", "media"} => start[game] = "off"

(* Who is inside holds mu.                                                 *)
Locked ==
  \A g \in Game, w \in Who : Inside(g, w) => mu[g] = w \/ (w = "hand" /\ hand = "load")

(* Frames that are not saved.                                              *)
Fresh ==
  \A g \in Game : hasSave[g] /\ dirty[g] => start[g] \in {"loop", "save"}

(* Before its loop a frontend has played no frame.                         *)
Unplayed ==
  \A g \in Game : dirty[g] => start[g] \in {"loop", "save", "unlock", "shutdown", "end"}

IInv == TypeOK /\ Places /\ Locked /\ Fresh /\ Unplayed

LEMMA Initially == Init => IInv
<1> SUFFICES ASSUME Init PROVE IInv
  OBVIOUS
<1>1. TypeOK
  <2>1. /\ hasSave \in [Game -> BOOLEAN] /\ dirty \in [Game -> BOOLEAN]
        /\ reserved \in BOOLEAN /\ Stopped \in BOOLEAN /\ crashed \in BOOLEAN /\ hurried \in BOOLEAN
    BY DEF Init
  <2>2. done \in [Game -> 1..2] /\ closed \in [Game -> SUBSET (1..2)]
    BY DEF Init
  <2>3. /\ mu \in [Game -> Who \cup {"free"}] /\ mui \in [Game -> {"free", "start", "hand"}]
        /\ busy \subseteq Game \X Who /\ core \in Game \cup {NoGame}
    BY DEF Init
  <2>4. /\ start \in [Game -> {"none", "off", "spawned", "stopped", "enter", "restore",
                              "autosave", "loop", "save", "unlock", "shutdown", "end"}]
        /\ auto \in [Game -> {"none", "wait", "save", "end"}]
        /\ hand = "idle" /\ game = NoGame /\ reserved
    BY DEF Init
  <2> QED
    BY <2>1, <2>2, <2>3, <2>4 DEF TypeOK
<1>2. Places /\ Locked /\ Fresh /\ Unplayed
  BY DEF Init, Places, Locked, Fresh, Unplayed, Inside
<1> QED
  BY <1>1, <1>2 DEF IInv

(* What it is to enter the core, and to leave it.                          *)
EnteredBy(g, w) ==
  /\ busy' \subseteq Game \X Who /\ crashed' \in BOOLEAN
  /\ mu[g] = "free" /\ mu' = [mu EXCEPT ![g] = w]
  /\ \A h \in Game, v \in Who : Inside(h, v)' <=> Inside(h, v) \/ (h = g /\ v = w)

LeftBy(g, w) ==
  /\ busy' \subseteq Game \X Who /\ crashed' = crashed
  /\ Inside(g, w) /\ mu' = [mu EXCEPT ![g] = "free"]
  /\ \A h \in Game, v \in Who : Inside(h, v)' <=> Inside(h, v) /\ ~(h = g /\ v = w)

LEMMA Enters ==
  ASSUME TypeOK, NEW g \in Game, NEW w \in Who, Enter(g, w)
  PROVE  EnteredBy(g, w)
BY DEF TypeOK, Enter, Inside, EnteredBy

LEMMA Leaves ==
  ASSUME TypeOK, NEW g \in Game, NEW w \in Who, Leave(g, w)
  PROVE  LeftBy(g, w)
BY DEF TypeOK, Leave, Inside, LeftBy

(* A goroutine that calls the core and changes nothing else.               *)
Rest == <<nanoVars, hand, game, start, auto, mui, done, closed, saveVars, hurried>>

MayEnter(g, w) ==
  /\ w = "start" => start[g] \in {"restore", "loop", "save", "shutdown"}
  /\ w = "auto" => auto[g] = "save"
  /\ w = "hand" => game = g /\ hand \in {"save", "restore", "reset"}

LEMMA EnterKeeps ==
  ASSUME IInv, NEW g \in Game, NEW w \in Who, Enter(g, w), MayEnter(g, w), UNCHANGED Rest
  PROVE  IInv'
<1> USE DEF IInv, Rest, nanoVars, saveVars
<1>1. EnteredBy(g, w)
  BY Enters
<1>2. TypeOK'
  BY <1>1 DEF TypeOK, EnteredBy
<1>3. Places'
  BY <1>1 DEF Places, EnteredBy, MayEnter, Who
<1>4. Locked'
  BY <1>1 DEF TypeOK, Places, Locked, EnteredBy, MayEnter, Who
<1>5. Fresh' /\ Unplayed'
  BY DEF Fresh, Unplayed
<1> QED
  BY <1>2, <1>3, <1>4, <1>5

-----------------------------------------------------------------------------
LEMMA NewGameKeeps ==
  ASSUME IInv, NEW g \in Game, NewGame(g)
  PROVE  IInv'
<1> USE DEF IInv, nanoVars, callVars, saveVars, Who, Inside, Set, NewGame
<1>0. hurried' \in BOOLEAN
  BY DEF NewGame
<1>1. TypeOK'
  <2>1. /\ game' = g /\ hand' = "reserve" /\ reserved' /\ g # NoGame
        /\ start' = [start EXCEPT ![g] = "off"]
    BY GameAssumption DEF TypeOK
  <2> QED
    BY <1>0, <2>1 DEF TypeOK
<1>2. Places'
  BY DEF TypeOK, Places
<1>3. Locked'
  BY DEF TypeOK, Places, Locked
<1>4. Fresh' /\ Unplayed'
  BY DEF TypeOK, Places, Fresh, Unplayed
<1> QED
  BY <1>1, <1>2, <1>3, <1>4

LEMMA RequestKeeps ==
  ASSUME IInv, Request
  PROVE  IInv'
<1>0. game \in Game /\ "hand" \in Who /\ TypeOK
  BY DEF IInv, TypeOK, Who, Request
<1>1. CASE Enter(game, "hand") /\ UNCHANGED Rest
  <2>1. MayEnter(game, "hand")
    BY DEF Request, MayEnter
  <2> QED
    BY <1>0, <1>1, <2>1, EnterKeeps
<1>2. CASE /\ Leave(game, "hand")
           /\ ~(Enter(game, "hand") /\ UNCHANGED Rest)
  <2>1. /\ hand \in {"save", "restore", "reset"} /\ hand' = "idle"
        /\ hasSave' = IF hand = "save" THEN [hasSave EXCEPT ![game] = TRUE] ELSE hasSave
        /\ dirty' = IF hand = "reset" THEN dirty ELSE [dirty EXCEPT ![game] = FALSE]
        /\ UNCHANGED <<reserved, Stopped, core, game, start, auto, mui, done, closed, hurried>>
    BY <1>2 DEF Request, Rest, nanoVars, saveVars, Set
  <2>2. LeftBy(game, "hand")
    BY <1>0, <1>2, Leaves
  <2>3. TypeOK'
    BY <1>0, <2>1, <2>2 DEF TypeOK, LeftBy
  <2>4. Places'
    BY <1>0, <2>1, <2>2 DEF IInv, TypeOK, Places, LeftBy, Who
  <2>5. Locked'
    BY <1>0, <2>1, <2>2 DEF IInv, TypeOK, Places, Locked, LeftBy, Who
  <2>6. Fresh' /\ Unplayed'
    BY <1>0, <2>1, <2>2 DEF IInv, TypeOK, Places, Fresh, Unplayed, LeftBy
  <2> QED
    BY <2>3, <2>4, <2>5, <2>6 DEF IInv
<1> QED
  BY <1>1, <1>2 DEF Request, Rest, nanoVars, saveVars

LEMMA RestoreKeeps ==
  ASSUME IInv, NEW g \in Game, Restore(g)
  PROVE  IInv'
<1>0. g \in Game /\ "start" \in Who /\ TypeOK
  BY DEF IInv, TypeOK, Who, Restore
<1>1. CASE Enter(g, "start") /\ UNCHANGED Rest
  <2>1. MayEnter(g, "start")
    BY DEF Restore, MayEnter
  <2> QED
    BY <1>0, <1>1, <2>1, EnterKeeps
<1>2. CASE /\ Leave(g, "start")
           /\ ~(Enter(g, "start") /\ UNCHANGED Rest)
  <2>1. /\ start[g] = "restore" /\ start' = [start EXCEPT ![g] = "autosave"]
        /\ dirty' = [dirty EXCEPT ![g] = FALSE]
        /\ UNCHANGED <<reserved, Stopped, core, hand, game, auto, mui, done, closed, hasSave,
                       hurried>>
    BY <1>2 DEF Restore, Rest, nanoVars, saveVars, Set, Go
  <2>2. LeftBy(g, "start")
    BY <1>0, <1>2, Leaves
  <2>3. TypeOK'
    BY <1>0, <2>1, <2>2 DEF TypeOK, LeftBy
  <2>4. Places'
    BY <1>0, <2>1, <2>2 DEF IInv, TypeOK, Places, LeftBy, Who
  <2>5. Locked'
    BY <1>0, <2>1, <2>2 DEF IInv, TypeOK, Places, Locked, LeftBy, Who
  <2>6. Fresh' /\ Unplayed'
    BY <1>0, <2>1, <2>2 DEF IInv, TypeOK, Places, Fresh, Unplayed, LeftBy
  <2> QED
    BY <2>3, <2>4, <2>5, <2>6 DEF IInv
<1> QED
  BY <1>1, <1>2 DEF Restore, Rest, nanoVars, saveVars

LEMMA TickKeeps ==
  ASSUME IInv, NEW g \in Game, Tick(g)
  PROVE  IInv'
<1>0. g \in Game /\ "start" \in Who /\ TypeOK
  BY DEF IInv, TypeOK, Who, Tick
<1>1. CASE Enter(g, "start") /\ UNCHANGED Rest
  <2>1. MayEnter(g, "start")
    BY DEF Tick, MayEnter
  <2> QED
    BY <1>0, <1>1, <2>1, EnterKeeps
<1>2. CASE /\ Leave(g, "start")
           /\ ~(Enter(g, "start") /\ UNCHANGED Rest)
  <2>1. /\ start[g] = "loop" /\ dirty' = [dirty EXCEPT ![g] = TRUE]
        /\ UNCHANGED <<reserved, Stopped, core, hand, game, start, auto, mui, done, closed, hasSave,
                       hurried>>
    BY <1>2 DEF Tick, Rest, nanoVars, saveVars, Set
  <2>2. LeftBy(g, "start")
    BY <1>0, <1>2, Leaves
  <2>3. TypeOK'
    BY <1>0, <2>1, <2>2 DEF TypeOK, LeftBy
  <2>4. Places'
    BY <1>0, <2>1, <2>2 DEF IInv, TypeOK, Places, LeftBy, Who
  <2>5. Locked'
    BY <1>0, <2>1, <2>2 DEF IInv, TypeOK, Places, Locked, LeftBy, Who
  <2>6. Fresh' /\ Unplayed'
    BY <1>0, <2>1, <2>2 DEF IInv, TypeOK, Places, Fresh, Unplayed, LeftBy
  <2> QED
    BY <2>3, <2>4, <2>5, <2>6 DEF IInv
<1> QED
  BY <1>1, <1>2 DEF Tick, Rest, nanoVars, saveVars

LEMMA SaveOnQuitKeeps ==
  ASSUME IInv, NEW g \in Game, SaveOnQuit(g)
  PROVE  IInv'
<1>0. g \in Game /\ "start" \in Who /\ TypeOK
  BY DEF IInv, TypeOK, Who, SaveOnQuit
<1>1. CASE Enter(g, "start") /\ UNCHANGED Rest
  <2>1. MayEnter(g, "start")
    BY DEF SaveOnQuit, MayEnter
  <2> QED
    BY <1>0, <1>1, <2>1, EnterKeeps
<1>2. CASE /\ Leave(g, "start")
           /\ ~(Enter(g, "start") /\ UNCHANGED Rest)
  <2>1. /\ start[g] = "save" /\ start' = [start EXCEPT ![g] = "unlock"]
        /\ hasSave' = [hasSave EXCEPT ![g] = TRUE]
        /\ dirty' = [dirty EXCEPT ![g] = FALSE]
        /\ UNCHANGED <<reserved, Stopped, core, hand, game, auto, mui, done, closed, hurried>>
    BY <1>2 DEF SaveOnQuit, Rest, nanoVars, saveVars, Set, Go, Saved
  <2>2. LeftBy(g, "start")
    BY <1>0, <1>2, Leaves
  <2>3. TypeOK'
    BY <1>0, <2>1, <2>2 DEF TypeOK, LeftBy
  <2>4. Places'
    BY <1>0, <2>1, <2>2 DEF IInv, TypeOK, Places, LeftBy, Who
  <2>5. Locked'
    BY <1>0, <2>1, <2>2 DEF IInv, TypeOK, Places, Locked, LeftBy, Who
  <2>6. Fresh' /\ Unplayed'
    BY <1>0, <2>1, <2>2 DEF IInv, TypeOK, Places, Fresh, Unplayed, LeftBy
  <2> QED
    BY <2>3, <2>4, <2>5, <2>6 DEF IInv
<1> QED
  BY <1>1, <1>2 DEF SaveOnQuit, Rest, nanoVars, saveVars

LEMMA ShutdownKeeps ==
  ASSUME IInv, NEW g \in Game, Shutdown(g)
  PROVE  IInv'
<1>0. g \in Game /\ "start" \in Who /\ TypeOK
  BY DEF IInv, TypeOK, Who, Shutdown
<1>1. CASE Enter(g, "start") /\ UNCHANGED Rest
  <2>1. MayEnter(g, "start")
    BY DEF Shutdown, MayEnter
  <2> QED
    BY <1>0, <1>1, <2>1, EnterKeeps
<1>2. CASE /\ Leave(g, "start")
           /\ ~(Enter(g, "start") /\ UNCHANGED Rest)
  <2>1. /\ start[g] = "shutdown" /\ start' = [start EXCEPT ![g] = "end"]
        /\ core' = NoGame
        /\ mui' = IF mui[g] = "start" THEN [mui EXCEPT ![g] = "free"] ELSE mui
        /\ UNCHANGED <<reserved, Stopped, hand, game, auto, done, closed, hasSave, dirty, hurried>>
    BY <1>2 DEF Shutdown, Rest, nanoVars, saveVars, Set, Go
  <2>2. LeftBy(g, "start")
    BY <1>0, <1>2, Leaves
  <2>3. TypeOK'
    BY <1>0, <2>1, <2>2 DEF TypeOK, LeftBy
  <2>4. Places'
    BY <1>0, <2>1, <2>2 DEF IInv, TypeOK, Places, LeftBy, Who
  <2>5. Locked'
    BY <1>0, <2>1, <2>2 DEF IInv, TypeOK, Places, Locked, LeftBy, Who
  <2>6. Fresh' /\ Unplayed'
    BY <1>0, <2>1, <2>2 DEF IInv, TypeOK, Places, Fresh, Unplayed, LeftBy
  <2> QED
    BY <2>3, <2>4, <2>5, <2>6 DEF IInv
<1> QED
  BY <1>1, <1>2 DEF Shutdown, Rest, nanoVars, saveVars

LEMMA AutosaveKeeps ==
  ASSUME IInv, NEW g \in Game, Autosave(g)
  PROVE  IInv'
<1>0. g \in Game /\ "auto" \in Who /\ TypeOK
  BY DEF IInv, TypeOK, Who, Autosave
<1>1. CASE Enter(g, "auto") /\ UNCHANGED Rest
  <2>1. MayEnter(g, "auto")
    BY DEF Autosave, MayEnter
  <2> QED
    BY <1>0, <1>1, <2>1, EnterKeeps
<1>2. CASE /\ Leave(g, "auto")
           /\ ~(Enter(g, "auto") /\ UNCHANGED Rest)
  <2>1. /\ auto[g] = "save" /\ auto' = [auto EXCEPT ![g] = "wait"]
        /\ hasSave' = [hasSave EXCEPT ![g] = TRUE]
        /\ dirty' = [dirty EXCEPT ![g] = FALSE]
        /\ UNCHANGED <<reserved, Stopped, core, hand, game, start, mui, done, closed, hurried>>
    BY <1>2 DEF Autosave, Rest, nanoVars, saveVars, Set, Saved
  <2>2. LeftBy(g, "auto")
    BY <1>0, <1>2, Leaves
  <2>3. TypeOK'
    BY <1>0, <2>1, <2>2 DEF TypeOK, LeftBy
  <2>4. Places'
    BY <1>0, <2>1, <2>2 DEF IInv, TypeOK, Places, LeftBy, Who
  <2>5. Locked'
    BY <1>0, <2>1, <2>2 DEF IInv, TypeOK, Places, Locked, LeftBy, Who
  <2>6. Fresh' /\ Unplayed'
    BY <1>0, <2>1, <2>2 DEF IInv, TypeOK, Places, Fresh, Unplayed, LeftBy
  <2> QED
    BY <2>3, <2>4, <2>5, <2>6 DEF IInv
<1> QED
  BY <1>1, <1>2 DEF Autosave, Rest, nanoVars, saveVars

-----------------------------------------------------------------------------
(* The steps that enter or leave nothing, or load the game.                *)
LEMMA PlayersKeeps ==
  ASSUME IInv, Players
  PROVE  IInv'
<1> USE DEF IInv, TypeOK, Places, Locked, Fresh, Unplayed, nanoVars, callVars, saveVars, Who, Inside
<1>1. CASE \E g \in Game : NewGame(g)
  BY <1>1, NewGameKeeps
<1>2. CASE BeginRequest
  BY <1>2 DEF BeginRequest
<1>3. CASE CloseRoom
  BY <1>3 DEF CloseRoom
<1> QED
  BY <1>1, <1>2, <1>3 DEF Players

LEMMA HandlerKeeps ==
  ASSUME IInv, Handler
  PROVE  IInv'
<1> USE DEF IInv, TypeOK, Places, Locked, Fresh, Unplayed, nanoVars, callVars, saveVars, Who, Inside
<1>1. CASE NewFrontend
  BY <1>1, GameAssumption DEF NewFrontend
<1>2. CASE BeginLoadCore
  BY <1>2 DEF Set, BeginLoadCore
<1>3. CASE EndLoadCore
  BY <1>3 DEF Leave, EndLoadCore
<1>4. CASE BeginLoadGame
  BY <1>4 DEF BeginLoadGame
<1>5. ASSUME NEW ok \in BOOLEAN, LoadGame(ok) PROVE IInv'
  BY <1>5 DEF LoadGame
<1>6. ASSUME NEW ok \in BOOLEAN, StartApp(ok) PROVE IInv'
  BY <1>6 DEF Set, StartApp
<1>7. CASE Request
  BY <1>7, RequestKeeps
<1>8. CASE CloseDone
  BY <1>8 DEF CloseDone
<1>9. CASE CloseLock
  BY <1>9 DEF Set, CloseLock
<1>10. CASE NanoClose
  BY <1>10, GameAssumption DEF Set, NanoClose
<1> QED
  BY <1>1, <1>2, <1>3, <1>4, <1>5, <1>6, <1>7, <1>8, <1>9, <1>10 DEF Handler

LEMMA StarterKeeps ==
  ASSUME IInv, NEW g \in Game, Starter(g)
  PROVE  IInv'
<1> USE DEF IInv, TypeOK, Places, Locked, Fresh, Unplayed, nanoVars, callVars, saveVars, Who, Inside
<1>1. CASE CheckStopped(g)
  BY <1>1 DEF Go, Set, CheckStopped
<1>2. CASE StopEarly(g)
  BY <1>2 DEF Go, Set, StopEarly
<1>3. CASE EnterLoop(g)
  BY <1>3 DEF Go, Set, EnterLoop
<1>4. CASE Restore(g)
  BY <1>4, RestoreKeeps
<1>5. CASE SpawnAutosave(g)
  BY <1>5 DEF Go, Set, SpawnAutosave
<1>6. CASE Tick(g)
  BY <1>6, TickKeeps
<1>7. CASE Quit(g)
  BY <1>7 DEF Go, Set, Quit
<1>8. CASE SaveOnQuit(g)
  BY <1>8, SaveOnQuitKeeps
<1>9. CASE Unlock(g)
  BY <1>9 DEF Go, Set, Unlock
<1>10. CASE Shutdown(g)
  BY <1>10, ShutdownKeeps
<1> QED
  BY <1>1, <1>2, <1>3, <1>4, <1>5, <1>6, <1>7, <1>8, <1>9, <1>10 DEF Starter

LEMMA AutosaverKeeps ==
  ASSUME IInv, NEW g \in Game, Autosaver(g)
  PROVE  IInv'
<1> USE DEF IInv, TypeOK, Places, Locked, Fresh, Unplayed, nanoVars, callVars, saveVars, Who, Inside
<1>1. CASE AutosaveWakes(g)
  BY <1>1 DEF Set, AutosaveWakes
<1>2. CASE Autosave(g)
  BY <1>2, AutosaveKeeps
<1> QED
  BY <1>1, <1>2 DEF Autosaver

LEMMA Keeps ==
  ASSUME IInv, [Next]_vars
  PROVE  IInv'
<1>1. CASE UNCHANGED vars
  BY <1>1 DEF vars, IInv, TypeOK, Places, Locked, Fresh, Unplayed, Inside
<1> QED
  BY <1>1, PlayersKeeps, HandlerKeeps, StarterKeeps, AutosaverKeeps DEF Next

(* The invariant holds for any games: who is inside the core holds the     *)
(* mutex, and a frame not saved belongs to a loop that goes on.            *)
THEOREM Invariant == Spec => []IInv
<1>1. IInv /\ [Next]_vars => IInv'
  BY Keeps
<1> QED
  BY Initially, <1>1, PTL DEF Spec

(* The types hold, and the core is reserved exactly while a frontend is    *)
(* made, used or closed.                                                   *)
THEOREM TypeCorrect == Spec => []TypeOK
<1>1. IInv => TypeOK
  BY DEF IInv
<1> QED
  BY Invariant, <1>1, PTL

LEMMA AtMostOne ==
  ASSUME NEW S, \A x, y \in S : x = y
  PROVE  Cardinality(S) <= 1
<1>1. CASE S = {}
  BY <1>1, FS_EmptySet
<1>2. CASE S # {}
  <2>1. PICK x \in S : TRUE
    BY <1>2
  <2>2. S = {x}
    BY <2>1
  <2> QED
    BY <2>2, FS_Singleton
<1> QED
  BY <1>1, <1>2

(* The calls of one frontend into the core never overlap.                  *)
THEOREM CallsNeverOverlap == Spec => []OneCallAtATime
<1>1. ASSUME IInv, NEW g \in Game PROVE \A v, w \in Who : Inside(g, v) /\ Inside(g, w) => v = w
  BY <1>1 DEF IInv, TypeOK, Places, Locked, Who
<1>2. ASSUME IInv, NEW g \in Game PROVE Cardinality({w \in Who : Inside(g, w)}) <= 1
  BY <1>1, <1>2, AtMostOne
<1>3. IInv => OneCallAtATime
  BY <1>2 DEF OneCallAtATime
<1> QED
  BY Invariant, <1>3, PTL

(* A game that was ever saved loses no frame when it is quit.              *)
THEOREM NoFrameIsLost == Spec => []QuitKeepsTheGame
<1>1. IInv => QuitKeepsTheGame
  BY DEF IInv, Fresh, QuitKeepsTheGame
<1> QED
  BY Invariant, <1>1, PTL

-----------------------------------------------------------------------------
(* Which goroutine changes what                                            *)

LEMMA EnterFrame ==
  ASSUME IInv, NEW g \in Game, NEW w \in Who, Enter(g, w) \/ Leave(g, w)
  PROVE  \A h \in Game, v \in Who :
           <<h, v>> # <<g, w>> => (Inside(h, v)' <=> Inside(h, v))
BY Enters, Leaves DEF IInv, EnteredBy, LeftBy

HandlerFrame ==
  /\ \A g \in Game :
       /\ Inside(g, "start")' <=> Inside(g, "start")
       /\ Inside(g, "auto")' <=> Inside(g, "auto")
       /\ closed[g] \subseteq closed'[g]
       /\ start'[g] # start[g] =>
            \/ start[g] = "none" /\ start'[g] = "off"
            \/ hand = "media" /\ game = g /\ start'[g] = "spawned"
  /\ UNCHANGED <<auto, done>>

LEMMA HandlerChanges ==
  ASSUME IInv, Players \/ Handler
  PROVE  HandlerFrame
<1> USE DEF HandlerFrame, IInv, TypeOK, nanoVars, callVars, saveVars, Set, Inside
<1>1. CASE Players
  BY <1>1 DEF Players, NewGame, BeginRequest, CloseRoom
<1>2. CASE NewFrontend \/ CloseDone \/ CloseLock \/ NanoClose
  BY <1>2 DEF NewFrontend, CloseDone, CloseLock, NanoClose
<1>3. CASE BeginLoadCore \/ BeginLoadGame
  BY <1>3 DEF BeginLoadCore, BeginLoadGame
<1>4. CASE EndLoadCore
  BY <1>4 DEF EndLoadCore, Leave
<1>5. ASSUME NEW ok \in BOOLEAN, LoadGame(ok) PROVE HandlerFrame
  BY <1>5 DEF LoadGame
<1>6. ASSUME NEW ok \in BOOLEAN, StartApp(ok) PROVE HandlerFrame
  BY <1>6 DEF StartApp
<1>7. CASE Request
  BY <1>7 DEF Request, Enter, Leave
<1> QED
  BY <1>1, <1>2, <1>3, <1>4, <1>5, <1>6, <1>7 DEF Handler

StarterFrame(g) ==
  /\ \A h \in Game, w \in Who :
       <<h, w>> # <<g, "start">> => (Inside(h, w)' <=> Inside(h, w))
  /\ \A h \in Game \ {g} :
       start'[h] = start[h] /\ auto'[h] = auto[h] /\ done'[h] = done[h] /\ mui'[h] = mui[h]
  /\ UNCHANGED <<reserved, Stopped, hand, game, closed, hurried>>

LEMMA StarterChanges ==
  ASSUME IInv, NEW g \in Game, Starter(g)
  PROVE  StarterFrame(g)
<1> USE DEF StarterFrame, IInv, TypeOK, nanoVars, callVars, saveVars, Set, Go
<1>1. CASE CheckStopped(g) \/ StopEarly(g) \/ EnterLoop(g)
  BY <1>1 DEF CheckStopped, StopEarly, EnterLoop, Inside
<1>2. CASE SpawnAutosave(g) \/ Quit(g) \/ Unlock(g)
  BY <1>2 DEF SpawnAutosave, Quit, Unlock, Inside
<1>3. "start" \in Who
  BY DEF Who
<1>4. CASE Restore(g)
  BY <1>3, <1>4, EnterFrame DEF Restore
<1>5. CASE Tick(g)
  BY <1>3, <1>5, EnterFrame DEF Tick
<1>6. CASE SaveOnQuit(g)
  BY <1>3, <1>6, EnterFrame DEF SaveOnQuit
<1>7. CASE Shutdown(g)
  BY <1>3, <1>7, EnterFrame DEF Shutdown
<1> QED
  BY <1>1, <1>2, <1>4, <1>5, <1>6, <1>7 DEF Starter

AutosaverFrame(g) ==
  /\ \A h \in Game, w \in Who :
       <<h, w>> # <<g, "auto">> => (Inside(h, w)' <=> Inside(h, w))
  /\ \A h \in Game \ {g} : auto'[h] = auto[h]
  /\ UNCHANGED <<reserved, Stopped, hand, game, start, mui, done, closed, hurried>>

LEMMA AutosaverChanges ==
  ASSUME IInv, NEW g \in Game, Autosaver(g)
  PROVE  AutosaverFrame(g)
<1> USE DEF AutosaverFrame, IInv, TypeOK, nanoVars, callVars, saveVars, Set
<1>1. CASE AutosaveWakes(g)
  BY <1>1 DEF AutosaveWakes, Inside
<1>2. "auto" \in Who
  BY DEF Who
<1>3. CASE Autosave(g)
  BY <1>2, <1>3, EnterFrame DEF Autosave
<1> QED
  BY <1>1, <1>3 DEF Autosaver

-----------------------------------------------------------------------------
(* Who holds a mutex, and what a game that is left in time looks like      *)

(* Who holds mu is inside the core.                                        *)
Held ==
  \A g \in Game : mu[g] # "free" =>
    Inside(g, mu[g]) /\ ~(mu[g] = "hand" /\ hand = "load")

Opening == {"reserve", "core", "load", "media"}

Running == {"restore", "autosave", "loop", "save", "unlock"}

(* Start goes ahead in the room it was spawned for.                        *)
StartsInTime ==
  \A g \in Game :
    /\ start[g] # "stopped"
    /\ start[g] \in {"spawned", "enter"} =>
         closed[g] = {} /\ ~Stopped /\ game = g /\ hand \notin {"close", "mui", "nano"}
    /\ game = g => start[g] # "none"
    /\ start[g] = "none" \/ (game = g /\ hand \in Opening) => closed[g] = {}

(* A channel that was closed is the one Start listens to.                  *)
ClosedInTime ==
  /\ \A g \in Game : closed[g] # {} =>
       \/ Ended(g)
       \/ IsDone(g) /\ (Stopped \/ (game = g /\ hand \in {"mui", "nano"}))
  /\ hand \in {"mui", "nano"} => IsDone(game)

(* Whoever holds mui is at the work it was taken for.                      *)
MuiHeld ==
  \A g \in Game :
    /\ mui[g] = "start" => start[g] \in Running
    /\ mui[g] = "hand" => game = g /\ hand = "nano"

(* A game is opened when the one before it has ended.                      *)
OpenedInTime ==
  /\ hand \in Opening => \A g \in Game : Ended(g)
  /\ hand = "media" => ~Stopped

Unhurried == StartsInTime /\ ClosedInTime /\ MuiHeld /\ OpenedInTime

LEMMA HeldByHandler ==
  ASSUME IInv, Held, Players \/ Handler
  PROVE  Held'
<1> USE DEF IInv, TypeOK, Places, Held, nanoVars, callVars, saveVars, Set
<1>1. CASE Players
  BY <1>1 DEF Players, NewGame, BeginRequest, CloseRoom, Inside
<1>2. CASE NewFrontend \/ CloseDone \/ CloseLock \/ NanoClose
  BY <1>2 DEF NewFrontend, CloseDone, CloseLock, NanoClose, Inside
<1>3. CASE BeginLoadCore \/ BeginLoadGame
  BY <1>3 DEF BeginLoadCore, BeginLoadGame, Inside
<1>4. CASE EndLoadCore
  BY <1>4 DEF EndLoadCore, Leave, Inside, Who
<1>5. ASSUME NEW ok \in BOOLEAN, LoadGame(ok) PROVE Held'
  BY <1>5 DEF LoadGame, Inside, Who
<1>6. ASSUME NEW ok \in BOOLEAN, StartApp(ok) PROVE Held'
  BY <1>6 DEF StartApp, Inside
<1>7. CASE Request
  BY <1>7 DEF Request, Enter, Leave, Inside, Who
<1> QED
  BY <1>1, <1>2, <1>3, <1>4, <1>5, <1>6, <1>7 DEF Handler

LEMMA HeldByStarter ==
  ASSUME IInv, Held, NEW g \in Game, Starter(g)
  PROVE  Held'
<1> USE DEF IInv, TypeOK, Held, nanoVars, callVars, saveVars, Set, Go, Who
<1>1. CASE CheckStopped(g) \/ StopEarly(g) \/ EnterLoop(g)
  BY <1>1 DEF CheckStopped, StopEarly, EnterLoop, Inside
<1>2. CASE SpawnAutosave(g) \/ Quit(g) \/ Unlock(g)
  BY <1>2 DEF SpawnAutosave, Quit, Unlock, Inside
<1>3. UNCHANGED hand
  BY StarterChanges DEF StarterFrame
<1>4. CASE Enter(g, "start")
  BY <1>3, <1>4, Enters DEF EnteredBy
<1>5. CASE Leave(g, "start")
  BY <1>3, <1>5, Leaves DEF LeftBy
<1> QED
  BY <1>1, <1>2, <1>4, <1>5 DEF Starter, Restore, Tick, SaveOnQuit, Shutdown

LEMMA HeldByAutosaver ==
  ASSUME IInv, Held, NEW g \in Game, Autosaver(g)
  PROVE  Held'
<1> USE DEF IInv, TypeOK, Held, nanoVars, callVars, saveVars, Set, Who
<1>1. CASE AutosaveWakes(g)
  BY <1>1 DEF AutosaveWakes, Inside
<1>2. UNCHANGED hand
  BY AutosaverChanges DEF AutosaverFrame
<1>3. CASE Enter(g, "auto")
  BY <1>2, <1>3, Enters DEF EnteredBy
<1>4. CASE Leave(g, "auto")
  BY <1>2, <1>4, Leaves DEF LeftBy
<1> QED
  BY <1>1, <1>3, <1>4 DEF Autosaver, Autosave

LEMMA UnhurriedByHandler ==
  ASSUME IInv, Unhurried, Players \/ Handler, ~hurried'
  PROVE  Unhurried'
<1> USE GameAssumption
    DEF IInv, TypeOK, Places, Unhurried, StartsInTime, ClosedInTime, MuiHeld, OpenedInTime,
        Opening, Running, Ended, IsDone, Inside, nanoVars, callVars, saveVars, Set
<1>1. ASSUME NEW g \in Game, NewGame(g) PROVE Unhurried'
  BY <1>1 DEF NewGame
<1>2. CASE BeginRequest
  BY <1>2 DEF BeginRequest
<1>12. CASE CloseRoom
  BY <1>12 DEF CloseRoom
<1>3. CASE NewFrontend
  BY <1>3 DEF NewFrontend
<1>4. CASE BeginLoadCore \/ BeginLoadGame
  BY <1>4 DEF BeginLoadCore, BeginLoadGame
<1>5. CASE EndLoadCore
  BY <1>5 DEF EndLoadCore, Leave
<1>6. ASSUME NEW ok \in BOOLEAN, LoadGame(ok) PROVE Unhurried'
  BY <1>6 DEF LoadGame
<1>7. ASSUME NEW ok \in BOOLEAN, StartApp(ok) PROVE Unhurried'
  BY <1>7 DEF StartApp
<1>8. CASE Request
  BY <1>8 DEF Request, Enter, Leave
<1>9. CASE CloseDone
  BY <1>9 DEF CloseDone
<1>10. CASE CloseLock
  BY <1>10 DEF CloseLock
<1>11. CASE NanoClose
  BY <1>11 DEF NanoClose
<1> QED
  BY <1>1, <1>2, <1>3, <1>4, <1>5, <1>6, <1>7, <1>8, <1>9, <1>10, <1>11, <1>12 DEF Handler, Players

LEMMA UnhurriedByStarter ==
  ASSUME IInv, Unhurried, NEW g \in Game, Starter(g), ~hurried'
  PROVE  Unhurried'
<1> USE DEF IInv, TypeOK, Places, Unhurried, StartsInTime, ClosedInTime, MuiHeld, OpenedInTime,
        Opening, Running, Ended, IsDone, Inside, nanoVars, callVars, saveVars, Set, Go
<1>1. CASE CheckStopped(g)
  BY <1>1 DEF CheckStopped
<1>2. CASE StopEarly(g)
  BY <1>2 DEF StopEarly
<1>3. CASE EnterLoop(g)
  BY <1>3 DEF EnterLoop
<1>4. CASE Restore(g)
  BY <1>4 DEF Restore, Enter, Leave
<1>5. CASE SpawnAutosave(g)
  BY <1>5 DEF SpawnAutosave
<1>6. CASE Tick(g)
  BY <1>6 DEF Tick, Enter, Leave
<1>7. CASE Quit(g)
  BY <1>7 DEF Quit
<1>8. CASE SaveOnQuit(g)
  BY <1>8 DEF SaveOnQuit, Enter, Leave
<1>9. CASE Unlock(g)
  BY <1>9 DEF Unlock
<1>10. CASE Shutdown(g)
  BY <1>10 DEF Shutdown, Enter, Leave
<1> QED
  BY <1>1, <1>2, <1>3, <1>4, <1>5, <1>6, <1>7, <1>8, <1>9, <1>10 DEF Starter

LEMMA UnhurriedByAutosaver ==
  ASSUME IInv, Unhurried, NEW g \in Game, Autosaver(g), ~hurried'
  PROVE  Unhurried'
<1> USE DEF IInv, TypeOK, Places, Unhurried, StartsInTime, ClosedInTime, MuiHeld, OpenedInTime,
        Opening, Running, Ended, IsDone, Inside, nanoVars, callVars, saveVars, Set
<1>1. CASE AutosaveWakes(g)
  BY <1>1 DEF AutosaveWakes
<1>2. CASE Autosave(g)
  BY <1>2 DEF Autosave, Enter, Leave, Saved
<1> QED
  BY <1>1, <1>2 DEF Autosaver

Inv == IInv /\ Held /\ (~hurried => Unhurried)

LEMMA HurryStays == ASSUME IInv, [Next]_vars, ~hurried' PROVE ~hurried
BY DEF IInv, TypeOK, Next, vars, Players, NewGame, BeginRequest, CloseRoom, Handler, NewFrontend,
       BeginLoadCore, EndLoadCore, BeginLoadGame, LoadGame, StartApp, Request, CloseDone,
       CloseLock, NanoClose, Starter, Autosaver, CheckStopped, StopEarly, EnterLoop, Restore,
       SpawnAutosave, Tick, Quit, SaveOnQuit, Unlock, Shutdown, AutosaveWakes, Autosave

(* Both are kept, the second as long as nobody hurries.                    *)
THEOREM LivingInvariant == Spec => []Inv
<1>1. Init => Inv
  BY Initially, GameAssumption
  DEF Init, Inv, Held, Unhurried, StartsInTime, ClosedInTime, MuiHeld, OpenedInTime, Opening
<1>2. IInv /\ IInv' /\ Inv /\ [Next]_vars => Inv'
  <2> SUFFICES ASSUME IInv, IInv', Held, ~hurried => Unhurried, [Next]_vars
               PROVE  Held' /\ (~hurried' => Unhurried')
    BY DEF Inv
  <2>1. CASE UNCHANGED vars
    BY <2>1
    DEF vars, Held, Unhurried, StartsInTime, ClosedInTime, MuiHeld, OpenedInTime, Ended, IsDone,
        Inside
  <2> QED
    BY <2>1, HurryStays, HeldByHandler, HeldByStarter, HeldByAutosaver, UnhurriedByHandler,
       UnhurriedByStarter, UnhurriedByAutosaver
    DEF Next
<1> QED
  BY <1>1, <1>2, Invariant, PTL DEF Spec

-----------------------------------------------------------------------------
(* Whoever takes mu gives it back                                          *)

Live == FairSpec /\ []StepsAreEnabled

LEMMA MuStays ==
  ASSUME Inv, NEW g \in Game, NEW w \in Who, mu[g] = w, [Next]_vars
  PROVE  mu'[g] = w \/ mu'[g] = "free"
<1> USE DEF Inv, IInv, TypeOK, nanoVars, callVars, saveVars, Set, Who
<1>1. CASE Players \/ NewFrontend \/ BeginLoadGame \/ CloseDone \/ CloseLock \/ NanoClose
  BY <1>1 DEF Players, NewGame, BeginRequest, CloseRoom, NewFrontend, BeginLoadGame, CloseDone,
              CloseLock, NanoClose
<1>2. CASE BeginLoadCore \/ EndLoadCore \/ Request
  BY <1>2 DEF BeginLoadCore, EndLoadCore, Request, Enter, Leave
<1>3. ASSUME NEW ok \in BOOLEAN, LoadGame(ok) \/ StartApp(ok) PROVE mu'[g] = w
  BY <1>3 DEF LoadGame, StartApp
<1>4. ASSUME NEW h \in Game, Starter(h) PROVE mu'[g] = w \/ mu'[g] = "free"
  BY <1>4 DEF Starter, CheckStopped, StopEarly, EnterLoop, Restore, SpawnAutosave, Tick, Quit,
              SaveOnQuit, Unlock, Shutdown, Enter, Leave
<1>5. ASSUME NEW h \in Game, Autosaver(h) PROVE mu'[g] = w \/ mu'[g] = "free"
  BY <1>5 DEF Autosaver, AutosaveWakes, Autosave, Enter, Leave
<1>6. CASE UNCHANGED vars
  BY <1>6 DEF vars
<1> QED
  BY <1>1, <1>2, <1>3, <1>4, <1>5, <1>6 DEF Next, Handler

LEMMA HandlerReleases ==
  ASSUME Inv, NEW g \in Game, mu[g] = "hand"
  PROVE  /\ ~crashed /\ StepsAreEnabled => ENABLED <<HandlerStep>>_vars
         /\ Handler => mu'[g] = "free"
<1>1. game = g /\ Inside(g, "hand") /\ hand \in {"core", "save", "restore", "reset"}
  BY DEF Inv, IInv, Held, Places
<1>2. ~crashed => HandlerCan
  BY <1>1 DEF HandlerCan
<1>3. ASSUME Handler PROVE mu'[g] = "free"
  BY <1>1, <1>3
  DEF Inv, IInv, TypeOK, Handler, NewFrontend, BeginLoadCore, EndLoadCore, BeginLoadGame, LoadGame,
      StartApp, Request, Enter, Leave, CloseDone, CloseLock, NanoClose, Set
<1> QED
  BY <1>2, <1>3 DEF StepsAreEnabled

LEMMA StarterReleases ==
  ASSUME Inv, NEW g \in Game, mu[g] = "start"
  PROVE  /\ ~crashed /\ StepsAreEnabled => ENABLED <<StarterStep(g)>>_vars
         /\ Starter(g) => mu'[g] = "free"
<1>1. Inside(g, "start") /\ start[g] \in {"restore", "loop", "save", "shutdown"}
  BY DEF Inv, IInv, Held, Places
<1>2. ~crashed => StarterCan(g)
  BY <1>1 DEF StarterCan
<1>3. ASSUME Starter(g) PROVE mu'[g] = "free"
  BY <1>1, <1>3
  DEF Inv, IInv, TypeOK, Starter, CheckStopped, StopEarly, EnterLoop, Restore, SpawnAutosave, Tick,
      Quit, SaveOnQuit, Unlock, Shutdown, Enter, Leave
<1> QED
  BY <1>2, <1>3 DEF StepsAreEnabled

LEMMA AutosaverReleases ==
  ASSUME Inv, NEW g \in Game, mu[g] = "auto"
  PROVE  /\ ~crashed /\ StepsAreEnabled => ENABLED <<AutosaverStep(g)>>_vars
         /\ Autosaver(g) => mu'[g] = "free"
<1>1. Inside(g, "auto") /\ auto[g] = "save"
  BY DEF Inv, IInv, Held, Places
<1>2. ~crashed => AutosaverCan(g)
  BY <1>1 DEF AutosaverCan
<1>3. ASSUME Autosaver(g) PROVE mu'[g] = "free"
  BY <1>1, <1>3 DEF Inv, IInv, TypeOK, Autosaver, AutosaveWakes, Autosave, Enter, Leave
<1> QED
  BY <1>2, <1>3 DEF StepsAreEnabled

LEMMA FrontendsAreFair == Fairness => \A g \in Game : FrontendFairness(g)
BY PTL DEF Fairness

MuFreed(g) == []<>(mu[g] = "free" \/ crashed)

LEMMA MuIsFreed == ASSUME NEW g \in Game PROVE Live => MuFreed(g)
<1> DEFINE By(w) == mu[g] = w
           Free == mu[g] = "free" \/ crashed
<1>1. /\ Inv /\ By("hand") /\ [Next]_vars => By("hand")' \/ Free'
      /\ Inv /\ By("start") /\ [Next]_vars => By("start")' \/ Free'
      /\ Inv /\ By("auto") /\ [Next]_vars => By("auto")' \/ Free'
  BY MuStays DEF Who
<1>2. /\ Inv /\ By("hand") /\ <<HandlerStep>>_vars => Free'
      /\ Inv /\ By("start") /\ <<StarterStep(g)>>_vars => Free'
      /\ Inv /\ By("auto") /\ <<AutosaverStep(g)>>_vars => Free'
  BY HandlerReleases, StarterReleases, AutosaverReleases DEF HandlerStep, StarterStep, AutosaverStep
<1>3. /\ Inv /\ StepsAreEnabled /\ By("hand") => Free \/ ENABLED <<HandlerStep>>_vars
      /\ Inv /\ StepsAreEnabled /\ By("start") => Free \/ ENABLED <<StarterStep(g)>>_vars
      /\ Inv /\ StepsAreEnabled /\ By("auto") => Free \/ ENABLED <<AutosaverStep(g)>>_vars
  BY HandlerReleases, StarterReleases, AutosaverReleases
<1>4. Inv => Free \/ By("hand") \/ By("start") \/ By("auto")
  BY DEF Inv, IInv, TypeOK, Who
<1>5. Fairness => FrontendFairness(g)
  BY FrontendsAreFair
<1> HIDE DEF By, Free
<1>6. Live => []<>Free
  BY <1>1, <1>2, <1>3, <1>4, <1>5, LivingInvariant, PTL
  DEF Live, FairSpec, Spec, Fairness, FrontendFairness
<1> QED
  BY <1>6, PTL DEF Free, MuFreed

-----------------------------------------------------------------------------
(* Start ends when its channel is closed                                   *)

Over == crashed \/ hurried

Closing(g) == IsDone(g) /\ ~Over

(* The steps Start has left once its channel is closed.                    *)
StartLeft(g) ==
  LET p == start[g] IN
  CASE p \in {"none", "off", "end"} -> 0
    [] p = "shutdown" -> IF Inside(g, "start") THEN 1 ELSE 2
    [] p = "unlock" -> 3
    [] p = "save" -> IF Inside(g, "start") THEN 4 ELSE 5
    [] p = "loop" -> IF Inside(g, "start") THEN 7 ELSE 6
    [] p = "autosave" -> 8
    [] p = "restore" -> IF Inside(g, "start") THEN 9 ELSE 10
    [] OTHER -> 11

LEMMA OverStays == ASSUME Inv, Over, [Next]_vars PROVE Over'
BY HurryStays DEF Over, Inv, IInv, TypeOK, Next, vars

LEMMA StartCounts ==
  ASSUME NEW g \in Game PROVE Inv /\ Closing(g) => StartLeft(g) \in 0..10
<1> SUFFICES ASSUME Inv, Closing(g) PROVE StartLeft(g) \in 0..10
  OBVIOUS
<1>1. start[g] \notin {"spawned", "enter", "stopped"}
  BY DEF Inv, Unhurried, StartsInTime, Closing, Over, IsDone
<1> QED
  BY <1>1 DEF Inv, IInv, TypeOK, StartLeft

LEMMA StartCountsAfter ==
  ASSUME NEW g \in Game PROVE (Inv /\ Closing(g) => StartLeft(g) \in 0..10)'
BY StartCounts, PTL

(* A closed channel stays the one Start listens to.                        *)
LEMMA ClosingStays ==
  ASSUME Inv, NEW g \in Game, Closing(g), [Next]_vars
  PROVE  Closing(g)' \/ Over'
<1> SUFFICES ASSUME ~Over' PROVE IsDone(g)'
  BY DEF Closing
<1>1. CASE Players \/ Handler
  BY <1>1, HandlerChanges DEF Inv, HandlerFrame, Closing, IsDone
<1>2. ASSUME NEW h \in Game, Starter(h) PROVE IsDone(g)'
  <2>1. UNCHANGED closed /\ (h # g => done'[g] = done[g])
    BY <1>2, StarterChanges DEF Inv, StarterFrame
  <2>2. start[g] \notin {"spawned", "enter", "stopped"}
    BY DEF Inv, Unhurried, StartsInTime, Closing, Over, IsDone
  <2>3. h = g => done' = done
    BY <1>2, <2>2
    DEF Starter, CheckStopped, StopEarly, EnterLoop, Restore, SpawnAutosave, Tick, Quit,
        SaveOnQuit, Unlock, Shutdown
  <2> QED
    BY <2>1, <2>3 DEF Closing, IsDone
<1>3. ASSUME NEW h \in Game, Autosaver(h) PROVE IsDone(g)'
  BY <1>3, AutosaverChanges DEF Inv, AutosaverFrame, Closing, IsDone
<1>4. CASE UNCHANGED vars
  BY <1>4 DEF vars, Closing, IsDone
<1> QED
  BY <1>1, <1>2, <1>3, <1>4 DEF Next

(* Nobody else makes Start go on.                                          *)
LEMMA StartWaits ==
  ASSUME Inv, NEW g \in Game, Closing(g), [Next]_vars, ~StarterStep(g)
  PROVE  StartLeft(g)' = StartLeft(g)
<1>0. "start" \in Who /\ ~(game = g /\ hand = "media")
  BY DEF Inv, Unhurried, StartsInTime, Opening, Closing, Over, IsDone, Who
<1>1. CASE Players \/ Handler
  <2>1. \/ start'[g] = start[g] /\ (Inside(g, "start")' <=> Inside(g, "start"))
        \/ start[g] = "none" /\ start'[g] = "off"
    BY <1>0, <1>1, HandlerChanges DEF Inv, HandlerFrame
  <2> QED
    BY <2>1 DEF StartLeft
<1>2. ASSUME NEW h \in Game \ {g}, Starter(h)
      PROVE  start'[g] = start[g] /\ (Inside(g, "start")' <=> Inside(g, "start"))
  BY <1>0, <1>2, StarterChanges DEF Inv, StarterFrame
<1>3. ASSUME NEW h \in Game, Autosaver(h)
      PROVE  start'[g] = start[g] /\ (Inside(g, "start")' <=> Inside(g, "start"))
  BY <1>0, <1>3, AutosaverChanges DEF Inv, AutosaverFrame
<1>4. CASE UNCHANGED vars
  BY <1>4 DEF vars, StartLeft, Inside
<1> QED
  BY <1>1, <1>2, <1>3, <1>4 DEF Next, StarterStep, StartLeft

LEMMA StartGoesOn ==
  ASSUME Inv, Inv', NEW g \in Game, Closing(g), Starter(g)
  PROVE  StartLeft(g)' < StartLeft(g)
<1> USE DEF Inv, IInv, TypeOK, StartLeft, Go, Set
<1>1. start[g] \notin {"spawned", "enter", "stopped"}
  BY DEF Unhurried, StartsInTime, Closing, Over, IsDone
<1>2. CASE Restore(g) \/ Tick(g) \/ SaveOnQuit(g) \/ Shutdown(g)
  <2>1. CASE ~Inside(g, "start")
    <3>1. Inside(g, "start")' /\ UNCHANGED start
      BY <1>2, <2>1 DEF Restore, Tick, SaveOnQuit, Shutdown, Enter, Leave, Inside
    <3> QED
      BY <1>2, <2>1, <3>1 DEF Restore, Tick, SaveOnQuit, Shutdown, Closing, Enter, Leave, Inside
  <2>2. CASE Inside(g, "start")
    BY <1>2, <2>2 DEF Restore, Tick, SaveOnQuit, Shutdown, Enter, Leave, Inside
  <2> QED
    BY <2>1, <2>2
<1>3. CASE SpawnAutosave(g) \/ Unlock(g)
  BY <1>3 DEF SpawnAutosave, Unlock, callVars, Inside
<1>4. CASE Quit(g)
  BY <1>4 DEF Quit, callVars, Inside
<1> QED
  BY <1>1, <1>2, <1>3, <1>4 DEF Starter, CheckStopped, StopEarly, EnterLoop

StartBelow(g, n) == Closing(g) /\ StartLeft(g) < n

StartDescent(g, k, n) == StartBelow(g, k) ~> (StartBelow(g, n) \/ Over)

LEMMA StartLess ==
  ASSUME NEW g \in Game, NEW n \in 1..10, NEW k \in 2..11, k = n + 1
  PROVE  Live => StartDescent(g, k, n)
<1> DEFINE At == Closing(g) /\ StartLeft(g) = n
           Goal == StartBelow(g, n) \/ Over
           Free == mu[g] = "free" \/ crashed
<1>1. Inv /\ Inv' /\ At /\ [Next]_vars => At' \/ Goal'
  <2> SUFFICES ASSUME Inv, Inv', At, [Next]_vars, ~Over' PROVE At' \/ StartBelow(g, n)'
    OBVIOUS
  <2>1. Closing(g)' /\ StartLeft(g)' \in 0..10
    BY ClosingStays, StartCountsAfter
  <2>2. StartLeft(g)' = n \/ StartLeft(g)' < n
    BY StartWaits, StartGoesOn DEF StarterStep
  <2> QED
    BY <2>1, <2>2 DEF StartBelow
<1>2. Inv /\ Inv' /\ At /\ <<StarterStep(g)>>_vars => Goal'
  BY ClosingStays, StartGoesOn DEF StarterStep, StartBelow, Next
<1>3. Inv /\ StepsAreEnabled /\ At /\ Free => ENABLED <<StarterStep(g)>>_vars
  <2> SUFFICES ASSUME Inv, StepsAreEnabled, At, Free PROVE ENABLED <<StarterStep(g)>>_vars
    OBVIOUS
  <2>1. StartLeft(g) # 0 /\ StartLeft(g) # 11
    OBVIOUS
  <2>2. start[g] \notin {"none", "off", "end", "spawned", "stopped", "enter"}
    BY <2>1 DEF StartLeft
  <2>3. StarterCan(g)
    BY <2>2 DEF StarterCan, Closing, Over
  <2> QED
    BY <2>3 DEF StepsAreEnabled
<1>4. Inv /\ StartBelow(g, k) => At \/ StartBelow(g, n)
  BY StartCounts DEF StartBelow
<1>5. Fairness => FrontendFairness(g)
  BY FrontendsAreFair
<1>6. Live => []<>Free
  BY MuIsFreed, PTL DEF MuFreed
<1>7. At => ~Over
  BY DEF Closing
<1> HIDE DEF At, Goal, Free
<1>8. Live => (At ~> Goal)
  BY <1>1, <1>2, <1>3, <1>5, <1>6, LivingInvariant, PTL DEF Live, FairSpec, Spec, FrontendFairness
<1> QED
  BY <1>4, <1>8, LivingInvariant, PTL DEF Live, FairSpec, Goal, StartDescent

StartEnds(g) == Closing(g) ~> (StartBelow(g, 1) \/ Over)

LEMMA ClosedStartEnds == ASSUME NEW g \in Game PROVE Live => StartEnds(g)
<1>1. Live => /\ StartDescent(g, 11, 10) /\ StartDescent(g, 10, 9) /\ StartDescent(g, 9, 8)
              /\ StartDescent(g, 8, 7) /\ StartDescent(g, 7, 6) /\ StartDescent(g, 6, 5)
              /\ StartDescent(g, 5, 4) /\ StartDescent(g, 4, 3) /\ StartDescent(g, 3, 2)
              /\ StartDescent(g, 2, 1)
  BY StartLess
<1>2. Inv /\ Closing(g) => StartBelow(g, 11)
  BY StartCounts DEF StartBelow
<1> QED
  BY <1>1, <1>2, LivingInvariant, PTL DEF Live, FairSpec, StartDescent, StartEnds

LEMMA EndedStartStays ==
  ASSUME Inv, Inv', NEW g \in Game, StartBelow(g, 1), [Next]_vars
  PROVE  StartBelow(g, 1)' \/ Over'
<1> SUFFICES ASSUME ~Over' PROVE StartBelow(g, 1)'
  OBVIOUS
<1>1. Closing(g) /\ Closing(g)' /\ StartLeft(g) < 1
  BY ClosingStays DEF StartBelow
<1>2. StartLeft(g) \in 0..10 /\ StartLeft(g)' \in 0..10
  BY <1>1, StartCounts, StartCountsAfter
<1> QED
  BY <1>1, <1>2, StartWaits, StartGoesOn DEF StarterStep, StartBelow

-----------------------------------------------------------------------------
(* The handler returns                                                     *)

(* The steps the handler has left, at most.                                *)
HandLeft(g) ==
  LET p == hand IN
  CASE p = "idle" -> 0
    [] p \in {"save", "restore", "reset"} -> IF Inside(g, "hand") THEN 1 ELSE 2
    [] p = "nano" -> 3 [] p = "mui" -> 4 [] p = "close" -> 5 [] p = "media" -> 6
    [] p = "load" -> IF Inside(g, "hand") THEN 7 ELSE 8
    [] p = "core" -> IF Inside(g, "hand") THEN 9 ELSE 10
    [] p = "reserve" -> 11

Handling(g) == hand # "idle" /\ game = g /\ ~Over

HandBelow(g, n) == Handling(g) /\ HandLeft(g) < n

LEMMA HandCounts ==
  ASSUME NEW g \in Game PROVE Inv => HandLeft(g) \in 0..11
BY DEF Inv, IInv, TypeOK, HandLeft

LEMMA HandWaits ==
  ASSUME Inv, NEW g \in Game, Handling(g), [Next]_vars, ~HandlerStep
  PROVE  hand' = hand /\ game' = game /\ HandLeft(g)' = HandLeft(g)
<1>1. ASSUME NEW h \in Game, Starter(h) \/ Autosaver(h)
      PROVE  hand' = hand /\ game' = game /\ (Inside(g, "hand")' <=> Inside(g, "hand"))
  BY <1>1, StarterChanges, AutosaverChanges DEF Inv, StarterFrame, AutosaverFrame, Who
<1>2. CASE UNCHANGED vars
  BY <1>2 DEF vars, HandLeft, Inside
<1>3. ~Players
  BY DEF Players, NewGame, BeginRequest, CloseRoom, Handling
<1> QED
  BY <1>1, <1>2, <1>3 DEF Next, HandlerStep, HandLeft

LEMMA HandGoesOn ==
  ASSUME Inv, NEW g \in Game, Handling(g), Handler
  PROVE  hand' = "idle" \/ (game' = g /\ HandLeft(g)' < HandLeft(g))
<1> USE DEF Inv, IInv, TypeOK, Handling, HandLeft
<1>1. CASE NewFrontend
  BY <1>1 DEF NewFrontend, callVars, Inside
<1>2. CASE BeginLoadCore \/ BeginLoadGame
  BY <1>2 DEF BeginLoadCore, BeginLoadGame, Inside
<1>3. CASE EndLoadCore
  BY <1>3 DEF EndLoadCore, Leave, Inside
<1>4. ASSUME NEW ok \in BOOLEAN, LoadGame(ok) \/ StartApp(ok)
      PROVE  hand' = "idle" \/ (game' = g /\ HandLeft(g)' < HandLeft(g))
  BY <1>4 DEF LoadGame, StartApp
<1>5. CASE Request
  <2>1. CASE hand' = hand
    <3>1. ~Inside(g, "hand") /\ Inside(g, "hand")' /\ game' = game
      BY <1>5, <2>1 DEF Request, Enter, Leave, Inside
    <3> QED
      BY <1>5, <2>1, <3>1 DEF Request
  <2>2. CASE hand' = "idle"
    BY <2>2
  <2> QED
    BY <1>5, <2>1, <2>2 DEF Request
<1>6. CASE CloseDone \/ CloseLock \/ NanoClose
  BY <1>6 DEF CloseDone, CloseLock, NanoClose
<1> QED
  BY <1>1, <1>2, <1>3, <1>4, <1>5, <1>6 DEF Handler

HandDescent(g, k, n) == HandBelow(g, k) ~> (HandBelow(g, n) \/ hand = "idle" \/ Over)

(* Closing waits for mui, which Start holds until it has ended.            *)
LEMMA MuiIsFreed ==
  ASSUME NEW g \in Game
  PROVE  Inv /\ Handling(g) /\ hand = "mui" =>
           Closing(g) /\ (StartBelow(g, 1) => mui[g] = "free")
<1> SUFFICES ASSUME Inv, Handling(g), hand = "mui"
             PROVE  Closing(g) /\ (StartBelow(g, 1) => mui[g] = "free")
  OBVIOUS
<1>1. Closing(g)
  BY DEF Inv, Unhurried, ClosedInTime, Handling, Closing, Over
<1>2. ASSUME StartBelow(g, 1) PROVE mui[g] = "free"
  <2>1. start[g] \notin Running
    BY <1>2, StartCounts DEF StartBelow, StartLeft, Running
  <2> QED
    BY <2>1 DEF Inv, IInv, TypeOK, Unhurried, MuiHeld, Handling, Over
<1> QED
  BY <1>1, <1>2

LEMMA HandLess ==
  ASSUME NEW g \in Game, NEW n \in 1..11, NEW k \in 2..12, k = n + 1
  PROVE  Live => HandDescent(g, k, n)
<1> DEFINE At == Handling(g) /\ HandLeft(g) = n
           Goal == HandBelow(g, n) \/ hand = "idle" \/ Over
           AtMui == Handling(g) /\ hand = "mui"
           Free == mu[g] = "free" \/ crashed
           MuiFree == StartBelow(g, 1)
<1>1. Inv /\ At /\ [Next]_vars => At' \/ Goal'
  BY HandWaits, HandGoesOn DEF HandlerStep, Handling, HandBelow
<1>2. Inv /\ At /\ <<HandlerStep>>_vars => Goal'
  BY HandGoesOn DEF HandlerStep, Handling, HandBelow
<1>3. /\ Inv /\ StepsAreEnabled /\ At /\ Free => AtMui \/ ENABLED <<HandlerStep>>_vars
      /\ Inv /\ StepsAreEnabled /\ At /\ AtMui /\ MuiFree => ENABLED <<HandlerStep>>_vars
  <2> SUFFICES ASSUME Inv, StepsAreEnabled, At
               PROVE  /\ Free /\ ~AtMui => HandlerCan
                      /\ AtMui /\ MuiFree => HandlerCan
    BY DEF StepsAreEnabled
  <2>1. hand # "reserve" => ~reserved
    BY GameAssumption DEF Inv, IInv, TypeOK, Handling
  <2>2. hand = "reserve" => reserved
    BY DEF Inv, IInv, TypeOK
  <2> QED
    BY <2>1, <2>2, MuiIsFreed DEF HandlerCan, Handling, Over
<1>4. Inv /\ HandBelow(g, k) => At \/ HandBelow(g, n)
  BY HandCounts DEF HandBelow
<1>5. Live => []<>Free
  BY MuIsFreed, PTL DEF MuFreed
<1>6. At => ~Over
  BY DEF Handling
<1>7. Inv /\ AtMui => Closing(g)
  BY MuiIsFreed
<1>8. Live => (Closing(g) ~> (MuiFree \/ Over))
  BY ClosedStartEnds DEF StartEnds
<1>9. Inv /\ Inv' /\ MuiFree /\ [Next]_vars => MuiFree' \/ Over'
  BY EndedStartStays
<1>10. /\ n = 4 => (Inv /\ At => AtMui)
       /\ n # 4 => (Inv /\ At => ~AtMui)
  <2>1. Inv => (HandLeft(g) = 4 <=> hand = "mui")
    BY DEF Inv, IInv, TypeOK, HandLeft
  <2> QED
    BY <2>1 DEF Handling
<1> HIDE DEF At, AtMui, Goal, Free, MuiFree
<1>11. ASSUME n = 4 PROVE Live => (At ~> Goal)
  <2>1. Inv /\ At => AtMui
    BY <1>10, <1>11
  <2> QED
    BY <2>1, <1>1, <1>2, <1>3, <1>6, <1>7, <1>8, <1>9, LivingInvariant, PTL
    DEF Live, FairSpec, Spec, Fairness
<1>12. ASSUME n # 4 PROVE Live => (At ~> Goal)
  <2>1. Inv /\ At => ~AtMui
    BY <1>10, <1>12
  <2> QED
    BY <2>1, <1>1, <1>2, <1>3, <1>5, <1>6, LivingInvariant, PTL
    DEF Live, FairSpec, Spec, Fairness
<1>13. Live => (At ~> Goal)
  BY <1>11, <1>12
<1> QED
  BY <1>4, <1>13, LivingInvariant, PTL DEF Live, FairSpec, Goal, HandDescent

HandEnds(g) == Handling(g) ~> (hand = "idle" \/ Over)

LEMMA HandlerEnds == ASSUME NEW g \in Game PROVE Live => HandEnds(g)
<1>1. Live => /\ HandDescent(g, 12, 11) /\ HandDescent(g, 11, 10) /\ HandDescent(g, 10, 9)
              /\ HandDescent(g, 9, 8) /\ HandDescent(g, 8, 7) /\ HandDescent(g, 7, 6)
              /\ HandDescent(g, 6, 5) /\ HandDescent(g, 5, 4) /\ HandDescent(g, 4, 3)
              /\ HandDescent(g, 3, 2) /\ HandDescent(g, 2, 1)
  BY HandLess
<1>2. Inv /\ Handling(g) => HandBelow(g, 12)
  BY HandCounts DEF HandBelow
<1>3. Inv => ~HandBelow(g, 1)
  BY HandCounts DEF HandBelow, Handling, HandLeft, Inv, IInv, TypeOK
<1> QED
  BY <1>1, <1>2, <1>3, LivingInvariant, PTL DEF Live, FairSpec, HandDescent, HandEnds

(* A room that closes gives the core back and the handler is never stuck,  *)
(* as long as games are left and begun in time.                            *)
THEOREM TheHandlerReturns == FairSpec /\ []StepsAreEnabled => HandlerReturns
<1>1. ASSUME NEW g \in Game
      PROVE  Live => (hand # "idle" /\ game = g ~> (hand = "idle" \/ crashed \/ hurried))
  <2>1. hand # "idle" /\ game = g => Handling(g) \/ crashed \/ hurried
    BY DEF Handling, Over
  <2>2. Over => crashed \/ hurried
    BY DEF Over
  <2> QED
    BY <2>1, <2>2, HandlerEnds, PTL DEF HandEnds
<1> QED
  BY <1>1 DEF Live, HandlerReturns

-----------------------------------------------------------------------------
(* A frontend that was closed ends                                         *)

Dying(g) == Closing(g) /\ Stopped /\ ~Ended(g)

LEMMA DyingStays ==
  ASSUME Inv, NEW g \in Game, Dying(g), [Next]_vars
  PROVE  Dying(g)' \/ Ended(g)' \/ Over'
<1> SUFFICES ASSUME ~Over' PROVE Stopped'
  BY ClosingStays DEF Dying
<1>1. hand \notin Opening
  BY DEF Inv, Unhurried, OpenedInTime, Dying, Closing, Over
<1>2. ASSUME NEW h \in Game, Starter(h) \/ Autosaver(h) PROVE Stopped'
  BY <1>2, StarterChanges, AutosaverChanges DEF Inv, StarterFrame, AutosaverFrame, Dying
<1>3. ASSUME Players \/ Handler PROVE Stopped'
  BY <1>1, <1>3
  DEF Players, NewGame, BeginRequest, CloseRoom, Handler, NewFrontend, BeginLoadCore, EndLoadCore,
      BeginLoadGame, LoadGame, StartApp, Request, CloseDone, CloseLock, NanoClose, nanoVars,
      Opening, Dying
<1> QED
  BY <1>2, <1>3 DEF Next, vars, Dying

LEMMA ClosedStays ==
  ASSUME Inv, NEW g \in Game, closed[g] # {}, [Next]_vars
  PROVE  closed'[g] # {}
<1>1. ASSUME NEW h \in Game, Starter(h) \/ Autosaver(h) PROVE closed' = closed
  BY <1>1, StarterChanges, AutosaverChanges DEF Inv, StarterFrame, AutosaverFrame
<1>2. ASSUME Players \/ Handler PROVE closed[g] \subseteq closed'[g]
  BY <1>2, HandlerChanges DEF Inv, HandlerFrame
<1> QED
  BY <1>1, <1>2 DEF Next, vars

(* The steps autosave has left once Start has ended and the core stopped.  *)
AutoLeft(g) ==
  LET p == auto[g] IN
  CASE p \in {"none", "end"} -> 0
    [] p = "wait" -> 1
    [] p = "save" -> IF Inside(g, "auto") THEN 2 ELSE 3

AutoAlone(g) == Dying(g) /\ StartBelow(g, 1)

AutoBelow(g, n) == AutoAlone(g) /\ AutoLeft(g) < n

Gone(g) == Ended(g) \/ Over

AutoDescent(g, k, n) == AutoBelow(g, k) ~> (AutoBelow(g, n) \/ Gone(g))

LEMMA AutoCounts ==
  ASSUME NEW g \in Game PROVE Inv => AutoLeft(g) \in 0..3
BY DEF Inv, IInv, TypeOK, AutoLeft

LEMMA AloneStays ==
  ASSUME Inv, Inv', NEW g \in Game, AutoAlone(g), [Next]_vars
  PROVE  AutoAlone(g)' \/ Gone(g)'
BY DyingStays, EndedStartStays DEF AutoAlone, Gone

LEMMA StartIsOver ==
  ASSUME Inv, NEW g \in Game, StartBelow(g, 1)
  PROVE  start[g] \in {"none", "off", "end"}
BY StartCounts DEF StartBelow, StartLeft, Inv, IInv, TypeOK

LEMMA AutoWaits ==
  ASSUME Inv, NEW g \in Game, AutoAlone(g), [Next]_vars, ~AutosaverStep(g)
  PROVE  AutoLeft(g)' = AutoLeft(g)
<1>0. "auto" \in Who /\ start[g] \in {"none", "off", "end"}
  BY StartIsOver DEF AutoAlone, Who
<1>1. ASSUME Players \/ Handler
      PROVE  auto'[g] = auto[g] /\ (Inside(g, "auto")' <=> Inside(g, "auto"))
  BY <1>1, HandlerChanges DEF Inv, HandlerFrame
<1>2. ASSUME NEW h \in Game, Starter(h)
      PROVE  auto'[g] = auto[g] /\ (Inside(g, "auto")' <=> Inside(g, "auto"))
  <2>1. h # g
    BY <1>0, <1>2
    DEF Starter, CheckStopped, StopEarly, EnterLoop, Restore, SpawnAutosave, Tick, Quit,
        SaveOnQuit, Unlock, Shutdown
  <2> QED
    BY <1>0, <1>2, <2>1, StarterChanges DEF Inv, StarterFrame
<1>3. ASSUME NEW h \in Game \ {g}, Autosaver(h)
      PROVE  auto'[g] = auto[g] /\ (Inside(g, "auto")' <=> Inside(g, "auto"))
  BY <1>0, <1>3, AutosaverChanges DEF Inv, AutosaverFrame
<1>4. CASE UNCHANGED vars
  BY <1>4 DEF vars, AutoLeft, Inside
<1> QED
  BY <1>1, <1>2, <1>3, <1>4 DEF Next, AutosaverStep, AutoLeft

LEMMA AutoGoesOn ==
  ASSUME Inv, NEW g \in Game, AutoAlone(g), Autosaver(g)
  PROVE  AutoLeft(g)' < AutoLeft(g)
<1> USE DEF Inv, IInv, TypeOK, AutoLeft, Set
<1>1. CASE AutosaveWakes(g)
  BY <1>1 DEF AutosaveWakes, AutoAlone, Dying
<1>2. CASE Autosave(g)
  <2>1. CASE ~Inside(g, "auto")
    <3>1. Inside(g, "auto")' /\ UNCHANGED auto
      BY <1>2, <2>1 DEF Autosave, Enter, Leave, Inside
    <3> QED
      BY <1>2, <2>1, <3>1 DEF Autosave
  <2>2. CASE Inside(g, "auto")
    BY <1>2, <2>2 DEF Autosave, Enter, Leave
  <2> QED
    BY <2>1, <2>2
<1> QED
  BY <1>1, <1>2 DEF Autosaver

LEMMA AutoLess ==
  ASSUME NEW g \in Game, NEW n \in 1..3, NEW k \in 2..4, k = n + 1
  PROVE  Live => AutoDescent(g, k, n)
<1> DEFINE At == AutoAlone(g) /\ AutoLeft(g) = n
           Goal == AutoBelow(g, n) \/ Gone(g)
           Free == mu[g] = "free" \/ crashed
<1>1. Inv /\ Inv' /\ At /\ [Next]_vars => At' \/ Goal'
  BY AloneStays, AutoWaits, AutoGoesOn DEF AutosaverStep, AutoBelow
<1>2. Inv /\ Inv' /\ At /\ <<AutosaverStep(g)>>_vars => Goal'
  BY AloneStays, AutoGoesOn DEF AutosaverStep, AutoBelow, Next
<1>3. Inv /\ StepsAreEnabled /\ At /\ Free => ENABLED <<AutosaverStep(g)>>_vars
  <2> SUFFICES ASSUME Inv, StepsAreEnabled, At, Free PROVE AutosaverCan(g)
    BY DEF StepsAreEnabled
  <2>1. auto[g] \notin {"none", "end"}
    BY DEF AutoLeft
  <2> QED
    BY <2>1 DEF AutosaverCan, AutoAlone, Dying, Closing, Over, Inv, IInv, TypeOK
<1>4. Inv /\ AutoBelow(g, k) => At \/ AutoBelow(g, n)
  BY AutoCounts DEF AutoBelow
<1>5. Fairness => FrontendFairness(g)
  BY FrontendsAreFair
<1>6. Live => []<>Free
  BY MuIsFreed, PTL DEF MuFreed
<1> HIDE DEF At, Goal, Free
<1>7. Live => (At ~> Goal)
  BY <1>1, <1>2, <1>3, <1>5, <1>6, LivingInvariant, PTL DEF Live, FairSpec, Spec, FrontendFairness
<1> QED
  BY <1>4, <1>7, LivingInvariant, PTL DEF Live, FairSpec, Goal, AutoDescent

LEMMA AloneEnds == ASSUME NEW g \in Game PROVE Live => (AutoAlone(g) ~> Gone(g))
<1>1. Live => AutoDescent(g, 4, 3) /\ AutoDescent(g, 3, 2) /\ AutoDescent(g, 2, 1)
  BY AutoLess
<1>2. Inv /\ AutoAlone(g) => AutoBelow(g, 4)
  BY AutoCounts DEF AutoBelow
<1>3. Inv => ~AutoBelow(g, 1)
  <2> SUFFICES ASSUME Inv, AutoBelow(g, 1) PROVE FALSE
    OBVIOUS
  <2>1. auto[g] \in {"none", "end"}
    BY AutoCounts DEF AutoBelow, AutoLeft, Inv, IInv, TypeOK
  <2> QED
    BY <2>1, StartIsOver DEF AutoBelow, AutoAlone, Dying, Ended
<1> QED
  BY <1>1, <1>2, <1>3, LivingInvariant, PTL DEF Live, FairSpec, AutoDescent

(* Under the same condition a frontend that was closed ends: its Start     *)
(* shuts the core down and its autosave stops.                             *)
THEOREM ClosedFrontendsEnd == FairSpec /\ []StepsAreEnabled => UnhurriedEnds
<1>1. ASSUME NEW g \in Game
      PROVE  Live => (closed[g] # {} ~> (Ended(g) \/ crashed \/ hurried))
  <2> DEFINE Shut == closed[g] # {}
  <2>1. Inv /\ Shut => Gone(g) \/ Dying(g) \/ Handling(g)
    BY DEF Inv, Unhurried, ClosedInTime, Gone, Dying, Handling, Closing, Over
  <2>2. Inv /\ Shut /\ hand = "idle" => Gone(g) \/ Dying(g)
    BY DEF Inv, Unhurried, ClosedInTime, Gone, Dying, Closing, Over
  <2>3. Inv /\ Shut /\ [Next]_vars => Shut'
    BY ClosedStays
  <2>4. Inv /\ Dying(g) /\ [Next]_vars => Dying(g)' \/ Gone(g)'
    BY DyingStays DEF Gone
  <2>5. Dying(g) => Closing(g)
    BY DEF Dying
  <2>6. Dying(g) /\ StartBelow(g, 1) => AutoAlone(g)
    BY DEF AutoAlone
  <2>7. Over => Gone(g)
    BY DEF Gone
  <2>8. Gone(g) => Ended(g) \/ crashed \/ hurried
    BY DEF Gone, Over
  <2> HIDE DEF Shut
  <2>9. Live => (Shut ~> (Gone(g) \/ Dying(g)))
    BY <2>1, <2>2, <2>3, <2>7, HandlerEnds, LivingInvariant, PTL DEF Live, FairSpec, Spec, HandEnds
  <2>10. Live => (Dying(g) ~> Gone(g))
    BY <2>4, <2>5, <2>6, <2>7, ClosedStartEnds, AloneEnds, LivingInvariant, PTL
    DEF Live, FairSpec, Spec, StartEnds
  <2> QED
    BY <2>8, <2>9, <2>10, PTL DEF Shut
<1> QED
  BY <1>1 DEF Live, UnhurriedEnds
=============================================================================
