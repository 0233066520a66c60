----------------------------- MODULE Emulator -----------------------------
(***************************************************************************)
(* The life of the emulator in a worker: one global core (nanoarch.go),    *)
(* and a frontend for every game played on it (libretro/frontend.go).      *)
(*                                                                         *)
(* The goroutine that serves the coordinator's packets (HandleGameStart,   *)
(* Room.Close and the save, load and reset handlers) makes a frontend,     *)
(* loads core and game, spawns Start, and later closes the frontend.       *)
(* Start runs the frames until the done channel of its frontend is closed, *)
(* and then shuts the core down; autosave saves from time to time.  They   *)
(* meet in two mutexes of the frontend (mu around the core, mui around a   *)
(* whole Start or Close), in the channel done, which Start makes anew, and *)
(* in the core's one-place reservation and its flag Stopped.               *)
(*                                                                         *)
(* A call into the core takes time: it begins in one step and ends in      *)
(* another.  Calling a core that was shut down ends the process.  Saving   *)
(* and loading are taken to succeed: a failure is only logged.             *)
(***************************************************************************)
EXTENDS Naturals, FiniteSets

CONSTANTS Game,      \* the games played, one frontend each
          NoGame

ASSUME GameAssumption == NoGame \notin Game

VARIABLES
  reserved,  \* the core is free: Nanoarch.reserved holds its token
  Stopped,   \* Nanoarch.Stopped
  core,      \* the frontend whose core library is loaded
  busy,      \* the calls inside the core: <<frontend, who>>
  crashed,   \* a core was called that is not loaded
  hand,      \* the handler
  game,      \* the frontend it deals with
  start,     \* the goroutine of Frontend.Start
  auto,      \* the goroutine of Frontend.autosave
  mu, mui,   \* the mutexes: "free" or who holds it
  done,      \* Frontend.done: the first or the second channel
  closed,    \* the channels that were closed
  hasSave,   \* there is a saved state
  dirty,     \* frames were played since the state was saved or loaded
  hurried    \* history: a game was left before it ran, or begun before the
             \* one before it had ended

nanoVars == <<reserved, Stopped, core>>
callVars == <<busy, crashed, mu>>
saveVars == <<hasSave, dirty>>
vars == <<reserved, Stopped, core, busy, crashed, hand, game, start, auto,
          mu, mui, done, closed, hasSave, dirty, hurried>>

Who == {"hand", "start", "auto"}

IsDone(g) == done[g] \in closed[g]

(* Goroutine w of frontend g takes the lock and calls the core.            *)
Enter(g, w) ==
  /\ mu[g] = "free"
  /\ mu' = [mu EXCEPT ![g] = w]
  /\ busy' = busy \cup {<<g, w>>}
  /\ crashed' = (core = NoGame)

Inside(g, w) == <<g, w>> \in busy

Leave(g, w) ==
  /\ Inside(g, w)
  /\ mu' = [mu EXCEPT ![g] = "free"]
  /\ busy' = busy \ {<<g, w>>}
  /\ UNCHANGED crashed

(* Nothing of the frontend runs.                                           *)
Ended(g) == start[g] \in {"none", "off", "end"} /\ auto[g] \in {"none", "end"}

Set(f, g, v) == [f EXCEPT ![g] = v]

-----------------------------------------------------------------------------
(* The handler                                                             *)

(* HandleGameStart with a new room: ReloadFrontend begins.                 *)
NewGame(g) ==
  /\ hand = "idle" /\ game = NoGame /\ start[g] = "none"
  /\ hurried' = (hurried \/ \E o \in Game : ~Ended(o))
  /\ hand' = "reserve" /\ game' = g
  /\ start' = Set(start, g, "off")
  /\ UNCHANGED <<nanoVars, callVars, auto, mui, done, closed, saveVars>>

(* NewFrontend: WaitReady.                                                 *)
NewFrontend ==
  /\ hand = "reserve" /\ reserved
  /\ reserved' = FALSE
  /\ hand' = "core"
  /\ UNCHANGED <<Stopped, core, callVars, game, start, auto, mui, done, closed, saveVars, hurried>>

(* LoadCore, under mu: the library replaces whatever was loaded.           *)
BeginLoadCore ==
  /\ hand = "core" /\ mu[game] = "free" /\ ~Inside(game, "hand")
  /\ mu' = Set(mu, game, "hand")
  /\ busy' = busy \cup {<<game, "hand">>}
  /\ UNCHANGED <<nanoVars, crashed, hand, game, start, auto, mui, done, closed, saveVars, hurried>>

EndLoadCore ==
  /\ hand = "core" /\ Leave(game, "hand")
  /\ core' = game
  /\ hand' = "load"
  /\ UNCHANGED <<reserved, Stopped, game, start, auto, mui, done, closed, saveVars, hurried>>

(* LoadGame, without mu.  A game that fails to load, and then an encoder   *)
(* that fails to start, closes the room again.                             *)
BeginLoadGame ==
  /\ hand = "load" /\ ~Inside(game, "hand")
  /\ busy' = busy \cup {<<game, "hand">>} /\ crashed' = (core = NoGame)
  /\ UNCHANGED <<nanoVars, mu, hand, game, start, auto, mui, done, closed, saveVars, hurried>>

LoadGame(ok) ==
  /\ hand = "load" /\ Inside(game, "hand")
  /\ busy' = busy \ {<<game, "hand">>}
  /\ IF ok THEN hand' = "media" /\ Stopped' = FALSE
           ELSE hand' = "close" /\ UNCHANGED Stopped
  /\ UNCHANGED <<reserved, core, crashed, mu, game, start, auto, mui, done, closed, saveVars, hurried>>

(* StartApp spawns Start.                                                  *)
StartApp(ok) ==
  /\ hand = "media"
  /\ IF ok THEN hand' = "idle" /\ start' = Set(start, game, "spawned")
           ELSE hand' = "close" /\ UNCHANGED start
  /\ UNCHANGED <<nanoVars, callVars, game, auto, mui, done, closed, saveVars, hurried>>

(* HandleSaveGame, HandleLoadGame, HandleResetGame.                        *)
BeginRequest ==
  /\ hand = "idle" /\ game # NoGame
  /\ hand' \in {"save", "reset"} \cup (IF hasSave[game] THEN {"restore"} ELSE {})
  /\ UNCHANGED <<nanoVars, callVars, game, start, auto, mui, done, closed, saveVars, hurried>>

Saved(g) == hasSave' = Set(hasSave, g, TRUE) /\ dirty' = Set(dirty, g, FALSE)

Request ==
  /\ hand \in {"save", "restore", "reset"}
  /\ \/ /\ ~Inside(game, "hand") /\ Enter(game, "hand")
        /\ UNCHANGED <<hand, saveVars>>
     \/ /\ Leave(game, "hand")
        /\ hand' = "idle"
        /\ hasSave' = IF hand = "save" THEN Set(hasSave, game, TRUE) ELSE hasSave
        /\ dirty' = IF hand = "reset" THEN dirty ELSE Set(dirty, game, FALSE)
  /\ UNCHANGED <<nanoVars, game, start, auto, mui, done, closed, hurried>>

(* The room closes: its last player has left.                              *)
CloseRoom ==
  /\ hand = "idle" /\ game # NoGame
  /\ hurried' = (hurried \/ start[game] \in {"spawned", "enter"})
  /\ hand' = "close"
  /\ UNCHANGED <<nanoVars, callVars, game, start, auto, mui, done, closed, saveVars>>

(* Mutant: Close closes the channel the frontend was made with.            *)
CloseFirstDone ==
  /\ hand = "close"
  /\ closed' = [closed EXCEPT ![game] = @ \cup {1}]
  /\ hand' = "mui"
  /\ UNCHANGED <<nanoVars, callVars, game, start, auto, mui, done, saveVars, hurried>>

(* Frontend.Close                                                          *)
CloseDone ==
  /\ hand = "close"
  /\ closed' = [closed EXCEPT ![game] = @ \cup {done[game]}]
  /\ hand' = "mui"
  /\ UNCHANGED <<nanoVars, callVars, game, start, auto, mui, done, saveVars, hurried>>

CloseLock ==
  /\ hand = "mui" /\ mui[game] = "free"
  /\ mui' = Set(mui, game, "hand")
  /\ hand' = "nano"
  /\ UNCHANGED <<nanoVars, callVars, game, start, auto, done, closed, saveVars, hurried>>

(* Mutant: the reservation is not given back.                              *)
NanoCloseKeeping ==
  /\ hand = "nano"
  /\ Stopped' = TRUE
  /\ mui' = Set(mui, game, "free")
  /\ hand' = "idle" /\ game' = NoGame
  /\ UNCHANGED <<reserved, core, callVars, start, auto, done, closed, saveVars, hurried>>

(* Nanoarch.Close and the end of Frontend.Close.                           *)
NanoClose ==
  /\ hand = "nano" /\ ~reserved
  /\ Stopped' = TRUE /\ reserved' = TRUE
  /\ mui' = Set(mui, game, "free")
  /\ hand' = "idle" /\ game' = NoGame
  /\ UNCHANGED <<core, callVars, start, auto, done, closed, saveVars, hurried>>

-----------------------------------------------------------------------------
(* The goroutine of Frontend.Start                                         *)

Go(g, p) == start' = Set(start, g, p)

(* It is stopped already, or goes on.                                      *)
CheckStopped(g) ==
  /\ start[g] = "spawned"
  /\ Go(g, IF Stopped THEN "stopped" ELSE "enter")
  /\ UNCHANGED <<nanoVars, callVars, hand, game, auto, mui, done, closed, saveVars, hurried>>

(* Stopped during the start: it shuts the core down, holding mui.          *)
StopEarly(g) ==
  /\ start[g] = "stopped" /\ mui[g] = "free"
  /\ mui' = Set(mui, g, "start")
  /\ Go(g, "shutdown")
  /\ UNCHANGED <<nanoVars, callVars, hand, game, auto, done, closed, saveVars, hurried>>

(* A new done channel; a saved state is restored first.                    *)
EnterLoop(g) ==
  /\ start[g] = "enter" /\ mui[g] = "free"
  /\ mui' = Set(mui, g, "start")
  /\ done' = Set(done, g, 2)
  /\ Go(g, IF hasSave[g] THEN "restore" ELSE "autosave")
  /\ UNCHANGED <<nanoVars, callVars, hand, game, auto, closed, saveVars, hurried>>

(* One tick and the load of the saved state.                               *)
Restore(g) ==
  /\ start[g] = "restore"
  /\ \/ ~Inside(g, "start") /\ Enter(g, "start") /\ UNCHANGED <<start, dirty>>
     \/ Leave(g, "start") /\ Go(g, "autosave") /\ dirty' = Set(dirty, g, FALSE)
  /\ UNCHANGED <<nanoVars, hand, game, auto, mui, done, closed, hasSave, hurried>>

SpawnAutosave(g) ==
  /\ start[g] = "autosave"
  /\ auto' = Set(auto, g, "wait")
  /\ Go(g, "loop")
  /\ UNCHANGED <<nanoVars, callVars, hand, game, mui, done, closed, saveVars, hurried>>

(* Mutant: a tick does not take the lock.                                  *)
TickUnlocked(g) ==
  /\ start[g] = "loop"
  /\ \/ /\ ~Inside(g, "start") /\ ~IsDone(g)
        /\ busy' = busy \cup {<<g, "start">>} /\ UNCHANGED dirty
     \/ /\ Inside(g, "start")
        /\ busy' = busy \ {<<g, "start">>} /\ dirty' = Set(dirty, g, TRUE)
  /\ UNCHANGED <<nanoVars, crashed, mu, hand, game, start, auto, mui, done, closed, hasSave, hurried>>

(* The main loop: a frame, unless done is closed.                          *)
Tick(g) ==
  /\ start[g] = "loop"
  /\ \/ ~Inside(g, "start") /\ ~IsDone(g) /\ Enter(g, "start") /\ UNCHANGED dirty
     \/ Leave(g, "start") /\ dirty' = Set(dirty, g, TRUE)
  /\ UNCHANGED <<nanoVars, hand, game, start, auto, mui, done, closed, hasSave, hurried>>

(* Mutant: the game is not saved on quit.                                  *)
QuitUnsaved(g) ==
  /\ start[g] = "loop" /\ IsDone(g) /\ ~Inside(g, "start")
  /\ Go(g, "unlock")
  /\ UNCHANGED <<nanoVars, callVars, hand, game, auto, mui, done, closed, saveVars, hurried>>

(* Quit: a game that was saved before is saved once more.                  *)
Quit(g) ==
  /\ start[g] = "loop" /\ IsDone(g) /\ ~Inside(g, "start")
  /\ Go(g, IF hasSave[g] THEN "save" ELSE "unlock")
  /\ UNCHANGED <<nanoVars, callVars, hand, game, auto, mui, done, closed, saveVars, hurried>>

SaveOnQuit(g) ==
  /\ start[g] = "save"
  /\ \/ ~Inside(g, "start") /\ Enter(g, "start") /\ UNCHANGED <<start, saveVars>>
     \/ Leave(g, "start") /\ Go(g, "unlock") /\ Saved(g)
  /\ UNCHANGED <<nanoVars, hand, game, auto, mui, done, closed, hurried>>

Unlock(g) ==
  /\ start[g] = "unlock"
  /\ mui' = Set(mui, g, "free")
  /\ Go(g, "shutdown")
  /\ UNCHANGED <<nanoVars, callVars, hand, game, auto, done, closed, saveVars, hurried>>

(* Frontend.Shutdown: it closes the library that is loaded.                *)
Shutdown(g) ==
  /\ start[g] = "shutdown"
  /\ \/ ~Inside(g, "start") /\ Enter(g, "start") /\ UNCHANGED <<core, start, mui>>
     \/ /\ Leave(g, "start")
        /\ core' = NoGame /\ Go(g, "end")
        /\ mui' = IF mui[g] = "start" THEN Set(mui, g, "free") ELSE mui
  /\ UNCHANGED <<reserved, Stopped, hand, game, auto, done, closed, saveVars, hurried>>

-----------------------------------------------------------------------------
(* The goroutine of Frontend.autosave                                      *)

(* The ticker fires, or done is closed.                                    *)
AutosaveWakes(g) ==
  /\ auto[g] = "wait"
  /\ \/ auto' = Set(auto, g, IF Stopped THEN "end" ELSE "save")
     \/ IsDone(g) /\ auto' = Set(auto, g, "end")
  /\ UNCHANGED <<nanoVars, callVars, hand, game, start, mui, done, closed, saveVars, hurried>>

Autosave(g) ==
  /\ auto[g] = "save"
  /\ \/ ~Inside(g, "auto") /\ Enter(g, "auto") /\ UNCHANGED <<auto, saveVars>>
     \/ Leave(g, "auto") /\ auto' = Set(auto, g, "wait") /\ Saved(g)
  /\ UNCHANGED <<nanoVars, hand, game, start, mui, done, closed, hurried>>

-----------------------------------------------------------------------------
Init ==
  /\ reserved = TRUE /\ Stopped = FALSE /\ core = NoGame
  /\ busy = {} /\ crashed = FALSE
  /\ hand = "idle" /\ game = NoGame
  /\ start = [g \in Game |-> "none"] /\ auto = [g \in Game |-> "none"]
  /\ mu = [g \in Game |-> "free"] /\ mui = [g \in Game |-> "free"]
  /\ done = [g \in Game |-> 1] /\ closed = [g \in Game |-> {}]
  /\ hasSave \in [Game -> BOOLEAN] /\ dirty = [g \in Game |-> FALSE]
  /\ hurried = FALSE

Handler ==
  \/ NewFrontend \/ BeginLoadCore \/ EndLoadCore
  \/ BeginLoadGame \/ \E ok \in BOOLEAN : LoadGame(ok) \/ StartApp(ok)
  \/ Request \/ CloseDone \/ CloseLock \/ NanoClose

Starter(g) ==
  \/ CheckStopped(g) \/ StopEarly(g) \/ EnterLoop(g) \/ Restore(g)
  \/ SpawnAutosave(g) \/ Tick(g) \/ Quit(g) \/ SaveOnQuit(g)
  \/ Unlock(g) \/ Shutdown(g)

Autosaver(g) == AutosaveWakes(g) \/ Autosave(g)

Players == (\E g \in Game : NewGame(g)) \/ BeginRequest \/ CloseRoom

Next ==
  /\ ~crashed
  /\ \/ Players
     \/ Handler
     \/ \E g \in Game : Starter(g) \/ Autosaver(g)

Spec == Init /\ [][Next]_vars

(* The scheduler runs every goroutine, and a mutex is handed to whoever    *)
(* waits for it in the end.  The players owe nothing.                      *)
HandlerStep == ~crashed /\ Handler
StarterStep(g) == ~crashed /\ Starter(g)
AutosaverStep(g) == ~crashed /\ Autosaver(g)

FrontendFairness(g) == SF_vars(StarterStep(g)) /\ SF_vars(AutosaverStep(g))

Fairness == SF_vars(HandlerStep) /\ \A g \in Game : FrontendFairness(g)

FairSpec == Spec /\ Fairness

-----------------------------------------------------------------------------
TypeOK ==
  /\ reserved \in BOOLEAN /\ Stopped \in BOOLEAN /\ crashed \in BOOLEAN
  /\ core \in Game \cup {NoGame}
  /\ busy \subseteq Game \X Who
  /\ hand \in {"idle", "reserve", "core", "load", "media", "save", "restore", "reset",
               "close", "mui", "nano"}
  /\ game \in (IF hand = "idle" THEN Game \cup {NoGame} ELSE Game)
  /\ reserved <=> game = NoGame \/ hand = "reserve"
  /\ start \in [Game -> {"none", "off", "spawned", "stopped", "enter", "restore", "autosave",
                         "loop", "save", "unlock", "shutdown", "end"}]
  /\ auto \in [Game -> {"none", "wait", "save", "end"}]
  /\ mu \in [Game -> Who \cup {"free"}] /\ mui \in [Game -> {"free", "start", "hand"}]
  /\ done \in [Game -> 1..2] /\ closed \in [Game -> SUBSET (1..2)]
  /\ hasSave \in [Game -> BOOLEAN] /\ dirty \in [Game -> BOOLEAN]
  /\ hurried \in BOOLEAN

(* The calls of one frontend into the core never overlap: a state is not   *)
(* saved in the middle of a frame, whatever goroutines run frames, save    *)
(* and restore (frontend.go: mu).                                          *)
OneCallAtATime ==
  \A g \in Game : Cardinality({w \in Who : Inside(g, w)}) <= 1

(* A game that was ever saved loses no frame: when its Start has ended,    *)
(* the state that was saved is the last one played (frontend.go: Start,    *)
(* "Save game on quit").                                                   *)
QuitKeepsTheGame ==
  \A g \in Game : start[g] = "end" /\ hasSave[g] => ~dirty[g]

(* A room that closes gives the core back, to a game that may be waiting   *)
(* for it, so the handler is never stuck, as long as every game was left   *)
(* only when it ran and begun when the one before had ended                *)
(* (frontend.go: Close, NewFrontend).                                      *)
HandlerReturns ==
  \A g \in Game :
    hand # "idle" /\ game = g ~> (hand = "idle" \/ crashed \/ hurried)

(* Under the same condition a frontend that was closed ends: its Start     *)
(* shuts the core down and its autosave stops (frontend.go: Start,         *)
(* autosave, Close).                                                       *)
UnhurriedEnds == \A g \in Game : closed[g] # {} ~> (Ended(g) \/ crashed \/ hurried)

(* Without it, as the code means it ("stopped during the start").          *)
ClosedEnds == \A g \in Game : closed[g] # {} ~> (Ended(g) \/ crashed)

(* What a goroutine needs for its next step: the mutex it takes, and the   *)
(* reservation.                                                            *)
HandlerCan ==
  /\ ~crashed /\ hand # "idle"
  /\ hand = "reserve" => reserved
  /\ hand \in {"core", "save", "restore", "reset"} /\ ~Inside(game, "hand")
       => mu[game] = "free"
  /\ hand = "mui" => mui[game] = "free"
  /\ hand = "nano" => ~reserved

StarterCan(g) ==
  /\ ~crashed /\ start[g] \notin {"none", "off", "end"}
  /\ start[g] \in {"stopped", "enter"} => mui[g] = "free"
  /\ start[g] \in {"restore", "save", "shutdown"} \cup (IF IsDone(g) THEN {} ELSE {"loop"})
       => Inside(g, "start") \/ mu[g] = "free"

AutosaverCan(g) ==
  /\ ~crashed /\ auto[g] \in {"wait", "save"}
  /\ auto[g] = "save" => Inside(g, "auto") \/ mu[g] = "free"

(* A goroutine that has what it needs can go on.  The theorems about the   *)
(* properties above take this from TLC.                                    *)
StepsAreEnabled ==
  /\ HandlerCan => ENABLED <<HandlerStep>>_vars
  /\ \A g \in Game :
       /\ StarterCan(g) => ENABLED <<StarterStep(g)>>_vars
       /\ AutosaverCan(g) => ENABLED <<AutosaverStep(g)>>_vars

(* "Forbids concurrent use of the emulator": two goroutines are never in   *)
(* the core at the same time (nanoarch.go: reserved).                      *)
ExclusiveUse == Cardinality(busy) <= 1
=============================================================================
