# Verification of cloud-game

TLA+ models of the protocols of this repository, TLC runs that check them on
small instances, and proofs, checked by TLAPS, that hold for every size.
Everything is translated from the source; the file and the lines of each
definition are in the `map` of `PROJECT.json`.

## 1. The system

cloud-game plays retro games on servers and streams them to browsers.  A
*coordinator* accepts users and workers over websockets and links each user to a
worker.  A *worker* plays one game at a time, in a *room* that any number of
linked users may join, and sends picture and sound to them by WebRTC.  The
coordinator relays the signalling and all requests; it keeps a one-place *slot*
per worker and the id of the room the worker last told it of.

| Component | State | Operations | Talks to |
|---|---|---|---|
| Hub (`pkg/coordinator/hub.go`) | maps of users and workers | accept a user or worker, find a worker, list the workers | browsers, workers |
| Worker's proxy (`pkg/coordinator/worker*.go`) | slot, RoomId, library, saved sessions | reserve, free, forward requests, take notices | the worker |
| User (`pkg/coordinator/user*.go`) | its worker | a handler per request of the browser | browser, proxy |
| Request layer (`pkg/com`) | table of pending calls | Call, Notify, handleMessage, Cleanup | both ends of each websocket |
| Websocket (`pkg/network/websocket`) | alive, send channel, done, once | Write, Close, reader, writer | the network |
| Worker (`pkg/worker`) | router: peers and one room; the connection | a handler per request; Reset and reconnection | coordinator, emulator, WebRTC |
| Emulator (`pkg/worker/caged/libretro`) | the one core, a frontend per game | load, start, tick, save, restore, reset, close, autosave | core library, storage, media |
| WebRTC peer (`pkg/network/webrtc`) | connection, data channel | offer, answer, candidates, send, disconnect | browser |
| Media pipe (`pkg/worker/media`, `pkg/encoder`) | encoders, audio buffer | push audio, encode video, re-initialise | peers |
| Recorder (`pkg/worker/recorder`) | enabled, streams | set, start, stop, write | files |
| Library (`pkg/games`) | games, scanning flags | scan, watch | files |
| Saves (`libretro/storage.go`, `cloud.go`, `worker/cloud`) | files, objects | save, load, upload, first download | files, object store |
| Core manager (`libretro/manager`) | installed cores | sync, download, retry | HTTP, lock file |
| Libretro interface (`libretro/nanoarch`) | the global `Nan0`: callbacks, context, formats of the core | load, the environment callback, frame, serialise, shut down | C core, SDL |
| Core thread (`nanoarch.c`, `worker/thread`) | the call handed over | call on the thread | C core |
| Input (`nanoarch/input.go`, `nanoarch.c`) | atomics per port, keyboard, mouse; the C cache | a report, the copy before a frame, a read of the core | data channels, C core |
| Web client (`web/js`) | page state, room | requests, signalling, input | coordinator, worker |

How they interact: every websocket has one reader goroutine at each end which
runs the handlers, some of which block in a *call* to the other end; the
goroutine that accepted a connection waits for its end and then removes it, maybe
with a handler still running.  The worker serves one packet after another.  The
coordinator's maps, slots and `RoomId` are shared by all readers; the slot is
atomic, the others are plain fields.

### What is hard, and what would be right

| Component | Hard | Right |
|---|---|---|
| Slots and rooms | selection, reservation and start are three moments; two FIFOs with notices and answers; users leave in the middle of a handler; time-outs | a free worker is idle; a player's room stays open; an open room has a peer; RoomId follows the room; the slot is a lease; everything ends when all have left |
| Request layer | answer, timer and Cleanup race for a task | own answers only; late answers are swallowed; each call returns; no channel closed twice |
| Websocket | both goroutines find the break; blocked writers; a reader blocked in its own callback | done closed once; no write begins after it; the connection ends; no write blocks for ever |
| Emulator | handler, Start and autosave share one core under two mutexes, a channel and two flags | calls do not overlap; no frame lost; a close ends everything |
| Worker selection | workers change while the map is walked and while the browser pings | a link or saved game is honoured; a free worker is found; no stale choice |
| Reconnection | handlers of the lost connection run on | no room without a coordinator; the core comes back |
| Libretro interface | one core after another in one global; a core that was given up; a context made, drawn with and destroyed around the core's life | the calls keep the order `libretro.h` promises; what was granted stays granted; no call through a pointer of another core |
| Core thread | two condition variables without a predicate | a call is run once, by one thread, and returns |
| Input | fields stored one by one, a copy of the copy, a swap | no motion lost or counted twice; nothing of the game before; what is held is what is read |
| Peer, media, recorder, library, saves | callbacks and workers that meet a close; flags tested outside locks | each in `hazards` of `PROJECT.json`, with its line |

`PROJECT.json` lists the hazards one by one, with the properties that cover
them or the reason why none does yet.

## 2. The modules

### RoomProtocol, Lease - slots and rooms

One coordinator-worker connection, for its lifetime, with any number of users.
`slot` and `RoomId` are the fields of the coordinator's `Worker`; `pc[u]` is where
the reader goroutine of a user stands, one step of `HandleStartGame` a state
(grace period, slot test, room test, room match, reservation, call, answer);
`users` and `room` are the worker's router; `toWorker` and `toCoord` the two FIFO
directions of the websocket.  The worker's handlers are atomic because one reader
runs them; the coordinator's are cut at every read of shared state, so `RoomId` is
read twice as in the code.  Calls may time out at any moment, and a disconnect may
strike inside a handler, whose remaining packets follow the `terminate`.  Browsers
do what `web/js/app.js` lets them: set up WebRTC, start once, quit by reloading.

`Lease` is the abstract promise: free, granted, open, closing, free.
`RoomProtocol` is shown to implement it under the mapping `Phase`.

### Rpc - the request layer

`pkg/com/net.go`, cut at the lock of the map: callers put, write and wait; the
reader pops, fills and closes; `Cleanup` gives each task its error and closes it,
holding the read lock, which keeps `Put` and `Pop` out.  The peer answers late,
never, or sends packets of its own.  A call is in its `Write` until the writer goroutine of the
connection takes the packet, and only then has a timer (`net.go:135-138`); the writer may end, which
leaves the channel `deserted` until the reader has ended too and closed it, and the reader may be
in a `Write` of its own handler.  WsConnection is the detail of this.

### WsConnection - a websocket

`websocket.go`: the reader and writer goroutines, the unbuffered `send` channel
with its queue of blocked senders, `close()` under a `once`, pings and pongs as the
only way to notice a silent peer, and a callback that writes to its own connection.
`Write` is two steps, the test of `alive` and the send: `passed` is who stands
between them while `close()` may run.  A send on a closed channel is a panic, and a state of the
model.

### Emulator - the life of the core

`frontend.go`, `nanoarch.go` and their callers in `coordinatorhandlers.go`: the
packet handler, the goroutine of `Start` and that of `autosave` per frontend, with
`mu`, `mui`, the `done` channel that `Start` replaces, `Stopped`, and the core's
reservation.  A call into the core begins in one step and ends in another, so that
overlaps are states.

### Hub - the choice of a worker

`findWorkerFor` with all its branches: by worker id, by room, by saved session, the
first free one, or the fastest.  One search is followed, entry by entry under the
read lock of the map, while the world adds, removes, reserves, releases and renames
around it.  History variables remember which workers fitted *throughout* the search,
which is what a searcher can fairly expect to be found.  What other users do to a
worker is RoomProtocol reduced to its effect on slot and RoomId.

### Libretro, LibretroCore, Nanoarch - the interface to the core

`Libretro` holds `libretro.h` as data: each function of a core with the stages of its
life in which it may be called, each environment command with the functions it may be
called from and whether a TRUE binds the frontend for as long as the core lives.
`LibretroCore` is the promise made of them: a core is opened, told its environment,
initialised, given a game, run and shut down; it calls back only inside its own
functions; it is given every callback before a frame and a live context if it was
granted one; what was granted stays granted.

`Nanoarch` is the frontend between them (`nanoarch.go`, `nanoarch.c`).  Each *load* of a core has a
number: `at[k]` is the function that is called for it or the place it rests at, `inside[k]` the
load whose function that call is really in, `Follow` the straight lines of `CoreLoad`, `LoadGame` and
`Shutdown`.  The pointers to a core, the context and the fields of the global `Nan0` belong to the
process and remember which load they come from, so that a pointer left by the core before is a
state; a call through one into a library that is gone, or that finds nothing there, ends the process
with a `fault`.  Nothing keeps two games apart but the reservation, which `Close` gives back before
the `Shutdown` of its game: the next load may come while the first is in its `Shutdown`, has not yet
begun, or was given up without one, and a library that is mapped still may be the same one
initialised again (`image`).  Nothing keeps a keyboard event in time: it is tested against `keyboardCb`
in one step and passed on in another.  The assignments of `CoreLoad` itself are one step.

Nanoarch is shown to implement LibretroCore, once for each load (`Promise(k)`, under the mapping
`lifeOf`, `inOf`, `givenTo`, `grantedTo`, `contextOf`), for as long as the load is `Alone`: no later core
has been loaded, its library is its own, and its game and another have not overlapped.  That covers
a core whose predecessor was shut down, failed to load its game, or was left without a `Shutdown`.
Not claimed: two games that overlap (`UnloadedBeforeDeinit` is false of them), what an abandoned core goes
through itself once the next is loaded, and a mapped library that is initialised a second time.
`OwnContext` adds that a core draws with, and is told of the end of, the context made for it.

Cores and players are outside this repository, and a core may do whatever `libretro.h` allows it.
The places where the frontend relies on more than that are properties that fail: `GrantedApi`
and `DestroyedQuietly` against words of `libretro.h`, `CallbackIsThere` (a key typed while a core is unloaded)
and `RecordIsThere` (a core configured for OpenGL that asks for no context, so that `initVideo` reads a
record of another core or none) against no document.

### CoreThread - calls on a thread of their own

`same_thread`, `same_thread_with_args2`, `run_loop` and `same_thread_stop` of `nanoarch.c`, each
`pthread` operation a step: `lock` and `asleep` are the two mutexes with their
condition variables, `pc` is where every thread stands, `ran` counts how often a caller's
last call was run.  Spurious wake-ups, two callers and a call to a loop that is ending
are steps of the model; the history variable `disturbed` remembers them, and everything
is claimed up to the first one.  Emulator shows how far the callers are kept apart: those of
one game by its mutex (`OneCallAtATime`), those of two games not always (`ExclusiveUse`).

### InputCache - what the players press

`input.go` and the `input_cache` of `nanoarch.c`: reports are stored field by field by
the goroutines of the data channels, the goroutine of the game loads them field by field
(the keyboard word by word), stores them in the cache, and the core reads that.  Mouse
motion is added to an atomic, swapped out, cut to an `int16_t`, and set to zero when it is
read.  `owed` is the motion sent and not yet read.

### How the modules fit together

RoomProtocol assumes of a connection what Rpc and WsConnection show: packets arrive
in order, an answer goes to its own call, a late answer is dropped.  Hub assumes
of the games of other users that a slot is taken only when it is free, a room is told of
only while the slot is taken, and both are given back together.  RoomProtocol is shown to
be such an entry: `IsAnEntryOfTheHub` is the specification of Hub with this worker as its
only entry and no search under way.  Emulator is what `NewGame` and the room's end start and stop.
Its calls into the core are Nanoarch's operations: Emulator's mutex keeps those of one game apart, and
its `ExclusiveUse` is where those of two games overlap, which `overlapped` of Nanoarch remembers; a
frame of Nanoarch begins with the copy of InputCache, and each call it makes of a libco
core is handed over by CoreThread.

## 3. The runs

| Run | Shows | Instance | States |
|---|---|---|---|
| `room` | types, `FreeWorkerIsIdle`, `PlayerIsInRoom`, `RoomHasUsers`, `RoomIdFollowsRoom`, `ImplementsLease`, `IsAnEntryOfTheHub`, `StartReturns`, `RoomEndsAfterAllLeft` | 2 users, 2 rooms | 184 thousand |
| `room_slot_leak` | `NoPlayersNoSlot` fails | 2 users, 2 rooms | - |
| `rpc` | types, `OkMeansAnswered`, `LateAnswerIsNoRequest`, `CleanupOwnsItsTasks`, `EveryCallReturns` | 2 calls, 1 foreign packet | 56 thousand |
| `ws` | types, `DoneOnce`, `NoSendAfterDone`, `EndsWhenLost`, `WriteEnds` | 2 writers and the reader | 3 thousand |
| `emu` | types, `OneCallAtATime`, `QuitKeepsTheGame`, `HandlerReturns`, `UnhurriedEnds` | 2 games | 84 thousand |
| `emu_exclusive` | `ExclusiveUse` fails | 2 games | - |
| `hub` | types, `LinkIsHonoured`, `SavedGameIsFound`, `FreeWorkerIsFound`, `FastestIsFresh` | 2 workers, 1 room, 2 zones, latencies 1..2 | 1.2 million |
| `thread` | types, `RunsOnce`, `OneThread`, `CallReturns` | 2 goroutines, 2 threads | 9 thousand |
| `thread_size` | `SizeOfTheMemory` fails | the same | - |
| `input` | types, `MotionIsKept`, `NothingInherited`, `CacheSettles` | 1 button, 2 keys of different words, motions -2 and 3 against a 3-bit cache | 203 thousand |
| `core` | types, `OwnContext`, `ImplementsLibretro` | 2 loads, 2 drawing interfaces, 2 formats | 1.7 million |
| `core_format` | `DefaultPixelFormat` fails, at the second core | the same | - |

### Why these bounds are enough to be of interest

*Rooms.*  Two users give every race of the slot (a player, and one who joins,
starts another game, leaves or waits); two rooms tell a room from the one before it;
names of sessions are used again, so sessions are not bounded.  The FIFOs need no
bound: each user has at most a few packets under way.  *Rpc.*  One call for Cleanup to visit
and one that races; the foreign packet tells answers from requests; ids are not used
again.  *Websocket.*  Two writers queue behind a third, the reader.  *Emulator.*
Each frontend is used once, and two make every overlap of an old game with a new.
*Hub.*  Two workers with different addresses and zones: one that vanishes and one
that stays; the room is the one of the link, any other counts as none; two latencies
are an order and a tie.  Workers of one machine that share an address are not in the
instance.

*CoreThread.*  Two callers and two threads make every overlap; `MCCoreThread` follows a
behaviour to its first disturbance, after which nothing is claimed.  *InputCache.*  Two
keys of different words can be torn apart by the copy; the motions overflow the small
integer alone and in sum (`MaxMotion` bounds what is owed); one button is both a digital
one and a trigger.  `MCInputCache` moves one kind of device per behaviour: they share no
variable but the place of the game's goroutine.  *Nanoarch.*  Two loads are one core and the one before
it; one interface SDL has and one it has not.  `MaxLoads` bounds the loads, MaxRan of CoreThread the
count of runs.  The run `core` does not go on from a state in which two games overlap and the first
is not in its `Shutdown` (the constraint `InShutdown` of `MCNanoarch`), a bound on the size only: nothing is
claimed of overlapping games in that run, and the theorems have no such bound.

The safety parts of all eight are proved for any sizes, and the liveness of five
of them (section 4), so that the bounds matter only for the four liveness properties
that section names as left to TLC.

### Deadlock

No run checks deadlock.  In each system a state with nothing to do is legitimate:
all users gone, all calls returned, the search done, a process that has crashed, the last load
shut down; in RoomProtocol a leaked slot
(below) with nobody able to start is one as well.

### Fairness, and why the code justifies it

Go schedules every runnable goroutine, so each handler, each reader, the writer and who is in a
`Write` is weakly fair.  Rpc's timers fire (`time.After`), so a caller that waits is fair as a whole, and so
is one whose packet the writer, while there is one, will take.  The writer that ends closes the
socket, from which only finitely many packets can still be read, so the reader finds the error in one
of its turns (strong fairness of `ReaderFails`); that the writer ends at all is not owed.
In RoomProtocol a time-out is never owed, since a worker that works answers first.
In WsConnection the callback returns when its messages are taken, however often it is
entered (strong fairness of `CallbackReturns`).  In Emulator the goroutines compete for
Go mutexes, which are starvation-free, hence strong fairness of each.  In CoreThread the
operating system runs some thread as long as one can run: no more is needed, because
calls and loops wait for each other, and beginning a call is not owed.  In InputCache the frames of a game go on (`Start`'s ticker), and
neither inputs nor reads of the core are owed.  Nanoarch states no liveness.  Persons,
peers, networks and those who write owe nothing.  Hub has no liveness property: its
search ends unless the browser keeps it waiting, which Rpc's time-out ends.

## 4. What is proved

All theorems are for arbitrary constants, from the assumptions the modules name
(the null values are not in the sets, flags are Boolean, the number of packets or loads is a
number, the workers are finitely many, buttons and keys are libretro's, threads are not
goroutines and there is at least one to be created), and rest on one inductive invariant per
module.

| Module | Theorems | Argument |
|---|---|---|
| `RoomProtocol_proofs` | `TypeCorrect`, `FreeWorkerIsNeverUsed`, `PlayersKeepTheirRoom`, `NoAbandonedRoom`, `RoomIdTracksRoom`, `SlotIsALease` | A peer that is set up pins the room.  A room is closed only when no peer is left, so while its close notice is under way every peer is newer than the notice and has its answer queued behind it; it cannot have started a game before the coordinator frees the slot. |
| `Rpc_proofs` | `TypeCorrect`, `AnswersAreTheirOwn`, `LateAnswersAreSwallowed`, `CleanupIsAlone` | An id is on the wire at most once, and only while its task is in the map, so an answer finds its task however late.  A popped task is not in the map, and the lock keeps the map still for Cleanup.  Whoever closes a task has filled it before. |
| `WsConnection_proofs` | `TypeCorrect`, `DoneIsClosedOnce`, `NobodySendsLate` | `once` is taken once; only its holder is closing; alive and done follow from it.  `NobodySendsLate`: alive is false once done is closed, so the goroutines behind the test of a `Write` only become fewer; it says nothing of those that passed it before, which may still block in the channel or panic. |
| `Emulator_proofs` | `TypeCorrect`, `CallsNeverOverlap`, `NoFrameIsLost` | Who is inside the core holds the frontend's mutex, except the handler that loads the game, before Start and autosave of that frontend exist.  A frame not saved belongs to a loop that has not ended. |
| `Hub_proofs` | `TypeCorrect`, `LinksLeadToTheirRoom`, `LinksLeadToTheirSave`, `FreeWorkersAreSeen`, `ChoiceIsFresh` | A walk begins with every entry, and none comes or goes while it lasts; what has fitted since the search began is among the entries still to be seen, or was found. If every measured address still has a worker, the last one that lowers the bound has one. |
| `CoreThread_proofs` | `TypeCorrect`, `OneThreadRuns`, `CallsRunOnce` | Undisturbed, there is one caller and one loop, and `Places` says which pairs of places they can be at.  `Owners` and `Sleepers` follow the mutexes: a caller holds `done` from before it posts until it sleeps, so the loop's answer finds it asleep, and the loop holds `run` until it sleeps, so the post finds it asleep. |
| `InputCache_proofs` | `TypeCorrect`, `NoMotionIsLost`, `NoInputIsInherited` | Motion is in one of three places, and each step moves it whole.  What is on its way - in a half-stored report, in the load of a word, in the cache - was told since the load, or will be overwritten before the core runs.  The walk over the words ends at the last one. |
| `Nanoarch_proofs` | `TypeCorrect`, `CoresDrawInTheirOwn`, `CoresLiveAsPromised` | Until two games overlap, `Parked` says that only the latest load is at work, `Whereabouts` ties its place to what is loaded, and `Context` says that from `initVideo` to `deinitVideo` the context is the one made from the record in `hw`, whatever cores before have left.  The table of functions is unfolded row by row; each step of a load that is `Alone` then maps to one of LibretroCore or to a stutter. |

Each invariant is needed because the properties are not inductive: that a slot is free
says nothing of the packets that may still take it, that a result is right says
nothing of the channel about to wake another caller.

`CoresLiveAsPromised` is all of `ImplementsLibretro`: for any number of loads, no step leaves the promise
made to a load, from its opening to its close or to the load of the next, until two games overlap.  No
case of a core or a player is assumed away: a call that goes wrong is recorded in `fault`, keyboard events come
at any time, and the promise is about the order of the calls, not about `fault`.  The condition
`~overlapped` is needed: `Nanoarch_overlap` gives the counterexample without it.  `OneThreadRuns`
and `CallsRunOnce` are about `Spec` of CoreThread, with everything that can disturb it.

`SlotIsALease` is the safety half of `ImplementsLease`: initial states and steps map to
initial states, steps or stutters.  `WorkerIsAnEntry` is all of `IsAnEntryOfTheHub`: of the
protocol's steps only a reservation, a room notice and a close notice are steps of the hub, and
the rest are stutters.  It is what Hub's theorems about one search take for granted of the
games that start and end around it; that several workers do not disturb each other's entries
is the shape of `Hub`, each having its own slot and its own RoomId.

### Liveness

| Theorem | Property | Argument |
|---|---|---|
| Rpc: `CallsReturn` | `EveryCallReturns` | A call that was made writes.  While there is a writer it is taken, and then it returns at the latest with its timer, and no step of another undoes either.  If the writer ends first, the reader ends in turn, which panics (the hazard of `websocket.go:127`), or is stuck in a `Write` of its own: this last case the property excepts, because there the code does wait for ever, with no timer armed. |
| CoreThread: `CallsReturn` | `CallReturns` | `NoLostSignal`: whoever holds a mutex is on its way to unlock it, and whoever sleeps has a thread on its way to signal it.  So while a call is under way some thread can go on, and each step lowers the number of steps left to the caller, or keeps it and lowers that of the loop, until the call has returned. |
| InputCache: `HeldInputIsRead` | `CacheSettles` | Once the reports stop, the copy walks over the ports and the words of the keyboard, lowers the number of fields left, and begins again at the next frame: after one whole frame the cache is what is held, and later frames keep it. |
| Emulator: `TheHandlerReturns`, `ClosedFrontendsEnd` | `HandlerReturns`, `UnhurriedEnds` | `LivingInvariant`: whoever has `mu` is at a place where it gives it back, so it is free again and again, and strong fairness lets each goroutine take it.  With a game that was left in time the loop has the steps of its end left, the handler those of its request, the autosave those of a save; the handler waits for `mui` of the loop only, and the autosave is alone at the end. |
| WsConnection: `LostConnectionsEnd`, `SilentConnectionsEnd` | `EndsWhenLost` | Whichever of reader and writer finds the break reaches `close()` in a bounded number of steps, and who waits for `once` waits for one that is closing.  The reader may be in its callback, which returns when its messages are taken. |

Each is proved from `FairSpec /\ []StepsAreEnabled`.  The prover reasons about steps and about
fairness, but not about ENABLED, so each module states, as a state predicate, when an action
that fairness is about can be taken: `StepsAreEnabled` says that the caller, the thread, the
handler that has what it needs does have a next step.  It restates guards, is true in every
reachable state, and TLC checks it on each instance (`Rpc_enabled.cfg`, `CoreThread_enabled.cfg`,
`InputCache_enabled.cfg`, `Emulator_enabled.cfg`, `WsConnection_enabled.cfg`, beside the MC module of that name).
All the rest, which is the argument that the needs are met, is proved.

`LostConnectionsEnd` takes one thing more, that a message the reader's callback writes is taken in
its turn (`ReaderIsServed`, checked in `WsConnection_enabled.cfg`).  `SilentConnectionsEnd` does not need it:
it is about a callback that does not write to its own connection, as that of the coordinator for
its workers, whose packets are answered to users or not at all.

### What only TLC checks

`StartReturns` and `RoomEndsAfterAllLeft` of RoomProtocol and the fairness half of
`ImplementsLease` depend on a packet moving up a FIFO of unbounded length to its front, and so do `WriteEnds` and
`ReaderIsServed` of WsConnection in the queue of blocked senders.  That a place in a queue decreases to zero is an induction
over the numbers *inside* a temporal formula; the theorems above avoid it, since their counts of steps left
have a constant bound.  `StepsAreEnabled` is left to TLC for the reason given.

## 5. What the code does not do as it says

Four runs end in a counterexample to what the source says of itself.

- **A lost slot** (`room_slot_leak`).  `HandleStartGame` reserves the slot and gives it
  back on no error path; `UnReserve` has no caller.  A worker that refused one start is
  busy until it reconnects.
- **Two games in the core** (`emu_exclusive`).  The reservation is given back before the old
  game shuts the core down.
- **A length that is an address** (`thread_size`).  `SaveState` and `RestoreSaveState` hand the
  *address* of their length to a thread that takes it for the length; `libretro.h:7713`
  says it is the size of the memory.
- **The format of the core before** (`core_format`).  `PixFmt` is never reset.  It starts as 0RGB1555,
  its zero value; after a core that has set RGB565, one that sets no format is read in that and not in
  the default of `libretro.h:5624`.

Eight more properties of this kind fail, each under a configuration kept beside its module
(`tlc -config RoomProtocol_grace.cfg MCRoomProtocol`, and so on).

- **A grace period that waits for itself** (`RoomProtocol_grace`, `PreviousRoomCloses`).  The
  user that waits for its previous room to close is itself a peer that keeps it open.
- **A leaver that stays** (`RoomProtocol_leaver`, `LeaverIsRemoved`).  The end of a session may
  overtake its WebRTC set-up; the worker keeps a peer nobody removes, and with it the room.
- **A drained queue that is not** (`Rpc_drain`, `DrainedIsOver`).  `Cleanup` closes tasks and
  leaves them in the map; an answer read afterwards closes one again and panics.
- **A game that never ends** (`Emulator_stop`, `ClosedEnds`).  `Start` replaces `done` after it has
  looked at `Stopped`; a `Close` in between is lost.
- **No free slots, with a free worker** (`Hub_fastest`, `FastestIsFound`).  An address that has
  lost its last worker still lowers the best latency, and the remaining addresses are
  skipped.
- **An interface that is granted and not there** (`Nanoarch_api`, `GrantedApi`).  `SET_HW_RENDER` is answered true for every
  interface; `setGLAttrs` then refuses and `initVideo` panics.  `libretro.h:935` says that a true answer means
  the interface is supported.
- **A call of a NULL pointer** (`Nanoarch_destroy`, `DestroyedQuietly`).  `deinitVideo` calls `context_destroy` without a test;
  `libretro.h:5171` lets a core leave it NULL.
- **The end of one game in the core of the next** (`Nanoarch_overlap`,
  `UnloadedBeforeDeinit`).  The pointers to a core are
  overwritten by the next load while the `Shutdown` of the game before, whose reservation is given back,
  still uses them: `retro_deinit` comes to a core whose game is loaded, against `libretro.h:7793`.

`CallbackIsThere` (`Nanoarch_keyboard`) and `RecordIsThere` (`Nanoarch_record`), of section 2, fail as well: a key
tested against the callback of a core reaches it when its library is gone, and `initVideo` looks
at a record that the core before has left.  Nothing in the code says otherwise, so they
are hazards and not findings.

`MotionSinceLastPoll` of InputCache fails too: the copy before a frame overwrites motion
the core did not read in the frame before, where `libretro.h:188` speaks of the last poll.

## 6. What is not modelled, and why

Not reachable by the method: codecs, OpenGL and SDL, ICE and DTLS inside the library,
HTTP and TLS, files.  Not of interest: configuration, logging, layout of the page.
Left out of the modules that exist: in RoomProtocol the end of the worker connection and
the forwarded save, load, reset, change-player and record requests; in Emulator failing
saves and the callbacks (an autosave that enters the core after its shutdown is a step of it, and a hazard that no
property covers); in Hub the handshake and the list of
servers; in WsConnection the upgrade.  In CoreThread the main-thread queue of macOS; in
InputCache the packing of the pads in the page and more than one port.

Of `libretro.h` what the frontend does not implement or look at: the interfaces it answers
FALSE, structures, formats of files, documentation of values.  Of the frontend, these
places disagree with `libretro.h` or rest on the kindness of a core, and are left out
because their effect is in data the models do not carry:

- the geometry: changes are applied by a timer that waits (`config.yaml:153`),
  `SET_SYSTEM_AV_INFO` takes the base size only, and the maximum in `SET_GEOMETRY` is not
  compared with the one that may not grow (`libretro.h:1328`, `1548`);
- the length of a tick is a division by the whole frames per second;
- the memory of a core (`retro_get_memory_data`) is used without a copy or a lock;
- `context_destroy` comes after `retro_deinit`;
- the strings of `GET_VARIABLE` are pinned only until it returns;
- a pixel format that does not exist ends the process.

`khrplatform.h` and `speex_resampler.h` are other projects' headers.

Data races are taken as atomic accesses, except
where a value is read twice, which is two steps.

## 7. The plan

In order of importance.  First the state machines, then proofs about them.

1. `Reconnect` (`worker/worker.go`, `coordinator/hub.go`): epochs of a connection, `Reset`
   while a handler of the lost one still starts a game, two entries of one worker, the
   doubling pause.  Composes the effects of RoomProtocol and Emulator.
2. `Peer` (`webrtc.go`, `web/js/network/webrtc.js`): offer, answer and candidates out of
   order, data channel, disconnect during a set-up.
3. `Recorder` and `Library`: flags tested outside their locks, a scan that fails.
4. `Saves` (`storage.go`, `cloud.go`): save, asynchronous upload, first download; abstractly,
   a register that never goes back.
5. `MediaBuffer` as a pure algorithm against a reference: frames cut from a stream.
6. `MediaPipe` (`media.go`): re-initialisation against processing.
7. `Page` (`web/js/app.js`): the states of the page, and that RoomProtocol's users are its
   abstraction.
8. `Downloads` (`manager`): sync under the lock file, retry.

Small independent modules will share a run.  Proofs to come: that Reconnect never leaves a room without a connection; that the buffer's frames partition its input;
and a composition of Rpc and WsConnection in which the calls of a lost connection return.
