-------------------------------- MODULE Hub -------------------------------
(***************************************************************************)
(* How the coordinator finds a worker for a user                           *)
(* (pkg/coordinator/hub.go: findWorkerFor), while workers come and go and  *)
(* other users start and end games on them.                                *)
(*                                                                         *)
(* One search is followed.  Searches only read, so several of them do not  *)
(* disturb one another.  A worker is one connection of it, an entry of the *)
(* hub's map; a worker that connects again is another entry.  The read     *)
(* lock of the map is held while its entries are walked, one entry a step, *)
(* and keeps entries from being added or removed; slots and rooms of the   *)
(* entries change under it at any moment.  What the games of the other     *)
(* users do to slot and room is RoomProtocol, reduced to its effects.      *)
(***************************************************************************)
EXTENDS Naturals, SequencesExt, FiniteSets

CONSTANTS Worker, NoWorker,
          Room, NoRoom,     \* rooms, and the link without one
          Zone, AnyZone,
          ZoneOf,           \* worker -> its zone
          PingServer,       \* worker -> the address a browser pings
          Machine,          \* worker -> the machine part of its id
          MaxPing           \* latencies are below it

ASSUME WorkerAssumption == IsFiniteSet(Worker) /\ NoWorker \notin Worker
ASSUME RoomAssumption == NoRoom \notin Room
ASSUME ZoneAssumption == AnyZone \notin Zone /\ ZoneOf \in [Worker -> Zone]
ASSUME PlaceAssumption == DOMAIN PingServer = Worker /\ DOMAIN Machine = Worker
ASSUME PingAssumption == MaxPing \in Nat

VARIABLES
  conf,      \* the coordinator's Selector and Debug, read once
  status,    \* of a worker: "new", "on", "closing" (disconnected, still in
             \* the map), "gone"
  slot,      \* Worker.slotted
  RoomId,    \* Worker.RoomId
  Sessions,  \* the rooms the worker has saved games of, as it has told
  q,         \* the query: wid, room and zone of the user's URL
  stage,     \* where the search is
  todo,      \* the entries not walked yet
  list,      \* getAvailableWorkers: the entries found
  lat,       \* address -> latency, as the browser answered
  found,     \* the result
  how        \* the stage that gave it

worldVars == <<status, slot, RoomId, Sessions>>
searchVars == <<conf, q, stage, todo, list, lat, found, how>>

VARIABLES
  steadyFree,  \* history: entries free ever since the search began
  steadyRoom,  \* history: entries that have run q.room ever since
  steadySaved, \* history: those that were free and had saved q.room
  fresh        \* history: entries that were free at some moment since the
               \* browser answered
historyVars == <<steadyFree, steadyRoom, steadySaved, fresh>>
vars == <<worldVars, searchVars, historyVars>>

Results == {"linked", "refused"}

Registered == {w \in Worker : status[w] \in {"on", "closing"}}
HasSlot(w) == slot[w] = 0
In(w, zone) == zone = AnyZone \/ zone = ZoneOf[w]

Free == {w \in Registered : HasSlot(w)}
Runs(r) == {w \in Registered : r # NoRoom /\ RoomId[w] = r}
Saved(r) == {w \in Free : r \in Sessions[w]}

(* The map is locked for reading from the first entry walked to the last.  *)
Locked == todo # {}

-----------------------------------------------------------------------------
(* The world: the other connections and their readers.                     *)

Remember ==
  /\ steadyFree' = steadyFree \cap Free'
  /\ steadyRoom' = steadyRoom \cap Runs(q.room)'
  /\ steadySaved' = steadySaved \cap Saved(q.room)'
  /\ fresh' = fresh \cup (IF stage \in {"again", "relist"} THEN Free' ELSE {})

Changes == UNCHANGED searchVars /\ Remember

(* handleWorkerConnection: the worker is added to the map.                 *)
Add(w) ==
  /\ status[w] = "new" /\ ~Locked
  /\ status' = [status EXCEPT ![w] = "on"]
  /\ UNCHANGED <<slot, RoomId, Sessions>> /\ Changes

(* A user linked to the worker earlier starts a game.                      *)
TryReserve(w) ==
  /\ status[w] \in {"on", "closing"} /\ slot[w] = 0
  /\ slot' = [slot EXCEPT ![w] = 1]
  /\ UNCHANGED <<status, RoomId, Sessions>> /\ Changes

(* A connected worker tells of a room only while its slot is taken; the    *)
(* reader of one that is closing may still be busy with such a notice.     *)
HandleRegisterRoom(w, r) ==
  /\ (status[w] = "on" /\ slot[w] = 1) \/ status[w] = "closing"
  /\ RoomId' = [RoomId EXCEPT ![w] = r]
  /\ UNCHANGED <<status, slot, Sessions>> /\ Changes

HandleCloseRoom(w) ==
  /\ status[w] \in {"on", "closing"} /\ RoomId[w] # NoRoom
  /\ RoomId' = [RoomId EXCEPT ![w] = NoRoom]
  /\ slot' = [slot EXCEPT ![w] = 0]
  /\ UNCHANGED <<status, Sessions>> /\ Changes

(* An empty list is ignored.                                               *)
HandlePrevSessionList(w, rooms) ==
  /\ status[w] \in {"on", "closing"} /\ rooms # {}
  /\ Sessions' = [Sessions EXCEPT ![w] = rooms]
  /\ UNCHANGED <<status, slot, RoomId>> /\ Changes

(* HandleSaveGame of another user: its room is a saved one now, once the   *)
(* worker has told of its saved games at all.                              *)
AddSession(w) ==
  /\ RoomId[w] # NoRoom /\ Sessions[w] # {}
  /\ Sessions' = [Sessions EXCEPT ![w] = @ \cup {RoomId[w]}]
  /\ UNCHANGED <<status, slot, RoomId>> /\ Changes

(* RemoveDisconnect: the worker is disconnected, and then removed.         *)
Disconnect(w) ==
  /\ status[w] = "on"
  /\ status' = [status EXCEPT ![w] = "closing"]
  /\ RoomId' = [RoomId EXCEPT ![w] = NoRoom]
  /\ slot' = [slot EXCEPT ![w] = 0]
  /\ UNCHANGED Sessions /\ Changes

(* Mutant: an entry is removed while the map is walked.                    *)
RemoveUnlocked(w) ==
  /\ status[w] = "closing"
  /\ status' = [status EXCEPT ![w] = "gone"]
  /\ UNCHANGED <<slot, RoomId, Sessions>> /\ Changes

Removed(w) ==
  /\ status[w] = "closing" /\ ~Locked
  /\ status' = [status EXCEPT ![w] = "gone"]
  /\ UNCHANGED <<slot, RoomId, Sessions>> /\ Changes

-----------------------------------------------------------------------------
(* The search                                                              *)

Settled == UNCHANGED <<worldVars, conf, q, steadyFree, steadyRoom, steadySaved>>

Walk(s) == stage' = s /\ todo' = Registered /\ list' = {}
Return(w) ==
  /\ stage' = "linked" /\ found' = w /\ how' = stage
  /\ todo' = {} /\ UNCHANGED <<list, lat, fresh>>
Refuse ==
  /\ stage' = "refused" /\ how' = stage
  /\ todo' = {} /\ UNCHANGED <<list, lat, found, fresh>>

(* findWorkerFor with the query of the user's URL.                         *)
Begin(wid, room, zone) ==
  /\ stage = "begin"
  /\ q' = [wid |-> wid, room |-> room, zone |-> zone]
  /\ Walk(IF wid # NoWorker THEN "id" ELSE IF room # NoRoom THEN "room" ELSE "list")
  /\ steadyFree' = {w \in Free : In(w, zone)}
  /\ steadyRoom' = {w \in Runs(room) : In(w, zone)}
  /\ steadySaved' = Saved(room)
  /\ UNCHANGED <<worldVars, conf, lat, found, how, fresh>>

(* FindBy of a walk that looks for the first entry among those that fit.   *)
Look(s, fitting, next) ==
  /\ stage = s
  /\ \/ \E w \in todo \cap fitting : Return(w)
     \/ \E w \in todo \ fitting :
          /\ todo' = todo \ {w}
          /\ UNCHANGED <<stage, list, lat, found, how, fresh>>
     \/ /\ todo = {} /\ Walk(next)
        /\ UNCHANGED <<lat, found, how, fresh>>
  /\ Settled

(* Mutant: a room is looked for among the free workers only.               *)
FindFreeWorkerByRoom ==
  Look("room", {w \in todo : RoomId[w] = q.room /\ In(w, q.zone) /\ HasSlot(w)}, "prev")

findWorkerByRoom ==
  Look("room", {w \in todo : RoomId[w] = q.room /\ In(w, q.zone)}, "prev")

(* Mutant: a saved game is looked for in the zone only.                    *)
FindWorkerBySessionInZone ==
  Look("prev", {w \in todo : q.room \in Sessions[w] /\ HasSlot(w) /\ In(w, q.zone)}, "list")

findWorkerByPreviousRoom ==
  Look("prev", {w \in todo : q.room \in Sessions[w] /\ HasSlot(w)}, "list")

(* Mutant: an entry that is busy ends the walk.                            *)
CollectUntilBusy(s, zone) ==
  /\ stage = s
  /\ \E w \in todo :
       /\ todo' = IF HasSlot(w) THEN todo \ {w} ELSE {}
       /\ list' = IF HasSlot(w) /\ In(w, zone) THEN list \cup {w} ELSE list
  /\ UNCHANGED <<stage, lat, found, how, fresh>>
  /\ Settled

(* getAvailableWorkers of a walk that collects the entries that are free.  *)
Collect(s, zone) ==
  /\ stage = s
  /\ \E w \in todo :
       /\ todo' = todo \ {w}
       /\ list' = IF HasSlot(w) /\ In(w, zone) THEN list \cup {w} ELSE list
  /\ UNCHANGED <<stage, lat, found, how, fresh>>
  /\ Settled

getAvailableWorkers ==
  Collect("id", AnyZone) \/ Collect("list", q.zone) \/ Collect("relist", q.zone)

(* Any worker of the same machine will do, except for debugging.           *)
findWorkerById ==
  /\ stage = "id" /\ todo = {}
  /\ LET fit == {w \in list : IF conf.debug THEN w = q.wid ELSE Machine[w] = Machine[q.wid]}
     IN (\E w \in fit : Return(w)) \/ (fit = {} /\ Refuse)
  /\ Settled

find1stFreeWorker ==
  /\ stage = "list" /\ todo = {} /\ conf.selector = "any"
  /\ (\E w \in list : Return(w)) \/ (list = {} /\ Refuse)
  /\ Settled

(* findFastestWorker asks the browser.                                     *)
AskLatencies ==
  /\ stage = "list" /\ todo = {} /\ conf.selector = "ping"
  /\ IF list = {} THEN Refuse
     ELSE stage' = "ask" /\ UNCHANGED <<todo, list, lat, found, how, fresh>>
  /\ Settled

Addresses == {PingServer[w] : w \in list}

(* The browser answers for every address, or not at all.                   *)
Latencies ==
  /\ stage = "ask"
  /\ \/ /\ lat' \in [Addresses -> 1..MaxPing]
        /\ stage' = "again" /\ fresh' = Free /\ UNCHANGED <<todo, list, found, how>>
     \/ Refuse
  /\ Settled

(* Mutant: the workers are not listed again.                               *)
KeepList ==
  /\ stage = "again"
  /\ stage' = "relist" /\ todo' = {} /\ UNCHANGED <<list, lat, found, how, fresh>>
  /\ Settled

ListAgain ==
  /\ stage = "again"
  /\ Walk("relist") /\ UNCHANGED <<lat, found, how, fresh>>
  /\ Settled

At(a) == {w \in list : PingServer[w] = a}

(* The loop over the latencies, in the map's order: each address that is   *)
(* faster than all before it lowers the bound, even when no worker has it  *)
(* any more; the last of them that has one gives the result.               *)
Lowers(order) == {i \in DOMAIN order : \A j \in 1..(i - 1) : lat[order[i]] < lat[order[j]]}

Lowest(order) ==
  {w \in list : \E i \in Lowers(order) :
     /\ w \in At(order[i])
     /\ \A k \in Lowers(order) : k > i => At(order[k]) = {}}

PickFastest ==
  /\ stage = "relist" /\ todo = {}
  /\ \E order \in SetToSeqs(DOMAIN lat) :
       (\E w \in Lowest(order) : Return(w)) \/ (Lowest(order) = {} /\ Refuse)
  /\ Settled

-----------------------------------------------------------------------------
NoQuery == [wid |-> NoWorker, room |-> NoRoom, zone |-> AnyZone]

Init ==
  /\ conf \in [selector : {"any", "ping"}, debug : BOOLEAN]
  /\ status \in [Worker -> {"new", "on"}]
  /\ slot = [w \in Worker |-> 0]
  /\ RoomId = [w \in Worker |-> NoRoom] /\ Sessions = [w \in Worker |-> {}]
  /\ q = NoQuery /\ stage = "begin" /\ todo = {} /\ list = {} /\ lat = <<>>
  /\ found = NoWorker /\ how = "begin"
  /\ steadyFree = {} /\ steadyRoom = {} /\ steadySaved = {} /\ fresh = {}

World(w) ==
  \/ Add(w) \/ TryReserve(w) \/ HandleCloseRoom(w) \/ AddSession(w)
  \/ Disconnect(w) \/ Removed(w)
  \/ \E r \in Room : HandleRegisterRoom(w, r)
  \/ \E rooms \in SUBSET Room : HandlePrevSessionList(w, rooms)

findWorkerFor ==
  \/ \E wid \in Worker \cup {NoWorker}, room \in Room \cup {NoRoom}, zone \in Zone \cup {AnyZone} :
       Begin(wid, room, zone)
  \/ findWorkerByRoom \/ findWorkerByPreviousRoom
  \/ getAvailableWorkers \/ findWorkerById \/ find1stFreeWorker
  \/ AskLatencies \/ Latencies \/ ListAgain \/ PickFastest

Next ==
  \/ \E w \in Worker : World(w) /\ stage \notin Results
  \/ findWorkerFor

Spec == Init /\ [][Next]_vars

-----------------------------------------------------------------------------
TypeOK ==
  /\ conf \in [selector : {"any", "ping"}, debug : BOOLEAN]
  /\ status \in [Worker -> {"new", "on", "closing", "gone"}]
  /\ slot \in [Worker -> 0..1]
  /\ RoomId \in [Worker -> Room \cup {NoRoom}]
  /\ Sessions \in [Worker -> SUBSET Room]
  /\ q \in [wid : Worker \cup {NoWorker}, room : Room \cup {NoRoom}, zone : Zone \cup {AnyZone}]
  /\ stage \in {"begin", "id", "room", "prev", "list", "ask", "again", "relist"} \cup Results
  /\ todo \subseteq Registered /\ list \subseteq Worker
  /\ DOMAIN lat \subseteq {PingServer[w] : w \in Worker}
  /\ found \in (IF stage = "linked" THEN Worker ELSE {NoWorker})
  /\ how \in {"begin", "id", "room", "prev", "list", "ask", "relist"}
  /\ UNION {steadyFree, steadyRoom, steadySaved, fresh} \subseteq Worker

(* Where no worker is asked for by its id.                                 *)
Searched == stage \in Results /\ q.wid = NoWorker

(* A user with the link of a room that ran in the user's zone during the   *)
(* whole search is sent to a worker that runs it, even a busy one, however *)
(* many other workers are free (hub.go: findWorkerByRoom).                 *)
LinkIsHonoured == Searched /\ steadyRoom # {} => how = "room"

(* A user with the link of a room that nobody runs is sent to a worker     *)
(* that has its saved game, in whatever zone, if one was free during the   *)
(* whole search (hub.go: findWorkerByPreviousRoom).                        *)
SavedGameIsFound == Searched /\ steadySaved # {} => how \in {"room", "prev"}

(* "No free slots" is never said when a worker in the zone was free during *)
(* the whole search, unless the browser has not answered, or one of the    *)
(* addresses it measured has lost its last free worker meanwhile (hub.go:  *)
(* getAvailableWorkers, find1stFreeWorker, findFastestWorker).             *)
FreeWorkerIsFound ==
  Searched /\ stage = "refused" /\ steadyFree # {} =>
    how = "ask" \/ (how = "relist" /\ ~ (DOMAIN lat \subseteq Addresses))

(* A worker that was chosen by its latency was free at some moment after   *)
(* the latencies were known: what was listed before the browser was asked  *)
(* is not relied on (hub.go: findFastestWorker).                           *)
FastestIsFresh == stage = "linked" /\ how = "relist" => found \in fresh

(* "Returns the best server for a session": it finds one, if the browser   *)
(* has answered and a worker in the zone was free during the whole search  *)
(* (hub.go: findFastestWorker).                                            *)
FastestIsFound == Searched /\ stage = "refused" /\ steadyFree # {} => how # "relist"
=============================================================================
