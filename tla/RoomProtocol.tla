--------------------------- MODULE RoomProtocol ---------------------------
(***************************************************************************)
(* The room and slot protocol between the coordinator and one worker, for  *)
(* the lifetime of one websocket connection between the two.               *)
(*                                                                         *)
(* The coordinator keeps, per worker, a one-place slot and the id of the   *)
(* room the worker last reported (pkg/coordinator/worker.go).  Every user  *)
(* has a websocket of its own: its reader goroutine runs the handlers of   *)
(* pkg/coordinator/userhandlers.go one after another, while the goroutine  *)
(* that accepted it (hub.go) waits for the end of the connection and then  *)
(* terminates the user's session, possibly with a handler still running.   *)
(* The worker (pkg/worker/coordinatorhandlers.go) serves the coordinator's *)
(* packets one by one in its single reader goroutine, so its handlers are  *)
(* atomic here; it keeps one room and the set of connected peers.          *)
(*                                                                         *)
(* A websocket delivers in order and without loss: one FIFO a direction.   *)
(* Time is abstracted: a call may time out, and a grace period may end, at *)
(* any moment.  A user stands for one websocket session; the name is used  *)
(* again only when nothing of the old session is left (com.NewUid gives    *)
(* every session a new id).                                                *)
(***************************************************************************)
EXTENDS Naturals, Sequences, FiniteSets

CONSTANTS User,     \* names of user sessions
          Room,     \* room ids
          NoRoom    \* the empty room id ""

ASSUME RoomAssumption == NoRoom \notin Room

VARIABLES
  slot,      \* coordinator, Worker.slotted: 0 is free, 1 is taken
  RoomId,    \* coordinator, Worker.RoomId
  pc,        \* where the reader goroutine of each user is
  alive,     \* whether the user's websocket is still open
  rid,       \* the room id the user's browser holds (room.js) and sends
  users,     \* worker, Router.users: peers set up on the worker
  room,      \* worker, Router.room (its id)
  toWorker,  \* packets from the coordinator to the worker
  toCoord    \* packets from the worker to the coordinator

userVars == <<pc, alive, rid>>
coordVars == <<slot, RoomId>>
workerVars == <<users, room>>
vars == <<slot, RoomId, pc, alive, rid, users, room, toWorker, toCoord>>

(* Between two handlers a reader waits for the browser: "new" before the   *)
(* WebRTC set-up, "ready" in the menu, "play" in a game whose room it was  *)
(* told, "stuck" after a start that was refused, failed or timed out, and  *)
(* "left" when the page is being reloaded.  All others are inside one.     *)
Waiting == {"new", "ready", "play", "stuck", "left"}
Starting == {"grace", "gate", "busy", "match", "reserve", "send", "start", "answered"}
PC == {"off", "initing", "init"} \cup Waiting \cup Starting

Request == [t : {"init", "start", "quit", "terminate"}, u : User, r : Room \cup {NoRoom}]
Reply == [t : {"inited", "uninited", "started", "refused"}, u : User, r : Room \cup {NoRoom}]
Notice == [t : {"register", "close"}, r : Room]

Note(t, r) == [t |-> t, r |-> r]

(* The notices under way, in order.                                        *)
NoticeAt == {i \in DOMAIN toCoord : toCoord[i].t \in {"register", "close"}}

(* Where a handler leaves its reader: the reader of a closed socket ends.  *)
Return(u, p) == IF alive[u] THEN p ELSE "off"

Goto(u, p) == pc' = [pc EXCEPT ![u] = p]

Ask(t, u) == toWorker' = Append(toWorker, [t |-> t, u |-> u, r |-> rid[u]])

-----------------------------------------------------------------------------
(* Users and their handlers in the coordinator.                            *)

(* Nothing of an earlier session of this name is left anywhere.            *)
Unused(u) ==
  /\ pc[u] = "off" /\ ~alive[u] /\ u \notin users
  /\ \A i \in DOMAIN toWorker : toWorker[i].u # u
  /\ \A i \in DOMAIN toCoord \ NoticeAt : toCoord[i].u # u

(* handleUserConnection: findWorkerFor returns this worker because it runs *)
(* the room of the user's link, or because it has a free slot.  The slot   *)
(* is not taken yet.                                                       *)
Connect(u, r) ==
  /\ Unused(u)
  /\ slot = 0 \/ (r # NoRoom /\ RoomId = r)
  /\ Goto(u, "new")
  /\ alive' = [alive EXCEPT ![u] = TRUE]
  /\ rid' = [rid EXCEPT ![u] = r]
  /\ UNCHANGED <<coordVars, workerVars, toWorker, toCoord>>

(* The browser asks for the WebRTC set-up and the handler begins.          *)
BeginInit(u) ==
  /\ pc[u] = "new" /\ alive[u]
  /\ Goto(u, "initing")
  /\ UNCHANGED <<coordVars, alive, rid, workerVars, toWorker, toCoord>>

(* HandleInitWebrtcStream: a blocking call to the worker.                  *)
SendInit(u) ==
  /\ pc[u] = "initing"
  /\ Goto(u, "init")
  /\ Ask("init", u)
  /\ UNCHANGED <<coordVars, alive, rid, workerVars, toCoord>>

(* The browser starts a game, from the menu (rid[u] = NoRoom) or at once   *)
(* by its room link: HandleStartGame up to its grace period.               *)
StartGame(u) ==
  /\ pc[u] = "ready" /\ alive[u]
  /\ Goto(u, IF rid[u] = NoRoom /\ slot # 0 THEN "grace" ELSE "gate")
  /\ UNCHANGED <<coordVars, alive, rid, workerVars, toWorker, toCoord>>

(* Mutant: the grace period has no end of its own.                         *)
GraceOverOnlyWhenFree(u) ==
  /\ pc[u] = "grace" /\ slot = 0
  /\ Goto(u, "gate")
  /\ UNCHANGED <<coordVars, alive, rid, workerVars, toWorker, toCoord>>

(* The polls of HasSlot saw a free slot, or all 30 of them are used up.    *)
GraceOver(u) ==
  /\ pc[u] = "grace"
  /\ Goto(u, "gate")
  /\ UNCHANGED <<coordVars, alive, rid, workerVars, toWorker, toCoord>>

(* busy := !u.w.HasSlot()                                                  *)
CheckSlot(u) ==
  /\ pc[u] = "gate"
  /\ Goto(u, IF slot = 0 THEN "reserve" ELSE "busy")
  /\ UNCHANGED <<coordVars, alive, rid, workerVars, toWorker, toCoord>>

(* A busy worker without a room: no free slots.  RoomId is read here and   *)
(* once more in MatchRoom; the worker's reader may write it in between.    *)
CheckRoom(u) ==
  /\ pc[u] = "busy"
  /\ Goto(u, IF RoomId = NoRoom THEN Return(u, "stuck") ELSE "match")
  /\ UNCHANGED <<coordVars, alive, rid, workerVars, toWorker, toCoord>>

(* A busy worker lets in only requests for the very room it runs.          *)
MatchRoom(u) ==
  /\ pc[u] = "match"
  /\ Goto(u, IF rid[u] # RoomId THEN Return(u, "stuck") ELSE "send")
  /\ UNCHANGED <<coordVars, alive, rid, workerVars, toWorker, toCoord>>

(* Mutant: the slot is counted up without looking at it.                   *)
ReserveAlways(u) ==
  /\ pc[u] = "reserve"
  /\ slot' = slot + 1 /\ Goto(u, "send")
  /\ UNCHANGED <<RoomId, alive, rid, workerVars, toWorker, toCoord>>

(* The compare-and-swap of a free slot.                                    *)
TryReserve(u) ==
  /\ pc[u] = "reserve"
  /\ IF slot = 0 THEN slot' = 1 /\ Goto(u, "send")
                 ELSE slot' = slot /\ Goto(u, Return(u, "stuck"))
  /\ UNCHANGED <<RoomId, alive, rid, workerVars, toWorker, toCoord>>

(* u.w.StartGame: a blocking call to the worker.                           *)
SendStart(u) ==
  /\ pc[u] = "send"
  /\ Goto(u, "start")
  /\ Ask("start", u)
  /\ UNCHANGED <<coordVars, alive, rid, workerVars, toCoord>>

(* Mutant: a start that timed out gives its slot back.                     *)
TimeoutFreesSlot(u) ==
  /\ \/ pc[u] = "init" /\ Goto(u, Return(u, "left")) /\ slot' = slot
     \/ pc[u] = "start" /\ Goto(u, Return(u, "stuck")) /\ slot' = 0
  /\ UNCHANGED <<RoomId, alive, rid, workerVars, toWorker, toCoord>>

(* The 10 s of a blocking call are over.  The browser gets no answer and   *)
(* has nothing left to do but to leave.                                    *)
CallTimeout(u) ==
  /\ \/ pc[u] = "init" /\ Goto(u, Return(u, "left"))
     \/ pc[u] = "start" /\ Goto(u, Return(u, "stuck"))
  /\ UNCHANGED <<coordVars, alive, rid, workerVars, toWorker, toCoord>>

(* User.StartGame tells the browser the RoomId of the moment, not the id   *)
(* in the worker's answer.                                                 *)
TellRoom(u) ==
  /\ pc[u] = "answered"
  /\ Goto(u, Return(u, "play"))
  /\ rid' = [rid EXCEPT ![u] = RoomId]
  /\ UNCHANGED <<coordVars, alive, workerVars, toWorker, toCoord>>

(* HandleQuitGame; the browser then reloads the page.                      *)
QuitGame(u) ==
  /\ pc[u] \in {"play", "stuck"} /\ alive[u]
  /\ Goto(u, "left")
  /\ IF rid[u] = RoomId THEN Ask("quit", u) ELSE UNCHANGED toWorker
  /\ UNCHANGED <<coordVars, alive, rid, workerVars, toCoord>>

(* The user's socket is closed: its reader ends when it waits for the      *)
(* browser, or its writer fails at any time.  The accepting goroutine runs *)
(* User.Disconnect, whose TerminateSession no handler waits for.           *)
Disconnect(u) ==
  /\ alive[u]
  /\ alive' = [alive EXCEPT ![u] = FALSE]
  /\ Goto(u, IF pc[u] \in Waiting THEN "off" ELSE pc[u])
  /\ Ask("terminate", u)
  /\ UNCHANGED <<coordVars, rid, workerVars, toCoord>>

-----------------------------------------------------------------------------
(* The coordinator's reader of the worker's socket.                        *)

Receive(m) == toCoord # <<>> /\ m = Head(toCoord) /\ toCoord' = Tail(toCoord)

HandleRegisterRoom ==
  \E r \in Room :
    /\ Receive(Note("register", r))
    /\ RoomId' = r
    /\ UNCHANGED <<slot, userVars, workerVars, toWorker>>

HandleCloseRoom ==
  \E r \in Room :
    /\ Receive(Note("close", r))
    /\ IF r = RoomId THEN RoomId' = NoRoom /\ slot' = 0
                     ELSE UNCHANGED <<RoomId, slot>>
    /\ UNCHANGED <<userVars, workerVars, toWorker>>

(* A reply wakes the call that waits for it; a late one wakes nobody.      *)
ReceiveReply ==
  \E m \in Reply :
    /\ Receive(m)
    /\ CASE m.t = "inited" /\ pc[m.u] = "init" -> Goto(m.u, Return(m.u, "ready"))
         [] m.t = "uninited" /\ pc[m.u] = "init" -> Goto(m.u, Return(m.u, "left"))
         [] m.t = "started" /\ pc[m.u] = "start" -> Goto(m.u, "answered")
         [] m.t = "refused" /\ pc[m.u] = "start" -> Goto(m.u, Return(m.u, "stuck"))
         [] OTHER -> UNCHANGED pc
    /\ UNCHANGED <<coordVars, alive, rid, workerVars, toWorker>>

-----------------------------------------------------------------------------
(* The worker.                                                             *)

Serve(t, u, r) ==
  /\ toWorker # <<>>
  /\ Head(toWorker) = [t |-> t, u |-> u, r |-> r]
  /\ toWorker' = Tail(toWorker)

Answer(t, u, r) == [t |-> t, u |-> u, r |-> r]

(* HandleInitWebrtcStream: the peer joins the users, or cannot be set up.  *)
HandleInitWebrtcStream(u, r) ==
  /\ Serve("init", u, r)
  /\ \/ /\ users' = users \cup {u}
        /\ toCoord' = Append(toCoord, Answer("inited", u, r))
     \/ /\ users' = users
        /\ toCoord' = Append(toCoord, Answer("uninited", u, r))
  /\ UNCHANGED <<coordVars, userVars, room>>

(* HandleGameStart without an effect: the user has no peer, the game is    *)
(* unknown, or another room is there.                                      *)
RefuseGame(u, r) ==
  /\ Serve("start", u, r)
  /\ toCoord' = Append(toCoord, Answer("refused", u, r))
  /\ UNCHANGED <<coordVars, userVars, workerVars>>

(* The user joins the room it asked for.                                   *)
JoinGame(u, r) ==
  /\ Serve("start", u, r)
  /\ u \in users /\ r # NoRoom /\ room = r
  /\ toCoord' = Append(Append(toCoord, Note("register", r)), Answer("started", u, r))
  /\ UNCHANGED <<coordVars, userVars, workerVars>>

(* A room id that names no room anywhere: games.GenerateRoomID is random.  *)
Fresh(r) ==
  /\ r # room /\ r # RoomId
  /\ \A u \in User : rid[u] # r
  /\ \A i \in DOMAIN toWorker : toWorker[i].r # r
  /\ \A i \in DOMAIN toCoord : toCoord[i].r # r

(* Mutant: the worker does not look for the user's peer.                   *)
NewGameForAnyone(u, r, uid) ==
  /\ Serve("start", u, r)
  /\ room = NoRoom
  /\ IF r = NoRoom THEN Fresh(uid) ELSE uid = r
  /\ room' = uid
  /\ toCoord' = Append(Append(toCoord, Note("register", uid)), Answer("started", u, uid))
  /\ UNCHANGED <<coordVars, userVars, users>>

(* A new room, under the id of the request or a generated one.  When the   *)
(* core cannot load the game, or the media pipe cannot be made, the room   *)
(* is closed again, which sends CloseRoom, and was never registered.       *)
NewGame(u, r, uid) ==
  /\ Serve("start", u, r)
  /\ u \in users /\ room = NoRoom
  /\ IF r = NoRoom THEN Fresh(uid) ELSE uid = r
  /\ \/ /\ room' = uid
        /\ toCoord' = Append(Append(toCoord, Note("register", uid)), Answer("started", u, uid))
     \/ /\ room' = room
        /\ toCoord' = Append(Append(toCoord, Note("close", uid)), Answer("refused", u, r))
  /\ UNCHANGED <<coordVars, userVars, users>>

HandleGameStart(u, r) ==
  \/ RefuseGame(u, r)
  \/ JoinGame(u, r)
  \/ \E uid \in Room : NewGame(u, r, uid)

(* Mutant: the room is closed when any of its peers leaves.                *)
RemoveAndClose(u) ==
  /\ users' = users \ {u}
  /\ room' = NoRoom
  /\ toCoord' = IF room = NoRoom THEN toCoord
                ELSE Append(toCoord, Note("close", room))

(* Mutant: the room is closed without a notice to the coordinator.         *)
RemoveSilently(u) ==
  /\ users' = users \ {u}
  /\ room' = IF users = {u} THEN NoRoom ELSE room
  /\ UNCHANGED toCoord

(* Router.Remove: when the last peer is gone the room is closed.           *)
Remove(u) ==
  /\ users' = users \ {u}
  /\ IF u \in users /\ users = {u}
       THEN /\ room' = NoRoom
            /\ toCoord' = IF room = NoRoom THEN toCoord
                          ELSE Append(toCoord, Note("close", room))
       ELSE UNCHANGED <<room, toCoord>>

(* HandleQuitGame and HandleTerminateSession differ only in closing the    *)
(* WebRTC peer.                                                            *)
HandleLeave(u, r) ==
  /\ Serve("quit", u, r) \/ Serve("terminate", u, r)
  /\ Remove(u)
  /\ UNCHANGED <<coordVars, userVars>>

-----------------------------------------------------------------------------

Init ==
  /\ slot = 0 /\ RoomId = NoRoom
  /\ pc = [u \in User |-> "off"]
  /\ alive = [u \in User |-> FALSE]
  /\ rid = [u \in User |-> NoRoom]
  /\ users = {} /\ room = NoRoom
  /\ toWorker = <<>> /\ toCoord = <<>>

(* What a person decides; nothing obliges it to.                           *)
Browser(u) ==
  \/ \E r \in Room \cup {NoRoom} : Connect(u, r)
  \/ BeginInit(u) \/ StartGame(u) \/ QuitGame(u) \/ Disconnect(u)

(* The handler goroutine of a user.                                        *)
Handler(u) ==
  \/ SendInit(u) \/ GraceOver(u) \/ CheckSlot(u) \/ CheckRoom(u) \/ MatchRoom(u)
  \/ TryReserve(u) \/ SendStart(u) \/ TellRoom(u)

Coordinator == HandleRegisterRoom \/ HandleCloseRoom \/ ReceiveReply

WorkerStep ==
  \E u \in User, r \in Room \cup {NoRoom} :
    \/ HandleInitWebrtcStream(u, r) \/ HandleGameStart(u, r) \/ HandleLeave(u, r)

Next ==
  \/ \E u \in User : Browser(u) \/ Handler(u) \/ CallTimeout(u)
  \/ Coordinator
  \/ WorkerStep

Spec == Init /\ [][Next]_vars

(* Go schedules every runnable goroutine: each handler and the two readers *)
(* of the connection are weakly fair.  Persons are not, and a time-out is  *)
(* never owed, since a working worker answers first.                       *)
FairSpec ==
  /\ Spec
  /\ \A u \in User : WF_vars(Handler(u))
  /\ WF_vars(Coordinator)
  /\ WF_vars(WorkerStep)
-----------------------------------------------------------------------------
(* Properties.                                                             *)

(* Types of all variables.                                                 *)
TypeOK ==
  /\ slot \in {0, 1} /\ RoomId \in Room \cup {NoRoom}
  /\ pc \in [User -> PC] /\ alive \in [User -> BOOLEAN]
  /\ rid \in [User -> Room \cup {NoRoom}]
  /\ users \subseteq User /\ room \in Room \cup {NoRoom}
  /\ toWorker \in Seq(Request) /\ toCoord \in Seq(Reply \cup Notice)

(* A worker that HasSlot() calls free runs no game, is in no user's link,  *)
(* and no start of a game that a set-up peer waits for is under way: the   *)
(* hub never offers a worker that is, or is about to be, in use.           *)
FreeWorkerIsIdle ==
  slot = 0 =>
    /\ room = NoRoom /\ RoomId = NoRoom
    /\ \A u \in users : pc[u] \notin {"send", "answered"}
    /\ \A i \in DOMAIN toWorker : toWorker[i].t = "start" => toWorker[i].u \notin users

(* A user who was told a room, and is still connected, is in that room,    *)
(* and it is open: neither another user's leaving nor another user's start *)
(* ever closes or replaces the room under a player (TellRoom reads RoomId  *)
(* after the answer was received).                                         *)
PlayerIsInRoom ==
  \A u \in User : alive[u] /\ pc[u] = "play" =>
    room # NoRoom /\ rid[u] = room /\ u \in users

(* A room lives only while some peer is connected to its worker: closing   *)
(* in Router.Remove is never missed and no room is made for nobody.        *)
RoomHasUsers == room # NoRoom => users # {}

(* The coordinator's RoomId follows the worker's room: when all notices    *)
(* under way are handled it names the room that is open, or none.  So no   *)
(* notice is lost, superfluous or overtaken, also around failed starts.    *)
RoomIdFollowsRoom ==
  IF NoticeAt = {} THEN RoomId = room
  ELSE \E i \in NoticeAt :
         /\ \A j \in NoticeAt : j <= i
         /\ room = IF toCoord[i].t = "register" THEN toCoord[i].r ELSE NoRoom

Registering == \E i \in NoticeAt : toCoord[i].t = "register"

(* The room is closed and the coordinator has yet to hear of it.           *)
Closing == room = NoRoom /\ (RoomId # NoRoom \/ Registering)

(* The lease as the coordinator and the worker hold it.                    *)
Phase ==
  IF slot = 0 THEN "free"
  ELSE IF room # NoRoom THEN "open"
  ELSE IF Closing THEN "closing" ELSE "granted"

LeaseOf == INSTANCE Lease WITH phase <- Phase, game <- room

(* The protocol implements the lease: one game per grant, no game without  *)
(* a grant, nothing freed that is in use, every closed game released.      *)
ImplementsLease == LeaseOf!LeaseSpec

Entry(v) == [w \in {"worker"} |-> v]

(* The hub with this worker as its only entry, before any search.          *)
HubOf == INSTANCE Hub WITH
  Worker <- {"worker"}, NoWorker <- "none", Zone <- {"zone"}, AnyZone <- "any",
  ZoneOf <- Entry("zone"), PingServer <- Entry("address"), Machine <- Entry("machine"),
  MaxPing <- 0,
  status <- Entry("on"), slot <- Entry(slot), RoomId <- Entry(RoomId),
  Sessions <- Entry({}),
  conf <- [selector |-> "any", debug |-> FALSE],
  q <- [wid |-> "none", room |-> NoRoom, zone |-> "any"],
  stage <- "begin", todo <- {}, list <- {}, lat <- <<>>, found <- "none", how <- "begin",
  steadyFree <- {}, steadyRoom <- {}, steadySaved <- {}, fresh <- {}

(* What the hub's searches take for granted of the games of other users:   *)
(* a slot is taken only when it is free, a room is told of only while the  *)
(* slot is taken, and a slot is given back only together with the room.    *)
IsAnEntryOfTheHub == HubOf!Spec

(* A user in HandleStartGame always gets out of it, whatever the others do *)
(* (no handler waits for another user's handler).                          *)
StartReturns == \A u \in User : (pc[u] \in Starting) ~> (pc[u] \notin Starting)

PacketAt(t, u) == {i \in DOMAIN toWorker : toWorker[i].t = t /\ toWorker[i].u = u}

(* A left user whose peer is, or will be, on the worker for good: its      *)
(* TerminateSession overtook its InitWebrtcStream.                         *)
Orphan(u) ==
  /\ ~alive[u]
  /\ \/ pc[u] = "initing"
     \/ u \in users /\ PacketAt("terminate", u) = {}
     \/ \E i \in PacketAt("init", u) : \A j \in PacketAt("terminate", u) : j < i

AllLeft == \A u \in User : ~alive[u] /\ ~Orphan(u)

(* When all users have left, whatever they were doing and in whatever      *)
(* order their last packets go out, the worker's room is closed and the    *)
(* coordinator forgets it, unless somebody comes back.                     *)
RoomEndsAfterAllLeft ==
  AllLeft ~> \/ room = NoRoom /\ RoomId = NoRoom
             \/ \E u \in User : alive[u]

-----------------------------------------------------------------------------
(* What the source says of itself and does not do.                         *)

Quiet == toWorker = <<>> /\ toCoord = <<>> /\ \A u \in User : pc[u] \notin Starting

(* worker.go:141, HasSlot: "Workers support only one game at a time, so it *)
(* returns true in case if there are no players in the room (worker)".     *)
NoPlayersNoSlot == Quiet /\ room = NoRoom => slot = 0

(* userhandlers.go:35: a user who starts a new game waits while the worker *)
(* is given the time "to close the previous room and free the slot": with  *)
(* all its players gone the previous room should close under the waiter.   *)
PreviousRoomCloses ==
  \A u \in User :
    ( /\ pc[u] = "grace" /\ alive[u] /\ RoomId # NoRoom
      /\ \A v \in User \ {u} : ~alive[v] )
    ~> (slot = 0 \/ ~alive[u] \/ \E v \in User \ {u} : alive[v])

(* coordinatorhandlers.go:230: HandleTerminateSession "handles cases when  *)
(* a user has been disconnected from the websocket of coordinator".        *)
LeaverIsRemoved == \A u \in User : (u \in users /\ ~alive[u]) ~> (u \notin users)
=============================================================================
