----------------------- MODULE RoomProtocol_proofs -----------------------
(***************************************************************************)
(* The safety invariants of RoomProtocol, proved for any sets of users and *)
(* of rooms.                                                               *)
(*                                                                         *)
(* The argument: a peer that is set up and has not left pins the room.  A  *)
(* room is closed only when the worker has no peers, so while the notice   *)
(* of a closed room is under way ("Closing") every peer of the worker is   *)
(* newer than the notice, has its answer queued behind it, and so cannot   *)
(* have started a game before the coordinator frees the slot.              *)
(***************************************************************************)
EXTENDS RoomProtocol, TLAPS

LEMMA Pushed ==
  ASSUME NEW S, NEW s \in Seq(S), NEW e \in S
  PROVE  /\ Len(s) \in Nat /\ DOMAIN s = 1..Len(s)
         /\ Append(s, e) \in Seq(S)
         /\ DOMAIN Append(s, e) = 1..(Len(s) + 1)
         /\ \A i \in 1..Len(s) : Append(s, e)[i] = s[i]
         /\ Append(s, e)[Len(s) + 1] = e
BY SMT

LEMMA PushedTwo ==
  ASSUME NEW S, NEW s \in Seq(S), NEW d \in S, NEW e \in S
  PROVE  LET q == Append(Append(s, d), e) IN
         /\ Len(s) \in Nat /\ DOMAIN s = 1..Len(s)
         /\ q \in Seq(S)
         /\ DOMAIN q = 1..(Len(s) + 2)
         /\ \A i \in 1..Len(s) : q[i] = s[i]
         /\ q[Len(s) + 1] = d /\ q[Len(s) + 2] = e
BY SMT

LEMMA Popped ==
  ASSUME NEW S, NEW s \in Seq(S), s # <<>>
  PROVE  /\ Len(s) \in Nat /\ Len(s) > 0 /\ DOMAIN s = 1..Len(s)
         /\ Head(s) = s[1] /\ Head(s) \in S
         /\ Tail(s) \in Seq(S)
         /\ DOMAIN Tail(s) = 1..(Len(s) - 1)
         /\ \A i \in 1..(Len(s) - 1) : Tail(s)[i] = s[i + 1]
BY SMT

-----------------------------------------------------------------------------
(* Types.                                                                  *)

LEMMA Asks ==
  ASSUME TypeOK, NEW u \in User, NEW t \in {"init", "start", "quit", "terminate"}, Ask(t, u)
  PROVE  toWorker' \in Seq(Request)
<1>1. [t |-> t, u |-> u, r |-> rid[u]] \in Request
  BY DEF TypeOK, Request
<1> QED
  BY <1>1 DEF TypeOK, Ask

LEMMA Goes ==
  ASSUME TypeOK, NEW u \in User, NEW p \in PC, Goto(u, p)
  PROVE  pc' \in [User -> PC]
BY DEF TypeOK, Goto

LEMMA Returns ==
  ASSUME NEW u \in User, NEW p \in PC
  PROVE  Return(u, p) \in PC
BY DEF Return, PC

LEMMA Serves ==
  ASSUME TypeOK, NEW t, NEW u, NEW r, Serve(t, u, r)
  PROVE  toWorker' \in Seq(Request)
BY Popped DEF TypeOK, Serve

LEMMA Tells ==
  ASSUME TypeOK, NEW m \in Reply \cup Notice
  PROVE  Append(toCoord, m) \in Seq(Reply \cup Notice)
BY Pushed DEF TypeOK

LEMMA TellsTwo ==
  ASSUME TypeOK, NEW m \in Reply \cup Notice, NEW n \in Reply \cup Notice
  PROVE  Append(Append(toCoord, m), n) \in Seq(Reply \cup Notice)
BY PushedTwo DEF TypeOK

LEMMA TypeInductive == TypeOK /\ [Next]_vars => TypeOK'
<1> SUFFICES ASSUME TypeOK, [Next]_vars PROVE TypeOK'
  OBVIOUS
<1> USE DEF userVars, coordVars, workerVars
<1>1. ASSUME NEW u \in User, NEW r \in Room \cup {NoRoom}, Connect(u, r) PROVE TypeOK'
  BY <1>1, Goes DEF Connect, TypeOK, PC, Waiting
<1>2. ASSUME NEW u \in User, BeginInit(u) PROVE TypeOK'
  BY <1>2, Goes DEF BeginInit, TypeOK, PC
<1>3. ASSUME NEW u \in User, SendInit(u) PROVE TypeOK'
  BY <1>3, Goes, Asks DEF SendInit, TypeOK, PC
<1>4. ASSUME NEW u \in User, StartGame(u) PROVE TypeOK'
  BY <1>4, Goes DEF StartGame, TypeOK, PC, Starting
<1>5. ASSUME NEW u \in User, GraceOver(u) PROVE TypeOK'
  BY <1>5, Goes DEF GraceOver, TypeOK, PC, Starting
<1>6. ASSUME NEW u \in User, CheckSlot(u) PROVE TypeOK'
  BY <1>6, Goes DEF CheckSlot, TypeOK, PC, Starting
<1>7. ASSUME NEW u \in User, CheckRoom(u) PROVE TypeOK'
  BY <1>7, Goes, Returns DEF CheckRoom, TypeOK, PC, Starting, Waiting
<1>8. ASSUME NEW u \in User, MatchRoom(u) PROVE TypeOK'
  BY <1>8, Goes, Returns DEF MatchRoom, TypeOK, PC, Starting, Waiting
<1>9. ASSUME NEW u \in User, TryReserve(u) PROVE TypeOK'
  BY <1>9, Goes, Returns DEF TryReserve, TypeOK, PC, Starting, Waiting
<1>10. ASSUME NEW u \in User, SendStart(u) PROVE TypeOK'
  BY <1>10, Goes, Asks DEF SendStart, TypeOK, PC, Starting
<1>11. ASSUME NEW u \in User, CallTimeout(u) PROVE TypeOK'
  BY <1>11, Goes, Returns DEF CallTimeout, TypeOK, PC, Waiting
<1>12. ASSUME NEW u \in User, TellRoom(u) PROVE TypeOK'
  BY <1>12, Goes, Returns DEF TellRoom, TypeOK, PC, Waiting
<1>13. ASSUME NEW u \in User, QuitGame(u) PROVE TypeOK'
  BY <1>13, Goes, Asks DEF QuitGame, TypeOK, PC, Waiting
<1>14. ASSUME NEW u \in User, Disconnect(u) PROVE TypeOK'
  BY <1>14, Goes, Asks DEF Disconnect, TypeOK, PC
<1>15. ASSUME HandleRegisterRoom PROVE TypeOK'
  BY <1>15, Popped DEF HandleRegisterRoom, Receive, TypeOK
<1>16. ASSUME HandleCloseRoom PROVE TypeOK'
  BY <1>16, Popped DEF HandleCloseRoom, Receive, TypeOK
<1>17. ASSUME ReceiveReply PROVE TypeOK'
  <2>1. PICK m \in Reply : ReceiveReply!(m)
    BY <1>17 DEF ReceiveReply
  <2>2. m.u \in User
    BY DEF Reply
  <2>3. pc' \in [User -> PC]
    BY <2>1, <2>2, Goes, Returns DEF TypeOK, PC, Starting, Waiting
  <2> QED
    BY <2>1, <2>3, Popped DEF Receive, TypeOK
<1>18. ASSUME NEW u \in User, NEW r \in Room \cup {NoRoom}, HandleInitWebrtcStream(u, r)
       PROVE TypeOK'
  <2>1. Answer("inited", u, r) \in Reply /\ Answer("uninited", u, r) \in Reply
    BY DEF Answer, Reply
  <2>2. toWorker' \in Seq(Request)
    BY <1>18, Serves DEF HandleInitWebrtcStream
  <2>3. toCoord' \in Seq(Reply \cup Notice)
    BY <1>18, <2>1, Tells DEF HandleInitWebrtcStream
  <2> QED
    BY <1>18, <2>2, <2>3 DEF HandleInitWebrtcStream, TypeOK
<1>19. ASSUME NEW u \in User, NEW r \in Room \cup {NoRoom}, RefuseGame(u, r) PROVE TypeOK'
  <2>1. Answer("refused", u, r) \in Reply
    BY DEF Answer, Reply
  <2> QED
    BY <1>19, <2>1, Serves DEF RefuseGame, TypeOK
<1>20. ASSUME NEW u \in User, NEW r \in Room \cup {NoRoom}, JoinGame(u, r) PROVE TypeOK'
  <2>1. Answer("started", u, r) \in Reply /\ Note("register", r) \in Notice
    BY <1>20 DEF Answer, Reply, Note, Notice, JoinGame
  <2> QED
    BY <1>20, <2>1, Serves DEF JoinGame, TypeOK
<1>21. ASSUME NEW u \in User, NEW r \in Room \cup {NoRoom}, NEW uid \in Room,
              NewGame(u, r, uid)
       PROVE TypeOK'
  <2>1. /\ Answer("started", u, uid) \in Reply /\ Note("register", uid) \in Notice
        /\ Answer("refused", u, r) \in Reply /\ Note("close", uid) \in Notice
    BY DEF Answer, Reply, Note, Notice
  <2>2. toWorker' \in Seq(Request)
    BY <1>21, Serves DEF NewGame
  <2>3. toCoord' \in Seq(Reply \cup Notice)
    BY <1>21, <2>1, TellsTwo DEF NewGame
  <2> QED
    BY <1>21, <2>2, <2>3 DEF NewGame, TypeOK
<1>22. ASSUME NEW u \in User, NEW r \in Room \cup {NoRoom}, HandleLeave(u, r) PROVE TypeOK'
  <2>1. room # NoRoom => Note("close", room) \in Notice
    BY DEF Note, Notice, TypeOK
  <2>2. toWorker' \in Seq(Request)
    BY <1>22, Serves DEF HandleLeave
  <2>3. toCoord' \in Seq(Reply \cup Notice)
    BY <1>22, <2>1, Tells DEF HandleLeave, Remove, TypeOK
  <2> QED
    BY <1>22, <2>2, <2>3 DEF HandleLeave, Remove, TypeOK
<1>23. CASE UNCHANGED vars
  BY <1>23 DEF vars, TypeOK
<1> QED
  BY <1>1, <1>2, <1>3, <1>4, <1>5, <1>6, <1>7, <1>8, <1>9, <1>10, <1>11, <1>12, <1>13,
     <1>14, <1>15, <1>16, <1>17, <1>18, <1>19, <1>20, <1>21, <1>22, <1>23
  DEF Next, Browser, Handler, Coordinator, WorkerStep, HandleGameStart

LEMMA TypeInit == Init => TypeOK
BY DEF Init, TypeOK, PC

(* The types of all variables, in every reachable state.                   *)
THEOREM TypeCorrect == Spec => []TypeOK
BY TypeInit, TypeInductive, PTL DEF Spec

-----------------------------------------------------------------------------
(* The invariant.                                                          *)

(* The stages of a reader that come after its WebRTC set-up was answered.  *)
Settled == {"ready", "play", "stuck"} \cup Starting
Unsettled == {"init", "left", "off"}

Queued(t, u) == \E i \in DOMAIN toWorker : toWorker[i].t = t /\ toWorker[i].u = u

ReplyAt(u) == {k \in DOMAIN toCoord \ NoticeAt : toCoord[k].u = u}

InitedAt(u) == {k \in ReplyAt(u) : toCoord[k].t = "inited"}

(* A free slot: no room, and no notice of one.                             *)
FreeMeansNothing ==
  slot = 0 => room = NoRoom /\ RoomId = NoRoom /\ ~Registering

(* All notices under way that follow a registered room are of that room,   *)
(* and its close is the last of them.                                      *)
OneRoomAtATime ==
  \A i \in NoticeAt :
    /\ toCoord[i].r \in Room
    /\ RoomId # NoRoom => toCoord[i].r = RoomId
    /\ \A j \in NoticeAt : i < j =>
         IF toCoord[i].t = "register"
           THEN toCoord[j].r = toCoord[i].r
           ELSE RoomId = NoRoom /\ \A k \in NoticeAt : k < i => toCoord[k].t # "register"

(* No user has its peer set up twice.                                      *)
OneInit ==
  \A i, j \in DOMAIN toWorker :
    toWorker[i].t = "init" /\ toWorker[j].t = "init" /\ toWorker[i].u = toWorker[j].u => i = j

(* What is queued for the worker fits the stage of the user's reader.      *)
QueueFitsStage ==
  \A u \in User :
    /\ Queued("terminate", u) => ~alive[u]
    /\ Queued("quit", u) => pc[u] \in {"left", "off"}
    /\ Queued("init", u) => pc[u] \in Unsettled /\ ~Queued("start", u) /\ ReplyAt(u) = {}
    /\ pc[u] \in {"new", "initing"} =>
         /\ u \notin users /\ ReplyAt(u) = {}
         /\ ~Queued("init", u) /\ ~Queued("start", u)

(* A user past its set-up is among the worker's peers until it leaves.     *)
SettledIsPeer ==
  \A u \in User : alive[u] =>
    /\ pc[u] \in Settled => u \in users
    /\ pc[u] = "init" /\ InitedAt(u) # {} => u \in users

(* ... and it pins the room.                                               *)
PeerPinsRoom ==
  \A u \in users :
    /\ pc[u] \in Settled \/ Queued("start", u) => ~Closing
    /\ Closing => \A k \in InitedAt(u), j \in NoticeAt : j < k

(* A peer that is past the check of the slot keeps the slot taken.         *)
PeerHoldsSlot ==
  \A u \in users :
    pc[u] \in {"busy", "match", "send", "start", "answered"} \/ Queued("start", u) => slot = 1

(* The answer to a start names the open room and follows its notice.       *)
AnswerNamesRoom ==
  \A u \in users :
    /\ \A k \in ReplyAt(u) : toCoord[k].t = "started" =>
         /\ room # NoRoom
         /\ RoomId = room \/ \E j \in NoticeAt : j < k /\ toCoord[j] = Note("register", room)
    /\ pc[u] = "answered" => room # NoRoom /\ RoomId = room

IInv ==
  /\ TypeOK
  /\ FreeMeansNothing
  /\ OneRoomAtATime
  /\ RoomIdFollowsRoom
  /\ OneInit
  /\ QueueFitsStage
  /\ SettledIsPeer
  /\ PeerPinsRoom
  /\ PeerHoldsSlot
  /\ AnswerNamesRoom
  /\ PlayerIsInRoom
  /\ RoomHasUsers

(* Steps of a handler that touch neither a queue nor the worker.           *)

LEMMA StillQueued ==
  ASSUME toWorker' = toWorker
  PROVE  /\ \A t, u : Queued(t, u)' <=> Queued(t, u)
         /\ OneInit' <=> OneInit
BY DEF Queued, OneInit

LEMMA StillTold ==
  ASSUME toCoord' = toCoord
  PROVE  /\ NoticeAt' = NoticeAt
         /\ \A u : ReplyAt(u)' = ReplyAt(u) /\ InitedAt(u)' = InitedAt(u)
         /\ Registering' <=> Registering
BY DEF NoticeAt, ReplyAt, InitedAt, Registering

LEMMA StillNotices ==
  ASSUME toCoord' = toCoord, UNCHANGED <<RoomId, room>>, OneRoomAtATime, RoomIdFollowsRoom
  PROVE  OneRoomAtATime' /\ RoomIdFollowsRoom' /\ (Closing' <=> Closing)
BY DEF OneRoomAtATime, RoomIdFollowsRoom, Closing, Registering, NoticeAt

Holding == {"busy", "match", "send", "start", "answered"}

(* A step of u's reader to the stage p that sends nothing.                 *)
LEMMA QuietStep ==
  ASSUME IInv, TypeOK', NEW u \in User, NEW p \in PC, Goto(u, p),
         UNCHANGED <<RoomId, alive, workerVars, toWorker, toCoord>>,
         pc[u] \notin {"left", "off"},
         pc[u] = "init" => p \in Unsettled,
         p \in Settled => pc[u] \in Settled,
         p \in {"new", "initing"} => pc[u] = "new",
         p \notin {"init", "answered"},
         slot' = slot \/ slot' = 1,
         p \in Holding /\ u \in users => slot' = 1,
         \/ rid' = rid /\ p # "play"
         \/ rid' = [rid EXCEPT ![u] = RoomId] /\ p \in {"play", "off"} /\ pc[u] = "answered"
  PROVE  IInv'
<1> USE DEF workerVars, Goto, IInv, TypeOK
<1>1. OneRoomAtATime' /\ RoomIdFollowsRoom' /\ (Closing' <=> Closing)
  BY StillNotices
<1>2. QueueFitsStage' /\ OneInit'
  BY StillQueued, StillTold DEF QueueFitsStage, Unsettled
<1>3. SettledIsPeer' /\ PeerPinsRoom'
  BY <1>1, StillQueued, StillTold DEF SettledIsPeer, PeerPinsRoom
<1>4. FreeMeansNothing' /\ PeerHoldsSlot'
  BY StillQueued, StillTold DEF FreeMeansNothing, PeerHoldsSlot, Holding
<1>5. AnswerNamesRoom'
  BY StillTold DEF AnswerNamesRoom
<1>6. PlayerIsInRoom'
  BY DEF PlayerIsInRoom, SettledIsPeer, AnswerNamesRoom, Settled, Starting
<1>7. RoomHasUsers'
  BY DEF RoomHasUsers
<1> QED
  BY <1>1, <1>2, <1>3, <1>4, <1>5, <1>6, <1>7

LEMMA QuietSteps ==
  ASSUME IInv, TypeOK', NEW u \in User,
         \/ BeginInit(u) \/ StartGame(u) \/ GraceOver(u) \/ CheckSlot(u) \/ CheckRoom(u)
         \/ MatchRoom(u) \/ TryReserve(u) \/ CallTimeout(u) \/ TellRoom(u)
  PROVE  IInv'
<1> USE DEF coordVars, workerVars, PC, Waiting, Starting, Settled, Unsettled, Holding
<1>a. slot \in {0, 1} /\ pc \in [User -> PC] /\ \A v \in users : pc[v] \in Holding => slot = 1
  BY DEF IInv, TypeOK, PeerHoldsSlot
<1>b. Return(u, "stuck") \in {"stuck", "off"} /\ Return(u, "left") \in {"left", "off"}
      /\ Return(u, "play") \in {"play", "off"}
  BY DEF Return
<1>1. CASE BeginInit(u)
  BY <1>1, QuietStep DEF BeginInit
<1>2. CASE StartGame(u)
  BY <1>2, QuietStep DEF StartGame
<1>3. CASE GraceOver(u)
  BY <1>3, QuietStep DEF GraceOver
<1>4. CASE CheckSlot(u)
  <2>1. CASE slot = 0
    BY <1>4, <2>1, QuietStep DEF CheckSlot
  <2>2. CASE slot # 0
    BY <1>4, <2>2, <1>a, QuietStep DEF CheckSlot
  <2> QED
    BY <2>1, <2>2
<1>5. CASE CheckRoom(u)
  <2>1. CASE RoomId = NoRoom
    BY <1>5, <2>1, <1>b, QuietStep DEF CheckRoom
  <2>2. CASE RoomId # NoRoom
    BY <1>5, <2>2, <1>a, QuietStep DEF CheckRoom
  <2> QED
    BY <2>1, <2>2
<1>6. CASE MatchRoom(u)
  <2>1. CASE rid[u] # RoomId
    BY <1>6, <2>1, <1>b, QuietStep DEF MatchRoom
  <2>2. CASE rid[u] = RoomId
    BY <1>6, <2>2, <1>a, QuietStep DEF MatchRoom
  <2> QED
    BY <2>1, <2>2
<1>7. CASE TryReserve(u)
  <2>1. CASE slot = 0
    BY <1>7, <2>1, QuietStep DEF TryReserve
  <2>2. CASE slot # 0
    BY <1>7, <2>2, <1>b, QuietStep DEF TryReserve
  <2> QED
    BY <2>1, <2>2
<1>8. CASE CallTimeout(u)
  <2>1. CASE pc[u] = "init"
    BY <1>8, <2>1, <1>b, QuietStep DEF CallTimeout
  <2>2. CASE pc[u] = "start"
    BY <1>8, <2>2, <1>b, QuietStep DEF CallTimeout
  <2> QED
    BY <1>8, <2>1, <2>2 DEF CallTimeout
<1>9. CASE TellRoom(u)
  BY <1>9, <1>b, QuietStep DEF TellRoom
<1> QED
  BY <1>1, <1>2, <1>3, <1>4, <1>5, <1>6, <1>7, <1>8, <1>9

(* Steps that send a packet to the worker.                                 *)

LEMMA NewlyQueued ==
  ASSUME TypeOK, NEW u \in User, NEW t \in {"init", "start", "quit", "terminate"}, Ask(t, u)
  PROVE  /\ \A t2, v : Queued(t2, v)' <=> Queued(t2, v) \/ (t2 = t /\ v = u)
         /\ OneInit /\ (t = "init" => ~Queued("init", u)) => OneInit'
<1> DEFINE m == [t |-> t, u |-> u, r |-> rid[u]]
           n == Len(toWorker)
<1>1. m \in Request /\ m.t = t /\ m.u = u /\ toWorker' = Append(toWorker, m)
  BY DEF TypeOK, Request, Ask
<1>2. /\ n \in Nat /\ DOMAIN toWorker = 1..n /\ DOMAIN toWorker' = 1..(n + 1)
      /\ \A i \in 1..n : toWorker'[i] = toWorker[i]
      /\ toWorker'[n + 1] = m
  BY <1>1, Pushed DEF TypeOK
<1> HIDE DEF m, n
<1>3. ASSUME NEW t2, NEW v
      PROVE  Queued(t2, v)' <=> Queued(t2, v) \/ (t2 = t /\ v = u)
  BY <1>1, <1>2 DEF Queued
<1>4. ASSUME OneInit, t = "init" => ~Queued("init", u) PROVE OneInit'
  BY <1>1, <1>2, <1>4 DEF OneInit, Queued
<1> QED
  BY <1>3, <1>4

LEMMA SendInitStep ==
  ASSUME IInv, TypeOK', NEW u \in User, SendInit(u)
  PROVE  IInv'
<1> USE DEF SendInit, coordVars, workerVars, Goto, IInv, TypeOK
<1>1. OneRoomAtATime' /\ RoomIdFollowsRoom' /\ (Closing' <=> Closing)
  BY StillNotices
<1>2. QueueFitsStage' /\ OneInit'
  BY NewlyQueued, StillTold DEF QueueFitsStage, Unsettled
<1>0. InitedAt(u) = {}
  BY DEF QueueFitsStage, InitedAt
<1>3. SettledIsPeer' /\ PeerPinsRoom'
  BY <1>0, <1>1, NewlyQueued, StillTold DEF SettledIsPeer, PeerPinsRoom, Settled, Starting
<1>4. FreeMeansNothing' /\ PeerHoldsSlot'
  BY NewlyQueued, StillTold DEF FreeMeansNothing, PeerHoldsSlot
<1>5. AnswerNamesRoom'
  BY StillTold DEF AnswerNamesRoom
<1>6. PlayerIsInRoom' /\ RoomHasUsers'
  BY DEF PlayerIsInRoom, RoomHasUsers
<1> QED
  BY <1>1, <1>2, <1>3, <1>4, <1>5, <1>6

LEMMA SendStartStep ==
  ASSUME IInv, TypeOK', NEW u \in User, SendStart(u)
  PROVE  IInv'
<1> USE DEF SendStart, coordVars, workerVars, Goto, IInv, TypeOK
<1>1. OneRoomAtATime' /\ RoomIdFollowsRoom' /\ (Closing' <=> Closing)
  BY StillNotices
<1>2. QueueFitsStage' /\ OneInit'
  BY NewlyQueued, StillTold DEF QueueFitsStage, Unsettled
<1>3. SettledIsPeer' /\ PeerPinsRoom'
  BY <1>1, NewlyQueued, StillTold DEF SettledIsPeer, PeerPinsRoom, Settled, Starting
<1>4. FreeMeansNothing' /\ PeerHoldsSlot'
  BY NewlyQueued, StillTold DEF FreeMeansNothing, PeerHoldsSlot
<1>5. AnswerNamesRoom'
  BY StillTold DEF AnswerNamesRoom
<1>6. PlayerIsInRoom' /\ RoomHasUsers'
  BY DEF PlayerIsInRoom, RoomHasUsers
<1> QED
  BY <1>1, <1>2, <1>3, <1>4, <1>5, <1>6

LEMMA QuitGameStep ==
  ASSUME IInv, TypeOK', NEW u \in User, QuitGame(u)
  PROVE  IInv'
<1> USE DEF QuitGame, coordVars, workerVars, Goto, IInv, TypeOK
<1>1. OneRoomAtATime' /\ RoomIdFollowsRoom' /\ (Closing' <=> Closing)
  BY StillNotices
<1>0. /\ \A t, v : Queued(t, v)' => Queued(t, v) \/ (t = "quit" /\ v = u)
      /\ OneInit'
  <2>1. CASE Ask("quit", u)
    BY <2>1, NewlyQueued
  <2>2. CASE toWorker' = toWorker
    BY <2>2, StillQueued
  <2> QED
    BY <2>1, <2>2
<1>2. QueueFitsStage'
  BY <1>0, StillTold DEF QueueFitsStage, Unsettled
<1>3. SettledIsPeer' /\ PeerPinsRoom'
  BY <1>0, <1>1, StillTold DEF SettledIsPeer, PeerPinsRoom, Settled, Starting
<1>4. FreeMeansNothing' /\ PeerHoldsSlot'
  BY <1>0, StillTold DEF FreeMeansNothing, PeerHoldsSlot
<1>5. AnswerNamesRoom'
  BY StillTold DEF AnswerNamesRoom
<1>6. PlayerIsInRoom' /\ RoomHasUsers'
  BY DEF PlayerIsInRoom, RoomHasUsers
<1> QED
  BY <1>0, <1>1, <1>2, <1>3, <1>4, <1>5, <1>6

LEMMA DisconnectStep ==
  ASSUME IInv, TypeOK', NEW u \in User, Disconnect(u)
  PROVE  IInv'
<1> USE DEF Disconnect, coordVars, workerVars, Goto, IInv, TypeOK
<1>1. OneRoomAtATime' /\ RoomIdFollowsRoom' /\ (Closing' <=> Closing)
  BY StillNotices
<1>0. pc' = pc \/ pc' = [pc EXCEPT ![u] = "off"]
  OBVIOUS
<1>2. QueueFitsStage' /\ OneInit'
  BY <1>0, NewlyQueued, StillTold DEF QueueFitsStage, Unsettled
<1>3. SettledIsPeer' /\ PeerPinsRoom'
  BY <1>0, <1>1, NewlyQueued, StillTold DEF SettledIsPeer, PeerPinsRoom, Settled, Starting
<1>4. FreeMeansNothing' /\ PeerHoldsSlot'
  BY <1>0, NewlyQueued, StillTold DEF FreeMeansNothing, PeerHoldsSlot
<1>5. AnswerNamesRoom'
  BY <1>0, StillTold DEF AnswerNamesRoom
<1>6. PlayerIsInRoom' /\ RoomHasUsers'
  BY <1>0 DEF PlayerIsInRoom, RoomHasUsers
<1> QED
  BY <1>1, <1>2, <1>3, <1>4, <1>5, <1>6

LEMMA ConnectStep ==
  ASSUME IInv, TypeOK', NEW u \in User, NEW r \in Room \cup {NoRoom}, Connect(u, r)
  PROVE  IInv'
<1> USE DEF Connect, coordVars, workerVars, Goto, IInv, TypeOK
<1>0. u \notin users /\ ReplyAt(u) = {} /\ \A t : ~Queued(t, u)
  BY DEF Unused, ReplyAt, Queued
<1>1. OneRoomAtATime' /\ RoomIdFollowsRoom' /\ (Closing' <=> Closing)
  BY StillNotices
<1>2. QueueFitsStage' /\ OneInit'
  BY <1>0, StillQueued, StillTold DEF QueueFitsStage, Unsettled
<1>3. SettledIsPeer' /\ PeerPinsRoom'
  BY <1>0, <1>1, StillQueued, StillTold DEF SettledIsPeer, PeerPinsRoom, Settled, Starting
<1>4. FreeMeansNothing' /\ PeerHoldsSlot'
  BY <1>0, StillQueued, StillTold DEF FreeMeansNothing, PeerHoldsSlot
<1>5. AnswerNamesRoom'
  BY <1>0, StillTold DEF AnswerNamesRoom
<1>6. PlayerIsInRoom' /\ RoomHasUsers'
  BY <1>0 DEF PlayerIsInRoom, RoomHasUsers
<1> QED
  BY <1>1, <1>2, <1>3, <1>4, <1>5, <1>6

(* Steps of the coordinator's reader of the worker's socket.               *)

LEMMA Delivered ==
  ASSUME TypeOK, NEW m, Receive(m)
  PROVE  /\ m = toCoord[1] /\ m \in Reply \cup Notice
         /\ DOMAIN toCoord \subseteq Nat \ {0} /\ 1 \in DOMAIN toCoord
         /\ DOMAIN toCoord' \subseteq Nat \ {0}
         /\ \A k \in Nat : k + 1 \in DOMAIN toCoord /\ k # 0 <=> k \in DOMAIN toCoord'
         /\ \A k \in DOMAIN toCoord' : toCoord'[k] = toCoord[k + 1]
         /\ NoticeAt' = {k \in DOMAIN toCoord' : k + 1 \in NoticeAt}
         /\ \A u : ReplyAt(u)' = {k \in DOMAIN toCoord' : k + 1 \in ReplyAt(u)}
         /\ \A u : InitedAt(u)' = {k \in DOMAIN toCoord' : k + 1 \in InitedAt(u)}
<1> DEFINE n == Len(toCoord)
<1>1. /\ n \in Nat /\ n > 0 /\ DOMAIN toCoord = 1..n /\ DOMAIN toCoord' = 1..(n - 1)
      /\ \A i \in 1..(n - 1) : toCoord'[i] = toCoord[i + 1]
      /\ m = toCoord[1] /\ m \in Reply \cup Notice
  BY Popped DEF TypeOK, Receive
<1> HIDE DEF n
<1>2. /\ DOMAIN toCoord \subseteq Nat \ {0} /\ 1 \in DOMAIN toCoord
      /\ DOMAIN toCoord' \subseteq Nat \ {0}
      /\ \A k \in Nat : k + 1 \in DOMAIN toCoord /\ k # 0 <=> k \in DOMAIN toCoord'
      /\ \A k \in DOMAIN toCoord' : k + 1 \in DOMAIN toCoord /\ toCoord'[k] = toCoord[k + 1]
  BY <1>1
<1>3. NoticeAt' = {k \in DOMAIN toCoord' : k + 1 \in NoticeAt}
  BY <1>2 DEF NoticeAt
<1>4. ASSUME NEW u
      PROVE  ReplyAt(u)' = {k \in DOMAIN toCoord' : k + 1 \in ReplyAt(u)}
  BY <1>2, <1>3 DEF ReplyAt
<1>5. ASSUME NEW u
      PROVE  InitedAt(u)' = {k \in DOMAIN toCoord' : k + 1 \in InitedAt(u)}
  BY <1>2, <1>4 DEF InitedAt
<1> QED
  BY <1>1, <1>2, <1>3, <1>4, <1>5

(* The notices that are left still fit together, and the last is the same. *)
LEMMA FewerNotices ==
  ASSUME IInv, NEW m, Receive(m), room' = room,
         IF m.t = "register" THEN RoomId' = m.r
         ELSE IF m.t = "close" /\ m.r = RoomId THEN RoomId' = NoRoom
         ELSE RoomId' = RoomId
  PROVE  OneRoomAtATime' /\ RoomIdFollowsRoom'
<1> USE Delivered DEF IInv
<1>1. \A i \in NoticeAt' : i + 1 \in NoticeAt /\ i \in Nat /\ toCoord'[i] = toCoord[i + 1]
  OBVIOUS
<1>5. ASSUME 1 \in NoticeAt, RoomId' = IF m.t = "register" THEN m.r ELSE NoRoom
      PROVE  RoomIdFollowsRoom'
  <2>1. PICK i \in NoticeAt :
          /\ \A j \in NoticeAt : j <= i
          /\ room = IF toCoord[i].t = "register" THEN toCoord[i].r ELSE NoRoom
    BY <1>5 DEF RoomIdFollowsRoom
  <2>2. CASE i = 1
    <3>1. NoticeAt' = {}
      BY <2>1, <2>2
    <3> QED
      BY <1>5, <2>1, <2>2, <3>1 DEF RoomIdFollowsRoom
  <2>3. CASE i # 1
    <3>1. i - 1 \in NoticeAt' /\ toCoord'[i - 1] = toCoord[i] /\ \A j \in NoticeAt' : j <= i - 1
      BY <1>1, <2>1, <2>3 DEF NoticeAt
    <3> QED
      BY <2>1, <3>1 DEF RoomIdFollowsRoom
  <2> QED
    BY <2>2, <2>3
<1>2. CASE m.t = "register"
  <2>1. 1 \in NoticeAt /\ m.r \in Room
    BY <1>2 DEF NoticeAt, OneRoomAtATime
  <2>2. OneRoomAtATime'
    BY <1>1, <1>2, <2>1 DEF OneRoomAtATime
  <2>3. RoomIdFollowsRoom'
    BY <1>2, <1>5, <2>1
  <2> QED
    BY <2>2, <2>3
<1>3. CASE m.t = "close"
  <2>1. 1 \in NoticeAt /\ m.r \in Room
    BY <1>3 DEF NoticeAt, OneRoomAtATime
  <2>2. RoomId # NoRoom => m.r = RoomId /\ \A j \in NoticeAt : j = 1
    BY <1>3, <2>1, RoomAssumption DEF OneRoomAtATime, NoticeAt
  <2>3. RoomId' = NoRoom
    BY <1>3, <2>1, <2>2, RoomAssumption
  <2>4. OneRoomAtATime'
    BY <1>1, <1>3, <2>1, <2>2, <2>3 DEF OneRoomAtATime
  <2>5. RoomIdFollowsRoom'
    BY <1>3, <1>5, <2>1, <2>3
  <2> QED
    BY <2>4, <2>5
<1>4. CASE m.t \notin {"register", "close"}
  <2>1. 1 \notin NoticeAt /\ RoomId' = RoomId
    BY <1>4 DEF NoticeAt
  <2>2. OneRoomAtATime'
    BY <1>1, <2>1 DEF OneRoomAtATime
  <2>3. RoomIdFollowsRoom'
    <3>1. CASE NoticeAt = {}
      BY <1>1, <2>1, <3>1 DEF RoomIdFollowsRoom
    <3>2. CASE NoticeAt # {}
      <4>1. PICK i \in NoticeAt :
              /\ \A j \in NoticeAt : j <= i
              /\ room = IF toCoord[i].t = "register" THEN toCoord[i].r ELSE NoRoom
        BY <3>2 DEF RoomIdFollowsRoom
      <4>2. i - 1 \in NoticeAt' /\ toCoord'[i - 1] = toCoord[i]
            /\ \A j \in NoticeAt' : j <= i - 1
        BY <1>1, <2>1, <4>1 DEF NoticeAt
      <4> QED
        BY <4>1, <4>2 DEF RoomIdFollowsRoom
    <3> QED
      BY <3>1, <3>2
  <2> QED
    BY <2>2, <2>3
<1> QED
  BY <1>2, <1>3, <1>4

LEMMA Shifted ==
  ASSUME TypeOK, NEW m, Receive(m)
  PROVE  /\ \A k \in NoticeAt' :
              k + 1 \in NoticeAt /\ k \in Nat /\ k # 0 /\ toCoord'[k] = toCoord[k + 1]
         /\ \A u : \A k \in ReplyAt(u)' :
              k + 1 \in ReplyAt(u) /\ k \in Nat /\ toCoord'[k] = toCoord[k + 1]
         /\ \A u : \A k \in InitedAt(u)' : k + 1 \in InitedAt(u) /\ k \in Nat
<1>1. ASSUME NEW k \in NoticeAt'
      PROVE  k + 1 \in NoticeAt /\ k \in Nat /\ k # 0 /\ toCoord'[k] = toCoord[k + 1]
  BY Delivered
<1>2. ASSUME NEW u, NEW k \in ReplyAt(u)'
      PROVE  k + 1 \in ReplyAt(u) /\ k \in Nat /\ toCoord'[k] = toCoord[k + 1]
  BY Delivered
<1>3. ASSUME NEW u, NEW k \in InitedAt(u)'
      PROVE  k + 1 \in InitedAt(u) /\ k \in Nat
  BY Delivered
<1> QED
  BY <1>1, <1>2, <1>3

LEMMA HandleRegisterRoomStep ==
  ASSUME IInv, TypeOK', HandleRegisterRoom
  PROVE  IInv'
<1> USE DEF userVars, workerVars, IInv, TypeOK
<1>1. PICK r \in Room :
        /\ Receive(Note("register", r))
        /\ RoomId' = r
        /\ UNCHANGED <<slot, userVars, workerVars, toWorker>>
  BY DEF HandleRegisterRoom
<1> DEFINE m == Note("register", r)
<1>2. m.t = "register" /\ m.r = r /\ 1 \in NoticeAt /\ toCoord[1] = m
  BY <1>1, Delivered DEF Note, NoticeAt
<1>3. OneRoomAtATime' /\ RoomIdFollowsRoom'
  BY <1>1, <1>2, FewerNotices
<1>4. Registering /\ (RoomId # NoRoom => RoomId = r) /\ (Closing' => Closing)
  BY <1>1, <1>2 DEF Registering, OneRoomAtATime, Closing
<1>5. /\ \A k \in NoticeAt' : k + 1 \in NoticeAt /\ k \in Nat
      /\ \A u : \A k \in ReplyAt(u)' : k + 1 \in ReplyAt(u) /\ k \in Nat
                                       /\ toCoord'[k] = toCoord[k + 1]
      /\ \A u : \A k \in InitedAt(u)' : k + 1 \in InitedAt(u) /\ k \in Nat
  BY <1>1, Shifted
<1>6. QueueFitsStage' /\ OneInit'
  BY <1>1, <1>5, StillQueued DEF QueueFitsStage
<1>7. SettledIsPeer' /\ PeerPinsRoom'
  BY <1>1, <1>4, <1>5, StillQueued DEF SettledIsPeer, PeerPinsRoom
<1>8. FreeMeansNothing' /\ PeerHoldsSlot'
  BY <1>1, <1>4, StillQueued DEF FreeMeansNothing, PeerHoldsSlot
<1>9. AnswerNamesRoom'
  <2> SUFFICES ASSUME NEW u \in users
               PROVE  /\ \A k \in ReplyAt(u)' : toCoord'[k].t = "started" =>
                           /\ room # NoRoom
                           /\ \/ r = room
                              \/ \E j \in NoticeAt' : j < k /\ toCoord'[j] = Note("register", room)
                      /\ pc[u] = "answered" => room # NoRoom /\ r = room
    BY <1>1 DEF AnswerNamesRoom, Note
  <2>1. pc[u] = "answered" => room # NoRoom /\ r = room
    BY <1>4 DEF AnswerNamesRoom
  <2>2. ASSUME NEW k \in ReplyAt(u)', toCoord'[k].t = "started"
        PROVE  /\ room # NoRoom
               /\ \/ r = room
                  \/ \E j \in NoticeAt' : j < k /\ toCoord'[j] = Note("register", room)
    <3>1. room # NoRoom /\ k + 1 \in ReplyAt(u) /\ toCoord[k + 1].t = "started"
      BY <1>5, <2>2 DEF AnswerNamesRoom
    <3>2. CASE r = room
      BY <3>1, <3>2
    <3>3. CASE r # room
      <4>1. PICK j \in NoticeAt : j < k + 1 /\ toCoord[j] = Note("register", room)
        BY <1>4, <3>1, <3>3 DEF AnswerNamesRoom
      <4>2. j # 1
        BY <1>2, <3>3, <4>1 DEF Note
      <4>3. j - 1 \in NoticeAt' /\ j - 1 < k /\ toCoord'[j - 1] = toCoord[j]
        BY <1>1, <1>5, <2>2, <4>1, <4>2, Delivered DEF NoticeAt
      <4> QED
        BY <3>1, <4>1, <4>3
    <3> QED
      BY <3>2, <3>3
  <2> QED
    BY <2>1, <2>2
<1>10. PlayerIsInRoom' /\ RoomHasUsers'
  BY <1>1 DEF PlayerIsInRoom, RoomHasUsers
<1> QED
  BY <1>3, <1>6, <1>7, <1>8, <1>9, <1>10

(* A room that is still open was not closed by the notice that arrives.    *)
LEMMA ClosedBefore ==
  ASSUME IInv, NEW r \in Room, Receive(Note("close", r))
  PROVE  /\ RoomId # NoRoom => RoomId = r /\ room = NoRoom /\ NoticeAt' = {}
<1>1. 1 \in NoticeAt /\ toCoord[1].t = "close" /\ toCoord[1].r = r
  BY Delivered DEF Note, NoticeAt, IInv
<1>2. RoomId # NoRoom => RoomId = r /\ \A j \in NoticeAt : j = 1
  BY <1>1, Delivered DEF OneRoomAtATime, NoticeAt, IInv
<1>3. RoomId # NoRoom => NoticeAt' = {}
  BY <1>2, Delivered DEF IInv
<1>4. RoomId # NoRoom => room = NoRoom
  BY <1>1, <1>2 DEF RoomIdFollowsRoom, IInv
<1> QED
  BY <1>2, <1>3, <1>4

LEMMA HandleCloseRoomStep ==
  ASSUME IInv, TypeOK', HandleCloseRoom
  PROVE  IInv'
<1> USE DEF userVars, workerVars, IInv, TypeOK
<1>1. PICK r \in Room :
        /\ Receive(Note("close", r))
        /\ IF r = RoomId THEN RoomId' = NoRoom /\ slot' = 0
                         ELSE UNCHANGED <<RoomId, slot>>
        /\ UNCHANGED <<userVars, workerVars, toWorker>>
  BY DEF HandleCloseRoom
<1> DEFINE m == Note("close", r)
<1>2. m.t = "close" /\ m.r = r /\ 1 \in NoticeAt /\ toCoord[1] = m
  BY <1>1, Delivered DEF Note, NoticeAt
<1>3. OneRoomAtATime' /\ RoomIdFollowsRoom'
  BY <1>1, <1>2, FewerNotices
<1>4. /\ RoomId # NoRoom => RoomId = r /\ room = NoRoom /\ NoticeAt' = {}
      /\ RoomId' = NoRoom
  BY <1>1, ClosedBefore, RoomAssumption
<1>5. /\ \A k \in NoticeAt' : k + 1 \in NoticeAt /\ k \in Nat /\ toCoord'[k] = toCoord[k + 1]
      /\ \A u : \A k \in ReplyAt(u)' : k + 1 \in ReplyAt(u) /\ k \in Nat
                                       /\ toCoord'[k] = toCoord[k + 1]
      /\ \A u : \A k \in InitedAt(u)' : k + 1 \in InitedAt(u) /\ k \in Nat
  BY <1>1, Shifted
<1>6. (Registering' => Registering) /\ (Closing' => Closing)
  BY <1>1, <1>4, <1>5 DEF Registering, Closing
<1>7. QueueFitsStage' /\ OneInit'
  BY <1>1, <1>5, StillQueued DEF QueueFitsStage
<1>8. SettledIsPeer' /\ PeerPinsRoom'
  BY <1>1, <1>5, <1>6, StillQueued DEF SettledIsPeer, PeerPinsRoom
<1>9. FreeMeansNothing'
  BY <1>1, <1>4, <1>6, RoomAssumption DEF FreeMeansNothing, Registering
<1>10. PeerHoldsSlot'
  <2>1. CASE r = RoomId
    BY <1>1, <1>4, <2>1, StillQueued, RoomAssumption
    DEF PeerHoldsSlot, PeerPinsRoom, Closing, Settled, Starting
  <2>2. CASE r # RoomId
    BY <1>1, <2>2, StillQueued DEF PeerHoldsSlot
  <2> QED
    BY <2>1, <2>2
<1>11. AnswerNamesRoom'
  <2> SUFFICES ASSUME NEW u \in users
               PROVE  /\ \A k \in ReplyAt(u)' : toCoord'[k].t = "started" =>
                           /\ room # NoRoom
                           /\ \E j \in NoticeAt' : j < k /\ toCoord'[j] = Note("register", room)
                      /\ pc[u] = "answered" => room # NoRoom /\ RoomId' = room
    BY <1>1 DEF AnswerNamesRoom, Note
  <2>1. pc[u] # "answered"
    BY <1>4 DEF AnswerNamesRoom
  <2>2. ASSUME NEW k \in ReplyAt(u)', toCoord'[k].t = "started"
        PROVE  room # NoRoom /\ \E j \in NoticeAt' : j < k /\ toCoord'[j] = Note("register", room)
    <3>1. room # NoRoom /\ k + 1 \in ReplyAt(u) /\ toCoord[k + 1].t = "started"
      BY <1>5, <2>2 DEF AnswerNamesRoom
    <3>2. PICK j \in NoticeAt : j < k + 1 /\ toCoord[j] = Note("register", room)
      BY <1>4, <3>1 DEF AnswerNamesRoom
    <3>3. j # 1
      BY <1>2, <3>2 DEF Note
    <3>4. j - 1 \in NoticeAt' /\ j - 1 < k /\ toCoord'[j - 1] = toCoord[j]
      BY <1>1, <1>5, <2>2, <3>2, <3>3, Delivered DEF NoticeAt
    <3> QED
      BY <3>1, <3>2, <3>4
  <2> QED
    BY <2>1, <2>2
<1>12. PlayerIsInRoom' /\ RoomHasUsers'
  BY <1>1 DEF PlayerIsInRoom, RoomHasUsers
<1> QED
  BY <1>3, <1>7, <1>8, <1>9, <1>10, <1>11, <1>12

LEMMA ReceiveReplyStep ==
  ASSUME IInv, TypeOK', ReceiveReply
  PROVE  IInv'
<1> USE DEF userVars, workerVars, coordVars, IInv, TypeOK
<1>1. PICK m \in Reply : ReceiveReply!(m)
  BY DEF ReceiveReply
<1> DEFINE u == m.u
<1>2. /\ u \in User /\ m.t \in {"inited", "uninited", "started", "refused"}
      /\ toCoord[1] = m /\ 1 \in ReplyAt(u) /\ (m.t = "inited" => 1 \in InitedAt(u))
  BY <1>1, Delivered DEF Reply, ReplyAt, InitedAt, NoticeAt
<1>3. OneRoomAtATime' /\ RoomIdFollowsRoom'
  BY <1>1, <1>2, FewerNotices
<1>4. /\ \A k \in NoticeAt' : k + 1 \in NoticeAt /\ k \in Nat /\ k # 0
                              /\ toCoord'[k] = toCoord[k + 1]
      /\ \A v : \A k \in ReplyAt(v)' : k + 1 \in ReplyAt(v) /\ k \in Nat
                                       /\ toCoord'[k] = toCoord[k + 1]
      /\ \A v : \A k \in InitedAt(v)' : k + 1 \in InitedAt(v) /\ k \in Nat
  BY <1>1, Shifted
<1>5. (Registering' => Registering) /\ (Closing' => Closing)
  BY <1>1, <1>4 DEF Registering, Closing
(* Where the reply leaves the user.                                        *)
<1>6. \E p : /\ pc' = [pc EXCEPT ![u] = p]
             /\ \/ p = pc[u]
                \/ pc[u] = "init" /\ p \in {"ready", "off"} /\ m.t = "inited"
                \/ pc[u] = "init" /\ p \in {"left", "off"}
                \/ pc[u] = "start" /\ p \in {"stuck", "off"}
                \/ pc[u] = "start" /\ p = "answered" /\ m.t = "started"
  BY <1>1, <1>2 DEF Goto, Return
<1>7. PICK p : /\ pc' = [pc EXCEPT ![u] = p]
               /\ \/ p = pc[u]
                  \/ pc[u] = "init" /\ p \in {"ready", "off"} /\ m.t = "inited"
                  \/ pc[u] = "init" /\ p \in {"left", "off"}
                  \/ pc[u] = "start" /\ p \in {"stuck", "off"}
                  \/ pc[u] = "start" /\ p = "answered" /\ m.t = "started"
  BY <1>6
<1>8. ~Queued("init", u) /\ (Closing => \A j \in NoticeAt : u \in users /\ m.t = "inited" => j < 1)
  BY <1>2 DEF QueueFitsStage, PeerPinsRoom
<1>9. QueueFitsStage' /\ OneInit'
  BY <1>1, <1>2, <1>4, <1>7, <1>8, StillQueued DEF QueueFitsStage, Unsettled
<1>10. SettledIsPeer'
  BY <1>1, <1>2, <1>4, <1>7 DEF SettledIsPeer, Settled, Starting
<1>11. u \in users /\ m.t = "inited" => ~Closing
  BY <1>1, <1>8, Delivered DEF Closing, Registering, NoticeAt, RoomIdFollowsRoom
<1>12. PeerPinsRoom'
  BY <1>1, <1>2, <1>4, <1>5, <1>7, <1>11, StillQueued DEF PeerPinsRoom, Settled, Starting
<1>13. FreeMeansNothing' /\ PeerHoldsSlot'
  BY <1>1, <1>2, <1>5, <1>7, StillQueued DEF FreeMeansNothing, PeerHoldsSlot
<1>14. AnswerNamesRoom'
  <2> SUFFICES ASSUME NEW v \in users
               PROVE  /\ \A k \in ReplyAt(v)' : toCoord'[k].t = "started" =>
                           /\ room # NoRoom
                           /\ \/ RoomId = room
                              \/ \E j \in NoticeAt' : j < k /\ toCoord'[j] = Note("register", room)
                      /\ pc'[v] = "answered" => room # NoRoom /\ RoomId = room
    BY <1>1 DEF AnswerNamesRoom, Note
  <2>1. ASSUME pc'[v] = "answered" PROVE room # NoRoom /\ RoomId = room
    <3>1. CASE pc[v] = "answered"
      BY <3>1 DEF AnswerNamesRoom
    <3>2. CASE v = u /\ m.t = "started"
      <4>1. \A j \in NoticeAt : ~ (j < 1)
        BY <1>1, Delivered DEF NoticeAt
      <4> QED
        BY <1>2, <3>2, <4>1 DEF AnswerNamesRoom
    <3> QED
      BY <1>2, <1>7, <2>1, <3>1, <3>2
  <2>2. ASSUME NEW k \in ReplyAt(v)', toCoord'[k].t = "started"
        PROVE  /\ room # NoRoom
               /\ \/ RoomId = room
                  \/ \E j \in NoticeAt' : j < k /\ toCoord'[j] = Note("register", room)
    <3>1. /\ room # NoRoom /\ k + 1 \in ReplyAt(v) /\ toCoord[k + 1].t = "started"
          /\ RoomId = room \/ \E j \in NoticeAt : j < k + 1 /\ toCoord[j] = Note("register", room)
      BY <1>4, <2>2 DEF AnswerNamesRoom
    <3>2. CASE RoomId = room
      BY <3>1, <3>2
    <3>3. CASE RoomId # room
      <4>1. PICK j \in NoticeAt : j < k + 1 /\ toCoord[j] = Note("register", room)
        BY <3>1, <3>3
      <4>2. j # 1
        BY <1>2, <4>1 DEF ReplyAt
      <4>3. j - 1 \in NoticeAt' /\ j - 1 < k /\ toCoord'[j - 1] = toCoord[j]
        BY <1>1, <1>4, <2>2, <4>1, <4>2, Delivered DEF NoticeAt
      <4> QED
        BY <3>1, <4>1, <4>3
    <3> QED
      BY <3>2, <3>3
  <2> QED
    BY <2>1, <2>2
<1>15. PlayerIsInRoom'
  BY <1>1, <1>2, <1>7 DEF PlayerIsInRoom
<1>16. RoomHasUsers'
  BY <1>1 DEF RoomHasUsers
<1> QED
  BY <1>3, <1>9, <1>10, <1>12, <1>13, <1>14, <1>15, <1>16

(* Steps of the worker.                                                    *)

LEMMA Served ==
  ASSUME TypeOK, NEW t, NEW u, NEW r, Serve(t, u, r)
  PROVE  /\ Queued(t, u)
         /\ \A t2, v : Queued(t2, v)' => Queued(t2, v)
         /\ OneInit => OneInit'
         /\ OneInit /\ t = "init" => ~Queued("init", u)'
<1> DEFINE n == Len(toWorker)
<1>1. /\ n \in Nat /\ n > 0 /\ DOMAIN toWorker = 1..n /\ DOMAIN toWorker' = 1..(n - 1)
      /\ \A i \in 1..(n - 1) : toWorker'[i] = toWorker[i + 1]
      /\ toWorker[1].t = t /\ toWorker[1].u = u
  BY Popped DEF TypeOK, Serve
<1> HIDE DEF n
<1>2. Queued(t, u)
  BY <1>1 DEF Queued
<1>3. ASSUME NEW t2, NEW v, Queued(t2, v)' PROVE Queued(t2, v)
  BY <1>1, <1>3 DEF Queued
<1>4. ASSUME OneInit PROVE OneInit'
  <2> SUFFICES ASSUME NEW i \in DOMAIN toWorker', NEW j \in DOMAIN toWorker',
                      toWorker'[i].t = "init", toWorker'[j].t = "init",
                      toWorker'[i].u = toWorker'[j].u
               PROVE  i = j
    BY DEF OneInit
  <2>1. i + 1 \in DOMAIN toWorker /\ j + 1 \in DOMAIN toWorker
        /\ toWorker'[i] = toWorker[i + 1] /\ toWorker'[j] = toWorker[j + 1]
    BY <1>1
  <2>2. i + 1 = j + 1
    BY <1>4, <2>1 DEF OneInit
  <2> QED
    BY <1>1, <2>2
<1>5. ASSUME OneInit, t = "init" PROVE ~Queued("init", u)'
  <2> SUFFICES ASSUME NEW i \in DOMAIN toWorker',
                      toWorker'[i].t = "init", toWorker'[i].u = u
               PROVE  FALSE
    BY DEF Queued
  <2>1. i + 1 \in DOMAIN toWorker /\ toWorker'[i] = toWorker[i + 1] /\ 1 \in DOMAIN toWorker
    BY <1>1
  <2>2. i + 1 = 1
    BY <1>1, <1>5, <2>1 DEF OneInit
  <2> QED
    BY <1>1, <2>2
<1> QED
  BY <1>2, <1>3, <1>4, <1>5

LEMMA ReplyPushed ==
  ASSUME TypeOK, NEW m \in Reply, toCoord' = Append(toCoord, m)
  PROVE  \E q \in Nat :
           /\ \A k \in NoticeAt : k \in Nat /\ k < q /\ toCoord'[k] = toCoord[k]
           /\ NoticeAt' = NoticeAt
           /\ \A v : ReplyAt(v)' = ReplyAt(v) \cup (IF v = m.u THEN {q} ELSE {})
           /\ \A v : \A k \in ReplyAt(v) : k \in Nat /\ k < q /\ toCoord'[k] = toCoord[k]
           /\ toCoord'[q] = m
           /\ \A v : InitedAt(v)' =
                InitedAt(v) \cup (IF v = m.u /\ m.t = "inited" THEN {q} ELSE {})
<1> DEFINE n == Len(toCoord)
<1>1. /\ n \in Nat /\ DOMAIN toCoord = 1..n /\ DOMAIN toCoord' = 1..(n + 1)
      /\ \A i \in 1..n : toCoord'[i] = toCoord[i]
      /\ toCoord'[n + 1] = m /\ m.t \notin {"register", "close"}
  BY Pushed DEF TypeOK, Reply
<1> HIDE DEF n
<1>2. NoticeAt' = NoticeAt /\ \A k \in NoticeAt : k \in 1..n
  BY <1>1 DEF NoticeAt
<1>3. ASSUME NEW v
      PROVE  /\ ReplyAt(v)' = ReplyAt(v) \cup (IF v = m.u THEN {n + 1} ELSE {})
             /\ \A k \in ReplyAt(v) : k \in 1..n
  BY <1>1, <1>2 DEF ReplyAt
<1>4. ASSUME NEW v
      PROVE  InitedAt(v)' = InitedAt(v) \cup (IF v = m.u /\ m.t = "inited" THEN {n + 1} ELSE {})
  BY <1>1, <1>3 DEF InitedAt
<1> n + 1 \in Nat
  BY <1>1
<1> WITNESS n + 1 \in Nat
<1> QED
  BY <1>1, <1>2, <1>3, <1>4

LEMMA NoticePushed ==
  ASSUME TypeOK, NEW m \in Notice, toCoord' = Append(toCoord, m)
  PROVE  \E q \in Nat :
           /\ \A k \in NoticeAt : k \in Nat /\ k < q /\ toCoord'[k] = toCoord[k]
           /\ NoticeAt' = NoticeAt \cup {q}
           /\ toCoord'[q] = m
           /\ \A v : ReplyAt(v)' = ReplyAt(v) /\ InitedAt(v)' = InitedAt(v)
           /\ \A v : \A k \in ReplyAt(v) : k \in Nat /\ k < q /\ toCoord'[k] = toCoord[k]
<1> DEFINE n == Len(toCoord)
<1>1. /\ n \in Nat /\ DOMAIN toCoord = 1..n /\ DOMAIN toCoord' = 1..(n + 1)
      /\ \A i \in 1..n : toCoord'[i] = toCoord[i]
      /\ toCoord'[n + 1] = m /\ m.t \in {"register", "close"}
  BY Pushed DEF TypeOK, Notice
<1> HIDE DEF n
<1>2. NoticeAt' = NoticeAt \cup {n + 1} /\ \A k \in NoticeAt : k \in 1..n
  BY <1>1 DEF NoticeAt
<1>3. ASSUME NEW v
      PROVE  ReplyAt(v)' = ReplyAt(v) /\ \A k \in ReplyAt(v) : k \in 1..n
  BY <1>1, <1>2 DEF ReplyAt
<1>4. ASSUME NEW v
      PROVE  InitedAt(v)' = InitedAt(v)
  BY <1>1, <1>3 DEF InitedAt
<1> n + 1 \in Nat
  BY <1>1
<1> WITNESS n + 1 \in Nat
<1> QED
  BY <1>1, <1>2, <1>3, <1>4

NoticeThenReply(m, a, q) ==
  /\ \A k \in NoticeAt : k \in Nat /\ k < q /\ toCoord'[k] = toCoord[k]
  /\ NoticeAt' = NoticeAt \cup {q}
  /\ toCoord'[q] = m
  /\ \A v : ReplyAt(v)' = ReplyAt(v) \cup (IF v = a.u THEN {q + 1} ELSE {})
  /\ \A v : \A k \in ReplyAt(v) : k \in Nat /\ k < q /\ toCoord'[k] = toCoord[k]
  /\ toCoord'[q + 1] = a
  /\ a.t # "inited" => \A v : InitedAt(v)' = InitedAt(v)

LEMMA BothPushed ==
  ASSUME TypeOK, NEW m \in Notice, NEW a \in Reply,
         toCoord' = Append(Append(toCoord, m), a)
  PROVE  \E q \in Nat : NoticeThenReply(m, a, q)
<1> DEFINE n == Len(toCoord)
<1>1. /\ n \in Nat /\ DOMAIN toCoord = 1..n /\ DOMAIN toCoord' = 1..(n + 2)
      /\ \A i \in 1..n : toCoord'[i] = toCoord[i]
      /\ toCoord'[n + 1] = m /\ m.t \in {"register", "close"}
      /\ toCoord'[n + 2] = a /\ a.t \notin {"register", "close"}
  BY PushedTwo DEF TypeOK, Notice, Reply
<1> HIDE DEF n
<1>2. NoticeAt' = NoticeAt \cup {n + 1} /\ \A k \in NoticeAt : k \in 1..n
  BY <1>1 DEF NoticeAt
<1>3. ASSUME NEW v
      PROVE  /\ ReplyAt(v)' = ReplyAt(v) \cup (IF v = a.u THEN {n + 2} ELSE {})
             /\ \A k \in ReplyAt(v) : k \in 1..n
  BY <1>1, <1>2 DEF ReplyAt
<1>4. ASSUME a.t # "inited", NEW v
      PROVE  InitedAt(v)' = InitedAt(v)
  BY <1>1, <1>3, <1>4 DEF InitedAt
<1> n + 1 \in Nat
  BY <1>1
<1> WITNESS n + 1 \in Nat
<1> QED
  BY <1>1, <1>2, <1>3, <1>4 DEF NoticeThenReply

(* A new notice fits those under way: of the open room, or of a new one.   *)
LEMMA MoreNotices ==
  ASSUME IInv, RoomId' = RoomId, NEW m \in Notice, NEW q \in Nat,
         \A k \in NoticeAt : k \in Nat /\ k < q /\ toCoord'[k] = toCoord[k],
         NoticeAt' = NoticeAt \cup {q}, toCoord'[q] = m,
         room' = (IF m.t = "register" THEN m.r ELSE NoRoom),
         room = m.r \/ (room = NoRoom /\ ~Closing)
  PROVE  OneRoomAtATime' /\ RoomIdFollowsRoom'
<1> USE DEF IInv
<1>1. m.t \in {"register", "close"} /\ m.r \in Room
  BY DEF Notice
<1>2. RoomIdFollowsRoom'
  BY <1>1 DEF RoomIdFollowsRoom
<1>3. /\ RoomId # NoRoom => m.r = RoomId
      /\ \A i \in NoticeAt : IF toCoord[i].t = "register" THEN m.r = toCoord[i].r
                             ELSE RoomId = NoRoom /\ \A k \in NoticeAt : k < i => toCoord[k].t # "register"
  <2>1. CASE room = NoRoom /\ ~Closing
    BY <2>1 DEF Closing, Registering, NoticeAt
  <2>2. CASE room = m.r
    <3>1. CASE NoticeAt = {}
      BY <2>2, <3>1 DEF RoomIdFollowsRoom
    <3>2. CASE NoticeAt # {}
      <4>1. PICK l \in NoticeAt : /\ \A j \in NoticeAt : j <= l
                                  /\ toCoord[l].t = "register" /\ toCoord[l].r = m.r
        BY <1>1, <2>2, <3>2, RoomAssumption DEF RoomIdFollowsRoom
      <4>2. \A i \in NoticeAt : i = l \/ i < l
        BY <4>1
      <4> QED
        BY <4>1, <4>2 DEF OneRoomAtATime
    <3> QED
      BY <3>1, <3>2
  <2> QED
    BY <2>1, <2>2
<1>4. OneRoomAtATime'
  <2> SUFFICES ASSUME NEW i \in NoticeAt'
               PROVE  /\ toCoord'[i].r \in Room
                      /\ RoomId # NoRoom => toCoord'[i].r = RoomId
                      /\ \A j \in NoticeAt' : i < j =>
                           IF toCoord'[i].t = "register"
                             THEN toCoord'[j].r = toCoord'[i].r
                             ELSE /\ RoomId = NoRoom
                                  /\ \A k \in NoticeAt' : k < i => toCoord'[k].t # "register"
    BY DEF OneRoomAtATime
  <2>1. CASE i = q
    BY <1>1, <1>3, <2>1
  <2>2. CASE i \in NoticeAt
    BY <1>1, <1>3, <2>2 DEF OneRoomAtATime
  <2> QED
    BY <2>1, <2>2
<1> QED
  BY <1>2, <1>4

LEMMA SameNotices ==
  ASSUME OneRoomAtATime, RoomIdFollowsRoom, UNCHANGED <<RoomId, room>>, NoticeAt' = NoticeAt,
         \A k \in NoticeAt : toCoord'[k] = toCoord[k]
  PROVE  OneRoomAtATime' /\ RoomIdFollowsRoom'
<1>1. OneRoomAtATime'
  BY DEF OneRoomAtATime
<1>2. CASE NoticeAt = {}
  BY <1>1, <1>2 DEF RoomIdFollowsRoom
<1>3. CASE NoticeAt # {}
  <2>1. PICK i \in NoticeAt :
          /\ \A j \in NoticeAt : j <= i
          /\ room = IF toCoord[i].t = "register" THEN toCoord[i].r ELSE NoRoom
    BY <1>3 DEF RoomIdFollowsRoom
  <2>2. RoomIdFollowsRoom'
    BY <2>1 DEF RoomIdFollowsRoom
  <2> QED
    BY <1>1, <2>2
<1> QED
  BY <1>2, <1>3

(* An answer under way keeps naming the open room.                         *)
LEMMA OldAnswers ==
  ASSUME AnswerNamesRoom, RoomId' = RoomId, room # NoRoom => room' = room,
         NoticeAt \subseteq NoticeAt', \A k \in NoticeAt : toCoord'[k] = toCoord[k],
         NEW v \in users, NEW k \in ReplyAt(v),
         toCoord'[k] = toCoord[k], toCoord'[k].t = "started"
  PROVE  /\ room' # NoRoom
         /\ RoomId = room' \/ \E j \in NoticeAt' : j < k /\ toCoord'[j] = Note("register", room')
<1>1. /\ room # NoRoom
      /\ RoomId = room \/ \E j \in NoticeAt : j < k /\ toCoord[j] = Note("register", room)
  BY DEF AnswerNamesRoom
<1>2. CASE RoomId = room
  BY <1>1, <1>2
<1>3. CASE RoomId # room
  <2>1. PICK j \in NoticeAt : j < k /\ toCoord[j] = Note("register", room)
    BY <1>1, <1>3
  <2>2. j \in NoticeAt' /\ toCoord'[j] = Note("register", room')
    BY <1>1, <2>1
  <2> QED
    BY <1>1, <2>1, <2>2
<1> QED
  BY <1>2, <1>3

LEMMA HandleInitWebrtcStreamStep ==
  ASSUME IInv, TypeOK', NEW u \in User, NEW r \in Room \cup {NoRoom},
         HandleInitWebrtcStream(u, r)
  PROVE  IInv'
<1> USE DEF userVars, coordVars, IInv, TypeOK
<1>1. /\ Serve("init", u, r) /\ users \subseteq users' /\ users' \subseteq users \cup {u}
      /\ UNCHANGED <<coordVars, userVars, room>>
  BY DEF HandleInitWebrtcStream
<1>2. PICK m \in Reply : /\ toCoord' = Append(toCoord, m) /\ m.u = u
                         /\ m.t \in {"inited", "uninited"}
                         /\ m.t = "inited" => u \in users'
  BY DEF HandleInitWebrtcStream, Answer, Reply
<1>3. PICK q \in Nat :
           /\ \A k \in NoticeAt : k \in Nat /\ k < q /\ toCoord'[k] = toCoord[k]
           /\ NoticeAt' = NoticeAt
           /\ \A v : ReplyAt(v)' = ReplyAt(v) \cup (IF v = m.u THEN {q} ELSE {})
           /\ \A v : \A k \in ReplyAt(v) : k \in Nat /\ k < q /\ toCoord'[k] = toCoord[k]
           /\ toCoord'[q] = m
           /\ \A v : InitedAt(v)' =
                InitedAt(v) \cup (IF v = m.u /\ m.t = "inited" THEN {q} ELSE {})
  BY <1>2, ReplyPushed
<1>4. /\ Queued("init", u) /\ OneInit' /\ ~Queued("init", u)'
      /\ \A t, v : Queued(t, v)' => Queued(t, v)
  BY <1>1, Served
(* The user is still waiting for this answer, or has given up.             *)
<1>5. /\ pc[u] \in Unsettled /\ ~Queued("start", u) /\ ReplyAt(u) = {} /\ InitedAt(u) = {}
  BY <1>4 DEF QueueFitsStage, InitedAt
<1>6. (Registering' <=> Registering) /\ (Closing' <=> Closing)
  BY <1>1, <1>3 DEF Registering, Closing
<1>7. OneRoomAtATime' /\ RoomIdFollowsRoom'
  BY <1>1, <1>3, SameNotices
<1>8. QueueFitsStage'
  BY <1>1, <1>2, <1>3, <1>4, <1>5 DEF QueueFitsStage, Unsettled
<1>9. SettledIsPeer'
  BY <1>1, <1>2, <1>3, <1>5 DEF SettledIsPeer
<1>10. PeerPinsRoom'
  BY <1>1, <1>2, <1>3, <1>4, <1>5, <1>6 DEF PeerPinsRoom, Settled, Starting, Unsettled
<1>11. FreeMeansNothing' /\ PeerHoldsSlot'
  BY <1>1, <1>4, <1>5, <1>6 DEF FreeMeansNothing, PeerHoldsSlot, Unsettled
<1>12. AnswerNamesRoom'
  <2> SUFFICES ASSUME NEW v \in users'
               PROVE  /\ \A k \in ReplyAt(v)' : toCoord'[k].t = "started" =>
                           /\ room # NoRoom
                           /\ \/ RoomId = room
                              \/ \E j \in NoticeAt' : j < k /\ toCoord'[j] = Note("register", room)
                      /\ pc[v] = "answered" => room # NoRoom /\ RoomId = room
    BY <1>1 DEF AnswerNamesRoom, Note
  <2>1. CASE v = u
    BY <1>2, <1>3, <1>5, <2>1 DEF Unsettled
  <2>2. CASE v # u
    <3>1. v \in users /\ ReplyAt(v)' = ReplyAt(v)
      BY <1>1, <1>2, <1>3, <2>2
    <3>2. ASSUME NEW k \in ReplyAt(v), toCoord'[k].t = "started"
          PROVE  /\ room' # NoRoom
                 /\ \/ RoomId = room'
                    \/ \E j \in NoticeAt' : j < k /\ toCoord'[j] = Note("register", room')
      BY <1>1, <1>3, <3>1, <3>2, OldAnswers
    <3> QED
      BY <1>1, <3>1, <3>2 DEF AnswerNamesRoom
  <2> QED
    BY <2>1, <2>2
<1>13. PlayerIsInRoom' /\ RoomHasUsers'
  BY <1>1 DEF PlayerIsInRoom, RoomHasUsers
<1> QED
  BY <1>4, <1>7, <1>8, <1>9, <1>10, <1>11, <1>12, <1>13

LEMMA RefuseGameStep ==
  ASSUME IInv, TypeOK', NEW u \in User, NEW r \in Room \cup {NoRoom}, RefuseGame(u, r)
  PROVE  IInv'
<1> USE DEF userVars, coordVars, workerVars, IInv, TypeOK
<1>1. Serve("start", u, r) /\ UNCHANGED <<coordVars, userVars, workerVars>>
  BY DEF RefuseGame
<1>2. PICK m \in Reply : toCoord' = Append(toCoord, m) /\ m.u = u /\ m.t = "refused"
  BY DEF RefuseGame, Answer, Reply
<1>3. PICK q \in Nat :
           /\ \A k \in NoticeAt : k \in Nat /\ k < q /\ toCoord'[k] = toCoord[k]
           /\ NoticeAt' = NoticeAt
           /\ \A v : ReplyAt(v)' = ReplyAt(v) \cup (IF v = m.u THEN {q} ELSE {})
           /\ \A v : \A k \in ReplyAt(v) : k \in Nat /\ k < q /\ toCoord'[k] = toCoord[k]
           /\ toCoord'[q] = m
           /\ \A v : InitedAt(v)' =
                InitedAt(v) \cup (IF v = m.u /\ m.t = "inited" THEN {q} ELSE {})
  BY <1>2, ReplyPushed
<1>4. Queued("start", u) /\ OneInit' /\ \A t, v : Queued(t, v)' => Queued(t, v)
  BY <1>1, Served
<1>5. ~Queued("init", u) /\ pc[u] \notin {"new", "initing"}
  BY <1>4 DEF QueueFitsStage
<1>6. (Registering' <=> Registering) /\ (Closing' <=> Closing)
  BY <1>1, <1>3 DEF Registering, Closing
<1>7. OneRoomAtATime' /\ RoomIdFollowsRoom'
  BY <1>1, <1>3, SameNotices
<1>8. QueueFitsStage'
  BY <1>1, <1>2, <1>3, <1>4, <1>5 DEF QueueFitsStage
<1>9. SettledIsPeer'
  BY <1>1, <1>2, <1>3 DEF SettledIsPeer
<1>10. PeerPinsRoom'
  BY <1>1, <1>2, <1>3, <1>4, <1>6 DEF PeerPinsRoom
<1>11. FreeMeansNothing' /\ PeerHoldsSlot'
  BY <1>1, <1>4, <1>6 DEF FreeMeansNothing, PeerHoldsSlot
<1>12. AnswerNamesRoom'
  <2> SUFFICES ASSUME NEW v \in users
               PROVE  /\ \A k \in ReplyAt(v)' : toCoord'[k].t = "started" =>
                           /\ room # NoRoom
                           /\ \/ RoomId = room
                              \/ \E j \in NoticeAt' : j < k /\ toCoord'[j] = Note("register", room)
                      /\ pc[v] = "answered" => room # NoRoom /\ RoomId = room
    BY <1>1 DEF AnswerNamesRoom, Note
  <2>1. \A k \in ReplyAt(v)' : toCoord'[k].t = "started" => k \in ReplyAt(v)
    BY <1>2, <1>3
  <2>2. ASSUME NEW k \in ReplyAt(v), toCoord'[k].t = "started"
        PROVE  /\ room' # NoRoom
               /\ \/ RoomId = room'
                  \/ \E j \in NoticeAt' : j < k /\ toCoord'[j] = Note("register", room')
    BY <1>1, <1>3, <2>2, OldAnswers
  <2> QED
    BY <1>1, <2>1, <2>2 DEF AnswerNamesRoom
<1>13. PlayerIsInRoom' /\ RoomHasUsers'
  BY <1>1 DEF PlayerIsInRoom, RoomHasUsers
<1> QED
  BY <1>4, <1>7, <1>8, <1>9, <1>10, <1>11, <1>12, <1>13

(* A start by a peer that joins the open room, opens one, or fails to.     *)
LEMMA StartGameServed ==
  ASSUME IInv, TypeOK', NEW u \in users, NEW r \in Room \cup {NoRoom}, Serve("start", u, r),
         UNCHANGED <<coordVars, userVars, users>>,
         NEW m \in Notice, NEW a \in Reply, toCoord' = Append(Append(toCoord, m), a), a.u = u,
         room = NoRoom \/ room = m.r,
         \/ m.t = "register" /\ a.t = "started" /\ room' = m.r
         \/ m.t = "close" /\ a.t = "refused" /\ room' = NoRoom /\ room = NoRoom
  PROVE  IInv'
<1>0. TypeOK
  BY DEF IInv
<1>a. PICK q \in Nat : NoticeThenReply(m, a, q)
  BY <1>0, BothPushed
<1>1. /\ \A k \in NoticeAt : k \in Nat /\ k < q /\ toCoord'[k] = toCoord[k]
      /\ NoticeAt' = NoticeAt \cup {q}
      /\ toCoord'[q] = m
      /\ \A v : ReplyAt(v)' = ReplyAt(v) \cup (IF v = a.u THEN {q + 1} ELSE {})
      /\ \A v : \A k \in ReplyAt(v) : k \in Nat /\ k < q /\ toCoord'[k] = toCoord[k]
      /\ toCoord'[q + 1] = a
      /\ a.t # "inited" => \A v : InitedAt(v)' = InitedAt(v)
  BY <1>a DEF NoticeThenReply
<1> USE DEF userVars, coordVars, IInv, TypeOK
<1>2. Queued("start", u) /\ OneInit' /\ \A t, v : Queued(t, v)' => Queued(t, v)
  BY Served
<1>3. slot = 1 /\ ~Closing /\ ~Queued("init", u) /\ pc[u] \notin {"new", "initing"}
  BY <1>2 DEF PeerHoldsSlot, PeerPinsRoom, QueueFitsStage
<1>4. m.r \in Room /\ m.r # NoRoom /\ (m.t = "register" => m = Note("register", m.r))
  BY RoomAssumption DEF Notice, Note
<1>5. OneRoomAtATime' /\ RoomIdFollowsRoom'
  BY <1>1, <1>3, <1>4, MoreNotices
<1>6. ~Closing'
  BY <1>1, <1>3, <1>4 DEF Closing, Registering
<1>7. QueueFitsStage'
  BY <1>1, <1>2, <1>3 DEF QueueFitsStage
<1>8. SettledIsPeer' /\ PeerPinsRoom'
  BY <1>1, <1>2, <1>6 DEF SettledIsPeer, PeerPinsRoom
<1>9. FreeMeansNothing' /\ PeerHoldsSlot'
  BY <1>2, <1>3 DEF FreeMeansNothing, PeerHoldsSlot
<1>10. AnswerNamesRoom'
  <2> SUFFICES ASSUME NEW v \in users
               PROVE  /\ \A k \in ReplyAt(v)' : toCoord'[k].t = "started" =>
                           /\ room' # NoRoom
                           /\ \/ RoomId = room'
                              \/ \E j \in NoticeAt' : j < k /\ toCoord'[j] = Note("register", room')
                      /\ pc[v] = "answered" => room' # NoRoom /\ RoomId = room'
    BY DEF AnswerNamesRoom, Note
  <2>0. room # NoRoom => room' = room
    BY <1>4
  <2>1. pc[v] = "answered" => room' # NoRoom /\ RoomId = room'
    BY <2>0 DEF AnswerNamesRoom
  <2>2. ASSUME NEW k \in ReplyAt(v), toCoord'[k].t = "started"
        PROVE  /\ room' # NoRoom
               /\ \/ RoomId = room'
                  \/ \E j \in NoticeAt' : j < k /\ toCoord'[j] = Note("register", room')
    BY <1>1, <2>0, <2>2, OldAnswers
  <2>3. ASSUME v = u, a.t = "started"
        PROVE  /\ room' # NoRoom
               /\ \E j \in NoticeAt' : j < q + 1 /\ toCoord'[j] = Note("register", room')
    <3>1. room' = m.r /\ m = Note("register", m.r)
      BY <1>4, <2>3
    <3>2. q \in NoticeAt' /\ q < q + 1 /\ toCoord'[q] = Note("register", room')
      BY <1>1, <3>1
    <3> QED
      BY <1>4, <3>1, <3>2
  <2> QED
    BY <1>1, <2>1, <2>2, <2>3
<1>11. PlayerIsInRoom' /\ RoomHasUsers'
  BY <1>4 DEF PlayerIsInRoom, RoomHasUsers
<1> QED
  BY <1>2, <1>5, <1>7, <1>8, <1>9, <1>10, <1>11

LEMMA JoinGameStep ==
  ASSUME IInv, TypeOK', NEW u \in User, NEW r \in Room \cup {NoRoom}, JoinGame(u, r)
  PROVE  IInv'
<1> DEFINE m == Note("register", r)
           a == Answer("started", u, r)
<1>1. /\ m \in Notice /\ m.t = "register" /\ m.r = r
      /\ a \in Reply /\ a.t = "started" /\ a.u = u
  BY DEF JoinGame, Note, Notice, Answer, Reply
<1>2. /\ Serve("start", u, r) /\ u \in users /\ room = r /\ room' = r
      /\ toCoord' = Append(Append(toCoord, m), a)
      /\ UNCHANGED <<coordVars, userVars, users>>
  BY DEF JoinGame, workerVars
<1> HIDE DEF m, a
<1> QED
  BY <1>1, <1>2, StartGameServed

LEMMA NewGameStep ==
  ASSUME IInv, TypeOK', NEW u \in User, NEW r \in Room \cup {NoRoom}, NEW uid \in Room,
         NewGame(u, r, uid)
  PROVE  IInv'
<1>1. /\ Serve("start", u, r) /\ u \in users /\ room = NoRoom
      /\ UNCHANGED <<coordVars, userVars, users>>
  BY DEF NewGame
<1>2. CASE room' = uid /\ toCoord' = Append(Append(toCoord, Note("register", uid)),
                                            Answer("started", u, uid))
  <2> DEFINE m == Note("register", uid)
             a == Answer("started", u, uid)
  <2>1. /\ m \in Notice /\ m.t = "register" /\ m.r = uid
        /\ a \in Reply /\ a.t = "started" /\ a.u = u
    BY DEF Note, Notice, Answer, Reply
  <2>2. toCoord' = Append(Append(toCoord, m), a)
    BY <1>2
  <2> HIDE DEF m, a
  <2> QED
    BY <1>1, <1>2, <2>1, <2>2, StartGameServed
<1>3. CASE room' = room /\ toCoord' = Append(Append(toCoord, Note("close", uid)),
                                             Answer("refused", u, r))
  <2> DEFINE m == Note("close", uid)
             a == Answer("refused", u, r)
  <2>1. /\ m \in Notice /\ m.t = "close" /\ m.r = uid
        /\ a \in Reply /\ a.t = "refused" /\ a.u = u
    BY DEF Note, Notice, Answer, Reply
  <2>2. toCoord' = Append(Append(toCoord, m), a)
    BY <1>3
  <2> HIDE DEF m, a
  <2> QED
    BY <1>1, <1>3, <2>1, <2>2, StartGameServed
<1> QED
  BY <1>2, <1>3 DEF NewGame

LEMMA HandleLeaveStep ==
  ASSUME IInv, TypeOK', NEW u \in User, NEW r \in Room \cup {NoRoom}, HandleLeave(u, r)
  PROVE  IInv'
<1>0. TypeOK
  BY DEF IInv
<1>1. /\ Serve("quit", u, r) \/ Serve("terminate", u, r)
      /\ Remove(u) /\ UNCHANGED <<coordVars, userVars>>
  BY DEF HandleLeave
<1>2. /\ Queued("quit", u) \/ Queued("terminate", u)
      /\ \A t, v : Queued(t, v)' => Queued(t, v)
      /\ OneInit => OneInit'
  BY <1>0, <1>1, Served
<1> USE DEF userVars, coordVars, IInv, TypeOK
<1>3. users' = users \ {u} /\ (alive[u] => pc[u] \notin Settled \cup {"init"})
  BY <1>1, <1>2 DEF Remove, QueueFitsStage, Settled, Starting
<1>4. CASE room # NoRoom /\ users = {u}
  <2> DEFINE m == Note("close", room)
  <2>1. m \in Notice /\ m.t = "close" /\ m.r = room
    BY <1>4 DEF Note, Notice
  <2>2. toCoord' = Append(toCoord, m) /\ room' = NoRoom /\ users' = {}
    BY <1>1, <1>4 DEF Remove
  <2> HIDE DEF m
  <2>3. PICK q \in Nat :
           /\ \A k \in NoticeAt : k \in Nat /\ k < q /\ toCoord'[k] = toCoord[k]
           /\ NoticeAt' = NoticeAt \cup {q}
           /\ toCoord'[q] = m
           /\ \A v : ReplyAt(v)' = ReplyAt(v) /\ InitedAt(v)' = InitedAt(v)
           /\ \A v : \A k \in ReplyAt(v) : k \in Nat /\ k < q /\ toCoord'[k] = toCoord[k]
    BY <1>0, <2>1, <2>2, NoticePushed
  <2>4. OneRoomAtATime' /\ RoomIdFollowsRoom'
    BY <1>1, <2>1, <2>2, <2>3, MoreNotices
  <2>5. QueueFitsStage' /\ OneInit'
    BY <1>1, <1>2, <2>2, <2>3 DEF QueueFitsStage
  <2>6. SettledIsPeer'
    BY <1>1, <1>3, <1>4, <2>3 DEF SettledIsPeer
  <2>7. FreeMeansNothing'
    BY <1>1, <1>4 DEF FreeMeansNothing
  <2>8. PeerPinsRoom' /\ PeerHoldsSlot' /\ AnswerNamesRoom'
    BY <2>2 DEF PeerPinsRoom, PeerHoldsSlot, AnswerNamesRoom
  <2>9. PlayerIsInRoom' /\ RoomHasUsers'
    BY <1>1, <1>3, <1>4, <2>2 DEF PlayerIsInRoom, RoomHasUsers, Settled
  <2> QED
    BY <2>4, <2>5, <2>6, <2>7, <2>8, <2>9
<1>5. CASE ~(room # NoRoom /\ users = {u})
  <2>1. toCoord' = toCoord /\ room' = room
    BY <1>1, <1>5 DEF Remove
  <2>2. OneRoomAtATime' /\ RoomIdFollowsRoom' /\ (Closing' <=> Closing)
    BY <1>1, <2>1, StillNotices
  <2>3. QueueFitsStage' /\ OneInit'
    BY <1>1, <1>2, <1>3, <2>1, StillTold DEF QueueFitsStage
  <2>4. SettledIsPeer' /\ PeerPinsRoom'
    BY <1>1, <1>2, <1>3, <2>1, <2>2, StillTold DEF SettledIsPeer, PeerPinsRoom
  <2>5. FreeMeansNothing' /\ PeerHoldsSlot'
    BY <1>1, <1>2, <1>3, <2>1, StillTold DEF FreeMeansNothing, PeerHoldsSlot
  <2>6. AnswerNamesRoom'
    BY <1>1, <1>3, <2>1, StillTold DEF AnswerNamesRoom
  <2>7. PlayerIsInRoom'
    BY <1>1, <1>3, <2>1 DEF PlayerIsInRoom, Settled
  <2>8. RoomHasUsers'
    BY <1>3, <1>5, <2>1 DEF RoomHasUsers
  <2> QED
    BY <2>2, <2>3, <2>4, <2>5, <2>6, <2>7, <2>8
<1> QED
  BY <1>4, <1>5

-----------------------------------------------------------------------------
(* The theorems.                                                           *)

LEMMA InvariantInit == Init => IInv
<1> SUFFICES ASSUME Init PROVE IInv
  OBVIOUS
<1>1. TypeOK
  BY TypeInit
<1>2. NoticeAt = {} /\ (\A u : ReplyAt(u) = {}) /\ ~Registering /\ ~Closing
  BY DEF Init, NoticeAt, ReplyAt, Registering, Closing
<1>3. \A t, u : ~Queued(t, u)
  BY DEF Init, Queued
<1>4. OneRoomAtATime /\ RoomIdFollowsRoom
  BY <1>2 DEF Init, OneRoomAtATime, RoomIdFollowsRoom
<1>5. FreeMeansNothing /\ OneInit /\ QueueFitsStage /\ SettledIsPeer
  BY <1>2, <1>3 DEF Init, FreeMeansNothing, OneInit, QueueFitsStage, SettledIsPeer
<1>6. PeerPinsRoom /\ PeerHoldsSlot /\ AnswerNamesRoom /\ PlayerIsInRoom /\ RoomHasUsers
  BY DEF Init, PeerPinsRoom, PeerHoldsSlot, AnswerNamesRoom, PlayerIsInRoom, RoomHasUsers
<1> QED
  BY <1>1, <1>4, <1>5, <1>6 DEF IInv

LEMMA InvariantStutter ==
  ASSUME IInv, UNCHANGED vars
  PROVE  IInv'
<1> USE DEF vars, IInv
<1>1. OneRoomAtATime' /\ RoomIdFollowsRoom' /\ (Closing' <=> Closing)
  BY StillNotices
<1>2. TypeOK'
  BY DEF TypeOK
<1>3. OneInit' /\ QueueFitsStage'
  BY StillQueued, StillTold DEF QueueFitsStage
<1>4. SettledIsPeer' /\ PeerPinsRoom'
  BY <1>1, StillQueued, StillTold DEF SettledIsPeer, PeerPinsRoom
<1>5. FreeMeansNothing' /\ PeerHoldsSlot'
  BY StillQueued, StillTold DEF FreeMeansNothing, PeerHoldsSlot
<1>6. AnswerNamesRoom'
  BY StillTold DEF AnswerNamesRoom
<1>7. PlayerIsInRoom' /\ RoomHasUsers'
  BY DEF PlayerIsInRoom, RoomHasUsers
<1> QED
  BY <1>1, <1>2, <1>3, <1>4, <1>5, <1>6, <1>7

LEMMA InvariantInductive == IInv /\ [Next]_vars => IInv'
<1> SUFFICES ASSUME IInv, [Next]_vars PROVE IInv'
  OBVIOUS
<1>1. TypeOK'
  BY TypeInductive DEF IInv
<1>2. ASSUME NEW u \in User, Browser(u) PROVE IInv'
  BY <1>1, <1>2, ConnectStep, QuietSteps, QuitGameStep, DisconnectStep DEF Browser
<1>3. ASSUME NEW u \in User, Handler(u) PROVE IInv'
  BY <1>1, <1>3, QuietSteps, SendInitStep, SendStartStep DEF Handler
<1>4. ASSUME NEW u \in User, CallTimeout(u) PROVE IInv'
  BY <1>1, <1>4, QuietSteps
<1>5. CASE Coordinator
  BY <1>1, <1>5, HandleRegisterRoomStep, HandleCloseRoomStep, ReceiveReplyStep DEF Coordinator
<1>6. CASE WorkerStep
  BY <1>1, <1>6, HandleInitWebrtcStreamStep, RefuseGameStep, JoinGameStep, NewGameStep,
     HandleLeaveStep
  DEF WorkerStep, HandleGameStart
<1>7. CASE UNCHANGED vars
  BY <1>7, InvariantStutter
<1> QED
  BY <1>2, <1>3, <1>4, <1>5, <1>6, <1>7 DEF Next

LEMMA Invariant == Spec => []IInv
BY InvariantInit, InvariantInductive, PTL DEF Spec

(* A worker whose slot is free is never one that is in use, or about to    *)
(* be: what findWorkerFor relies on when it offers the worker to a user.   *)
THEOREM FreeWorkerIsNeverUsed == Spec => []FreeWorkerIsIdle
<1>1. IInv => FreeWorkerIsIdle
  BY DEF IInv, FreeWorkerIsIdle, FreeMeansNothing, PeerHoldsSlot, Queued
<1> QED
  BY <1>1, Invariant, PTL

(* Whoever plays, plays in an open room, the one it was told: Router.Remove *)
(* and a start by another user never close or replace a room under it.     *)
THEOREM PlayersKeepTheirRoom == Spec => []PlayerIsInRoom
<1>1. IInv => PlayerIsInRoom
  BY DEF IInv
<1> QED
  BY <1>1, Invariant, PTL

(* An open room always has a connected peer (Router.Remove closes it with  *)
(* the last one, and SetRoom is reached with a peer only).                 *)
THEOREM NoAbandonedRoom == Spec => []RoomHasUsers
<1>1. IInv => RoomHasUsers
  BY DEF IInv
<1> QED
  BY <1>1, Invariant, PTL

(* The coordinator's RoomId is the worker's room, once the notices under   *)
(* way are handled: RegisterRoom and CloseRoom never cross.                *)
THEOREM RoomIdTracksRoom == Spec => []RoomIdFollowsRoom
<1>1. IInv => RoomIdFollowsRoom
  BY DEF IInv
<1> QED
  BY <1>1, Invariant, PTL

-----------------------------------------------------------------------------
(* Refinement: every step is a step of the lease, or none.                 *)

Stays == UNCHANGED <<Phase, room>>

LEMMA PhaseStays ==
  ASSUME UNCHANGED <<slot, room>>, Closing' <=> Closing
  PROVE  Stays
BY DEF Stays, Phase

LEMMA QuietStays ==
  ASSUME UNCHANGED <<slot, room, RoomId, toCoord>>
  PROVE  Stays
BY StillTold, PhaseStays DEF Closing

LEMMA ReserveGrants ==
  ASSUME IInv, NEW u \in User, TryReserve(u)
  PROVE  LeaseOf!LeaseNext \/ Stays
<1> USE DEF TryReserve, workerVars
<1>1. CASE slot = 0
  BY <1>1, StillTold
  DEF IInv, FreeMeansNothing, Phase, Closing, LeaseOf!LeaseNext, LeaseOf!Grant
<1>2. CASE slot # 0
  BY <1>2, QuietStays
<1> QED
  BY <1>1, <1>2

LEMMA NoticesStay ==
  ASSUME IInv, HandleRegisterRoom \/ ReceiveReply
  PROVE  Stays
<1> USE DEF IInv
<1>1. PICK m \in Reply \cup Notice :
        /\ Receive(m) /\ UNCHANGED <<slot, room>>
        /\ \/ m.t = "register" /\ m.r \in Room /\ RoomId' = m.r
           \/ m.t # "register" /\ RoomId' = RoomId
  <2>1. CASE HandleRegisterRoom
    <3>1. PICK r \in Room : Receive(Note("register", r)) /\ RoomId' = r /\ UNCHANGED <<slot, room>>
      BY <2>1 DEF HandleRegisterRoom, workerVars
    <3>2. Note("register", r) \in Notice /\ Note("register", r).t = "register"
          /\ Note("register", r).r = r
      BY DEF Note, Notice
    <3> QED
      BY <3>1, <3>2
  <2>2. CASE ReceiveReply
    <3>1. PICK m \in Reply : Receive(m) /\ UNCHANGED <<slot, room, RoomId>>
      BY <2>2 DEF ReceiveReply, workerVars, coordVars
    <3> QED
      BY <3>1 DEF Reply
  <2> QED
    BY <2>1, <2>2
<1>2. Registering' => Registering
  BY <1>1, Shifted DEF Registering
<1>3. Registering /\ m.t # "register" => Registering'
  <2> SUFFICES ASSUME NEW i \in NoticeAt, toCoord[i].t = "register", m.t # "register"
               PROVE  Registering'
    BY DEF Registering
  <2>1. i # 1 /\ i \in DOMAIN toCoord
    BY <1>1, Delivered DEF NoticeAt
  <2>2. i - 1 \in NoticeAt' /\ toCoord'[i - 1] = toCoord[i]
    BY <1>1, <2>1, Delivered DEF NoticeAt
  <2> QED
    BY <2>2 DEF Registering
<1>4. m.t = "register" => Registering
  BY <1>1, Delivered DEF Registering, NoticeAt
<1>5. Closing' <=> Closing
  BY <1>1, <1>2, <1>3, <1>4, RoomAssumption DEF Closing
<1> QED
  BY <1>1, <1>5, PhaseStays

LEMMA CloseReleases ==
  ASSUME IInv, HandleCloseRoom
  PROVE  LeaseOf!LeaseNext \/ Stays
<1> USE DEF IInv
<1>1. PICK r \in Room :
        /\ Receive(Note("close", r))
        /\ IF r = RoomId THEN RoomId' = NoRoom /\ slot' = 0
                         ELSE UNCHANGED <<RoomId, slot>>
        /\ UNCHANGED room
  BY DEF HandleCloseRoom, workerVars
<1>2. CASE r = RoomId
  BY <1>1, <1>2, ClosedBefore, RoomAssumption
  DEF FreeMeansNothing, Phase, Closing, LeaseOf!LeaseNext, LeaseOf!Release
<1>3. CASE r # RoomId
  <2>1. Registering' => Registering
    BY <1>1, Shifted DEF Registering
  <2>2. Registering => Registering'
    <3> SUFFICES ASSUME NEW i \in NoticeAt, toCoord[i].t = "register"
                 PROVE  Registering'
      BY DEF Registering
    <3>1. i # 1 /\ i \in DOMAIN toCoord
      BY <1>1, Delivered DEF NoticeAt, Note
    <3>2. i - 1 \in NoticeAt' /\ toCoord'[i - 1] = toCoord[i]
      BY <1>1, <3>1, Delivered DEF NoticeAt
    <3> QED
      BY <3>2 DEF Registering
  <2> QED
    BY <1>1, <1>3, <2>1, <2>2, PhaseStays DEF Closing
<1> QED
  BY <1>2, <1>3

LEMMA ReplyStays ==
  ASSUME IInv, NEW m \in Reply, toCoord' = Append(toCoord, m), UNCHANGED <<slot, RoomId, room>>
  PROVE  Stays
<1>1. TypeOK
  BY DEF IInv
<1>2. Registering' <=> Registering
  BY <1>1, ReplyPushed DEF Registering
<1> QED
  BY <1>2, PhaseStays DEF Closing

LEMMA StartOpens ==
  ASSUME IInv, NEW u \in User, NEW r \in Room \cup {NoRoom},
         RefuseGame(u, r) \/ JoinGame(u, r) \/ \E uid \in Room : NewGame(u, r, uid)
  PROVE  LeaseOf!LeaseNext \/ Stays
<1> USE DEF coordVars, workerVars
<1>0. TypeOK
  BY DEF IInv
<1>1. CASE RefuseGame(u, r)
  <2>1. Answer("refused", u, r) \in Reply
    BY DEF Answer, Reply
  <2> QED
    BY <1>1, <2>1, ReplyStays DEF RefuseGame
<1>2. CASE JoinGame(u, r)
  BY <1>2 DEF JoinGame, Stays, Phase
<1>3. ASSUME NEW uid \in Room, NewGame(u, r, uid) PROVE LeaseOf!LeaseNext \/ Stays
  <2>1. Serve("start", u, r) /\ u \in users /\ room = NoRoom /\ UNCHANGED <<slot, RoomId>>
    BY <1>3 DEF NewGame
  <2>2. slot = 1 /\ ~Closing
    BY <1>0, <2>1, Served DEF IInv, PeerHoldsSlot, PeerPinsRoom
  <2>3. CASE room' = uid
    BY <2>1, <2>2, <2>3, RoomAssumption DEF Phase, LeaseOf!LeaseNext, LeaseOf!Open
  <2>4. CASE room' = room /\ toCoord' = Append(Append(toCoord, Note("close", uid)),
                                               Answer("refused", u, r))
    <3>1. Note("close", uid) \in Notice /\ Answer("refused", u, r) \in Reply
      BY DEF Note, Notice, Answer, Reply
    <3>2. PICK q \in Nat : NoticeThenReply(Note("close", uid), Answer("refused", u, r), q)
      BY <1>0, <2>4, <3>1, BothPushed
    <3>3. ~Registering'
      BY <2>1, <2>2, <3>2 DEF NoticeThenReply, Registering, Closing, Note
    <3> QED
      BY <2>1, <2>2, <2>4, <3>3, PhaseStays DEF Closing
  <2> QED
    BY <1>3, <2>3, <2>4 DEF NewGame
<1> QED
  BY <1>1, <1>2, <1>3

LEMMA LeaveCloses ==
  ASSUME IInv, NEW u \in User, NEW r \in Room \cup {NoRoom}, HandleLeave(u, r)
  PROVE  LeaseOf!LeaseNext \/ Stays
<1> USE DEF HandleLeave, coordVars, userVars
<1>1. CASE room # NoRoom /\ users = {u}
  <2>1. Note("close", room) \in Notice /\ TypeOK
    BY <1>1 DEF Note, Notice, IInv, TypeOK
  <2>2. toCoord' = Append(toCoord, Note("close", room)) /\ room' = NoRoom
    BY <1>1 DEF Remove
  <2>3. PICK q \in Nat : /\ \A k \in NoticeAt : toCoord'[k] = toCoord[k]
                         /\ NoticeAt' = NoticeAt \cup {q}
    BY <2>1, <2>2, NoticePushed
  <2>4. RoomId # NoRoom \/ Registering
    BY <1>1 DEF IInv, RoomIdFollowsRoom, Registering
  <2>5. Closing'
    BY <2>2, <2>3, <2>4 DEF Closing, Registering
  <2>6. slot # 0
    BY <1>1 DEF IInv, FreeMeansNothing
  <2> QED
    BY <1>1, <2>2, <2>5, <2>6 DEF Phase, LeaseOf!LeaseNext, LeaseOf!Close
<1>2. CASE ~(room # NoRoom /\ users = {u})
  BY <1>2, QuietStays DEF Remove
<1> QED
  BY <1>1, <1>2

(* The slot and the room are a lease: one game per grant, no game without  *)
(* a grant, and TryReserve can succeed again only after HandleCloseRoom.   *)
THEOREM SlotIsALease == Spec => LeaseOf!LeaseInit /\ [][LeaseOf!LeaseNext]_(LeaseOf!leaseVars)
<1>1. Init => LeaseOf!LeaseInit
  BY DEF Init, Phase, LeaseOf!LeaseInit
<1>2. IInv /\ [Next]_vars => [LeaseOf!LeaseNext]_(LeaseOf!leaseVars)
  <2> SUFFICES ASSUME IInv, [Next]_vars PROVE LeaseOf!LeaseNext \/ Stays
    BY DEF Stays, LeaseOf!leaseVars
  <2> USE DEF coordVars, workerVars, userVars
  <2>1. ASSUME NEW u \in User, Browser(u) PROVE LeaseOf!LeaseNext \/ Stays
    BY <2>1, QuietStays DEF Browser, Connect, BeginInit, StartGame, QuitGame, Disconnect
  <2>2. ASSUME NEW u \in User, Handler(u) PROVE LeaseOf!LeaseNext \/ Stays
    BY <2>2, QuietStays, ReserveGrants
    DEF Handler, SendInit, GraceOver, CheckSlot, CheckRoom, MatchRoom, SendStart, TellRoom
  <2>3. ASSUME NEW u \in User, CallTimeout(u) PROVE LeaseOf!LeaseNext \/ Stays
    BY <2>3, QuietStays DEF CallTimeout
  <2>4. CASE Coordinator
    BY <2>4, NoticesStay, CloseReleases DEF Coordinator
  <2>5. ASSUME NEW u \in User, NEW r \in Room \cup {NoRoom}, HandleInitWebrtcStream(u, r)
        PROVE  LeaseOf!LeaseNext \/ Stays
    <3>1. Answer("inited", u, r) \in Reply /\ Answer("uninited", u, r) \in Reply
      BY DEF Answer, Reply
    <3> QED
      BY <2>5, <3>1, ReplyStays DEF HandleInitWebrtcStream
  <2>6. CASE WorkerStep
    BY <2>5, <2>6, StartOpens, LeaveCloses DEF WorkerStep, HandleGameStart
  <2>7. CASE UNCHANGED vars
    BY <2>7, QuietStays DEF vars
  <2> QED
    BY <2>1, <2>2, <2>3, <2>4, <2>6, <2>7 DEF Next
<1> QED
  BY <1>1, <1>2, Invariant, PTL DEF Spec
-----------------------------------------------------------------------------
(* Composition: every step is one that the hub expects of an entry.        *)

EntryStays == UNCHANGED <<slot, RoomId>>

(* What the hub expects of an entry, in terms of the slot and RoomId.      *)
EntryMoves ==
  \/ slot = 0 /\ slot' = 1 /\ RoomId' = RoomId
  \/ slot = 1 /\ slot' = slot /\ RoomId' \in Room
  \/ RoomId # NoRoom /\ RoomId' = NoRoom /\ slot' = 0

(* No search has begun, so nothing of one changes.                         *)
LEMMA NoSearch == HubOf!Changes
BY DEF HubOf!Changes, HubOf!searchVars, HubOf!Remember, HubOf!Free, HubOf!Runs,
       HubOf!Saved, HubOf!Registered, HubOf!HasSlot, Entry

LEMMA EntryStaysInHub ==
  ASSUME EntryStays PROVE UNCHANGED HubOf!vars
BY DEF EntryStays, HubOf!vars, HubOf!worldVars, HubOf!searchVars, HubOf!historyVars, Entry

LEMMA EntryMovesInHub ==
  ASSUME EntryMoves PROVE HubOf!Next
<1> DEFINE w == "worker"
<1> USE NoSearch DEF Entry
<1>1. CASE slot = 0 /\ slot' = 1 /\ RoomId' = RoomId
  <2>1. HubOf!TryReserve(w)
    BY <1>1 DEF HubOf!TryReserve
  <2> QED
    BY <2>1 DEF HubOf!Next, HubOf!World, HubOf!Results
<1>2. CASE slot = 1 /\ slot' = slot /\ RoomId' \in Room
  <2>1. HubOf!HandleRegisterRoom(w, RoomId')
    BY <1>2 DEF HubOf!HandleRegisterRoom
  <2> QED
    BY <1>2, <2>1 DEF HubOf!Next, HubOf!World, HubOf!Results
<1>3. CASE RoomId # NoRoom /\ RoomId' = NoRoom /\ slot' = 0
  <2>1. HubOf!HandleCloseRoom(w)
    BY <1>3 DEF HubOf!HandleCloseRoom
  <2> QED
    BY <2>1 DEF HubOf!Next, HubOf!World, HubOf!Results
<1> QED
  BY <1>1, <1>2, <1>3 DEF EntryMoves

(* A worker is registered with a room only while its slot is taken.        *)
LEMMA RegisterMoves ==
  ASSUME IInv, HandleRegisterRoom PROVE EntryMoves
<1>1. PICK r \in Room : Receive(Note("register", r)) /\ RoomId' = r /\ UNCHANGED slot
  BY DEF HandleRegisterRoom
<1>2. TypeOK
  BY DEF IInv
<1>3. Registering
  BY <1>1, <1>2, Delivered DEF Registering, NoticeAt, Note
<1>4. slot = 1
  BY <1>2, <1>3 DEF IInv, FreeMeansNothing, TypeOK
<1> QED
  BY <1>1, <1>4 DEF EntryMoves

(* The coordinator's view of a worker is an entry as the hub's searches    *)
(* take it: HandleRegisterRoom is heard only while the slot is taken, only *)
(* TryReserve takes it, and only HandleCloseRoom gives it back, together   *)
(* with the room.                                                          *)
THEOREM WorkerIsAnEntry == Spec => IsAnEntryOfTheHub
<1>1. Init => HubOf!Init
  BY DEF Init, HubOf!Init, HubOf!NoQuery, Entry
<1>2. IInv /\ [Next]_vars => [HubOf!Next]_(HubOf!vars)
  <2> SUFFICES ASSUME IInv, [Next]_vars PROVE EntryMoves \/ EntryStays
    BY EntryMovesInHub, EntryStaysInHub
  <2> USE DEF coordVars, workerVars, userVars
  <2>1. ASSUME NEW u \in User, Browser(u) PROVE EntryStays
    BY <2>1 DEF Browser, Connect, BeginInit, StartGame, QuitGame, Disconnect, EntryStays
  <2>2. ASSUME NEW u \in User, Handler(u) PROVE EntryMoves \/ EntryStays
    <3>1. CASE TryReserve(u)
      BY <3>1 DEF TryReserve, EntryMoves, EntryStays
    <3>2. CASE ~TryReserve(u)
      BY <2>2, <3>2 DEF Handler, SendInit, GraceOver, CheckSlot, CheckRoom, MatchRoom,
                        SendStart, TellRoom, EntryStays
    <3> QED
      BY <3>1, <3>2
  <2>3. ASSUME NEW u \in User, CallTimeout(u) PROVE EntryStays
    BY <2>3 DEF CallTimeout, EntryStays
  <2>4. CASE HandleCloseRoom
    BY <2>4, RoomAssumption DEF HandleCloseRoom, EntryMoves, EntryStays
  <2>5. CASE ReceiveReply
    BY <2>5 DEF ReceiveReply, EntryStays
  <2>6. CASE WorkerStep
    BY <2>6 DEF WorkerStep, HandleInitWebrtcStream, HandleGameStart, RefuseGame, JoinGame,
                NewGame, HandleLeave, EntryStays
  <2>7. CASE UNCHANGED vars
    BY <2>7 DEF vars, EntryStays
  <2> QED
    BY <2>1, <2>2, <2>3, <2>4, <2>5, <2>6, <2>7, RegisterMoves DEF Next, Coordinator
<1> QED
  BY <1>1, <1>2, Invariant, PTL DEF Spec, IsAnEntryOfTheHub, HubOf!Spec
=============================================================================
