----------------------- MODULE WsConnection_proofs -----------------------
(***************************************************************************)
(* The properties of WsConnection, proved for any set of writers.          *)
(*                                                                         *)
(* The argument: once is a lock that is taken once.  Whoever holds it, and *)
(* nobody else, is "closing", and done is still open; before it is taken   *)
(* the connection is alive and done is open; after it is given back done   *)
(* has been closed once and the connection is not alive, so that no Write  *)
(* passes its test any more.                                               *)
(*                                                                         *)
(* A connection ends because the reader, or the writer that pings, comes   *)
(* step by step to close(), and whoever is in close() leaves it.           *)
(***************************************************************************)
EXTENDS WsConnection, TLAPS

LEMMA Pushed ==
  ASSUME NEW S, NEW s \in Seq(S), NEW e \in S
  PROVE  /\ Len(s) \in Nat /\ DOMAIN s = 1..Len(s)
         /\ Append(s, e) \in Seq(S)
         /\ DOMAIN Append(s, e) = 1..(Len(s) + 1)
         /\ \A i \in 1..Len(s) : Append(s, e)[i] = s[i]
         /\ Append(s, e)[Len(s) + 1] = e
BY SMT

LEMMA Popped ==
  ASSUME NEW S, NEW s \in Seq(S), s # <<>>
  PROVE  /\ Len(s) \in Nat /\ Len(s) > 0 /\ DOMAIN s = 1..Len(s)
         /\ Tail(s) \in Seq(S)
         /\ Len(Tail(s)) = Len(s) - 1
         /\ DOMAIN Tail(s) = 1..(Len(s) - 1)
         /\ \A i \in 1..(Len(s) - 1) : Tail(s)[i] = s[i + 1]
BY SMT

-----------------------------------------------------------------------------
(* The stage of close() decides alive and done.                            *)
Closing ==
  /\ once = "no" => alive /\ done = 0
  /\ once = "run" => ~alive /\ done = 0
  /\ once = "done" => ~alive /\ done = 1
  /\ ~(reader = "closing" /\ writer = "closing")

IInv == TypeOK /\ Closing

LEMMA Initially == Init => IInv
<1> SUFFICES ASSUME Init PROVE IInv
  OBVIOUS
<1>1. /\ sendq \in Seq(Writers)
      /\ \A i, j \in DOMAIN sendq : sendq[i] = sendq[j] => i = j
      /\ passed \subseteq Writers /\ \A g \in passed : ~Blocked(g)
  <2>1. sendq = <<>> /\ passed = {} /\ DOMAIN <<>> = {}
    BY DEF Init
  <2> QED
    BY <2>1, SMT
<1> QED
  BY <1>1 DEF Init, IInv, TypeOK, Closing

(* A goroutine that begins to send is appended to those that wait.         *)
LEMMA SendKeeps ==
  ASSUME IInv, NEW g \in Writers, BeginSend(g)
  PROVE  IInv'
<1>0. g \in passed /\ passed' = passed \ {g} /\ ~Blocked(g)
  BY DEF IInv, TypeOK, BeginSend
<1>1. CASE send # "open"
  BY <1>0, <1>1 DEF IInv, TypeOK, Closing, BeginSend, Blocked, closeVars, socketVars
<1>2. CASE send = "open"
  <2>1. sendq \in Seq(Writers) /\ sendq' = Append(sendq, g)
    BY <1>2 DEF IInv, TypeOK, BeginSend
  <2>2. \A i \in DOMAIN sendq : sendq[i] # g
    BY <1>0 DEF Blocked
  <2>3. /\ sendq' \in Seq(Writers)
        /\ \A i, j \in DOMAIN sendq' : sendq'[i] = sendq'[j] => i = j
    BY <2>1, <2>2, Pushed DEF IInv, TypeOK
  <2>4. passed' \subseteq Writers /\ \A h \in passed' : ~Blocked(h)'
    BY <1>0, <2>1, Pushed DEF IInv, TypeOK, Blocked
  <2> QED
    BY <1>2, <2>3, <2>4 DEF IInv, TypeOK, Closing, BeginSend, closeVars, socketVars
<1> QED
  BY <1>1, <1>2

LEMMA ReceiveKeeps ==
  ASSUME IInv, Receive
  PROVE  IInv'
<1>1. sendq \in Seq(Writers) /\ sendq # <<>> /\ sendq' = Tail(sendq) /\ UNCHANGED passed
  BY DEF IInv, TypeOK, Receive
<1>2. /\ sendq' \in Seq(Writers)
      /\ \A i, j \in DOMAIN sendq' : sendq'[i] = sendq'[j] => i = j
  BY <1>1, Popped DEF IInv, TypeOK
<1>3. \A g \in passed' : ~Blocked(g)'
  BY <1>1, Popped DEF IInv, TypeOK, Blocked
<1> QED
  BY <1>1, <1>2, <1>3 DEF IInv, TypeOK, Closing, Receive, closeVars, socketVars

LEMMA TestKeeps ==
  ASSUME IInv, NEW g \in Writers, TestAlive(g)
  PROVE  IInv'
<1>1. passed' = passed \cup {g} /\ UNCHANGED sendq /\ ~Blocked(g)
  BY DEF TestAlive, Inside
<1>2. passed' \subseteq Writers /\ \A h \in passed' : ~Blocked(h)'
  BY <1>1 DEF IInv, TypeOK, Blocked
<1> QED
  BY <1>1, <1>2 DEF IInv, TypeOK, Closing, TestAlive, closeVars, socketVars

(* Every other step leaves those that wait alone.                          *)
LEMMA Keeps ==
  ASSUME IInv, [Next]_vars
  PROVE  IInv'
<1> USE DEF IInv, TypeOK, Closing, Blocked, closeVars, socketVars
<1>1. CASE \E g \in Writers : TestAlive(g) \/ BeginSend(g)
  BY <1>1, TestKeeps, SendKeeps DEF IInv
<1>2. CASE SendClose
  BY <1>2 DEF SendClose
<1>3. CASE Receive
  BY <1>3, ReceiveKeeps
<1>4. CASE WriteMessage
  BY <1>4 DEF WriteMessage
<1>5. CASE PingFails
  BY <1>5 DEF PingFails
<1>6. CASE SendClosed
  BY <1>6, FlagAssumption DEF SendClosed
<1>7. CASE WriterCloses
  <2>1. CASE CloseConn(writer)
    BY <1>7, <2>1 DEF WriterCloses, CloseConn, CloseDone
  <2>2. CASE CloseDone(writer)
    <3>1. once = "run" /\ reader # "closing" /\ done = 0
      BY <2>2 DEF CloseDone
    <3>2. /\ writer' = "end" /\ UNCHANGED <<send, passed, sendq, panicked, net, closeSent, peerClosed, reader>>
          /\ once' = "done" /\ done' = 1 /\ alive' = FALSE /\ conn' = "closed"
      BY <1>7, <2>2, <3>1 DEF WriterCloses, CloseConn, CloseDone
    <3>3. TypeOK'
      BY <3>1, <3>2
    <3>4. Closing'
      BY <3>1, <3>2
    <3> QED
      BY <3>3, <3>4
  <2>3. CASE writer = "close" /\ once = "done" /\ writer' = "end" /\ UNCHANGED <<alive, done, once>>
    BY <1>7, <2>3 DEF WriterCloses, CloseConn, CloseDone
  <2> QED
    BY <1>7, <2>1, <2>2, <2>3 DEF WriterCloses
<1>8. CASE ReadMessage
  BY <1>8 DEF ReadMessage
<1>9. CASE CallbackReturns
  BY <1>9 DEF CallbackReturns
<1>10. CASE ReadFails
  BY <1>10 DEF ReadFails
<1>11. CASE CloseSend
  BY <1>11 DEF CloseSend
<1>12. CASE ReaderCloses
  <2>1. CASE CloseConn(reader)
    BY <1>12, <2>1 DEF ReaderCloses, CloseConn, CloseDone
  <2>2. CASE CloseDone(reader)
    <3>1. once = "run" /\ writer # "closing" /\ done = 0
      BY <2>2 DEF CloseDone
    <3>2. /\ reader' = "end" /\ UNCHANGED <<send, passed, sendq, panicked, net, closeSent, peerClosed, writer>>
          /\ once' = "done" /\ done' = 1 /\ alive' = FALSE /\ conn' = "closed"
      BY <1>12, <2>2, <3>1 DEF ReaderCloses, CloseConn, CloseDone
    <3>3. TypeOK'
      BY <3>1, <3>2
    <3>4. Closing'
      BY <3>1, <3>2
    <3> QED
      BY <3>3, <3>4
  <2>3. CASE reader = "close" /\ once = "done" /\ reader' = "end" /\ UNCHANGED <<alive, done, once>>
    BY <1>12, <2>3 DEF ReaderCloses, CloseConn, CloseDone
  <2> QED
    BY <1>12, <2>1, <2>2, <2>3 DEF ReaderCloses
<1>13. CASE Lose
  BY <1>13 DEF Lose
<1>14. CASE PeerCloses
  BY <1>14 DEF PeerCloses
<1>15. CASE UNCHANGED vars
  BY <1>15 DEF vars
<1> QED
  BY <1>1, <1>2, <1>3, <1>4, <1>5, <1>6, <1>7, <1>8, <1>9, <1>10, <1>11, <1>12,
     <1>13, <1>14, <1>15 DEF Next, WriterStep, ReaderStep

(* The invariant holds for any writers: the stage of close() decides alive *)
(* and done, and one goroutine at most is in it.                           *)
THEOREM Invariant == Spec => []IInv
<1>1. IInv /\ [Next]_vars => IInv'
  BY Keeps
<1> QED
  BY Initially, <1>1, PTL DEF Spec

(* The types hold, and with them: the channel is closed from the moment    *)
(* the reader has failed, no goroutine waits in it twice, and close() is   *)
(* under way when one of the two goroutines is in it.                      *)
THEOREM TypeCorrect == Spec => []TypeOK
<1>1. IInv => TypeOK
  BY DEF IInv
<1> QED
  BY Invariant, <1>1, PTL

(* done is closed at most once, whoever finds the connection broken first. *)
THEOREM DoneIsClosedOnce == Spec => []DoneOnce
<1>1. IInv => DoneOnce
  BY DEF IInv, TypeOK, Closing, DoneOnce
<1> QED
  BY Invariant, <1>1, PTL

(* Whom a step leaves in a Write: a goroutine comes in by its test alone.  *)
LEMMA ComesIn ==
  ASSUME IInv, [Next]_vars, alive = FALSE
  PROVE  Inside' \subseteq Inside
<1>0. sendq \in Seq(Writers) /\ passed \subseteq Writers
  BY DEF IInv, TypeOK
<1>1. CASE Receive
  <2>1. sendq # <<>> /\ sendq' = Tail(sendq) /\ passed' = passed
    BY <1>1 DEF Receive
  <2> QED
    BY <1>0, <2>1, Popped DEF Inside, Blocked
<1>2. ASSUME NEW g \in Writers, BeginSend(g) PROVE Inside' \subseteq Inside
  <2>1. g \in passed /\ passed' \subseteq passed /\ (sendq' = sendq \/ sendq' = Append(sendq, g))
    BY <1>2 DEF BeginSend
  <2>2. \A h \in Writers : Blocked(h)' => Blocked(h) \/ h = g
    BY <1>0, <2>1, Pushed DEF Blocked
  <2> QED
    BY <2>1, <2>2 DEF Inside
<1>3. ASSUME passed' = passed, sendq' = sendq PROVE Inside' \subseteq Inside
  BY <1>3 DEF Inside, Blocked
<1> QED
  BY <1>1, <1>2, <1>3
  DEF Next, vars, TestAlive, SendClose, WriterStep, WriteMessage, PingFails, SendClosed,
      WriterCloses, ReadMessage, ReaderStep, CallbackReturns, ReadFails, CloseSend, ReaderCloses,
      Lose, PeerCloses

(* No Write passes its test once done is closed, whoever passed it before. *)
THEOREM NobodySendsLate == Spec => NoSendAfterDone
<1>1. IInv /\ [Next]_vars => [done > 0 => Inside' \subseteq Inside]_vars
  <2> SUFFICES ASSUME IInv, [Next]_vars, done > 0 PROVE Inside' \subseteq Inside
    OBVIOUS
  <2>1. alive = FALSE
    BY DEF IInv, TypeOK, Closing
  <2> QED
    BY <2>1, ComesIn
<1> QED
  BY Invariant, <1>1, PTL DEF NoSendAfterDone, Spec

-----------------------------------------------------------------------------
(* Liveness                                                                *)

(* A goroutine ends after close() only.                                    *)
EndsClosed == "end" \in {reader, writer} => once = "done"

Inv == IInv /\ EndsClosed

LEMMA EndsClosedKept ==
  ASSUME IInv, EndsClosed, [Next]_vars
  PROVE  EndsClosed'
BY DEF IInv, TypeOK, EndsClosed, Next, vars, closeVars, socketVars, TestAlive, BeginSend, SendClose, WriterStep,
       Receive, WriteMessage, PingFails, SendClosed, WriterCloses, CloseConn, CloseDone, ReadMessage,
       ReaderStep, CallbackReturns, ReadFails, CloseSend, ReaderCloses, Lose, PeerCloses

LEMMA LivingInvariant == Spec => []Inv
<1>1. Init => EndsClosed
  BY DEF Init, EndsClosed
<1>2. IInv /\ EndsClosed /\ [Next]_vars => EndsClosed'
  BY EndsClosedKept
<1> QED
  BY <1>1, <1>2, Invariant, PTL DEF Spec, Inv

Closed == done > 0 \/ panicked

Reading(p) == reader = p /\ ~Closed
Writing(p) == writer = p /\ ~Closed
InClose == once = "run" /\ ~Closed

(* The connection is broken for its reader, and for the end that pings.    *)
ReadLost == net = "down" \/ peerClosed
WriteLost == PingPong /\ closeSent

LEMMA LostStays ==
  ASSUME Inv, [Next]_vars
  PROVE  (ReadLost => ReadLost') /\ (WriteLost => WriteLost')
BY FlagAssumption
DEF Inv, IInv, TypeOK, ReadLost, WriteLost, Next, vars, closeVars, socketVars, TestAlive, BeginSend, SendClose,
    WriterStep, Receive, WriteMessage, PingFails, SendClosed, WriterCloses, CloseConn, CloseDone,
    ReadMessage, ReaderStep, CallbackReturns, ReadFails, CloseSend, ReaderCloses, Lose, PeerCloses

LEMMA ClosedStays ==
  ASSUME Inv, Closed, [Next]_vars
  PROVE  Closed'
BY DEF Inv, IInv, TypeOK, Closing, Closed, Next, vars, closeVars, socketVars, TestAlive, BeginSend, SendClose,
       WriterStep, Receive, WriteMessage, PingFails, SendClosed, WriterCloses, CloseConn, CloseDone,
       ReadMessage, ReaderStep, CallbackReturns, ReadFails, CloseSend, ReaderCloses, Lose, PeerCloses

(* What the others leave alone, and what the goroutine's own step does.    *)
LEMMA OthersLeaveReader ==
  ASSUME Inv, [Next]_vars, ~ReaderStep, ~ReadMessage
  PROVE  reader' = reader
BY DEF Next, vars, closeVars, socketVars, TestAlive, BeginSend, SendClose, WriterStep, Receive, WriteMessage,
       PingFails, SendClosed, WriterCloses, CloseConn, CloseDone, Lose, PeerCloses

LEMMA OthersLeaveWriter ==
  ASSUME Inv, [Next]_vars, ~WriterStep
  PROVE  writer' = writer
BY DEF Next, vars, closeVars, socketVars, TestAlive, BeginSend, SendClose, ReadMessage, ReaderStep,
       CallbackReturns, ReadFails, CloseSend, ReaderCloses, CloseConn, CloseDone, Lose, PeerCloses

LEMMA ReaderGoes ==
  ASSUME Inv, Inv', ReaderStep
  PROVE  /\ Reading("call") => reader' = "read"
         /\ Reading("read") => reader' = "finish"
         /\ Reading("finish") => reader' = "close"
         /\ Reading("close") => InClose' \/ Closed'
         /\ Reading("closing") => Closed'
BY DEF Inv, IInv, TypeOK, Closing, Reading, InClose, Closed, ReaderStep, CallbackReturns,
       ReadFails, CloseSend, ReaderCloses, CloseConn, CloseDone, closeVars, socketVars

LEMMA WriterGoes ==
  ASSUME Inv, Inv', WriterStep
  PROVE  /\ Writing("recv") => writer' \in {"write", "close"}
         /\ Writing("write") /\ WriteLost => writer' = "close"
         /\ Writing("close") => InClose' \/ Closed'
         /\ Writing("closing") => Closed'
BY DEF Inv, IInv, TypeOK, Closing, Writing, InClose, Closed, WriteLost, WriterStep, Receive,
       WriteMessage, PingFails, SendClosed, WriterCloses, CloseConn, CloseDone, closeVars, socketVars

Live == FairSpec /\ []StepsAreEnabled

(* Whoever is in close() leaves it.                                        *)
LEMMA CloseEnds == Live => (InClose ~> Closed)
<1>1. Inv /\ InClose => Reading("closing") \/ Writing("closing")
  BY DEF Inv, IInv, TypeOK, InClose, Reading, Writing
<1>2. /\ Inv /\ Inv' /\ Reading("closing") /\ [Next]_vars => Reading("closing")' \/ Closed'
      /\ Inv /\ Inv' /\ Reading("closing") /\ <<ReaderGoesOn>>_vars => Closed'
  BY OthersLeaveReader, ReaderGoes DEF ReaderGoesOn, Reading, ReadMessage
<1>3. /\ Inv /\ Inv' /\ Writing("closing") /\ [Next]_vars => Writing("closing")' \/ Closed'
      /\ Inv /\ Inv' /\ Writing("closing") /\ <<WriterGoesOn>>_vars => Closed'
  BY OthersLeaveWriter, WriterGoes DEF WriterGoesOn, Writing
<1>4. /\ Inv /\ StepsAreEnabled /\ Reading("closing") => ENABLED <<ReaderGoesOn>>_vars
      /\ Inv /\ StepsAreEnabled /\ Writing("closing") => ENABLED <<WriterGoesOn>>_vars
  BY DEF StepsAreEnabled, ReaderCan, WriterCan, MayClose, Reading, Writing, Closed
<1> QED
  BY <1>1, <1>2, <1>3, <1>4, LivingInvariant, PTL DEF Live, FairSpec, Spec, Fairness

(* A callback that writes comes out of its Write.                          *)
LEMMA BeginsBlocked ==
  ASSUME IInv, NEW g \in Writers, BeginSend(g), ~panicked'
  PROVE  Blocked(g)'
<1>1. sendq \in Seq(Writers) /\ sendq' = Append(sendq, g)
  BY DEF IInv, TypeOK, BeginSend
<1> QED
  BY <1>1, Pushed DEF Blocked

LEMMA LeavesBlocked ==
  ASSUME IInv, NEW g \in Writers, Blocked(g), [Next]_vars
  PROVE  Blocked(g)' \/ g \notin Inside'
<1>0. sendq \in Seq(Writers) /\ g \notin passed /\ g \in Inside
  BY DEF IInv, TypeOK, Inside
<1>1. CASE Receive
  BY <1>0, <1>1 DEF Receive, Inside
<1>2. ASSUME NEW h \in Writers, BeginSend(h) PROVE Blocked(g)'
  <2>1. sendq' = sendq \/ sendq' = Append(sendq, h)
    BY <1>2 DEF BeginSend
  <2> QED
    BY <1>0, <2>1, Pushed DEF Blocked
<1>3. ASSUME sendq' = sendq PROVE Blocked(g)'
  BY <1>3 DEF Blocked
<1> QED
  BY <1>1, <1>2, <1>3
  DEF Next, vars, TestAlive, SendClose, WriterStep, WriteMessage, PingFails, SendClosed,
      WriterCloses, ReadMessage, ReaderStep, CallbackReturns, ReadFails, CloseSend, ReaderCloses,
      Lose, PeerCloses

Replying == Reader \in passed /\ ~Closed

LEMMA ReplyIsSent ==
  Live /\ ReaderIsServed => (TRUE ~> (Reader \notin Inside \/ Closed))
<1>1. Inv => Reader \notin Inside \/ Closed \/ Replying \/ Blocked(Reader)
  BY DEF Replying, Inside, Writers
<1>2. Inv /\ Inv' /\ Replying /\ [Next]_vars => Replying' \/ Blocked(Reader)' \/ Closed'
  <2> SUFFICES ASSUME Inv, Inv', Replying, [Next]_vars, Reader \notin passed', ~Closed'
               PROVE  Blocked(Reader)'
    BY DEF Replying
  <2>1. BeginSend(Reader)
    BY DEF Replying, Next, vars, TestAlive, BeginSend, SendClose, WriterStep, Receive, WriteMessage,
           PingFails, SendClosed, WriterCloses, ReadMessage, ReaderStep, CallbackReturns, ReadFails,
           CloseSend, ReaderCloses, Lose, PeerCloses
  <2> QED
    BY <2>1, BeginsBlocked DEF Inv, Closed, Writers
<1>3. Inv /\ Inv' /\ Replying /\ <<SenderGoesOn(Reader)>>_vars => Blocked(Reader)' \/ Closed'
  BY BeginsBlocked DEF SenderGoesOn, Inv, Closed, Writers
<1>4. StepsAreEnabled /\ Replying => ENABLED <<SenderGoesOn(Reader)>>_vars
  BY DEF StepsAreEnabled, ReplyCan, Replying, Closed
<1>5. Live => (Replying ~> (Blocked(Reader) \/ Closed))
  BY <1>2, <1>3, <1>4, LivingInvariant, PTL DEF Live, FairSpec, Spec, Fairness
<1>6. ReaderIsServed => (Blocked(Reader) ~> (~Blocked(Reader) \/ Closed))
  BY PTL DEF ReaderIsServed, Closed
<1>7. Inv /\ Blocked(Reader) /\ [Next]_vars => Blocked(Reader)' \/ (Reader \notin Inside)'
  BY LeavesBlocked DEF Inv, Writers
<1> HIDE DEF Replying
<1> QED
  BY <1>1, <1>5, <1>6, <1>7, LivingInvariant, PTL DEF Live, FairSpec, Spec

LEMMA ReaderEnds == Live /\ ReaderIsServed => (ReadLost ~> Closed)
<1> DEFINE At(p) == ReadLost /\ Reading(p)
           Served == Reader \notin Inside \/ Closed
<1>1. Inv /\ ReadLost => \/ Closed \/ At("call") \/ At("read") \/ At("finish") \/ At("close")
                         \/ At("closing")
  BY DEF Inv, EndsClosed, IInv, TypeOK, Closing, Reading, Closed
<1>2. /\ Inv /\ Inv' /\ At("call") /\ [Next]_vars => At("call")' \/ At("read")' \/ Closed'
      /\ Inv /\ Inv' /\ At("read") /\ [Next]_vars => At("read")' \/ At("finish")' \/ Closed'
      /\ Inv /\ Inv' /\ At("finish") /\ [Next]_vars => At("finish")' \/ At("close")' \/ Closed'
      /\ Inv /\ Inv' /\ At("close") /\ [Next]_vars => At("close")' \/ InClose' \/ Closed'
      /\ Inv /\ Inv' /\ At("closing") /\ [Next]_vars => At("closing")' \/ Closed'
  BY LostStays, OthersLeaveReader, ReaderGoes DEF Reading, ReadMessage, ReadLost, ReadBroken
<1>3. /\ Inv /\ Inv' /\ At("call") /\ <<CallbackEnds>>_vars => At("read")' \/ Closed'
      /\ Inv /\ Inv' /\ At("read") /\ <<ReaderGoesOn>>_vars => At("finish")' \/ Closed'
      /\ Inv /\ Inv' /\ At("finish") /\ <<ReaderGoesOn>>_vars => At("close")' \/ Closed'
      /\ Inv /\ Inv' /\ At("close") /\ <<ReaderGoesOn>>_vars => InClose' \/ Closed'
  BY LostStays, ReaderGoes DEF ReaderGoesOn, CallbackEnds, ReaderStep, Reading, Next
<1>4. /\ Inv /\ StepsAreEnabled /\ At("call") /\ Served => ENABLED <<CallbackEnds>>_vars
      /\ Inv /\ StepsAreEnabled /\ At("read") => ENABLED <<ReaderGoesOn>>_vars
      /\ Inv /\ StepsAreEnabled /\ At("finish") => ENABLED <<ReaderGoesOn>>_vars
      /\ Inv /\ StepsAreEnabled /\ At("close") => InClose \/ ENABLED <<ReaderGoesOn>>_vars
  BY DEF StepsAreEnabled, ReaderCan, CallbackCan, MayClose, Reading, ReadLost, ReadBroken, InClose,
         Closed
<1>5. Inv /\ At("closing") => InClose
  BY DEF Inv, IInv, TypeOK, Reading, InClose
<1>6. Live /\ ReaderIsServed => (At("call") ~> Served)
  BY ReplyIsSent, PTL DEF Served
<1> HIDE DEF At, Served
<1>7. Live => /\ (At("read") ~> (At("finish") \/ Closed))
              /\ (At("finish") ~> (At("close") \/ Closed))
              /\ (At("close") ~> (InClose \/ Closed))
  BY <1>2, <1>3, <1>4, LivingInvariant, PTL DEF Live, FairSpec, Spec, Fairness
<1>8. Live /\ ReaderIsServed => (At("call") ~> (At("read") \/ Closed))
  BY <1>2, <1>3, <1>4, <1>6, LivingInvariant, PTL DEF Live, FairSpec, Spec, Fairness, Served
<1> QED
  BY <1>1, <1>5, <1>7, <1>8, CloseEnds, LivingInvariant, PTL DEF Live, FairSpec

LEMMA WriterEnds == Live => (WriteLost ~> Closed)
<1> DEFINE At(p) == WriteLost /\ Writing(p)
<1>1. Inv /\ WriteLost => \/ Closed \/ At("recv") \/ At("write") \/ At("close") \/ At("closing")
  BY DEF Inv, EndsClosed, IInv, TypeOK, Closing, Writing, Closed
<1>2. /\ Inv /\ Inv' /\ At("recv") /\ [Next]_vars =>
           At("recv")' \/ At("write")' \/ At("close")' \/ Closed'
      /\ Inv /\ Inv' /\ At("write") /\ [Next]_vars => At("write")' \/ At("close")' \/ Closed'
      /\ Inv /\ Inv' /\ At("close") /\ [Next]_vars => At("close")' \/ InClose' \/ Closed'
  BY LostStays, OthersLeaveWriter, WriterGoes DEF Writing
<1>3. /\ Inv /\ Inv' /\ At("recv") /\ <<WriterGoesOn>>_vars =>
           At("write")' \/ At("close")' \/ Closed'
      /\ Inv /\ Inv' /\ At("write") /\ <<WriterGoesOn>>_vars => At("close")' \/ Closed'
      /\ Inv /\ Inv' /\ At("close") /\ <<WriterGoesOn>>_vars => InClose' \/ Closed'
  BY LostStays, WriterGoes DEF WriterGoesOn, Writing, Next
<1>4. /\ Inv /\ StepsAreEnabled /\ At("recv") => ENABLED <<WriterGoesOn>>_vars
      /\ Inv /\ StepsAreEnabled /\ At("write") => ENABLED <<WriterGoesOn>>_vars
      /\ Inv /\ StepsAreEnabled /\ At("close") => InClose \/ ENABLED <<WriterGoesOn>>_vars
  BY DEF StepsAreEnabled, WriterCan, MayClose, Writing, WriteLost, WriteBroken, InClose, Closed
<1>5. Inv /\ At("closing") => InClose
  BY DEF Inv, IInv, TypeOK, Writing, InClose
<1> HIDE DEF At
<1>6. Live => /\ (At("recv") ~> (At("write") \/ At("close") \/ Closed))
              /\ (At("write") ~> (At("close") \/ Closed))
              /\ (At("close") ~> (InClose \/ Closed))
  BY <1>2, <1>3, <1>4, LivingInvariant, PTL DEF Live, FairSpec, Spec, Fairness
<1> QED
  BY <1>1, <1>5, <1>6, CloseEnds, LivingInvariant, PTL DEF Live, FairSpec

(* A connection that is lost, that the peer has closed, or that the        *)
(* server's end has asked to close ends, if the reader is served in its    *)
(* turn when its callback writes.                                          *)
THEOREM LostConnectionsEnd == FairSpec /\ []StepsAreEnabled /\ ReaderIsServed => EndsWhenLost
<1>1. Ending => ReadLost \/ WriteLost
  BY DEF Ending, ReadLost, WriteLost
<1> QED
  BY <1>1, ReaderEnds, WriterEnds, PTL DEF Live, EndsWhenLost, Closed

(* A reader whose callback does not write is never in a Write.             *)
LEMMA SilentReaderIsFree ==
  ASSUME ~ReaderWrites, IInv, Reader \notin Inside, [Next]_vars
  PROVE  (Reader \notin Inside)'
<1>0. sendq \in Seq(Writers) /\ Reader \notin passed /\ ~Blocked(Reader)
  BY DEF IInv, TypeOK, Inside, Writers
<1>1. CASE Receive
  <2>1. sendq # <<>> /\ sendq' = Tail(sendq) /\ passed' = passed
    BY <1>1 DEF Receive
  <2> QED
    BY <1>0, <2>1, Popped DEF Inside, Blocked
<1>2. ASSUME NEW g \in Writers, BeginSend(g) PROVE (Reader \notin Inside)'
  <2>1. /\ g # Reader /\ passed' \subseteq passed
        /\ sendq' = sendq \/ sendq' = Append(sendq, g)
    BY <1>0, <1>2 DEF BeginSend
  <2> QED
    BY <1>0, <2>1, Pushed DEF Inside, Blocked
<1>3. ASSUME NEW g \in Writers, TestAlive(g) PROVE (Reader \notin Inside)'
  BY <1>0, <1>3 DEF TestAlive, Inside, Blocked
<1>4. ASSUME passed' = passed, sendq' = sendq PROVE (Reader \notin Inside)'
  BY <1>0, <1>4 DEF Inside, Blocked
<1> QED
  BY <1>1, <1>2, <1>3, <1>4
  DEF Next, vars, closeVars, socketVars, SendClose, WriterStep, WriteMessage, PingFails, SendClosed,
      WriterCloses, ReadMessage, ReaderStep, CallbackReturns, ReadFails, CloseSend, ReaderCloses,
      Lose, PeerCloses

(* A lost connection whose callback does not write to it, as that of the   *)
(* coordinator for its workers (coordinator/worker.go: HandleRequests),    *)
(* ends, however many goroutines write to it.                              *)
THEOREM SilentConnectionsEnd ==
  ASSUME ~ReaderWrites
  PROVE  FairSpec /\ []StepsAreEnabled => EndsWhenLost
<1>1. Init => Reader \notin Inside
  BY DEF Init, Inside, Blocked
<1>2. IInv /\ Reader \notin Inside /\ [Next]_vars => (Reader \notin Inside)'
  BY SilentReaderIsFree
<1>0. Reader \notin Inside => ~Blocked(Reader)
  BY DEF Inside, Writers
<1>3. FairSpec => ReaderIsServed
  BY <1>0, <1>1, <1>2, Invariant, PTL DEF FairSpec, Spec, ReaderIsServed
<1> QED
  BY <1>3, LostConnectionsEnd, PTL
=============================================================================
