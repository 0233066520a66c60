--------------------------- MODULE WsConnection ---------------------------
(***************************************************************************)
(* One end of a websocket (pkg/network/websocket/websocket.go), after      *)
(* Listen.                                                                 *)
(*                                                                         *)
(* The reader goroutine hands every message to a callback; the writer      *)
(* goroutine takes messages from an unbuffered channel, which any          *)
(* goroutine that calls Write feeds.  Either of the two may find the       *)
(* connection broken first; each then runs close(), and the reader also    *)
(* closes the channel the writer, and others, use.  Close() only sends a   *)
(* close frame: the connection ends when the reader or the writer fails.   *)
(*                                                                         *)
(* A silent peer is a lost one: the read deadline makes an error of it.    *)
(* A write deadline bounds every write.  alive is a plain field: a load    *)
(* sees the value of the moment, and Write tests it before it sends, with  *)
(* nothing that holds close() up in between.  Sending on a closed channel  *)
(* is a panic of the whole process.                                        *)
(***************************************************************************)
EXTENDS Naturals, Sequences

CONSTANTS Sender,        \* goroutines that write, beside the reader
          Reader,        \* the reader, when its callback writes
          PingPong,      \* the server's end: it pings
          ReaderWrites   \* whether the callback writes to this connection

ASSUME ReaderAssumption == Reader \notin Sender
ASSUME FlagAssumption == PingPong \in BOOLEAN /\ ReaderWrites \in BOOLEAN

Writers == Sender \cup {Reader}

VARIABLES
  alive,       \* Connection.alive
  send,        \* Connection.send: "open" or "closed"
  passed,      \* the goroutines that saw alive and are not yet in their send
  sendq,       \* the goroutines blocked in a send, in the channel's order
  panicked,    \* a goroutine was blocked in, or began, a send when it closed
  done,        \* how often Connection.done was closed
  once,        \* Connection.once: "no", "run" (in it), "done"
  conn,        \* the socket: "open", or "closed" by close()
  net,         \* "up", "down": the peer or the way to it is lost
  closeSent,   \* a close frame was written: every later write fails
  peerClosed,  \* a close frame of the peer is there to be read
  reader,      \* the reader: "read", "call", "finish", "close", "closing", "end"
  writer       \* the writer: "recv", "write", "close", "closing", "end"

socketVars == <<conn, net, closeSent, peerClosed>>
closeVars == <<alive, done, once>>
vars == <<alive, send, passed, sendq, panicked, done, once, conn, net, closeSent,
          peerClosed, reader, writer>>

ReadBroken == net = "down" \/ conn = "closed" \/ peerClosed
WriteBroken == net = "down" \/ conn = "closed" \/ closeSent

Blocked(g) == \E i \in DOMAIN sendq : sendq[i] = g

(* The goroutines that are in a Write, behind its test.                    *)
Inside == {g \in Writers : g \in passed \/ Blocked(g)}

-----------------------------------------------------------------------------
(* Connection.Write: a goroutine that sees alive will send; else it        *)
(* returns.                                                                *)
TestAlive(g) ==
  /\ alive /\ g \notin Inside
  /\ g = Reader => ReaderWrites /\ reader = "call"
  /\ passed' = passed \cup {g}
  /\ UNCHANGED <<closeVars, send, sendq, panicked, socketVars, reader, writer>>

(* Whatever has become of the connection since.                            *)
BeginSend(g) ==
  /\ g \in passed
  /\ passed' = passed \ {g}
  /\ IF send = "open"
       THEN sendq' = Append(sendq, g) /\ UNCHANGED panicked
       ELSE panicked' = TRUE /\ UNCHANGED sendq
  /\ UNCHANGED <<closeVars, send, socketVars, reader, writer>>

(* Connection.Close                                                        *)
SendClose ==
  /\ alive /\ ~closeSent
  /\ closeSent' = TRUE
  /\ UNCHANGED <<closeVars, send, passed, sendq, panicked, conn, net, peerClosed, reader, writer>>

-----------------------------------------------------------------------------
(* Connection.close, in the goroutine g that is there first: a second one  *)
(* waits for it and does nothing.                                          *)

(* Mutant: done is closed before alive is cleared.                         *)
CloseConnLast(g) ==
  /\ g = "close" /\ once = "no"
  /\ once' = "run" /\ done' = done + 1
  /\ UNCHANGED <<alive, conn>>

(* Mutant: nothing makes the second one stop.                              *)
CloseConnAgain(g) ==
  /\ g = "close" /\ once # "run"
  /\ once' = "run" /\ alive' = FALSE /\ conn' = "closed"
  /\ UNCHANGED done

CloseConn(g) ==
  /\ g = "close" /\ once = "no"
  /\ once' = "run" /\ alive' = FALSE /\ conn' = "closed"
  /\ UNCHANGED done

CloseDone(g) ==
  /\ g = "closing"
  /\ once' = "done" /\ done' = done + 1 /\ alive' = FALSE /\ conn' = "closed"

-----------------------------------------------------------------------------
(* The writer goroutine                                                    *)

(* The head of the blocked goroutines hands its message over.              *)
Receive ==
  /\ writer = "recv" /\ sendq # <<>>
  /\ sendq' = Tail(sendq)
  /\ writer' = "write"
  /\ UNCHANGED <<closeVars, send, passed, panicked, socketVars, reader>>

(* On a lost network a write may still succeed, into a buffer.             *)
WriteMessage ==
  /\ writer = "write"
  /\ \/ conn = "open" /\ ~closeSent /\ writer' = "recv"
     \/ WriteBroken /\ writer' = "close"
  /\ UNCHANGED <<closeVars, send, passed, sendq, panicked, socketVars, reader>>

(* Mutant: the end that pings never does.                                  *)
PingNever ==
  /\ FALSE
  /\ writer' = "close"
  /\ UNCHANGED <<closeVars, send, passed, sendq, panicked, socketVars, reader>>

(* A ping that fails ends the writer; one that does not changes nothing.   *)
PingFails ==
  /\ PingPong /\ writer = "recv" /\ WriteBroken
  /\ writer' = "close"
  /\ UNCHANGED <<closeVars, send, passed, sendq, panicked, socketVars, reader>>

(* The channel is closed: the server's end says so to the peer.            *)
SendClosed ==
  /\ writer = "recv" /\ send = "closed"
  /\ writer' = "close"
  /\ closeSent' = (closeSent \/ PingPong)
  /\ UNCHANGED <<closeVars, send, passed, sendq, panicked, conn, net, peerClosed, reader>>

WriterCloses ==
  \/ /\ CloseConn(writer)
     /\ writer' = "closing"
     /\ UNCHANGED <<send, passed, sendq, panicked, net, closeSent, peerClosed, reader>>
  \/ /\ CloseDone(writer)
     /\ writer' = "end"
     /\ UNCHANGED <<send, passed, sendq, panicked, net, closeSent, peerClosed, reader>>
  \/ /\ writer = "close" /\ once = "done"
     /\ writer' = "end"
     /\ UNCHANGED <<closeVars, send, passed, sendq, panicked, socketVars, reader>>

-----------------------------------------------------------------------------
(* The reader goroutine                                                    *)

ReadMessage ==
  /\ reader = "read" /\ ~ReadBroken
  /\ reader' = "call"
  /\ UNCHANGED <<closeVars, send, passed, sendq, panicked, socketVars, writer>>

CallbackReturns ==
  /\ reader = "call" /\ Reader \notin Inside
  /\ reader' = "read"
  /\ UNCHANGED <<closeVars, send, passed, sendq, panicked, socketVars, writer>>

ReadFails ==
  /\ reader = "read" /\ ReadBroken
  /\ reader' = "finish"
  /\ UNCHANGED <<closeVars, send, passed, sendq, panicked, socketVars, writer>>

(* Mutant: the reader leaves the channel open.                             *)
KeepSend ==
  /\ reader = "finish"
  /\ reader' = "close"
  /\ UNCHANGED <<closeVars, send, passed, sendq, panicked, socketVars, writer>>

(* Whoever is blocked in the channel panics.                               *)
CloseSend ==
  /\ reader = "finish"
  /\ send' = "closed"
  /\ panicked' = (sendq # <<>>)
  /\ reader' = "close"
  /\ UNCHANGED <<closeVars, passed, sendq, socketVars, writer>>

ReaderCloses ==
  \/ /\ CloseConn(reader)
     /\ reader' = "closing"
     /\ UNCHANGED <<send, passed, sendq, panicked, net, closeSent, peerClosed, writer>>
  \/ /\ CloseDone(reader)
     /\ reader' = "end"
     /\ UNCHANGED <<send, passed, sendq, panicked, net, closeSent, peerClosed, writer>>
  \/ /\ reader = "close" /\ once = "done"
     /\ reader' = "end"
     /\ UNCHANGED <<closeVars, send, passed, sendq, panicked, socketVars, writer>>

-----------------------------------------------------------------------------
(* The network and the peer                                                *)

Lose ==
  /\ net = "up" /\ net' = "down"
  /\ UNCHANGED <<closeVars, send, passed, sendq, panicked, conn, closeSent, peerClosed, reader, writer>>

PeerCloses ==
  /\ net = "up" /\ ~peerClosed /\ peerClosed' = TRUE
  /\ UNCHANGED <<closeVars, send, passed, sendq, panicked, conn, net, closeSent, reader, writer>>

-----------------------------------------------------------------------------
Init ==
  /\ alive = TRUE /\ send = "open" /\ passed = {} /\ sendq = <<>> /\ panicked = FALSE
  /\ done = 0 /\ once = "no"
  /\ conn = "open" /\ net = "up" /\ closeSent = FALSE /\ peerClosed = FALSE
  /\ reader = "read" /\ writer = "recv"

WriterStep == Receive \/ WriteMessage \/ PingFails \/ SendClosed \/ WriterCloses
ReaderStep == CallbackReturns \/ ReadFails \/ CloseSend \/ ReaderCloses

Next ==
  /\ ~panicked
  /\ \/ \E g \in Writers : TestAlive(g) \/ BeginSend(g)
     \/ SendClose
     \/ WriterStep
     \/ ReadMessage \/ ReaderStep
     \/ Lose \/ PeerCloses

Spec == Init /\ [][Next]_vars

(* The scheduler runs both goroutines and those that are in a Write, the   *)
(* writer's ticker ticks and its writes end by their deadline; a callback  *)
(* sends a few messages and returns, if they are taken.  Nothing is owed   *)
(* by the peer, and nobody has to write.                                   *)
WriterGoesOn == ~panicked /\ WriterStep
ReaderGoesOn == ~panicked /\ ReaderStep
CallbackEnds == ~panicked /\ CallbackReturns
SenderGoesOn(g) == ~panicked /\ BeginSend(g)

Fairness ==
  /\ WF_vars(WriterGoesOn)
  /\ WF_vars(ReaderGoesOn)
  /\ SF_vars(CallbackEnds)
  /\ \A g \in Sender : WF_vars(SenderGoesOn(g))
  /\ WF_vars(SenderGoesOn(Reader))

FairSpec == Spec /\ Fairness

-----------------------------------------------------------------------------
TypeOK ==
  /\ alive \in BOOLEAN
  /\ send = (IF reader \in {"close", "closing", "end"} THEN "closed" ELSE "open")
  /\ passed \subseteq Writers /\ \A g \in passed : ~Blocked(g)
  /\ sendq \in Seq(Writers)
  /\ \A i, j \in DOMAIN sendq : sendq[i] = sendq[j] => i = j
  /\ panicked \in BOOLEAN
  /\ done \in Nat
  /\ once \in {"no", "run", "done"}
  /\ once = "run" <=> "closing" \in {reader, writer}
  /\ conn \in {"open", "closed"}
  /\ net \in {"up", "down"}
  /\ closeSent \in BOOLEAN /\ peerClosed \in BOOLEAN
  /\ reader \in {"read", "call", "finish", "close", "closing", "end"}
  /\ writer \in {"recv", "write", "close", "closing", "end"}

(* done, which the goroutine that owns the connection waits for, is closed *)
(* once, although the reader and the writer may both find the connection   *)
(* broken (websocket.go: close).                                           *)
DoneOnce == done <= 1

(* A Write begun after done was closed returns at once: the goroutines     *)
(* behind its test can only become fewer, while those that passed it       *)
(* before may still reach the channel, and block in it or panic            *)
(* (websocket.go: close, Write).                                           *)
NoSendAfterDone == [][done > 0 => Inside' \subseteq Inside]_vars

(* A connection that is lost, that the peer has closed, or that the        *)
(* server's end has asked to close ends: done is closed, even if the peer  *)
(* does not answer the close frame and the callback of the reader is busy  *)
(* (websocket.go: reader, writer).                                         *)
Ending == net = "down" \/ peerClosed \/ (PingPong /\ closeSent)
EndsWhenLost == Ending ~> (done > 0 \/ panicked)

(* No Write goes on for ever: the message is taken, or the channel is      *)
(* closed under it, unless the reader itself is blocked in a Write of its  *)
(* own callback, whose message nobody takes once the writer has ended      *)
(* (websocket.go: Write, reader, writer).                                  *)
WriteEnds ==
  \A g \in Sender : g \in Inside ~> (g \notin Inside \/ panicked \/ Blocked(Reader))

(* The reader's own messages are taken, in their turn, while there is a    *)
(* writer: what EndsWhenLost needs of the queue, whose length is not       *)
(* bounded.                                                                *)
ReaderIsServed == Blocked(Reader) ~> (~Blocked(Reader) \/ done > 0 \/ panicked)

(* What the goroutines need for their next steps.                          *)
MayClose(g) == g = "closing" \/ (g = "close" /\ once # "run")

WriterCan ==
  /\ ~panicked
  /\ \/ writer = "recv" /\ (sendq # <<>> \/ send = "closed" \/ (PingPong /\ WriteBroken))
     \/ writer = "write" \/ MayClose(writer)

ReaderCan ==
  /\ ~panicked
  /\ (reader = "read" /\ ReadBroken) \/ reader = "finish" \/ MayClose(reader)

CallbackCan == ~panicked /\ reader = "call" /\ Reader \notin Inside
ReplyCan == ~panicked /\ Reader \in passed

(* Whoever has it can go on.  The theorem about EndsWhenLost takes this    *)
(* from TLC.                                                               *)
StepsAreEnabled ==
  /\ WriterCan => ENABLED <<WriterGoesOn>>_vars
  /\ ReaderCan => ENABLED <<ReaderGoesOn>>_vars
  /\ CallbackCan => ENABLED <<CallbackEnds>>_vars
  /\ ReplyCan => ENABLED <<SenderGoesOn(Reader)>>_vars
=============================================================================
