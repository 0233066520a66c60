------------------------------- MODULE Rpc --------------------------------
(***************************************************************************)
(* Blocking calls over a websocket (pkg/com/net.go, RPC).                  *)
(*                                                                         *)
(* Goroutines put a request under a fresh id in the map of calls, write it *)
(* and wait for its done channel or a timeout.  The goroutine that reads   *)
(* the websocket pops the request an answer names, fills it and closes its *)
(* channel; a packet that answers no request goes to the Handler.  The     *)
(* goroutine that ends the connection runs Cleanup, which cancels what is  *)
(* in the map while the reader may still be running (SocketClient          *)
(* Disconnect, com.go).                                                    *)
(*                                                                         *)
(* A call is written to an unbuffered channel (WsConnection models it in   *)
(* detail) which the writer goroutine of the connection takes from: until  *)
(* it takes the packet, the caller has no timeout.  Once the writer has    *)
(* ended, the channel is deserted until the reader closes it; whoever is   *)
(* in a send then, or has passed the test before it, panics.  The Handler  *)
(* runs in the reader goroutine and may write a packet to the same         *)
(* connection.                                                             *)
(*                                                                         *)
(* A call id is used once (NewUid).  The peer serves one request after     *)
(* another, and may answer a request, late or never.  A timeout may strike *)
(* at any moment.  Closing a channel twice is a panic of the whole process.*)
(***************************************************************************)
EXTENDS Naturals, Sequences

CONSTANTS Call,       \* ids of the calls
          NilUid,     \* the id of a packet that answers nothing
          MaxEvents   \* how many such packets the peer sends

ASSUME NilAssumption == NilUid \notin Call
ASSUME EventsAssumption == MaxEvents \in Nat

VARIABLES
  pc,        \* where each call is: "idle", "put", "writing" (in the send,
             \* or behind the test before it), "waiting", "returned"
  calls,     \* RPC.calls: the ids in the map
  err,       \* request.err
  response,  \* request.response: the call it answers
  closed,    \* how often request.done was closed
  result,    \* what a returned call gave its caller
  reader,    \* the reader: "idle", on the way from Pop to close, in the
             \* "handler", or "writing" a packet of the Handler
  popped,    \* the request it popped
  cleanup,   \* Cleanup: "no", "run" (it holds the read lock), "done"
  left,      \* the tasks it still has to visit
  visited,   \* the task it has given its error and not yet closed
  requests,  \* packets to the peer
  answers,   \* packets from the peer: the id each one carries
  handled,   \* ids of the packets given to the Handler
  events,    \* packets without an id sent so far
  link,      \* the send channel: "open", "deserted" (its writer ended) or
             \* "closed" (its reader ended)
  alive      \* Connection.alive

callerVars == <<pc, result>>
taskVars == <<err, response, closed>>
readerVars == <<reader, popped, handled>>
cleanVars == <<cleanup, left, visited>>
wireVars == <<requests, answers, events>>
linkVars == <<link, alive>>
vars == <<pc, calls, err, response, closed, result, reader, popped,
          cleanup, left, visited, requests, answers, handled, events, link, alive>>

(* A channel is closed twice, or a send meets a closed channel.            *)
Panicked ==
  \/ \E c \in Call : closed[c] > 1
  \/ link = "closed" /\ \E c \in Call : pc[c] = "writing"

(* Put and Pop take the write lock, and Cleanup iterates under the read    *)
(* lock.                                                                   *)
Unlocked == cleanup # "run"

Close(c) == closed' = [closed EXCEPT ![c] = @ + 1]

-----------------------------------------------------------------------------
(* RPC.Call                                                                *)

Put(c) ==
  /\ pc[c] = "idle" /\ Unlocked
  /\ pc' = [pc EXCEPT ![c] = "put"]
  /\ calls' = calls \cup {c}
  /\ UNCHANGED <<taskVars, result, readerVars, cleanVars, wireVars, linkVars>>

(* The connection's Write drops the packet unless it is alive.             *)
Write(c) ==
  /\ pc[c] = "put"
  /\ pc' = [pc EXCEPT ![c] = IF alive THEN "writing" ELSE "waiting"]
  /\ UNCHANGED <<calls, taskVars, result, readerVars, cleanVars, wireVars, linkVars>>

(* The writer goroutine takes the packet; only now the timer is started.   *)
Take(c) ==
  /\ pc[c] = "writing" /\ link = "open"
  /\ pc' = [pc EXCEPT ![c] = "waiting"]
  /\ requests' = Append(requests, c)
  /\ UNCHANGED <<calls, taskVars, result, readerVars, cleanVars, answers, events, linkVars>>

Return(c, e) ==
  /\ pc[c] = "waiting"
  /\ pc' = [pc EXCEPT ![c] = "returned"]
  /\ err' = [err EXCEPT ![c] = e]
  /\ result' = [result EXCEPT ![c] = [err |-> e, response |-> response[c]]]

Wake(c) ==
  /\ closed[c] > 0
  /\ Return(c, err[c])
  /\ UNCHANGED <<calls, response, closed, readerVars, cleanVars, wireVars, linkVars>>

(* Mutant: the call that timed out is taken from the map.                  *)
TimeOutAndForget(c) ==
  /\ Return(c, "timeout")
  /\ calls' = calls \ {c}
  /\ UNCHANGED <<response, closed, readerVars, cleanVars, wireVars, linkVars>>

(* Mutant: there is no timeout.                                            *)
TimeOutNever(c) == FALSE /\ Return(c, "timeout")

(* The request stays in the map.                                           *)
TimeOut(c) ==
  /\ Return(c, "timeout")
  /\ UNCHANGED <<calls, response, closed, readerVars, cleanVars, wireVars, linkVars>>

-----------------------------------------------------------------------------
(* RPC.handleMessage, in the reader goroutine                              *)

(* Mutant: Pop does not wait for the lock.                                 *)
ReadUnlocked ==
  LET c == Head(answers) IN
  /\ reader = "idle" /\ link # "closed" /\ answers # <<>> /\ c \in calls
  /\ answers' = Tail(answers) /\ calls' = calls \ {c}
  /\ reader' = "fill" /\ popped' = c
  /\ UNCHANGED <<callerVars, taskVars, handled, cleanVars, requests, events, linkVars>>

(* Mutant: handleMessage does not look whether Pop found a request.        *)
ReadUnchecked ==
  LET c == Head(answers) IN
  /\ reader = "idle" /\ link # "closed" /\ answers # <<>> /\ Unlocked
  /\ answers' = Tail(answers) /\ calls' = calls \ {c}
  /\ reader' = "fill" /\ popped' = c
  /\ UNCHANGED <<callerVars, taskVars, handled, cleanVars, requests, events, linkVars>>

Read ==
  LET c == Head(answers) IN
  /\ reader = "idle" /\ link # "closed" /\ answers # <<>> /\ Unlocked
  /\ answers' = Tail(answers)
  /\ IF c \in calls
       THEN /\ reader' = "fill" /\ popped' = c
            /\ calls' = calls \ {c}
            /\ UNCHANGED handled
       ELSE /\ reader' = "handler" /\ handled' = handled \cup {c}
            /\ UNCHANGED <<calls, popped>>
  /\ UNCHANGED <<callerVars, taskVars, cleanVars, requests, events, linkVars>>

(* Mutant: the caller is woken before the response is there.               *)
FillAfterClose ==
  /\ reader = "fill"
  /\ Close(popped)
  /\ reader' = "close"
  /\ UNCHANGED <<callerVars, calls, err, response, popped, handled, cleanVars, wireVars, linkVars>>

Fill ==
  /\ reader = "fill"
  /\ response' = [response EXCEPT ![popped] = popped]
  /\ reader' = "close"
  /\ UNCHANGED <<callerVars, calls, err, closed, popped, handled, cleanVars, wireVars, linkVars>>

Unblock ==
  /\ reader = "close"
  /\ Close(popped)
  /\ reader' = "idle" /\ popped' = NilUid
  /\ UNCHANGED <<callerVars, calls, err, response, handled, cleanVars, wireVars, linkVars>>

(* The Handler returns; a packet it wrote to a dead connection is dropped. *)
HandlerReturns ==
  /\ reader = "handler"
  /\ reader' = "idle"
  /\ UNCHANGED <<callerVars, calls, taskVars, popped, handled, cleanVars, wireVars, linkVars>>

(* The Handler answers or routes a packet on this very connection.         *)
HandlerWrites ==
  /\ reader = "handler" /\ alive
  /\ reader' = "writing"
  /\ UNCHANGED <<callerVars, calls, taskVars, popped, handled, cleanVars, wireVars, linkVars>>

(* The writer goroutine takes it.                                          *)
TakeReply ==
  /\ reader = "writing" /\ link = "open"
  /\ reader' = "idle"
  /\ UNCHANGED <<callerVars, calls, taskVars, popped, handled, cleanVars, wireVars, linkVars>>

-----------------------------------------------------------------------------
(* RPC.Cleanup, in the goroutine that ends the connection                  *)

BeginCleanup ==
  /\ cleanup = "no"
  /\ cleanup' = "run" /\ left' = calls
  /\ UNCHANGED <<callerVars, calls, taskVars, readerVars, visited, wireVars, linkVars>>

Cancel(c) ==
  /\ cleanup = "run" /\ visited = NilUid /\ c \in left
  /\ left' = left \ {c} /\ visited' = c
  /\ err' = [err EXCEPT ![c] = IF @ = "none" THEN "canceled" ELSE @]
  /\ UNCHANGED <<callerVars, calls, response, closed, readerVars, cleanup, wireVars, linkVars>>

CloseCancelled ==
  /\ cleanup = "run" /\ visited # NilUid
  /\ Close(visited)
  /\ visited' = NilUid
  /\ UNCHANGED <<callerVars, calls, err, response, readerVars, cleanup, left, wireVars, linkVars>>

EndCleanup ==
  /\ cleanup = "run" /\ visited = NilUid /\ left = {}
  /\ cleanup' = "done"
  /\ UNCHANGED <<callerVars, calls, taskVars, readerVars, left, visited, wireVars, linkVars>>

-----------------------------------------------------------------------------
(* The goroutines of the connection (websocket.go: writer, reader, close)  *)

(* The writer ends.                                                        *)
Desert ==
  /\ link = "open" /\ link' = "deserted"
  /\ UNCHANGED <<callerVars, calls, taskVars, readerVars, cleanVars, wireVars, alive>>

(* A read fails: the reader closes the channel and ends.                   *)
ReaderEnds ==
  /\ reader = "idle" /\ link # "closed"
  /\ link' = "closed"
  /\ UNCHANGED <<callerVars, calls, taskVars, readerVars, cleanVars, wireVars, alive>>

(* close(), which either of them runs last.                                *)
ClearAlive ==
  /\ alive /\ link # "open" /\ alive' = FALSE
  /\ UNCHANGED <<callerVars, calls, taskVars, readerVars, cleanVars, wireVars, link>>

-----------------------------------------------------------------------------
(* The peer                                                                *)

(* It serves a request, and answers it or not.                             *)
Serve(answer) ==
  /\ requests # <<>>
  /\ requests' = Tail(requests)
  /\ answers' = IF answer THEN Append(answers, Head(requests)) ELSE answers
  /\ UNCHANGED <<callerVars, calls, taskVars, readerVars, cleanVars, events, linkVars>>

(* It sends a packet of its own.                                           *)
Event ==
  /\ events < MaxEvents
  /\ events' = events + 1
  /\ answers' = Append(answers, NilUid)
  /\ UNCHANGED <<callerVars, calls, taskVars, readerVars, cleanVars, requests, linkVars>>

-----------------------------------------------------------------------------
Init ==
  /\ pc = [c \in Call |-> "idle"]
  /\ calls = {}
  /\ err = [c \in Call |-> "none"]
  /\ response = [c \in Call |-> NilUid]
  /\ closed = [c \in Call |-> 0]
  /\ result = [c \in Call |-> [err |-> "pending", response |-> NilUid]]
  /\ reader = "idle" /\ popped = NilUid
  /\ cleanup = "no" /\ left = {} /\ visited = NilUid
  /\ requests = <<>> /\ answers = <<>>
  /\ handled = {} /\ events = 0
  /\ link = "open" /\ alive = TRUE

Caller(c) == Put(c) \/ Write(c) \/ Take(c) \/ Wake(c) \/ TimeOut(c)
Reader == Read \/ Fill \/ Unblock \/ HandlerReturns \/ HandlerWrites \/ TakeReply
Cleaner == BeginCleanup \/ (\E c \in Call : Cancel(c)) \/ CloseCancelled \/ EndCleanup
Peer == (\E answer \in BOOLEAN : Serve(answer)) \/ Event

Link == Desert \/ ReaderEnds \/ ClearAlive

Running == (\E c \in Call : Caller(c)) \/ Reader \/ Cleaner \/ Peer \/ Link

Next == ~Panicked /\ Running

Spec == Init /\ [][Next]_vars

(* The scheduler runs a call that was made, the reader and its Handler,    *)
(* and a Cleanup that has begun; the writer, while there is one, takes     *)
(* what waits in the channel; timers fire.  The writer that ends closes    *)
(* the socket, from which finitely many packets can still be read: in one  *)
(* of its turns the reader finds the error.  The peer owes nothing.        *)
CallerStep(c) == ~Panicked /\ pc[c] # "idle" /\ Caller(c)
CallerFairness(c) == WF_vars(CallerStep(c))
ReaderGoesOn == ~Panicked /\ Reader
ReaderFails == ~Panicked /\ link = "deserted" /\ ReaderEnds

Fairness ==
  /\ \A c \in Call : CallerFairness(c)
  /\ WF_vars(ReaderGoesOn)
  /\ SF_vars(ReaderFails)
  /\ WF_vars(~Panicked /\ cleanup = "run" /\ Cleaner)

FairSpec == Spec /\ Fairness

-----------------------------------------------------------------------------
TypeOK ==
  /\ pc \in [Call -> {"idle", "put", "writing", "waiting", "returned"}]
  /\ calls \subseteq Call
  /\ err \in [Call -> {"none", "timeout", "canceled"}]
  /\ response \in [Call -> Call \cup {NilUid}]
  /\ closed \in [Call -> 0..2]
  /\ result \in [Call -> [err : {"pending", "none", "timeout", "canceled"},
                          response : Call \cup {NilUid}]]
  /\ reader \in {"idle", "fill", "close", "handler", "writing"}
  /\ popped \in (IF reader \in {"fill", "close"} THEN Call ELSE {NilUid})
  /\ cleanup \in {"no", "run", "done"}
  /\ left \subseteq Call
  /\ visited \in Call \cup {NilUid}
  /\ requests \in Seq(Call)
  /\ answers \in Seq(Call \cup {NilUid})
  /\ handled \subseteq Call \cup {NilUid}
  /\ events \in 0..MaxEvents
  /\ link \in {"open", "deserted", "closed"}
  /\ alive \in BOOLEAN /\ (~alive => link # "open")

(* A call that returns no error returns the answer to its own request: its *)
(* channel is never closed before the response, or the error of Cleanup,   *)
(* is in place (net.go: Call, handleMessage, Cleanup).                     *)
OkMeansAnswered ==
  \A c \in Call : result[c].err = "none" => result[c].response = c

(* An answer that comes too late for its call is swallowed and never taken *)
(* for a request of the peer: a call that timed out leaves its entry in    *)
(* the map for it (net.go: Call, handleMessage).                           *)
LateAnswerIsNoRequest == handled \cap Call = {}

(* A request that Cleanup is visiting, or still has to visit, is in the    *)
(* map, and the one between its error and its close was closed by nobody:  *)
(* Pop cannot come between the two (map.go: Values holds the lock).  It    *)
(* does not keep an answer from closing the channel again afterwards.      *)
CleanupOwnsItsTasks ==
  cleanup = "run" => /\ left \subseteq calls
                     /\ visited # NilUid => visited \in calls /\ closed[visited] = 0

(* The reader waits in a send of its own Handler, and nobody will take it. *)
ReaderStuck == reader = "writing" /\ link = "deserted"

(* Every call returns, whatever the peer does, however often the           *)
(* connection is cleaned up and whenever it is lost, unless the process    *)
(* has panicked or the call is caught in its send, before it has a         *)
(* timeout, on a connection whose writer has ended and whose reader waits  *)
(* in a send of its own (net.go: Call; websocket.go: Write).               *)
EveryCallReturns ==
  \A c \in Call :
    pc[c] = "put" ~> \/ pc[c] = "returned" \/ Panicked
                     \/ pc[c] = "writing" /\ ReaderStuck

(* What the goroutines need for their next steps.  The theorem about       *)
(* EveryCallReturns takes from TLC that they can take them.                *)
CallerCan(c) == ~Panicked /\ (pc[c] \in {"put", "waiting"} \/ (pc[c] = "writing" /\ link = "open"))
ReaderCan == ~Panicked /\ reader \in {"fill", "close", "handler"}
EndCan == ~Panicked /\ reader = "idle" /\ link = "deserted"

StepsAreEnabled ==
  /\ \A c \in Call : CallerCan(c) => ENABLED <<CallerStep(c)>>_vars
  /\ ReaderCan => ENABLED <<ReaderGoesOn>>_vars
  /\ EndCan => ENABLED <<ReaderFails>>_vars

(* Cleanup "drain cancels all what's left in the task queue": a request it *)
(* has finished is not completed once more, by an answer that finds it     *)
(* still in the queue and closes its channel again (net.go: Cleanup).      *)
DrainedIsOver == \A c \in Call : closed[c] <= 1
=============================================================================
