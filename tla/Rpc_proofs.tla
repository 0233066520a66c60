---------------------------- MODULE Rpc_proofs ----------------------------
(***************************************************************************)
(* The safety properties of Rpc, proved for any set of calls and any       *)
(* number of other packets.                                                *)
(*                                                                         *)
(* The argument: a call id is on the wire at most once, as a request or as *)
(* an answer, and only while its task is in the map; so the answer finds   *)
(* the task, however late it is.  A task that was popped is in the map no  *)
(* more, and the lock keeps the map still while Cleanup walks it; so a     *)
(* task Cleanup has yet to cancel was closed by nobody.  Whoever closes a  *)
(* task has filled its response or its error before.                       *)
(***************************************************************************)
EXTENDS Rpc, TLAPS

LEMMA Pushed ==
  ASSUME NEW S, NEW s \in Seq(S), NEW e \in S
  PROVE  /\ Len(s) \in Nat /\ DOMAIN s = 1..Len(s)
         /\ Append(s, e) \in Seq(S)
         /\ DOMAIN Append(s, e) = 1..(Len(s) + 1)
         /\ \A i \in 1..Len(s) : Append(s, e)[i] = s[i]
         /\ Append(s, e)[Len(s) + 1] = e
BY SMT

LEMMA Popped ==
  ASSUME NEW S, NEW s \in Seq(S), s # <<>>
  PROVE  /\ Len(s) \in Nat /\ Len(s) > 0 /\ DOMAIN s = 1..Len(s)
         /\ Head(s) = s[1] /\ Head(s) \in S
         /\ Tail(s) \in Seq(S)
         /\ DOMAIN Tail(s) = 1..(Len(s) - 1)
         /\ \A i \in 1..(Len(s) - 1) : Tail(s)[i] = s[i + 1]
BY SMT

-----------------------------------------------------------------------------
Sent == {"waiting", "returned"}

(* A call id is on the wire once, and its task is in the map.              *)
Wire ==
  /\ \A i, j \in DOMAIN requests : requests[i] = requests[j] => i = j
  /\ \A i, j \in DOMAIN answers : answers[i] = answers[j] /\ answers[i] \in Call => i = j
  /\ \A i \in DOMAIN requests, j \in DOMAIN answers : requests[i] # answers[j]
  /\ \A i \in DOMAIN requests : requests[i] \in calls /\ pc[requests[i]] \in Sent
  /\ \A i \in DOMAIN answers :
       answers[i] \in Call => answers[i] \in calls /\ pc[answers[i]] \in Sent

(* The map holds tasks of calls that were made; a popped one is not there. *)
Tasks ==
  /\ \A c \in Call : pc[c] \in {"put", "writing"} => c \in calls
  /\ \A c \in Call : pc[c] = "idle" => c \notin calls /\ closed[c] = 0
  /\ reader \in {"fill", "close"} => popped \notin calls /\ pc[popped] \in Sent

(* A task is closed with its response, or its error, in place.             *)
Answered ==
  /\ \A c \in Call : closed[c] > 0 /\ err[c] = "none" => response[c] = c
  /\ reader = "close" => response[popped] = popped
  /\ visited # NilUid => err[visited] # "none"

(* The tasks Cleanup has yet to close were closed by nobody.               *)
Owned ==
  /\ cleanup = "no" => \A c \in calls : closed[c] = 0
  /\ cleanup # "run" => visited = NilUid
  /\ cleanup = "run" => \A c \in left : closed[c] = 0 /\ c # visited

IInv == /\ TypeOK /\ Wire /\ Tasks /\ Answered /\ Owned
        /\ OkMeansAnswered /\ LateAnswerIsNoRequest /\ CleanupOwnsItsTasks

LEMMA Initially == Init => IInv
<1> SUFFICES ASSUME Init PROVE IInv
  OBVIOUS
<1> USE DEF Init
<1>1. DOMAIN requests = {} /\ DOMAIN answers = {}
  OBVIOUS
<1>2. requests \in Seq(Call) /\ answers \in Seq(Call \cup {NilUid})
  OBVIOUS
<1>3. TypeOK
  BY <1>2, EventsAssumption DEF TypeOK
<1>4. Wire
  BY <1>1 DEF Wire
<1>5. Tasks /\ Answered /\ Owned
  BY NilAssumption DEF Tasks, Answered, Owned
<1>6. OkMeansAnswered /\ LateAnswerIsNoRequest /\ CleanupOwnsItsTasks
  BY DEF OkMeansAnswered, LateAnswerIsNoRequest, CleanupOwnsItsTasks
<1> QED
  BY <1>3, <1>4, <1>5, <1>6 DEF IInv

-----------------------------------------------------------------------------
(* What a step of a caller, the reader, Cleanup or the peer keeps.         *)

LEMMA WriteKeeps ==
  ASSUME IInv, NEW c \in Call, Write(c)
  PROVE  IInv'
<1> USE DEF IInv, callerVars, taskVars, readerVars, cleanVars, wireVars, linkVars, Write
<1>1. TypeOK'
  BY DEF TypeOK
<1>2. Wire' /\ Tasks'
  BY DEF Wire, Tasks, Sent, TypeOK
<1>3. Answered' /\ Owned'
  BY DEF Answered, Owned
<1>4. OkMeansAnswered' /\ LateAnswerIsNoRequest' /\ CleanupOwnsItsTasks'
  BY DEF OkMeansAnswered, LateAnswerIsNoRequest, CleanupOwnsItsTasks
<1> QED
  BY <1>1, <1>2, <1>3, <1>4

LEMMA TakeKeeps ==
  ASSUME IInv, NEW c \in Call, Take(c)
  PROVE  IInv'
<1> USE DEF IInv, callerVars, taskVars, readerVars, cleanVars, wireVars, linkVars
<1>1. /\ requests \in Seq(Call) /\ requests' = Append(requests, c)
      /\ pc' = [pc EXCEPT ![c] = "waiting"] /\ pc[c] = "writing" /\ c \in calls
      /\ UNCHANGED <<answers, calls>>
  BY DEF Take, TypeOK, Tasks
<1>2. TypeOK'
  BY <1>1, Pushed DEF TypeOK, Take
<1>3. \A i \in DOMAIN requests : requests[i] # c
  BY <1>1 DEF Wire, Sent
<1>4. \A i \in DOMAIN answers : answers[i] # c
  BY <1>1 DEF Wire, Sent
<1>5. Wire'
  BY <1>1, <1>3, <1>4, Pushed DEF Wire, Sent, TypeOK
<1>6. Tasks' /\ Answered' /\ Owned'
  BY <1>1 DEF Tasks, Answered, Owned, Sent, TypeOK, Take
<1>7. OkMeansAnswered' /\ LateAnswerIsNoRequest' /\ CleanupOwnsItsTasks'
  BY DEF OkMeansAnswered, LateAnswerIsNoRequest, CleanupOwnsItsTasks, Take
<1> QED
  BY <1>2, <1>5, <1>6, <1>7

LEMMA PutKeeps ==
  ASSUME IInv, NEW c \in Call, Put(c)
  PROVE  IInv'
<1> USE DEF IInv, callerVars, taskVars, readerVars, cleanVars, wireVars, linkVars, Put
<1>1. TypeOK'
  BY DEF TypeOK
<1>2. Wire'
  <2>1. /\ \A i \in DOMAIN requests : requests[i] # c
        /\ \A i \in DOMAIN answers : answers[i] # c
    BY DEF Wire, Sent
  <2> QED
    BY <2>1 DEF Wire, Sent, TypeOK
<1>3. Tasks' /\ Answered' /\ Owned'
  BY DEF Tasks, Answered, Owned, Sent, TypeOK, Unlocked
<1>4. OkMeansAnswered' /\ LateAnswerIsNoRequest' /\ CleanupOwnsItsTasks'
  BY DEF OkMeansAnswered, LateAnswerIsNoRequest, CleanupOwnsItsTasks
<1> QED
  BY <1>1, <1>2, <1>3, <1>4

(* A call returns with an error, or with none and its own answer.          *)
LEMMA ReturnKeeps ==
  ASSUME IInv, NEW c \in Call, Wake(c) \/ TimeOut(c)
  PROVE  IInv'
<1> USE DEF IInv, callerVars, taskVars, readerVars, cleanVars, wireVars, linkVars
<1> PICK e \in {"none", "timeout", "canceled"} :
       Return(c, e) /\ (e = "none" => response[c] = c) /\ (e = "none" => err[c] = "none")
  BY DEF Wake, TimeOut, TypeOK, Answered
<1>1. UNCHANGED <<calls, response, closed, readerVars, cleanVars, wireVars, linkVars>>
  BY DEF Wake, TimeOut
<1>2. TypeOK'
  BY <1>1 DEF TypeOK, Return
<1>3. Wire' /\ Tasks'
  BY <1>1 DEF Wire, Tasks, Sent, TypeOK, Return
<1>4. Answered' /\ Owned'
  BY <1>1 DEF Answered, Owned, TypeOK, Return
<1>5. OkMeansAnswered'
  BY <1>1 DEF OkMeansAnswered, TypeOK, Return
<1>6. LateAnswerIsNoRequest' /\ CleanupOwnsItsTasks'
  BY <1>1 DEF LateAnswerIsNoRequest, CleanupOwnsItsTasks
<1> QED
  BY <1>2, <1>3, <1>4, <1>5, <1>6

(* An answer finds its task.                                               *)
LEMMA ReadKeeps ==
  ASSUME IInv, Read
  PROVE  IInv'
<1> USE DEF IInv, callerVars, taskVars, readerVars, cleanVars, wireVars, linkVars
<1> DEFINE h == Head(answers)
<1>1. /\ answers \in Seq(Call \cup {NilUid}) /\ answers # <<>> /\ answers' = Tail(answers)
      /\ h = answers[1] /\ 1 \in DOMAIN answers /\ h \in Call \cup {NilUid}
      /\ DOMAIN answers' \subseteq DOMAIN answers
      /\ \A i \in DOMAIN answers' : i + 1 \in DOMAIN answers /\ answers'[i] = answers[i + 1]
      /\ \A i \in DOMAIN answers' : i + 1 # 1 /\ i \in Nat
      /\ answers' \in Seq(Call \cup {NilUid})
      /\ reader = "idle" /\ Unlocked
      /\ UNCHANGED <<pc, result, err, response, closed, cleanup, left, visited, requests, events, link, alive>>
  BY Popped DEF Read, TypeOK
<1>2. CASE h \in calls
  <2>1. /\ reader' = "fill" /\ popped' = h /\ calls' = calls \ {h} /\ UNCHANGED handled
        /\ h \in Call
    BY <1>2 DEF Read, TypeOK
  <2>2. pc[h] \in Sent /\ \A i \in DOMAIN requests : requests[i] # h
    BY <1>1, <2>1 DEF Wire
  <2>3. \A i \in DOMAIN answers' : answers'[i] # h
    BY <1>1, <2>1 DEF Wire
  <2>4. TypeOK'
    BY <1>1, <2>1 DEF TypeOK
  <2>5. Wire'
    <3>1. \A i, j \in DOMAIN answers' : answers'[i] = answers'[j] /\ answers'[i] \in Call => i = j
      BY <1>1 DEF Wire
    <3>2. \A i \in DOMAIN requests, j \in DOMAIN answers' : requests[i] # answers'[j]
      BY <1>1 DEF Wire
    <3> QED
      BY <1>1, <2>1, <2>2, <2>3, <3>1, <3>2 DEF Wire
  <2>6. Tasks' /\ Answered' /\ Owned'
    BY <1>1, <2>1, <2>2 DEF Tasks, Answered, Owned, Sent, Unlocked
  <2>7. OkMeansAnswered' /\ LateAnswerIsNoRequest' /\ CleanupOwnsItsTasks'
    BY <1>1, <2>1 DEF OkMeansAnswered, LateAnswerIsNoRequest, CleanupOwnsItsTasks, Unlocked
  <2> QED
    BY <2>4, <2>5, <2>6, <2>7
<1>3. CASE h \notin calls
  <2>1. h = NilUid
    BY <1>1, <1>3 DEF Wire
  <2>2. handled' = handled \cup {h} /\ reader' = "handler" /\ UNCHANGED <<calls, popped>>
    BY <1>3 DEF Read
  <2>3. TypeOK'
    BY <1>1, <2>2 DEF TypeOK
  <2>4. Wire'
    <3>1. \A i, j \in DOMAIN answers' : answers'[i] = answers'[j] /\ answers'[i] \in Call => i = j
      BY <1>1 DEF Wire
    <3>2. \A i \in DOMAIN requests, j \in DOMAIN answers' : requests[i] # answers'[j]
      BY <1>1 DEF Wire
    <3> QED
      BY <1>1, <2>2, <3>1, <3>2 DEF Wire
  <2>5. Tasks' /\ Answered' /\ Owned' /\ OkMeansAnswered' /\ CleanupOwnsItsTasks'
    BY <1>1, <2>2 DEF Tasks, Answered, Owned, OkMeansAnswered, CleanupOwnsItsTasks
  <2>6. LateAnswerIsNoRequest'
    BY <2>1, <2>2, NilAssumption DEF LateAnswerIsNoRequest
  <2> QED
    BY <2>3, <2>4, <2>5, <2>6
<1> QED
  BY <1>2, <1>3

LEMMA FillKeeps ==
  ASSUME IInv, Fill
  PROVE  IInv'
<1> USE DEF IInv, callerVars, taskVars, readerVars, cleanVars, wireVars, linkVars, Fill
<1>1. TypeOK'
  BY DEF TypeOK
<1>2. Wire' /\ Tasks' /\ Owned'
  BY DEF Wire, Tasks, Owned
<1>3. Answered'
  BY DEF Answered, TypeOK
<1>4. OkMeansAnswered' /\ LateAnswerIsNoRequest' /\ CleanupOwnsItsTasks'
  BY DEF OkMeansAnswered, LateAnswerIsNoRequest, CleanupOwnsItsTasks
<1> QED
  BY <1>1, <1>2, <1>3, <1>4

(* What the reader closes is in the map no more.                           *)
LEMMA UnblockKeeps ==
  ASSUME IInv, ~Panicked, Unblock
  PROVE  IInv'
<1> USE DEF IInv, callerVars, taskVars, readerVars, cleanVars, wireVars, linkVars, Unblock, Close
<1>1. popped \in Call /\ popped \notin calls /\ closed[popped] \in 0..1
  BY DEF TypeOK, Tasks, Panicked
<1>2. TypeOK'
  BY <1>1 DEF TypeOK
<1>3. Wire'
  BY DEF Wire
<1>4. Tasks' /\ Answered'
  BY <1>1 DEF Tasks, Answered, TypeOK, Sent
<1>5. Owned' /\ CleanupOwnsItsTasks'
  BY <1>1 DEF Owned, CleanupOwnsItsTasks, TypeOK
<1>6. OkMeansAnswered' /\ LateAnswerIsNoRequest'
  BY DEF OkMeansAnswered, LateAnswerIsNoRequest
<1> QED
  BY <1>2, <1>3, <1>4, <1>5, <1>6

(* The Handler and the goroutines of the connection touch no task.         *)
LEMMA LinkKeeps ==
  ASSUME IInv, HandlerReturns \/ HandlerWrites \/ TakeReply \/ Link
  PROVE  IInv'
<1> USE DEF IInv, callerVars, taskVars, readerVars, cleanVars, wireVars, linkVars,
            HandlerReturns, HandlerWrites, TakeReply, Link, Desert, ReaderEnds, ClearAlive
<1>1. TypeOK'
  BY DEF TypeOK
<1>2. Wire'
  BY DEF Wire
<1>3. Tasks' /\ Answered' /\ Owned'
  BY DEF Tasks, Answered, Owned
<1>4. OkMeansAnswered' /\ LateAnswerIsNoRequest' /\ CleanupOwnsItsTasks'
  BY DEF OkMeansAnswered, LateAnswerIsNoRequest, CleanupOwnsItsTasks
<1> QED
  BY <1>1, <1>2, <1>3, <1>4

LEMMA CleanerKeeps ==
  ASSUME IInv, ~Panicked, Cleaner
  PROVE  IInv'
<1> USE DEF IInv, callerVars, taskVars, readerVars, cleanVars, wireVars, linkVars
<1>1. CASE BeginCleanup
  BY <1>1, NilAssumption DEF BeginCleanup, TypeOK, Wire, Tasks, Answered, Owned,
              OkMeansAnswered, LateAnswerIsNoRequest, CleanupOwnsItsTasks
<1>2. ASSUME NEW c \in Call, Cancel(c) PROVE IInv'
  <2> USE <1>2 DEF Cancel
  <2>1. TypeOK'
    BY DEF TypeOK
  <2>2. Wire' /\ Tasks'
    BY DEF Wire, Tasks
  <2>3. Answered'
    BY DEF Answered, TypeOK
  <2>4. Owned' /\ CleanupOwnsItsTasks'
    BY DEF Owned, CleanupOwnsItsTasks, TypeOK
  <2>5. OkMeansAnswered' /\ LateAnswerIsNoRequest'
    BY DEF OkMeansAnswered, LateAnswerIsNoRequest
  <2> QED
    BY <2>1, <2>2, <2>3, <2>4, <2>5
<1>3. CASE CloseCancelled
  <2> USE <1>3 DEF CloseCancelled, Close
  <2>1. visited \in Call /\ visited \in calls /\ closed[visited] = 0 /\ err[visited] # "none"
    BY DEF TypeOK, CleanupOwnsItsTasks, Answered
  <2>2. TypeOK'
    BY <2>1 DEF TypeOK
  <2>3. Wire'
    BY DEF Wire
  <2>4. Tasks' /\ Answered'
    BY <2>1 DEF Tasks, Answered, TypeOK
  <2>5. Owned' /\ CleanupOwnsItsTasks'
    BY <2>1, NilAssumption DEF Owned, CleanupOwnsItsTasks, TypeOK
  <2>6. OkMeansAnswered' /\ LateAnswerIsNoRequest'
    BY DEF OkMeansAnswered, LateAnswerIsNoRequest
  <2> QED
    BY <2>2, <2>3, <2>4, <2>5, <2>6
<1>4. CASE EndCleanup
  BY <1>4 DEF EndCleanup, TypeOK, Wire, Tasks, Answered, Owned,
              OkMeansAnswered, LateAnswerIsNoRequest, CleanupOwnsItsTasks
<1> QED
  BY <1>1, <1>2, <1>3, <1>4 DEF Cleaner

(* What the peer answers is a request no more.                             *)
LEMMA ServeKeeps ==
  ASSUME IInv, NEW answer \in BOOLEAN, Serve(answer)
  PROVE  IInv'
<1> USE DEF IInv, callerVars, taskVars, readerVars, cleanVars, wireVars, linkVars
<1> DEFINE h == Head(requests)
<1>1. UNCHANGED <<pc, result, calls, err, response, closed, reader, popped, handled,
                  cleanup, left, visited, events, link, alive>>
  BY DEF Serve
<1>2. /\ requests' \in Seq(Call) /\ h \in Call /\ h = requests[1] /\ 1 \in DOMAIN requests
      /\ \A i \in DOMAIN requests' : i + 1 \in DOMAIN requests /\ requests'[i] = requests[i + 1]
      /\ \A i \in DOMAIN requests' : i + 1 # 1 /\ i \in Nat
  BY Popped DEF Serve, TypeOK
<1>3. \A i \in DOMAIN requests' : requests'[i] # h
  BY <1>2 DEF Wire
<1>4. \A i, j \in DOMAIN requests' : requests'[i] = requests'[j] => i = j
  BY <1>2 DEF Wire
<1>5. \A i \in DOMAIN requests', j \in DOMAIN answers : requests'[i] # answers[j]
  BY <1>2 DEF Wire
<1>6. TypeOK' /\ Wire'
  <2>1. CASE answers' = answers
    BY <1>1, <1>2, <1>4, <1>5, <2>1 DEF Wire, TypeOK
  <2>2. CASE answers' = Append(answers, h)
    <3>1. answers \in Seq(Call \cup {NilUid}) /\ h \in Call \cup {NilUid}
      BY <1>2 DEF TypeOK
    <3>2. TypeOK'
      BY <1>1, <1>2, <2>2, <3>1, Pushed DEF TypeOK
    <3>3. \A i \in DOMAIN answers : answers[i] # h
      BY <1>2 DEF Wire
    <3>4. h \in calls /\ pc[h] \in Sent
      BY <1>2 DEF Wire
    <3>5. Wire'
      BY <1>1, <1>2, <1>3, <1>4, <1>5, <2>2, <3>1, <3>3, <3>4, Pushed DEF Wire
    <3> QED
      BY <3>2, <3>5
  <2> QED
    BY <2>1, <2>2 DEF Serve
<1>7. /\ Tasks' /\ Answered' /\ Owned'
      /\ OkMeansAnswered' /\ LateAnswerIsNoRequest' /\ CleanupOwnsItsTasks'
  BY <1>1 DEF Tasks, Answered, Owned, OkMeansAnswered, LateAnswerIsNoRequest,
              CleanupOwnsItsTasks
<1> QED
  BY <1>6, <1>7

LEMMA EventKeeps ==
  ASSUME IInv, Event
  PROVE  IInv'
<1> USE DEF IInv, callerVars, taskVars, readerVars, cleanVars, linkVars
<1>1. UNCHANGED <<pc, result, calls, err, response, closed, reader, popped, handled,
                  cleanup, left, visited, requests, link, alive>>
  BY DEF Event
<1>2. answers \in Seq(Call \cup {NilUid}) /\ answers' = Append(answers, NilUid)
  BY DEF Event, TypeOK
<1>3. TypeOK'
  BY <1>1, <1>2, Pushed, EventsAssumption DEF TypeOK, Event
<1>4. Wire'
  <2>1. \A i \in DOMAIN requests : requests[i] # NilUid
    BY NilAssumption DEF TypeOK
  <2> QED
    BY <1>1, <1>2, <2>1, Pushed, NilAssumption DEF Wire
<1>5. /\ Tasks' /\ Answered' /\ Owned'
      /\ OkMeansAnswered' /\ LateAnswerIsNoRequest' /\ CleanupOwnsItsTasks'
  BY <1>1 DEF Tasks, Answered, Owned, OkMeansAnswered, LateAnswerIsNoRequest,
              CleanupOwnsItsTasks
<1> QED
  BY <1>3, <1>4, <1>5

-----------------------------------------------------------------------------
LEMMA Keeps ==
  ASSUME IInv, [Next]_vars
  PROVE  IInv'
<1>1. ASSUME NEW c \in Call, Caller(c) PROVE IInv'
  BY <1>1, PutKeeps, WriteKeeps, TakeKeeps, ReturnKeeps DEF Caller
<1>2. ASSUME ~Panicked, Reader PROVE IInv'
  BY <1>2, ReadKeeps, FillKeeps, UnblockKeeps, LinkKeeps DEF Reader
<1>3. CASE Peer
  BY <1>3, ServeKeeps, EventKeeps DEF Peer
<1>4. CASE UNCHANGED vars
  BY <1>4 DEF vars, IInv, TypeOK, Wire, Tasks, Answered, Owned, OkMeansAnswered,
              LateAnswerIsNoRequest, CleanupOwnsItsTasks
<1> QED
  BY <1>1, <1>2, <1>3, <1>4, CleanerKeeps, LinkKeeps DEF Next, Running

(* The invariant holds for any calls: an id is on the wire once, and only  *)
(* while its task is in the map.                                           *)
THEOREM Invariant == Spec => []IInv
<1>1. IInv /\ [Next]_vars => IInv'
  BY Keeps
<1> QED
  BY Initially, <1>1, PTL DEF Spec

(* The types hold; no channel is closed a third time.                      *)
THEOREM TypeCorrect == Spec => []TypeOK
<1>1. IInv => TypeOK
  BY DEF IInv
<1> QED
  BY Invariant, <1>1, PTL

(* A call that returns no error returns the answer to its own request.     *)
THEOREM AnswersAreTheirOwn == Spec => []OkMeansAnswered
<1>1. IInv => OkMeansAnswered
  BY DEF IInv
<1> QED
  BY Invariant, <1>1, PTL

(* No answer is ever taken for a request of the peer.                      *)
THEOREM LateAnswersAreSwallowed == Spec => []LateAnswerIsNoRequest
<1>1. IInv => LateAnswerIsNoRequest
  BY DEF IInv
<1> QED
  BY Invariant, <1>1, PTL

(* Cleanup closes the tasks it finds, and nobody else does before it.      *)
THEOREM CleanupIsAlone == Spec => []CleanupOwnsItsTasks
<1>1. IInv => CleanupOwnsItsTasks
  BY DEF IInv
<1> QED
  BY Invariant, <1>1, PTL
-----------------------------------------------------------------------------
(* Liveness, as far as the prover reaches: that a step is enabled is a     *)
(* hypothesis.                                                             *)

At(c, p) == pc[c] = p /\ ~Panicked

(* A caller moves on, and nobody else moves it.                            *)
LEMMA OthersWait ==
  ASSUME NEW c \in Call, TypeOK, pc[c] # "idle", ~Panicked, [Next]_vars
  PROVE  pc'[c] = pc[c] \/ CallerStep(c)
<1> USE DEF CallerStep, TypeOK
<1>1. ASSUME NEW d \in Call, d # c, Caller(d) PROVE pc'[c] = pc[c]
  BY <1>1 DEF Caller, Put, Write, Take, Wake, TimeOut, Return
<1>2. CASE Reader \/ Cleaner \/ Peer \/ Link \/ UNCHANGED vars
  BY <1>2 DEF Reader, Read, Fill, Unblock, HandlerReturns, HandlerWrites, TakeReply, Cleaner,
              BeginCleanup, Cancel, CloseCancelled, EndCleanup, Peer, Serve, Event, Link, Desert,
              ReaderEnds, ClearAlive, callerVars, vars
<1> QED
  BY <1>1, <1>2 DEF Next, Running

LEMMA CallerGoes ==
  ASSUME NEW c \in Call, TypeOK, CallerStep(c)
  PROVE  /\ pc[c] = "put" => pc'[c] \in {"writing", "waiting"}
         /\ pc[c] = "writing" => pc'[c] = "waiting" /\ link = "open"
         /\ pc[c] = "waiting" => pc'[c] = "returned"
BY DEF CallerStep, Caller, Put, Write, Take, Wake, TimeOut, Return, TypeOK

(* The channel loses its writer, and then its reader.                      *)
LEMMA LinkGoes ==
  ASSUME TypeOK, [Next]_vars
  PROVE  /\ link = "deserted" => link' \in {"deserted", "closed"}
         /\ link = "closed" => link' = "closed"
<1> SUFFICES ASSUME link' # link PROVE Link
  BY DEF Link, Desert, ReaderEnds, ClearAlive
<1> QED
  BY DEF Next, Running, Reader, Read, Fill, Unblock, HandlerReturns, HandlerWrites, TakeReply,
         Cleaner, BeginCleanup, Cancel, CloseCancelled, EndCleanup, Peer, Serve, Event, linkVars,
         vars, Caller, Put, Write, Take, Wake, TimeOut

(* A caller caught in its send when the reader closes the channel panics.  *)
LEMMA CaughtPanics ==
  ASSUME NEW c \in Call, pc[c] = "writing", link = "closed"
  PROVE  Panicked
BY DEF Panicked

LEMMA ReaderGoes ==
  ASSUME TypeOK, ~Panicked, [Next]_vars
  PROVE  /\ reader = "fill" => reader' \in {"fill", "close"}
         /\ reader = "close" => reader' \in {"close", "idle"}
         /\ reader = "handler" => reader' \in {"handler", "idle", "writing"}
         /\ <<ReaderGoesOn>>_vars => /\ reader = "fill" => reader' = "close"
                                     /\ reader = "close" => reader' = "idle"
                                     /\ reader = "handler" => reader' \in {"idle", "writing"}
<1>1. ASSUME Reader
      PROVE  /\ reader = "fill" => reader' = "close"
             /\ reader = "close" => reader' = "idle"
             /\ reader = "handler" => reader' \in {"idle", "writing"}
  BY <1>1 DEF Reader, Read, Fill, Unblock, HandlerReturns, HandlerWrites, TakeReply
<1>2. ASSUME ~Reader PROVE reader' = reader
  BY <1>2 DEF Next, Running, Link, Desert, ReaderEnds, ClearAlive, Cleaner, BeginCleanup, Cancel,
         CloseCancelled, EndCleanup, Peer, Serve, Event, readerVars, vars, Caller, Put, Write,
         Take, Wake, TimeOut
<1> QED
  BY <1>1, <1>2 DEF ReaderGoesOn

(* A call that was written gets its timeout and returns.                   *)
LEMMA WaitersReturn ==
  ASSUME NEW c \in Call
  PROVE  Spec /\ CallerFairness(c) /\ []StepsAreEnabled
           => (At(c, "waiting") ~> (pc[c] = "returned" \/ Panicked))
<1>1. TypeOK /\ At(c, "waiting") /\ [Next]_vars
        => At(c, "waiting")' \/ (pc[c] = "returned")' \/ Panicked'
  BY OthersWait, CallerGoes DEF At
<1>2. TypeOK /\ At(c, "waiting") /\ <<CallerStep(c)>>_vars => (pc[c] = "returned")'
  BY CallerGoes DEF At
<1>3. StepsAreEnabled /\ At(c, "waiting") => ENABLED <<CallerStep(c)>>_vars
  BY DEF StepsAreEnabled, CallerCan, At
<1> QED
  BY <1>1, <1>2, <1>3, TypeCorrect, PTL DEF Spec, CallerFairness

(* A call whose writer has ended is freed by the end of the reader, which  *)
(* comes unless the reader waits in a send of its own.                     *)
Deserted(c) == At(c, "writing") /\ link = "deserted"
Caught(c) == pc[c] = "writing" /\ ReaderStuck

LEMMA DesertedEnd ==
  ASSUME NEW c \in Call
  PROVE  FairSpec /\ []StepsAreEnabled => (Deserted(c) ~> (Panicked \/ Caught(c)))
<1> DEFINE In(r) == Deserted(c) /\ reader = r
<1>1. TypeOK /\ Deserted(c) => \/ In("idle") \/ In("fill") \/ In("close") \/ In("handler")
                              \/ Caught(c)
  BY DEF TypeOK, Deserted, Caught, ReaderStuck, At
<1>2. TypeOK /\ Deserted(c) /\ [Next]_vars => Deserted(c)' \/ Panicked'
  BY OthersWait, CallerGoes, LinkGoes, CaughtPanics DEF Deserted, At, Panicked
<1>3. /\ TypeOK /\ In("fill") /\ [Next]_vars => In("fill")' \/ In("close")' \/ Panicked'
      /\ TypeOK /\ In("close") /\ [Next]_vars => In("close")' \/ In("idle")' \/ Panicked'
      /\ TypeOK /\ In("handler") /\ [Next]_vars
           => In("handler")' \/ In("idle")' \/ Caught(c)' \/ Panicked'
  BY <1>2, ReaderGoes DEF Deserted, At, Caught, ReaderStuck
<1>4. /\ TypeOK /\ In("fill") /\ <<ReaderGoesOn>>_vars => In("close")' \/ Panicked'
      /\ TypeOK /\ In("close") /\ <<ReaderGoesOn>>_vars => In("idle")' \/ Panicked'
      /\ TypeOK /\ In("handler") /\ <<ReaderGoesOn>>_vars
           => In("idle")' \/ Caught(c)' \/ Panicked'
  <2>1. <<ReaderGoesOn>>_vars => [Next]_vars
    BY DEF ReaderGoesOn, Next, Running
  <2> QED
    BY <1>2, <2>1, ReaderGoes DEF Deserted, At, Caught, ReaderStuck
<1>5. /\ StepsAreEnabled /\ In("fill") => ENABLED <<ReaderGoesOn>>_vars
      /\ StepsAreEnabled /\ In("close") => ENABLED <<ReaderGoesOn>>_vars
      /\ StepsAreEnabled /\ In("handler") => ENABLED <<ReaderGoesOn>>_vars
      /\ StepsAreEnabled /\ In("idle") => ENABLED <<ReaderFails>>_vars
  BY DEF StepsAreEnabled, ReaderCan, EndCan, Deserted, At
<1>6. TypeOK /\ Deserted(c) /\ <<ReaderFails>>_vars => Panicked'
  BY CaughtPanics DEF Deserted, At, ReaderFails, ReaderEnds, callerVars, Panicked
<1>7. In("idle") => Deserted(c)
  OBVIOUS
<1> HIDE DEF In
<1>8. FairSpec /\ []StepsAreEnabled
        => (Deserted(c) ~> (In("idle") \/ Panicked \/ Caught(c)))
  BY <1>1, <1>3, <1>4, <1>5, TypeCorrect, PTL DEF FairSpec, Spec, Fairness
<1> QED
  BY <1>2, <1>5, <1>6, <1>8, TypeCorrect, PTL DEF FairSpec, Spec, Fairness

(* RPC.Call returns, whatever the peer does, however often the connection  *)
(* is cleaned up and whenever it is lost, unless the process has panicked  *)
(* or the call is caught in its send beside the reader.                    *)
THEOREM CallsReturn == FairSpec /\ []StepsAreEnabled => EveryCallReturns
<1>1. ASSUME NEW c \in Call
      PROVE  FairSpec /\ CallerFairness(c) /\ []StepsAreEnabled
               => (pc[c] = "put" ~> \/ pc[c] = "returned" \/ Panicked
                                    \/ pc[c] = "writing" /\ ReaderStuck)
  <2> DEFINE Open == At(c, "writing") /\ link = "open"
  <2>1. pc[c] = "put" => At(c, "put") \/ Panicked
    BY DEF At
  <2>2. TypeOK /\ At(c, "writing") => Open \/ Deserted(c)
    BY CaughtPanics DEF At, Deserted, TypeOK
  <2>3. /\ TypeOK /\ At(c, "put") /\ [Next]_vars
             => At(c, "put")' \/ At(c, "writing")' \/ At(c, "waiting")' \/ Panicked'
        /\ TypeOK /\ At(c, "put") /\ <<CallerStep(c)>>_vars
             => At(c, "writing")' \/ At(c, "waiting")' \/ Panicked'
    BY OthersWait, CallerGoes DEF At, CallerStep
  <2>4. /\ TypeOK /\ Open /\ [Next]_vars
             => At(c, "writing")' \/ At(c, "waiting")' \/ Panicked'
        /\ TypeOK /\ Open /\ <<CallerStep(c)>>_vars => At(c, "waiting")' \/ Panicked'
    BY OthersWait, CallerGoes DEF At, CallerStep
  <2>5. /\ StepsAreEnabled /\ At(c, "put") => ENABLED <<CallerStep(c)>>_vars
        /\ StepsAreEnabled /\ Open => ENABLED <<CallerStep(c)>>_vars
    BY DEF StepsAreEnabled, CallerCan, At
  <2>6. Caught(c) => pc[c] = "writing" /\ ReaderStuck
    BY DEF Caught
  <2> HIDE DEF Open
  <2>7. FairSpec /\ CallerFairness(c) /\ []StepsAreEnabled
          => (At(c, "put") ~> (At(c, "writing") \/ At(c, "waiting") \/ Panicked))
    BY <2>3, <2>5, TypeCorrect, PTL DEF FairSpec, Spec, CallerFairness
  <2>8. FairSpec /\ CallerFairness(c) /\ []StepsAreEnabled
          => (At(c, "writing") ~> (At(c, "waiting") \/ Panicked \/ Deserted(c)))
    BY <2>2, <2>4, <2>5, TypeCorrect, PTL DEF FairSpec, Spec, CallerFairness
  <2> QED
    BY <2>1, <2>6, <2>7, <2>8, WaitersReturn, DesertedEnd, PTL DEF FairSpec
<1>2. FairSpec => \A c \in Call : CallerFairness(c)
  BY PTL DEF FairSpec, Fairness
<1> QED BY <1>1, <1>2 DEF EveryCallReturns
=============================================================================
