------------------------- MODULE CoreThread_proofs -------------------------
(***************************************************************************)
(* Proofs about CoreThread, for any number of goroutines and threads.      *)
(* While nothing is disturbed there is one caller and one loop, and the    *)
(* invariant says which places they can be at together, who of them owns   *)
(* which mutex, who sleeps, and whether the call has been run yet.         *)
(*                                                                         *)
(* That calls return follows from two more facts: a thread that sleeps has *)
(* not missed its signal (Hopeful), and every step leaves the caller less  *)
(* to do, or the loop less and the caller no more (Left).                  *)
(***************************************************************************)
EXTENDS CoreThread, TLAPS

(* A loop that has been told of a call and not run it.                     *)
Woken(l) == pc[l] = "run" \/ (pc[l] = "sleeping" /\ l \notin asleep["run"])

(* Where a loop is that leaves because it was stopped.                     *)
Out == {"release_run", "destroy_run", "cond_run", "release_done",
        "destroy_done", "cond_done"}

(* Where it is after it has run a call.                                    *)
Answered == {"answer", "answered", "answer_unlock", "loop"}

(* Where it can be while nobody calls.                                     *)
AtRest == {"loop", "sleeping"} \cup Out

(* One caller at a time.                                                   *)
Alone == \A c, d \in Caller : pc[c] # "idle" /\ pc[d] # "idle" => c = d

OneLoop == \A k, l \in Loop : pc[k] # "none" /\ pc[l] # "none" => k = l

(* Where the loop can be while the caller is at a place.                   *)
Places ==
  /\ \A c \in Caller, l \in Loop : pc[c] # "idle" /\ pc[l] # "none" =>
       /\ pc[c] \notin {"init_run", "init_done", "start_lock", "create"}
       /\ pc[c] \in {"test", "started", "lock_run"} => pc[l] \in {"loop", "sleeping"}
       /\ pc[c] = "start_wait" => pc[l] = "born"
       /\ pc[c] = "starting" => pc[l] \in {"born", "own_run", "ready", "ready_unlock",
                                           "loop", "sleeping"}
       /\ pc[c] \in {"lock_done", "post", "unlock_run"} => pc[l] = "sleeping"
       /\ pc[c] = "wait" => pc[l] \in {"sleeping", "run", "answer"}
       /\ pc[c] = "waiting" => pc[l] \in AtRest \cup Answered \cup {"run"}
       /\ pc[c] = "leave" => pc[l] \in AtRest
  /\ (\A c \in Caller : pc[c] = "idle") => \A l \in Loop : pc[l] \in AtRest \cup {"none"}

(* What initialized says.                                                  *)
Started ==
  /\ \A c \in Caller :
       /\ pc[c] \in {"init_done", "start_lock", "create", "start_wait", "starting",
                     "started", "lock_run", "lock_done", "post", "unlock_run"}
            => initialized
       /\ pc[c] = "init_run" => ~initialized
       /\ pc[c] = "test" => initialized \/ \A l \in Loop : pc[l] = "none"
  /\ \A l \in Loop :
       /\ pc[l] \in {"born", "own_run", "ready", "ready_unlock", "sleeping", "run"}
            => initialized
       /\ pc[l] \in Out => ~initialized
       /\ pc[l] = "answer" => lock["done"] # "dead"
  /\ initialized => lock["run"] # "dead"
  /\ initialized /\ lock["done"] = "dead" => \E c \in Caller : pc[c] = "init_done"

(* Who owns the mutexes.                                                   *)
Owners ==
  /\ \A c \in Caller :
       /\ pc[c] \in {"create", "start_wait", "started", "post", "unlock_run", "wait"}
            => lock["done"] = c
       /\ pc[c] \in {"lock_done", "post", "unlock_run"} => lock["run"] = c
  /\ \A l \in Loop :
       /\ pc[l] \in {"own_run", "ready", "ready_unlock", "answered", "answer_unlock"}
            => lock["done"] = l
       /\ pc[l] \in {"ready", "ready_unlock", "loop", "run", "answer", "answered",
                     "answer_unlock", "release_run"} => lock["run"] = l

(* Who sleeps: a caller until the loop has done what it waits for.         *)
Sleepers ==
  /\ \A t \in asleep["run"] : t \in Loop /\ pc[t] = "sleeping"
  /\ \A t \in asleep["done"] : t \in Caller /\ pc[t] \in {"starting", "waiting"}
  /\ \A c \in Caller, l \in Loop :
       \/ pc[c] = "starting" /\ pc[l] \in {"born", "own_run", "ready"}
       \/ pc[c] = "waiting" /\ (pc[l] \in {"run", "answer", "answered"} \/ Woken(l))
       => c \in asleep["done"]
  /\ \A l \in Loop : Woken(l) =>
       call # NoCall /\ pc[call.by] \in {"unlock_run", "wait", "waiting"}

(* How often a call has been run.                                          *)
Counted ==
  /\ \A c \in Caller :
       /\ pc[c] = "leave" => ran[c] = 1
       /\ pc[c] = "waiting" => c \in asleep["done"] \/ ran[c] = 1
       /\ pc[c] \notin {"idle", "wait", "waiting", "leave"} => ran[c] = 0
       /\ ran[c] <= 1
  /\ \A c \in Caller, l \in Loop :
       pc[c] \in {"wait", "waiting"} =>
         /\ Woken(l) => ran[c] = 0
         /\ pc[l] \in Answered \cup Out => ran[c] = 1

(* The inductive invariant.                                                *)
Undisturbed == /\ Alone /\ OneLoop /\ Places /\ Started
               /\ Owners /\ Sleepers /\ Counted

Typing == TypeOK /\ pc \in [Thread -> CallerAt \cup LoopAt]

Inv == Typing /\ (~disturbed => Undisturbed)

-----------------------------------------------------------------------------
(* The types                                                               *)

(* Every step keeps the types.                                             *)
LEMMA TypingKept == Typing /\ [Next]_vars => Typing'
<1> SUFFICES ASSUME Typing, [Next]_vars PROVE Typing'
  OBVIOUS
<1> USE ThreadAssumption
        DEF Typing, TypeOK, Thread, Mutex, Function, Length, CallerAt, LoopAt,
            callVars, Go, MaxRan
<1>1. ASSUME NEW c \in Caller, \E f \in Function : Call(c, f) PROVE Typing'
  BY <1>1 DEF Call
<1>2. ASSUME NEW c \in Caller, Test(c)
      PROVE  Typing'
  BY <1>2 DEF Test
<1>3. ASSUME NEW c \in Caller, InitRun(c)
      PROVE  Typing'
  BY <1>3 DEF InitRun, mutex_init
<1>4. ASSUME NEW c \in Caller, InitDone(c)
      PROVE  Typing'
  BY <1>4 DEF InitDone, mutex_init
<1>5. ASSUME NEW c \in Caller, LockStep(c, "start_lock", "done", "create")
      PROVE  Typing'
  BY <1>5 DEF LockStep, mutex_lock
<1>6. ASSUME NEW c \in Caller, Create(c)
      PROVE  Typing'
  BY <1>6 DEF Create
<1>7. ASSUME NEW c \in Caller, WaitStep(c, "start_wait", "done", "starting")
      PROVE  Typing'
  BY <1>7 DEF WaitStep, mutex_wait, mutex_unlock
<1>8. ASSUME NEW c \in Caller, WakeStep(c, "starting", "done", "started")
      PROVE  Typing'
  BY <1>8 DEF WakeStep, mutex_wake, mutex_lock
<1>9. ASSUME NEW c \in Caller, UnlockStep(c, "started", "done", "lock_run")
      PROVE  Typing'
  BY <1>9 DEF UnlockStep, mutex_unlock
<1>10. ASSUME NEW c \in Caller, LockStep(c, "lock_run", "run", "lock_done")
      PROVE  Typing'
  BY <1>10 DEF LockStep, mutex_lock
<1>11. ASSUME NEW c \in Caller, LockStep(c, "lock_done", "done", "post")
      PROVE  Typing'
  BY <1>11 DEF LockStep, mutex_lock
<1>12. ASSUME NEW c \in Caller, Post(c)
      PROVE  Typing'
  BY <1>12 DEF Post, mutex_signal
<1>13. ASSUME NEW c \in Caller, UnlockStep(c, "unlock_run", "run", "wait")
      PROVE  Typing'
  BY <1>13 DEF UnlockStep, mutex_unlock
<1>14. ASSUME NEW c \in Caller, WaitStep(c, "wait", "done", "waiting")
      PROVE  Typing'
  BY <1>14 DEF WaitStep, mutex_wait, mutex_unlock
<1>15. ASSUME NEW c \in Caller, WakeStep(c, "waiting", "done", "leave")
      PROVE  Typing'
  BY <1>15 DEF WakeStep, mutex_wake, mutex_lock
<1>16. ASSUME NEW c \in Caller, UnlockStep(c, "leave", "done", "idle")
      PROVE  Typing'
  BY <1>16 DEF UnlockStep, mutex_unlock
<1>17. ASSUME NEW l \in Loop, LockStep(l, "born", "done", "own_run")
      PROVE  Typing'
  BY <1>17 DEF LockStep, mutex_lock
<1>18. ASSUME NEW l \in Loop, LockStep(l, "own_run", "run", "ready")
      PROVE  Typing'
  BY <1>18 DEF LockStep, mutex_lock
<1>19. ASSUME NEW l \in Loop, SignalStep(l, "ready", "done", "ready_unlock")
      PROVE  Typing'
  BY <1>19 DEF SignalStep, mutex_signal
<1>20. ASSUME NEW l \in Loop, UnlockStep(l, "ready_unlock", "done", "loop")
      PROVE  Typing'
  BY <1>20 DEF UnlockStep, mutex_unlock
<1>21. ASSUME NEW l \in Loop, TestLoop(l)
      PROVE  Typing'
  BY <1>21 DEF TestLoop, WaitStep, mutex_wait, mutex_unlock
<1>22. ASSUME NEW l \in Loop, WakeStep(l, "sleeping", "run", "run")
      PROVE  Typing'
  BY <1>22 DEF WakeStep, mutex_wake, mutex_lock
<1>23. ASSUME NEW l \in Loop, Run(l)
      PROVE  Typing'
  <2>1. CASE call = NoCall
    BY <1>23, <2>1 DEF Run
  <2>2. CASE call # NoCall
    <3>1. call.by \in Caller /\ call.fn \in Function
      BY <2>2
    <3>2. initialized' \in BOOLEAN
      BY <1>23, <2>2, Zenon DEF Run
    <3>3. ran' \in [Caller -> 0..MaxRan]
      BY <1>23, <2>2, <3>1 DEF Run
    <3>4. length' \in [Caller -> Length \cup {"none"}]
      BY <1>23, <2>2, <3>1 DEF Run
    <3> QED BY <1>23, <2>2, <3>2, <3>3, <3>4 DEF Run
  <2> QED BY <2>1, <2>2
<1>24. ASSUME NEW l \in Loop, LockStep(l, "answer", "done", "answered")
      PROVE  Typing'
  BY <1>24 DEF LockStep, mutex_lock
<1>25. ASSUME NEW l \in Loop, SignalStep(l, "answered", "done", "answer_unlock")
      PROVE  Typing'
  BY <1>25 DEF SignalStep, mutex_signal
<1>26. ASSUME NEW l \in Loop, UnlockStep(l, "answer_unlock", "done", "loop")
      PROVE  Typing'
  BY <1>26 DEF UnlockStep, mutex_unlock
<1>27. ASSUME NEW l \in Loop, UnlockStep(l, "release_run", "run", "destroy_run")
      PROVE  Typing'
  BY <1>27 DEF UnlockStep, mutex_unlock
<1>28. ASSUME NEW l \in Loop, Destroy(l, "run", "destroy_run", "cond_run")
      PROVE  Typing'
  BY <1>28 DEF Destroy, mutex_signal
<1>29. ASSUME NEW l \in Loop, Drain(l, "run", "cond_run", "release_done")
      PROVE  Typing'
  BY <1>29 DEF Drain
<1>30. ASSUME NEW l \in Loop, UnlockStep(l, "release_done", "done", "destroy_done")
      PROVE  Typing'
  BY <1>30 DEF UnlockStep, mutex_unlock
<1>31. ASSUME NEW l \in Loop, Destroy(l, "done", "destroy_done", "cond_done")
      PROVE  Typing'
  BY <1>31 DEF Destroy, mutex_signal
<1>32. ASSUME NEW l \in Loop, Drain(l, "done", "cond_done", "none")
      PROVE  Typing'
  BY <1>32 DEF Drain
<1>33. ASSUME NEW t \in Thread, NEW m \in Mutex, SpuriousWake(t, m) PROVE Typing'
  BY <1>33 DEF SpuriousWake
<1>34. CASE UNCHANGED vars
  BY <1>34 DEF vars
<1> QED BY <1>1, <1>2, <1>3, <1>4, <1>5, <1>6, <1>7, <1>8, <1>9, <1>10, <1>11,
     <1>12, <1>13, <1>14, <1>15, <1>16, <1>17, <1>18, <1>19, <1>20, <1>21,
     <1>22, <1>23, <1>24, <1>25, <1>26, <1>27, <1>28, <1>29, <1>30, <1>31,
     <1>32, <1>33, <1>34 DEF Next, Start, HandOver, run_loop

-----------------------------------------------------------------------------
(* The hand-over                                                           *)

(* A caller keeps the hand-over in order.                                  *)
LEMMA CallerKeeps ==
  ASSUME NEW c \in Caller, Typing, Undisturbed, ~disturbed',
         (\E f \in Function : Call(c, f)) \/ Start(c) \/ HandOver(c)
  PROVE  Undisturbed'
<1> USE ThreadAssumption
        DEF Typing, TypeOK, Thread, Mutex, CallerAt, LoopAt, Function, MaxRan,
            callVars, Go, Undisturbed, Ending, Woken, AtRest, Out, Answered
<1>1. CASE \E f \in Function : Call(c, f)
  <2>1. Alone' BY <1>1 DEF Call, Alone
  <2>2. OneLoop' BY <1>1 DEF Call, OneLoop
  <2>3. Places' BY <1>1 DEF Call, Places, Started
  <2>4. Started' BY <1>1 DEF Call, Started
  <2>5. Owners' BY <1>1 DEF Call, Owners
  <2>6. Sleepers' BY <1>1 DEF Call, Sleepers
  <2>7. Counted' BY <1>1 DEF Call, Counted
  <2> QED BY <2>1, <2>2, <2>3, <2>4, <2>5, <2>6, <2>7
<1>2. CASE Test(c)
  <2>1. Alone' BY <1>2 DEF Test, Alone
  <2>2. OneLoop' BY <1>2 DEF Test, OneLoop
  <2>3. Places' BY <1>2 DEF Test, Places, Started
  <2>4. Started' BY <1>2 DEF Test, Started
  <2>5. Owners' BY <1>2 DEF Test, Owners
  <2>6. Sleepers' BY <1>2 DEF Test, Sleepers
  <2>7. Counted' BY <1>2 DEF Test, Counted
  <2> QED BY <2>1, <2>2, <2>3, <2>4, <2>5, <2>6, <2>7
<1>3. CASE InitRun(c)
  <2>1. Alone' BY <1>3 DEF InitRun, Alone
  <2>2. OneLoop' BY <1>3 DEF InitRun, OneLoop
  <2>3. Places' BY <1>3 DEF InitRun, Places
  <2>4. Started' BY <1>3 DEF InitRun, mutex_init, Alone, Places, Started
  <2>5. Owners' BY <1>3 DEF InitRun, Alone, Places, Owners
  <2>6. Sleepers' BY <1>3 DEF InitRun, Sleepers
  <2>7. Counted' BY <1>3 DEF InitRun, Counted
  <2> QED BY <2>1, <2>2, <2>3, <2>4, <2>5, <2>6, <2>7
<1>4. CASE InitDone(c)
  <2>1. Alone' BY <1>4 DEF InitDone, Alone
  <2>2. OneLoop' BY <1>4 DEF InitDone, OneLoop
  <2>3. Places' BY <1>4 DEF InitDone, Places
  <2>4. Started' BY <1>4 DEF InitDone, mutex_init, Started
  <2>5. Owners' BY <1>4 DEF InitDone, Alone, Places, Owners
  <2>6. Sleepers' BY <1>4 DEF InitDone, Sleepers
  <2>7. Counted' BY <1>4 DEF InitDone, Counted
  <2> QED BY <2>1, <2>2, <2>3, <2>4, <2>5, <2>6, <2>7
<1>5. CASE LockStep(c, "start_lock", "done", "create")
  <2>1. Alone' BY <1>5 DEF LockStep, Alone
  <2>2. OneLoop' BY <1>5 DEF LockStep, OneLoop
  <2>3. Places' BY <1>5 DEF LockStep, Places
  <2>4. Started' BY <1>5 DEF LockStep, mutex_lock, Started
  <2>5. Owners' BY <1>5 DEF LockStep, mutex_lock, Alone, Started, Owners
  <2>6. Sleepers' BY <1>5 DEF LockStep, Sleepers
  <2>7. Counted' BY <1>5 DEF LockStep, Counted
  <2> QED BY <2>1, <2>2, <2>3, <2>4, <2>5, <2>6, <2>7
<1>6. CASE Create(c)
  <2>1. Alone' BY <1>6 DEF Create, Alone
  <2>2. OneLoop' BY <1>6 DEF Create, OneLoop, Places
  <2>3. Places' BY <1>6 DEF Create, Alone, Places
  <2>4. Started' BY <1>6 DEF Create, Started
  <2>5. Owners' BY <1>6 DEF Create, Owners
  <2>6. Sleepers' BY <1>6 DEF Create, Alone, Sleepers
  <2>7. Counted' BY <1>6 DEF Create, Counted
  <2> QED BY <2>1, <2>2, <2>3, <2>4, <2>5, <2>6, <2>7
<1>7. CASE WaitStep(c, "start_wait", "done", "starting")
  <2>1. Alone' BY <1>7 DEF WaitStep, Alone
  <2>2. OneLoop' BY <1>7 DEF WaitStep, OneLoop
  <2>3. Places' BY <1>7 DEF WaitStep, Places
  <2>4. Started' BY <1>7 DEF WaitStep, mutex_wait, mutex_unlock, Started
  <2>5. Owners' BY <1>7 DEF WaitStep, mutex_wait, mutex_unlock, Owners
  <2>6. Sleepers' BY <1>7 DEF WaitStep, mutex_wait, Alone, Started, Sleepers
  <2>7. Counted' BY <1>7 DEF WaitStep, mutex_wait, Counted
  <2> QED BY <2>1, <2>2, <2>3, <2>4, <2>5, <2>6, <2>7
<1>8. CASE WakeStep(c, "starting", "done", "started")
  <2>1. Alone' BY <1>8 DEF WakeStep, Alone
  <2>2. OneLoop' BY <1>8 DEF WakeStep, OneLoop
  <2>3. Places' BY <1>8 DEF WakeStep, mutex_wake, mutex_lock, Places, Owners,
         Sleepers
  <2>4. Started' BY <1>8 DEF WakeStep, mutex_wake, mutex_lock, Started
  <2>5. Owners' BY <1>8 DEF WakeStep, mutex_wake, mutex_lock, Alone, Started,
         Owners
  <2>6. Sleepers' BY <1>8 DEF WakeStep, mutex_wake, Sleepers
  <2>7. Counted' BY <1>8 DEF WakeStep, Counted
  <2> QED BY <2>1, <2>2, <2>3, <2>4, <2>5, <2>6, <2>7
<1>9. CASE UnlockStep(c, "started", "done", "lock_run")
  <2>1. Alone' BY <1>9 DEF UnlockStep, Alone
  <2>2. OneLoop' BY <1>9 DEF UnlockStep, OneLoop
  <2>3. Places' BY <1>9 DEF UnlockStep, Places
  <2>4. Started' BY <1>9 DEF UnlockStep, mutex_unlock, Started
  <2>5. Owners' BY <1>9 DEF UnlockStep, mutex_unlock, Owners
  <2>6. Sleepers' BY <1>9 DEF UnlockStep, Sleepers
  <2>7. Counted' BY <1>9 DEF UnlockStep, Counted
  <2> QED BY <2>1, <2>2, <2>3, <2>4, <2>5, <2>6, <2>7
<1>10. CASE LockStep(c, "lock_run", "run", "lock_done")
  <2>1. Alone' BY <1>10 DEF LockStep, Alone
  <2>2. OneLoop' BY <1>10 DEF LockStep, OneLoop
  <2>3. Places' BY <1>10 DEF LockStep, mutex_lock, Places, Owners
  <2>4. Started' BY <1>10 DEF LockStep, mutex_lock, Started
  <2>5. Owners' BY <1>10 DEF LockStep, mutex_lock, Started, Owners
  <2>6. Sleepers' BY <1>10 DEF LockStep, Sleepers
  <2>7. Counted' BY <1>10 DEF LockStep, Counted
  <2> QED BY <2>1, <2>2, <2>3, <2>4, <2>5, <2>6, <2>7
<1>11. CASE LockStep(c, "lock_done", "done", "post")
  <2>1. Alone' BY <1>11 DEF LockStep, Alone
  <2>2. OneLoop' BY <1>11 DEF LockStep, OneLoop
  <2>3. Places' BY <1>11 DEF LockStep, Places
  <2>4. Started' BY <1>11 DEF LockStep, mutex_lock, Started
  <2>5. Owners' BY <1>11 DEF LockStep, mutex_lock, Alone, Started, Owners
  <2>6. Sleepers' BY <1>11 DEF LockStep, Sleepers
  <2>7. Counted' BY <1>11 DEF LockStep, Counted
  <2> QED BY <2>1, <2>2, <2>3, <2>4, <2>5, <2>6, <2>7
<1>12. CASE Post(c)
  <2>1. Alone' BY <1>12 DEF Post, Alone
  <2>2. OneLoop' BY <1>12 DEF Post, OneLoop
  <2>3. Places' BY <1>12 DEF Post, Places
  <2>4. Started' BY <1>12 DEF Post, Started
  <2>5. Owners' BY <1>12 DEF Post, Owners
  <2>6. Sleepers' BY <1>12 DEF Post, mutex_signal, Alone, Sleepers
  <2>7. Counted' BY <1>12 DEF Post, Alone, Counted
  <2> QED BY <2>1, <2>2, <2>3, <2>4, <2>5, <2>6, <2>7
<1>13. CASE UnlockStep(c, "unlock_run", "run", "wait")
  <2>1. Alone' BY <1>13 DEF UnlockStep, Alone
  <2>2. OneLoop' BY <1>13 DEF UnlockStep, OneLoop
  <2>3. Places' BY <1>13 DEF UnlockStep, Places
  <2>4. Started' BY <1>13 DEF UnlockStep, mutex_unlock, Started
  <2>5. Owners' BY <1>13 DEF UnlockStep, mutex_unlock, Owners
  <2>6. Sleepers' BY <1>13 DEF UnlockStep, Sleepers
  <2>7. Counted' BY <1>13 DEF UnlockStep, Places, Counted
  <2> QED BY <2>1, <2>2, <2>3, <2>4, <2>5, <2>6, <2>7
<1>14. CASE WaitStep(c, "wait", "done", "waiting")
  <2>1. Alone' BY <1>14 DEF WaitStep, Alone
  <2>2. OneLoop' BY <1>14 DEF WaitStep, OneLoop
  <2>3. Places' BY <1>14 DEF WaitStep, Places
  <2>4. Started' BY <1>14 DEF WaitStep, mutex_wait, mutex_unlock, Started
  <2>5. Owners' BY <1>14 DEF WaitStep, mutex_wait, mutex_unlock, Owners
  <2>6. Sleepers' BY <1>14 DEF WaitStep, mutex_wait, Places, Started, Sleepers
  <2>7. Counted' BY <1>14 DEF WaitStep, mutex_wait, Owners, Counted
  <2> QED BY <2>1, <2>2, <2>3, <2>4, <2>5, <2>6, <2>7
<1>15. CASE WakeStep(c, "waiting", "done", "leave")
  <2>1. Alone' BY <1>15 DEF WakeStep, Alone
  <2>2. OneLoop' BY <1>15 DEF WakeStep, OneLoop
  <2>3. Places' BY <1>15 DEF WakeStep, mutex_wake, mutex_lock, Places, Owners,
         Sleepers
  <2>4. Started' BY <1>15 DEF WakeStep, mutex_wake, mutex_lock, Started
  <2>5. Owners' BY <1>15 DEF WakeStep, mutex_wake, mutex_lock, Owners
  <2>6. Sleepers' BY <1>15 DEF WakeStep, mutex_wake, Sleepers
  <2>7. Counted' BY <1>15 DEF WakeStep, mutex_wake, Counted
  <2> QED BY <2>1, <2>2, <2>3, <2>4, <2>5, <2>6, <2>7
<1>16. CASE UnlockStep(c, "leave", "done", "idle")
  <2>1. Alone' BY <1>16 DEF UnlockStep, Alone
  <2>2. OneLoop' BY <1>16 DEF UnlockStep, OneLoop
  <2>3. Places' BY <1>16 DEF UnlockStep, Places
  <2>4. Started' BY <1>16 DEF UnlockStep, mutex_unlock, Started
  <2>5. Owners' BY <1>16 DEF UnlockStep, mutex_unlock, Alone, Places, Owners
  <2>6. Sleepers' BY <1>16 DEF UnlockStep, Sleepers
  <2>7. Counted' BY <1>16 DEF UnlockStep, Counted
  <2> QED BY <2>1, <2>2, <2>3, <2>4, <2>5, <2>6, <2>7
<1> QED BY <1>1, <1>2, <1>3, <1>4, <1>5, <1>6, <1>7, <1>8, <1>9, <1>10, <1>11,
     <1>12, <1>13, <1>14, <1>15, <1>16 DEF Start, HandOver

(* The loop keeps the hand-over in order.                                  *)
LEMMA LoopKeeps ==
  ASSUME NEW l \in Loop, Typing, Undisturbed, ~disturbed',
         run_loop(l)
  PROVE  Undisturbed'
<1> USE ThreadAssumption
        DEF Typing, TypeOK, Thread, Mutex, CallerAt, LoopAt, Function, MaxRan,
            callVars, Go, Undisturbed, Ending, Woken, AtRest, Out, Answered
<1>1. CASE LockStep(l, "born", "done", "own_run")
  <2>1. Alone' BY <1>1 DEF LockStep, Alone
  <2>2. OneLoop' BY <1>1 DEF LockStep, OneLoop
  <2>3. Places' BY <1>1 DEF LockStep, mutex_lock, Places, Owners
  <2>4. Started' BY <1>1 DEF LockStep, mutex_lock, Started
  <2>5. Owners' BY <1>1 DEF LockStep, mutex_lock, Places, Started, Owners
  <2>6. Sleepers' BY <1>1 DEF LockStep, Sleepers
  <2>7. Counted' BY <1>1 DEF LockStep, Counted
  <2> QED BY <2>1, <2>2, <2>3, <2>4, <2>5, <2>6, <2>7
<1>2. CASE LockStep(l, "own_run", "run", "ready")
  <2>1. Alone' BY <1>2 DEF LockStep, Alone
  <2>2. OneLoop' BY <1>2 DEF LockStep, OneLoop
  <2>3. Places' BY <1>2 DEF LockStep, Places
  <2>4. Started' BY <1>2 DEF LockStep, mutex_lock, Started
  <2>5. Owners' BY <1>2 DEF LockStep, mutex_lock, Started, Owners
  <2>6. Sleepers' BY <1>2 DEF LockStep, Sleepers
  <2>7. Counted' BY <1>2 DEF LockStep, Counted
  <2> QED BY <2>1, <2>2, <2>3, <2>4, <2>5, <2>6, <2>7
<1>3. CASE SignalStep(l, "ready", "done", "ready_unlock")
  <2>1. Alone' BY <1>3 DEF SignalStep, Alone
  <2>2. OneLoop' BY <1>3 DEF SignalStep, OneLoop
  <2>3. Places' BY <1>3 DEF SignalStep, Places
  <2>4. Started' BY <1>3 DEF SignalStep, Started
  <2>5. Owners' BY <1>3 DEF SignalStep, Owners
  <2>6. Sleepers' BY <1>3 DEF SignalStep, mutex_signal, OneLoop, Sleepers
  <2>7. Counted' BY <1>3 DEF SignalStep, Places, Counted
  <2> QED BY <2>1, <2>2, <2>3, <2>4, <2>5, <2>6, <2>7
<1>4. CASE UnlockStep(l, "ready_unlock", "done", "loop")
  <2>1. Alone' BY <1>4 DEF UnlockStep, Alone
  <2>2. OneLoop' BY <1>4 DEF UnlockStep, OneLoop
  <2>3. Places' BY <1>4 DEF UnlockStep, Places
  <2>4. Started' BY <1>4 DEF UnlockStep, mutex_unlock, Started
  <2>5. Owners' BY <1>4 DEF UnlockStep, mutex_unlock, Owners
  <2>6. Sleepers' BY <1>4 DEF UnlockStep, Sleepers
  <2>7. Counted' BY <1>4 DEF UnlockStep, Places, Counted
  <2> QED BY <2>1, <2>2, <2>3, <2>4, <2>5, <2>6, <2>7
<1>5. CASE TestLoop(l)
  <2>1. Alone' BY <1>5 DEF TestLoop, WaitStep, Alone
  <2>2. OneLoop' BY <1>5 DEF TestLoop, WaitStep, OneLoop
  <2>3. Places' BY <1>5 DEF TestLoop, WaitStep, Places, Started
  <2>4. Started' BY <1>5 DEF TestLoop, WaitStep, mutex_wait, mutex_unlock,
         Started
  <2>5. Owners' BY <1>5 DEF TestLoop, WaitStep, mutex_wait, mutex_unlock,
         Owners
  <2>6. Sleepers' BY <1>5 DEF TestLoop, WaitStep, mutex_wait, Started,
         Sleepers
  <2>7. Counted' BY <1>5 DEF TestLoop, WaitStep, mutex_wait, Owners, Counted
  <2> QED BY <2>1, <2>2, <2>3, <2>4, <2>5, <2>6, <2>7
<1>6. CASE WakeStep(l, "sleeping", "run", "run")
  <2>1. Alone' BY <1>6 DEF WakeStep, Alone
  <2>2. OneLoop' BY <1>6 DEF WakeStep, OneLoop
  <2>3. Places' BY <1>6 DEF WakeStep, mutex_wake, mutex_lock, Alone, Places,
         Owners, Sleepers
  <2>4. Started' BY <1>6 DEF WakeStep, mutex_wake, mutex_lock, Started
  <2>5. Owners' BY <1>6 DEF WakeStep, mutex_wake, mutex_lock, Started, Owners
  <2>6. Sleepers' BY <1>6 DEF WakeStep, mutex_wake, Sleepers
  <2>7. Counted' BY <1>6 DEF WakeStep, mutex_wake, Counted
  <2> QED BY <2>1, <2>2, <2>3, <2>4, <2>5, <2>6, <2>7
<1>7. CASE Run(l)
  <2>1. Alone' BY <1>7 DEF Run, Alone
  <2>2. OneLoop' BY <1>7 DEF Run, OneLoop
  <2>3. Places' BY <1>7 DEF Run, Places, Sleepers
  <2>4. Started' BY <1>7 DEF Run, OneLoop, Places, Started
  <2>5. Owners' BY <1>7 DEF Run, Owners
  <2>6. Sleepers' BY <1>7 DEF Run, Sleepers
  <2>7. Counted' BY <1>7 DEF Run, Alone, OneLoop, Places, Sleepers, Counted
  <2> QED BY <2>1, <2>2, <2>3, <2>4, <2>5, <2>6, <2>7
<1>8. CASE LockStep(l, "answer", "done", "answered")
  <2>1. Alone' BY <1>8 DEF LockStep, Alone
  <2>2. OneLoop' BY <1>8 DEF LockStep, OneLoop
  <2>3. Places' BY <1>8 DEF LockStep, mutex_lock, Places, Owners
  <2>4. Started' BY <1>8 DEF LockStep, mutex_lock, Started
  <2>5. Owners' BY <1>8 DEF LockStep, mutex_lock, Started, Owners
  <2>6. Sleepers' BY <1>8 DEF LockStep, Sleepers
  <2>7. Counted' BY <1>8 DEF LockStep, Counted
  <2> QED BY <2>1, <2>2, <2>3, <2>4, <2>5, <2>6, <2>7
<1>9. CASE SignalStep(l, "answered", "done", "answer_unlock")
  <2>1. Alone' BY <1>9 DEF SignalStep, Alone
  <2>2. OneLoop' BY <1>9 DEF SignalStep, OneLoop
  <2>3. Places' BY <1>9 DEF SignalStep, Places
  <2>4. Started' BY <1>9 DEF SignalStep, Started
  <2>5. Owners' BY <1>9 DEF SignalStep, Owners
  <2>6. Sleepers' BY <1>9 DEF SignalStep, mutex_signal, OneLoop, Sleepers
  <2>7. Counted' BY <1>9 DEF SignalStep, mutex_signal, Counted
  <2> QED BY <2>1, <2>2, <2>3, <2>4, <2>5, <2>6, <2>7
<1>10. CASE UnlockStep(l, "answer_unlock", "done", "loop")
  <2>1. Alone' BY <1>10 DEF UnlockStep, Alone
  <2>2. OneLoop' BY <1>10 DEF UnlockStep, OneLoop
  <2>3. Places' BY <1>10 DEF UnlockStep, Places
  <2>4. Started' BY <1>10 DEF UnlockStep, mutex_unlock, Started
  <2>5. Owners' BY <1>10 DEF UnlockStep, mutex_unlock, Owners
  <2>6. Sleepers' BY <1>10 DEF UnlockStep, Sleepers
  <2>7. Counted' BY <1>10 DEF UnlockStep, Counted
  <2> QED BY <2>1, <2>2, <2>3, <2>4, <2>5, <2>6, <2>7
<1>11. CASE UnlockStep(l, "release_run", "run", "destroy_run")
  <2>1. Alone' BY <1>11 DEF UnlockStep, Alone
  <2>2. OneLoop' BY <1>11 DEF UnlockStep, OneLoop
  <2>3. Places' BY <1>11 DEF UnlockStep, Places
  <2>4. Started' BY <1>11 DEF UnlockStep, mutex_unlock, Started
  <2>5. Owners' BY <1>11 DEF UnlockStep, mutex_unlock, Owners
  <2>6. Sleepers' BY <1>11 DEF UnlockStep, Sleepers
  <2>7. Counted' BY <1>11 DEF UnlockStep, Counted
  <2> QED BY <2>1, <2>2, <2>3, <2>4, <2>5, <2>6, <2>7
<1>12. CASE Destroy(l, "run", "destroy_run", "cond_run")
  <2>1. Alone' BY <1>12 DEF Destroy, Alone
  <2>2. OneLoop' BY <1>12 DEF Destroy, OneLoop
  <2>3. Places' BY <1>12 DEF Destroy, Places
  <2>4. Started' BY <1>12 DEF Destroy, Started
  <2>5. Owners' BY <1>12 DEF Destroy, Owners
  <2>6. Sleepers' BY <1>12 DEF Destroy, mutex_signal, OneLoop, Sleepers
  <2>7. Counted' BY <1>12 DEF Destroy, OneLoop, Counted
  <2> QED BY <2>1, <2>2, <2>3, <2>4, <2>5, <2>6, <2>7
<1>13. CASE Drain(l, "run", "cond_run", "release_done")
  <2>1. Alone' BY <1>13 DEF Drain, Alone
  <2>2. OneLoop' BY <1>13 DEF Drain, OneLoop
  <2>3. Places' BY <1>13 DEF Drain, Places
  <2>4. Started' BY <1>13 DEF Drain, Started
  <2>5. Owners' BY <1>13 DEF Drain, Owners
  <2>6. Sleepers' BY <1>13 DEF Drain, Sleepers
  <2>7. Counted' BY <1>13 DEF Drain, Counted
  <2> QED BY <2>1, <2>2, <2>3, <2>4, <2>5, <2>6, <2>7
<1>14. CASE UnlockStep(l, "release_done", "done", "destroy_done")
  <2>1. Alone' BY <1>14 DEF UnlockStep, Alone
  <2>2. OneLoop' BY <1>14 DEF UnlockStep, OneLoop
  <2>3. Places' BY <1>14 DEF UnlockStep, Places
  <2>4. Started' BY <1>14 DEF UnlockStep, mutex_unlock, Started
  <2>5. Owners' BY <1>14 DEF UnlockStep, OneLoop, Places, Owners
  <2>6. Sleepers' BY <1>14 DEF UnlockStep, Sleepers
  <2>7. Counted' BY <1>14 DEF UnlockStep, Counted
  <2> QED BY <2>1, <2>2, <2>3, <2>4, <2>5, <2>6, <2>7
<1>15. CASE Destroy(l, "done", "destroy_done", "cond_done")
  <2>1. Alone' BY <1>15 DEF Destroy, Alone
  <2>2. OneLoop' BY <1>15 DEF Destroy, OneLoop
  <2>3. Places' BY <1>15 DEF Destroy, Places
  <2>4. Started' BY <1>15 DEF Destroy, OneLoop, Started
  <2>5. Owners' BY <1>15 DEF Destroy, Owners
  <2>6. Sleepers' BY <1>15 DEF Destroy, mutex_signal, OneLoop, Sleepers
  <2>7. Counted' BY <1>15 DEF Destroy, mutex_signal, Counted
  <2> QED BY <2>1, <2>2, <2>3, <2>4, <2>5, <2>6, <2>7
<1>16. CASE Drain(l, "done", "cond_done", "none")
  <2>1. Alone' BY <1>16 DEF Drain, Alone
  <2>2. OneLoop' BY <1>16 DEF Drain, OneLoop
  <2>3. Places' BY <1>16 DEF Drain, Places
  <2>4. Started' BY <1>16 DEF Drain, Started
  <2>5. Owners' BY <1>16 DEF Drain, Owners
  <2>6. Sleepers' BY <1>16 DEF Drain, Sleepers
  <2>7. Counted' BY <1>16 DEF Drain, Counted
  <2> QED BY <2>1, <2>2, <2>3, <2>4, <2>5, <2>6, <2>7
<1> QED BY <1>1, <1>2, <1>3, <1>4, <1>5, <1>6, <1>7, <1>8, <1>9, <1>10, <1>11,
     <1>12, <1>13, <1>14, <1>15, <1>16 DEF run_loop

(* Nothing makes a disturbed system undisturbed.                           *)
LEMMA DisturbedStays == [Next]_vars /\ ~disturbed' => ~disturbed
BY DEF Next, vars, Call, Start, Test, InitRun, InitDone, Create, HandOver,
  Post, run_loop, TestLoop, Run, Destroy, Drain, SpuriousWake, LockStep,
  UnlockStep, SignalStep, WaitStep, WakeStep

-----------------------------------------------------------------------------
(* The theorems                                                            *)

(* The invariant holds of every reachable state.                           *)
THEOREM Invariant == Spec => []Inv
<1>1. Init => Inv
  <2> SUFFICES ASSUME Init PROVE Inv
    OBVIOUS
  <2> USE ThreadAssumption DEF Init, Thread, Mutex
  <2>1. Typing
    <3>1. pc \in [Thread -> CallerAt \cup LoopAt]
      BY DEF CallerAt, LoopAt
    <3>2. \A c \in Caller : pc[c] \in CallerAt
      BY DEF CallerAt
    <3>3. \A l \in Loop : pc[l] \in LoopAt
      BY DEF LoopAt
    <3>4. initialized \in BOOLEAN /\ disturbed \in BOOLEAN
      BY Zenon
    <3>5. want \in [Caller -> Function] /\ call = NoCall
      BY DEF Function
    <3>6. /\ lock \in [Mutex -> Thread \cup {"free", "dead"}]
          /\ asleep \in [Mutex -> SUBSET Thread]
      OBVIOUS
    <3>7. ran \in [Caller -> 0..MaxRan]
      BY DEF MaxRan
    <3>8. length \in [Caller -> Length \cup {"none"}]
      OBVIOUS
    <3> QED BY <3>1, <3>2, <3>3, <3>4, <3>5, <3>6, <3>7, <3>8, Zenon
            DEF Typing, TypeOK
  <2>2. Alone /\ OneLoop /\ Places
    BY DEF Alone, OneLoop, Places, AtRest
  <2>3. Started /\ Owners
    BY DEF Started, Owners, Out
  <2>4. Sleepers /\ Counted
    BY DEF Sleepers, Counted, Woken
  <2> QED BY <2>1, <2>2, <2>3, <2>4 DEF Inv, Undisturbed
<1>2. Inv /\ [Next]_vars => Inv'
  <2> SUFFICES ASSUME Inv, [Next]_vars PROVE Inv'
    OBVIOUS
  <2>1. Typing'
    BY TypingKept DEF Inv
  <2>2. ASSUME ~disturbed' PROVE Undisturbed'
    <3>1. Typing /\ Undisturbed
      BY <2>2, DisturbedStays DEF Inv
    <3>2. CASE \E c \in Caller :
                 (\E f \in Function : Call(c, f)) \/ Start(c) \/ HandOver(c)
      BY <2>2, <3>1, <3>2, CallerKeeps
    <3>3. CASE \E l \in Loop : run_loop(l)
      BY <2>2, <3>1, <3>3, LoopKeeps
    <3>4. CASE \E t \in Thread, m \in Mutex : SpuriousWake(t, m)
      BY <2>2, <3>4 DEF SpuriousWake
    <3>5. CASE UNCHANGED vars
      BY <3>1, <3>5 DEF vars, Undisturbed, Alone, OneLoop, Places, Started,
                        Owners, Sleepers, Counted, Woken, Thread
    <3> QED BY <3>2, <3>3, <3>4, <3>5 DEF Next
  <2> QED BY <2>1, <2>2 DEF Inv
<1> QED BY <1>1, <1>2, PTL DEF Spec

(* The types of all variables.                                             *)
THEOREM TypeCorrect == Spec => []TypeOK
BY Invariant, PTL DEF Inv, Typing

(* No two threads run the calls of one start: same_thread makes one only   *)
(* after the last has left its loop, as long as calls do not overlap.      *)
THEOREM OneThreadRuns == Spec => []OneThread
<1>1. Inv => OneThread
  BY DEF Inv, Undisturbed, OneLoop, OneThread
<1> QED BY <1>1, Invariant, PTL

(* same_thread returns when the loop has run its call, once: the two       *)
(* condition variables without a predicate lose no call and repeat none.   *)
THEOREM CallsRunOnce == Spec => []RunsOnce
<1>1. Inv => RunsOnce
  BY DEF Inv, Undisturbed, Counted, RunsOnce
<1> QED BY <1>1, Invariant, PTL

-----------------------------------------------------------------------------
(* Whether a thread that waits can count on another.  A loop is there, or  *)
(* a caller is about to make one, between a start and a stop.              *)
LoopIsThere ==
  initialized => \/ \E l \in Loop : pc[l] # "none"
                 \/ \E c \in Caller : pc[c] \in {"init_done", "start_lock",
                          "create"}

(* Who owns a mutex is at a place it leaves by unlocking.                  *)
OnlyOwners ==
  \A t \in Thread :
    /\ lock["done"] = t =>
         pc[t] \in {"create", "start_wait", "started", "post", "unlock_run",
                  "wait",
                   "leave", "own_run", "ready", "ready_unlock", "answered",
                   "answer_unlock"}
    /\ lock["run"] = t =>
         pc[t] \in {"lock_done", "post", "unlock_run", "ready", "ready_unlock",
                  "loop",
                   "run", "answer", "answered", "answer_unlock", "release_run"}

(* A caller that sleeps has not missed the signal it sleeps for, nor does  *)
(* one that is about to sleep.                                             *)
WillBeWoken ==
  \A c \in Caller :
    /\ pc[c] = "starting" /\ c \in asleep["done"] =>
         \E l \in Loop : pc[l] \in {"born", "own_run", "ready"}
    /\ pc[c] = "waiting" /\ c \in asleep["done"] =>
         \E l \in Loop : Woken(l) \/ pc[l] \in {"answer", "answered"}
    /\ pc[c] \in {"unlock_run", "wait"} =>
         \E l \in Loop : Woken(l) \/ pc[l] = "answer"

Hopeful == LoopIsThere /\ OnlyOwners /\ WillBeWoken

(* A caller leaves no thread without hope.                                *)
LEMMA CallerKeepsHope ==
  ASSUME NEW c \in Caller, Typing, Undisturbed, Undisturbed', Hopeful,
           ~disturbed',
         (\E f \in Function : Call(c, f)) \/ Start(c) \/ HandOver(c)
  PROVE  Hopeful'
<1> USE ThreadAssumption
        DEF Typing, TypeOK, Thread, Mutex, CallerAt, LoopAt, Function,
            callVars, Go, Undisturbed, Hopeful, Woken, AtRest, Out, Answered
<1>1. CASE \E f \in Function : Call(c, f)
  <2>1. LoopIsThere' BY <1>1 DEF Call, LoopIsThere
  <2>2. OnlyOwners' BY <1>1 DEF Call, OnlyOwners
  <2>3. WillBeWoken' BY <1>1 DEF Call, WillBeWoken
  <2> QED BY <2>1, <2>2, <2>3
<1>2. CASE Test(c)
  <2>1. LoopIsThere' BY <1>2 DEF Test, LoopIsThere
  <2>2. OnlyOwners' BY <1>2 DEF Test, OnlyOwners
  <2>3. WillBeWoken' BY <1>2 DEF Test, WillBeWoken
  <2> QED BY <2>1, <2>2, <2>3
<1>3. CASE InitRun(c)
  <2>1. LoopIsThere' BY <1>3 DEF InitRun, LoopIsThere
  <2>2. OnlyOwners' BY <1>3 DEF InitRun, mutex_init, OnlyOwners
  <2>3. WillBeWoken' BY <1>3 DEF InitRun, WillBeWoken
  <2> QED BY <2>1, <2>2, <2>3
<1>4. CASE InitDone(c)
  <2>1. LoopIsThere' BY <1>4 DEF InitDone, LoopIsThere
  <2>2. OnlyOwners' BY <1>4 DEF InitDone, mutex_init, OnlyOwners
  <2>3. WillBeWoken' BY <1>4 DEF InitDone, WillBeWoken
  <2> QED BY <2>1, <2>2, <2>3
<1>5. CASE LockStep(c, "start_lock", "done", "create")
  <2>1. LoopIsThere' BY <1>5 DEF LockStep, LoopIsThere
  <2>2. OnlyOwners' BY <1>5 DEF LockStep, mutex_lock, OnlyOwners
  <2>3. WillBeWoken' BY <1>5 DEF LockStep, WillBeWoken
  <2> QED BY <2>1, <2>2, <2>3
<1>6. CASE Create(c)
  <2>1. LoopIsThere' BY <1>6 DEF Create, LoopIsThere
  <2>2. OnlyOwners' BY <1>6 DEF Create, OnlyOwners
  <2>3. WillBeWoken' BY <1>6 DEF Create, WillBeWoken
  <2> QED BY <2>1, <2>2, <2>3
<1>7. CASE WaitStep(c, "start_wait", "done", "starting")
  <2>1. LoopIsThere' BY <1>7 DEF WaitStep, LoopIsThere
  <2>2. OnlyOwners' BY <1>7 DEF WaitStep, mutex_wait, mutex_unlock, OnlyOwners
  <2>3. WillBeWoken' BY <1>7 DEF WaitStep, Alone, Places, Started, LoopIsThere,
           WillBeWoken
  <2> QED BY <2>1, <2>2, <2>3
<1>8. CASE WakeStep(c, "starting", "done", "started")
  <2>1. LoopIsThere' BY <1>8 DEF WakeStep, LoopIsThere
  <2>2. OnlyOwners' BY <1>8 DEF WakeStep, mutex_wake, mutex_lock, OnlyOwners
  <2>3. WillBeWoken' BY <1>8 DEF WakeStep, WillBeWoken
  <2> QED BY <2>1, <2>2, <2>3
<1>9. CASE UnlockStep(c, "started", "done", "lock_run")
  <2>1. LoopIsThere' BY <1>9 DEF UnlockStep, LoopIsThere
  <2>2. OnlyOwners' BY <1>9 DEF UnlockStep, mutex_unlock, OnlyOwners
  <2>3. WillBeWoken' BY <1>9 DEF UnlockStep, WillBeWoken
  <2> QED BY <2>1, <2>2, <2>3
<1>10. CASE LockStep(c, "lock_run", "run", "lock_done")
  <2>1. LoopIsThere' BY <1>10 DEF LockStep, LoopIsThere
  <2>2. OnlyOwners' BY <1>10 DEF LockStep, mutex_lock, OnlyOwners
  <2>3. WillBeWoken' BY <1>10 DEF LockStep, WillBeWoken
  <2> QED BY <2>1, <2>2, <2>3
<1>11. CASE LockStep(c, "lock_done", "done", "post")
  <2>1. LoopIsThere' BY <1>11 DEF LockStep, LoopIsThere
  <2>2. OnlyOwners' BY <1>11 DEF LockStep, mutex_lock, OnlyOwners
  <2>3. WillBeWoken' BY <1>11 DEF LockStep, WillBeWoken
  <2> QED BY <2>1, <2>2, <2>3
<1>12. CASE Post(c)
  <2>1. LoopIsThere' BY <1>12 DEF Post, LoopIsThere
  <2>2. OnlyOwners' BY <1>12 DEF Post, OnlyOwners
  <2>3. WillBeWoken' BY <1>12 DEF Post, mutex_signal, Alone, Places, Started,
           Sleepers, LoopIsThere, WillBeWoken
  <2> QED BY <2>1, <2>2, <2>3
<1>13. CASE UnlockStep(c, "unlock_run", "run", "wait")
  <2>1. LoopIsThere' BY <1>13 DEF UnlockStep, LoopIsThere
  <2>2. OnlyOwners' BY <1>13 DEF UnlockStep, mutex_unlock, OnlyOwners
  <2>3. WillBeWoken' BY <1>13 DEF UnlockStep, WillBeWoken
  <2> QED BY <2>1, <2>2, <2>3
<1>14. CASE WaitStep(c, "wait", "done", "waiting")
  <2>1. LoopIsThere' BY <1>14 DEF WaitStep, LoopIsThere
  <2>2. OnlyOwners' BY <1>14 DEF WaitStep, mutex_wait, mutex_unlock, OnlyOwners
  <2>3. WillBeWoken' BY <1>14 DEF WaitStep, mutex_wait, WillBeWoken
  <2> QED BY <2>1, <2>2, <2>3
<1>15. CASE WakeStep(c, "waiting", "done", "leave")
  <2>1. LoopIsThere' BY <1>15 DEF WakeStep, LoopIsThere
  <2>2. OnlyOwners' BY <1>15 DEF WakeStep, mutex_wake, mutex_lock, OnlyOwners
  <2>3. WillBeWoken' BY <1>15 DEF WakeStep, WillBeWoken
  <2> QED BY <2>1, <2>2, <2>3
<1>16. CASE UnlockStep(c, "leave", "done", "idle")
  <2>1. LoopIsThere' BY <1>16 DEF UnlockStep, LoopIsThere
  <2>2. OnlyOwners' BY <1>16 DEF UnlockStep, mutex_unlock, OnlyOwners
  <2>3. WillBeWoken' BY <1>16 DEF UnlockStep, WillBeWoken
  <2> QED BY <2>1, <2>2, <2>3
<1> QED BY <1>1, <1>2, <1>3, <1>4, <1>5, <1>6, <1>7, <1>8, <1>9, <1>10, <1>11,
         <1>12, <1>13, <1>14, <1>15, <1>16 DEF Start, HandOver

(* Nor does the loop.                                                     *)
LEMMA LoopKeepsHope ==
  ASSUME NEW l \in Loop, Typing, Undisturbed, Undisturbed', Hopeful,
           ~disturbed',
         run_loop(l)
  PROVE  Hopeful'
<1> USE ThreadAssumption
        DEF Typing, TypeOK, Thread, Mutex, CallerAt, LoopAt, Function,
            callVars, Go, Undisturbed, Hopeful, Woken, AtRest, Out, Answered
<1>1. CASE LockStep(l, "born", "done", "own_run")
  <2>1. LoopIsThere' BY <1>1 DEF LockStep, LoopIsThere
  <2>2. OnlyOwners' BY <1>1 DEF LockStep, mutex_lock, OnlyOwners
  <2>3. WillBeWoken' BY <1>1 DEF LockStep, WillBeWoken
  <2> QED BY <2>1, <2>2, <2>3
<1>2. CASE LockStep(l, "own_run", "run", "ready")
  <2>1. LoopIsThere' BY <1>2 DEF LockStep, LoopIsThere
  <2>2. OnlyOwners' BY <1>2 DEF LockStep, mutex_lock, OnlyOwners
  <2>3. WillBeWoken' BY <1>2 DEF LockStep, WillBeWoken
  <2> QED BY <2>1, <2>2, <2>3
<1>3. CASE SignalStep(l, "ready", "done", "ready_unlock")
  <2>1. LoopIsThere' BY <1>3 DEF SignalStep, LoopIsThere
  <2>2. OnlyOwners' BY <1>3 DEF SignalStep, OnlyOwners
  <2>3. WillBeWoken' BY <1>3 DEF SignalStep, mutex_signal, Alone, Sleepers,
           WillBeWoken
  <2> QED BY <2>1, <2>2, <2>3
<1>4. CASE UnlockStep(l, "ready_unlock", "done", "loop")
  <2>1. LoopIsThere' BY <1>4 DEF UnlockStep, LoopIsThere
  <2>2. OnlyOwners' BY <1>4 DEF UnlockStep, mutex_unlock, OnlyOwners
  <2>3. WillBeWoken' BY <1>4 DEF UnlockStep, WillBeWoken
  <2> QED BY <2>1, <2>2, <2>3
<1>5. CASE TestLoop(l)
  <2>1. LoopIsThere'
    <3>1. pc'[l] # "none"
      BY <1>5 DEF TestLoop, WaitStep
    <3> QED BY <3>1 DEF LoopIsThere
  <2>2. OnlyOwners' BY <1>5 DEF TestLoop, WaitStep, mutex_wait, mutex_unlock,
           OnlyOwners
  <2>3. WillBeWoken' BY <1>5 DEF TestLoop, WaitStep, mutex_wait, WillBeWoken
  <2> QED BY <2>1, <2>2, <2>3
<1>6. CASE WakeStep(l, "sleeping", "run", "run")
  <2>1. LoopIsThere' BY <1>6 DEF WakeStep, LoopIsThere
  <2>2. OnlyOwners' BY <1>6 DEF WakeStep, mutex_wake, mutex_lock, OnlyOwners
  <2>3. WillBeWoken' BY <1>6 DEF WakeStep, WillBeWoken
  <2> QED BY <2>1, <2>2, <2>3
<1>7. CASE Run(l)
  <2>1. LoopIsThere'
    <3>1. pc'[l] # "none"
      BY <1>7 DEF Run
    <3> QED BY <3>1 DEF LoopIsThere
  <2>2. OnlyOwners' BY <1>7 DEF Run, Places, OnlyOwners
  <2>3. WillBeWoken' BY <1>7 DEF Run, Sleepers, WillBeWoken
  <2> QED BY <2>1, <2>2, <2>3
<1>8. CASE LockStep(l, "answer", "done", "answered")
  <2>1. LoopIsThere' BY <1>8 DEF LockStep, LoopIsThere
  <2>2. OnlyOwners' BY <1>8 DEF LockStep, mutex_lock, OnlyOwners
  <2>3. WillBeWoken' BY <1>8 DEF LockStep, Owners, WillBeWoken
  <2> QED BY <2>1, <2>2, <2>3
<1>9. CASE SignalStep(l, "answered", "done", "answer_unlock")
  <2>1. LoopIsThere' BY <1>9 DEF SignalStep, LoopIsThere
  <2>2. OnlyOwners' BY <1>9 DEF SignalStep, OnlyOwners
  <2>3. WillBeWoken' BY <1>9 DEF SignalStep, mutex_signal, Alone, Sleepers,
           WillBeWoken
  <2> QED BY <2>1, <2>2, <2>3
<1>10. CASE UnlockStep(l, "answer_unlock", "done", "loop")
  <2>1. LoopIsThere' BY <1>10 DEF UnlockStep, LoopIsThere
  <2>2. OnlyOwners' BY <1>10 DEF UnlockStep, mutex_unlock, OnlyOwners
  <2>3. WillBeWoken' BY <1>10 DEF UnlockStep, WillBeWoken
  <2> QED BY <2>1, <2>2, <2>3
<1>11. CASE UnlockStep(l, "release_run", "run", "destroy_run")
  <2>1. LoopIsThere' BY <1>11 DEF UnlockStep, LoopIsThere
  <2>2. OnlyOwners' BY <1>11 DEF UnlockStep, mutex_unlock, OnlyOwners
  <2>3. WillBeWoken' BY <1>11 DEF UnlockStep, WillBeWoken
  <2> QED BY <2>1, <2>2, <2>3
<1>12. CASE Destroy(l, "run", "destroy_run", "cond_run")
  <2>1. LoopIsThere' BY <1>12 DEF Destroy, LoopIsThere
  <2>2. OnlyOwners' BY <1>12 DEF Destroy, OnlyOwners
  <2>3. WillBeWoken' BY <1>12 DEF Destroy, mutex_signal, WillBeWoken
  <2> QED BY <2>1, <2>2, <2>3
<1>13. CASE Drain(l, "run", "cond_run", "release_done")
  <2>1. LoopIsThere' BY <1>13 DEF Drain, LoopIsThere
  <2>2. OnlyOwners' BY <1>13 DEF Drain, OnlyOwners
  <2>3. WillBeWoken' BY <1>13 DEF Drain, WillBeWoken
  <2> QED BY <2>1, <2>2, <2>3
<1>14. CASE UnlockStep(l, "release_done", "done", "destroy_done")
  <2>1. LoopIsThere' BY <1>14 DEF UnlockStep, LoopIsThere
  <2>2. OnlyOwners' BY <1>14 DEF UnlockStep, mutex_unlock, OnlyOwners
  <2>3. WillBeWoken' BY <1>14 DEF UnlockStep, WillBeWoken
  <2> QED BY <2>1, <2>2, <2>3
<1>15. CASE Destroy(l, "done", "destroy_done", "cond_done")
  <2>1. LoopIsThere' BY <1>15 DEF Destroy, LoopIsThere
  <2>2. OnlyOwners' BY <1>15 DEF Destroy, OnlyOwners
  <2>3. WillBeWoken' BY <1>15 DEF Destroy, mutex_signal, WillBeWoken
  <2> QED BY <2>1, <2>2, <2>3
<1>16. CASE Drain(l, "done", "cond_done", "none")
  <2>1. LoopIsThere' BY <1>16 DEF Drain, Started, LoopIsThere
  <2>2. OnlyOwners' BY <1>16 DEF Drain, OnlyOwners
  <2>3. WillBeWoken' BY <1>16 DEF Drain, WillBeWoken
  <2> QED BY <2>1, <2>2, <2>3
<1> QED BY <1>1, <1>2, <1>3, <1>4, <1>5, <1>6, <1>7, <1>8, <1>9, <1>10, <1>11,
         <1>12, <1>13, <1>14, <1>15, <1>16 DEF run_loop


(* Hope is never lost.                                                     *)
THEOREM NoLostSignal == Spec => [](~disturbed => Hopeful)
<1> DEFINE Hope == ~disturbed => Hopeful
<1>1. Init => Hope
  BY ThreadAssumption
  DEF Init, Thread, Mutex, Hopeful, LoopIsThere, OnlyOwners, WillBeWoken
<1>2. Inv /\ Inv' /\ Hope /\ [Next]_vars => Hope'
  <2> SUFFICES ASSUME Inv, Inv', Hope, [Next]_vars, ~disturbed' PROVE Hopeful'
    OBVIOUS
  <2>1. Typing /\ Undisturbed /\ Undisturbed' /\ Hopeful
    BY DisturbedStays DEF Inv
  <2>2. CASE \E c \in Caller :
               (\E f \in Function : Call(c, f)) \/ Start(c) \/ HandOver(c)
    BY <2>1, <2>2, CallerKeepsHope
  <2>3. CASE \E l \in Loop : run_loop(l)
    BY <2>1, <2>3, LoopKeepsHope
  <2>4. CASE \E t \in Thread, m \in Mutex : SpuriousWake(t, m)
    BY <2>4 DEF SpuriousWake
  <2>5. CASE UNCHANGED vars
    BY <2>1, <2>5 DEF vars, Hopeful, LoopIsThere, OnlyOwners, WillBeWoken,
             Woken
  <2> QED BY <2>2, <2>3, <2>4, <2>5 DEF Next
<1> HIDE DEF Hope
<1>3. Spec => []Hope
  BY <1>1, <1>2, Invariant, PTL DEF Spec
<1> QED BY <1>3, PTL DEF Hope

-----------------------------------------------------------------------------
(* A thread that can go on                                                 *)

(* There is something to do: a call, or the end of a loop.                 *)
Busy == (\E c \in Caller : pc[c] # "idle") \/ \E l \in Loop : Ending(l)

CanGoOn == (\E c \in Caller : CallerCan(c)) \/ \E l \in Loop : LoopCan(l)

LEMMA NotCrashed == ASSUME Typing, Undisturbed PROVE ~Crashed
BY DEF Typing, TypeOK, CallerAt, Undisturbed, Places, AtRest, Answered, Out, Crashed

(* While one has called the core, it or the loop can go on.                *)
LEMMA SomeoneCanCall ==
  ASSUME Typing, Undisturbed, Hopeful, NEW c \in Caller, pc[c] # "idle"
  PROVE  CanGoOn
<1> USE ThreadAssumption, NotCrashed
        DEF Typing, TypeOK, Thread, Mutex, Undisturbed, Hopeful, CanGoOn,
                 CallerCan,
            LoopCan, CanLock, Woken
<1>1. CASE pc[c] \in {"test", "init_run", "init_done", "start_wait", "started",
         "post",
                      "unlock_run", "wait", "leave"}
  BY <1>1 DEF Sleepers
<1>2. CASE pc[c] \in {"start_lock", "lock_done"}
  BY <1>2 DEF Alone, Places, Sleepers, OnlyOwners
<1>3. CASE pc[c] = "create"
  BY <1>3, LoopAssumption DEF Places, Sleepers
<1>4. CASE pc[c] = "lock_run"
  BY <1>4 DEF Alone, Places, Sleepers, OnlyOwners
<1>5. CASE pc[c] \in {"starting", "waiting"} /\ c \notin asleep["done"]
  BY <1>5 DEF Alone, Places, Sleepers, OnlyOwners
<1>6. CASE pc[c] = "starting" /\ c \in asleep["done"]
  BY <1>6 DEF Alone, Places, Sleepers, OnlyOwners, WillBeWoken
<1>7. CASE pc[c] = "waiting" /\ c \in asleep["done"]
  BY <1>7 DEF Alone, OneLoop, Places, Sleepers, OnlyOwners, WillBeWoken
<1> QED BY <1>1, <1>2, <1>3, <1>4, <1>5, <1>6, <1>7 DEF CallerAt

(* While nobody calls, a loop that was stopped can go on.                  *)
LEMMA SomeoneCanEnd ==
  ASSUME Typing, Undisturbed, Hopeful, NEW l \in Loop, Ending(l),
         \A c \in Caller : pc[c] = "idle"
  PROVE  LoopCan(l)
BY ThreadAssumption, NotCrashed
DEF Typing, TypeOK, Thread, Mutex, Undisturbed, OneLoop, Places, Started,
         Sleepers,
    AtRest, Out, Ending, LoopCan

-----------------------------------------------------------------------------
(* What is left to do                                                      *)

(* The operations a caller has left before it returns.                     *)
CallerLeft(c) ==
  LET p == pc[c] IN
  CASE p = "idle" -> 0 [] p = "leave" -> 1 [] p = "waiting" -> 2 [] p = "wait" -> 3
    [] p = "unlock_run" -> 4 [] p = "post" -> 5 [] p = "lock_done" -> 6
    [] p = "lock_run" -> 7 [] p = "started" -> 8 [] p = "starting" -> 9
    [] p = "start_wait" -> 10 [] p = "create" -> 11 [] p = "start_lock" -> 12
    [] p = "init_done" -> 13 [] p = "init_run" -> 14 [] p = "test" -> 15

(* The operations a loop has left before it sleeps or ends.                *)
LoopLeft(l) ==
  LET p == pc[l] IN
  CASE p = "none" -> 0 [] p = "sleeping" -> IF l \in asleep["run"] THEN 0 ELSE 12
    [] p \in {"born", "run"} -> 11 [] p \in {"own_run", "answer"} -> 10
    [] p \in {"ready", "answered"} -> 9 [] p \in {"ready_unlock",
             "answer_unlock"} -> 8
    [] p = "loop" -> 7 [] p = "release_run" -> 6 [] p = "destroy_run" -> 5
    [] p = "cond_run" -> 4 [] p = "release_done" -> 3 [] p = "destroy_done" -> 2
    [] p = "cond_done" -> 1

(* That of the one caller and of the one loop.                             *)
CallersLeft(i) ==
  \/ \E c \in Caller : pc[c] # "idle" /\ i = CallerLeft(c)
  \/ i = 0 /\ \A c \in Caller : pc[c] = "idle"

LoopsLeft(j) ==
  \/ \E l \in Loop : pc[l] # "none" /\ j = LoopLeft(l)
  \/ j = 0 /\ \A l \in Loop : pc[l] = "none"

CallerCount(c) == CallerLeft(c) \in 0..15 /\ (pc[c] = "idle" => CallerLeft(c) = 0)

LoopCount(l) == LoopLeft(l) \in 0..12 /\ (pc[l] = "none" => LoopLeft(l) = 0)

LEMMA CallerCounts ==
  ASSUME NEW c \in Caller PROVE Typing => CallerCount(c)
<1> SUFFICES ASSUME Typing PROVE CallerCount(c)
  OBVIOUS
<1>1. pc[c] \in CallerAt
  BY DEF Typing, TypeOK
<1>2. pc[c] = "idle" => CallerLeft(c) = 0
  BY DEF CallerLeft
<1>3. CallerLeft(c) \in 0..15
  BY <1>1 DEF CallerAt, CallerLeft
<1> QED BY <1>2, <1>3 DEF CallerCount

LEMMA CallerCountsAfter ==
  ASSUME NEW c \in Caller PROVE (Typing => CallerCount(c))'
BY CallerCounts, PTL

LEMMA LoopCounts ==
  ASSUME NEW l \in Loop PROVE Typing /\ Undisturbed => LoopCount(l)
BY NotCrashed DEF Typing, TypeOK, LoopAt, LoopLeft, LoopCount, Crashed

LEMMA LoopCountsAfter ==
  ASSUME NEW l \in Loop PROVE (Typing /\ Undisturbed => LoopCount(l))'
BY LoopCounts, PTL

LEMMA LoopsCount == Typing /\ Undisturbed => \E j \in 0..12 : LoopsLeft(j)
BY LoopCounts DEF LoopsLeft, LoopCount

LEMMA LoopsCountAfter ==
  (Typing /\ Undisturbed => \E j \in 0..12 : LoopsLeft(j))'
BY LoopsCount, PTL

LEMMA CallersCount == Typing => \E i \in 0..15 : CallersLeft(i)
BY CallerCounts DEF CallersLeft, CallerCount

LEMMA CallerDescends ==
  ASSUME NEW c \in Caller, Typing, Start(c) \/ HandOver(c)
  PROVE  /\ CallerLeft(c)' < CallerLeft(c) /\ pc[c] # "idle"
         /\ \A d \in Caller \ {c} : pc'[d] = pc[d]
<1> USE ThreadAssumption DEF Typing, TypeOK, Thread, CallerLeft, Go, CallerAt
<1>1. CASE Start(c)
  BY <1>1 DEF Start, Test, InitRun, InitDone, LockStep, Create, WaitStep,
           WakeStep, UnlockStep
<1>2. CASE HandOver(c)
  BY <1>2 DEF HandOver, LockStep, Post, WaitStep, WakeStep, UnlockStep
<1> QED BY <1>1, <1>2

LEMMA LoopDescends ==
  ASSUME NEW l \in Loop, Typing, Undisturbed, run_loop(l)
  PROVE  /\ LoopLeft(l)' < LoopLeft(l) /\ pc[l] # "none"
         /\ \A c \in Caller : pc'[c] = pc[c]
         /\ \A k \in Loop \ {l} : pc'[k] = pc[k]
<1> USE ThreadAssumption DEF Typing, TypeOK, Thread, Mutex, LoopLeft, Go,
         LoopAt, Undisturbed
<1>1. CASE TestLoop(l)
  BY <1>1 DEF TestLoop, WaitStep, mutex_wait, mutex_unlock, Owners
<1>2. CASE WakeStep(l, "sleeping", "run", "run")
  BY <1>2 DEF WakeStep, mutex_wake
<1>3. CASE Run(l)
  BY <1>3 DEF Run, Sleepers, Woken
<1>4. CASE ~ (TestLoop(l) \/ WakeStep(l, "sleeping", "run", "run") \/ Run(l))
  BY <1>4 DEF run_loop, LockStep, SignalStep, UnlockStep, Destroy, Drain
<1> QED BY <1>1, <1>2, <1>3, <1>4
(* A state of a busy, undisturbed system, and how much is left.            *)
Left(i, j) == ~disturbed /\ Busy /\ CallersLeft(i) /\ LoopsLeft(j)

CallerBelow(i) == \E h \in 0..15, k \in 0..12 : h < i /\ Left(h, k)

LoopBelow(i, j) == \E k \in 0..12 : k < j /\ Left(i, k)

Quiet == disturbed \/ ~Busy

LEMMA BusyCanGoOn ==
  ASSUME Inv, ~disturbed => Hopeful, ~disturbed, Busy PROVE CanGoOn
<1>1. Typing /\ Undisturbed /\ Hopeful
  BY DEF Inv
<1>2. CASE \E c \in Caller : pc[c] # "idle"
  BY <1>1, <1>2, SomeoneCanCall
<1>3. CASE \A c \in Caller : pc[c] = "idle"
  BY <1>1, <1>3, SomeoneCanEnd DEF Busy, CanGoOn
<1> QED BY <1>2, <1>3

(* A step of a thread leaves less to do.                                   *)
LEMMA ThreadDescends ==
  ASSUME NEW i \in 0..15, NEW j \in 0..12, Inv, Inv', Left(i, j), ThreadStep, ~Quiet'
  PROVE  CallerBelow(i)' \/ LoopBelow(i, j)'
<1>1. ~disturbed' /\ Busy' /\ Typing /\ Typing' /\ Undisturbed /\ Undisturbed'
  BY DEF Quiet, Left, Inv
<1>2. PICK k \in 0..12 : LoopsLeft(k)'
  BY <1>1, LoopsCountAfter
<1>3. ASSUME NEW c \in Caller, Start(c) \/ HandOver(c) PROVE CallerBelow(i)'
  <2>1. /\ CallerLeft(c)' < CallerLeft(c) /\ pc[c] # "idle"
        /\ \A d \in Caller \ {c} : pc'[d] = pc[d]
    BY <1>1, <1>3, CallerDescends
  <2>2. i = CallerLeft(c)
    BY <1>1, <2>1 DEF Left, CallersLeft, Undisturbed, Alone
  <2>3. CallerLeft(c)' \in 0..15 /\ (pc'[c] = "idle" => CallerLeft(c)' = 0)
    BY <1>1, CallerCountsAfter DEF CallerCount
  <2>4. PICK h \in 0..15 : h = CallerLeft(c)'
    BY <2>3
  <2>5. CallersLeft(h)'
    BY <1>1, <2>1, <2>3, <2>4 DEF CallersLeft, Undisturbed, Alone
  <2>6. Left(h, k)'
    BY <1>1, <1>2, <2>5 DEF Left
  <2> QED BY <1>2, <2>1, <2>2, <2>4, <2>6 DEF CallerBelow
<1>4. ASSUME NEW l \in Loop, run_loop(l) PROVE LoopBelow(i, j)'
  <2>1. /\ LoopLeft(l)' < LoopLeft(l) /\ pc[l] # "none"
        /\ \A c \in Caller : pc'[c] = pc[c]
        /\ \A m \in Loop \ {l} : pc'[m] = pc[m]
    BY <1>1, <1>4, LoopDescends
  <2>2. j = LoopLeft(l)
    BY <1>1, <2>1 DEF Left, LoopsLeft, Undisturbed, OneLoop
  <2>3. LoopLeft(l)' \in 0..12 /\ (pc'[l] = "none" => LoopLeft(l)' = 0)
    BY <1>1, LoopCountsAfter DEF LoopCount
  <2>4. PICK h \in 0..12 : h = LoopLeft(l)'
    BY <2>3
  <2>5. LoopsLeft(h)'
    BY <1>1, <2>1, <2>3, <2>4 DEF LoopsLeft, Undisturbed, OneLoop
  <2>6. CallersLeft(i)'
    BY <2>1 DEF Left, CallersLeft, CallerLeft
  <2>7. Left(i, h)'
    BY <1>1, <2>5, <2>6 DEF Left
  <2> QED BY <2>1, <2>2, <2>4, <2>7 DEF LoopBelow
<1> QED BY <1>3, <1>4 DEF ThreadStep

LEMMA EveryStepDescends ==
  ASSUME NEW i \in 0..15, NEW j \in 0..12, Inv, Inv', Left(i, j), [Next]_vars
  PROVE  Left(i, j)' \/ Quiet' \/ CallerBelow(i)' \/ LoopBelow(i, j)'
<1>1. CASE ThreadStep
  BY <1>1, ThreadDescends
<1>2. ASSUME NEW c \in Caller, NEW f \in Function, Call(c, f) PROVE Quiet'
  BY <1>2 DEF Call, Go, Left, Busy, Quiet
<1>3. ASSUME NEW t \in Thread, NEW m \in Mutex, SpuriousWake(t, m) PROVE Quiet'
  BY <1>3 DEF SpuriousWake, Quiet
<1>4. CASE UNCHANGED vars
  BY <1>4 DEF vars, Left, Busy, CallersLeft, LoopsLeft, CallerLeft, LoopLeft, Ending
<1> QED BY <1>1, <1>2, <1>3, <1>4 DEF Next, ThreadStep

-----------------------------------------------------------------------------
(* Liveness                                                                *)

Live == FairSpec /\ []StepsAreEnabled

LoopDescent(i, k, j) ==
  LoopBelow(i, k) ~> (Quiet \/ CallerBelow(i) \/ LoopBelow(i, j))

CallerDescent(k, i) == CallerBelow(k) ~> (Quiet \/ CallerBelow(i))

(* From a state with so much left it comes to one with less.               *)
LEMMA LoopLess ==
  ASSUME NEW i \in 0..15, NEW j \in 0..12, NEW k \in 1..13, k = j + 1
  PROVE  Live => LoopDescent(i, k, j)
<1> DEFINE Goal == Quiet \/ CallerBelow(i) \/ LoopBelow(i, j)
           Hope == ~disturbed => Hopeful
<1>1. Inv /\ Inv' /\ Left(i, j) /\ [Next]_vars => Left(i, j)' \/ Goal'
  BY EveryStepDescends
<1>2. Inv /\ Inv' /\ Left(i, j) /\ <<ThreadStep>>_vars => Goal'
  BY ThreadDescends
<1>3. Inv /\ Hope /\ StepsAreEnabled /\ Left(i, j) => ENABLED <<ThreadStep>>_vars
  BY BusyCanGoOn DEF Left, CanGoOn, StepsAreEnabled
<1>4. LoopBelow(i, k) => Left(i, j) \/ LoopBelow(i, j)
  BY DEF LoopBelow
<1> HIDE DEF Goal, Hope
<1>5. Spec => []Hope
  BY NoLostSignal, PTL DEF Hope
<1>6. Live => (Left(i, j) ~> Goal)
  BY <1>1, <1>2, <1>3, <1>5, Invariant, PTL DEF Live, FairSpec, Spec, Fairness
<1> QED BY <1>4, <1>6, PTL DEF Goal, LoopDescent

(* The loop comes to the end of what it can do, unless a caller goes on.   *)
LEMMA CallerLess ==
  ASSUME NEW i \in 0..15, NEW k \in 1..16, k = i + 1
  PROVE  Live => CallerDescent(k, i)
<1>1. Live => /\ LoopDescent(i, 13, 12) /\ LoopDescent(i, 12, 11)
              /\ LoopDescent(i, 11, 10) /\ LoopDescent(i, 10, 9)
              /\ LoopDescent(i, 9, 8) /\ LoopDescent(i, 8, 7)
              /\ LoopDescent(i, 7, 6) /\ LoopDescent(i, 6, 5)
              /\ LoopDescent(i, 5, 4) /\ LoopDescent(i, 4, 3)
              /\ LoopDescent(i, 3, 2) /\ LoopDescent(i, 2, 1)
              /\ LoopDescent(i, 1, 0)
  BY LoopLess
<1>2. ~LoopBelow(i, 0)
  BY DEF LoopBelow
<1>3. CallerBelow(k) => LoopBelow(i, 13) \/ CallerBelow(i)
  BY DEF CallerBelow, LoopBelow
<1> QED BY <1>1, <1>2, <1>3, PTL DEF LoopDescent, CallerDescent

LEMMA BusyEnds == Live => (Busy ~> Quiet)
<1>1. Live => /\ CallerDescent(16, 15) /\ CallerDescent(15, 14)
              /\ CallerDescent(14, 13) /\ CallerDescent(13, 12)
              /\ CallerDescent(12, 11) /\ CallerDescent(11, 10)
              /\ CallerDescent(10, 9) /\ CallerDescent(9, 8)
              /\ CallerDescent(8, 7) /\ CallerDescent(7, 6)
              /\ CallerDescent(6, 5) /\ CallerDescent(5, 4)
              /\ CallerDescent(4, 3) /\ CallerDescent(3, 2)
              /\ CallerDescent(2, 1) /\ CallerDescent(1, 0)
  BY CallerLess
<1>2. ~CallerBelow(0)
  BY DEF CallerBelow
<1>3. Inv /\ Busy => Quiet \/ CallerBelow(16)
  BY CallersCount, LoopsCount DEF Inv, Quiet, CallerBelow, Left
<1> QED
  BY <1>1, <1>2, <1>3, Invariant, PTL DEF Live, FairSpec, CallerDescent

(* A loop that was stopped stays so until it has ended.                    *)
LEMMA EndingStays ==
  ASSUME NEW l \in Loop, Inv, Inv', Ending(l), [Next]_vars
  PROVE  Ending(l)' \/ pc'[l] = "none" \/ disturbed'
<1> SUFFICES ASSUME ~disturbed' PROVE ~initialized'
  BY DEF Ending
<1>1. Typing /\ Undisturbed /\ ~initialized
  BY DisturbedStays DEF Inv, Ending
<1>2. ASSUME NEW c \in Caller, InitRun(c) PROVE FALSE
  BY <1>1, <1>2 DEF InitRun, Go, Undisturbed, Places, Ending
<1> QED
  BY <1>1, <1>2
  DEF Next, vars, Call, Start, Test, InitDone, Create, HandOver, Post, run_loop,
      TestLoop, Run, Destroy, Drain, SpuriousWake, LockStep, UnlockStep, SignalStep,
      WaitStep, WakeStep

(* Every call of the core returns and every loop that was stopped ends:    *)
(* no thread sleeps for a signal that came too early or waits for a mutex  *)
(* nobody unlocks, as long as calls do not overlap.                        *)
THEOREM CallsReturn == FairSpec /\ []StepsAreEnabled => CallReturns
<1>1. ASSUME NEW c \in Caller
      PROVE  Live => (pc[c] # "idle" ~> pc[c] = "idle" \/ disturbed)
  <2>1. pc[c] # "idle" => Busy
    BY DEF Busy
  <2>2. Quiet => pc[c] = "idle" \/ disturbed
    BY DEF Quiet, Busy
  <2> QED BY <2>1, <2>2, BusyEnds, PTL
<1>2. ASSUME NEW l \in Loop
      PROVE  Live => (Ending(l) ~> pc[l] = "none" \/ disturbed)
  <2> DEFINE Gone == pc[l] = "none" \/ disturbed
  <2>1. Ending(l) => Busy
    BY DEF Busy
  <2>2. Quiet /\ Ending(l) => Gone
    BY DEF Quiet, Busy
  <2>3. Inv /\ Inv' /\ Ending(l) /\ [Next]_vars => Ending(l)' \/ Gone'
    BY EndingStays
  <2> HIDE DEF Gone
  <2>4. Live => (Ending(l) ~> Gone)
    BY <2>1, <2>2, <2>3, BusyEnds, Invariant, PTL DEF Live, FairSpec, Spec
  <2> QED BY <2>4, PTL DEF Gone
<1> QED BY <1>1, <1>2 DEF Live, CallReturns
=============================================================================
