---------------------------- MODULE CoreThread ----------------------------
(***************************************************************************)
(* The core thread of nanoarch.c.  Cores built with libco must be called   *)
(* from one thread: same_thread makes that thread when there is none and   *)
(* hands it one call at a time through the global record call; run_loop    *)
(* runs the calls until same_thread_stop is among them.                    *)
(*                                                                         *)
(* Two pairs of a mutex and a condition variable serve the hand-over: run  *)
(* is held by the loop except while it waits for a call, done by a caller  *)
(* from before its call is posted until it sleeps.  Neither wait has a     *)
(* predicate.  Each pthread operation is a step of its own.  The C         *)
(* standard leaves the use of a destroyed mutex undefined; here it returns *)
(* an error that nobody looks at, as in the GNU C library.                 *)
(***************************************************************************)
EXTENDS Naturals, FiniteSets

CONSTANTS Caller,   \* the goroutines that call the core
          Loop,     \* the threads pthread_create can make
          NoCall

VARIABLES
  initialized,  \* nanoarch.c: initialized
  want,         \* the function each caller has called same_thread with
  call,         \* the record call: whose it is, and the function
  lock,         \* run_mutex.m and done_mutex.m: "free", "dead" or the owner
  asleep,       \* the threads that wait for run_mutex.cond, done_mutex.cond
  pc,           \* where every thread is
  ran,          \* how often the caller's last call was run
  length,       \* the length of the buffer the core was given with it
  disturbed     \* history: two calls at a time, a call while an old loop was
                \* ending, or a wait that ended without a signal

vars == <<initialized, want, call, lock, asleep, pc, ran, length, disturbed>>
callVars == <<want, call, ran, length>>

Thread == Caller \cup Loop
Mutex == {"run", "done"}

(* A function of the core without arguments, retro_serialize or            *)
(* retro_unserialize with a buffer and its length, and same_thread_stop.   *)
Function == {"core", "serialize", "stop"}

(* The length a core is told, against that of the buffer.                  *)
Length == {"exact", "less", "more"}

(* Goroutines and threads are different things.                            *)
ASSUME ThreadAssumption ==
  /\ Caller \cap Loop = {}
  /\ {"free", "dead"} \cap (Caller \cup Loop) = {}
  /\ NoCall \notin [by : Caller, fn : Function]

(* pthread_create makes a thread: nobody looks at its result.              *)
ASSUME LoopAssumption == Loop # {}

MaxRan == 2    \* bound: more runs of one call are not told apart

-----------------------------------------------------------------------------
(* The primitives                                                          *)

Go(t, from, to) == pc[t] = from /\ pc' = [pc EXCEPT ![t] = to]

mutex_init(m) == lock' = [lock EXCEPT ![m] = "free"]

mutex_lock(t, m) ==
  /\ lock[m] \in {"free", "dead"}
  /\ lock' = IF lock[m] = "dead" THEN lock ELSE [lock EXCEPT ![m] = t]

mutex_unlock(m) ==
  lock' = IF lock[m] = "dead" THEN lock ELSE [lock EXCEPT ![m] = "free"]

mutex_signal(m) ==
  IF asleep[m] = {} THEN UNCHANGED asleep
  ELSE \E t \in asleep[m] : asleep' = [asleep EXCEPT ![m] = @ \ {t}]

(* pthread_cond_wait: it falls asleep and unlocks in one step, and ends    *)
(* with a lock when it has been woken.                                     *)
mutex_wait(t, m) ==
  /\ mutex_unlock(m)
  /\ asleep' = IF lock[m] = "dead" THEN asleep
                                   ELSE [asleep EXCEPT ![m] = @ \cup {t}]

mutex_wake(t, m) == t \notin asleep[m] /\ mutex_lock(t, m)

(* Steps that are an operation on a mutex and nothing else.                *)
LockStep(t, from, m, to) ==
  /\ Go(t, from, to) /\ mutex_lock(t, m)
  /\ UNCHANGED <<initialized, callVars, asleep, disturbed>>

UnlockStep(t, from, m, to) ==
  /\ Go(t, from, to) /\ mutex_unlock(m)
  /\ UNCHANGED <<initialized, callVars, asleep, disturbed>>

SignalStep(t, from, m, to) ==
  /\ Go(t, from, to) /\ mutex_signal(m)
  /\ UNCHANGED <<initialized, callVars, lock, disturbed>>

WaitStep(t, from, m, to) ==
  /\ Go(t, from, to) /\ mutex_wait(t, m)
  /\ UNCHANGED <<initialized, callVars, disturbed>>

WakeStep(t, from, m, to) ==
  /\ Go(t, from, to) /\ mutex_wake(t, m)
  /\ UNCHANGED <<initialized, callVars, asleep, disturbed>>

(* A wait may end without a signal.                                        *)
SpuriousWake(t, m) ==
  /\ t \in asleep[m]
  /\ asleep' = [asleep EXCEPT ![m] = @ \ {t}]
  /\ disturbed' = TRUE
  /\ UNCHANGED <<initialized, callVars, lock, pc>>

-----------------------------------------------------------------------------
(* A caller                                                                *)

(* A loop that was stopped and is not gone, whether it has seen it or not. *)
Ending(l) == ~initialized /\ pc[l] # "none"

(* same_thread, same_thread_with_args2.  Only Shutdown passes              *)
(* same_thread_stop, and it has called the core before.                    *)
Call(c, f) ==
  /\ Go(c, "idle", "test")
  /\ f = "stop" => initialized
  /\ want' = [want EXCEPT ![c] = f]
  /\ ran' = [ran EXCEPT ![c] = 0]
  /\ length' = [length EXCEPT ![c] = "none"]
  /\ disturbed' = \/ disturbed
                  \/ \E d \in Caller \ {c} : pc[d] # "idle"
                  \/ \E l \in Loop : Ending(l)
  /\ UNCHANGED <<initialized, call, lock, asleep>>

(* Mutant: a thread is made for every call.                                *)
TestNothing(c) ==
  /\ Go(c, "test", "init_run")
  /\ UNCHANGED <<initialized, callVars, lock, asleep, disturbed>>

Test(c) ==
  /\ Go(c, "test", IF initialized THEN "lock_run" ELSE "init_run")
  /\ UNCHANGED <<initialized, callVars, lock, asleep, disturbed>>

InitRun(c) ==
  /\ Go(c, "init_run", "init_done")
  /\ initialized' = TRUE /\ mutex_init("run")
  /\ UNCHANGED <<callVars, asleep, disturbed>>

InitDone(c) ==
  /\ Go(c, "init_done", "start_lock")
  /\ mutex_init("done")
  /\ UNCHANGED <<initialized, callVars, asleep, disturbed>>

(* pthread_create                                                          *)
Create(c) ==
  /\ pc[c] = "create"
  /\ \E l \in Loop :
       pc[l] = "none" /\ pc' = [pc EXCEPT ![c] = "start_wait", ![l] = "born"]
  /\ UNCHANGED <<initialized, callVars, lock, asleep, disturbed>>

Start(c) ==
  \/ Test(c) \/ InitRun(c) \/ InitDone(c)
  \/ LockStep(c, "start_lock", "done", "create")
  \/ Create(c)
  \/ WaitStep(c, "start_wait", "done", "starting")
  \/ WakeStep(c, "starting", "done", "started")
  \/ UnlockStep(c, "started", "done", "lock_run")

(* Mutant: the function is not stored.                                     *)
PostForgetful(c) ==
  /\ Go(c, "post", "unlock_run")
  /\ call' = [by |-> c, fn |-> IF call = NoCall THEN NoCall ELSE call.fn]
  /\ mutex_signal("run")
  /\ UNCHANGED <<initialized, want, lock, ran, length, disturbed>>

(* The record is written and run_mutex is signalled.  The length given     *)
(* with a buffer goes into a variable of an inner block, as an address     *)
(* taken for a number, and the loop reads it after the block has ended:    *)
(* see Run.                                                                *)
Post(c) ==
  /\ Go(c, "post", "unlock_run")
  /\ call' = [by |-> c, fn |-> want[c]]
  /\ mutex_signal("run")
  /\ UNCHANGED <<initialized, want, lock, ran, length, disturbed>>

(* Mutant: done is taken only after the call has been posted.              *)
HandOverHasty(c) ==
  \/ LockStep(c, "lock_run", "run", "post")
  \/ Post(c)
  \/ UnlockStep(c, "unlock_run", "run", "lock_done")
  \/ LockStep(c, "lock_done", "done", "wait")
  \/ WaitStep(c, "wait", "done", "waiting")
  \/ WakeStep(c, "waiting", "done", "leave")
  \/ UnlockStep(c, "leave", "done", "idle")

HandOver(c) ==
  \/ LockStep(c, "lock_run", "run", "lock_done")
  \/ LockStep(c, "lock_done", "done", "post")
  \/ Post(c)
  \/ UnlockStep(c, "unlock_run", "run", "wait")
  \/ WaitStep(c, "wait", "done", "waiting")
  \/ WakeStep(c, "waiting", "done", "leave")
  \/ UnlockStep(c, "leave", "done", "idle")

-----------------------------------------------------------------------------
(* run_loop                                                                *)

(* Mutant: the loop does not wait for a call.                              *)
TestLoopHasty(l) ==
  /\ pc[l] = "loop"
  /\ IF initialized
     THEN pc' = [pc EXCEPT ![l] = IF call = NoCall THEN "sleeping" ELSE "run"]
          /\ IF call = NoCall THEN mutex_wait(l, "run") ELSE UNCHANGED <<lock, asleep>>
     ELSE pc' = [pc EXCEPT ![l] = "release_run"] /\ UNCHANGED <<lock, asleep>>
  /\ UNCHANGED <<initialized, callVars, disturbed>>

TestLoop(l) ==
  \/ initialized /\ WaitStep(l, "loop", "run", "sleeping")
  \/ /\ ~initialized /\ Go(l, "loop", "release_run")
     /\ UNCHANGED <<initialized, callVars, lock, asleep, disturbed>>

(* The call.  Without one the pointer is NULL and the process ends.        *)
Run(l) ==
  /\ pc[l] = "run"
  /\ IF call = NoCall
     THEN pc' = [pc EXCEPT ![l] = "crashed"] /\ UNCHANGED <<initialized, ran, length>>
     ELSE /\ pc' = [pc EXCEPT ![l] = "answer"]
          /\ ran' = [ran EXCEPT ![call.by] = IF @ < MaxRan THEN @ + 1 ELSE @]
          /\ initialized' = (initialized /\ call.fn # "stop")
          /\ \E n \in Length : length' = IF call.fn = "serialize"
                                         THEN [length EXCEPT ![call.by] = n] ELSE length
  /\ UNCHANGED <<want, call, lock, asleep, disturbed>>

(* mutex_destroy unlocks whoever owns the mutex; one that has been locked  *)
(* again is not destroyed, and the condition variable waits for its        *)
(* sleepers.                                                               *)
Destroy(l, m, from, to) ==
  /\ Go(l, from, to)
  /\ lock' = IF lock[m] = "free" THEN [lock EXCEPT ![m] = "dead"] ELSE lock
  /\ mutex_signal(m)
  /\ UNCHANGED <<initialized, callVars, disturbed>>

Drain(l, m, from, to) ==
  /\ asleep[m] = {} /\ Go(l, from, to)
  /\ UNCHANGED <<initialized, callVars, lock, asleep, disturbed>>

run_loop(l) ==
  \/ LockStep(l, "born", "done", "own_run")
  \/ LockStep(l, "own_run", "run", "ready")
  \/ SignalStep(l, "ready", "done", "ready_unlock")
  \/ UnlockStep(l, "ready_unlock", "done", "loop")
  \/ TestLoop(l)
  \/ WakeStep(l, "sleeping", "run", "run")
  \/ Run(l)
  \/ LockStep(l, "answer", "done", "answered")
  \/ SignalStep(l, "answered", "done", "answer_unlock")
  \/ UnlockStep(l, "answer_unlock", "done", "loop")
  \/ UnlockStep(l, "release_run", "run", "destroy_run")
  \/ Destroy(l, "run", "destroy_run", "cond_run")
  \/ Drain(l, "run", "cond_run", "release_done")
  \/ UnlockStep(l, "release_done", "done", "destroy_done")
  \/ Destroy(l, "done", "destroy_done", "cond_done")
  \/ Drain(l, "done", "cond_done", "none")

-----------------------------------------------------------------------------
Crashed == \E l \in Loop : pc[l] = "crashed"

Init ==
  /\ initialized = FALSE /\ call = NoCall
  /\ want = [c \in Caller |-> "core"]
  /\ lock = [m \in Mutex |-> "dead"] /\ asleep = [m \in Mutex |-> {}]
  /\ pc = [t \in Thread |-> IF t \in Caller THEN "idle" ELSE "none"]
  /\ ran = [c \in Caller |-> 0] /\ length = [c \in Caller |-> "none"]
  /\ disturbed = FALSE

Next ==
  /\ ~Crashed
  /\ \/ \E c \in Caller : (\E f \in Function : Call(c, f)) \/ Start(c) \/ HandOver(c)
     \/ \E l \in Loop : run_loop(l)
     \/ \E t \in Thread, m \in Mutex : SpuriousWake(t, m)

Spec == Init /\ [][Next]_vars

(* The operating system runs a thread that can go on, as long as there is  *)
(* one; a caller owes no call.                                             *)
ThreadStep ==
  /\ ~Crashed
  /\ (\E c \in Caller : Start(c) \/ HandOver(c)) \/ \E l \in Loop : run_loop(l)

Fairness == WF_vars(ThreadStep)

FairSpec == Spec /\ Fairness

-----------------------------------------------------------------------------
CallerAt == {"idle", "test", "init_run", "init_done", "start_lock", "create",
             "start_wait", "starting", "started", "lock_run", "lock_done",
             "post", "unlock_run", "wait", "waiting", "leave"}

LoopAt == {"none", "born", "own_run", "ready", "ready_unlock", "loop", "sleeping",
           "run", "crashed", "answer", "answered", "answer_unlock", "release_run",
           "destroy_run", "cond_run", "release_done", "destroy_done", "cond_done"}

(* Types of all variables.                                                 *)
TypeOK ==
  /\ initialized \in BOOLEAN /\ disturbed \in BOOLEAN
  /\ want \in [Caller -> Function]
  /\ call \in [by : Caller, fn : Function] \cup {NoCall}
  /\ lock \in [Mutex -> Thread \cup {"free", "dead"}]
  /\ asleep \in [Mutex -> SUBSET Thread]
  /\ \A c \in Caller : pc[c] \in CallerAt
  /\ \A l \in Loop : pc[l] \in LoopAt
  /\ ran \in [Caller -> 0..MaxRan]
  /\ length \in [Caller -> Length \cup {"none"}]

(* A call that no other call overlaps is run by the loop once, no more,    *)
(* before same_thread returns: the two condition variables without a       *)
(* predicate lose no signal as long as they get no false one.              *)
RunsOnce ==
  ~disturbed => \A c \in Caller : ran[c] <= 1 /\ (pc[c] = "leave" => ran[c] = 1)

(* Everything between a start and a stop is run by one thread: there are   *)
(* never two loops, and the loop is gone or ending once it was stopped.    *)
OneThread ==
  ~disturbed => \A k, l \in Loop : pc[k] # "none" /\ pc[l] # "none" => k = l

(* A call returns, and a loop that was stopped ends.                       *)
CallReturns ==
  /\ \A c \in Caller : pc[c] # "idle" ~> pc[c] = "idle" \/ disturbed
  /\ \A l \in Loop : Ending(l) ~> pc[l] = "none" \/ disturbed

(* What a thread needs for its next operation: the mutex it locks, the     *)
(* signal it sleeps for, the thread it makes.                              *)
CanLock(m) == lock[m] \in {"free", "dead"}

CallerCan(c) ==
  /\ ~Crashed /\ pc[c] # "idle" /\ c \notin asleep["done"]
  /\ pc[c] \in {"start_lock", "lock_done", "starting", "waiting"} => CanLock("done")
  /\ pc[c] = "lock_run" => CanLock("run")
  /\ pc[c] = "create" => \E l \in Loop : pc[l] = "none"

LoopCan(l) ==
  /\ ~Crashed /\ pc[l] # "none" /\ l \notin asleep["run"]
  /\ pc[l] \in {"born", "answer"} => CanLock("done")
  /\ pc[l] \in {"own_run", "sleeping"} => CanLock("run")
  /\ pc[l] = "cond_run" => asleep["run"] = {}
  /\ pc[l] = "cond_done" => asleep["done"] = {}

(* A thread that has what it needs can go on.  The proofs, which know      *)
(* nothing of ENABLED, take this for granted.                              *)
StepsAreEnabled ==
  (\E c \in Caller : CallerCan(c)) \/ (\E l \in Loop : LoopCan(l))
    => ENABLED <<ThreadStep>>_vars

(* What libretro.h says of retro_serialize: "@param size The size of the   *)
(* memory."                                                                *)
SizeOfTheMemory == \A c \in Caller : length[c] \in {"none", "exact"}
=============================================================================
