---------------------------- MODULE Hub_proofs ----------------------------
(***************************************************************************)
(* What a search for a worker finds, proved for any finite set of workers, *)
(* any rooms, zones, machines and addresses.                               *)
(*                                                                         *)
(* The argument: a walk begins with every entry there is, and no entry is  *)
(* added or removed while it lasts.  An entry that has fitted ever since   *)
(* the search began therefore is among those the walk has yet to see, or   *)
(* was found; when the walk ends without it there is no such entry.        *)
(***************************************************************************)
EXTENDS Hub, FiniteSetTheorems, WellFoundedInduction, TLAPS

Listing == {"list", "ask", "again", "relist"}

(* What was steady still is.                                               *)
Steady ==
  /\ steadyFree \subseteq {w \in Free : In(w, q.zone)}
  /\ steadyRoom \subseteq {w \in Runs(q.room) : In(w, q.zone)}
  /\ steadySaved \subseteq Saved(q.room)

(* What the stages before this one, and this one so far, have left out.    *)
Seen ==
  /\ stage = "id" => q.wid # NoWorker
  /\ stage = "room" => steadyRoom \subseteq todo
  /\ stage = "prev" => steadyRoom = {} /\ steadySaved \subseteq todo
  /\ stage \in Listing => steadyRoom = {} /\ steadySaved = {}
  /\ stage \in {"list", "relist"} => steadyFree \subseteq todo \cup list

(* What is known after the browser's answer.                               *)
Measured ==
  /\ stage = "ask" => list # {}
  /\ stage \in {"again", "relist"} => DOMAIN lat # {} /\ IsFiniteSet(DOMAIN lat) /\ Free \subseteq fresh
  /\ stage = "relist" => list \subseteq fresh

Outcome == LinkIsHonoured /\ SavedGameIsFound /\ FreeWorkerIsFound /\ FastestIsFresh

IInv == TypeOK /\ Steady /\ Seen /\ Measured /\ Outcome

LEMMA Initially == Init => IInv
<1> SUFFICES ASSUME Init PROVE IInv
  OBVIOUS
<1> USE DEF Init
<1>1. TypeOK
  <2>1. DOMAIN lat = {}
    OBVIOUS
  <2> QED
    BY <2>1, WorkerAssumption, ZoneAssumption DEF TypeOK, NoQuery, Results
<1>2. Steady /\ Seen /\ Measured /\ Outcome
  BY DEF Steady, Seen, Measured, Listing, Results, Outcome, Searched, LinkIsHonoured,
         SavedGameIsFound, FreeWorkerIsFound, FastestIsFresh
<1> QED
  BY <1>1, <1>2 DEF IInv

-----------------------------------------------------------------------------
(* The world                                                               *)

LEMMA WorldTypes ==
  ASSUME TypeOK, NEW w \in Worker, World(w), stage \notin Results
  PROVE  TypeOK'
<1> USE DEF TypeOK, Changes, Remember, searchVars, Registered, Locked
<1>1. UNION {steadyFree, steadyRoom, steadySaved, fresh}' \subseteq Worker
  BY DEF World, Add, TryReserve, HandleRegisterRoom, HandleCloseRoom,
         HandlePrevSessionList, AddSession, Disconnect, Removed, Free
<1>2. CASE Add(w)
  BY <1>1, <1>2 DEF Add
<1>3. CASE TryReserve(w)
  BY <1>1, <1>3 DEF TryReserve
<1>4. CASE \E r \in Room : HandleRegisterRoom(w, r)
  BY <1>1, <1>4 DEF HandleRegisterRoom
<1>5. CASE HandleCloseRoom(w)
  BY <1>1, <1>5 DEF HandleCloseRoom
<1>6. CASE \E rooms \in SUBSET Room : HandlePrevSessionList(w, rooms)
  BY <1>1, <1>6 DEF HandlePrevSessionList
<1>7. CASE AddSession(w)
  BY <1>1, <1>7 DEF AddSession
<1>8. CASE Disconnect(w)
  BY <1>1, <1>8 DEF Disconnect
<1>9. CASE Removed(w)
  BY <1>1, <1>9 DEF Removed
<1> QED
  BY <1>2, <1>3, <1>4, <1>5, <1>6, <1>7, <1>8, <1>9 DEF World

(* Whatever the world does, the histories shrink to what still fits.       *)
LEMMA WorldKeeps ==
  ASSUME IInv, NEW w \in Worker, World(w), stage \notin Results
  PROVE  IInv'
<1>1. TypeOK'
  BY WorldTypes DEF IInv
<1>2. UNCHANGED searchVars /\ Remember
  BY DEF World, Add, TryReserve, HandleRegisterRoom, HandleCloseRoom,
         HandlePrevSessionList, AddSession, Disconnect, Removed, Changes
<1>3. Steady'
  BY <1>2 DEF IInv, Steady, Remember, searchVars, In
<1>4. Seen'
  BY <1>2 DEF IInv, Seen, Remember, searchVars, Listing
<1>5. Measured'
  BY <1>2 DEF IInv, Measured, Remember, searchVars
<1>6. Outcome'
  BY <1>2 DEF IInv, Outcome, searchVars, Searched, Results, LinkIsHonoured,
              SavedGameIsFound, FreeWorkerIsFound, FastestIsFresh
<1> QED
  BY <1>1, <1>3, <1>4, <1>5, <1>6 DEF IInv

-----------------------------------------------------------------------------
(* The search                                                              *)

Same == /\ Free' = Free /\ Registered' = Registered
        /\ \A r \in Room \cup {NoRoom} : Runs(r)' = Runs(r) /\ Saved(r)' = Saved(r)

LEMMA SettledSame ==
  ASSUME UNCHANGED worldVars
  PROVE  Same
BY DEF worldVars, Same, Free, Registered, Runs, Saved, HasSlot

LEMMA SettledSteady ==
  ASSUME IInv, Settled
  PROVE  Steady'
<1>1. Same /\ UNCHANGED <<q, steadyFree, steadyRoom, steadySaved>>
  BY SettledSame DEF Settled
<1> QED
  BY <1>1 DEF IInv, TypeOK, Steady, Same, In

(* A search that has begun: all that fits is to be seen.                   *)
LEMMA BeginKeeps ==
  ASSUME IInv, NEW wid \in Worker \cup {NoWorker}, NEW room \in Room \cup {NoRoom},
         NEW zone \in Zone \cup {AnyZone}, Begin(wid, room, zone)
  PROVE  IInv'
<1> USE DEF Begin, Walk
<1>1. Same
  BY SettledSame
<1>2. TypeOK'
  <2>1. UNION {steadyFree, steadyRoom, steadySaved, fresh}' \subseteq Worker
    BY DEF IInv, TypeOK, Free, Runs, Saved, Registered
  <2> QED
    BY <1>1, <2>1 DEF IInv, TypeOK, Same, worldVars, Results, Registered
<1>3. Steady'
  BY <1>1 DEF Steady, Same, In
<1>4. Seen'
  <2>1. room = NoRoom => steadyRoom' = {} /\ steadySaved' = {}
    BY RoomAssumption DEF IInv, TypeOK, Runs, Saved, Free, Registered
  <2> QED
    BY <1>1, <2>1 DEF Seen, Listing, Runs, Saved, Free, Same
<1>5. Measured' /\ Outcome'
  BY DEF Measured, Outcome, Searched, Results, LinkIsHonoured, SavedGameIsFound,
         FreeWorkerIsFound, FastestIsFresh
<1> QED
  BY <1>2, <1>3, <1>4, <1>5 DEF IInv

(* A worker is chosen.                                                     *)
LEMMA ReturnKeeps ==
  ASSUME IInv, NEW w \in Worker, Return(w), Settled, stage \in {"id", "room", "prev", "list", "relist"},
         stage = "relist" => w \in fresh
  PROVE  IInv'
<1> USE DEF Return, Settled
<1>1. TypeOK'
  BY DEF IInv, TypeOK, worldVars, Results, Registered
<1>2. Steady'
  BY SettledSteady
<1>3. Seen' /\ Measured'
  BY DEF Seen, Measured, Listing
<1>4. Outcome'
  BY DEF IInv, Seen, Listing, Outcome, Searched, LinkIsHonoured, SavedGameIsFound,
         FreeWorkerIsFound, FastestIsFresh
<1> QED
  BY <1>1, <1>2, <1>3, <1>4 DEF IInv

(* None is.                                                                *)
LEMMA RefuseKeeps ==
  ASSUME IInv, Refuse, Settled, stage \in {"id", "list", "ask", "relist"},
         stage = "list" => steadyFree = {},
         stage = "relist" /\ DOMAIN lat \subseteq Addresses => steadyFree = {}
  PROVE  IInv'
<1> USE DEF Refuse, Settled
<1>1. TypeOK'
  BY DEF IInv, TypeOK, worldVars, Results, Registered
<1>2. Steady'
  BY SettledSteady
<1>3. Seen' /\ Measured'
  BY DEF Seen, Measured, Listing
<1>4. Addresses' = Addresses
  BY DEF Addresses
<1>5. Outcome'
  BY <1>4 DEF IInv, Seen, Listing, Outcome, Searched, LinkIsHonoured, SavedGameIsFound,
              FreeWorkerIsFound, FastestIsFresh
<1> QED
  BY <1>1, <1>2, <1>3, <1>5 DEF IInv

(* A walk goes past an entry, or on to the next walk.                      *)
LEMMA FindByRoomKeeps ==
  ASSUME IInv, findWorkerByRoom
  PROVE  IInv'
<1> DEFINE fitting == {w \in todo : RoomId[w] = q.room /\ In(w, q.zone)}
<1>0. stage = "room" /\ Settled /\ Look("room", fitting, "prev")
  BY DEF findWorkerByRoom, Look
<1>1. ASSUME NEW w \in todo \cap fitting, Return(w) PROVE IInv'
  BY <1>0, <1>1, ReturnKeeps DEF IInv, TypeOK, Registered
<1>2. ASSUME NEW w \in todo \ fitting, todo' = todo \ {w},
             UNCHANGED <<stage, list, lat, found, how, fresh>>
      PROVE  IInv'
  <2>1. TypeOK'
    BY <1>0, <1>2 DEF IInv, TypeOK, Settled, worldVars, Registered
  <2>2. Steady'
    BY <1>0, SettledSteady
  <2>3. w \notin steadyRoom
    BY <1>2 DEF IInv, Steady, Runs
  <2>4. Seen' /\ Measured' /\ Outcome'
    BY <1>0, <1>2, <2>3 DEF IInv, Seen, Measured, Outcome, Listing, Settled, Searched, Results,
       LinkIsHonoured, SavedGameIsFound, FreeWorkerIsFound, FastestIsFresh
  <2> QED
    BY <2>1, <2>2, <2>4 DEF IInv
<1>3. ASSUME todo = {}, Walk("prev"), UNCHANGED <<lat, found, how, fresh>> PROVE IInv'
  <2>1. TypeOK'
    BY <1>0, <1>3 DEF IInv, TypeOK, Settled, worldVars, Registered, Walk, Results
  <2>2. Steady'
    BY <1>0, SettledSteady
  <2>3. steadyRoom = {} /\ steadySaved \subseteq Registered
    BY <1>0, <1>3 DEF IInv, Seen, Steady, Saved, Free
  <2>4. Seen' /\ Measured' /\ Outcome'
    BY <1>0, <1>3, <2>3 DEF Seen, Measured, Outcome, Listing, Settled, Searched, Results, Walk,
       LinkIsHonoured, SavedGameIsFound, FreeWorkerIsFound, FastestIsFresh
  <2> QED
    BY <2>1, <2>2, <2>4 DEF IInv
<1> QED
  BY <1>0, <1>1, <1>2, <1>3 DEF Look

LEMMA FindByPreviousKeeps ==
  ASSUME IInv, findWorkerByPreviousRoom
  PROVE  IInv'
<1> DEFINE fitting == {w \in todo : q.room \in Sessions[w] /\ HasSlot(w)}
<1>0. stage = "prev" /\ Settled /\ Look("prev", fitting, "list")
  BY DEF findWorkerByPreviousRoom, Look
<1>1. ASSUME NEW w \in todo \cap fitting, Return(w) PROVE IInv'
  BY <1>0, <1>1, ReturnKeeps DEF IInv, TypeOK, Registered
<1>2. ASSUME NEW w \in todo \ fitting, todo' = todo \ {w},
             UNCHANGED <<stage, list, lat, found, how, fresh>>
      PROVE  IInv'
  <2>1. TypeOK'
    BY <1>0, <1>2 DEF IInv, TypeOK, Settled, worldVars, Registered
  <2>2. Steady'
    BY <1>0, SettledSteady
  <2>3. w \notin steadySaved
    BY <1>2 DEF IInv, Steady, Saved, Free
  <2>4. Seen' /\ Measured' /\ Outcome'
    BY <1>0, <1>2, <2>3 DEF IInv, Seen, Measured, Outcome, Listing, Settled, Searched, Results,
       LinkIsHonoured, SavedGameIsFound, FreeWorkerIsFound, FastestIsFresh
  <2> QED
    BY <2>1, <2>2, <2>4 DEF IInv
<1>3. ASSUME todo = {}, Walk("list"), UNCHANGED <<lat, found, how, fresh>> PROVE IInv'
  <2>1. TypeOK'
    BY <1>0, <1>3 DEF IInv, TypeOK, Settled, worldVars, Registered, Walk, Results
  <2>2. Steady'
    BY <1>0, SettledSteady
  <2>3. steadyRoom = {} /\ steadySaved = {} /\ steadyFree \subseteq Registered
    BY <1>0, <1>3 DEF IInv, Seen, Steady, Free
  <2>4. Seen' /\ Measured' /\ Outcome'
    BY <1>0, <1>3, <2>3 DEF Seen, Measured, Outcome, Listing, Settled, Searched, Results, Walk,
       LinkIsHonoured, SavedGameIsFound, FreeWorkerIsFound, FastestIsFresh
  <2> QED
    BY <2>1, <2>2, <2>4 DEF IInv
<1> QED
  BY <1>0, <1>1, <1>2, <1>3 DEF Look

(* A walk that collects loses no entry that is free in the zone.           *)
LEMMA CollectKeeps ==
  ASSUME IInv, NEW s \in {"id", "list", "relist"}, NEW zone \in Zone \cup {AnyZone},
         s # "id" => zone = q.zone, Collect(s, zone)
  PROVE  IInv'
<1> PICK w \in todo : /\ todo' = todo \ {w}
                      /\ list' = IF HasSlot(w) /\ In(w, zone) THEN list \cup {w} ELSE list
  BY DEF Collect
<1>0. stage = s /\ Settled /\ UNCHANGED <<stage, lat, found, how, fresh>>
  BY DEF Collect
<1>1. TypeOK'
  BY <1>0 DEF IInv, TypeOK, Settled, worldVars, Registered
<1>2. Steady'
  BY <1>0, SettledSteady
<1>3. w \in Registered /\ (HasSlot(w) => w \in Free)
  BY DEF IInv, TypeOK, Free
<1>4. Seen'
  BY <1>0 DEF IInv, Seen, Listing, Settled, Steady, Free
<1>5. Measured'
  <2>1. Free' = Free
    BY <1>0, SettledSame DEF Settled, Same
  <2> QED
    BY <1>0, <1>3, <2>1 DEF IInv, Measured
<1>6. Outcome'
  BY <1>0 DEF Outcome, Searched, Results, LinkIsHonoured, SavedGameIsFound,
              FreeWorkerIsFound, FastestIsFresh
<1> QED
  BY <1>1, <1>2, <1>4, <1>5, <1>6 DEF IInv

LEMMA FindByIdKeeps ==
  ASSUME IInv, findWorkerById
  PROVE  IInv'
<1>1. ASSUME NEW w \in list, Return(w), Settled, stage = "id" PROVE IInv'
  BY <1>1, ReturnKeeps DEF IInv, TypeOK
<1>2. ASSUME Refuse, Settled, stage = "id" PROVE IInv'
  BY <1>2, RefuseKeeps
<1> QED
  BY <1>1, <1>2 DEF findWorkerById

LEMMA FirstFreeKeeps ==
  ASSUME IInv, find1stFreeWorker
  PROVE  IInv'
<1>1. stage = "list" /\ todo = {} /\ Settled
  BY DEF find1stFreeWorker
<1>2. ASSUME NEW w \in list, Return(w) PROVE IInv'
  BY <1>1, <1>2, ReturnKeeps DEF IInv, TypeOK
<1>3. ASSUME list = {}, Refuse PROVE IInv'
  BY <1>1, <1>3, RefuseKeeps DEF IInv, Seen
<1> QED
  BY <1>2, <1>3 DEF find1stFreeWorker

LEMMA AskKeeps ==
  ASSUME IInv, AskLatencies
  PROVE  IInv'
<1>1. stage = "list" /\ todo = {} /\ Settled
  BY DEF AskLatencies
<1>2. CASE list = {}
  BY <1>1, <1>2, RefuseKeeps DEF IInv, Seen, AskLatencies
<1>3. CASE list # {}
  <2>1. stage' = "ask" /\ UNCHANGED <<todo, list, lat, found, how, fresh>>
    BY <1>3 DEF AskLatencies
  <2>2. TypeOK'
    BY <1>1, <2>1 DEF IInv, TypeOK, Settled, worldVars, Registered, Results
  <2>3. Steady'
    BY <1>1, SettledSteady
  <2>4. Seen' /\ Measured' /\ Outcome'
    BY <1>1, <1>3, <2>1 DEF IInv, Seen, Measured, Outcome, Listing, Settled, Searched, Results,
       LinkIsHonoured, SavedGameIsFound, FreeWorkerIsFound, FastestIsFresh
  <2> QED
    BY <2>2, <2>3, <2>4 DEF IInv
<1> QED
  BY <1>2, <1>3

LEMMA FiniteAddresses ==
  ASSUME TypeOK
  PROVE  IsFiniteSet(Addresses)
<1>1. IsFiniteSet(list)
  BY WorkerAssumption, FS_Subset DEF TypeOK
<1> DEFINE f == [w \in list |-> PingServer[w]]
<1>2. f \in Surjection(list, Addresses)
  <2>1. f \in [list -> Addresses]
    BY DEF Addresses
  <2>2. \A a \in Addresses : \E w \in list : f[w] = a
    BY DEF Addresses
  <2> QED
    BY <2>1, <2>2 DEF Surjection
<1> QED
  BY <1>1, <1>2, FS_Surjection

LEMMA LatenciesKeeps ==
  ASSUME IInv, Latencies
  PROVE  IInv'
<1>1. stage = "ask" /\ Settled
  BY DEF Latencies
<1>2. CASE Refuse
  BY <1>1, <1>2, RefuseKeeps
<1>3. CASE /\ lat' \in [Addresses -> 1..MaxPing]
           /\ stage' = "again" /\ fresh' = Free /\ UNCHANGED <<todo, list, found, how>>
  <2>1. DOMAIN lat' = Addresses /\ IsFiniteSet(Addresses) /\ Addresses # {}
    BY <1>1, <1>3, FiniteAddresses DEF IInv, Measured, Addresses
  <2>2. TypeOK'
    <3>1. Addresses \subseteq {PingServer[w] : w \in Worker}
      BY DEF IInv, TypeOK, Addresses
    <3> QED
      BY <1>1, <1>3, <2>1, <3>1 DEF IInv, TypeOK, Settled, worldVars, Registered, Results, Free
  <2>3. Steady'
    BY <1>1, SettledSteady
  <2>4. Measured'
    BY <1>1, <1>3, <2>1, SettledSame DEF Measured, Settled, Same
  <2>5. Seen' /\ Outcome'
    BY <1>1, <1>3 DEF IInv, Seen, Outcome, Listing, Settled, Searched, Results,
       LinkIsHonoured, SavedGameIsFound, FreeWorkerIsFound, FastestIsFresh
  <2> QED
    BY <2>2, <2>3, <2>4, <2>5 DEF IInv
<1> QED
  BY <1>2, <1>3 DEF Latencies

LEMMA ListAgainKeeps ==
  ASSUME IInv, ListAgain
  PROVE  IInv'
<1>1. stage = "again" /\ Settled /\ Walk("relist") /\ UNCHANGED <<lat, found, how, fresh>>
  BY DEF ListAgain
<1>2. TypeOK'
  BY <1>1 DEF IInv, TypeOK, Settled, worldVars, Registered, Walk, Results
<1>3. Steady'
  BY <1>1, SettledSteady
<1>4. steadyFree \subseteq Registered
  BY DEF IInv, Steady, Free
<1>5. Measured'
  BY <1>1, SettledSame DEF IInv, Measured, Settled, Same, Walk
<1>6. Seen' /\ Outcome'
  BY <1>1, <1>4 DEF IInv, Seen, Outcome, Listing, Settled, Searched, Results, Walk,
     LinkIsHonoured, SavedGameIsFound, FreeWorkerIsFound, FastestIsFresh
<1> QED
  BY <1>2, <1>3, <1>5, <1>6 DEF IInv

(* A set of indices has a last one.                                        *)
LEMMA LastIndex ==
  ASSUME NEW n \in Nat, NEW S \in SUBSET (1..n), S # {}
  PROVE  \E i \in S : \A k \in S : k <= i
<1> DEFINE T == {n - i : i \in S}
<1>1. T \subseteq Nat /\ T # {}
  <2>1. \A i \in S : n - i \in Nat
    BY SMT
  <2> QED
    BY <2>1
<1>2. PICK m \in T : \A y \in T : ~ (<<y, m>> \in OpToRel(<, Nat))
  BY <1>1, NatLessThanWellFounded, WFMin
<1>3. PICK i \in S : m = n - i
  OBVIOUS
<1>4. ASSUME NEW k \in S PROVE k <= i
  <2>1. n - k \in T /\ n - k \in Nat /\ m \in Nat
    BY <1>1
  <2>2. ~ (n - k < m)
    BY <1>2, <2>1 DEF OpToRel
  <2> QED
    BY <1>3, <2>1, <2>2
<1> QED
  BY <1>4

(* If every address still has a worker, the fastest has one.               *)
LEMMA FastestExists ==
  ASSUME NEW order \in SetToSeqs(DOMAIN lat), DOMAIN lat # {}, IsFiniteSet(DOMAIN lat),
         DOMAIN lat \subseteq Addresses
  PROVE  Lowest(order) # {}
<1> DEFINE n == Cardinality(DOMAIN lat)
<1>1. n \in Nat /\ n # 0
  BY FS_CardinalityType, FS_EmptySet
<1>2. order \in [1..n -> DOMAIN lat]
  BY DEF SetToSeqs
<1>3. 1 \in Lowers(order) /\ Lowers(order) \subseteq 1..n
  BY <1>1, <1>2 DEF Lowers
<1>4. PICK i \in Lowers(order) : \A k \in Lowers(order) : k <= i
  BY <1>1, <1>3, LastIndex
<1>5. PICK w \in list : PingServer[w] = order[i]
  BY <1>2, <1>3, <1>4 DEF Addresses
<1>6. \A k \in Lowers(order) : ~(k > i)
  BY <1>1, <1>3, <1>4
<1>7. w \in Lowest(order)
  BY <1>4, <1>5, <1>6 DEF Lowest, At
<1> QED
  BY <1>7

LEMMA PickKeeps ==
  ASSUME IInv, PickFastest
  PROVE  IInv'
<1>1. stage = "relist" /\ todo = {} /\ Settled
  BY DEF PickFastest
<1> PICK order \in SetToSeqs(DOMAIN lat) :
      (\E w \in Lowest(order) : Return(w)) \/ (Lowest(order) = {} /\ Refuse)
  BY DEF PickFastest
<1>2. ASSUME NEW w \in Lowest(order), Return(w) PROVE IInv'
  <2>1. w \in list /\ w \in Worker /\ w \in fresh
    BY <1>1 DEF Lowest, IInv, TypeOK, Measured
  <2> QED
    BY <1>1, <1>2, <2>1, ReturnKeeps
<1>3. ASSUME Lowest(order) = {}, Refuse PROVE IInv'
  <2>1. ~(DOMAIN lat \subseteq Addresses)
    BY <1>1, <1>3, FastestExists DEF IInv, Measured
  <2> QED
    BY <1>1, <1>3, <2>1, RefuseKeeps
<1> QED
  BY <1>2, <1>3

-----------------------------------------------------------------------------
LEMMA Keeps ==
  ASSUME IInv, [Next]_vars
  PROVE  IInv'
<1>1. CASE \E w \in Worker : World(w) /\ stage \notin Results
  BY <1>1, WorldKeeps
<1>2. CASE getAvailableWorkers
  BY <1>2, CollectKeeps DEF getAvailableWorkers, IInv, TypeOK
<1>3. CASE findWorkerFor
  BY <1>2, <1>3, BeginKeeps, FindByRoomKeeps, FindByPreviousKeeps, FindByIdKeeps,
     FirstFreeKeeps, AskKeeps, LatenciesKeeps, ListAgainKeeps, PickKeeps DEF findWorkerFor
<1>4. CASE UNCHANGED vars
  <2> USE <1>4 DEF vars, worldVars, searchVars, historyVars
  <2>1. TypeOK' /\ Steady' /\ Seen'
    BY SettledSame DEF IInv, TypeOK, Steady, Seen, Registered, Same, In
  <2>2. Measured' /\ Outcome'
    BY SettledSame DEF IInv, Measured, Same, Outcome, Searched, Addresses, LinkIsHonoured,
                       SavedGameIsFound, FreeWorkerIsFound, FastestIsFresh
  <2> QED
    BY <2>1, <2>2 DEF IInv
<1> QED
  BY <1>1, <1>3, <1>4 DEF Next

(* The invariant holds for any workers: what has fitted since the search   *)
(* began is still to be seen or was found.                                 *)
THEOREM Invariant == Spec => []IInv
<1>1. IInv /\ [Next]_vars => IInv'
  BY Keeps
<1> QED
  BY Initially, <1>1, PTL DEF Spec

(* The types hold, and a walk sees only entries that are still there.      *)
THEOREM TypeCorrect == Spec => []TypeOK
<1>1. IInv => TypeOK
  BY DEF IInv
<1> QED
  BY Invariant, <1>1, PTL

(* The link of a room that ran all the time leads to it.                   *)
THEOREM LinksLeadToTheirRoom == Spec => []LinkIsHonoured
<1>1. IInv => LinkIsHonoured
  BY DEF IInv, Outcome
<1> QED
  BY Invariant, <1>1, PTL

(* The link of a saved game leads to a worker that has it.                 *)
THEOREM LinksLeadToTheirSave == Spec => []SavedGameIsFound
<1>1. IInv => SavedGameIsFound
  BY DEF IInv, Outcome
<1> QED
  BY Invariant, <1>1, PTL

(* A worker that was free all the time is not overlooked, unless the       *)
(* browser was asked in vain or measured an address that has no worker any *)
(* more.                                                                   *)
THEOREM FreeWorkersAreSeen == Spec => []FreeWorkerIsFound
<1>1. IInv => FreeWorkerIsFound
  BY DEF IInv, Outcome
<1> QED
  BY Invariant, <1>1, PTL

(* A worker chosen by latency was free after the latencies were known.     *)
THEOREM ChoiceIsFresh == Spec => []FastestIsFresh
<1>1. IInv => FastestIsFresh
  BY DEF IInv, Outcome
<1> QED
  BY Invariant, <1>1, PTL
=============================================================================
