------------------------------- MODULE Lease -------------------------------
(***************************************************************************)
(* What the coordinator and a worker promise each other: the worker's one  *)
(* slot is a lease that goes round in one direction only.  It is granted   *)
(* before a game is opened, a game is opened at most once under a grant,   *)
(* and the lease is free again only after the coordinator has learnt that  *)
(* the game was closed.  A grant under which no game is ever opened is     *)
(* never given back (the coordinator has no call that does it).            *)
(***************************************************************************)
CONSTANTS Room, NoRoom

VARIABLES phase,   \* "free", "granted", "open" or "closing"
          game     \* the game the worker runs

leaseVars == <<phase, game>>

LeaseInit == phase = "free" /\ game = NoRoom

Grant == phase = "free" /\ phase' = "granted" /\ UNCHANGED game

Open == phase = "granted" /\ phase' = "open" /\ game' \in Room

Close == phase = "open" /\ phase' = "closing" /\ game' = NoRoom

Release == phase = "closing" /\ phase' = "free" /\ UNCHANGED game

LeaseNext == Grant \/ Open \/ Close \/ Release

(* A closed game is heard of.                                              *)
LeaseSpec == LeaseInit /\ [][LeaseNext]_leaseVars /\ WF_leaseVars(Release)
=============================================================================
