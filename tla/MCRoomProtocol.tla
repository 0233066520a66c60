-------------------------- MODULE MCRoomProtocol --------------------------
(* RoomProtocol on small instances.                                        *)
EXTENDS RoomProtocol, TLC

(* Users, and rooms, are interchangeable; for runs without liveness.       *)
Symmetry == Permutations(User) \cup Permutations(Room)
=============================================================================
