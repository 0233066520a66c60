------------------------------- MODULE MCHub ------------------------------
(* Hub on a small instance: two workers, each on a machine, with an        *)
(* address and in a zone of its own.                                       *)
EXTENDS Hub, TLC

CONSTANTS w1, w2, near, far, one, other

MCWorker == {w1, w2}
MCZoneOf == w1 :> near @@ w2 :> far
MCMachine == w1 :> one @@ w2 :> other
=============================================================================
