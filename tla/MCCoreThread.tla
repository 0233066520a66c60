--------------------------- MODULE MCCoreThread ---------------------------
(* Two goroutines and two threads.  A behaviour is followed until calls    *)
(* get in each other's way, since nothing is claimed of what comes after.  *)
EXTENDS CoreThread

MCNext == ~disturbed /\ Next

MCSpec == Init /\ [][MCNext]_vars /\ Fairness
=============================================================================
