---------------------------- MODULE MCEmulator ----------------------------
(* Instances of Emulator for TLC.                                          *)
EXTENDS Emulator, TLC

Symmetry == Permutations(Game)
=============================================================================
