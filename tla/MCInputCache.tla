--------------------------- MODULE MCInputCache ---------------------------
(* One button, two keys in different words of the keyboard's state, and a  *)
(* mouse whose motions are larger than half a small int16_t.  A behaviour  *)
(* has the players of one kind of device: the three share no atomic.       *)
EXTENDS InputCache

VARIABLE device

MCButton == {JOYPAD_L2}
MCKey == {97, 304}        \* RETROK_a, RETROK_LSHIFT
MCDelta == {-2, 3}

MCInit == Init /\ device \in {"pad", "keyboard", "mouse"}

MCNext ==
  /\ \/ device = "pad" /\ PadInput
     \/ device = "keyboard" /\ KeyboardInput
     \/ device = "mouse" /\ MouseInput
     \/ Game
  /\ UNCHANGED device

MCSpec == MCInit /\ [][MCNext]_<<vars, device>> /\ WF_vars(Frame)
=============================================================================
