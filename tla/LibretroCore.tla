--------------------------- MODULE LibretroCore ---------------------------
(***************************************************************************)
(* The order that libretro.h promises to a core: which of its functions    *)
(* the frontend calls at which stage of its life, when the core may call   *)
(* the environment back, and when a context to draw with is there.         *)
(***************************************************************************)
EXTENDS Libretro

VARIABLES
  life,     \* the stage of the core's life, or "closed"
  in,       \* the function of the core that is running, or "none"
  given,    \* the callbacks the core has been given
  granted,  \* the binding commands that were answered TRUE
  context   \* the hardware context of the core

vars == <<life, in, given, granted, context>>

Init ==
  /\ life = "closed" /\ in = "none"
  /\ given = {} /\ granted = {} /\ context = "none"

(* The library of a core is mapped.                                        *)
Open ==
  /\ life = "closed" /\ in = "none"
  /\ life' = "opened"
  /\ given' = {} /\ granted' = {} /\ context' = "none"
  /\ UNCHANGED in

(* A core that was granted a context draws with it in every frame, and it  *)
(* is given all the callbacks before the first one.                        *)
CanRun ==
  /\ given = Callbacks
  /\ "SET_HW_RENDER" \in granted => context = "live"

Call ==
  /\ in = "none" /\ in' \in FunctionName
  /\ life \in FunctionOf[in'].needs
  /\ in' = "retro_run" => CanRun
  /\ UNCHANGED <<life, given, granted, context>>

(* A game may fail to load.                                                *)
Return(ok) ==
  /\ in # "none" /\ in' = "none"
  /\ life' = IF FunctionOf[in].to = "same" \/ (in \in Loading /\ ~ok) THEN life
                                                                    ELSE FunctionOf[in].to
  /\ given' = given \cup ({in} \cap Callbacks)
  /\ UNCHANGED <<granted, context>>

(* A command that was not answered TRUE has no effect.                     *)
Environment ==
  /\ in # "none"
  /\ granted' \in {granted \cup {cmd} : cmd \in CommandsIn[in] \cap Binding}
  /\ UNCHANGED <<life, in, given, context>>

(* The context is made for a core that asked for one, context_reset tells  *)
(* it so, and it goes before the library does.                             *)
ContextCreate ==
  /\ in = "none" /\ life = "game" /\ "SET_HW_RENDER" \in granted
  /\ context \in {"none", "destroyed"}
  /\ context' = "created"
  /\ UNCHANGED <<life, in, given, granted>>

ContextReset ==
  /\ in = "none" /\ life = "game"
  /\ context \in {"created", "live"}
  /\ context' = "live"
  /\ UNCHANGED <<life, in, given, granted>>

ContextDestroy ==
  /\ in = "none"
  /\ context \in {"created", "live"}
  /\ context' = "destroyed"
  /\ UNCHANGED <<life, in, given, granted>>

Close ==
  /\ life = "deinited" /\ in = "none"
  /\ context \in {"none", "destroyed"}
  /\ life' = "closed"
  /\ given' = {} /\ granted' = {} /\ context' = "none"
  /\ UNCHANGED in

Next ==
  \/ Open \/ Close
  \/ Call \/ Environment \/ \E ok \in BOOLEAN : Return(ok)
  \/ ContextCreate \/ ContextReset \/ ContextDestroy

Spec == Init /\ [][Next]_vars
=============================================================================
