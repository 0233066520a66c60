---------------------------- MODULE MCNanoarch ----------------------------
(* Two loads of a core.  The cores draw without OpenGL, with it, or with   *)
(* any context SDL finds and no notice of its end; they ask for an         *)
(* interface SDL has or one it has not, and for a format that is not the   *)
(* default one or for none.                                                *)
EXTENDS Nanoarch

Config(gl0, auto, skip0) == [IsGlAllowed |-> gl0, AutoGlContext |-> auto, skip |-> skip0]

MCMeta == {Config(FALSE, FALSE, FALSE), Config(TRUE, FALSE, FALSE), Config(TRUE, TRUE, TRUE)}
MCApi == {"OPENGL", "VULKAN"}
MCFormat == {"RGB565"}

(* Bound: of two games that overlap, the first is in its Shutdown.         *)
InShutdown == overlapped => at[1] \in Ending \cup {"closed"}
=============================================================================
