--------------------------- MODULE MCDepthControl ---------------------------
(***************************************************************************)
(* The instance of DepthControl for TLC: two threads, and two levels so     *)
(* that a thread can overwrite its depth at the first while waiting.        *)
(***************************************************************************)
EXTENDS DepthControl

Team == {"master", "worker"}
=============================================================================
