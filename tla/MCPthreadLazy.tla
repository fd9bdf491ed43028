--------------------------- MODULE MCPthreadLazy ---------------------------
(***************************************************************************)
(* PthreadLazy for TLC: three threads, so that two of them may lose the    *)
(* race, and one address more than there are threads: every thread can     *)
(* have a candidate while the payload is set.                              *)
(***************************************************************************)
EXTENDS PthreadLazy
=============================================================================
