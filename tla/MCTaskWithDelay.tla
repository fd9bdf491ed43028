-------------------------- MODULE MCTaskWithDelay --------------------------
(***************************************************************************)
(* TaskWithDelay for TLC.  Two callers are enough for a request that comes *)
(* while another caller joins, two worker identities for a second worker   *)
(* that would overlap the first one, and three requests for a request made *)
(* before, during and after a run.                                         *)
(***************************************************************************)
EXTENDS TaskWithDelay
=============================================================================
