-------------------------- MODULE MCServiceClient --------------------------
(***************************************************************************)
(* ServiceClient for TLC: two callers, so that one may register while the  *)
(* callbacks of the other are called, and two connections, so that a call  *)
(* that began on the first one may go on on the second.                    *)
(***************************************************************************)
EXTENDS ServiceClient
=============================================================================
