--------------------------- MODULE MCEventManager ---------------------------
(***************************************************************************)
(* EventManager for TLC: one thread that adds three events of any kind to  *)
(* a realtime batch of one and a buffer of two, so that both overflow.     *)
(* The realtime task, when it hands its events over, is a second thread    *)
(* that adds to the storage batches.                                       *)
(***************************************************************************)
EXTENDS EventManager

AllKinds == [critical : BOOLEAN, realtime : BOOLEAN]
=============================================================================
