---------------------------- MODULE MCEventStore ----------------------------
(***************************************************************************)
(* EventStore for TLC.  A file holds two events or three units, so that    *)
(* the third or the second event starts a new file.                        *)
(***************************************************************************)
EXTENDS EventStore

Small == {[count |-> 2, size |-> 3]}

\* What a downloaded configuration may switch between.
Varying == {[count |-> 3, size |-> 4], [count |-> 3, size |-> 3],
            [count |-> 2, size |-> 2]}
=============================================================================
