---------------------------- MODULE DelayedTask ----------------------------
(***************************************************************************)
(* What cll::TaskWithDelayThread promises to its users, independently of   *)
(* threads, locks and condition variables                                  *)
(* (cll-telemetry/include/cll/task_with_delay_thread.h:10-13, 62-72): runs  *)
(* may be requested at any time, a request is answered by a run that       *)
(* STARTS after it, several requests may share one run ("Grouping" in      *)
(* test/task_with_delay_thread.cpp), two runs never overlap, and once      *)
(* terminate() has returned nothing runs any more.                         *)
(***************************************************************************)
VARIABLES
    wanted,     \* a run has been requested since the last run started
    busy,       \* the task function is being executed
    closed      \* terminate() has returned

vars == <<wanted, busy, closed>>

Init ==
    /\ wanted = FALSE
    /\ busy = FALSE
    /\ closed = FALSE

Request ==
    /\ ~closed
    /\ wanted' = TRUE
    /\ UNCHANGED <<busy, closed>>

Start ==
    /\ wanted
    /\ ~busy
    /\ ~closed
    /\ wanted' = FALSE
    /\ busy' = TRUE
    /\ UNCHANGED closed

Finish ==
    /\ busy
    /\ busy' = FALSE
    /\ UNCHANGED <<wanted, closed>>

\* terminate() waits for a requested run, it never discards one.
Close ==
    /\ ~wanted
    /\ ~busy
    /\ closed' = TRUE
    /\ UNCHANGED <<wanted, busy>>

Next == Request \/ Start \/ Finish \/ Close

Safety == Init /\ [][Next]_vars

Spec == Safety /\ WF_vars(Start) /\ WF_vars(Finish)
=============================================================================
