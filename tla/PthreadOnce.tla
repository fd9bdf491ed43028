---------------------------- MODULE PthreadOnce ----------------------------
(***************************************************************************)
(* pthread_once() of libc-shim (src/pthreads.cpp:493-509).                 *)
(*                                                                         *)
(* The control word goes from 0 to 1 with a compare-and-exchange and to 2  *)
(* when the routine has returned; a caller that comes while it is 1 spins. *)
(***************************************************************************)
EXTENDS Naturals

CONSTANT Callers

VARIABLES
    control,        \* the pthread_once_t
    at,             \* where each thread is in pthread_once()
    runs            \* calls of the routine that have been begun, ended

onceVars == <<control, at, runs>>

OnceTypeOK ==
    /\ control \in 0..2
    /\ at \in [Callers -> {"out", "call", "routine", "store", "spin"}]
    /\ runs \in [{"begun", "ended"} -> Nat]
    /\ \A t \in Callers : at[t] \in {"routine", "store", "spin"} => control # 0

OnceInit ==
    /\ control = 0
    /\ at = [t \in Callers |-> "out"]
    /\ runs = [e \in {"begun", "ended"} |-> 0]

GoOn(t, label) == at' = [at EXCEPT ![t] = label]

\* A thread may call pthread_once() as often as it likes.
CallOnce(t) ==
    /\ at[t] = "out"
    /\ GoOn(t, "call")
    /\ UNCHANGED <<control, runs>>

\* Mutant: the exchange is replaced by a test and a store made later.
TestWithoutExchange(t) ==
    /\ at[t] = "call"
    /\ control = 0
    /\ GoOn(t, "routine")
    /\ runs' = [runs EXCEPT !["begun"] = @ + 1]
    /\ UNCHANGED control

Win(t) ==
    /\ at[t] = "call"
    /\ control = 0
    /\ control' = 1
    /\ GoOn(t, "routine")
    /\ runs' = [runs EXCEPT !["begun"] = @ + 1]

Lose(t) ==
    /\ at[t] = "call"
    /\ control # 0
    /\ GoOn(t, IF control = 2 THEN "out" ELSE "spin")
    /\ UNCHANGED <<control, runs>>

RoutineReturns(t) ==
    /\ at[t] = "routine"
    /\ GoOn(t, "store")
    /\ runs' = [runs EXCEPT !["ended"] = @ + 1]
    /\ UNCHANGED control

Store(t) ==
    /\ at[t] = "store"
    /\ control' = 2
    /\ GoOn(t, "out")
    /\ UNCHANGED runs

\* Mutant: whoever loses the exchange returns at once.
NoSpin(t) ==
    /\ at[t] = "spin"
    /\ GoOn(t, "out")
    /\ UNCHANGED <<control, runs>>

\* Mutant: the loop waits for the initial value.
SpinForZero(t) ==
    /\ at[t] = "spin"
    /\ control = 0
    /\ GoOn(t, "out")
    /\ UNCHANGED <<control, runs>>

\* An iteration that still reads 1 yields and changes nothing.
SpinEnds(t) ==
    /\ at[t] = "spin"
    /\ control # 1
    /\ GoOn(t, "out")
    /\ UNCHANGED <<control, runs>>

OnceStep(t) ==
    Win(t) \/ Lose(t) \/ RoutineReturns(t) \/ Store(t) \/ SpinEnds(t)

OnceNext == \E t \in Callers : CallOnce(t) \/ OnceStep(t)

OnceSafety == OnceInit /\ [][OnceNext]_onceVars

\* Threads run, and the routine returns.
OnceSpec == OnceSafety /\ \A t \in Callers : WF_onceVars(OnceStep(t))

-----------------------------------------------------------------------------
(* Properties.                                                             *)

(***************************************************************************)
(* The routine is called once at most, whatever the number of callers and  *)
(* calls (pthreads.cpp:496-498).                                           *)
(***************************************************************************)
RunsOnce == runs["begun"] <= 1

(***************************************************************************)
(* Whoever returns from pthread_once() finds the routine completed         *)
(* (pthreads.cpp:502-508).                                                 *)
(***************************************************************************)
ReturnsAfterRoutine ==
    [][\A t \in Callers :
         at[t] # "out" /\ at'[t] = "out" => runs["ended"] >= 1]_onceVars

(***************************************************************************)
(* A spinning caller is released once the routine has returned             *)
(* (pthreads.cpp:499, 505-507).                                            *)
(***************************************************************************)
EveryCallReturns == \A t \in Callers : at[t] = "call" ~> at[t] = "out"
=============================================================================
