--------------------------- MODULE Pthread_proofs ---------------------------
(***************************************************************************)
(* Proofs about PthreadLazy and PthreadOnce, for any set of threads and    *)
(* any set of addresses.                                                   *)
(***************************************************************************)
EXTENDS PthreadLazy, PthreadOnce, TLAPS

-----------------------------------------------------------------------------
(* PthreadLazy.                                                            *)

USE EmptyAssumption

Offering(t) == pc[t] = "cas"

\* A candidate belongs to one thread, is not yet the mutex's and is unlocked.
CandidatesArePrivate ==
    \A t \in Threads : Offering(t) =>
        /\ ref[t] \in Objects
        /\ ref[t] # payload
        /\ owner[ref[t]] = Empty
        /\ \A u \in Threads : Offering(u) /\ ref[u] = ref[t] => u = t

\* Only a thread inside unlocks.
UnlocksWhatItLocked ==
    \A t \in Threads : pc[t] # "idle" => (op[t] = "unlock" <=> t \in inside)

\* The host mutex is owned by a thread that is inside.
OwnerIsInside ==
    payload # Empty => owner[payload] \in inside \cup {Empty}

\* NothingLeaked in a form without set images.
Allocation ==
    \A o \in Objects :
        o \in allocated <=>
            \/ o = payload
            \/ \E t \in Threads : Offering(t) /\ ref[t] = o

IInv ==
    /\ TypeOK
    /\ CandidatesArePrivate
    /\ UnlocksWhatItLocked
    /\ OwnerIsInside
    /\ Allocation
    /\ MutualExclusion
    /\ ReferencesAreCurrent

LEMMA Initially == Init => IInv
  BY DEF Init, IInv, TypeOK, Operations, CandidatesArePrivate, Offering,
         UnlocksWhatItLocked, OwnerIsInside, Allocation, MutualExclusion,
         ReferencesAreCurrent

LEMMA CallPreserves ==
  ASSUME IInv, NEW t \in Threads, NEW o \in Operations, Call(t, o)
  PROVE  IInv'
  <1> USE DEF IInv, TypeOK, Operations, Call
  <1>1. TypeOK'
    BY DEF ReferencesAreCurrent
  <1>2. CandidatesArePrivate'
    BY DEF CandidatesArePrivate, Offering
  <1>3. UnlocksWhatItLocked'
    BY DEF UnlocksWhatItLocked
  <1>4. OwnerIsInside'
    BY DEF OwnerIsInside
  <1>5. Allocation'
    BY DEF Allocation, Offering
  <1>6. MutualExclusion'
    BY DEF MutualExclusion
  <1>7. ReferencesAreCurrent'
    BY DEF ReferencesAreCurrent
  <1> QED BY <1>1, <1>2, <1>3, <1>4, <1>5, <1>6, <1>7

LEMMA LoadPreserves ==
  ASSUME IInv, NEW t \in Threads, Load(t)
  PROVE  IInv'
  <1> USE DEF IInv, TypeOK, Operations, Load
  <1>1. TypeOK'
    BY DEF ReferencesAreCurrent
  <1>2. CandidatesArePrivate'
    BY DEF CandidatesArePrivate, Offering
  <1>3. UnlocksWhatItLocked'
    BY DEF UnlocksWhatItLocked
  <1>4. OwnerIsInside'
    BY DEF OwnerIsInside
  <1>5. Allocation'
    BY DEF Allocation, Offering
  <1>6. MutualExclusion'
    BY DEF MutualExclusion
  <1>7. ReferencesAreCurrent'
    BY DEF ReferencesAreCurrent, Allocation
  <1> QED BY <1>1, <1>2, <1>3, <1>4, <1>5, <1>6, <1>7

LEMMA CreatePreserves ==
  ASSUME IInv, NEW t \in Threads, Create(t)
  PROVE  IInv'
  <1> USE DEF IInv, TypeOK, Operations, Create, NewObject
  <1>1. TypeOK'
    BY DEF ReferencesAreCurrent
  <1>2. CandidatesArePrivate'
    BY DEF CandidatesArePrivate, Offering, Allocation
  <1>3. UnlocksWhatItLocked'
    BY DEF UnlocksWhatItLocked
  <1>4. OwnerIsInside'
    BY DEF OwnerIsInside
  <1>5. Allocation'
    BY DEF Allocation, Offering
  <1>6. MutualExclusion'
    BY DEF MutualExclusion, Allocation
  <1>7. ReferencesAreCurrent'
    BY DEF ReferencesAreCurrent
  <1> QED BY <1>1, <1>2, <1>3, <1>4, <1>5, <1>6, <1>7

LEMMA InstallPreserves ==
  ASSUME IInv, NEW t \in Threads, Cas(t), Install(t)
  PROVE  IInv'
  <1> USE DEF IInv, TypeOK, Operations, Cas, Install
  <1>1. TypeOK'
    BY DEF ReferencesAreCurrent
  <1>2. CandidatesArePrivate'
    BY DEF CandidatesArePrivate, Offering
  <1>3. UnlocksWhatItLocked'
    BY DEF UnlocksWhatItLocked
  <1>4. OwnerIsInside'
    BY DEF OwnerIsInside, CandidatesArePrivate, Offering
  <1>5. Allocation'
    BY DEF Allocation, Offering
  <1>6. MutualExclusion'
    BY DEF MutualExclusion
  <1>7. ReferencesAreCurrent'
    BY DEF ReferencesAreCurrent, Allocation, Offering
  <1> QED BY <1>1, <1>2, <1>3, <1>4, <1>5, <1>6, <1>7

LEMMA UseWinnerPreserves ==
  ASSUME IInv, NEW t \in Threads, Cas(t), UseWinner(t)
  PROVE  IInv'
  <1> USE DEF IInv, TypeOK, Operations, Cas, UseWinner
  <1>1. TypeOK'
    BY DEF ReferencesAreCurrent
  <1>2. CandidatesArePrivate'
    BY DEF CandidatesArePrivate, Offering
  <1>3. UnlocksWhatItLocked'
    BY DEF UnlocksWhatItLocked
  <1>4. OwnerIsInside'
    BY DEF OwnerIsInside
  <1>5. Allocation'
    BY DEF Allocation, CandidatesArePrivate, Offering
  <1>6. MutualExclusion'
    BY DEF MutualExclusion
  <1>7. ReferencesAreCurrent'
    BY DEF ReferencesAreCurrent, Allocation, Offering, CandidatesArePrivate
  <1> QED BY <1>1, <1>2, <1>3, <1>4, <1>5, <1>6, <1>7

LEMMA AcquirePreserves ==
  ASSUME IInv, NEW t \in Threads, Host(t), Acquire(t)
  PROVE  IInv'
  <1> USE DEF IInv, TypeOK, Operations, Host, Acquire
  <1>1. TypeOK'
    BY DEF ReferencesAreCurrent
  <1>2. CandidatesArePrivate'
    BY DEF CandidatesArePrivate, Offering, ReferencesAreCurrent
  <1>3. UnlocksWhatItLocked'
    BY DEF UnlocksWhatItLocked
  <1>4. OwnerIsInside'
    BY DEF OwnerIsInside
  <1>5. Allocation'
    BY DEF Allocation, Offering
  <1>6. MutualExclusion'
    BY DEF MutualExclusion, ReferencesAreCurrent
  <1>7. ReferencesAreCurrent'
    BY DEF ReferencesAreCurrent
  <1> QED BY <1>1, <1>2, <1>3, <1>4, <1>5, <1>6, <1>7

LEMMA BusyPreserves ==
  ASSUME IInv, NEW t \in Threads, Host(t), Busy(t)
  PROVE  IInv'
  <1> USE DEF IInv, TypeOK, Operations, Host, Busy
  <1>1. TypeOK'
    BY DEF ReferencesAreCurrent
  <1>2. CandidatesArePrivate'
    BY DEF CandidatesArePrivate, Offering
  <1>3. UnlocksWhatItLocked'
    BY DEF UnlocksWhatItLocked
  <1>4. OwnerIsInside'
    BY DEF OwnerIsInside
  <1>5. Allocation'
    BY DEF Allocation, Offering
  <1>6. MutualExclusion'
    BY DEF MutualExclusion
  <1>7. ReferencesAreCurrent'
    BY DEF ReferencesAreCurrent
  <1> QED BY <1>1, <1>2, <1>3, <1>4, <1>5, <1>6, <1>7

LEMMA ReleasePreserves ==
  ASSUME IInv, NEW t \in Threads, Host(t), Release(t)
  PROVE  IInv'
  <1> USE DEF IInv, TypeOK, Operations, Host, Release
  <1>1. TypeOK'
    BY DEF ReferencesAreCurrent
  <1>2. CandidatesArePrivate'
    BY DEF CandidatesArePrivate, Offering
  <1>3. UnlocksWhatItLocked'
    BY DEF UnlocksWhatItLocked
  <1>4. OwnerIsInside'
    BY DEF OwnerIsInside, ReferencesAreCurrent
  <1>5. Allocation'
    BY DEF Allocation, Offering
  <1>6. MutualExclusion'
    BY DEF MutualExclusion
  <1>7. ReferencesAreCurrent'
    BY DEF ReferencesAreCurrent
  <1> QED BY <1>1, <1>2, <1>3, <1>4, <1>5, <1>6, <1>7

LEMMA MutexInitPreserves ==
  ASSUME IInv, MutexInit
  PROVE  IInv'
  <1> USE DEF IInv, TypeOK, Operations, MutexInit, NewObject, Unused
  <1>1. TypeOK'
    BY DEF ReferencesAreCurrent
  <1>2. CandidatesArePrivate'
    BY DEF CandidatesArePrivate, Offering
  <1>3. UnlocksWhatItLocked'
    BY DEF UnlocksWhatItLocked
  <1>4. OwnerIsInside'
    BY DEF OwnerIsInside
  <1>5. Allocation'
    BY DEF Allocation, Offering
  <1>6. MutualExclusion'
    BY DEF MutualExclusion
  <1>7. ReferencesAreCurrent'
    BY DEF ReferencesAreCurrent
  <1> QED BY <1>1, <1>2, <1>3, <1>4, <1>5, <1>6, <1>7

LEMMA MutexDestroyPreserves ==
  ASSUME IInv, MutexDestroy
  PROVE  IInv'
  <1> USE DEF IInv, TypeOK, Operations, MutexDestroy, Unused
  <1>1. TypeOK'
    BY DEF ReferencesAreCurrent
  <1>2. CandidatesArePrivate'
    BY DEF CandidatesArePrivate, Offering
  <1>3. UnlocksWhatItLocked'
    BY DEF UnlocksWhatItLocked
  <1>4. OwnerIsInside'
    BY DEF OwnerIsInside
  <1>5. Allocation'
    BY DEF Allocation, Offering
  <1>6. MutualExclusion'
    BY DEF MutualExclusion
  <1>7. ReferencesAreCurrent'
    BY DEF ReferencesAreCurrent
  <1> QED BY <1>1, <1>2, <1>3, <1>4, <1>5, <1>6, <1>7

LEMMA StepPreserves == IInv /\ [Next]_vars => IInv'
  <1> SUFFICES ASSUME IInv, [Next]_vars PROVE IInv'
    OBVIOUS
  <1>1. ASSUME NEW t \in Threads, NEW o \in Operations, Call(t, o)
        PROVE  IInv'
    BY <1>1, CallPreserves
  <1>2. ASSUME NEW t \in Threads, ToHost(t) PROVE IInv'
    BY <1>2, LoadPreserves, CreatePreserves, InstallPreserves,
       UseWinnerPreserves
       DEF ToHost, Cas
  <1>3. ASSUME NEW t \in Threads, Host(t) PROVE IInv'
    BY <1>3, AcquirePreserves, BusyPreserves, ReleasePreserves DEF Host
  <1>4. CASE MutexInit
    BY <1>4, MutexInitPreserves
  <1>5. CASE MutexDestroy
    BY <1>5, MutexDestroyPreserves
  <1>6. CASE UNCHANGED vars
    BY <1>6
       DEF vars, IInv, TypeOK, CandidatesArePrivate, Offering,
           UnlocksWhatItLocked, OwnerIsInside, Allocation, MutualExclusion,
           ReferencesAreCurrent
  <1> QED BY <1>1, <1>2, <1>3, <1>4, <1>5, <1>6 DEF Next

THEOREM Invariance == Safety => []IInv
  BY Initially, StepPreserves, PTL DEF Safety

(***************************************************************************)
(* Any number of threads may race for the first use of a bionic mutex:     *)
(* they exclude each other all the same (pthreads.cpp:53-62).              *)
(***************************************************************************)
THEOREM Exclusion == Safety => []MutualExclusion
  <1>1. IInv => MutualExclusion
    BY DEF IInv
  <1> QED BY Invariance, <1>1, PTL

(***************************************************************************)
(* No host function is called on a freed or superseded host mutex          *)
(* (pthreads.cpp:57-62, 317-326, pthreads.h:90-98).                        *)
(***************************************************************************)
THEOREM NoUseAfterFree == Safety => []ReferencesAreCurrent
  <1>1. IInv => ReferencesAreCurrent
    BY DEF IInv
  <1> QED BY Invariance, <1>1, PTL

(***************************************************************************)
(* The losers of the race free what they have allocated                    *)
(* (pthreads.cpp:57-58), and pthread_mutex_destroy() frees the rest.       *)
(***************************************************************************)
THEOREM NoLeak == Safety => []NothingLeaked
  <1>1. IInv => NothingLeaked
    <2> SUFFICES ASSUME IInv PROVE NothingLeaked
      OBVIOUS
    <2>1. allocated \subseteq Objects
      BY DEF IInv, TypeOK
    <2>2. ASSUME NEW o \in Objects
          PROVE  o \in allocated <=>
                   \/ o = payload
                   \/ \E t \in Threads : pc[t] = "cas" /\ ref[t] = o
      BY DEF IInv, Allocation, Offering
    <2>3. {payload} \ {Empty} \subseteq Objects
      BY DEF IInv, TypeOK
    <2>4. {ref[t] : t \in {u \in Threads : pc[u] = "cas"}} \subseteq Objects
      BY DEF IInv, CandidatesArePrivate, Offering
    <2> QED BY <2>1, <2>2, <2>3, <2>4 DEF NothingLeaked
  <1> QED BY Invariance, <1>1, PTL

-----------------------------------------------------------------------------
(* PthreadOnce.                                                            *)

Executing(t) == at[t] \in {"routine", "store"}

\* The control word tells how far the one execution of the routine has got,
\* and the thread that executes it is the only one to do so.
ControlIsTrue ==
    /\ control = 0 =>
        /\ runs["begun"] = 0
        /\ \A t \in Callers : ~Executing(t) /\ at[t] # "spin"
    /\ control = 1 =>
        /\ runs["begun"] = 1
        /\ runs["ended"] = 0 => \A t \in Callers : at[t] # "store"
    /\ control = 2 =>
        /\ runs["begun"] = 1
        /\ runs["ended"] >= 1
        /\ \A t \in Callers : ~Executing(t)
    /\ \A t, u \in Callers : Executing(t) /\ Executing(u) => t = u

OnceIInv == OnceTypeOK /\ ControlIsTrue

LEMMA OnceInitially == OnceInit => OnceIInv
  BY DEF OnceInit, OnceIInv, OnceTypeOK, ControlIsTrue, Executing

LEMMA OnceStepPreserves == OnceIInv /\ [OnceNext]_onceVars => OnceIInv'
  <1> SUFFICES ASSUME OnceIInv, [OnceNext]_onceVars PROVE OnceIInv'
    OBVIOUS
  <1> USE DEF OnceIInv, OnceTypeOK, GoOn
  <1>1. ASSUME NEW t \in Callers, CallOnce(t) \/ Lose(t) \/ SpinEnds(t)
        PROVE  OnceIInv'
    <2>1. OnceTypeOK'
      BY <1>1 DEF CallOnce, Lose, SpinEnds
    <2>2. ControlIsTrue'
      BY <1>1 DEF CallOnce, Lose, SpinEnds, ControlIsTrue, Executing
    <2> QED BY <2>1, <2>2
  <1>2. ASSUME NEW t \in Callers, Win(t) PROVE OnceIInv'
    <2>1. OnceTypeOK'
      BY <1>2 DEF Win
    <2>2. runs'["begun"] = 1 /\ control' = 1
      BY <1>2 DEF Win, ControlIsTrue
    <2>3. \A u \in Callers : Executing(u)' => u = t
      BY <1>2 DEF Win, Executing
    <2>4. \A u \in Callers : at'[u] # "store"
      BY <1>2 DEF Win
    <2> QED BY <2>1, <2>2, <2>3, <2>4 DEF ControlIsTrue
  <1>3. ASSUME NEW t \in Callers, RoutineReturns(t) PROVE OnceIInv'
    <2>1. OnceTypeOK'
      BY <1>3 DEF RoutineReturns
    <2>2. control' = 1 /\ runs'["begun"] = 1 /\ runs'["ended"] > 0
      BY <1>3 DEF RoutineReturns, ControlIsTrue, Executing
    <2>3. \A u \in Callers : Executing(u)' <=> Executing(u)
      BY <1>3 DEF RoutineReturns, Executing
    <2> QED BY <2>1, <2>2, <2>3 DEF ControlIsTrue
  <1>4. ASSUME NEW t \in Callers, Store(t) PROVE OnceIInv'
    <2>1. OnceTypeOK'
      BY <1>4 DEF Store
    <2>2. control' = 2 /\ runs' = runs /\ runs["begun"] = 1
      BY <1>4 DEF Store, ControlIsTrue
    <2>3. runs["ended"] >= 1
      BY <1>4 DEF Store, ControlIsTrue
    <2>4. \A u \in Callers : ~Executing(u)'
      BY <1>4 DEF Store, ControlIsTrue, Executing
    <2> QED BY <2>1, <2>2, <2>3, <2>4 DEF ControlIsTrue
  <1>5. CASE UNCHANGED onceVars
    BY <1>5 DEF onceVars, ControlIsTrue, Executing
  <1> QED BY <1>1, <1>2, <1>3, <1>4, <1>5 DEF OnceNext, OnceStep

THEOREM OnceInvariance == OnceSafety => []OnceIInv
  BY OnceInitially, OnceStepPreserves, PTL DEF OnceSafety

(***************************************************************************)
(* The routine runs at most once, for any number of threads                *)
(* (pthreads.cpp:496-501).                                                 *)
(***************************************************************************)
THEOREM AtMostOnce == OnceSafety => []RunsOnce
  <1>1. OnceIInv => RunsOnce
    BY DEF OnceIInv, OnceTypeOK, ControlIsTrue, RunsOnce
  <1> QED BY OnceInvariance, <1>1, PTL

(***************************************************************************)
(* No call of pthread_once() returns before the routine has completed      *)
(* (pthreads.cpp:499-508).                                                 *)
(***************************************************************************)
THEOREM CompletedOnReturn == OnceSafety => ReturnsAfterRoutine
  <1>1. ASSUME OnceIInv, [OnceNext]_onceVars, NEW t \in Callers,
               at[t] # "out", at'[t] = "out"
        PROVE  runs["ended"] >= 1
    <2>1. at' # at
      BY <1>1
    <2>2. PICK u \in Callers : CallOnce(u) \/ OnceStep(u)
      BY <1>1, <2>1 DEF OnceNext, onceVars
    <2>3. u = t
      BY <1>1, <2>2
         DEF CallOnce, OnceStep, Win, Lose, RoutineReturns, Store, SpinEnds, GoOn,
             OnceIInv, OnceTypeOK
    <2>4. Lose(t) \/ Store(t) \/ SpinEnds(t)
      BY <1>1, <2>2, <2>3
         DEF CallOnce, OnceStep, Win, RoutineReturns, GoOn, OnceIInv, OnceTypeOK
    <2>5. CASE Store(t)
      BY <1>1, <2>5 DEF Store, OnceIInv, OnceTypeOK, ControlIsTrue
    <2>6. CASE Lose(t) \/ SpinEnds(t)
      <3>1. control = 2
        BY <1>1, <2>6 DEF Lose, SpinEnds, GoOn, OnceIInv, OnceTypeOK
      <3> QED BY <1>1, <3>1 DEF OnceIInv, ControlIsTrue
    <2> QED BY <2>4, <2>5, <2>6
  <1>2. OnceIInv /\ [OnceNext]_onceVars =>
          [\A t \in Callers :
             at[t] # "out" /\ at'[t] = "out" => runs["ended"] >= 1]_onceVars
    BY <1>1
  <1> QED BY OnceInvariance, <1>2, PTL DEF OnceSafety, ReturnsAfterRoutine
=============================================================================
