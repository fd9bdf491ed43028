------------------------ MODULE TaskWithDelay_proofs ------------------------
(***************************************************************************)
(* Proofs about TaskWithDelay, for any sets of callers and workers and any *)
(* number of requests.                                                     *)
(***************************************************************************)
EXTENDS TaskWithDelay, TLAPS

-----------------------------------------------------------------------------
(* The inductive invariant.                                                *)

\* The std::thread member holds the only worker there is.
WorkerIsThread ==
    /\ thread # None => Exists(thread)
    /\ \A w \in Workers : Exists(w) => w = thread

\* The flag `running' tells the truth: a worker that left its loop has reset
\* it, and a caller that found it reset has set it before it joins.
RunningIsTrue ==
    /\ running => Joining \/ \E w \in Workers : InLoop(w)
    /\ ~running => \A w \in Workers : ~InLoop(w)

PendingIsRunning ==
    /\ hasPendingTask => running
    /\ \A w \in Workers : wpc[w] \in {"waiting", "woken"} => hasPendingTask

JoinerHasMutex ==
    \A c \in Callers : cpc[c] = "join" =>
        /\ mutex = c
        /\ running
        /\ \A w \in Workers : ~InLoop(w)

OwnerIsAlone ==
    /\ opc # "live" => \A c \in Callers : cpc[c] = "idle"
    /\ opc = "done" => thread = None

IInv ==
    /\ TypeOK
    /\ WorkerIsThread
    /\ RunningIsTrue
    /\ PendingIsRunning
    /\ JoinCannotDeadlock
    /\ JoinerHasMutex
    /\ OwnerIsAlone


USE NoneAssumption

LEMMA Initially == Init => IInv
  <1> SUFFICES ASSUME Init PROVE IInv
    OBVIOUS
  <1> USE DEF Init
  <1>1. TypeOK
    BY DEF TypeOK, WorkerPc, CallerPc, OwnerPc
  <1>2. WorkerIsThread /\ RunningIsTrue /\ PendingIsRunning
    BY DEF WorkerIsThread, RunningIsTrue, PendingIsRunning, Exists, InLoop
  <1>3. JoinCannotDeadlock /\ JoinerHasMutex /\ OwnerIsAlone
    BY DEF JoinCannotDeadlock, JoinerHasMutex, OwnerIsAlone
  <1> QED BY <1>1, <1>2, <1>3 DEF IInv

LEMMA WorkerLoopPreserves ==
  ASSUME IInv, NEW w \in Workers, WorkerLoop(w)
  PROVE  IInv'
  <1> USE DEF IInv, TypeOK, WorkerPc, CallerPc, OwnerPc, flags, WorkerLoop,
             LoopLeave, LoopWait, LoopRunNow, TakeTask
  <1>1. TypeOK'
    BY DEF WorkerIsThread
  <1>2. WorkerIsThread'
    BY DEF WorkerIsThread, Exists
  <1>3. RunningIsTrue'
    BY DEF RunningIsTrue, InLoop, WorkerIsThread, Exists
  <1>4. PendingIsRunning'
    BY DEF PendingIsRunning, WorkerIsThread, Exists
  <1>5. JoinCannotDeadlock'
    BY DEF JoinCannotDeadlock
  <1>6. JoinerHasMutex'
    BY DEF JoinerHasMutex
  <1>7. OwnerIsAlone'
    BY DEF OwnerIsAlone
  <1> QED BY <1>1, <1>2, <1>3, <1>4, <1>5, <1>6, <1>7

LEMMA DelayOverPreserves ==
  ASSUME IInv, NEW w \in Workers, DelayOver(w)
  PROVE  IInv'
  <1> USE DEF IInv, TypeOK, WorkerPc, CallerPc, OwnerPc, flags, DelayOver
  <1>1. TypeOK'
    BY DEF WorkerIsThread
  <1>2. WorkerIsThread'
    BY DEF WorkerIsThread, Exists
  <1>3. RunningIsTrue'
    BY DEF RunningIsTrue, InLoop
  <1>4. PendingIsRunning'
    BY DEF PendingIsRunning
  <1>5. JoinCannotDeadlock'
    BY DEF JoinCannotDeadlock
  <1>6. JoinerHasMutex'
    BY DEF JoinerHasMutex, InLoop
  <1>7. OwnerIsAlone'
    BY DEF OwnerIsAlone
  <1> QED BY <1>1, <1>2, <1>3, <1>4, <1>5, <1>6, <1>7

LEMMA WorkerResumePreserves ==
  ASSUME IInv, NEW w \in Workers, WorkerResume(w)
  PROVE  IInv'
  <1> USE DEF IInv, TypeOK, WorkerPc, CallerPc, OwnerPc, flags,
             WorkerResume, TakeTask
  <1>1. TypeOK'
    BY DEF WorkerIsThread
  <1>2. WorkerIsThread'
    BY DEF WorkerIsThread, Exists
  <1>3. RunningIsTrue'
    BY DEF RunningIsTrue, InLoop
  <1>4. PendingIsRunning'
    BY DEF PendingIsRunning, WorkerIsThread, Exists
  <1>5. JoinCannotDeadlock'
    BY DEF JoinCannotDeadlock
  <1>6. JoinerHasMutex'
    BY DEF JoinerHasMutex
  <1>7. OwnerIsAlone'
    BY DEF OwnerIsAlone
  <1> QED BY <1>1, <1>2, <1>3, <1>4, <1>5, <1>6, <1>7

LEMMA TaskEndsPreserves ==
  ASSUME IInv, NEW w \in Workers, TaskEnds(w)
  PROVE  IInv'
  <1> USE DEF IInv, TypeOK, WorkerPc, CallerPc, OwnerPc, flags, TaskEnds
  <1>1. TypeOK'
    BY DEF WorkerIsThread
  <1>2. WorkerIsThread'
    BY DEF WorkerIsThread, Exists
  <1>3. RunningIsTrue'
    BY DEF RunningIsTrue, InLoop
  <1>4. PendingIsRunning'
    BY DEF PendingIsRunning
  <1>5. JoinCannotDeadlock'
    BY DEF JoinCannotDeadlock
  <1>6. JoinerHasMutex'
    BY DEF JoinerHasMutex, InLoop
  <1>7. OwnerIsAlone'
    BY DEF OwnerIsAlone
  <1> QED BY <1>1, <1>2, <1>3, <1>4, <1>5, <1>6, <1>7

LEMMA WorkerExitsPreserves ==
  ASSUME IInv, NEW w \in Workers, WorkerExits(w)
  PROVE  IInv'
  <1> USE DEF IInv, TypeOK, WorkerPc, CallerPc, OwnerPc, flags, WorkerExits
  <1>1. TypeOK'
    BY DEF WorkerIsThread
  <1>2. WorkerIsThread'
    BY DEF WorkerIsThread, Exists
  <1>3. RunningIsTrue'
    BY DEF RunningIsTrue, InLoop, Joining
  <1>4. PendingIsRunning'
    BY DEF PendingIsRunning
  <1>5. JoinCannotDeadlock'
    BY DEF JoinCannotDeadlock
  <1>6. JoinerHasMutex'
    BY DEF JoinerHasMutex, InLoop
  <1>7. OwnerIsAlone'
    BY DEF OwnerIsAlone
  <1> QED BY <1>1, <1>2, <1>3, <1>4, <1>5, <1>6, <1>7

LEMMA SleepCallPreserves ==
  ASSUME IInv, NEW w \in Workers, SleepCall(w)
  PROVE  IInv'
  <1> USE DEF IInv, TypeOK, WorkerPc, CallerPc, OwnerPc, flags, SleepCall
  <1>1. TypeOK'
    <2>1. sleeps' \in Nat /\ wpc' \in [Workers -> WorkerPc]
      OBVIOUS
    <2>2. mutex' \in {x \in Callers : cpc'[x] = "join"} \cup {None}
      OBVIOUS
    <2> QED BY <2>1, <2>2
  <1>2. WorkerIsThread'
    BY DEF WorkerIsThread, Exists
  <1>3. RunningIsTrue'
    BY DEF RunningIsTrue, InLoop
  <1>4. PendingIsRunning'
    BY DEF PendingIsRunning
  <1>5. JoinCannotDeadlock'
    BY DEF JoinCannotDeadlock
  <1>6. JoinerHasMutex'
    BY DEF JoinerHasMutex, InLoop
  <1>7. OwnerIsAlone'
    BY DEF OwnerIsAlone
  <1> QED BY <1>1, <1>2, <1>3, <1>4, <1>5, <1>6, <1>7

LEMMA SleepReturnPreserves ==
  ASSUME IInv, NEW w \in Workers, SleepReturn(w)
  PROVE  IInv'
  <1> USE DEF IInv, TypeOK, WorkerPc, CallerPc, OwnerPc, flags, SleepReturn
  <1>1. TypeOK'
    BY DEF WorkerIsThread
  <1>2. WorkerIsThread'
    BY DEF WorkerIsThread, Exists
  <1>3. RunningIsTrue'
    BY DEF RunningIsTrue, InLoop
  <1>4. PendingIsRunning'
    BY DEF PendingIsRunning
  <1>5. JoinCannotDeadlock'
    BY DEF JoinCannotDeadlock
  <1>6. JoinerHasMutex'
    BY DEF JoinerHasMutex
  <1>7. OwnerIsAlone'
    BY DEF OwnerIsAlone
  <1> QED BY <1>1, <1>2, <1>3, <1>4, <1>5, <1>6, <1>7

LEMMA RequestCallPreserves ==
  ASSUME IInv, NEW c \in Callers, NEW now \in BOOLEAN, RequestCall(c, now)
  PROVE  IInv'
  <1> USE DEF IInv, TypeOK, WorkerPc, CallerPc, OwnerPc, flags, RequestCall
  <1>1. TypeOK'
    BY DEF WorkerIsThread
  <1>2. WorkerIsThread'
    BY DEF WorkerIsThread, Exists
  <1>3. RunningIsTrue'
    BY DEF RunningIsTrue, InLoop, Joining
  <1>4. PendingIsRunning'
    BY DEF PendingIsRunning
  <1>5. JoinCannotDeadlock'
    BY DEF JoinCannotDeadlock
  <1>6. JoinerHasMutex'
    BY DEF JoinerHasMutex, InLoop
  <1>7. OwnerIsAlone'
    BY DEF OwnerIsAlone
  <1> QED BY <1>1, <1>2, <1>3, <1>4, <1>5, <1>6, <1>7

LEMMA RequestRunPreserves ==
  ASSUME IInv, NEW c \in Callers, RequestRun(c)
  PROVE  IInv'
  <1> USE DEF IInv, TypeOK, WorkerPc, CallerPc, OwnerPc, flags, RequestRun,
             RequestAsleep, RequestAwake, StartWorker
  <1>1. TypeOK'
    BY ZenonT(60) DEF JoinCannotDeadlock, JoinerHasMutex, WorkerIsThread
  <1>2. WorkerIsThread'
    BY DEF WorkerIsThread, Exists
  <1>3. RunningIsTrue'
    BY DEF RunningIsTrue, InLoop, Joining
  <1>4. PendingIsRunning'
    BY DEF PendingIsRunning
  <1>5. JoinCannotDeadlock'
    BY DEF JoinCannotDeadlock, WorkerIsThread, Exists, RunningIsTrue, InLoop
  <1>6. JoinerHasMutex'
    BY DEF JoinerHasMutex, InLoop, RunningIsTrue
  <1>7. OwnerIsAlone'
    BY DEF OwnerIsAlone
  <1> QED BY <1>1, <1>2, <1>3, <1>4, <1>5, <1>6, <1>7

LEMMA RequestJoinPreserves ==
  ASSUME IInv, NEW c \in Callers, RequestJoin(c)
  PROVE  IInv'
  <1> USE DEF IInv, TypeOK, WorkerPc, CallerPc, OwnerPc, flags, RequestJoin
  <1>1. TypeOK'
    BY DEF WorkerIsThread
  <1>2. WorkerIsThread'
    BY DEF WorkerIsThread, Exists
  <1>3. RunningIsTrue'
    BY DEF RunningIsTrue, InLoop, JoinerHasMutex
  <1>4. PendingIsRunning'
    BY DEF PendingIsRunning
  <1>5. JoinCannotDeadlock'
    BY DEF JoinCannotDeadlock, JoinerHasMutex
  <1>6. JoinerHasMutex'
    BY DEF JoinerHasMutex
  <1>7. OwnerIsAlone'
    BY DEF OwnerIsAlone
  <1> QED BY <1>1, <1>2, <1>3, <1>4, <1>5, <1>6, <1>7

LEMMA RequestNotifyPreserves ==
  ASSUME IInv, NEW c \in Callers, RequestNotify(c)
  PROVE  IInv'
  <1> USE DEF IInv, TypeOK, WorkerPc, CallerPc, OwnerPc, flags,
             RequestNotify, NotifyAll
  <1>1. TypeOK'
    BY DEF WorkerIsThread
  <1>2. WorkerIsThread'
    BY DEF WorkerIsThread, Exists
  <1>3. RunningIsTrue'
    BY DEF RunningIsTrue, InLoop, Joining
  <1>4. PendingIsRunning'
    BY DEF PendingIsRunning
  <1>5. JoinCannotDeadlock'
    BY DEF JoinCannotDeadlock
  <1>6. JoinerHasMutex'
    BY DEF JoinerHasMutex, InLoop
  <1>7. OwnerIsAlone'
    BY DEF OwnerIsAlone
  <1> QED BY <1>1, <1>2, <1>3, <1>4, <1>5, <1>6, <1>7

LEMMA TerminateCallPreserves ==
  ASSUME IInv, TerminateCall
  PROVE  IInv'
  <1> USE DEF IInv, TypeOK, WorkerPc, CallerPc, OwnerPc, flags, TerminateCall
  <1>1. TypeOK'
    BY DEF WorkerIsThread
  <1>2. WorkerIsThread'
    BY DEF WorkerIsThread, Exists
  <1>3. RunningIsTrue'
    BY DEF RunningIsTrue, InLoop, Joining
  <1>4. PendingIsRunning'
    BY DEF PendingIsRunning
  <1>5. JoinCannotDeadlock'
    BY DEF JoinCannotDeadlock
  <1>6. JoinerHasMutex'
    BY DEF JoinerHasMutex
  <1>7. OwnerIsAlone'
    BY DEF OwnerIsAlone
  <1> QED BY <1>1, <1>2, <1>3, <1>4, <1>5, <1>6, <1>7

LEMMA TerminateSetPreserves ==
  ASSUME IInv, TerminateSet
  PROVE  IInv'
  <1> USE DEF IInv, TypeOK, WorkerPc, CallerPc, OwnerPc, flags, TerminateSet
  <1>1. TypeOK'
    BY DEF WorkerIsThread
  <1>2. WorkerIsThread'
    BY DEF WorkerIsThread, Exists
  <1>3. RunningIsTrue'
    BY DEF RunningIsTrue, InLoop, Joining
  <1>4. PendingIsRunning'
    BY DEF PendingIsRunning
  <1>5. JoinCannotDeadlock'
    BY DEF JoinCannotDeadlock
  <1>6. JoinerHasMutex'
    BY DEF JoinerHasMutex
  <1>7. OwnerIsAlone'
    BY DEF OwnerIsAlone
  <1> QED BY <1>1, <1>2, <1>3, <1>4, <1>5, <1>6, <1>7

LEMMA TerminateNotifyPreserves ==
  ASSUME IInv, TerminateNotify
  PROVE  IInv'
  <1> USE DEF IInv, TypeOK, WorkerPc, CallerPc, OwnerPc, flags,
             TerminateNotify, NotifyAll
  <1>1. TypeOK'
    BY DEF WorkerIsThread
  <1>2. WorkerIsThread'
    BY DEF WorkerIsThread, Exists
  <1>3. RunningIsTrue'
    BY DEF RunningIsTrue, InLoop, Joining
  <1>4. PendingIsRunning'
    BY DEF PendingIsRunning
  <1>5. JoinCannotDeadlock'
    BY DEF JoinCannotDeadlock
  <1>6. JoinerHasMutex'
    BY DEF JoinerHasMutex, InLoop
  <1>7. OwnerIsAlone'
    BY DEF OwnerIsAlone
  <1> QED BY <1>1, <1>2, <1>3, <1>4, <1>5, <1>6, <1>7

LEMMA TerminateJoinPreserves ==
  ASSUME IInv, TerminateJoin
  PROVE  IInv'
  <1> USE DEF IInv, TypeOK, WorkerPc, CallerPc, OwnerPc, flags, TerminateJoin
  <1>1. TypeOK'
    BY DEF WorkerIsThread
  <1>2. WorkerIsThread'
    BY DEF WorkerIsThread, Exists
  <1>3. RunningIsTrue'
    BY DEF RunningIsTrue, InLoop, Joining
  <1>4. PendingIsRunning'
    BY DEF PendingIsRunning
  <1>5. JoinCannotDeadlock'
    BY DEF JoinCannotDeadlock, OwnerIsAlone
  <1>6. JoinerHasMutex'
    BY DEF JoinerHasMutex, InLoop
  <1>7. OwnerIsAlone'
    BY DEF OwnerIsAlone
  <1> QED BY <1>1, <1>2, <1>3, <1>4, <1>5, <1>6, <1>7

-----------------------------------------------------------------------------

LEMMA StepPreserves == IInv /\ [Next]_vars => IInv'
  <1> SUFFICES ASSUME IInv, [Next]_vars PROVE IInv'
    OBVIOUS
  <1>1. ASSUME NEW w \in Workers, Worker(w) PROVE IInv'
    BY <1>1, WorkerLoopPreserves, WorkerResumePreserves, TaskEndsPreserves,
       WorkerExitsPreserves, SleepCallPreserves,
       SleepReturnPreserves
       DEF Worker
  <1>2. ASSUME NEW w \in Workers, DelayOver(w) PROVE IInv'
    BY <1>2, DelayOverPreserves
  <1>3. ASSUME NEW c \in Callers, Caller(c) PROVE IInv'
    BY <1>3, RequestRunPreserves, RequestJoinPreserves, RequestNotifyPreserves
       DEF Caller
  <1>4. ASSUME NEW c \in Callers, NEW now \in BOOLEAN, RequestCall(c, now)
        PROVE  IInv'
    BY <1>4, RequestCallPreserves
  <1>5. CASE TerminateCall
    BY <1>5, TerminateCallPreserves
  <1>6. CASE Owner
    BY <1>6, TerminateSetPreserves, TerminateNotifyPreserves,
       TerminateJoinPreserves
       DEF Owner
  <1>7. CASE UNCHANGED vars
    BY <1>7
       DEF vars, flags, IInv, TypeOK, WorkerIsThread, RunningIsTrue,
           PendingIsRunning, JoinCannotDeadlock, JoinerHasMutex, OwnerIsAlone,
           Exists, InLoop, Joining
  <1> QED BY <1>1, <1>2, <1>3, <1>4, <1>5, <1>6, <1>7 DEF Next

THEOREM Invariance == Safety => []IInv
  BY Initially, StepPreserves, PTL DEF Safety

(***************************************************************************)
(* The variables keep their types, and the mutex stays locked only for a   *)
(* caller that joins (task_with_delay_thread.cpp:43-57).                   *)
(***************************************************************************)
THEOREM TypeCorrect == Safety => []TypeOK
  <1>1. IInv => TypeOK
    BY DEF IInv
  <1> QED BY Invariance, <1>1, PTL

(***************************************************************************)
(* For any number of callers, requests and thread identities there is one  *)
(* live worker at most (task_with_delay_thread.cpp:48-52).                 *)
(***************************************************************************)
THEOREM NeverTwoWorkers == Safety => []OneWorker
  <1>1. IInv => OneWorker
    BY DEF IInv, WorkerIsThread, OneWorker
  <1> QED BY Invariance, <1>1, PTL

(***************************************************************************)
(* A pending run always has a worker that is going to test the flag, or a  *)
(* caller that starts one (task_with_delay_thread.cpp:14-23, 45-52).       *)
(***************************************************************************)
THEOREM NoLostRequest == Safety => []PendingHasWorker
  <1>1. IInv => PendingHasWorker
    BY DEF IInv, PendingIsRunning, RunningIsTrue, PendingHasWorker
  <1> QED BY Invariance, <1>1, PTL

(***************************************************************************)
(* A join made with the mutex held waits for a thread that is past its last*)
(* use of the mutex (task_with_delay_thread.cpp:21-27, 44-51).             *)
(***************************************************************************)
THEOREM JoinIsSafe == Safety => []JoinCannotDeadlock
  <1>1. IInv => JoinCannotDeadlock
    BY DEF IInv
  <1> QED BY Invariance, <1>1, PTL

(***************************************************************************)
(* terminate() leaves no worker and no request behind                      *)
(* (task_with_delay_thread.cpp:33-41).                                     *)
(***************************************************************************)
THEOREM TerminateIsFinal == Safety => []TerminatedIsQuiet
  <1>1. IInv => TerminatedIsQuiet
    BY NoneAssumption
       DEF IInv, WorkerIsThread, OwnerIsAlone, PendingIsRunning,
           RunningIsTrue, Joining, Exists, InLoop, TerminatedIsQuiet
  <1> QED BY Invariance, <1>1, PTL

-----------------------------------------------------------------------------
(* Refinement of the abstract delayed task.                                *)

LEMMA AbstractInit == Init => Abstract!Init
  BY DEF Init, Abstract!Init, InTask

\* The worker that begins a run is alone, and terminate() has not returned.
LEMMA AbstractStart ==
  ASSUME IInv, NEW w \in Workers, Exists(w), ~InTask(w), hasPendingTask,
         TakeTask(w), opc' = opc
  PROVE  Abstract!Start
  <1>1. \A v \in Workers : ~InTask(v)
    BY DEF IInv, WorkerIsThread, Exists, InTask
  <1>2. opc # "done"
    BY NoneAssumption DEF IInv, WorkerIsThread, OwnerIsAlone
  <1>3. InTask(w)'
    BY DEF TakeTask, InTask, IInv, TypeOK
  <1> QED
    BY <1>1, <1>2, <1>3 DEF Abstract!Start, TakeTask

\* Steps that do not change the abstract state.
LEMMA AbstractStutter ==
  ASSUME hasPendingTask' = hasPendingTask, (opc = "done") <=> (opc' = "done"),
         \A w \in Workers : InTask(w)' <=> InTask(w)
  PROVE  UNCHANGED Abstract!vars
  BY DEF Abstract!vars

LEMMA AbstractStep == IInv /\ [Next]_vars => [Abstract!Next]_(Abstract!vars)
  <1> SUFFICES ASSUME IInv, [Next]_vars
               PROVE  Abstract!Next \/ UNCHANGED Abstract!vars
    OBVIOUS
  <1> USE DEF IInv, TypeOK
  <1>1. ASSUME NEW w \in Workers, WorkerLoop(w)
        PROVE  Abstract!Next \/ UNCHANGED Abstract!vars
    <2>1. CASE LoopLeave(w) \/ LoopWait(w)
      BY <1>1, <2>1, AbstractStutter
         DEF WorkerLoop, LoopLeave, LoopWait, InTask
    <2>2. CASE LoopRunNow(w)
      BY <1>1, <2>2, AbstractStart
         DEF WorkerLoop, LoopRunNow, InTask, Exists, Abstract!Next
    <2> QED BY <1>1, <2>1, <2>2 DEF WorkerLoop
  <1>2. ASSUME NEW w \in Workers, WorkerResume(w)
        PROVE  Abstract!Next \/ UNCHANGED Abstract!vars
    BY <1>2, AbstractStart
       DEF WorkerResume, InTask, Exists, PendingIsRunning, Abstract!Next
  <1>3. ASSUME NEW w \in Workers, TaskEnds(w)
        PROVE  Abstract!Next \/ UNCHANGED Abstract!vars
    <2>1. InTask(w) /\ \A v \in Workers : ~InTask(v)'
      BY <1>3 DEF TaskEnds, InTask, WorkerIsThread, Exists
    <2> QED BY <1>3, <2>1 DEF TaskEnds, flags, Abstract!Finish, Abstract!Next
  <1>4. ASSUME NEW w \in Workers,
               \/ DelayOver(w) \/ WorkerExits(w) \/ SleepCall(w)
               \/ SleepReturn(w)
        PROVE  Abstract!Next \/ UNCHANGED Abstract!vars
    BY <1>4, AbstractStutter
       DEF DelayOver, WorkerExits, SleepCall, SleepReturn,
           InTask, flags
  <1>5. ASSUME NEW c \in Callers, RequestRun(c)
        PROVE  Abstract!Next \/ UNCHANGED Abstract!vars
    <2>1. \A w \in Workers : InTask(w)' <=> InTask(w)
      BY <1>5 DEF RequestRun, RequestAsleep, RequestAwake, StartWorker, InTask
    <2>2. opc # "done" /\ opc' = opc /\ hasPendingTask'
      BY <1>5 DEF RequestRun, OwnerIsAlone
    <2> QED BY <2>1, <2>2 DEF Abstract!Request, Abstract!Next
  <1>6. ASSUME NEW c \in Callers, NEW now \in BOOLEAN,
               RequestCall(c, now) \/ RequestJoin(c) \/ RequestNotify(c)
        PROVE  Abstract!Next \/ UNCHANGED Abstract!vars
    BY <1>6, AbstractStutter
       DEF RequestCall, RequestJoin, RequestNotify, NotifyAll, InTask, flags
  <1>7. CASE TerminateCall \/ TerminateSet \/ TerminateNotify
    BY <1>7, AbstractStutter
       DEF TerminateCall, TerminateSet, TerminateNotify, NotifyAll, InTask,
           flags
  <1>8. CASE TerminateJoin
    <2>1. \A w \in Workers : ~InLoop(w) /\ ~InTask(w) /\ ~InTask(w)'
      BY <1>8 DEF TerminateJoin, WorkerIsThread, Exists, InLoop, InTask
    <2>2. ~hasPendingTask
      BY <1>8, <2>1
         DEF TerminateJoin, PendingIsRunning, RunningIsTrue, Joining,
             OwnerIsAlone
    <2> QED BY <1>8, <2>1, <2>2
               DEF TerminateJoin, flags, Abstract!Close, Abstract!Next
  <1>9. CASE UNCHANGED vars
    BY <1>9, AbstractStutter DEF vars, flags, InTask
  <1> QED
    BY <1>1, <1>2, <1>3, <1>4, <1>5, <1>6, <1>7, <1>8, <1>9
       DEF Next, Worker, Caller, Owner

(***************************************************************************)
(* Every behaviour of the threads is a behaviour of the abstract delayed   *)
(* task: runs do not overlap, each one answers a request made before it,   *)
(* and nothing runs once terminate() has returned (the safety part of      *)
(* ImplementsDelayedTask).                                                 *)
(***************************************************************************)
THEOREM Refinement == Safety => Abstract!Safety
  BY AbstractInit, AbstractStep, Invariance, PTL DEF Safety, Abstract!Safety
=============================================================================
