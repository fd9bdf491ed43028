--------------------------- MODULE TaskWithDelay ---------------------------
(***************************************************************************)
(* cll::TaskWithDelayThread (cll-telemetry/src/task_with_delay_thread.cpp  *)
(* and include/cll/task_with_delay_thread.h).                              *)
(*                                                                         *)
(* A caller of requestRun() sets hasPendingTask and, when no worker runs,  *)
(* joins the previous worker and starts a new one while it holds the       *)
(* mutex.  The worker waits for the delay (one wait_for WITHOUT a          *)
(* predicate), clears the flags, runs the task without the mutex, and      *)
(* leaves when nothing is pending.  terminate() asks the worker to hurry   *)
(* and joins it without holding the mutex.                                 *)
(*                                                                         *)
(* Every critical section is one action; a thread that has to wait for the *)
(* mutex is at a pc of its own, so sections of different threads interleave*)
(* freely.  Only a requestRun() that joins holds the mutex across actions. *)
(***************************************************************************)
EXTENDS Naturals

CONSTANTS
    Callers,        \* threads that call requestRun()
    Workers,        \* identities for the threads the object creates
    MaxRequests,    \* bound: calls of requestRun() in a behaviour
    MaxSleeps,      \* bound: calls of sleep() in a behaviour
    None            \* no thread: an unlocked mutex, a non-joinable std::thread

ASSUME NoneAssumption == None \notin Callers /\ None \notin Workers

VARIABLES
    mutex,          \* the caller that keeps the mutex locked while it joins
    running, hasPendingTask, runImmediately, stopping,
    thread,         \* the worker held by the std::thread member
    wpc,            \* where each worker is in doThreadLoop()
    cpc,            \* where each caller is in requestRun()
    immediate,      \* the argument of each caller's current call
    opc,            \* where the owner is in terminate()
    requests,       \* number of calls of requestRun() so far
    sleeps          \* number of calls of sleep() so far

flags == <<running, hasPendingTask, runImmediately, stopping>>
vars == <<mutex, flags, thread, wpc, cpc, immediate, opc,
          requests, sleeps>>

WorkerPc == {"unused", "start", "waiting", "woken", "task", "sleep",
             "relock", "leaving", "exited"}
CallerPc == {"idle", "lock", "join", "notify"}
OwnerPc == {"live", "lock", "notify", "join", "done"}

\* The mutex stays locked across actions only for the caller that joins.
TypeOK ==
    /\ mutex \in {c \in Callers : cpc[c] = "join"} \cup {None}
    /\ running \in BOOLEAN
    /\ hasPendingTask \in BOOLEAN
    /\ runImmediately \in BOOLEAN
    /\ stopping \in BOOLEAN
    /\ thread \in Workers \cup {None}
    /\ wpc \in [Workers -> WorkerPc]
    /\ cpc \in [Callers -> CallerPc]
    /\ immediate \in [Callers -> BOOLEAN]
    /\ opc \in OwnerPc
    /\ requests \in Nat
    /\ sleeps \in Nat

Init ==
    /\ mutex = None
    /\ running = FALSE
    /\ hasPendingTask = FALSE
    /\ runImmediately = FALSE
    /\ stopping = FALSE
    /\ thread = None
    /\ wpc = [w \in Workers |-> "unused"]
    /\ cpc = [c \in Callers |-> "idle"]
    /\ immediate = [c \in Callers |-> FALSE]
    /\ opc = "live"
    /\ requests = 0
    /\ sleeps = 0

-----------------------------------------------------------------------------
(* doThreadLoop(), executed by worker w.                                   *)

\* Mutant: the loop body is executed once, requests made meanwhile are left.
LeaveAfterOneRun(w) ==
    /\ wpc[w] = "relock" \/ ~hasPendingTask
    /\ running' = FALSE
    /\ wpc' = [wpc EXCEPT ![w] = "leaving"]
    /\ UNCHANGED <<hasPendingTask, runImmediately>>

\* The first part of an iteration, from taking the mutex to releasing it:
\* leave the loop, wait for the delay, or go on to the task at once.
LoopLeave(w) ==
    /\ ~hasPendingTask
    /\ running' = FALSE
    /\ wpc' = [wpc EXCEPT ![w] = "leaving"]
    /\ UNCHANGED <<hasPendingTask, runImmediately>>

LoopWait(w) ==
    /\ hasPendingTask
    /\ ~runImmediately /\ ~stopping
    /\ wpc' = [wpc EXCEPT ![w] = "waiting"]
    /\ UNCHANGED <<running, hasPendingTask, runImmediately>>

TakeTask(w) ==
    /\ hasPendingTask' = FALSE
    /\ runImmediately' = FALSE
    /\ wpc' = [wpc EXCEPT ![w] = "task"]
    /\ UNCHANGED running

LoopRunNow(w) ==
    /\ hasPendingTask
    /\ runImmediately \/ stopping
    /\ TakeTask(w)

WorkerLoop(w) ==
    /\ wpc[w] \in {"start", "relock"}
    /\ mutex = None
    /\ LoopLeave(w) \/ LoopWait(w) \/ LoopRunNow(w)
    /\ UNCHANGED <<mutex, stopping, thread, cpc, immediate, opc,
                   requests, sleeps>>

\* wait_for() returns by itself: the delay is over, or a spurious wakeup.
DelayOver(w) ==
    /\ wpc[w] = "waiting"
    /\ wpc' = [wpc EXCEPT ![w] = "woken"]
    /\ UNCHANGED <<mutex, flags, thread, cpc, immediate, opc,
                   requests, sleeps>>

\* The waiter has the mutex again; the flags are not tested a second time.
WorkerResume(w) ==
    /\ wpc[w] = "woken"
    /\ mutex = None
    /\ TakeTask(w)
    /\ UNCHANGED <<mutex, stopping, thread, cpc, immediate, opc,
                   requests, sleeps>>

\* Mutant: hasPendingTask is reset after the task instead of before it.
ResetAfterTask(w) ==
    /\ wpc[w] = "task"
    /\ wpc' = [wpc EXCEPT ![w] = "relock"]
    /\ hasPendingTask' = FALSE
    /\ UNCHANGED <<mutex, running, runImmediately, stopping, thread, cpc,
                   immediate, opc, requests, sleeps>>

\* function() returns.
TaskEnds(w) ==
    /\ wpc[w] = "task"
    /\ wpc' = [wpc EXCEPT ![w] = "relock"]
    /\ UNCHANGED <<mutex, flags, thread, cpc, immediate, opc,
                   requests, sleeps>>

\* The thread function is over once the unique_lock has been destroyed.
WorkerExits(w) ==
    /\ wpc[w] = "leaving"
    /\ wpc' = [wpc EXCEPT ![w] = "exited"]
    /\ UNCHANGED <<mutex, flags, thread, cpc, immediate, opc,
                   requests, sleeps>>

\* The task calls the static sleep().
SleepCall(w) ==
    /\ wpc[w] = "task"
    /\ sleeps < MaxSleeps
    /\ wpc' = [wpc EXCEPT ![w] = "sleep"]
    /\ sleeps' = sleeps + 1
    /\ UNCHANGED <<mutex, flags, thread, cpc, immediate, opc, requests>>

\* sleep() tests the POINTER currentIsStopping, which is not null inside a
\* task, so that it never reaches wait_for(): it locks, unlocks and returns.
SleepReturn(w) ==
    /\ wpc[w] = "sleep"
    /\ mutex = None
    /\ wpc' = [wpc EXCEPT ![w] = "task"]
    /\ UNCHANGED <<mutex, flags, thread, cpc, immediate, opc,
                   requests, sleeps>>

Worker(w) ==
    \/ WorkerLoop(w)
    \/ WorkerResume(w)
    \/ TaskEnds(w)
    \/ WorkerExits(w)
    \/ SleepCall(w)
    \/ SleepReturn(w)

-----------------------------------------------------------------------------
(* requestRun(), executed by caller c.                                     *)

\* The header forbids requests after terminate() (header lines 68-72).
RequestCall(c, now) ==
    /\ cpc[c] = "idle"
    /\ opc = "live"
    /\ requests < MaxRequests
    /\ requests' = requests + 1
    /\ cpc' = [cpc EXCEPT ![c] = "lock"]
    /\ immediate' = [immediate EXCEPT ![c] = now]
    /\ UNCHANGED <<mutex, flags, thread, wpc, opc, sleeps>>

\* thread = std::thread(...)
StartWorker ==
    \E w \in Workers :
        /\ wpc[w] = "unused"
        /\ thread' = w
        /\ wpc' = [v \in Workers |-> IF v = w THEN "start" ELSE wpc[v]]

\* Mutant: the previous worker is not joined.
StartWithoutJoin(c) ==
    /\ ~running
    /\ running' = TRUE
    /\ StartWorker
    /\ cpc' = [cpc EXCEPT ![c] = "idle"]
    /\ UNCHANGED mutex

RequestAsleep(c) ==
    /\ ~running
    /\ running' = TRUE
    /\ IF thread = None
       THEN /\ StartWorker
            /\ cpc' = [cpc EXCEPT ![c] = "idle"]
            /\ UNCHANGED mutex
       ELSE /\ cpc' = [cpc EXCEPT ![c] = "join"]
            /\ mutex' = c
            /\ UNCHANGED <<thread, wpc>>

\* Mutant: a worker that is waiting is not told of an immediate request.
AwakeWithoutNotify(c) ==
    /\ running
    /\ cpc' = [cpc EXCEPT ![c] = "idle"]
    /\ UNCHANGED <<running, mutex, thread, wpc>>

RequestAwake(c) ==
    /\ running
    /\ cpc' = [cpc EXCEPT ![c] = IF immediate[c] THEN "notify" ELSE "idle"]
    /\ UNCHANGED <<running, mutex, thread, wpc>>

RequestRun(c) ==
    /\ cpc[c] = "lock"
    /\ mutex = None
    /\ hasPendingTask' = TRUE
    /\ runImmediately' = (runImmediately \/ immediate[c])
    /\ RequestAsleep(c) \/ RequestAwake(c)
    /\ UNCHANGED <<stopping, immediate, opc, requests, sleeps>>

\* thread.join() with the mutex held, then the new worker is started.
RequestJoin(c) ==
    /\ cpc[c] = "join"
    /\ wpc[thread] = "exited"
    /\ \E w \in Workers :
        /\ wpc[w] = "unused" \/ w = thread
        /\ thread' = w
        /\ wpc' = [wpc EXCEPT ![thread] = "unused", ![w] = "start"]
    /\ mutex' = None
    /\ cpc' = [cpc EXCEPT ![c] = "idle"]
    /\ UNCHANGED <<flags, immediate, opc, requests, sleeps>>

\* cv.notify_all()
NotifyAll ==
    wpc' = [w \in Workers |-> IF wpc[w] = "waiting" THEN "woken" ELSE wpc[w]]

RequestNotify(c) ==
    /\ cpc[c] = "notify"
    /\ NotifyAll
    /\ cpc' = [cpc EXCEPT ![c] = "idle"]
    /\ UNCHANGED <<mutex, flags, thread, immediate, opc,
                   requests, sleeps>>

Caller(c) == RequestRun(c) \/ RequestJoin(c) \/ RequestNotify(c)

-----------------------------------------------------------------------------
(* terminate(), executed by the owner, usually from the destructor.        *)

\* The callers are idle, as the header demands.  The realtime task of
\* EventManager breaks that rule when the manager is destroyed: EventManager
\* has such a request, as a step of the abstract task (event_manager.cpp:
\* 41-44, 103).
TerminateCall ==
    /\ opc = "live"
    /\ \A c \in Callers : cpc[c] = "idle"
    /\ opc' = "lock"
    /\ UNCHANGED <<mutex, flags, thread, wpc, cpc, immediate,
                   requests, sleeps>>

TerminateSet ==
    /\ opc = "lock"
    /\ mutex = None
    /\ runImmediately' = TRUE
    /\ stopping' = TRUE
    /\ opc' = "notify"
    /\ UNCHANGED <<mutex, running, hasPendingTask, thread, wpc, cpc,
                   immediate, requests, sleeps>>

\* Mutant: the worker is not woken.
TerminateWithoutNotify ==
    /\ opc = "notify"
    /\ opc' = "join"
    /\ UNCHANGED <<mutex, flags, thread, wpc, cpc, immediate,
                   requests, sleeps>>

TerminateNotify ==
    /\ opc = "notify"
    /\ NotifyAll
    /\ opc' = "join"
    /\ UNCHANGED <<mutex, flags, thread, cpc, immediate,
                   requests, sleeps>>

\* Mutant: terminate() does not wait for the worker.
TerminateWithoutJoin ==
    /\ opc = "join"
    /\ opc' = "done"
    /\ UNCHANGED <<mutex, flags, thread, wpc, cpc, immediate,
                   requests, sleeps>>

TerminateJoin ==
    /\ opc = "join"
    /\ \/ thread = None /\ UNCHANGED <<thread, wpc>>
       \/ /\ thread # None
          /\ wpc[thread] = "exited"
          /\ wpc' = [wpc EXCEPT ![thread] = "unused"]
          /\ thread' = None
    /\ opc' = "done"
    /\ UNCHANGED <<mutex, flags, cpc, immediate, requests, sleeps>>

Owner == TerminateSet \/ TerminateNotify \/ TerminateJoin

-----------------------------------------------------------------------------

Next ==
    \/ \E w \in Workers : Worker(w) \/ DelayOver(w)
    \/ \E c \in Callers :
        \/ Caller(c)
        \/ \E now \in BOOLEAN : RequestCall(c, now)
    \/ TerminateCall
    \/ Owner

Safety == Init /\ [][Next]_vars

\* Threads keep running; a task returns; nobody is obliged to make a request,
\* to call terminate() or to call sleep(); time is not needed for progress.
Progress ==
    /\ \A w \in Workers :
        /\ WF_vars(WorkerLoop(w) \/ WorkerResume(w) \/ WorkerExits(w))
        /\ WF_vars(SleepReturn(w))
        /\ WF_vars(TaskEnds(w))
    /\ \A c \in Callers : WF_vars(Caller(c))
    /\ WF_vars(Owner)

\* The delay ends: wait_for() times out.  This is assumed only while nobody
\* has asked the worker to hurry, as if the delay were endless: a worker that
\* is to run at once, or to stop, has notify_all() alone to rely on.
DelayEnds ==
    \A w \in Workers : WF_vars(DelayOver(w) /\ ~runImmediately)

Spec == Safety /\ Progress /\ DelayEnds

-----------------------------------------------------------------------------
(* Properties.                                                             *)

InTask(w) == wpc[w] \in {"task", "sleep"}
Exists(w) == wpc[w] # "unused"
InLoop(w) == wpc[w] \in {"start", "waiting", "woken", "task", "sleep",
                         "relock"}
Joining == \E c \in Callers : cpc[c] = "join"

(***************************************************************************)
(* The object never owns two live workers: requestRun() starts a worker    *)
(* only after it has joined the previous one, so that the task function is *)
(* never run by two threads at once, whatever requestRun() calls race with *)
(* a worker that is about to leave (task_with_delay_thread.cpp:22-27,      *)
(* 48-52).                                                                 *)
(***************************************************************************)
OneWorker ==
    \A v, w \in Workers : Exists(v) /\ Exists(w) => v = w

(***************************************************************************)
(* No request is lost: while a run is pending there is a worker inside its *)
(* loop, which will test the flag again, or a caller that is about to start*)
(* one (task_with_delay_thread.cpp:14-23, 45-52).                          *)
(***************************************************************************)
PendingHasWorker ==
    hasPendingTask =>
        /\ running
        /\ Joining \/ \E w \in Workers : InLoop(w)

(***************************************************************************)
(* A caller that joins while it holds the mutex waits for a thread that no *)
(* longer needs the mutex, so that the join cannot deadlock                *)
(* (task_with_delay_thread.cpp:44, 50-51 against 21-27).                   *)
(***************************************************************************)
JoinCannotDeadlock ==
    \A c \in Callers : cpc[c] = "join" =>
        /\ thread # None
        /\ wpc[thread] \in {"leaving", "exited"}

(***************************************************************************)
(* When terminate() has returned, no worker exists and no request is left  *)
(* behind: the object can be destroyed (task_with_delay_thread.cpp:33-41). *)
(***************************************************************************)
TerminatedIsQuiet ==
    opc = "done" =>
        /\ ~hasPendingTask
        /\ \A w \in Workers : ~Exists(w)

(***************************************************************************)
(* An immediate request, also one that arrives while the worker is on its  *)
(* way into wait_for(), is followed by a run although the delay need not   *)
(* end (task_with_delay_thread.cpp:15-16, 46-47, 53-56).                   *)
(***************************************************************************)
ImmediateSkipsDelay ==
    \A c \in Callers :
        LET asking == cpc[c] = "lock" /\ immediate[c]
        IN  asking ~> (~asking /\ ~hasPendingTask)

(***************************************************************************)
(* terminate() returns although the delay need not end: its notification is*)
(* not lost either (task_with_delay_thread.cpp:33-41, test ImmediateDestroy*)
(* in cll-telemetry/test/task_with_delay_thread.cpp).                      *)
(***************************************************************************)
TerminateReturns == (opc = "lock") ~> (opc = "done")

(***************************************************************************)
(* The thread implements the abstract delayed task.                        *)
(***************************************************************************)
Abstract == INSTANCE DelayedTask WITH
    wanted <- hasPendingTask,
    busy <- \E w \in Workers : InTask(w),
    closed <- opc = "done"

ImplementsDelayedTask == Abstract!Spec
=============================================================================
