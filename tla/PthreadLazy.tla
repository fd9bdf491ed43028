---------------------------- MODULE PthreadLazy ----------------------------
(***************************************************************************)
(* The bionic mutexes of libc-shim (src/pthreads.h and src/pthreads.cpp).  *)
(*                                                                         *)
(* A bionic mutex has no room for a host mutex.  The shim keeps a pointer  *)
(* to one in its `payload', and a mutex with a static initializer gets its *)
(* host mutex on first use: every thread that finds the payload empty      *)
(* makes a candidate and tries to install it with a compare-and-exchange;  *)
(* the losers free theirs and use the winner's.  Condition variables and   *)
(* read-write locks are created by the same protocol                       *)
(* (cond_static_initializer, rwlock_static_initializer).                   *)
(*                                                                         *)
(* The model has one bionic mutex, the heap that the host mutexes live in, *)
(* and the host mutexes' own semantics (normal type).  An address may be   *)
(* reused as soon as it has been freed.                                    *)
(***************************************************************************)
CONSTANTS
    Threads,
    Objects,        \* addresses of host mutexes
    Empty           \* a payload that is not initialized, no owner

ASSUME EmptyAssumption == Empty \notin Objects /\ Empty \notin Threads

VARIABLES
    payload,        \* the pointer in the bionic mutex
    allocated,      \* addresses that malloc has handed out
    owner,          \* the owner of each host mutex
    pc,             \* where each thread is in the shim
    op,             \* the operation it executes
    ref,            \* its candidate or the host mutex it is going to use
    inside          \* threads to which the shim has given the mutex

vars == <<payload, allocated, owner, pc, op, ref, inside>>

Operations == {"lock", "trylock", "unlock"}

TypeOK ==
    /\ payload \in Objects \cup {Empty}
    /\ allocated \in SUBSET Objects
    /\ owner \in [Objects -> Threads \cup {Empty}]
    /\ pc \in [Threads -> {"idle", "load", "create", "cas", "host"}]
    /\ op \in [Threads -> Operations]
    /\ ref \in [Threads -> Objects \cup {Empty}]
    /\ inside \in SUBSET Threads
    /\ \A t \in Threads : pc[t] \in {"cas", "host"} => ref[t] \in Objects

Init ==
    /\ payload = Empty
    /\ allocated = {}
    /\ owner = [o \in Objects |-> Empty]
    /\ pc = [t \in Threads |-> "idle"]
    /\ op = [t \in Threads |-> "lock"]
    /\ ref = [t \in Threads |-> Empty]
    /\ inside = {}

-----------------------------------------------------------------------------
(* The program: it unlocks what it has locked.                             *)

Call(t, o) ==
    /\ pc[t] = "idle"
    /\ (o = "unlock") <=> (t \in inside)
    /\ pc' = [pc EXCEPT ![t] = "load"]
    /\ op' = [op EXCEPT ![t] = o]
    /\ UNCHANGED <<payload, allocated, owner, ref, inside>>

\* Nobody uses the mutex: the condition under which POSIX lets a program
\* initialize or destroy it.
Unused == inside = {} /\ \A t \in Threads : pc[t] = "idle"

-----------------------------------------------------------------------------
(* to_host() and mutex_static_initializer()                                *)

Load(t) ==
    /\ pc[t] = "load"
    /\ ref' = [ref EXCEPT ![t] = payload]
    /\ pc' = [pc EXCEPT ![t] = IF payload = Empty THEN "create" ELSE "host"]
    /\ UNCHANGED <<payload, allocated, owner, op, inside>>

\* malloc() and pthread_mutex_init() of the host
NewObject(o) ==
    /\ o \notin allocated
    /\ allocated' = allocated \cup {o}
    /\ owner' = [owner EXCEPT ![o] = Empty]

Create(t) ==
    /\ pc[t] = "create"
    /\ \E o \in Objects :
        /\ NewObject(o)
        /\ ref' = [ref EXCEPT ![t] = o]
    /\ pc' = [pc EXCEPT ![t] = "cas"]
    /\ UNCHANGED <<payload, op, inside>>

\* Mutant: the loser goes on with its own candidate.
LoserKeepsCandidate(t) ==
    /\ pc[t] = "cas"
    /\ pc' = [pc EXCEPT ![t] = "host"]
    /\ payload' = IF payload = Empty THEN ref[t] ELSE payload
    /\ UNCHANGED <<allocated, owner, op, ref, inside>>

\* Mutant: the loser uses the winner's object and leaks its own.
LoserLeaks(t) ==
    /\ pc[t] = "cas"
    /\ pc' = [pc EXCEPT ![t] = "host"]
    /\ payload' = IF payload = Empty THEN ref[t] ELSE payload
    /\ ref' = [ref EXCEPT ![t] = payload']
    /\ UNCHANGED <<allocated, owner, op, inside>>

\* Mutant: the winner's object is freed by the loser.
LoserFreesWinner(t) ==
    /\ pc[t] = "cas"
    /\ pc' = [pc EXCEPT ![t] = "host"]
    /\ payload' = IF payload = Empty THEN ref[t] ELSE payload
    /\ ref' = [ref EXCEPT ![t] = payload']
    /\ allocated' = IF payload = Empty THEN allocated
                    ELSE allocated \ {payload}
    /\ UNCHANGED <<owner, op, inside>>

\* Mutant: a failed exchange starts over while the payload stays observed.
LoserRetries(t) ==
    /\ pc[t] = "cas"
    /\ IF payload = Empty
       THEN /\ payload' = ref[t]
            /\ pc' = [pc EXCEPT ![t] = "host"]
            /\ UNCHANGED allocated
       ELSE /\ allocated' = allocated \ {ref[t]}
            /\ pc' = [pc EXCEPT ![t] = "create"]
            /\ UNCHANGED payload
    /\ UNCHANGED <<owner, op, ref, inside>>

Install(t) ==
    /\ payload = Empty
    /\ payload' = ref[t]
    /\ UNCHANGED <<allocated, ref>>

UseWinner(t) ==
    /\ payload # Empty
    /\ allocated' = allocated \ {ref[t]}
    /\ ref' = [ref EXCEPT ![t] = payload]
    /\ UNCHANGED payload

Cas(t) ==
    /\ pc[t] = "cas"
    /\ Install(t) \/ UseWinner(t)
    /\ pc' = [pc EXCEPT ![t] = "host"]
    /\ UNCHANGED <<owner, op, inside>>

ToHost(t) == Load(t) \/ Create(t) \/ Cas(t)

-----------------------------------------------------------------------------
(* pthread_mutex_lock(), _trylock(), _unlock(): the call of the host's     *)
(* function on the pointer that to_host() has returned.                    *)

Acquire(t) ==
    /\ op[t] \in {"lock", "trylock"}
    /\ owner[ref[t]] = Empty
    /\ owner' = [owner EXCEPT ![ref[t]] = t]
    /\ inside' = inside \cup {t}

Busy(t) ==
    /\ op[t] = "trylock"
    /\ owner[ref[t]] # Empty
    /\ UNCHANGED <<owner, inside>>

Release(t) ==
    /\ op[t] = "unlock"
    /\ owner[ref[t]] = t
    /\ owner' = [owner EXCEPT ![ref[t]] = Empty]
    /\ inside' = inside \ {t}

Host(t) ==
    /\ pc[t] = "host"
    /\ Acquire(t) \/ Busy(t) \/ Release(t)
    /\ pc' = [pc EXCEPT ![t] = "idle"]
    /\ ref' = [ref EXCEPT ![t] = Empty]
    /\ UNCHANGED <<payload, allocated, op>>

-----------------------------------------------------------------------------

\* pthread_mutex_init(): the new pointer replaces whatever was there, so a
\* program must not initialize a mutex that has been used.
MutexInit ==
    /\ Unused
    /\ payload = Empty
    /\ \E o \in Objects : NewObject(o) /\ payload' = o
    /\ UNCHANGED <<pc, op, ref, inside>>

\* pthread_mutex_destroy(); a mutex that was never used has nothing to free.
MutexDestroy ==
    /\ Unused
    /\ payload # Empty
    /\ allocated' = allocated \ {payload}
    /\ payload' = Empty
    /\ UNCHANGED <<owner, pc, op, ref, inside>>

Next ==
    \/ \E t \in Threads :
        \/ \E o \in Operations : Call(t, o)
        \/ ToHost(t)
        \/ Host(t)
    \/ MutexInit
    \/ MutexDestroy

Safety == Init /\ [][Next]_vars

\* A thread inside to_host() keeps running.
Spec == Safety /\ \A t \in Threads : WF_vars(ToHost(t))

-----------------------------------------------------------------------------
(* Properties.                                                             *)

(***************************************************************************)
(* The bionic mutex excludes, also when several threads use it for the     *)
(* first time at once: whoever holds it holds the host mutex the payload   *)
(* points to (pthreads.cpp:53-62, pthreads.h:90-98).                       *)
(***************************************************************************)
MutualExclusion ==
    \A t \in inside :
        /\ inside = {t}
        /\ payload # Empty
        /\ owner[payload] = t

(***************************************************************************)
(* A host function is only called on an object that is allocated and that  *)
(* is still the one of this mutex: no use after free, no thread left behind*)
(* on a candidate that lost (pthreads.cpp:57-62, 317-326).                 *)
(***************************************************************************)
ReferencesAreCurrent ==
    \A t \in Threads : pc[t] = "host" =>
        /\ ref[t] = payload
        /\ payload \in allocated

(***************************************************************************)
(* Nothing is leaked: the allocated objects are the mutex's own and the    *)
(* candidates that have not been offered yet (pthreads.cpp:39, 57-58,      *)
(* 317-326).                                                               *)
(***************************************************************************)
NothingLeaked ==
    allocated = ({payload} \ {Empty})
                    \cup {ref[t] : t \in {u \in Threads : pc[u] = "cas"}}

(***************************************************************************)
(* to_host() returns after a bounded number of its own steps: losing the   *)
(* race does not make a thread try again (pthreads.cpp:53-62).             *)
(***************************************************************************)
ToHostReturns ==
    \A t \in Threads : pc[t] \in {"load", "create", "cas"} ~> pc[t] = "host"
=============================================================================
