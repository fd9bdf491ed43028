---------------------------- MODULE EventManager ----------------------------
(***************************************************************************)
(* cll::EventManager (cll-telemetry/src/event_manager.cpp): threads add    *)
(* events; the main upload task posts what is in the critical and in the   *)
(* normal batch; the realtime upload task posts what is in the realtime    *)
(* batch, and hands it over to the other two when a post fails.  The two   *)
(* tasks are TaskWithDelayThread objects, here as DelayedTask has them:    *)
(* a run may be wanted, and is executed by one thread at a time.           *)
(***************************************************************************)
EXTENDS BufferedBatch, FiniteSets

CONSTANTS
    Adders,         \* threads that call add()
    RealtimeLimit,  \* events that realtimeMemoryBatch takes
    Kinds,          \* kinds of events: [critical, realtime]
    MaxEvents       \* bound: events added

ASSUME LimitsAssumption ==
    \* with no room in memory addEvent() would drop events
    /\ MaxCount \in Nat /\ RealtimeLimit \in Nat /\ MemLimit \in Nat \ {0}
    /\ Kinds \subseteq [critical : BOOLEAN, realtime : BOOLEAN]
    /\ MaxEvents \in Nat

Events == [n : 1..MaxEvents, critical : BOOLEAN]
Elements(q) == {q[i] : i \in DOMAIN q}

VARIABLES
    realtime,       \* realtimeMemoryBatch
    critical,       \* criticalStorageBatch
    normal,         \* normalStorageBatch, a buffered batch
    mainWanted, mainStopping,   \* mainUploadTask
    mpc, mlist,     \* where uploadTasks() is, the list it works on
    realWanted,     \* realtimeUploadTask
    rpc, rlist,     \* where uploadRealtimeTasks() is, its list
    hand,           \* the events it has taken out of the realtime batch
    apc, adding,    \* where each adder is in add(), its event
    opc,            \* where the owner is: start(), ..., ~EventManager()
    count,          \* number of events created
    accepted,       \* events that a batch has accepted
    confirmed,      \* events answered with status 200, in that order
    overtaken       \* memory was flushed while a list from it was posted

batches == <<realtime, critical, normal>>
main == <<mpc, mlist>>
real == <<rpc, rlist, hand>>
adders == <<apc, adding, count>>
history == <<accepted, confirmed, overtaken>>
vars == <<batches, mainWanted, mainStopping, main, realWanted, real, adders,
          opc, history>>

NoEvent == [n |-> 0, critical |-> FALSE]
Lists == [type : {"none", "critical", "Memory", "Wrapped", "Merged"},
          disk : Nat, mem : Nat, events : Seq(Events)]

TypeOK ==
    /\ realtime \in Seq(Events) /\ Len(realtime) <= RealtimeLimit
    /\ critical \in Seq(Events)
    /\ normal \in [disk : Seq(Events), mem : Seq(Events)]
    /\ Len(normal.mem) <= MemLimit
    /\ {mainWanted, mainStopping, realWanted, overtaken} \subseteq BOOLEAN
    /\ mpc \in {"idle", "loop", "critical", "normal", "post", "ack",
                "undefined"}
    /\ rpc \in {"idle", "loop", "send", "post", "ack", "transfer", "spread",
                "ask"}
    /\ {mlist, rlist} \subseteq Lists
    /\ hand \in Seq(Events)
    /\ apc \in [Adders -> {"idle", "realtime", "store", "askReal",
                           "askMain"}]
    /\ adding \in [Adders -> Events \cup {NoEvent}]
    /\ opc \in {"new", "live", "main", "real", "again", "done"}
    /\ count \in 0..MaxEvents
    /\ accepted \subseteq Events
    /\ confirmed \in Seq(Events)

Init ==
    /\ realtime = <<>> /\ critical = <<>>
    /\ normal = [disk |-> <<>>, mem |-> <<>>]
    /\ mainWanted = FALSE /\ mainStopping = FALSE /\ realWanted = FALSE
    /\ mpc = "idle" /\ mlist = NoList
    /\ rpc = "idle" /\ rlist = NoList /\ hand = <<>>
    /\ apc = [a \in Adders |-> "idle"]
    /\ adding = [a \in Adders |-> NoEvent]
    /\ opc = "new"
    /\ count = 0
    /\ accepted = {} /\ confirmed = <<>> /\ overtaken = FALSE

-----------------------------------------------------------------------------
(* The storage batches, as add() and the realtime task use them.           *)

\* Memory is to be flushed while a list that has events from it is posted.
Overtakes ==
    mpc \in {"post", "ack"} /\ mlist.mem > 0 /\ Len(normal.mem) >= MemLimit

\* Mutant: every event goes into the normal batch.
StoreInNormal(e) ==
    /\ normal' = Added(normal, e)
    /\ critical' = critical
    /\ overtaken' = (overtaken \/ Overtakes)

Store(e) ==
    IF e.critical
    THEN /\ critical' = Append(critical, e)
         /\ UNCHANGED <<normal, overtaken>>
    ELSE /\ normal' = Added(normal, e)
         /\ critical' = critical
         /\ overtaken' = (overtaken \/ Overtakes)

-----------------------------------------------------------------------------
(* add()                                                                   *)

\* Nobody uses an object that is being destroyed.
AddCall(a) ==
    /\ apc[a] = "idle" /\ opc \in {"new", "live"}
    /\ count < MaxEvents
    /\ count' = count + 1
    /\ \E k \in Kinds :
        /\ adding' = [adding EXCEPT ![a] =
                        [n |-> count + 1, critical |-> k.critical]]
        /\ apc' = [apc EXCEPT ![a] = IF k.realtime THEN "realtime"
                                     ELSE "store"]
    /\ UNCHANGED <<batches, mainWanted, mainStopping, main, realWanted, real,
                   opc, history>>

\* A realtime event that finds the batch full is stored like another.
AddRealtime(a) ==
    /\ apc[a] = "realtime"
    /\ IF Len(realtime) < RealtimeLimit
       THEN /\ realtime' = Append(realtime, adding[a])
            /\ accepted' = accepted \cup {adding[a]}
            /\ apc' = [apc EXCEPT ![a] = "askReal"]
       ELSE /\ apc' = [apc EXCEPT ![a] = "store"]
            /\ UNCHANGED <<realtime, accepted>>
    /\ UNCHANGED <<critical, normal, mainWanted, mainStopping, main,
                   realWanted, real, adding, count, opc, confirmed,
                   overtaken>>

\* The write into a file succeeds: when it fails, add() logs that and the event
\* is lost, which EventStore is about (event_manager.cpp:98-101, 126-127).
AddStore(a) ==
    /\ apc[a] = "store"
    /\ Store(adding[a])
    /\ accepted' = accepted \cup {adding[a]}
    /\ apc' = [apc EXCEPT ![a] = "askMain"]
    /\ UNCHANGED <<realtime, mainWanted, mainStopping, main, realWanted,
                   real, adding, count, opc, confirmed>>

\* requestRun()
AddAsk(a) ==
    /\ apc[a] \in {"askReal", "askMain"}
    /\ realWanted' = (realWanted \/ apc[a] = "askReal")
    /\ mainWanted' = (mainWanted \/ apc[a] = "askMain")
    /\ apc' = [apc EXCEPT ![a] = "idle"]
    /\ UNCHANGED <<batches, mainStopping, main, real, adding, count, opc,
                   history>>

Add(a) == AddRealtime(a) \/ AddStore(a) \/ AddAsk(a)

-----------------------------------------------------------------------------
(* uploadTasks(), in the thread of mainUploadTask                          *)

MainStart ==
    /\ mainWanted /\ mpc = "idle"
    /\ mainWanted' = FALSE
    /\ mpc' = "loop"
    /\ UNCHANGED <<batches, mainStopping, mlist, realWanted, real, adders,
                   opc, history>>

\* The critical batch comes first.
MainLoop ==
    /\ mpc = "loop"
    /\ mpc' = IF mainStopping THEN "idle"
              ELSE IF critical # <<>> THEN "critical"
              ELSE IF HasAny(normal) THEN "normal"
              ELSE "idle"
    /\ UNCHANGED <<batches, mainWanted, mainStopping, mlist, realWanted,
                   real, adders, opc, history>>

CriticalLists ==
    {List("critical", d, 0, First(critical, d)) :
        d \in 1..Smaller(MaxCount, Len(critical))}

MainGet ==
    /\ mpc \in {"critical", "normal"}
    /\ mlist' \in IF mpc = "critical" THEN CriticalLists
                  ELSE BufferedLists(normal)
    /\ mpc' = "post"
    /\ UNCHANGED <<batches, mainWanted, mainStopping, realWanted, real,
                   adders, opc, history>>

\* The task sleeps, which does not delay it, and tries again.
MainPostFails ==
    /\ mpc = "post"
    /\ mpc' = "loop"
    /\ mlist' = NoList
    /\ UNCHANGED <<batches, mainWanted, mainStopping, realWanted, real,
                   adders, opc, history>>

MainPostSucceeds ==
    /\ mpc = "post"
    /\ mpc' = "ack"
    /\ confirmed' = confirmed \o mlist.events
    /\ UNCHANGED <<batches, mainWanted, mainStopping, mlist, realWanted,
                   real, adders, opc, accepted, overtaken>>

MainAck ==
    /\ mpc = "ack"
    /\ IF mlist.type = "critical"
       THEN critical' = Drop(critical, mlist.disk) /\ normal' = normal
       ELSE normal' = Uploaded(normal, mlist) /\ critical' = critical
    /\ mpc' = IF mlist.type # "critical" /\ ErasesTooMany(normal, mlist)
              THEN "undefined" ELSE "loop"
    /\ mlist' = NoList
    /\ UNCHANGED <<realtime, mainWanted, mainStopping, realWanted, real,
                   adders, opc, history>>

Main == MainStart \/ MainLoop \/ MainGet \/ MainPostSucceeds \/ MainAck

-----------------------------------------------------------------------------
(* uploadRealtimeTasks(), in the thread of realtimeUploadTask              *)

RealStart ==
    /\ realWanted /\ rpc = "idle"
    /\ realWanted' = FALSE
    /\ rpc' = "loop"
    /\ UNCHANGED <<batches, mainWanted, mainStopping, main, rlist, hand,
                   adders, opc, history>>

\* Mutant: like the main task, it stops when the owner says so.
RealLoopStops ==
    /\ rpc = "loop"
    /\ rpc' = IF realtime = <<>> \/ opc \in {"real", "again"} THEN "idle"
              ELSE "send"
    /\ UNCHANGED <<batches, mainWanted, mainStopping, main, realWanted,
                   rlist, hand, adders, opc, history>>

RealLoop ==
    /\ rpc = "loop"
    /\ rpc' = IF realtime = <<>> THEN "idle" ELSE "send"
    /\ UNCHANGED <<batches, mainWanted, mainStopping, main, realWanted,
                   rlist, hand, adders, opc, history>>

RealGet ==
    /\ rpc = "send"
    /\ rlist' \in MemoryLists(realtime)
    /\ rpc' = "post"
    /\ UNCHANGED <<batches, mainWanted, mainStopping, main, realWanted, hand,
                   adders, opc, history>>

\* Mutant: a failed post is repeated.
RealPostRepeats ==
    /\ rpc = "post"
    /\ rpc' = "loop"
    /\ rlist' = NoList
    /\ UNCHANGED <<batches, mainWanted, mainStopping, main, realWanted, hand,
                   adders, opc, history>>

RealPostFails ==
    /\ rpc = "post"
    /\ rpc' = "transfer"
    /\ rlist' = NoList
    /\ UNCHANGED <<batches, mainWanted, mainStopping, main, realWanted, hand,
                   adders, opc, history>>

RealPostSucceeds ==
    /\ rpc = "post"
    /\ rpc' = "ack"
    /\ confirmed' = confirmed \o rlist.events
    /\ UNCHANGED <<batches, mainWanted, mainStopping, main, realWanted,
                   rlist, hand, adders, opc, accepted, overtaken>>

RealAck ==
    /\ rpc = "ack"
    /\ realtime' = Drop(realtime, rlist.mem)
    /\ rlist' = NoList
    /\ rpc' = "loop"
    /\ UNCHANGED <<critical, normal, mainWanted, mainStopping, main,
                   realWanted, hand, adders, opc, history>>

\* transferAllEvents()
RealTransfer ==
    /\ rpc = "transfer"
    /\ hand' = realtime
    /\ realtime' = <<>>
    /\ rpc' = "spread"
    /\ UNCHANGED <<critical, normal, mainWanted, mainStopping, main,
                   realWanted, rlist, adders, opc, history>>

RealSpread ==
    /\ rpc = "spread"
    /\ IF hand = <<>>
       THEN rpc' = "ask" /\ UNCHANGED <<critical, normal, overtaken, hand>>
       ELSE /\ Store(Head(hand))
            /\ hand' = Tail(hand)
            /\ rpc' = rpc
    /\ UNCHANGED <<realtime, mainWanted, mainStopping, main, realWanted,
                   rlist, adders, opc, accepted, confirmed>>

\* Mutant: the events wait for the next run of the main task.
RealAskNobody ==
    /\ rpc = "ask"
    /\ rpc' = "loop"
    /\ UNCHANGED <<batches, mainWanted, mainStopping, main, realWanted,
                   rlist, hand, adders, opc, history>>

RealAsk ==
    /\ rpc = "ask"
    /\ mainWanted' = TRUE
    /\ rpc' = "loop"
    /\ UNCHANGED <<batches, mainStopping, main, realWanted, rlist, hand,
                   adders, opc, history>>

Real == RealStart \/ RealLoop \/ RealGet \/ RealPostSucceeds \/ RealAck
            \/ RealTransfer \/ RealSpread \/ RealAsk

-----------------------------------------------------------------------------
(* start() and ~EventManager()                                             *)

Start ==
    /\ opc = "new"
    /\ opc' = "live"
    /\ mainWanted' = TRUE
    /\ UNCHANGED <<batches, mainStopping, main, realWanted, real, adders,
                   history>>

Destroy ==
    /\ opc = "live"
    /\ \A a \in Adders : apc[a] = "idle"
    /\ opc' = "main"
    /\ mainStopping' = TRUE
    /\ UNCHANGED <<batches, mainWanted, main, realWanted, real, adders,
                   history>>

\* terminate() returns when the task is neither wanted nor executed.
MainQuiet == ~mainWanted /\ mpc = "idle"
RealQuiet == ~realWanted /\ rpc = "idle"

MainTerminated ==
    /\ opc = "main" /\ MainQuiet
    /\ opc' = "real"
    /\ UNCHANGED <<batches, mainWanted, mainStopping, main, realWanted, real,
                   adders, history>>

RealTerminated ==
    /\ opc = "real" /\ RealQuiet
    /\ opc' = "again"
    /\ UNCHANGED <<batches, mainWanted, mainStopping, main, realWanted, real,
                   adders, history>>

\* The members are destroyed: the tasks, which terminates them once more,
\* what is in memory, and last the batches; the buffered one is flushed.
Destroyed ==
    /\ opc = "again" /\ RealQuiet /\ MainQuiet
    /\ opc' = "done"
    /\ realtime' = <<>>
    /\ normal' = Flushed(normal)
    /\ UNCHANGED <<critical, mainWanted, mainStopping, main, realWanted,
                   real, adders, history>>

Owner == MainTerminated \/ RealTerminated \/ Destroyed

Next ==
    \/ \E a \in Adders : AddCall(a) \/ Add(a)
    \/ Main \/ MainPostFails
    \/ Real \/ RealPostFails
    \/ Start \/ Destroy \/ Owner

Safety == Init /\ [][Next]_vars

\* Every thread keeps running, a post returns, and the server does not
\* refuse the main task for ever; nobody has to destroy the object.
Spec ==
    /\ Safety
    /\ WF_vars(Main \/ MainPostFails) /\ SF_vars(MainPostSucceeds)
    /\ WF_vars(Real \/ RealPostFails)
    /\ WF_vars(Start \/ Owner)
    /\ \A a \in Adders : WF_vars(Add(a))

-----------------------------------------------------------------------------
(* Properties.                                                             *)

Kept == Elements(realtime) \cup Elements(critical) \cup Elements(hand)
            \cup Elements(normal.disk) \cup Elements(normal.mem)

(***************************************************************************)
(* An event that a batch has accepted is in a batch, on its way from the   *)
(* realtime batch to another one, or confirmed, whatever the two tasks and *)
(* the adders do at the same time; but see OnlyTheUploadedIsRemoved        *)
(* (event_manager.cpp:64-128, buffered_event_batch.cpp:7-67).              *)
(***************************************************************************)
NothingLost == ~overtaken => accepted \subseteq Kept \cup Elements(confirmed)

(***************************************************************************)
(* Critical events are never lost, not even by the race that loses others: *)
(* they never are in a buffered batch (event_manager.cpp:28-30, 96-104,    *)
(* 119-120).                                                               *)
(***************************************************************************)
CriticalNeverLost ==
    \A e \in accepted : e.critical => e \in Kept \cup Elements(confirmed)

(***************************************************************************)
(* No event is confirmed twice, though realtime events move to other       *)
(* batches and memory is merged with files (event_manager.cpp:90-106,      *)
(* buffered_event_batch.cpp:16-49).                                        *)
(***************************************************************************)
ConfirmedOnce ==
    ~overtaken => Cardinality(Elements(confirmed)) = Len(confirmed)

(***************************************************************************)
(* When the object is destroyed, no task is left behind and every event is *)
(* confirmed or in a file, provided that the writes of the last flush      *)
(* succeed: the realtime task empties its batch before it ends, into memory*)
(* perhaps, and memory is flushed last; the main task, which this wakes up *)
(* again, has come to an end                                               *)
(* (event_manager.cpp:41-44, 90-106; buffered_event_batch.h:27-29;         *)
(* task_with_delay_thread.cpp:29-31).                                      *)
(***************************************************************************)
DestructionSaves ==
    opc = "done" =>
        /\ MainQuiet /\ RealQuiet
        /\ realtime = <<>> /\ hand = <<>> /\ normal.mem = <<>>
        /\ ~overtaken => accepted \subseteq
                Elements(critical) \cup Elements(normal.disk)
                    \cup Elements(confirmed)

(***************************************************************************)
(* An accepted event is confirmed in the end, unless the object is         *)
(* destroyed: no request to run a task is lost, whenever it is made        *)
(* (event_manager.cpp:64-128).                                             *)
(***************************************************************************)
Delivered ==
    \A n \in 1..MaxEvents :
        (\E e \in accepted : e.n = n) ~>
            \/ \E e \in Elements(confirmed) : e.n = n
            \/ opc \notin {"new", "live"}
            \/ overtaken

(***************************************************************************)
(* The destructor returns, whether the server accepts events or not: the   *)
(* main task stops, and the realtime task, which does not look whether it  *)
(* is to stop, runs out of events (event_manager.cpp:41-44, 64-106).       *)
(***************************************************************************)
DestructorReturns == (opc = "main") ~> (opc = "done" \/ overtaken)

(***************************************************************************)
(* The test ReadIncrementalWithRemoval, which runs on a BufferedEventBatch *)
(* (test/event_batch.cpp:47-62, test/buffered_event_batch.cpp:25-28), wants*)
(* onEventsUploaded() to remove the events of the list and no other.       *)
(***************************************************************************)
OnlyTheUploadedIsRemoved ==
    [][mpc = "ack" /\ mpc' # "ack" /\ mlist.type # "critical" =>
          LET all(b) == Elements(b.disk) \cup Elements(b.mem)
          IN  all(normal) \ all(normal') = Elements(mlist.events)]_vars
=============================================================================
