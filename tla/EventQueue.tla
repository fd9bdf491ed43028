----------------------------- MODULE EventQueue -----------------------------
(***************************************************************************)
(* What the batches on disk promise to those that add events and to the    *)
(* uploader, independently of files, their sizes and their number          *)
(* (cll-telemetry/include/cll/event_batch.h,                               *)
(* multi_file_event_batch.h): a queue of events that survives crashes.     *)
(* Events have the numbers in which they were added, so that the queue is  *)
(* a set of numbers with the smallest one at the front.                    *)
(***************************************************************************)
EXTENDS Naturals, Sequences, FiniteSets

VARIABLES
    added,          \* number of calls of addEvent()
    accepted,       \* the events for which it has returned true
    pending,        \* the queue
    phase,          \* what the uploader does with its list
    taken,          \* the events of that list
    confirmed,      \* events answered with status 200, in that order
    dropped,        \* events removed without having been sent
    torn            \* the promise has ended: see Tear

vars == <<added, accepted, pending, phase, taken, confirmed, dropped, torn>>

Init ==
    /\ added = 0 /\ accepted = {} /\ pending = {}
    /\ phase = "idle" /\ taken = {}
    /\ confirmed = <<>> /\ dropped = {} /\ torn = FALSE

\* An event that is accepted is the last one of the queue.
Add ==
    /\ added' = added + 1
    /\ \/ pending' = pending \cup {added'} /\ accepted' = accepted \cup {added'}
       \/ UNCHANGED <<pending, accepted>>
    /\ UNCHANGED <<phase, taken, confirmed, dropped, torn>>

\* A list begins the queue.
BeginsQueue(S) == S \subseteq pending /\ \A e \in S, f \in pending : f < e => f \in S

Take ==
    /\ phase = "idle"
    /\ phase' \in {"post", "drop"}
    /\ taken' \in {S \in SUBSET pending : BeginsQueue(S)}
    /\ UNCHANGED <<added, accepted, pending, confirmed, dropped, torn>>

Refuse ==
    /\ phase = "post"
    /\ phase' = "idle" /\ taken' = {}
    /\ UNCHANGED <<added, accepted, pending, confirmed, dropped, torn>>

\* The events of S in the order in which they were added.
Sorted(S) ==
    {q \in [1..Cardinality(S) -> S] :
        \A i, j \in DOMAIN q : i < j => q[i] < q[j]}

Confirm ==
    /\ phase = "post"
    /\ phase' = "ack"
    /\ \E q \in Sorted(taken) : confirmed' = confirmed \o q
    /\ UNCHANGED <<added, accepted, pending, taken, dropped, torn>>

\* What was in the list leaves the queue, and nothing else does.
Remove ==
    /\ phase \in {"ack", "drop"}
    /\ phase' = "idle" /\ taken' = {}
    /\ pending' = pending \ taken
    /\ dropped' = IF phase = "drop" THEN dropped \cup taken ELSE dropped
    /\ UNCHANGED <<added, accepted, confirmed, torn>>

\* The queue stays as it is.  An event that was being added is lost.
Crash ==
    /\ phase' = "idle" /\ taken' = {}
    /\ added' \in {added, added + 1}
    /\ UNCHANGED <<accepted, pending, confirmed, dropped, torn>>

\* A crash, or a write that fails, while the uploaded events are being removed
\* from a file: from then on nothing is promised here.
Tear == torn'

Next == Add \/ Take \/ Refuse \/ Confirm \/ Remove \/ Crash \/ Tear

Safety == Init /\ [][Next]_vars
=============================================================================
