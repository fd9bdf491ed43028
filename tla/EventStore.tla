----------------------------- MODULE EventStore -----------------------------
(***************************************************************************)
(* cll::MultiFileEventBatch (src/multi_file_event_batch.cpp) with the part *)
(* of cll::EventUploader that empties it (src/event_uploader.cpp:72-90)    *)
(* and the process that contains both, which may crash and start again.    *)
(*                                                                         *)
(* Any thread adds events; one thread, the main upload task of             *)
(* EventManager, takes lists of events, posts them and reports them as     *)
(* uploaded.  Every method of the batch holds batchPointerMutex from       *)
(* beginning to end; between two calls of the uploader anything may happen *)
(* to the batch, and the post takes as long as it takes.                   *)
(***************************************************************************)
EXTENDS EventFile

CONSTANTS
    Sizes,          \* sizes that an event may have
    Limits,         \* limits that the configuration may set: [count, size]
    WriteErrors,    \* whether write() may fail
    MaxEvents,      \* bound: events added
    MaxFiles,       \* bound: file numbers
    MaxCrashes,     \* bound: crashes
    MaxUpdates      \* bound: changes of the limits

\* An event ends with an end of line, so that no event has size 0.
ASSUME StoreAssumption ==
    /\ Sizes \subseteq Nat \ {0}
    /\ Limits \subseteq [count : Nat, size : Nat]
    /\ WriteErrors \in BOOLEAN
    /\ {MaxEvents, MaxFiles, MaxCrashes, MaxUpdates} \subseteq Nat

Elements(q) == {q[i] : i \in DOMAIN q}

Ids == 0..MaxFiles
NoBatch == [id |-> 0 - 1]

VARIABLES
    disk,           \* contents of each file of the directory, or NoFile
    limits,         \* fileMaxEvents and fileMaxSize, and the uploader's
    newestBatch, oldestBatch, oldBatches,   \* newestBatchId is newestBatch.id
    upc,            \* where the uploader is in sendEvents()
    list,           \* the list it works on
    added,          \* number of events for which addEvent() was called
    accepted,       \* the events for which it has returned true
    confirmed,      \* events answered with status 200, in that order
    dropped,        \* events reported as uploaded without having been sent
    crashes, updates,
    torn,           \* a copy of onEventsUploaded() has not been finished
    cut             \* the events that a crash in such a copy has cut through

memory == <<limits, newestBatch, oldestBatch, oldBatches>>
uploader == <<upc, list>>
history == <<added, accepted, confirmed, dropped, crashes, updates, torn,
             cut>>
vars == <<disk, memory, uploader, history>>

TypeOK ==
    /\ DOMAIN disk = Ids
    /\ limits \in Limits
    /\ newestBatch.id \in Ids
    /\ oldestBatch.id \in Ids \cup {NoBatch.id}
    /\ oldBatches \in Seq(Ids)
    /\ upc \in {"idle", "post", "ack", "check", "drop"}
    /\ added \in 0..MaxEvents
    /\ accepted \subseteq 1..MaxEvents
    /\ dropped \subseteq 0..MaxEvents
    /\ cut \subseteq 0..MaxEvents
    /\ \A i \in DOMAIN confirmed : confirmed[i] \in 0..MaxEvents
    \* every file number is used by one batch only, in the order of age
    /\ LET order == (IF oldestBatch = NoBatch THEN <<>> ELSE <<oldestBatch.id>>)
                        \o oldBatches \o <<newestBatch.id>>
       IN  \A i, j \in DOMAIN order : i < j => order[i] < order[j]

-----------------------------------------------------------------------------
(* The constructor of MultiFileEventBatch, at start and after a crash.     *)

\* getBatches() returns the numbers in the directory in ascending order.
Started(d) ==
    LET ids == {i \in Ids : d[i] # NoFile}
        last == Max(ids \cup {0})
        nth(i) == CHOOSE j \in ids : Cardinality({m \in ids : m <= j}) = i
        f == IF last \in ids THEN d[last] ELSE <<>>
    IN  /\ disk' = [d EXCEPT ![last] = Recover(f)]
        /\ newestBatch' = OpenBatch(last, f, FALSE)
        /\ oldestBatch' = NoBatch
        /\ oldBatches' = [i \in 1..Cardinality(ids \ {last}) |-> nth(i)]

Init ==
    /\ disk = [i \in Ids |-> IF i = 0 THEN <<>> ELSE NoFile]
    /\ limits \in Limits
    /\ newestBatch = OpenBatch(0, <<>>, FALSE)
    /\ oldestBatch = NoBatch
    /\ oldBatches = <<>>
    /\ upc = "idle"
    /\ list = NoList
    /\ added = 0
    /\ accepted = {}
    /\ confirmed = <<>>
    /\ dropped = {}
    /\ crashes = 0
    /\ updates = 0
    /\ torn = FALSE
    /\ cut = {}

-----------------------------------------------------------------------------
(* addEvent()                                                              *)

\* Mutant: the batch that was the newest is always put into the list.
RotateForgetsPointer ==
    /\ newestBatch.id < MaxFiles
    /\ oldBatches' = Append(oldBatches, newestBatch.id)
    /\ oldestBatch' = oldestBatch

\* A full batch becomes the oldest one, or the last one of the old batches.
Rotate ==
    /\ newestBatch.id < MaxFiles
    /\ IF oldestBatch = NoBatch /\ oldBatches = <<>>
       THEN /\ oldestBatch' = [newestBatch EXCEPT !.finalized = TRUE]
            /\ oldBatches' = oldBatches
       ELSE /\ oldBatches' = Append(oldBatches, newestBatch.id)
            /\ oldestBatch' = oldestBatch

\* The batch that gets an event of size n.
NewestFor(n) ==
    IF CanAddEvent(newestBatch, n, limits) THEN newestBatch
    ELSE OpenBatch(newestBatch.id + 1, <<>>, FALSE)

FileOf(b) == IF disk[b.id] = NoFile THEN <<>> ELSE disk[b.id]

Accept(b, e, n) ==
    LET w == Written(b, FileOf(b), Line(e, n)) IN
    /\ CanAddEvent(b, n, limits)
    /\ newestBatch' = w.batch
    /\ disk' = [disk EXCEPT ![b.id] = w.file]
    /\ accepted' = accepted \cup {e}

\* The event does not even fit into an empty file.
Reject(b, e, n) ==
    /\ ~CanAddEvent(b, n, limits)
    /\ newestBatch' = b
    /\ disk' = [disk EXCEPT ![b.id] = FileOf(b)]
    /\ UNCHANGED accepted

FailToWrite(b, e, n) ==
    /\ WriteErrors
    /\ CanAddEvent(b, n, limits)
    /\ \E o \in 0..n - 1 :
          LET w == WriteFailed(b, FileOf(b), Line(e, n), o)
          IN  /\ newestBatch' = w.batch
              /\ disk' = [disk EXCEPT ![b.id] = w.file]
    /\ UNCHANGED accepted

AddEvent(n) ==
    LET e == added + 1
        b == NewestFor(n)
    IN  /\ added < MaxEvents
        /\ added' = e
        /\ IF b = newestBatch THEN UNCHANGED <<oldestBatch, oldBatches>>
           ELSE Rotate
        /\ Accept(b, e, n) \/ Reject(b, e, n) \/ FailToWrite(b, e, n)
        /\ UNCHANGED <<limits, uploader, confirmed, dropped, crashes,
                       updates, torn, cut>>

-----------------------------------------------------------------------------
(* The other methods, as they act on the batches.                          *)

HasAnyEvents ==
    oldBatches # <<>> \/ oldestBatch # NoBatch \/ HasEvents(newestBatch)

\* checkOldestBatch(): without an oldest batch, old files that hold no event
\* are removed until one holds some, which becomes the oldest batch.
IsEmptyFile(id) == Recover(disk[id]) = <<>>

CheckOldestBatch ==
    LET k == Max({j \in 0..Len(oldBatches) :
                    \A i \in 1..j : IsEmptyFile(oldBatches[i])})
        removed == {oldBatches[i] : i \in 1..k}
        left == [i \in Ids |-> IF i \in removed THEN NoFile ELSE disk[i]]
        next == oldBatches[k + 1]
    IN  IF oldestBatch # NoBatch
        THEN [oldest |-> oldestBatch, old |-> oldBatches, disk |-> disk]
        ELSE IF k = Len(oldBatches)
        THEN [oldest |-> NoBatch, old |-> <<>>, disk |-> left]
        ELSE [oldest |-> OpenBatch(next, disk[next], TRUE),
              old |-> SubSeq(oldBatches, k + 2, Len(oldBatches)),
              disk |-> [left EXCEPT ![next] = Recover(@)]]

\* getEventsForUpload()
GetEvents(maxCount, maxSize) ==
    \E c \in {CheckOldestBatch} :
        /\ disk' = c.disk
        /\ oldBatches' = c.old
        /\ IF c.oldest = NoBatch
           THEN /\ list' = ListOf(newestBatch, c.disk[newestBatch.id],
                                  maxCount, maxSize)
                /\ newestBatch' = AfterRead(newestBatch)
                /\ oldestBatch' = NoBatch
           ELSE /\ list' = ListOf(c.oldest, c.disk[c.oldest.id],
                                  maxCount, maxSize)
                /\ oldestBatch' = AfterRead(c.oldest)
                /\ newestBatch' = newestBatch

\* The batch the list was taken from.
FrontBatch == IF oldestBatch = NoBatch THEN newestBatch ELSE oldestBatch

\* What becomes of it and of its file.
SetFront(u, oldest) ==
    /\ disk' = [disk EXCEPT ![FrontBatch.id] = u.file]
    /\ UNCHANGED <<limits, oldBatches>>
    /\ IF oldestBatch = NoBatch
       THEN newestBatch' = u.batch /\ oldestBatch' = NoBatch
       ELSE newestBatch' = newestBatch /\ oldestBatch' = oldest

\* Mutant: the oldest batch stays although it holds no more events.
AckKeepsBatch ==
    LET u == Uploaded(FrontBatch, disk[FrontBatch.id], list)
    IN  SetFront(u, u.batch)

Acknowledge(u) == SetFront(u, IF HasEvents(u.batch) THEN u.batch ELSE NoBatch)

OnEventsUploaded ==
    Acknowledge(Uploaded(FrontBatch, disk[FrontBatch.id], list))

RestIsCopied == FrontBatch.open /\ FrontBatch.fileSize # list.size

\* onEventsUploaded() when some of its writes fail: it warns and goes on, and
\* the file is cut behind what has been written.
CopyFails ==
    LET rest == Rest(disk[FrontBatch.id], list) IN
    /\ WriteErrors
    /\ RestIsCopied
    /\ \E K \in ChunkBeginnings(rest) \ {DOMAIN rest} :
          Acknowledge(Copied(FrontBatch, UnitsAt(rest, K), list))

ReportUploaded ==
    \/ OnEventsUploaded /\ UNCHANGED torn
    \/ CopyFails /\ torn' = TRUE

\* setFileLimits(), called when a configuration has been downloaded, which
\* also stores the uploader's limits.
SetFileLimits ==
    /\ updates < MaxUpdates
    /\ updates' = updates + 1
    /\ limits' \in Limits \ {limits}
    /\ UNCHANGED <<disk, newestBatch, oldestBatch, oldBatches, uploader,
                   added, accepted, confirmed, dropped, crashes, torn, cut>>

-----------------------------------------------------------------------------
(* EventUploader::sendEvents(batch, maxCount, maxSize), executed by the    *)
(* main upload task while the batch has events.                            *)

SendBegin ==
    /\ upc = "idle"
    /\ HasAnyEvents
    /\ GetEvents(limits.count, limits.size)
    /\ upc' = IF list'.null THEN "check" ELSE "post"
    /\ UNCHANGED <<limits, history>>

\* The request fails: HttpError or a status other than 200.
PostFails ==
    /\ upc = "post"
    /\ upc' = "idle"
    /\ list' = NoList
    /\ UNCHANGED <<disk, memory, history>>

PostSucceeds ==
    /\ upc = "post"
    /\ upc' = "ack"
    /\ confirmed' = confirmed \o EventsOf(list.data)
    /\ UNCHANGED <<disk, memory, list, added, accepted, dropped, crashes,
                   updates, torn, cut>>

SendEnd ==
    /\ upc = "ack"
    /\ ReportUploaded
    /\ upc' = "idle"
    /\ list' = NoList
    /\ UNCHANGED <<added, accepted, confirmed, dropped, crashes, updates, cut>>

\* No list: if there are events all the same, the first one is to go.
CheckEvents ==
    /\ upc = "check"
    /\ IF HasAnyEvents
       THEN /\ GetEvents(1, ReadCap)
            /\ upc' = IF list'.null THEN "idle" ELSE "drop"
       ELSE /\ upc' = "idle"
            /\ UNCHANGED <<disk, newestBatch, oldestBatch, oldBatches, list>>
    /\ UNCHANGED <<limits, history>>

\* The events that are removed without having been sent.
DroppedWith(pc, l) == IF pc = "drop" THEN Elements(EventsOf(l.data)) ELSE {}

DropFirst ==
    /\ upc = "drop"
    /\ ReportUploaded
    /\ dropped' = dropped \cup DroppedWith(upc, list)
    /\ upc' = "idle"
    /\ list' = NoList
    /\ UNCHANGED <<added, accepted, confirmed, crashes, updates, cut>>

-----------------------------------------------------------------------------
(* Crashes.  What is in memory is lost, the files stay as they are.        *)

Restart(d) ==
    /\ crashes < MaxCrashes
    /\ crashes' = crashes + 1
    /\ Started(d)
    /\ upc' = "idle"
    /\ list' = NoList
    /\ UNCHANGED <<limits, accepted, confirmed, updates>>

Crash == Restart(disk) /\ UNCHANGED <<added, dropped, torn, cut>>

\* addEvent() is interrupted after it has written a part of the event.
CrashInAdd(n) ==
    LET b == NewestFor(n)
        e == added + 1
    IN  /\ added < MaxEvents
        /\ b.id <= MaxFiles
        /\ CanAddEvent(b, n, limits)
        /\ added' = e
        /\ \E o \in 0..n - 1 :
              Restart([disk EXCEPT ![b.id] =
                          WrittenPartly(b, FileOf(b), Line(e, n), o)])
        /\ UNCHANGED <<dropped, torn, cut>>

\* onEventsUploaded() is interrupted before it has cut the file, after all
\* its writes have succeeded or after some have failed.
CrashInShift ==
    LET f == disk[FrontBatch.id]
        rest == Rest(f, list)
        left(g) == [disk EXCEPT ![FrontBatch.id] = g]
    IN  /\ upc \in {"ack", "drop"}
        /\ RestIsCopied
        /\ \/ \E k \in 1..Len(rest) :
                /\ Restart(left(ShiftedPartly(f, list, k)))
                /\ cut' = cut \cup CutThrough(f, list, k)
           \/ /\ WriteErrors
              /\ \E K \in ChunkBeginnings(rest) :
                    Restart(left(WriteAt(f, 0, UnitsAt(rest, K))))
              /\ UNCHANGED cut
        /\ torn' = TRUE
        /\ dropped' = dropped \cup DroppedWith(upc, list)
        /\ UNCHANGED added

-----------------------------------------------------------------------------

Upload ==
    SendBegin \/ PostSucceeds \/ SendEnd \/ CheckEvents \/ DropFirst

Next ==
    \/ \E n \in Sizes : AddEvent(n) \/ CrashInAdd(n)
    \/ Upload
    \/ PostFails
    \/ SetFileLimits
    \/ Crash
    \/ CrashInShift

Safety == Init /\ [][Next]_vars

\* The upload task keeps running, and the server does not refuse a list
\* for ever.
Spec == Safety /\ WF_vars(Upload) /\ SF_vars(PostSucceeds)

-----------------------------------------------------------------------------
(* Properties.                                                             *)

Stored == UNION {Elements(EventsOf(FileOf([id |-> i]))) : i \in Ids}

(***************************************************************************)
(* An event that addEvent() has accepted is in a file, as it was added, or *)
(* the server has confirmed it - at every moment, also when a crash has    *)
(* interrupted a write, and whatever was added while a list was on its way *)
(* (file_event_batch.cpp:68-96, 137-178; multi_file_event_batch.cpp:       *)
(* 79-125).  Of the events behind a list, a crash in onEventsUploaded(),   *)
(* wherever in the copy it falls, loses one at most: one that is longer    *)
(* than the list and that the copy, one write() of which may be short, has *)
(* overwritten at its old place and not finished at its new one (160-172). *)
(***************************************************************************)
OnlyCutEventsLost ==
    accepted \subseteq Stored \cup Elements(confirmed) \cup dropped \cup cut

(***************************************************************************)
(* A write of addEvent() that fails, or that a crash cuts short, does not  *)
(* harm the events that were stored before it: they stay in the file or are*)
(* uploaded (file_event_batch.cpp:81-91, 53-58).  Those that are added     *)
(* later may be lost: the offset stays behind the end of the file (:87),   *)
(* the next event is written behind a gap, and fileSize is wrong from then *)
(* on.  This ends when a copy of onEventsUploaded() is not finished: when a*)
(* write of it fails, the file is cut behind what has been written and the *)
(* events of the rest are gone (:164-168, 175).                            *)
(***************************************************************************)
EarlierEventsSurvive ==
    ~torn =>
        \A e \in accepted :
            \/ e \in Stored \cup Elements(confirmed) \cup dropped
            \/ \E f \in (1..added) \ accepted : f < e

(***************************************************************************)
(* Without a crash, events are confirmed in the order in which they were   *)
(* added, and each of them once, although batches change their role while  *)
(* a list is on its way (multi_file_event_batch.cpp:82-91, 112-125).     *)
(***************************************************************************)
InOrderOnce ==
    crashes = 0 =>
        \A i, j \in DOMAIN confirmed : i < j => confirmed[i] < confirmed[j]

(***************************************************************************)
(* The server gets whole events only: an event cut off by a crash is       *)
(* trimmed at the next start, and no list ends within an event             *)
(* (file_event_batch.cpp:34-59, 122-134).  This does not hold once a copy  *)
(* of onEventsUploaded() is not finished, which leaves parts of events.    *)
(***************************************************************************)
WholeEventsOnly == ~torn => Garbage \notin Elements(confirmed)

(***************************************************************************)
(* What an open batch believes of its file is true: its size, the number   *)
(* of lines and, when it relies on it, the file offset - on these rest the *)
(* limits, the test for "everything uploaded" and the place of the next    *)
(* write (file_event_batch.cpp:78-94, 141-142, 175-177).                   *)
(***************************************************************************)
BookkeepingIsTrue ==
    \A b \in {newestBatch, oldestBatch} \ {NoBatch} :
        b.open =>
            /\ b.fileSize = Len(FileOf(b))
            /\ b.eventCount = Cardinality(Newlines(FileOf(b)))
            /\ b.streamAtEnd => b.pos = Len(FileOf(b))

(***************************************************************************)
(* The uploader empties the store: when the upload task runs and the       *)
(* server does not refuse for ever, what has been added is uploaded        *)
(* (event_manager.cpp:66-88; event_uploader.cpp:72-90).                    *)
(***************************************************************************)
StoreDrains == HasAnyEvents ~> ~HasAnyEvents

(***************************************************************************)
(* The files implement the abstract queue of events, which is the one that *)
(* BufferedBatch relies on: whatever is rotated, removed, copied and       *)
(* recovered, an event that is accepted is put behind all others, lists are*)
(* taken from the front, what is confirmed is exactly what is removed, and *)
(* a crash neither loses nor reorders what is there - until one leaves a   *)
(* copy of onEventsUploaded() unfinished, which ends the promise           *)
(* (multi_file_event_batch.cpp:15-137; file_event_batch.cpp:26-178).       *)
(***************************************************************************)
Queue == INSTANCE EventQueue WITH
    pending <- Stored,
    phase <- IF upc = "check" THEN "idle" ELSE upc,
    taken <- Elements(EventsOf(list.data))

ImplementsQueue == Queue!Safety
=============================================================================
