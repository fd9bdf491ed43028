--------------------------- MODULE BufferedBatch ---------------------------
(***************************************************************************)
(* cll::MemoryEventBatch and cll::BufferedEventBatch, the batch in memory  *)
(* in front of the files (cll-telemetry/src/memory_event_batch.cpp,        *)
(* buffered_event_batch.cpp, buffered_event_batch_private.h).              *)
(*                                                                         *)
(* A memory batch is a sequence of events; a buffered batch is a record of *)
(* the events in files, "disk", and those in memory, "mem".  The files     *)
(* appear as what EventStore promises, a queue: an event that is added is  *)
(* the last one, a list is a prefix, and that prefix is removed.  Every    *)
(* method holds a mutex from beginning to end and is one operator here.    *)
(* Events fit the limit of size: those that do not are in EventStore.      *)
(***************************************************************************)
EXTENDS Naturals, Sequences

CONSTANTS
    MaxCount,       \* uploaderMaxEvents, the events in a list
    MemLimit        \* bufferedItemCount, the events in memory

Smaller(a, b) == IF a < b THEN a ELSE b
First(q, n) == SubSeq(q, 1, n)
Drop(q, n) == SubSeq(q, n + 1, Len(q))

\* A list: how many events it has from the files and from memory, and them.
List(type, d, m, events) ==
    [type |-> type, disk |-> d, mem |-> m, events |-> events]
NoList == List("none", 0, 0, <<>>)

-----------------------------------------------------------------------------
(* MemoryEventBatch: the size limit of a list may come before its count.   *)

MemoryLists(q) ==
    {List("Memory", 0, m, First(q, m)) :
        m \in 1..Smaller(MaxCount, Len(q))}

-----------------------------------------------------------------------------
(* BufferedEventBatch                                                      *)

HasAny(b) == b.disk # <<>> \/ b.mem # <<>>

\* flushInternal(), when its writes succeed: an event whose write fails is
\* logged and lost (buffered_event_batch.cpp:64-65).
Flushed(b) == [disk |-> b.disk \o b.mem, mem |-> <<>>]

\* addEvent()
Added(b, e) ==
    IF Len(b.mem) < MemLimit THEN [b EXCEPT !.mem = Append(@, e)]
    ELSE [Flushed(b) EXCEPT !.mem = <<e>>]

\* getEventsForUpload(): a list ends with the events of one file at the
\* latest.  When it ends there, events in memory are merged into it, as far
\* as the limits of the list allow: maybe none, which is no merged list if
\* the limit is used up and one without events from memory if it is not.
FromFiles(b) ==
    {List("Wrapped", d, 0, First(b.disk, d)) :
        d \in 1..Smaller(MaxCount, Len(b.disk))}

Merges(b) ==
    {List("Merged", d, m, First(b.disk, d) \o First(b.mem, m)) :
        d \in 1..Smaller(MaxCount - 1, Len(b.disk)), m \in 0..Len(b.mem)}

BufferedLists(b) ==
    IF b.disk = <<>> THEN MemoryLists(b.mem)
    ELSE FromFiles(b) \cup {l \in Merges(b) : Len(l.events) <= MaxCount
                                              /\ b.mem # <<>>}

\* onEventsUploaded() erases from memory as many events as the list has from
\* there.  If there are fewer by then, erase() runs past the end.
ErasesTooMany(b, l) == l.mem > Len(b.mem)

\* Mutant: a merged list is taken for one of events in files.
UploadedFiles(b, l) ==
    [b EXCEPT !.disk = Drop(@, l.disk),
              !.mem = IF l.type = "Memory" THEN Drop(@, l.mem) ELSE @]

\* Mutant: the count of the whole list is erased from memory.
UploadedTwice(b, l) ==
    [disk |-> Drop(b.disk, l.disk), mem |-> Drop(b.mem, Len(l.events))]

Uploaded(b, l) ==
    [disk |-> Drop(b.disk, l.disk), mem |-> Drop(b.mem, l.mem)]
=============================================================================
