----------------------------- MODULE EventFile -----------------------------
(***************************************************************************)
(* cll::FileEventBatch (cll-telemetry/src/file_event_batch.cpp,            *)
(* include/cll/file_event_batch.h): one file with one event per line.      *)
(*                                                                         *)
(* A file is a sequence of units.  An event of size n is n units long, the *)
(* last one being its end of line, so that a write that stops half-way, a  *)
(* copy that leaves an old tail behind and a gap are all visible.  The     *)
(* object is a record; its methods are operators on the record and the     *)
(* contents of its file.  Every method holds streamMutex from beginning to *)
(* end, so that nothing but a crash comes between its system calls.        *)
(***************************************************************************)
EXTENDS Naturals, Sequences, FiniteSetsExt

CONSTANTS
    ReadCap,        \* the 1 MiB limit of getEventsForUpload()
    CopyChunk       \* the 1 MiB buffer of onEventsUploaded()

ASSUME BufferAssumption == ReadCap \in Nat \ {0} /\ CopyChunk \in Nat \ {0}

-----------------------------------------------------------------------------
(* Units and lines.                                                        *)

Line(e, n) == [k \in 1..n |-> [ev |-> e, k |-> k, n |-> n]]

\* What a write beyond the end of a file leaves in between.
Hole == [ev |-> 0, k |-> 0, n |-> 1]

Newlines(f) == {i \in DOMAIN f : f[i].k = f[i].n}

\* Where the i-th line ends.
EndOfLine(f, i) ==
    CHOOSE j \in Newlines(f) :
        Cardinality({m \in Newlines(f) : m <= j}) = i

\* The line that ends at position j is an event as it was added.
IsWhole(f, j) ==
    LET n == f[j].n IN
    /\ n <= j
    /\ j > n => j - n \in Newlines(f)
    /\ SubSeq(f, j - n + 1, j) = Line(f[j].ev, n)

Garbage == 0

\* The events of a file or of a list, line by line; Garbage for a line that
\* is not an event.
EventsOf(f) ==
    [i \in 1..Cardinality(Newlines(f)) |->
        LET end == EndOfLine(f, i)
        IN  IF IsWhole(f, end) THEN f[end].ev ELSE Garbage]

\* write() of data at offset pos
WriteAt(f, pos, data) ==
    [i \in 1..Max({Len(f), pos + Len(data)}) |->
        IF i \in pos + 1..pos + Len(data) THEN data[i - pos]
        ELSE IF i <= Len(f) THEN f[i] ELSE Hole]

First(f, n) == SubSeq(f, 1, n)

-----------------------------------------------------------------------------
(* The constructor.                                                        *)

\* Mutant: an incomplete event at the end of the file is kept.
RecoverNoTrim(f) == f

\* seekToEndAndGetFileSize() and countEventsInFile(): an incomplete event at
\* the end of the file is trimmed.
Recover(f) == First(f, Max(Newlines(f) \cup {0}))

OpenBatch(id, f, finalized) ==
    [id |-> id, open |-> TRUE, finalized |-> finalized,
     fileSize |-> Len(Recover(f)), eventCount |-> Cardinality(Newlines(f)),
     streamAtEnd |-> FALSE, pos |-> 0]

-----------------------------------------------------------------------------
(* addEvent()                                                              *)

CanAddEvent(b, n, lim) ==
    /\ ~b.finalized
    /\ lim.size = 0 \/ b.fileSize + n <= lim.size
    /\ lim.count = 0 \/ b.eventCount + 1 <= lim.count

\* Mutant: the end of the file is never sought again.
NoSeek(b, f) == [b EXCEPT !.streamAtEnd = TRUE]

\* if (!streamAtEnd) seekToEndAndGetFileSize();
SeekToEnd(b, f) ==
    IF b.streamAtEnd THEN b
    ELSE [b EXCEPT !.streamAtEnd = TRUE, !.pos = Len(f), !.fileSize = Len(f)]

\* The results of writing a line: the object and the file.
Written(b, f, data) ==
    LET s == SeekToEnd(b, f) IN
    [batch |-> [s EXCEPT !.fileSize = @ + Len(data), !.eventCount = @ + 1,
                         !.pos = @ + Len(data)],
     file |-> WriteAt(f, s.pos, data)]

\* A crash after o units.
WrittenPartly(b, f, data, o) == WriteAt(f, SeekToEnd(b, f).pos, First(data, o))

\* write() fails after o units: the file is cut back to fileSize, but the
\* offset stays where the partial write has left it.
WriteFailed(b, f, data, o) ==
    LET s == SeekToEnd(b, f) IN
    [batch |-> [s EXCEPT !.pos = @ + o],
     file |-> IF o = 0 THEN f
              ELSE First(WrittenPartly(b, f, data, o), s.fileSize)]

-----------------------------------------------------------------------------
(* getEventsForUpload(): the longest run of lines within the limits.  The  *)
(* list may hold no event at all when the first one is too long.           *)

NoList == [data |-> <<>>, size |-> 0, events |-> 0, null |-> TRUE]

\* Mutant: the data is not cut at the end of a line.
ListNotCut(b, f, maxCount, maxSize) ==
    IF ~b.open \/ b.fileSize = 0 \/ maxCount = 0 THEN NoList
    ELSE LET data == First(f, Min({maxSize, ReadCap, b.fileSize, Len(f)}))
         IN  [data |-> data, size |-> Len(data),
              events |-> Cardinality(Newlines(data)), null |-> FALSE]

ListOf(b, f, maxCount, maxSize) ==
    IF ~b.open \/ b.fileSize = 0 \/ maxCount = 0 THEN NoList
    ELSE LET buf == First(f, Min({maxSize, ReadCap, b.fileSize, Len(f)}))
             events == Min({Cardinality(Newlines(buf)), maxCount})
             n == IF events = 0 THEN 0 ELSE EndOfLine(buf, events)
         IN  [data |-> First(buf, n), size |-> n, events |-> events,
              null |-> FALSE]

\* The file position is lost.
AfterRead(b) ==
    IF ~b.open \/ b.fileSize = 0 THEN b ELSE [b EXCEPT !.streamAtEnd = FALSE]

-----------------------------------------------------------------------------
(* onEventsUploaded()                                                      *)

NoFile == <<[ev |-> 0, k |-> 0, n |-> 0]>>      \* there is no such file

\* Everything has been uploaded: a finalized file is removed.
Emptied(b, f) ==
    [batch |-> [b EXCEPT !.fileSize = 0, !.eventCount = 0,
                         !.open = ~b.finalized],
     file |-> IF b.finalized THEN NoFile ELSE <<>>]

Rest(f, list) == SubSeq(f, list.size + 1, Len(f))

\* left has been copied to the beginning of the file, which is then cut.
Copied(b, left, list) ==
    [batch |-> [b EXCEPT !.fileSize = Len(left),
                         !.eventCount = @ - list.events,
                         !.pos = Len(left)],
     file |-> left]

Shifted(b, f, list) == Copied(b, Rest(f, list), list)

\* Mutant: a list that was made before an event was added empties the file.
UploadedEmptiesAll(b, f, list) ==
    IF ~b.open THEN [batch |-> b, file |-> f] ELSE Emptied(b, f)

Uploaded(b, f, list) ==
    IF ~b.open THEN [batch |-> b, file |-> f]
    ELSE IF b.fileSize = list.size THEN Emptied(b, f)
    ELSE Shifted(b, f, list)

\* A write() that fails ends the copy of its chunk but not the loop: of each
\* chunk, a beginning is written, and it follows what is there already.
ChunkBeginnings(rest) ==
    {K \in SUBSET DOMAIN rest :
        \A i \in K : (i - 1) % CopyChunk = 0 \/ i - 1 \in K}

UnitsAt(rest, K) ==
    [i \in 1..Cardinality(K) |->
        rest[CHOOSE j \in K : Cardinality({m \in K : m <= j}) = i]]

\* What a crash leaves when the first k units of the rest are written:
\* write() may stop anywhere, and nothing has been cut off.
ShiftedPartly(f, list, k) == WriteAt(f, 0, First(Rest(f, list), k))

\* The event that is in neither place then: it is longer than the list, and
\* its copy reaches into the event itself.
CutThrough(f, list, k) ==
    IF k = Len(f) - list.size THEN {}
    ELSE {f[k + 1].ev} \cap {f[k + 1 + list.size].ev}

HasEvents(b) == b.fileSize # 0
=============================================================================
