----------------------------- MODULE Connection -----------------------------
(***************************************************************************)
(* One direction of a connection of simple-ipc: the threads of a client    *)
(* write messages to a socket, the io thread of the server reads them into *)
(* the buffer of connection_internal and takes it apart, and the .hello    *)
(* message makes both sides change from one encoding to another            *)
(* (simple-ipc/src/common/, simple-ipc/src/unix/common/unix_connection.cpp,*)
(* simple-ipc/src/unix/epoll_io_handler.cpp,                               *)
(* simple-ipc/src/server/default_rpc_handler.cpp).                         *)
(*                                                                         *)
(* stream is everything that has ever been written to the socket; the      *)
(* first `taken` bytes of it have been read.  The connection stays open:   *)
(* that it ends, and its last bytes are not read, is in ServiceClient.     *)
(***************************************************************************)
EXTENDS Encoding

CONSTANTS
    BufferSize,     \* BUFFER_SIZE
    MaxBufferSize,  \* MAX_BUFFER_SIZE
    SocketSize,     \* bytes that a socket holds
    Callers,        \* threads of the client that make calls
    Opener,         \* the thread that opens the connection
    MaxCalls        \* bound: calls made

ASSUME SizesAssumption ==
    /\ BufferSize \in Nat \ {0} /\ MaxBufferSize \in Nat
    /\ BufferSize <= MaxBufferSize
    /\ SocketSize \in Nat /\ MaxCalls \in Nat
ASSUME OpenerAssumption == Opener \notin Callers

Threads == Callers \cup {Opener}
Smaller(m, n) == IF m < n THEN m ELSE n

VARIABLES
    encoding,       \* current_encoding of the client
    hello,          \* hello_response_value
    wpc, body, enc, \* where each thread is in send_message(), what it sends
    calls,          \* number of calls so far
    stream, taken,
    ready,          \* epoll has an event for the server's socket
    io,             \* where the server's io thread is
    buffer, start, off, check,  \* buffer_start_off, buffer_off, check_start
    current,        \* current_encoding of the server
    agreed,         \* the encoding that the server chooses
    reply,          \* the reply to .hello: none, on its way, encoding set
    received,       \* what the handler has got
    sent,           \* the messages that have been written
    orderly,        \* calls came one after the other, and were written
    scrambled       \* memcpy() has copied between overlapping ranges

client == <<encoding, hello, wpc, body, enc, calls>>
socket == <<stream, taken, ready>>
server == <<io, buffer, start, off, check, current, received>>
history == <<sent, orderly, scrambled>>
vars == <<client, socket, server, agreed, reply, history>>

Size == Len(buffer)
Message == Bodies \cup {Hello}

TypeOK ==
    /\ {encoding, current, agreed} \subseteq Encodings
    /\ {hello, ready, orderly, scrambled} \subseteq BOOLEAN
    /\ wpc \in [Threads -> {"idle", "load", "first", "second"}]
    /\ body \in [Threads -> Message]
    /\ enc \in [Threads -> Encodings]
    /\ calls \in 0..MaxCalls
    /\ stream \in Seq(Byte) /\ taken \in 0..Len(stream)
    /\ io \in {"idle", "read", "scan", "endless"}
    /\ buffer \in Seq(Byte) /\ Size \in BufferSize..MaxBufferSize
    /\ off \in 0..Size /\ start \in 0..off /\ check \in start..off
    /\ reply \in {"none", "sent", "set", "done"}
    /\ received \in Seq(Message \cup {ParseError})
    /\ sent \in Seq(Message)

\* On a connection that is not the client's first one, hello may be set by
\* the callback of the .hello of the connection before.
Init ==
    /\ encoding = "json" /\ hello \in BOOLEAN
    /\ wpc = [t \in Threads |-> IF t = Opener THEN "load" ELSE "idle"]
    /\ body = [t \in Threads |-> Hello]
    /\ enc = [t \in Threads |-> "json"]
    /\ calls = 0
    /\ stream = <<>> /\ taken = 0 /\ ready = FALSE
    /\ io = "idle"
    /\ buffer = [i \in 1..BufferSize |-> 0]
    /\ start = 0 /\ off = 0 /\ check = 0
    /\ current = "json" /\ agreed \in Encodings /\ reply = "none"
    /\ received = <<>>
    /\ sent = <<>> /\ orderly = TRUE /\ scrambled = FALSE

-----------------------------------------------------------------------------
(* The threads of the client.  Nothing keeps two of them from sending at   *)
(* the same time.                                                          *)

\* service_client::send_message() lets a call pass after the reply to .hello.
Call(t, b) ==
    /\ wpc[t] = "idle" /\ hello /\ calls < MaxCalls
    /\ calls' = calls + 1
    /\ body' = [body EXCEPT ![t] = b]
    /\ wpc' = [wpc EXCEPT ![t] = "load"]
    /\ orderly' = (orderly /\ reply = "done")
    /\ UNCHANGED <<encoding, hello, enc, socket, server, agreed, reply, sent,
                   scrambled>>

\* Mutant: the newline is not counted.
TooBigWithoutNewline(t) == encoding = "json" /\ Len(body[t]) > MaxBufferSize

\* "Message is too big"; only the json encoding looks.
TooBig(t) == encoding = "json" /\ Len(body[t]) + 1 > MaxBufferSize

\* connection_internal::send_message() loads the encoding.
Load(t) ==
    /\ wpc[t] = "load"
    /\ enc' = [enc EXCEPT ![t] = encoding]
    /\ wpc' = [wpc EXCEPT ![t] = IF TooBig(t) THEN "idle" ELSE "first"]
    /\ UNCHANGED <<encoding, hello, body, calls, socket, server, agreed,
                   reply, history>>

\* write() on a socket that does not block writes what there is room for;
\* when that is not everything send_data() throws.
Room == SocketSize - (Len(stream) - taken)
Fits(part) == Len(part) <= Room

Write(part) ==
    LET n == Smaller(Len(part), Room)
    IN  /\ stream' = stream \o SubSeq(part, 1, n)
        /\ ready' = (ready \/ n > 0)
        /\ taken' = taken

\* The first part: the body, or the length.
First(t) ==
    LET part == FirstPart(enc[t], body[t])
    IN  /\ wpc[t] = "first"
        /\ Write(part)
        /\ wpc' = [wpc EXCEPT ![t] = IF Fits(part) THEN "second" ELSE "idle"]
        /\ orderly' = (/\ orderly /\ Fits(part)
                       /\ \A u \in Threads : wpc[u] # "second")
        /\ UNCHANGED <<encoding, hello, body, enc, calls, server, agreed,
                       reply, sent, scrambled>>

\* The second part: the newline, or the body.
Second(t) ==
    LET part == SecondPart(enc[t], body[t])
    IN  /\ wpc[t] = "second"
        /\ Write(part)
        /\ wpc' = [wpc EXCEPT ![t] = "idle"]
        /\ orderly' = (orderly /\ Fits(part))
        /\ sent' = IF Fits(part) THEN Append(sent, body[t]) ELSE sent
        /\ UNCHANGED <<encoding, hello, body, enc, calls, server, agreed,
                       reply, scrambled>>

Send(t) == Load(t) \/ First(t) \/ Second(t)

\* The callback of .hello: set_encoding() before hello_response_value.
SetEncoding ==
    /\ reply = "sent"
    /\ encoding' = agreed
    /\ reply' = "set"
    /\ UNCHANGED <<hello, wpc, body, enc, calls, socket, server, agreed,
                   history>>

\* Mutant: calls are let pass before the encoding is set.
SetHelloFirst ==
    /\ reply \in {"sent", "set"}
    /\ hello' = TRUE
    /\ reply' = "done"
    /\ UNCHANGED <<encoding, wpc, body, enc, calls, socket, server, agreed,
                   history>>

SetHello ==
    /\ reply = "set"
    /\ hello' = TRUE
    /\ reply' = "done"
    /\ UNCHANGED <<encoding, wpc, body, enc, calls, socket, server, agreed,
                   history>>

-----------------------------------------------------------------------------
(* The server's io thread: handle_data_available().                        *)

\* The event is reported once for what has arrived.  That of the end of the
\* connection, which run() looks for first, is left out: there is none here.
Wake ==
    /\ io = "idle" /\ ready
    /\ ready' = FALSE
    /\ io' = "read"
    /\ UNCHANGED <<client, stream, taken, buffer, start, off, check, current,
                   received, agreed, reply, history>>

Full == off = Size
Stuck == Full /\ start = 0 /\ Size = MaxBufferSize

\* The buffer with the last bytes moved to its start.  memcpy() may copy in
\* any order; backwards, it reads what it has written if the ranges overlap.
Moved == [i \in 1..Size |-> IF i <= off - start THEN buffer[start + i]
                            ELSE buffer[i]]
MovedBackwards ==
    [i \in 1..Size |->
        IF i <= off - start
        THEN buffer[i + start * (1 + (off - start - i) \div start)]
        ELSE buffer[i]]

Grown == [i \in 1..Smaller(2 * Size, MaxBufferSize) |->
            IF i <= Size THEN buffer[i] ELSE 0]

\* read() into b behind its first o bytes; the messages start at s.
Fill(b, s, o, bad) ==
    LET n == Smaller(Len(b) - o, Len(stream) - taken)
    IN  /\ buffer' = [i \in 1..Len(b) |->
                        IF i \in o + 1..o + n THEN stream[taken + i - o]
                        ELSE b[i]]
        /\ start' = s /\ check' = o /\ off' = o + n
        /\ taken' = taken + n
        /\ io' = IF n > 0 THEN "scan" ELSE "idle"
        /\ scrambled' = (scrambled \/ bad)

Read ==
    /\ io = "read"
    /\ \/ ~Full /\ Fill(buffer, start, off, FALSE)
       \/ Full /\ start = 0 /\ ~Stuck /\ Fill(Grown, 0, off, FALSE)
       \/ Full /\ start > 0 /\ Fill(Moved, 0, off - start, FALSE)
       \/ /\ Full /\ start > 0 /\ off - start > start
          /\ Fill(MovedBackwards, 0, off - start, TRUE)
       \/ /\ Stuck
          /\ io' = "idle"
          /\ UNCHANGED <<buffer, start, off, check, taken, scrambled>>
    /\ UNCHANGED <<client, stream, ready, current, received, agreed, reply,
                   sent, orderly>>

\* The bytes that have not been processed, and the length of the first
\* message in them.
Unread == SubSeq(buffer, start + 1, off)
Complete == CompleteLength(current, Unread, check - start)

\* Mutant: the encoding that was agreed is not set.
HandleHelloKeeps == current' = current /\ reply' = "sent"

\* handle_hello() replies, in json, and sets the encoding.
HandleHello == current' = agreed /\ reply' = "sent"

\* Mutant: what is left in the buffer is looked at again only from its end.
DeliverRest ==
    LET m == ReadMessage(current, SubSeq(Unread, 1, Complete))
    IN  /\ io = "scan" /\ Complete > 0
        /\ received' = Append(received, m)
        /\ start' = start + Complete
        /\ check' = off
        /\ IF m = Hello THEN HandleHello ELSE UNCHANGED <<current, reply>>
        /\ UNCHANGED <<client, socket, io, buffer, off, agreed, history>>

\* A message is handled.
Deliver ==
    LET m == ReadMessage(current, SubSeq(Unread, 1, Complete))
    IN  /\ io = "scan" /\ Complete > 0
        /\ received' = Append(received, m)
        /\ start' = start + Complete
        /\ check' = start'
        /\ IF m = Hello THEN HandleHello ELSE UNCHANGED <<current, reply>>
        /\ UNCHANGED <<client, socket, io, buffer, off, agreed, history>>

\* Mutant: the function returns when it has read once.
ReturnAfterScan ==
    /\ io = "scan" /\ Complete = 0
    /\ io' = IF Empty(current, Unread) THEN "endless" ELSE "idle"
    /\ UNCHANGED <<client, socket, buffer, start, off, check, current,
                   received, agreed, reply, history>>

\* No complete message is left; or an empty one, which is read, and answered
\* with an error, again and again: that loop ends with the process, when the
\* errors have filled the other direction and send_data() throws.
ScanEnds ==
    /\ io = "scan" /\ Complete = 0
    /\ io' = IF Empty(current, Unread) THEN "endless" ELSE "read"
    /\ UNCHANGED <<client, socket, buffer, start, off, check, current,
                   received, agreed, reply, history>>

Io == Wake \/ Read \/ Deliver \/ ScanEnds

-----------------------------------------------------------------------------

Next ==
    \/ \E t \in Callers, b \in Bodies : Call(t, b)
    \/ \E t \in Threads : Send(t)
    \/ SetEncoding \/ SetHello
    \/ Io

Safety == Init /\ [][Next]_vars

\* The io thread keeps running; clients need not send.
Spec == Safety /\ WF_vars(Io)

-----------------------------------------------------------------------------
(* Properties.                                                             *)

IsPrefixOf(p, s) == Len(p) <= Len(s) /\ p = SubSeq(s, 1, Len(p))

(***************************************************************************)
(* What the handler gets are the messages, whole and in the order in which *)
(* they were written, however the reads cut them and wherever the encoding *)
(* changes - as long as calls do not overlap, memcpy() copies forwards and *)
(* no call precedes the reply to .hello (connection_internal.cpp:5-59).    *)
(***************************************************************************)
InOrder == orderly /\ ~scrambled => IsPrefixOf(received, sent)

(***************************************************************************)
(* The io thread does not sleep while there are bytes that epoll, which is *)
(* edge-triggered, will not report again - unless the buffer is at its     *)
(* limit (connection_internal.cpp:8-29, epoll_io_handler.cpp:39-52).       *)
(***************************************************************************)
NothingStranded == io = "idle" /\ ~ready => taken = Len(stream) \/ Stuck

(***************************************************************************)
(* What lies in the buffer between the two offsets are the bytes of the    *)
(* socket that come next, through every move and growth of the buffer      *)
(* (connection_internal.cpp:9-30).                                         *)
(***************************************************************************)
UnreadIsStream ==
    ~scrambled =>
        /\ off - start <= taken
        /\ \A i \in start + 1..off : buffer[i] = stream[taken - off + i]

(***************************************************************************)
(* A search that starts behind what has been searched before finds every   *)
(* line: none is left in the buffer when the next read begins, whatever    *)
(* was moved in between (connection_internal.cpp:29-56,                    *)
(* encoding_json.cpp:44-50).                                               *)
(***************************************************************************)
NoLineLeft ==
    current = "json" /\ io # "scan" =>
        \A i \in start + 1..off : buffer[i] # Newline

(***************************************************************************)
(* The limits of the two sides agree: the json encoding lets no message    *)
(* pass that the buffer cannot hold with its newline (encoding_json.cpp:   *)
(* 38-39, connection_internal.cpp:12-19).  The json_cbor encoding does not *)
(* look, and two overlapping calls may make a line that is too long.       *)
(***************************************************************************)
LimitsAgree ==
    orderly /\ ~scrambled /\ current = "json" /\ io # "scan" => ~Stuck

\* From the place p of s on, the next message is read; .hello changes the
\* encoding to e.
ReadOne(e, s, p) ==
    LET rest == SubSeq(s, p.pos + 1, Len(s))
        n == CompleteLength(p.enc, rest, 0)
        m == ReadMessage(p.enc, SubSeq(rest, 1, n))
    IN  IF n = 0 THEN p
        ELSE [pos |-> p.pos + n, enc |-> IF m = Hello THEN e ELSE p.enc,
              msgs |-> Append(p.msgs, m)]

\* Where reading s at once comes to, and with which messages.
ReadAtOnce(s) ==
    LET read[i \in 0..Len(s)] ==
            IF i = 0 THEN [pos |-> 0, enc |-> "json", msgs |-> <<>>]
            ELSE ReadOne(agreed, s, read[i - 1])
    IN  read[Len(s)]

(***************************************************************************)
(* What is handled depends on the bytes alone, never on how the reads cut  *)
(* them or where they lie in the buffer - also when overlapping calls, a   *)
(* message before the greeting or a write cut short have made nonsense of  *)
(* the stream: then messages are lost or read as errors, or the loop never *)
(* ends because a length has wrapped, but by the rules of the encoding     *)
(* (connection_internal.cpp:5-59, encoding_json.cpp:44-50,                 *)
(* encoding_json_cbor.cpp:30-39, varint.cpp:16-32).                        *)
(***************************************************************************)
CutsDoNotMatter ==
    ~scrambled =>
        LET bytes == SubSeq(stream, 1, taken)
            all == ReadAtOnce(bytes)
            rest == SubSeq(bytes, all.pos + 1, Len(bytes))
        IN  /\ IsPrefixOf(received, all.msgs)
            /\ io # "scan" =>
                  /\ received = all.msgs
                  /\ io = "endless" <=> Empty(all.enc, rest)

(***************************************************************************)
(* Every message that was written is handled, unless one that is too big   *)
(* for the buffer blocks the connection: again and again, nothing that was *)
(* sent is left (connection_internal.cpp:8-59).                            *)
(***************************************************************************)
Delivered ==
    []<>(Len(received) >= Len(sent) \/ Stuck \/ ~orderly \/ scrambled)
=============================================================================
