--------------------------- MODULE ServiceClient ---------------------------
(***************************************************************************)
(* simpleipc::client::service_client on a Unix socket, as used by          *)
(* daemon_utils::launchable_service_client: threads make synchronous calls,*)
(* the io thread handles the replies and, when the daemon closes the       *)
(* connection, answers what is pending with an error and connects again.   *)
(* (simple-ipc/src/client/, simple-ipc/src/unix/client/,                   *)
(* simple-ipc/src/unix/epoll_io_handler.cpp,                               *)
(* daemon-utils/client/include/daemon_utils/launchable_service_client.h.)  *)
(*                                                                         *)
(* A message is its id, and is written in two parts without a lock, so that*)
(* those of two threads may mix; a part of it may be all that fits into the*)
(* socket.  What the daemon cannot read is 0.  How the bytes are cut and put*)
(* together again is left out: see Connection.                             *)
(***************************************************************************)
EXTENDS Naturals, Sequences

CONSTANTS
    Callers,        \* threads that make calls
    Reconnects,     \* whether the client has a daemon_launcher
    MaxCalls,       \* bound: calls made
    MaxOpens        \* bound: connections

ASSUME BoundsAssumption ==
    Reconnects \in BOOLEAN /\ MaxCalls \in Nat /\ MaxOpens \in Nat \ {0}

Ids == 1..MaxCalls + MaxOpens
Elements(q) == {q[i] : i \in DOMAIN q}

VARIABLES
    conn,           \* whether unix_service_client_impl has a connection
    out, in,        \* messages on their way to the daemon, and replies
    half,           \* the message of which only the first part is written
    closed,         \* whether the daemon has closed its end
    opens,          \* connections so far
    hello,          \* hello_response_value
    cbs,            \* message ids with a callback
    next,           \* next_message_id
    greetings,      \* the ids of .hello messages
    opc, oid,       \* where the constructor is, the id of its .hello message
    cpc, cid,       \* where each caller is in call(), its message id
    calls,          \* number of calls so far
    result,         \* what the promise of each call holds
    thrown,         \* the calls that have ended with an exception
    garbled,        \* the messages that the daemon has not got as written
    ipc,            \* where the io thread is
    iid,            \* the id of its .hello message
    taken, outcome  \* the callbacks it is about to call, and with what

socket == <<conn, out, in, half, closed, opens, garbled>>
constructor == <<opc, oid>>
caller == <<cpc, cid, calls, thrown>>
io == <<ipc, iid, taken, outcome>>
vars == <<socket, hello, cbs, next, greetings, constructor, caller, result, io>>

TypeOK ==
    /\ {conn, closed, hello} \subseteq BOOLEAN
    /\ out \in Seq(Ids \cup {0}) /\ in \in Seq(Ids)
    /\ half \in Ids \cup {0} /\ garbled \subseteq Ids
    /\ opens \in 0..MaxOpens /\ calls \in 0..MaxCalls
    /\ next \in 1..MaxCalls + MaxOpens + 1
    /\ greetings \subseteq 1..next - 1
    /\ {oid, iid} \subseteq 0..next - 1
    /\ opc \in {"new", "add", "send", "end", "wait", "ready", "failed"}
    /\ cpc \in [Callers -> {"idle", "test", "refuse", "send", "end", "get"}]
    /\ cid \in [Callers -> 0..next - 1]
    /\ result \in [Ids -> {"none", "reply", "error"}]
    /\ thrown \subseteq Ids
    /\ ipc \in {"idle", "call", "forget", "take", "callAll", "reopen", "add",
                "send", "end", "dead"}
    /\ outcome \in {"reply", "error"}
    \* a callback is in the table or has been taken out of it, never both
    /\ cbs \subseteq 1..next - 1 /\ taken \subseteq 1..next - 1
    /\ cbs \cap taken = {}

Init ==
    /\ conn = FALSE /\ out = <<>> /\ in = <<>> /\ half = 0
    /\ closed = FALSE /\ opens = 0 /\ garbled = {}
    /\ hello = FALSE /\ cbs = {} /\ next = 1 /\ greetings = {}
    /\ opc = "new" /\ oid = 0
    /\ cpc = [c \in Callers |-> "idle"] /\ cid = [c \in Callers |-> 0]
    /\ calls = 0
    /\ result = [i \in Ids |-> "none"] /\ thrown = {}
    /\ ipc = "idle" /\ iid = 0 /\ taken = {} /\ outcome = "reply"

-----------------------------------------------------------------------------
(* Steps that several threads have in common.                              *)

\* unix_service_client_impl::open()
Connect ==
    /\ conn' = TRUE
    /\ out' = <<>> /\ in' = <<>> /\ half' = 0 /\ closed' = FALSE
    /\ opens' = opens + 1
    /\ UNCHANGED garbled

\* rpc_json_call::call() takes an id and registers the callback.
Register(isHello) ==
    /\ next' = next + 1
    /\ cbs' = cbs \cup {next}
    /\ greetings' = IF isHello THEN greetings \cup {next} ELSE greetings

\* impl->send_message(): send_json() calls send_data() for each of the two
\* parts, the text and its newline or the length and the bytes.
CanWrite == conn /\ ~closed

\* What is written is not a message, nor is what its first part is missing.
Nonsense(id) ==
    /\ out' = Append(out, 0)
    /\ half' = 0
    /\ garbled' = garbled \cup ({half, id} \ {0})

FirstPart(id) ==
    /\ CanWrite
    /\ IF half = 0 THEN half' = id /\ UNCHANGED <<out, garbled>>
       ELSE Nonsense(id)
    /\ UNCHANGED <<conn, in, closed, opens>>

\* The descriptor may be that of a new connection by now.
SecondPart(id) ==
    /\ CanWrite
    /\ IF half = id
       THEN out' = Append(out, id) /\ half' = 0 /\ UNCHANGED garbled
       ELSE Nonsense(id)
    /\ UNCHANGED <<conn, in, closed, opens>>

\* send_data() throws: the connection is gone, or the socket is full and has
\* taken nothing, or a part of the data.
WriteFails(id) ==
    \/ UNCHANGED socket
    \/ CanWrite /\ Nonsense(id) /\ UNCHANGED <<conn, in, closed, opens>>

-----------------------------------------------------------------------------
(* The constructor: open(), the .hello message, wait_for_hello_message().  *)

Open ==
    /\ opc = "new"
    /\ Connect
    /\ opc' = "add"
    /\ UNCHANGED <<hello, cbs, next, greetings, oid, caller, result, io>>

OpenAdd ==
    /\ opc = "add"
    /\ Register(TRUE)
    /\ oid' = next
    /\ opc' = "send"
    /\ UNCHANGED <<socket, hello, caller, result, io>>

OpenSend ==
    /\ \/ opc = "send" /\ FirstPart(oid) /\ opc' = "end"
       \/ opc = "end" /\ SecondPart(oid) /\ opc' = "wait"
       \/ opc \in {"send", "end"} /\ WriteFails(oid) /\ opc' = "failed"
    /\ UNCHANGED <<hello, cbs, next, greetings, oid, caller, result, io>>

OpenReturns ==
    /\ opc = "wait" /\ hello
    /\ opc' = "ready"
    /\ UNCHANGED <<socket, hello, cbs, next, greetings, oid, caller, result,
                   io>>

Constructor == Open \/ OpenAdd \/ OpenSend \/ OpenReturns

-----------------------------------------------------------------------------
(* rpc_json_call::call(), the synchronous one.                             *)

Call(c) ==
    /\ cpc[c] = "idle" /\ opc = "ready" /\ calls < MaxCalls
    /\ Register(FALSE)
    /\ calls' = calls + 1
    /\ cid' = [cid EXCEPT ![c] = next]
    /\ cpc' = [cpc EXCEPT ![c] = "test"]
    /\ UNCHANGED <<socket, hello, constructor, result, thrown, io>>

\* service_client::send_message() looks whether the daemon has said hello.
Test(c) ==
    /\ cpc[c] = "test"
    /\ cpc' = [cpc EXCEPT ![c] = IF hello THEN "send" ELSE "refuse"]
    /\ UNCHANGED <<socket, hello, cbs, next, greetings, constructor, cid,
                   calls, thrown, result, io>>

\* The caller calls its own callback, unless the io thread has taken it.
Refuse(c) ==
    /\ cpc[c] = "refuse"
    /\ cbs' = cbs \ {cid[c]}
    /\ result' = IF cid[c] \in cbs THEN [result EXCEPT ![cid[c]] = "error"]
                 ELSE result
    /\ cpc' = [cpc EXCEPT ![c] = "get"]
    /\ UNCHANGED <<socket, hello, next, greetings, constructor, cid, calls,
                   thrown, io>>

SendPart(c) ==
    \/ /\ cpc[c] = "send" /\ FirstPart(cid[c])
       /\ cpc' = [cpc EXCEPT ![c] = "end"]
    \/ /\ cpc[c] = "end" /\ SecondPart(cid[c])
       /\ cpc' = [cpc EXCEPT ![c] = "get"]

\* Mutant: a write that fails is not noticed.
SendUnnoticed(c) ==
    /\ \/ SendPart(c)
       \/ /\ cpc[c] \in {"send", "end"} /\ WriteFails(cid[c])
          /\ cpc' = [cpc EXCEPT ![c] = "get"]
    /\ UNCHANGED <<thrown, hello, cbs, next, greetings, constructor, cid,
                   calls, result, io>>

\* An exception leaves the callback in the table.
Send(c) ==
    /\ \/ SendPart(c) /\ UNCHANGED thrown
       \/ /\ cpc[c] \in {"send", "end"} /\ WriteFails(cid[c])
          /\ cpc' = [cpc EXCEPT ![c] = "idle"]
          /\ thrown' = thrown \cup {cid[c]}
    /\ UNCHANGED <<hello, cbs, next, greetings, constructor, cid, calls,
                   result, io>>

\* future.get()
Get(c) ==
    /\ cpc[c] = "get" /\ result[cid[c]] # "none"
    /\ cpc' = [cpc EXCEPT ![c] = "idle"]
    /\ UNCHANGED <<socket, hello, cbs, next, greetings, constructor, cid,
                   calls, thrown, result, io>>

Caller(c) == Test(c) \/ Refuse(c) \/ Send(c) \/ Get(c)

-----------------------------------------------------------------------------
(* The daemon.                                                             *)

Reply ==
    /\ ~closed /\ out # <<>> /\ Head(out) # 0
    /\ out' = Tail(out)
    /\ in' = Append(in, Head(out))
    /\ UNCHANGED <<conn, half, closed, opens, garbled, hello, cbs, next,
                   greetings, constructor, caller, result, io>>

\* What follows nonsense is nonsense as well or puts the daemon in step again.
\* An answer without an id is nothing to the client, and is left out.
Misread ==
    /\ ~closed /\ Len(out) > 1 /\ Head(out) = 0
    /\ \/ out' = Tail(out) /\ UNCHANGED garbled
       \/ /\ out' = <<0>> \o Tail(Tail(out))
          /\ garbled' = garbled \cup ({out[2]} \ {0})
    /\ UNCHANGED <<conn, in, half, closed, opens, hello, cbs, next,
                   greetings, constructor, caller, result, io>>

\* After MaxOpens connections, a daemon that can be launched stays.
DaemonCloses ==
    /\ conn /\ ~closed
    /\ Reconnects => opens < MaxOpens
    /\ closed' = TRUE
    /\ UNCHANGED <<conn, out, in, half, opens, garbled, hello, cbs, next, greetings,
                   constructor, caller, result, io>>

-----------------------------------------------------------------------------
(* The io thread: the callbacks of the socket.                             *)

\* Mutant: the callback stays in the table.
IoReadKeeps ==
    /\ ipc = "idle" /\ conn /\ in # <<>>
    /\ in' = Tail(in)
    /\ cbs' = cbs
    /\ taken' = {Head(in)} \cap cbs
    /\ outcome' = "reply"
    /\ ipc' = "call"
    /\ UNCHANGED <<conn, out, half, closed, opens, garbled, hello, next,
                   greetings, constructor, caller, result, iid>>

\* handle_data_available(), for one message; get_rpc_cb().  The data may have
\* arrived together with the end of the connection: see IoClose.
IoRead ==
    /\ ipc = "idle" /\ conn /\ in # <<>>
    /\ in' = Tail(in)
    /\ cbs' = cbs \ {Head(in)}
    /\ taken' = {Head(in)} \cap cbs
    /\ outcome' = "reply"
    /\ ipc' = "call"
    /\ UNCHANGED <<conn, out, half, closed, opens, garbled, hello, next,
                   greetings, constructor, caller, result, iid>>

\* The io thread looks for the end of the connection first: replies that
\* have not been read by then are lost.  close() resets the connection.
IoClose ==
    /\ ipc = "idle" /\ conn /\ closed
    /\ conn' = FALSE
    /\ ipc' = "forget"
    /\ UNCHANGED <<out, in, half, closed, opens, garbled, hello, cbs, next,
                   greetings, constructor, caller, result, iid, taken,
                   outcome>>

\* service_client::connection_closed()
IoForget ==
    /\ ipc = "forget"
    /\ hello' = FALSE
    /\ ipc' = "take"
    /\ UNCHANGED <<socket, cbs, next, greetings, constructor, caller, result,
                   iid, taken, outcome>>

\* Mutant: the callbacks are removed without being called.
IoTakeNone ==
    /\ ipc = "take"
    /\ taken' = {} /\ cbs' = {} /\ outcome' = "error"
    /\ ipc' = "callAll"
    /\ UNCHANGED <<socket, hello, next, greetings, constructor, caller, result,
                   iid>>

IoTake ==
    /\ ipc = "take"
    /\ taken' = cbs /\ cbs' = {} /\ outcome' = "error"
    /\ ipc' = "callAll"
    /\ UNCHANGED <<socket, hello, next, greetings, constructor, caller, result,
                   iid>>

\* The callback of .hello does not look at the outcome.
IoCall ==
    /\ ipc \in {"call", "callAll"}
    /\ IF taken = {}
       THEN /\ ipc' = IF ipc = "callAll" /\ Reconnects THEN "reopen"
                      ELSE "idle"
            /\ UNCHANGED <<taken, hello, result>>
       ELSE \E id \in taken :
            /\ taken' = taken \ {id}
            /\ hello' = (hello \/ id \in greetings)
            /\ result' = IF id \in greetings THEN result
                         ELSE [result EXCEPT ![id] = outcome]
            /\ ipc' = ipc
    /\ UNCHANGED <<socket, cbs, next, greetings, constructor, caller, iid,
                   outcome>>

\* launcher->open(), connection_opened()
IoReopen ==
    /\ ipc = "reopen"
    /\ Connect
    /\ ipc' = "add"
    /\ UNCHANGED <<hello, cbs, next, greetings, constructor, caller, result,
                   iid, taken, outcome>>

IoAdd ==
    /\ ipc = "add"
    /\ Register(TRUE)
    /\ iid' = next
    /\ ipc' = "send"
    /\ UNCHANGED <<socket, hello, constructor, caller, result, taken, outcome>>

\* An exception in the io thread ends the process.
IoSend ==
    /\ \/ ipc = "send" /\ FirstPart(iid) /\ ipc' = "end"
       \/ ipc = "end" /\ SecondPart(iid) /\ ipc' = "idle"
       \/ ipc \in {"send", "end"} /\ WriteFails(iid) /\ ipc' = "dead"
    /\ UNCHANGED <<hello, cbs, next, greetings, constructor, caller, result,
                   iid, taken, outcome>>

Io == IoRead \/ IoClose \/ IoForget \/ IoTake \/ IoCall \/ IoReopen \/ IoAdd
        \/ IoSend

-----------------------------------------------------------------------------

Next ==
    \/ Constructor
    \/ \E c \in Callers : Call(c) \/ Caller(c)
    \/ Reply \/ Misread \/ DaemonCloses
    \/ Io

Safety == Init /\ [][Next]_vars

\* Threads keep running, and the daemon answers what it has got; it need not
\* close the connection.
Spec ==
    /\ Safety
    /\ WF_vars(Constructor) /\ WF_vars(Io) /\ WF_vars(Reply \/ Misread)
    /\ \A c \in Callers : WF_vars(Caller(c))

-----------------------------------------------------------------------------
(* Properties.                                                             *)

OnItsWay(id) == conn /\ (closed \/ id \in Elements(out) \cup Elements(in))

(***************************************************************************)
(* Somebody will answer every call that waits: its callback is being called*)
(* or it is in the table, and then the message or its reply is on its way, *)
(* or the end of the connection is about to be noticed or handled          *)
(* (service_client.cpp:19-52, base_service_client_impl.h:21-25).  What     *)
(* makes this true is the order in which a call registers, looks at hello  *)
(* and sends, and connection_closed() disconnects, forgets hello and takes *)
(* the table.  Nobody answers a call whose message the daemon has not got  *)
(* as it was written: another thread has written between its two parts     *)
(* (encoding_json.cpp:40-41, encoding_json_cbor.cpp:26-27), or one that was*)
(* cut short by a full socket precedes it (unix_connection.cpp:16-18).     *)
(***************************************************************************)
SomebodyAnswers ==
    \A c \in Callers :
        cpc[c] = "get" /\ result[cid[c]] = "none" =>
            \/ cid[c] \in taken
            \/ /\ cid[c] \in cbs
               /\ \/ OnItsWay(cid[c]) \/ ipc \in {"forget", "take"}
                  \/ cid[c] \in garbled

(***************************************************************************)
(* A callback is called once, by the reply, the end of the connection or   *)
(* the caller that is refused: a promise that is set twice throws in the io*)
(* thread (service_client.cpp:19-52, rpc_json_call.cpp:20-27).             *)
(***************************************************************************)
CalledOnce ==
    [][\A id \in Ids : result[id] # "none" => result'[id] = result[id]]_vars

(***************************************************************************)
(* A call returns, with a reply, an error or an exception, also when the   *)
(* daemon goes away at any moment, unless its message did not reach the    *)
(* daemon as it was written: then it waits as long as the connection is    *)
(* open, and so does the constructor if its second .hello is such a        *)
(* message.  Otherwise the constructor returns although it may miss the    *)
(* reply to its .hello when the daemon closes the connection just after it:*)
(* a client that can reconnect says hello again (rpc_json_call.cpp:20-27;  *)
(* service_client.cpp:19-92; launchable_service_client.h:36-41).           *)
(***************************************************************************)
CallReturns ==
    /\ \A c \in Callers :
          cpc[c] # "idle" ~>
              cpc[c] = "idle" \/ ipc = "dead" \/ cid[c] \in garbled
    /\ opc = "wait" ~> opc = "ready" \/ ipc = "dead" \/ iid \in garbled

(***************************************************************************)
(* The header says of a synchronous call: "Executes this call              *)
(* synchronically, returning the result." (rpc_json_call.h:24-27.)  So the *)
(* promise on its stack is there when the callback is called.              *)
(***************************************************************************)
PromiseIsThere == ipc \in {"call", "callAll"} => taken \cap thrown = {}
=============================================================================
