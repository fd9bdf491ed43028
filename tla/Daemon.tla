------------------------------- MODULE Daemon -------------------------------
(***************************************************************************)
(* Launchers find, start and leave a daemon: daemon_launcher::open() in the*)
(* main thread of a launcher and, after the end of a connection, in its io *)
(* thread; unix_service_impl and auto_shutdown_service with the policy     *)
(* no_connections in the daemons; and the file of the socket, which they   *)
(* share.  (daemon-utils/, simple-ipc/src/unix/, the Linux side.)          *)
(*                                                                         *)
(* What is said on a connection is left out (ServiceClient, Connection):   *)
(* of .hello only whether it can be written, which throws at the end of    *)
(* the connection.  As nothing blocks SIGCHLD, the signalfd that open()    *)
(* adds is never readable and has no action.  One step is taken for        *)
(* socket() and connect(): a thread does not see the other's socket while  *)
(* that one is connecting.                                                 *)
(***************************************************************************)
EXTENDS Integers, FiniteSets, Sequences

CONSTANTS
    Clients,        \* the launchers
    MaxDaemons,     \* bound: daemons started; after that fork() fails
    MaxEnters       \* bound: launchers started

ASSUME BoundsAssumption ==
    IsFiniteSet(Clients) /\ MaxDaemons \in Nat /\ MaxEnters \in Nat

Daemons == 1..MaxDaemons
none == 0
stale == MaxDaemons + 1     \* a daemon that was killed and has left its file
Threads == {"main", "io"}

VARIABLES
    path,           \* the daemon whose socket the file is, or none
    proc,           \* the launchers
    dpc,            \* where the main thread of each daemon is
    queue,          \* the connections that it has not accepted
    pending,        \* whether epoll has an event for the listening socket
    served,         \* unix_service_impl::connections
    count,          \* auto_shutdown_service::connections
    stop,           \* requested_shutdown
    uncounted,      \* history: accepted less forgotten without being counted
    enters

server == <<queue, pending, served, count, stop, uncounted>>
vars == <<path, proc, dpc, server, enters>>

\* A launcher that is not running.  at: where its threads are; try: which of
\* the three calls of impl.open() comes next; fd, registered: the socket, and
\* whether the io handler has it; created: IN_CREATE events that have not been
\* read, where 2 stands for more than one; promise: whether stop_promise has
\* its value; late: whether it found others in the queue when it connected.
Off == [at |-> [w \in Threads |-> IF w = "main" THEN "off" ELSE "idle"],
        try |-> [w \in Threads |-> 1], fd |-> none, registered |-> FALSE,
        created |-> 0, promise |-> FALSE, late |-> FALSE]

Opening == {"stat", "connect", "register", "hello", "watch", "start", "wait"}
Listening == {"add", "construct", "run", "close"}

Process ==
    [at : [Threads -> Opening \cup {"off", "idle", "ready", "failed"}],
     try : [Threads -> 1..3], fd : Daemons \cup {none}, registered : BOOLEAN,
     created : 0..2, promise : BOOLEAN, late : BOOLEAN]

TypeOK ==
    /\ path \in Daemons \cup {none, stale}
    /\ proc \in [Clients -> Process]
    /\ dpc \in [Daemons -> Listening \cup {"none", "unlink", "bind", "listen",
                                           "clean", "exit", "gone"}]
    /\ queue \in [Daemons -> Seq(Clients)]
    /\ {pending, stop} \subseteq [Daemons -> BOOLEAN]
    /\ served \in [Daemons -> SUBSET Clients]
    /\ {count, uncounted} \subseteq [Daemons -> Int]
    /\ enters \in 0..MaxEnters

Init ==
    /\ path \in {none, stale}
    /\ dpc = [d \in Daemons |-> "none"]
    /\ proc = [c \in Clients |-> Off]
    /\ queue = [d \in Daemons |-> <<>>]
    /\ pending = [d \in Daemons |-> FALSE]
    /\ served = [d \in Daemons |-> {}]
    /\ count = [d \in Daemons |-> 0]
    /\ stop = [d \in Daemons |-> FALSE]
    /\ uncounted = [d \in Daemons |-> 0]
    /\ enters = 0

Listens(d) == d \in Daemons /\ dpc[d] \in Listening

Waiting(d) == {queue[d][i] : i \in DOMAIN queue[d]}

\* The daemon has closed the connection of c.
Cut(c) ==
    LET d == proc[c].fd IN d # none /\ c \notin Waiting(d) \cup served[d]

\* Callbacks are called with the mutex of the io handler held, which
\* add_socket() and remove_socket() take.
MayLock(c, w) == w = "main" => proc[c].at["io"] = "idle"

-----------------------------------------------------------------------------
(* daemon_launcher::open(), in thread w of launcher c.                     *)

At(p, w, l) == [p EXCEPT !.at[w] = l]

\* open() is done, and with it the watch, the promise and what it has seen.
Done(p, w, l) ==
    LET q == [At(p, w, l) EXCEPT !.try[w] = 1] IN
    IF w = "main" THEN [q EXCEPT !.created = 0, !.promise = FALSE] ELSE q

Opened(p, w) == Done(p, w, IF w = "main" THEN "ready" ELSE "idle")

\* impl.open() throws.  The first two times that is caught; the third time it
\* is the constructor that throws, or the io thread, which ends the process.
Thrown(p, w) ==
    IF p.try[w] < 3 THEN At(p, w, IF p.try[w] = 1 THEN "watch" ELSE "start")
    ELSE IF w = "main" THEN Done(p, w, "failed") ELSE Off

\* What thread w does when it is at l.
Step(c, w, l, p) ==
    /\ proc[c].at[w] = l
    /\ proc' = [proc EXCEPT ![c] = p]

Stat(c, w) ==
    LET p == proc[c] IN
    /\ Step(c, w, "stat", At(p, w, IF path # none THEN "connect"
                                   ELSE IF p.try[w] = 1 THEN "watch"
                                   ELSE "start"))
    /\ UNCHANGED <<path, dpc, server, enters>>

\* unix_service_client_impl::open(), which wants fd to be -1.
Connects(c, w) ==
    LET p == proc[c] IN
    /\ p.fd = none /\ Listens(path)
    /\ Step(c, w, "connect", [At(p, w, "register") EXCEPT
                                !.fd = path, !.late = queue[path] # <<>>])
    /\ queue' = [queue EXCEPT ![path] = Append(@, c)]
    /\ pending' = [pending EXCEPT ![path] = dpc[path] # "add"]
    /\ UNCHANGED <<path, dpc, served, count, stop, uncounted, enters>>

Refused(c, w) ==
    LET p == proc[c] IN
    /\ ~(p.fd = none /\ Listens(path))
    /\ Step(c, w, "connect", Thrown(p, w))
    /\ UNCHANGED <<path, dpc, server, enters>>

\* connection->register_io_handler()
Register(c, w) ==
    /\ MayLock(c, w)
    /\ Step(c, w, "register",
            [At(proc[c], w, "hello") EXCEPT !.registered = TRUE])
    /\ UNCHANGED <<path, dpc, server, enters>>

\* connection_opened(): on whatever connection there is by now.
Hello(c, w) ==
    LET p == proc[c] IN
    /\ Step(c, w, "hello", IF p.fd # none /\ ~Cut(c) THEN Opened(p, w)
                           ELSE Thrown(p, w))
    /\ UNCHANGED <<path, dpc, server, enters>>

\* inotify_add_watch().  The events of the io thread's own watch are never
\* read: it is the io thread itself that waits.
Watch(c, w) ==
    /\ Step(c, w, "watch", [At(proc[c], w, "stat") EXCEPT !.try[w] = 2])
    /\ UNCHANGED <<path, dpc, server, enters>>

Watching(p) == p.try["main"] = 2 /\ p.at["main"] \in Opening

\* start(); the promise and the add_socket() calls that follow belong to "wait".
Start(c, w) ==
    /\ Step(c, w, "start", At(proc[c], w, "wait"))
    /\ \E d \in Daemons :
        /\ dpc[d] = "none" /\ \A e \in 1..d - 1 : dpc[e] # "none"
        /\ dpc' = [dpc EXCEPT ![d] = "unlink"]
    /\ UNCHANGED <<path, server, enters>>

StartFails(c, w) ==
    /\ \A d \in Daemons : dpc[d] # "none"
    /\ Step(c, w, "start", Thrown([proc[c] EXCEPT !.try[w] = 3], w))
    /\ UNCHANGED <<path, dpc, server, enters>>

\* Mutant: open() waits until the promise has its value.
WaitForEver(c, w) ==
    /\ MayLock(c, w)
    /\ w = "main" /\ proc[c].promise
    /\ Step(c, w, "wait", [At(proc[c], w, "connect") EXCEPT !.try[w] = 3])
    /\ UNCHANGED <<path, dpc, server, enters>>

\* wait_for() returns, for the promise or after ten seconds, and the sockets
\* are removed.
Waited(c, w) ==
    /\ MayLock(c, w)
    /\ Step(c, w, "wait",
            [Done(proc[c], w, "connect") EXCEPT !.try[w] = 3])
    /\ UNCHANGED <<path, dpc, server, enters>>

Open(c, w) ==
    \/ Stat(c, w) \/ Connects(c, w) \/ Refused(c, w) \/ Register(c, w)
    \/ Hello(c, w) \/ Watch(c, w) \/ Start(c, w) \/ StartFails(c, w)
    \/ Waited(c, w)

-----------------------------------------------------------------------------
(* The callbacks that the io thread of a launcher calls.                   *)

\* The callback of inotify: a value that is set twice is an exception in the
\* io thread, which ends the process.
Notified(c) ==
    LET p == proc[c] IN
    /\ p.at["main"] = "wait" /\ p.created > 0
    /\ Step(c, "io", "idle", IF p.promise \/ p.created > 1 THEN Off
                             ELSE [p EXCEPT !.promise = TRUE, !.created = 0])
    /\ UNCHANGED <<path, dpc, server, enters>>

\* base_service_client_impl::connection_closed(): close(), then
\* launchable_service_client::connection_closed().  A client whose constructor
\* has thrown is no more.
Closed(c) ==
    LET p == proc[c] IN
    /\ p.registered /\ Cut(c) /\ p.at["main"] # "failed"
    /\ Step(c, "io", "idle",
            [At(p, "io", "stat") EXCEPT
                !.fd = none, !.registered = FALSE, !.try["io"] = 1])
    /\ UNCHANGED <<path, dpc, server, enters>>

-----------------------------------------------------------------------------
(* The processes of the launchers.                                         *)

\* A launcher is started again when its former connections are forgotten.
Enter(c) ==
    /\ \A d \in Daemons : c \notin Waiting(d) \cup served[d]
    /\ Step(c, "main", "off", At(Off, "main", "stat"))
    /\ enters < MaxEnters /\ enters' = enters + 1
    /\ UNCHANGED <<path, dpc, server>>

\* The process ends.  ~launchable_service_client() waits for the io thread.
Leave(c) ==
    /\ proc[c].at["main"] \in {"ready", "failed"} /\ proc[c].at["io"] = "idle"
    /\ proc' = [proc EXCEPT ![c] = Off]
    /\ UNCHANGED <<path, dpc, server, enters>>

-----------------------------------------------------------------------------
(* The main thread of a daemon: unix_service_impl::bind(), the constructor *)
(* of auto_shutdown_service, run(), the destructors.                       *)

DaemonStep(d, from, to) == dpc[d] = from /\ dpc' = [dpc EXCEPT ![d] = to]

Unlink(d) ==
    /\ DaemonStep(d, "unlink", "bind")
    /\ path' = none
    /\ UNCHANGED <<proc, server, enters>>

\* The launchers that watch the directory see the file.
Bind(d) ==
    /\ path = none
    /\ DaemonStep(d, "bind", "listen")
    /\ path' = d
    /\ proc' = [c \in Clients |->
                 IF Watching(proc[c])
                 THEN [proc[c] EXCEPT !.created = IF @ = 0 THEN 1 ELSE 2]
                 ELSE proc[c]]
    /\ UNCHANGED <<server, enters>>

\* Another daemon was faster: close() unlinks its file.
BindFails(d) ==
    /\ path # none
    /\ DaemonStep(d, "bind", "clean")
    /\ UNCHANGED <<path, proc, server, enters>>

Listen(d) ==
    /\ DaemonStep(d, "listen", "add")
    /\ UNCHANGED <<path, proc, server, enters>>

\* Mutant: connections that are there already are not reported.
AddSocketNoEvent(d) ==
    /\ DaemonStep(d, "add", "construct")
    /\ UNCHANGED <<path, proc, server, enters>>

\* io_handler::add_socket(): edge-triggered, but EPOLL_CTL_ADD looks whether
\* there is a connection already.
AddSocket(d) ==
    /\ DaemonStep(d, "add", "construct")
    /\ pending' = [pending EXCEPT ![d] = queue[d] # <<>>]
    /\ UNCHANGED <<path, proc, queue, served, count, stop, uncounted, enters>>

\* Only now the callbacks are auto_shutdown_service's and connections is 0: what
\* the io thread has done to it between the two is lost.
Constructed(d) ==
    /\ DaemonStep(d, "construct", "run")
    /\ UNCHANGED <<path, proc, server, enters>>

\* run() returns, and the destructor comes to ~service().
RunReturns(d) ==
    /\ stop[d]
    /\ DaemonStep(d, "run", "close")
    /\ UNCHANGED <<path, proc, server, enters>>

\* unix_service_impl::close()
Close(d) ==
    /\ DaemonStep(d, "close", "clean")
    /\ queue' = [queue EXCEPT ![d] = <<>>]
    /\ pending' = [pending EXCEPT ![d] = FALSE]
    /\ UNCHANGED <<path, proc, served, count, stop, uncounted, enters>>

\* close() unlinks the path, whoever's it is.
UnlinkAgain(d) ==
    /\ DaemonStep(d, "clean", "exit")
    /\ path' = none
    /\ UNCHANGED <<proc, server, enters>>

Ends(d) ==
    /\ dpc' = [dpc EXCEPT ![d] = "gone"]
    /\ served' = [served EXCEPT ![d] = {}]
    /\ queue' = [queue EXCEPT ![d] = <<>>]
    /\ pending' = [pending EXCEPT ![d] = FALSE]
    /\ count' = [count EXCEPT ![d] = 0]
    /\ stop' = [stop EXCEPT ![d] = FALSE]
    /\ uncounted' = [uncounted EXCEPT ![d] = 0]
    /\ UNCHANGED <<path, proc, enters>>

\* There is nothing to execute, or execv() fails.
ExecFails(d) == dpc[d] = "unlink" /\ Ends(d)

Exit(d) == dpc[d] = "exit" /\ Ends(d)

DaemonMain(d) ==
    \/ Unlink(d) \/ Bind(d) \/ BindFails(d) \/ Listen(d) \/ AddSocket(d)
    \/ Constructed(d) \/ RunReturns(d) \/ Close(d) \/ UnlinkAgain(d) \/ Exit(d)

-----------------------------------------------------------------------------
(* The io thread of a daemon.                                              *)

\* Whether on_client_connected() and on_client_disconnected() are those of
\* auto_shutdown_service: until its constructor and after its destructor they
\* are those of service, which do nothing.
Counts(d) == dpc[d] = "run"

\* handle_incoming(): one event, one accept().
HandleIncoming(d) ==
    /\ pending[d]
    /\ pending' = [pending EXCEPT ![d] = FALSE]
    /\ queue' = [queue EXCEPT ![d] = Tail(@)]
    /\ served' = [served EXCEPT ![d] = @ \cup {Head(queue[d])}]
    /\ IF Counts(d)
       THEN /\ count' = [count EXCEPT ![d] = @ + 1]
            /\ UNCHANGED uncounted
       ELSE /\ uncounted' = [uncounted EXCEPT ![d] = @ + 1]
            /\ UNCHANGED count
    /\ UNCHANGED <<path, proc, dpc, stop, enters>>

\* The process of c has ended.
HasLeft(d, c) == c \in served[d] /\ proc[c].fd # d

Forget(d, c) ==
    /\ HasLeft(d, c)
    /\ served' = [served EXCEPT ![d] = @ \ {c}]
    /\ IF Counts(d)
       THEN /\ count' = [count EXCEPT ![d] = @ - 1]
            /\ UNCHANGED uncounted
       ELSE /\ uncounted' = [uncounted EXCEPT ![d] = @ - 1]
            /\ UNCHANGED count
    /\ UNCHANGED <<path, proc, dpc, queue, pending, enters>>

\* Mutant: any client that leaves makes the daemon stop.
ConnectionClosedStops(d, c) ==
    Forget(d, c) /\ stop' = [stop EXCEPT ![d] = @ \/ Counts(d)]

\* Mutant: the count is looked at before it is decremented.
ConnectionClosedLater(d, c) ==
    Forget(d, c) /\ stop' = [stop EXCEPT ![d] = @ \/ (Counts(d) /\ count[d] = 0)]

\* connection_closed(), on_client_disconnected(), request_stop()
ConnectionClosed(d, c) ==
    Forget(d, c) /\ stop' = [stop EXCEPT ![d] = @ \/ (Counts(d) /\ count'[d] = 0)]

DaemonIo(d) ==
    HandleIncoming(d) \/ \E c \in Clients : ConnectionClosed(d, c)

-----------------------------------------------------------------------------

ClientIo(c) == Open(c, "io") \/ Notified(c) \/ Closed(c)

Next ==
    \/ \E c \in Clients :
        Open(c, "main") \/ ClientIo(c) \/ Enter(c) \/ Leave(c)
    \/ \E d \in Daemons : DaemonMain(d) \/ DaemonIo(d) \/ ExecFails(d)

Safety == Init /\ [][Next]_vars

\* Processes keep running, whichever of their threads it is, and ten seconds
\* pass; nobody has to enter or leave.
Spec ==
    /\ Safety
    /\ \A c \in Clients : WF_vars(Open(c, "main") \/ ClientIo(c))
    /\ \A d \in Daemons : WF_vars(DaemonMain(d) \/ DaemonIo(d))

-----------------------------------------------------------------------------
(* Properties.                                                             *)

(***************************************************************************)
(* Every open() ends, connected, with an exception or with its process,    *)
(* whatever other launchers and daemons do to the file and although a child*)
(* that ends is not noticed; also the one in the io thread, which holds the*)
(* mutex that the main thread may be waiting for and can be told nothing   *)
(* while it waits (daemon_launcher.cpp:48-194,                             *)
(* launchable_service_client.h:36-41).                                     *)
(***************************************************************************)
OpenEnds ==
    \A c \in Clients :
        (\E w \in Threads : proc[c].at[w] \in Opening)
            ~> \A w \in Threads : proc[c].at[w] \notin Opening

InQueue(c) == \E d \in Daemons : proc[c].fd = d /\ c \in Waiting(d)

(***************************************************************************)
(* A client that finds nobody before it in the queue of a daemon is        *)
(* accepted or learns that the daemon has gone.  (One that is behind       *)
(* another may be left in the queue: two connections can be one event, and *)
(* one event is one accept(): epoll_io_handler.cpp:47-79,                  *)
(* unix_service_impl.cpp:16-73.)                                           *)
(***************************************************************************)
AcceptedOrCut ==
    \A c \in Clients : InQueue(c) /\ ~proc[c].late ~> ~InQueue(c)

(***************************************************************************)
(* When a daemon decides to stop nobody is connected, but for as many      *)
(* clients as were accepted before the constructor of auto_shutdown_service*)
(* was done and were still there then: on_client_connected() of its base   *)
(* class does not count them, and when they leave they are counted down.   *)
(* One that leaves before is not counted at all (service.h:21-31,          *)
(* auto_shutdown_service.h:18, 30, 36-44; unix_service_impl.cpp:58-82).    *)
(***************************************************************************)
StopsWhenIdle ==
    [][\A d \in Daemons :
        stop'[d] /\ ~stop[d] => Cardinality(served'[d]) = uncounted[d]]_vars

(***************************************************************************)
(* When the process of its last client has ended, a daemon that has counted*)
(* those it has gets another one or stops (auto_shutdown_service.h:36-44,  *)
(* auto_shutdown_service.cpp:5-15; unix_service_impl.cpp:44-82).           *)
(***************************************************************************)
StopsAfterLast ==
    \A d \in Daemons :
        served[d] # {} /\ uncounted[d] = 0
            ~> \/ dpc[d] = "gone"
               \/ \E c \in served[d] : ~HasLeft(d, c)
=============================================================================
