# A verification of mceelauncher in TLA+

mceelauncher runs the Android build of Minecraft Education on Linux and macOS. It loads the
game's libraries with a linker of its own, gives them a C library (`libc-shim`), a Java world
(`libjnivm` and the classes in `mcpelauncher-client/src/jni`), a window and an event loop, lets
mods hook functions of the game (`mcpelauncher-core`), sends telemetry (`cll-telemetry`) and talks
to a sign-in daemon over a socket (`simple-ipc`, `daemon-utils`, `msa-daemon-client`).

Most of the 8400 files are vendored (imgui, sdl3, bionic's linker, libjnivm), are headers, or are
glue that has no state between two calls. What can go wrong in a way that a test would hardly
reach is in a few hundred lines: threads that are started and stopped, files that must survive a
crash, a queue between two upload tasks, a table of callbacks, a receive buffer that is cut
anywhere, processes that start and stop a daemon at the same time, chains of function pointers,
locks that are created by whoever needs them first. This directory models those.

`PROJECT.json` lists the components, the runs, the theorems, the map from definitions to lines of
source, and the hazards with the properties that cover them.

## 1. Inventory

| Component | State it keeps | Operations | What is hard | Modelled in |
|---|---|---|---|---|
| `TaskWithDelayThread` (cll-telemetry) | flags, a `std::thread`, a mutex, a condition variable | `requestRun`, `sleep`, `terminate`, the loop | a request against a worker that leaves; join under the mutex | `TaskWithDelay`, `DelayedTask` |
| `FileEventBatch`, `MultiFileEventBatch` | files, their sizes and offsets, the oldest and the newest batch | add, get a list, remove a list, change the limits | crashes, partial writes, a role that changes while a list is posted | `EventFile`, `EventStore`, `EventQueue` |
| `EventUploader` | - | `sendEvents` | an answer that comes late; what to do when nothing can be read | in `EventStore`, `EventManager` |
| `MemoryEventBatch`, `BufferedEventBatch` | a vector in front of files | add, get, remove, flush | a flush while a list is posted | `BufferedBatch` |
| `EventManager` | three batches, two tasks | `add`, two upload tasks, `start`, the destructor | all of them at once | `EventManager` |
| configuration (cll-telemetry) | limits, expiry, retry time | download, cache | stale limits, back-off | not modelled; the limits it changes are in `EventStore` |
| serializer, compressor, HTTP | `seqNum` | - | a data race on a counter | not modelled |
| connection, encodings, io handler (simple-ipc) | receive buffer, encoding, epoll's event | write, read, cut, dispatch, change the encoding | partial reads and writes, edge-triggered events, two writers | `Encoding`, `Connection` |
| `service_client` (simple-ipc) | table of callbacks, hello flag, connection | calls, replies, close, reopen | callers against the io thread | `ServiceClient` |
| simple-ipc server, `auto_shutdown_service` | listening socket, connections, a counter, a flag | bind, accept, forget, stop, close | a client that comes while the daemon starts or stops | `Daemon` |
| `daemon_launcher` | watch, promise, child | look, watch, start, wait, open; again after a disconnect | two launchers at once, events against the timeout | `Daemon` |
| rpc handlers | - | invoke, reply | a reply that is sent twice or never | hazards only |
| `HookManager` (mcpelauncher-core) | libraries, a list of hooks for each symbol, original pointers | add and remove libraries, create and delete hooks, apply | pointers of a chain that is changed in the middle | `Hooks` |
| pthread objects (libc-shim) | a pointer inside bionic's object | lazy creation, once | races for the first use | `PthreadLazy`, `PthreadOnce` |
| the rest of libc-shim | - | translation of arguments | - | not modelled: no state |
| `JniSupport`, `ThreadMover`, `main` | exit flags, a promise | start and stop the game | exit handshake of three threads | not modelled |
| looper, input queue, window callbacks | queues of input | poll, finish | order and repetition of input | not modelled |
| text input | text, cursor in bytes and in characters | keys | the two cursors drift apart | not modelled |
| gamepads | ids | take, give back | an id given twice | not modelled |
| everything else | | | | not modelled: vendored, drawing, patches, parsing, I/O |

**Interaction.** `EventManager` owns the batches and two `TaskWithDelayThread`s and is called by
any thread; the tasks call `EventUploader::sendEvents` with a batch; a buffered batch wraps a
multi-file batch, which owns files. A `service_client` is shared by the calling threads and by the
one io thread of the process, which calls back into it with a lock of its own held;
`launchable_service_client` reconnects from there, through a `daemon_launcher` that may start the
daemon. Launchers and daemons share the directory and the file of the socket, and nothing else.
The game's threads call into libc-shim; mods call the `HookManager` while they are loaded.

**What makes each of them correct.** The task: a run for every request, never two at once, nothing
after `terminate()`. The files: an accepted event is in a file or confirmed, in order, whole. The
manager: no event lost or confirmed twice, all saved at the end. The connection: messages arrive
whole and in order wherever the reads cut them. The client: every call ends, with one answer. The
daemon: who connects is accepted or cut off, and the daemon stops when, and only when, it has no
client. The hooks: a call runs every hook and then the original, which comes back in the end. The
pthread objects: one host mutex for one bionic mutex, one execution of a once routine, no leak.

## 2. Modules

Each module has its state as `VARIABLES`, one action for each atomic step of the code, and its
properties at the end, each with the lines it is about. Actions and helpers whose comment begins
with *Mutant* are plausible bugs: they are part of no next-state relation, and are there to show
that each property can fail.

### `TaskWithDelay`, `DelayedTask` - cll-telemetry/src/task_with_delay_thread.cpp

A worker is in one of the places of `doThreadLoop()`: before the predicate, in `wait_for()`, woken
up, in the task, in `sleep()`, about to lock again, about to return. `mutex` has a holder only
where the code keeps it across something another thread can see: a caller of `requestRun()` that
joins the old thread (lines 50-52). Everything else under the mutex is one action. Setting the
flags and `notify_all()` are two actions, and a notification reaches who is waiting at that
moment, which is what makes a lost wake-up possible in principle. `TerminateSet`,
`TerminateNotify` and `TerminateJoin` are the three parts of `terminate()`. Its caller is
the only one left by then, as its header demands. `EventManager` does not keep to that when it is
destroyed (event_manager.cpp:41-44 and 103); what its two tasks do to each other then is in the
module of that name, with tasks as `DelayedTask` has them, and what a join of one `std::thread` from
two threads does is not in any.

`DelayedTask` is what a user of the object believes in: *pending*, *executing*, *closed*.
`TaskWithDelay` implements it with `pending <- hasPendingTask`, `executing <- ` some worker is in
the task, `closed <- ` `terminate()` has returned.

### `EventFile`, `EventStore`, `EventQueue` - file_event_batch.cpp, multi_file_event_batch.cpp, event_uploader.cpp

A file is a sequence of units; an event is a line of one or more units and has its end at the last
one, so that half an event, a gap and a line that begins in the middle are all possible.
`EventFile` has the methods of `FileEventBatch` as operators on a batch (what the object believes:
`fileSize`, `eventCount`, `streamAtEnd`, the offset) and a file (what is there). `EventStore` has
the batch pointers, one action per method of `MultiFileEventBatch` (each holds
`batchPointerMutex` from beginning to end) and `sendEvents()` cut where it releases it. A crash
may come between any two steps, and within a write after any unit; the constructor then runs on
what is in the files. `ftruncate()` is atomic, and the order of writes is that of the calls: this
is a crash of the process, not of the machine.

`onEventsUploaded()` removes a list by copying what is behind it to the beginning of the same file,
in chunks of `CopyChunk`, each of which takes as many calls of `write()` as it needs. `CrashInShift`
stops it after any unit. The copy of an event that is longer than the list overlaps the event
itself, so when the crash falls into it, it is in neither place: `cut` is the history variable that
names it, one event for each such crash. With `WriteErrors`, a write of `addEvent()` may fail after
any unit, which leaves the offset behind the end of the file, and so may any write of the copy
(`CopyFails`): that one gives up its chunk, goes on with the next and cuts the file behind what it
has written, so that accepted events are gone. `torn` remembers that a copy was left unfinished, by
a crash or by a write that failed.

`EventQueue` is what those who add and who upload believe in: a queue of events that survives a
crash. An event that is accepted becomes its last one; a list is some events at its front, in the
order in which they were added; confirming them leaves the queue alone, and removing them takes out
exactly them. `EventStore` implements it with `pending <- ` the events that are lines of a file and
`taken <- ` the events of the list. The promise ends (`Tear`) when a copy is left unfinished.
`BufferedBatch` and `EventManager` build on this queue: `disk` is a sequence of events there.

### `BufferedBatch`, `EventManager` - memory_event_batch.cpp, buffered_event_batch.cpp, event_manager.cpp

Here the files are what `EventQueue` promises, events fit the limits, and writes succeed: where the
code logs that an event could not be stored and loses it (event_manager.cpp:98-101 and 126-127,
buffered_event_batch.cpp:64-65), these modules have no step, and `EventStore` has those of the file.
`EventManager` cuts `add()`, `uploadTasks()` and `uploadRealtimeTasks()` at each call of a method
that locks. The two task threads are as `DelayedTask` has them: wanted, or executed. The delay and
the back-off are left out: a run may start, and a post may be repeated, at any time. `overtaken` is
a history variable that becomes true when the buffer is flushed while a list from it is posted;
`ManagerRemoves` shows what happens then, and the other properties say what holds as long as it has
not.

### `Encoding`, `Connection` - simple-ipc/src/common, unix_connection.cpp, epoll_io_handler.cpp

`Encoding` has the two encodings as operators on sequences of bytes, with bytes as small numbers:
`json` ends a message with a newline, `json_cbor` puts its length, in a base that is a constant, in
front of it. What is read need not have been written as a length: a stream that is out of step has
numbers of any bytes. `Digits` is how many digits the shifts of an `int` hold; what more digits make
is undefined and is the constant function `Overflown`, of which nothing is assumed but that a build
always does the same. The sum of a length and its own size is taken modulo `SizeValues`. It may wrap
to a total within the length, or to 0: `check_read_message_complete()` then says 0 and not -1, and
the loop of `handle_data_available()` reads an empty message again and again, which is the place
`endless` of the io thread. `Connection` is the direction from the client to the server. `stream` is
all that was ever written to the socket and `taken` how much of it was read. A message is written in
two parts (`First`, `Second`), by callers that nothing keeps from overlapping; a write that the
socket has no room for is cut short and throws. `ready` is epoll's edge-triggered event. The io
thread reads as much as fits, handles every complete message, and reads again until there is
nothing; `Read` has the three cases of a full buffer: it grows, the unread bytes are moved to its
start, or it is at its limit. The move is a `memcpy()` on ranges that may overlap, so both orders of
copying are there and `scrambled` remembers that the wrong one was taken. `orderly` remembers that
calls did not overlap, that none came before the reply to `.hello`, and that no write was cut short.
`.hello` makes the server change its encoding within a buffer, and the client when it gets the
reply, which is always in `json`. The connection stays open here, so the branch of epoll's loop that
looks for its end (epoll_io_handler.cpp:73-75) is not taken: it is in `ServiceClient`. The other
direction is the same code, with the roles exchanged.

### `ServiceClient` - simple-ipc/src/client, src/unix, launchable_service_client.h

Callers register, test the hello flag, send and wait; the io thread reads, or sees the end of the
connection first, and then closes, forgets the hello, takes the table, calls what it has taken,
reopens and greets. Each lock region is one action. A message is its id, and its two parts are two
steps, between which another thread may write: `half` is the message of which only the first part is
there. A part may be cut short by a full socket, on a connection that stays open, and then throws
with what was taken still sent. Out of either comes a 0 on the way to the daemon, what it cannot
read, which may swallow messages behind it (`Misread`); `garbled` are the messages that do not reach
it as they were written. The daemon answers what it can read, in order, and may close at any time;
after `MaxOpens` connections it stays. Writing to a connection whose other end is closed throws. Not
in the model: a daemon that never answers, a launch that fails (`Daemon`), the client's destructor.

### `Daemon` - daemon-utils, simple-ipc/src/unix

Some launchers, some daemons, and `path`, the one file of the socket, which may be left from a
daemon that was killed. Each launcher has a main thread, which opens and later leaves, and an io
thread, which opens again when a connection ends. `open()` is cut at every call that another process
can see: `stat()`, `connect()`, the registration with the io handler, the greeting, the watch on the
directory, `fork()`, the wait. `try` says which of its three attempts to connect comes next.
Callbacks run with the mutex of the io handler held, which is what `MayLock` is about. A daemon's
main thread unlinks the path, binds, listens, adds the socket to epoll, constructs the
`auto_shutdown_service`, runs, closes and unlinks again; its io thread accepts one connection for
each event, and forgets it when the process of the client has ended. It counts both while the
callbacks are those of `auto_shutdown_service` (`Counts`): before the end of its constructor and
after the beginning of its destructor they are those of the base class, which do nothing.
`uncounted` is a history variable, the clients that came less those that left without being counted.
As nothing blocks `SIGCHLD`, the descriptor that should report the end of the child is never
readable, and has no action. `socket()` and `connect()` are one step. Not in the model: what is said
after the greeting, a client that closes its connection without ending, the kqueue side.

### `Hooks` - mcpelauncher-core/src/hook.cpp

One symbol, which several libraries may define, so that there may be a list of hooks for each of
them. A slot is a relocation; `Resolved` is what the linker put there. The actions are the public
functions of `HookManager`; there is no lock, so they are called by one thread. A list, a
`HookedSymbol`, is found by the address of a `LibInfo` and an index, and is never erased. A library
that is removed and added again gets a new `LibInfo` at any address that is free: at a new one it
gets a new list, which may take a hook of the old one for the original; at an old one it finds the
list that was there, whose symbol is not entered again, so that its slots are not found. `chain` is a
history variable, the hooks that exist in the order of their creation, which the pointers are
compared with; `dirty` tells that something has changed since `applyHooks()`, `gone` which libraries
have been removed, and `late` which hooks were created for a symbol that had once lost all its hooks.
`Low` is what is left of an address that is read as an `ElfW(Word)`, 32 bits also in a 64-bit build.
What a call ends at is said for one list whose addresses fit into a word (`OneList`); the links
between hooks are said for all. A symbol is entered under -1 for libraries that need its library
without defining the symbol, so their slots are not found.

### `PthreadLazy`, `PthreadOnce` - libc-shim/src/pthreads.cpp, pthreads.h

`PthreadLazy` is one bionic mutex: its payload, the host mutexes that are allocated, and threads
in `to_host()`: load, create, exchange, and use the winner or the own candidate. The host mutex
itself is external. `MutexDestroy` is allowed when nobody uses the mutex, as POSIX wants it, and
the mutex is then initialized or used again. `PthreadOnce` is `pthread_once()` with its exchange,
routine, store and spin. Atomics are sequentially consistent in both.

## 3. Runs

| Run | Bounds | What it shows |
|---|---|---|
| `Task` | 2 callers, 2 worker identities, 3 requests, 1 sleep | never two workers, no lost request or wake-up, no deadlock in the join, `terminate()` returns and leaves nothing, `DelayedTask` is implemented |
| `Lazy` | 3 threads, 4 addresses | exclusion, no use after free, no leak, no retry |
| `Once` | 4 threads | one execution, nobody returns before its end, nobody spins for ever |
| `Store` | 4 events of 1 to 3 units, files of 2 events or 3 units, 2 crashes | nothing lost but what a crash in the copy cuts through, order, true bookkeeping, `EventQueue` is implemented, the store drains |
| `StoreFaults` | 4 events of 1 or 3 units (3 is too long for one of the limits), copies in chunks of 2, writes that fail anywhere, limits that change once, 1 crash | what was stored before an `addEvent()` that failed survives it, until a copy is left unfinished |
| `Manager` | 1 adder, 3 events of any kind, realtime batch of 1, buffer of 2 | nothing lost or confirmed twice, critical events are never lost, all is saved on destruction, delivery, the destructor returns |
| `ManagerRemoves` | 2 events, buffer of 1 | an acknowledgement removes events that were not sent (*finding*) |
| `Client` | 2 callers, 3 calls, 2 connections | every call and the constructor return, but for messages that were garbled; each callback is called once |
| `ClientThrows` | the same | the callback of a call that threw is called later (*finding*) |
| `Connection` | 2 callers and the opening thread, 2 calls, bodies of 1, 3 and 5 bytes, buffer of 4 that grows to 5, socket of 7, base 3, two digits without overflow, sizes modulo 1000 | messages arrive whole and in order; whatever the bytes, what they mean does not depend on the cuts; no byte is left without an event; what one side may send the other can hold; delivery |
| `Hooks` | 3 libraries, of which 2 define the symbol, 3 addresses of `LibInfo`s, 4 slots, 3 hooks, addresses that fit into a word | the lists are right; a call runs every hook and, with one list, ends at a function that the linker had found, which comes back |
| `Daemon` | 2 launchers started twice in all, 2 daemons and the file of a third | opening ends, who connects is accepted or cut off, a daemon stops only when idle and always after its last client |

**Why the bounds are enough.** `Task`: an interference needs one caller that joins and one that
comes at that time; a second identity is needed to see two workers at once; requests before, during
and after a run are three. `Lazy`: the winner, a loser, and a thread that comes later; one address
more than there are threads, so that all may have a candidate while the payload is set. `Store`: an
event of 3 behind one of 1 is copied over itself; three files exist at once (oldest, in the list,
newest) with four events, and a file may end by count or by size; the second crash may hit what the
first one has left. `Manager`: each of the two limits overflows, and a list may have one event from
a file and one from memory. One adder, because the realtime task that hands over its events is a
second thread that adds; with two adders the safety properties hold as well (2.1 million states),
but the liveness properties take too long. `Client`: one connection that ends and one that stays; a
call begun on the first may end on the second, and a callback may be registered while others are
called. In `Once` nothing depends on the number of threads beyond three. `Connection`: the buffer
grows once and is then at its limit; a length takes one byte or two; a body of 3 fills the buffer in
`json_cbor`, one of 5 is too big in both encodings; the socket holds a message and a half, so that
writes are cut short; two calls and the greeting may all overlap. A body has three bytes in it that
are a length whose total is 0, for a server that is out of step. `Hooks`: a list of three has a
middle, the third hook may come after two are gone, a second list takes slots from the first, and
all libraries may be registered at once; hooks and addresses are symmetric. All indices are equal,
so that each library finds what another has left at its address. `Daemon`: two launchers race for
the file, and so do the daemons they start, in the presence of a stale file; one daemon has two
clients. The inductive invariant of `Daemon_proofs` was also checked with three starts (6.7 million
states), that of `EventManager_proofs` with two adders (2.1 million).

`CHECK_DEADLOCK FALSE` is set where the system may stop: after `terminate()`, after the
destructor, when all events, calls or starts of the bound have been made. `Lazy`, `Once` and `Hooks`
never stop.

**Fairness.** Threads that can take a step take one in the end, as the scheduler of the host gives
it (weak fairness for each thread's own actions, none for its decision to begin a call). Beyond
that: a task function returns; in `Task` the delay ends *only while nobody has asked to hurry*, so
that an immediate request and `terminate()` have nothing but the notification to rely on; in
`Store` and `Manager` the server does not refuse for ever (strong fairness of an accepted post, as
posts are repeated); in `Client` the daemon answers what it has got as long as it is there, and
need not close. In `Lazy` a thread in `to_host()` goes on, and nobody has to unlock a mutex for
that. In `Connection` only the io thread of the server is fair. In `Daemon` the fairness is that of
each *process*, which is weaker than that of each thread; that a wait ends after ten seconds is
part of it; no launcher has to start or to leave, so a daemon may keep its client for ever.

**Findings** of the runs are in `PROJECT.json` with the text they contradict: an acknowledgement may
remove events that were added during the post; a synchronous call that throws leaves a callback to
a promise that is gone.

**Facts** that the models contain as the code has them, and that a reader of the code may want to
know. Where a property would be false because of one of them, it excepts that case and says so.

* `sleep()` tests the pointer `doNotSleep`, not what it points to, so it returns at once,
  against the comment above it (task_with_delay_thread.h:33-43).
* An event too long for a file leaves an empty, finalized oldest file, and nothing is uploaded
  until the next start (multi_file_event_batch.cpp:82-91, event_uploader.cpp:76-79).
* The realtime task may request a run of the main task during and after the `terminate()` of the
  latter (event_manager.cpp:41-44 and 103).
* When a write fails while a list is removed, the file is cut all the same and the accepted events
  that were not copied are gone (file_event_batch.cpp:164-168 and 175). A crash in that copy may
  lose one event (160-172).
* Two messages that are sent at the same time may be mixed, as each is written in two parts, and a
  socket that is full takes a part of one and throws (encoding_json.cpp:40-41,
  encoding_json_cbor.cpp:26-27, unix_connection.cpp:16-18). The daemon then answers without an id or
  not at all, and a synchronous call waits until the connection ends. `json_cbor` has no limit for
  its size.
* A length of five bytes shifts an `int` too far, and a total that wraps to 0 makes
  `handle_data_available()` loop (varint.cpp:23, encoding_json_cbor.cpp:35,
  connection_internal.cpp:32-57). Only a stream that is out of step has such lengths.
* The unread bytes are moved by `memcpy()` although the ranges may overlap
  (connection_internal.cpp:21).
* The greeting goes to the new connection after the callback of the old one's `.hello` has set the
  flag: a call may come before it (service_client.cpp:81-83).
* Two connections may be one event, and one event is one `accept()`: the second client then waits
  for the next one (unix_service_impl.cpp:61-73).
* A client that is accepted before the constructor of `auto_shutdown_service` is done is not
  counted, and one that leaves before is not counted down. One that comes before and leaves later is:
  the daemon may stop while a client is connected, or never stop
  (service.h:21-31, auto_shutdown_service.h:18 and 30).
* `bind()` comes before `listen()`: a launcher that is woken up by the file may be refused.
  `close()` unlinks the path whoever's it is, also after a `bind()` that failed
  (unix_service_impl.cpp:28-35 and 54). A daemon whose file has been taken away before its first
  client never stops.
* Two `IN_CREATE` events set one promise twice, which ends the launcher (daemon_launcher.cpp:176).
* A launcher that reopens in its io thread always waits the full ten seconds, as it is the io
  thread that would read the events.
* A greeting that cannot be written leaves the socket set, and the next attempt throws "Socket
  already created" (unix_service_client.cpp:10 and 30-31).
* The constructors of `launchable_service_client` that take no launcher leave `launcher` and
  `shutting_down` uninitialized (launchable_service_client.h:16-19); the model has those that do.
* The first hook that is created for a symbol that has lost all its hooks never gets a pointer to
  the original (hook.cpp:113-117 and 185-192). The original is read as a 32-bit word (hook.cpp:106).
  When one symbol is hooked through two libraries, each list may take a hook of the other for the
  original, even one that has been deleted. A slot calls a deleted hook until the next `applyHooks()`.
* A library that is removed and added again has a new `LibInfo`. The lists of the old one stay in
  `hookedSymbols` under its address: the slots keep their hooks, the new library may take one of them
  for the original, and one that gets the old address finds lists that it is not entered in
  (hook.cpp:126-177, hook.h:37-48).

## 4. Proofs

TLAPS proves the following for all values of the constants.

* `TaskWithDelay_proofs`: `TypeOK`, `OneWorker`, `PendingHasWorker`, `JoinCannotDeadlock`,
  `TerminatedIsQuiet`, and that every step implements a step of `DelayedTask` or a stutter. From
  the one assumption that `None` is neither a caller nor a worker. None of these is inductive. The
  invariant `IInv` adds: the `std::thread` member holds the only worker (`WorkerIsThread`);
  `running` tells whether a worker is in its loop, but for the moment in which a caller joins
  (`RunningIsTrue`); `hasPendingTask` implies `running`, and a worker only waits when something is
  pending (`PendingIsRunning`); the caller that joins has the mutex and nobody is in the loop
  (`JoinerHasMutex`); at the end the callers are gone (`OwnerIsAlone`). The argument in the code's
  terms: `running` is only reset under the mutex by a worker that never locks it again; a caller
  that finds it reset sets it before it joins, with the mutex held.
* `EventStore_proofs`: `TypeOK`, `OnlyCutEventsLost`, `InOrderOnce`, `WholeEventsOnly`,
  `BookkeepingIsTrue` and `EarlierEventsSurvive`, for any sizes of events, chunks and buffers, limits
  that change, any number of events, files and crashes. `TypeOK` and `EarlierEventsSurvive` also hold
  when writes fail; the other four are about a disk on which they do not (`~WriteErrors`): on the
  instance of `StoreFaults` TLC finds each of them violated. `OnlyCutEventsLost` rests on a lemma
  about lines: after k units of the copy, each event of the file is in the part that is copied, or in
  the part that is not yet written over, or it is the one that `CutThrough` names. The invariant:
  the batches in memory agree with the directory (`Consistent`: each file belongs to the newest, the
  oldest or one of the old batches, in the order of age, and the open ones know its size, its lines
  and, when they rely on it, its end); a list that is posted begins the file of the batch that will
  remove it, also when that batch has changed its role since, and a batch that believes to be at the
  end of its file has got an event after the list was made (`IsFrontList`); accepted events are
  in files, confirmed or cut through (`AcceptedIsKept`); every line is an event until a copy is
  left unfinished (`LinesAreWhole`); and, before the first crash, the lines of all files are in order
  and behind what has been confirmed (`UploadOrder`). Half of the module are lemmas about lines: what
  appending, cutting, copying over and recovering do to the events of a file.
* `EventStore_proofs`, write errors: after a failed write the file is cut back and the offset of the
  stream is not (file_event_batch.cpp:81-91), so that the next event is written behind a hole and
  the batch believes in a size that is less than that of its file. `IInv` is false from then on, and
  it is replaced by `FaultInv`, in which a batch knows less (`Knows` with `exact = FALSE`): its size
  is at most the length of its file and at most the offset. That is enough for the events accepted
  before the first one that was not (`Early`): each is a line of a file that ends within the size
  its batch believes in (`IsPlaced`), and a write reaches only what is behind it (`Follows`); a list
  that is posted and removed still begins the file. `FaultInv` also says that `IInv` holds until the
  first event that was not accepted or the first copy that was left unfinished, which is why the
  bookkeeping is exact when those events are stored.
* `EventStore_proofs`, that the files implement the queue (`Refinement`): every step of the code that
  adds, lists, posts, removes or recovers is a step of `EventQueue` or leaves it as it is. The
  queue is a set of numbers and knows nothing of lines, files and batches, so the proof says what
  the files mean: all the events that are lines (`Stored`). It needs that they are ordered
  (`QueueOrder`), which follows from `UploadOrder` before the first crash but must hold after crashes
  too: a crash may cut off the event that was being written, and the next one gets a higher number.
  And it needs that, while there is no list, none is posted (`IdleHasNoList`). From them, a list
  begins the queue since it begins the oldest file (`ListBeginsStore`), and removing it takes out no
  other event. The hypothesis is `~WriteErrors`, as above.
* `Pthread_proofs`, about `PthreadLazy`: `MutualExclusion`, `ReferencesAreCurrent`, `NothingLeaked`.
  The invariant adds that a candidate is private to its thread, unlocked and not yet the payload
  (`CandidatesArePrivate`), that the allocated objects are the payload and the candidates
  (`Allocation`), and that the owner of the host mutex is inside (`OwnerIsInside`).
* `Pthread_proofs`, about `PthreadOnce`: `RunsOnce` and `ReturnsAfterRoutine`. The invariant
  `ControlIsTrue` says how far the one execution has got for each value of the control word.
* `ServiceClient_proofs`: `TypeOK`, `SomebodyAnswers` and `CalledOnce`, for a client that can
  reconnect and for one that cannot. The assumption only says what the bounds are. The invariant
  adds: each id is that of a call or of a greeting, and no two calls have the same (`IdsAreCounted`,
  `IdsAreUnique`); nobody calls before the constructor has returned (`ConstructorFirst`); where the
  io thread is tells whether there is a connection and whether callbacks have been taken
  (`IoKnows`); an id with a result has no callback any more (`ResultIsFinal`), and one without has
  its callback in the table or among those taken (`CallbackIsKept`). The argument: a caller that
  writes both parts over a connection that is still open puts its message on the way, or finds that
  it has been garbled; between the end of that connection and the next one the io thread takes the
  whole table, so a caller that waits on no connection at all is among those it calls.
* `Connection_proofs`: `TypeOK`; `NothingStranded`; `UnreadIsStream`, that the bytes between the
  offsets of the buffer are the next ones of the socket through every read, move and growth; and
  `NoLineLeft`, that a search that begins behind what was searched before misses no line. From the
  assumptions that sizes are numbers, the buffer begins below its limit, no body contains a newline,
  three bytes hold a length, and no message that is sent has one that overflows. The argument for
  the last one: before a search there is no newline before `check`, and what is delivered ends at
  the first one behind it.
* `Connection_proofs`, about the order of messages: `InOrder` and `LimitsAgree`. The second
  invariant, `Ordered`, speaks of the executions in which calls do not overlap and `memcpy()` copies
  forwards. It says that there are offsets `ends` at which the messages that were sent lie in the
  socket one behind the other, each in the encoding that holds for its number (`AreEnds`,
  `StreamIsMessages`: the first in `json`, what follows in the one that was agreed); that the bytes
  that are taken out of the buffer end where the messages that were handled end, and the server's
  encoding is that of the next one (`ServerFollows`); that `.hello` comes first and its reply before
  any call (`HelloComesFirst`); and that writers agree with the server on the encoding and lines are
  shorter than the buffer may get (`WritersAgree`). The argument needs that each encoding tells
  where a message ends: lemma `MessageTells` says that from any bytes that begin a message, however
  many have arrived, `CompleteLength` finds nothing before the last byte is there and then exactly
  the message, and that `ReadMessage` gives it back; for `json_cbor` this rests on lemma
  `VarintEnds`, that a length of one, two or three bytes is decoded to what was encoded. So what is
  in the buffer always begins the next message (`UnreadBegins`), and what is taken for a message is
  the next one (`NextMessage`). For `LimitsAgree`: a full buffer without a newline would be the
  beginning of a line that the sender had refused.
* `Connection_proofs`, about bytes that need not be messages: `CutsDoNotMatter`, for every stream,
  also when overlapping calls or writes that were cut short have made nonsense of it; only
  `memcpy()` has to copy forwards. The third invariant, `RInv`, says that the server has come to
  where it is, in position, encoding and messages, through places that are each the next message
  after the one before in the bytes taken so far (`Handled`, `CameBy`), and that between the scans
  there is no next one (`NothingComplete`). What a read adds changes none of these steps, since an
  encoding that has found an end finds the same one when more bytes follow (`CompleteStays`), and
  the scan that begins behind what was searched finds what one from the beginning finds
  (`SearchedOnce`); so the next message in the buffer is the next one in the stream (`FoundIsNext`).
  At the end, reading all bytes at once goes through the same places (`PlacesTell`), and the loop
  that does not end has an empty message in front of it (`EndlessAtEmpty`).
* `Hooks_proofs`: `TypeOK`, `PointersAreChain`, `CallRunsEveryHook`, `OriginalComesBack`, for any
  libraries, addresses, slots and hooks. The invariant adds: no hook is twice in a list (`Distinct`),
  and those with a symbol are those in its list (`LiveInChain`); a hook that was never created is
  referred to by nobody (`UnusedIsFresh`); a key without a symbol has no hooks (`NoSymbolNoHooks`),
  and a library that is not registered no entry (`UnregisteredHasNoEntry`); each hook points to the
  one below it and the first to the original, but for a late one (`OrigLeadsDown`, `FirstLeadsOut`);
  the slots are as the last `applyHooks()` left them (`SlotsAreApplied`), and then there is an
  original (`OriginalIsKnown`); with one list only, the original is what the linker had put into a
  slot, and what the slots hold comes from there or from that list (`AloneIsKept`).
* `Daemon_proofs`: `TypeOK`; that the counter of `auto_shutdown_service` and the clients that came
  less those that left uncounted are the number of its connections; and `StopsWhenIdle`. The
  invariant adds: a launcher that is not running is connected to nobody (`OffIsOff`), a running one
  is known to one daemon at most (`KnownToOne`), there it is once in the queue or accepted, never
  both (`OnceInQueue`, `WaitingOrServed`), and where there is an event there is a connection
  (`EventHasConnection`). The argument: each accept and each end of a connection changes the counter
  and the set of connections by the same client, which was not, or was, in it.
* `EventManager_proofs`: `TypeOK`, `NothingLost`, `CriticalNeverLost`, `ConfirmedOnce` and
  `DestructionSaves`, for any limits, any number of adders and of events. The assumption says that
  limits are numbers and that the buffer holds an event. The proof puts all places where an event
  may be into one function, `Where`: each batch without the events at its front that are confirmed
  and not yet removed (`AckReal`, `AckCritical`, `AckDisk`, `AckMem`), the events that are handed
  over, and the confirmed ones. The invariant says that every accepted event is in some place of
  `Where` (`AcceptedIsSomewhere`), no event is in two or twice in one (`SomewhereOnce`), and that
  one that is being added is in none and has the highest number so far (`AddingIsNew`); that posted
  lists are at the front of their batches (`CriticalIsFront`, `NormalIsFront`, `RealIsFront`); for
  `CriticalNeverLost`, which holds after `overtaken` too, where critical events are without the
  normal batch (`CriticalIsSomewhere`, `AckIsConfirmed`); for the destructor, that somebody will
  look at the realtime batch while it is not empty (`RealtimeIsSeen`), and what has ended
  (`HandIsSpread`, `AddersAreGone`, `EndIsQuiet`). The argument: each step leaves `Where` as it is,
  moves the first events of one place to the end of another (lemma `Move`), or adds one that was
  nowhere (`AddOne`); removing what was confirmed changes no place at all, which is why it does not
  matter what is added in between.

Each invariant was first checked by TLC on the instances of section 3. Every lemma
`...Preserves` shows that one action keeps the invariant, with a step of its own for each conjunct
whose proof needs more than that conjunct; in `EventManager_proofs`, whose steps are many, there is
one lemma for each group of conjuncts and in it a step for each action.

**Only model-checked**: all liveness properties (fairness and `ENABLED` are beyond the prover), and
with them the liveness part of `ImplementsDelayedTask`. Every invariant that a run checks is proved.
`WholeEventsOnly`, `JoinCannotDeadlock`, `UnreadIsStream`, `NoLineLeft` and the type invariants of
the proved modules are proved and part of no run. `ReadAtOnce` of `Connection` and `NumberIn` of
`Encoding` are recursive functions over a finite set; that they exist is proved where they are used
(`ReadingSteps`, `ValueOfLength`).

## 5. Not modelled

Data races on plain variables are not modelled as such: where one exists it is a hazard with a
note or a fact of section 3 (the `std::thread` member when `requestRun()` and `terminate()`
overlap; `seqNum`, event_serializer.cpp:40). Weak memory: the atomics of libc-shim are taken to be
sequentially consistent. The condition variables and rwlocks of libc-shim are created by the same
code as its mutexes and are not modelled a second time.

On the side of the daemon: the variants for kqueue; `main()` of the daemon, which is not in this
repository; the other policies of `auto_shutdown_service`; what a handler of a call does, and that
each call gets one reply (`rpc_handler` leaves that to the handler). On the side of the client: the
destructor of `service_client` and calls that are made while it runs.

The configuration of the telemetry is one sequential function with a cache in a file; its limits
reach the batches as `StoreFaults` has them. The life cycle of the game, the looper and the input
queue depend on callbacks of the game itself, whose order is not in this repository. Text input and
gamepad ids are sequential. Requests over HTTP, compression, JSON, drawing, audio and everything
vendored have no state here.

## 6. Plan

Done: the delayed task, the files, the batches in memory, the manager; the connection, the client,
the launchers and the daemons; the hooks; the pthread objects; the abstract queue of the files; the
proofs of section 4.

What is left, in this order:

1. `GamepadIds`: ids that are taken and given back by several devices;
2. `Configuration`: cache, expiry, status 304, retry time; composed with `EventManager` for events
   that do not fit `BufferedBatch`;
3. `GameLife` (`JniSupport`, `ThreadMover`, `main`), with the game's callbacks as an environment.
