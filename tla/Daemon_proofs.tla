--------------------------- MODULE Daemon_proofs ---------------------------
(***************************************************************************)
(* Proofs about Daemon for any launchers and any number of daemons: the    *)
(* count of a daemon and its connections.  The inductive invariant says    *)
(* that a launcher that runs is known to one daemon only, the one at the   *)
(* other end of its socket, and there it is either in the queue, once, or  *)
(* accepted.                                                               *)
(***************************************************************************)
EXTENDS Daemon, FiniteSetTheorems, SequenceTheorems, TLAPS

-----------------------------------------------------------------------------
(* The inductive invariant.                                                *)

OffIsOff == \A c \in Clients : proc[c].at["main"] = "off" => proc[c] = Off

KnownToOne ==
    \A c \in Clients, d \in Daemons :
        proc[c].at["main"] # "off" /\ c \in Waiting(d) \cup served[d]
            => proc[c].fd = d

OnceInQueue ==
    \A d \in Daemons : \A i, j \in DOMAIN queue[d] :
        queue[d][i] = queue[d][j] => i = j

WaitingOrServed == \A d \in Daemons : Waiting(d) \cap served[d] = {}

EventHasConnection == \A d \in Daemons : pending[d] => queue[d] # <<>>

\* What on_client_connected() has counted and on_client_disconnected() has
\* taken back differs from the connections by those that were accepted, less
\* those that have left, while the base class was called.
CountIsOffByEarly ==
    \A d \in Daemons : count[d] + uncounted[d] = Cardinality(served[d])

Queues == OnceInQueue /\ WaitingOrServed /\ EventHasConnection
IInv == TypeOK /\ OffIsOff /\ KnownToOne /\ Queues /\ CountIsOffByEarly

-----------------------------------------------------------------------------
(* The launchers.                                                          *)

LEMMA OffType == Off \in Process /\ Off.at["main"] = "off"
                 /\ Off.at["io"] = "idle" /\ ~Off.registered
  BY DEF Off, Process, Threads, Opening

\* The steps of a launcher that leave the daemons and their queues alone.
ProcStep(c, p) ==
    /\ proc' = [proc EXCEPT ![c] = p]
    /\ UNCHANGED server

LEMMA LauncherPreserves ==
  ASSUME IInv, NEW c \in Clients, NEW p \in Process, ProcStep(c, p),
         path' = path, dpc' \in [Daemons -> Listening \cup
             {"none", "unlink", "bind", "listen", "clean", "exit", "gone"}],
         enters' \in 0..MaxEnters,
         p.at["main"] = "off" => p = Off,
         p.at["main"] # "off" =>
             \/ proc[c].at["main"] # "off" /\ p.fd = proc[c].fd
             \/ \A d \in Daemons : c \notin Waiting(d) \cup served[d]
  PROVE  IInv'
  <1> USE DEF IInv, ProcStep, server
  <1>1. TypeOK'
    BY DEF TypeOK
  <1>2. OffIsOff'
    BY DEF OffIsOff, TypeOK
  <1>3. KnownToOne'
    BY DEF KnownToOne, TypeOK, Waiting
  <1>4. Queues'
    BY DEF Queues, OnceInQueue, WaitingOrServed, EventHasConnection, Waiting
  <1>5. CountIsOffByEarly'
    BY DEF CountIsOffByEarly
  <1> QED BY <1>1, <1>2, <1>3, <1>4, <1>5

Running == Opening \cup {"idle", "ready", "failed"}

\* What the operators on a process do to its socket.
LEMMA AtKeeps ==
  ASSUME NEW p \in Process, NEW w \in Threads, p.at["main"] # "off",
         NEW l \in Running
  PROVE  /\ At(p, w, l) \in Process /\ At(p, w, l).fd = p.fd
         /\ At(p, w, l).at["main"] # "off"
  <1> DEFINE X == Opening \cup {"off", "idle", "ready", "failed"}
             f == [p.at EXCEPT ![w] = l]
  <1>1. p.at \in [Threads -> X] /\ l \in X /\ l # "off" /\ "main" \in Threads
    BY DEF Process, Running, Opening, Threads
  <1>2. f \in [Threads -> X] /\ f["main"] # "off"
    BY <1>1
  <1>3. [p EXCEPT !.at = f] \in Process
    BY <1>2 DEF Process
  <1>4. At(p, w, l) = [p EXCEPT !.at = f]
    BY DEF At
  <1>5. At(p, w, l).fd = p.fd /\ At(p, w, l).at = f
    BY <1>4 DEF Process
  <1> QED BY <1>2, <1>3, <1>4, <1>5

LEMMA TryKeeps ==
  ASSUME NEW p \in Process, NEW w \in Threads, p.at["main"] # "off",
         NEW n \in 1..3
  PROVE  LET q == [p EXCEPT !.try[w] = n]
         IN  /\ q \in Process /\ q.fd = p.fd
             /\ q.at["main"] # "off"
  BY DEF Process

LEMMA DoneKeeps ==
  ASSUME NEW p \in Process, NEW w \in Threads, p.at["main"] # "off",
         NEW l \in Running
  PROVE  /\ Done(p, w, l) \in Process /\ Done(p, w, l).fd = p.fd
         /\ Done(p, w, l).at["main"] # "off"
  <1> DEFINE a == At(p, w, l)
             q == [a EXCEPT !.try[w] = 1]
             b == [q EXCEPT !.created = 0]
             r == [q EXCEPT !.created = 0, !.promise = FALSE]
  <1>1. a \in Process /\ a.fd = p.fd /\ a.at["main"] # "off"
    BY AtKeeps
  <1>2. Done(p, w, l) = IF w = "main" THEN r ELSE q
    BY DEF Done
  <1> HIDE DEF a
  <1>3. q \in Process /\ q.fd = p.fd /\ q.at["main"] # "off"
    BY <1>1 DEF Process
  <1> HIDE DEF q
  <1>4. b \in Process /\ b.fd = q.fd /\ b.at["main"] # "off"
    BY <1>3 DEF Process
  <1>5. r = [b EXCEPT !.promise = FALSE]
    BY <1>3 DEF Process
  <1>6. r \in Process /\ r.fd = q.fd /\ r.at["main"] # "off"
    <2> HIDE DEF b, r
    <2>1. FALSE \in BOOLEAN
      OBVIOUS
    <2> QED BY <1>4, <1>5, <2>1 DEF Process
  <1> HIDE DEF r
  <1> QED BY <1>2, <1>3, <1>6

LEMMA OpenedThrown ==
  ASSUME NEW p \in Process, NEW w \in Threads, p.at["main"] # "off"
  PROVE  /\ Opened(p, w) \in Process /\ Opened(p, w).fd = p.fd
         /\ Opened(p, w).at["main"] # "off"
         /\ Thrown(p, w) \in Process
         /\ \/ Thrown(p, w) = Off
            \/ Thrown(p, w).fd = p.fd /\ Thrown(p, w).at["main"] # "off"
  <1>1. {"watch", "start", "failed", "ready", "idle"} \subseteq Running
    BY DEF Running, Opening
  <1>2. /\ Opened(p, w) \in Process /\ Opened(p, w).fd = p.fd
        /\ Opened(p, w).at["main"] # "off"
    BY <1>1, DoneKeeps DEF Opened
  <1>3. p.try[w] \in 1..3
    BY DEF Process
  <1>4. CASE p.try[w] < 3
    <2> DEFINE l == IF p.try[w] = 1 THEN "watch" ELSE "start"
    <2>1. l \in Running
      BY <1>1
    <2>2. Thrown(p, w) = At(p, w, l)
      BY <1>4 DEF Thrown
    <2> HIDE DEF l
    <2> QED BY <1>2, <2>1, <2>2, AtKeeps
  <1>5. CASE p.try[w] = 3
    <2>1. Thrown(p, w) = IF w = "main" THEN Done(p, w, "failed") ELSE Off
      BY <1>5 DEF Thrown
    <2> QED BY <2>1, <1>1, <1>2, DoneKeeps, OffType
  <1> QED BY <1>2, <1>3, <1>4, <1>5


\* Thread w of launcher c is at l: the launcher runs.
LEMMA StepRuns ==
  ASSUME IInv, NEW c \in Clients, NEW w \in Threads,
         proc[c].at[w] \in Opening
  PROVE  proc[c] \in Process /\ proc[c].at["main"] # "off"
  <1>1. proc[c] \in Process
    BY DEF IInv, TypeOK
  <1>2. CASE proc[c].at["main"] = "off"
    BY <1>2, OffType DEF IInv, OffIsOff, Opening, Threads
  <1> QED BY <1>1, <1>2

LEMMA ElementsOfAppend ==
  ASSUME NEW s \in Seq(Clients), NEW c \in Clients
  PROVE  LET t == Append(s, c)
         IN  /\ t \in Seq(Clients) /\ t # <<>>
             /\ {t[i] : i \in DOMAIN t} = {s[i] : i \in DOMAIN s} \cup {c}
             /\ c \notin {s[i] : i \in DOMAIN s}
                /\ (\A i, j \in DOMAIN s : s[i] = s[j] => i = j)
                => \A i, j \in DOMAIN t : t[i] = t[j] => i = j
  <1> DEFINE t == Append(s, c)
  <1>1. /\ t \in Seq(Clients) /\ t # <<>> /\ Len(t) = Len(s) + 1
        /\ \A i \in 1..Len(s) : t[i] = s[i]
        /\ t[Len(s) + 1] = c
    BY AppendProperties
  <1> HIDE DEF t
  <1>2. DOMAIN s = 1..Len(s) /\ DOMAIN t = 1..Len(s) + 1 /\ Len(s) \in Nat
    BY <1>1
  <1>3. {t[i] : i \in DOMAIN t} = {s[i] : i \in DOMAIN s} \cup {c}
    <2>1. ASSUME NEW i \in DOMAIN t PROVE t[i] \in {s[k] : k \in DOMAIN s} \cup {c}
      BY <1>1, <1>2
    <2>2. ASSUME NEW i \in DOMAIN s PROVE s[i] \in {t[k] : k \in DOMAIN t}
      BY <1>1, <1>2
    <2>3. c \in {t[k] : k \in DOMAIN t}
      BY <1>1, <1>2
    <2> QED BY <2>1, <2>2, <2>3
  <1>4. ASSUME c \notin {s[i] : i \in DOMAIN s},
               \A i, j \in DOMAIN s : s[i] = s[j] => i = j,
               NEW i \in DOMAIN t, NEW j \in DOMAIN t, t[i] = t[j]
        PROVE  i = j
    BY <1>1, <1>2, <1>4
  <1> QED BY <1>1, <1>3, <1>4 DEF t

LEMMA ElementsOfTail ==
  ASSUME NEW s \in Seq(Clients), s # <<>>,
         \A i, j \in DOMAIN s : s[i] = s[j] => i = j
  PROVE  LET t == Tail(s)
         IN  /\ Head(s) \in Clients /\ t \in Seq(Clients)
             /\ Head(s) \in {s[i] : i \in DOMAIN s}
             /\ {t[i] : i \in DOMAIN t} = {s[i] : i \in DOMAIN s} \ {Head(s)}
             /\ \A i, j \in DOMAIN t : t[i] = t[j] => i = j
  <1> DEFINE t == Tail(s)
  <1>1. /\ Head(s) \in Clients /\ t \in Seq(Clients) /\ Len(t) = Len(s) - 1
        /\ \A i \in 1..Len(t) : t[i] = s[i + 1]
    BY HeadTailProperties
  <1>2. Head(s) = s[1] /\ Len(s) \in Nat \ {0} /\ DOMAIN s = 1..Len(s)
    OBVIOUS
  <1> HIDE DEF t
  <1>3. DOMAIN t = 1..Len(s) - 1 /\ \A i \in DOMAIN t : i + 1 \in DOMAIN s
    BY <1>1, <1>2
  <1>4. {t[i] : i \in DOMAIN t} = {s[i] : i \in DOMAIN s} \ {Head(s)}
    <2>1. ASSUME NEW i \in DOMAIN t
          PROVE  t[i] \in {s[k] : k \in DOMAIN s} \ {Head(s)}
      <3>1. t[i] = s[i + 1] /\ i + 1 \in DOMAIN s /\ 1 \in DOMAIN s /\ i + 1 # 1
        BY <1>1, <1>2, <1>3
      <3> QED BY <3>1, <1>2
    <2>2. ASSUME NEW i \in DOMAIN s, s[i] # Head(s)
          PROVE  s[i] \in {t[k] : k \in DOMAIN t}
      <3>1. i - 1 \in DOMAIN t /\ t[i - 1] = s[i]
        BY <1>1, <1>2, <1>3, <2>2
      <3> QED BY <3>1
    <2> QED BY <2>1, <2>2
  <1>5. ASSUME NEW i \in DOMAIN t, NEW j \in DOMAIN t, t[i] = t[j]
        PROVE  i = j
    <2>1. s[i + 1] = s[j + 1] /\ i + 1 \in DOMAIN s /\ j + 1 \in DOMAIN s
      BY <1>1, <1>3, <1>5
    <2>2. i + 1 = j + 1
      BY <2>1
    <2> QED BY <2>2, <1>2, <1>3
  <1>6. Head(s) \in {s[i] : i \in DOMAIN s}
    <2>1. 1 \in DOMAIN s
      BY <1>2
    <2> QED BY <1>2, <2>1
  <1>7. \A i, j \in DOMAIN t : t[i] = t[j] => i = j
    BY <1>5
  <1> USE DEF t
  <1> QED BY <1>1, <1>4, <1>6, <1>7, Zenon

LEMMA ConnectsPreserves ==
  ASSUME IInv, NEW c \in Clients, NEW w \in Threads, Connects(c, w),
         proc[c].at["main"] # "off", proc[c] \in Process
  PROVE  IInv'
  <1> DEFINE a == At(proc[c], w, "register")
             q == [a EXCEPT !.fd = path, !.late = queue[path] # <<>>]
  <1>1. /\ proc[c].fd = none /\ path \in Daemons
        /\ proc' = [proc EXCEPT ![c] = q]
        /\ queue' = [queue EXCEPT ![path] = Append(queue[path], c)]
        /\ pending' = [pending EXCEPT ![path] = dpc[path] # "add"]
        /\ UNCHANGED <<path, dpc, served, count, stop, uncounted, enters>>
    BY DEF Connects, Step, Listens
  <1>2. a \in Process /\ a.at["main"] # "off"
    BY AtKeeps DEF Running, Opening
  <1> HIDE DEF a
  <1>3. q \in Process /\ q.fd = path /\ q.at["main"] # "off"
    <2>1. (queue[path] # <<>>) \in BOOLEAN /\ path \in Daemons \cup {none}
      BY <1>1
    <2> DEFINE b == queue[path] # <<>>
    <2> HIDE DEF b
    <2> QED BY <2>1, <1>2 DEF Process, b
  <1> HIDE DEF q
  <1>4. \A d \in Daemons : c \notin Waiting(d) \cup served[d]
    BY <1>1 DEF IInv, KnownToOne, none, Daemons
  <1>5. /\ queue \in [Daemons -> Seq(Clients)]
        /\ Append(queue[path], c) \in Seq(Clients)
        /\ Append(queue[path], c) # <<>>
        /\ Waiting(path)' = Waiting(path) \cup {c}
        /\ \A i, j \in DOMAIN queue'[path] :
             queue'[path][i] = queue'[path][j] => i = j
    <2> DEFINE s == queue[path]
               t == Append(s, c)
    <2>1. queue \in [Daemons -> Seq(Clients)] /\ s \in Seq(Clients)
      BY <1>1 DEF IInv, TypeOK
    <2>2. c \notin {s[i] : i \in DOMAIN s}
      BY <1>1, <1>4 DEF Waiting
    <2>3. \A i, j \in DOMAIN s : s[i] = s[j] => i = j
      BY <1>1 DEF IInv, Queues, OnceInQueue
    <2>4. queue'[path] = t /\ path' = path
      BY <1>1, <2>1
    <2> HIDE DEF s
    <2>5. /\ t \in Seq(Clients) /\ t # <<>>
          /\ {t[i] : i \in DOMAIN t} = {s[i] : i \in DOMAIN s} \cup {c}
          /\ \A i, j \in DOMAIN t : t[i] = t[j] => i = j
      BY <2>1, <2>2, <2>3, ElementsOfAppend
    <2> HIDE DEF t
    <2>6. Waiting(path)' = {t[i] : i \in DOMAIN t}
      BY <2>4 DEF Waiting
    <2>7. Waiting(path) = {s[i] : i \in DOMAIN s}
      BY DEF Waiting, s
    <2>8. Append(queue[path], c) = t
      BY DEF s, t
    <2> QED BY <2>1, <2>4, <2>5, <2>6, <2>7, <2>8
  <1>6. \A d \in Daemons \ {path} : queue'[d] = queue[d]
                                    /\ Waiting(d)' = Waiting(d)
    BY <1>1, <1>5 DEF Waiting
  <1>7. TypeOK'
    BY <1>1, <1>3, <1>5 DEF IInv, TypeOK
  <1>8. OffIsOff'
    BY <1>1, <1>3 DEF IInv, OffIsOff, TypeOK
  <1>9. KnownToOne'
    BY <1>1, <1>3, <1>4, <1>5, <1>6 DEF IInv, KnownToOne, TypeOK
  <1>10. OnceInQueue'
    BY <1>5, <1>6 DEF IInv, Queues, OnceInQueue
  <1>11. WaitingOrServed'
    BY SMTT(20), <1>1, <1>4, <1>5, <1>6 DEF IInv, Queues, WaitingOrServed
  <1>12. EventHasConnection'
    BY <1>1, <1>5, <1>6 DEF IInv, Queues, EventHasConnection, TypeOK
  <1>13. CountIsOffByEarly'
    BY <1>1 DEF IInv, CountIsOffByEarly
  <1> QED BY <1>7, <1>8, <1>9, <1>10, <1>11, <1>12, <1>13 DEF IInv, Queues

LEMMA OpenPreserves ==
  ASSUME IInv, NEW c \in Clients, NEW w \in Threads, Open(c, w)
  PROVE  IInv'
  <1> DEFINE p == proc[c]
  <1>1. path' = path /\ enters' = enters /\ enters' \in 0..MaxEnters
    BY DEF IInv, TypeOK, Open, Stat, Connects, Refused, Register, Hello,
           Watch, Start, StartFails, Waited
  <1>2. p \in Process /\ p.at["main"] # "off"
    BY StepRuns DEF Open, Stat, Connects, Refused, Register, Hello, Watch,
       Start, StartFails, Waited, Step, Opening
  <1>3. dpc' \in [Daemons -> Listening \cup
             {"none", "unlink", "bind", "listen", "clean", "exit", "gone"}]
    BY DEF IInv, TypeOK, Open, Stat, Connects, Refused, Register, Hello,
           Watch, Start, StartFails, Waited
  <1>4. Opening \cup {"ready", "failed", "idle"} \subseteq Running
    BY DEF Running
  <1>5. {"watch", "start", "connect", "register", "hello", "wait", "stat"}
            \subseteq Running
    BY DEF Running, Opening
  <1>6. ASSUME NEW q \in Process, ProcStep(c, q),
               q = Off \/ (q.fd = p.fd /\ q.at["main"] # "off")
        PROVE  IInv'
    BY <1>1, <1>2, <1>3, <1>6, LauncherPreserves, OffType
  <1>7. CASE Stat(c, w)
    <2> DEFINE l == IF path # none THEN "connect"
                    ELSE IF p.try[w] = 1 THEN "watch" ELSE "start"
    <2>1. l \in Running
      BY <1>5
    <2>2. ProcStep(c, At(p, w, l))
      BY <1>7 DEF Stat, Step, ProcStep
    <2> HIDE DEF l
    <2> QED BY <1>2, <1>6, <2>1, <2>2, AtKeeps
  <1>8. CASE Connects(c, w)
    BY <1>2, <1>8, ConnectsPreserves
  <1>9. CASE Refused(c, w)
    BY <1>2, <1>6, <1>9, OpenedThrown DEF Refused, Step, ProcStep
  <1>10. CASE Register(c, w)
    <2> DEFINE a == At(p, w, "hello")
               q == [a EXCEPT !.registered = TRUE]
    <2>1. a \in Process /\ a.fd = p.fd /\ a.at["main"] # "off"
      BY <1>2, <1>5, AtKeeps
    <2>2. ProcStep(c, q)
      BY <1>10 DEF Register, Step, ProcStep
    <2> HIDE DEF a
    <2>3. q \in Process /\ q.fd = p.fd /\ q.at["main"] # "off"
      BY <2>1 DEF Process
    <2> HIDE DEF q
    <2> QED BY <1>6, <2>2, <2>3
  <1>11. CASE Hello(c, w)
    <2> DEFINE q == IF p.fd # none /\ ~Cut(c) THEN Opened(p, w)
                    ELSE Thrown(p, w)
    <2>1. ProcStep(c, q)
      BY <1>11 DEF Hello, Step, ProcStep
    <2>2. q \in Process /\ (q = Off \/ (q.fd = p.fd /\ q.at["main"] # "off"))
      BY <1>2, OpenedThrown
    <2> HIDE DEF q
    <2> QED BY <1>6, <2>1, <2>2
  <1>12. CASE Watch(c, w)
    <2> DEFINE a == At(p, w, "stat")
               q == [a EXCEPT !.try[w] = 2]
    <2>1. a \in Process /\ a.fd = p.fd /\ a.at["main"] # "off"
      BY <1>2, <1>5, AtKeeps
    <2>2. ProcStep(c, q)
      BY <1>12 DEF Watch, Step, ProcStep
    <2> HIDE DEF a
    <2>3. q \in Process /\ q.fd = p.fd /\ q.at["main"] # "off"
      BY <2>1 DEF Process
    <2> HIDE DEF q
    <2> QED BY <1>6, <2>2, <2>3
  <1>13. CASE Start(c, w)
    BY <1>2, <1>5, <1>6, <1>13, AtKeeps DEF Start, Step, ProcStep
  <1>14. CASE StartFails(c, w)
    <2> DEFINE a == [p EXCEPT !.try[w] = 3]
    <2>1. a \in Process /\ a.fd = p.fd /\ a.at["main"] # "off"
      BY <1>2 DEF Process
    <2>2. ProcStep(c, Thrown(a, w))
      BY <1>14 DEF StartFails, Step, ProcStep
    <2> HIDE DEF a
    <2> QED BY <1>6, <2>1, <2>2, OpenedThrown
  <1>15. CASE Waited(c, w)
    <2> DEFINE a == Done(p, w, "connect")
               q == [a EXCEPT !.try[w] = 3]
    <2>1. a \in Process /\ a.fd = p.fd /\ a.at["main"] # "off"
      BY <1>2, <1>5, DoneKeeps
    <2>2. ProcStep(c, q)
      BY <1>15 DEF Waited, Step, ProcStep
    <2> HIDE DEF a
    <2>3. q \in Process /\ q.fd = p.fd /\ q.at["main"] # "off"
      BY <2>1 DEF Process
    <2> HIDE DEF q
    <2> QED BY <1>6, <2>2, <2>3
  <1> QED BY <1>7, <1>8, <1>9, <1>10, <1>11, <1>12, <1>13, <1>14, <1>15
          DEF Open

LEMMA CallbackPreserves ==
  ASSUME IInv, NEW c \in Clients, Notified(c) \/ Closed(c)
  PROVE  IInv'
  <1> DEFINE p == proc[c]
  <1>1. p \in Process /\ p.at["main"] # "off"
    BY OffType DEF IInv, TypeOK, OffIsOff, Notified, Closed
  <1>2. path' = path /\ dpc' = dpc /\ enters' = enters /\ UNCHANGED server
    BY DEF Notified, Closed
  <1>3. /\ dpc' \in [Daemons -> Listening \cup
             {"none", "unlink", "bind", "listen", "clean", "exit", "gone"}]
        /\ enters' \in 0..MaxEnters
    BY <1>2 DEF IInv, TypeOK
  <1>4. CASE Notified(c)
    <2> DEFINE a == [p EXCEPT !.promise = TRUE]
               q == [a EXCEPT !.created = 0]
               r == [p EXCEPT !.promise = TRUE, !.created = 0]
    <2>1. a \in Process /\ a.fd = p.fd /\ a.at["main"] # "off"
      <3>1. TRUE \in BOOLEAN
        OBVIOUS
      <3> QED BY <1>1, <3>1 DEF Process
    <2>2. r = q
      BY <1>1 DEF Process
    <2>3. proc' = [proc EXCEPT ![c] = r] \/ proc' = [proc EXCEPT ![c] = Off]
      BY <1>4 DEF Notified, Step
    <2> HIDE DEF a, r
    <2>4. q \in Process /\ q.fd = p.fd /\ q.at["main"] # "off"
      BY <2>1 DEF Process
    <2> HIDE DEF q
    <2>5. CASE ProcStep(c, q)
      BY <1>1, <1>2, <1>3, <2>4, <2>5, LauncherPreserves
    <2>6. CASE ProcStep(c, Off)
      BY <1>2, <1>3, <2>6, OffType, LauncherPreserves
    <2> QED BY <1>2, <2>2, <2>3, <2>5, <2>6 DEF ProcStep
  <1>5. CASE Closed(c)
    <2> DEFINE a == At(p, "io", "stat")
               f == [a EXCEPT !.fd = none]
               g == [f EXCEPT !.registered = FALSE]
               q == [g EXCEPT !.try["io"] = 1]
               r == [a EXCEPT !.fd = none, !.registered = FALSE,
                              !.try["io"] = 1]
    <2>1. a \in Process /\ a.at["main"] # "off"
      BY <1>1, AtKeeps DEF Running, Opening, Threads
    <2>2. proc' = [proc EXCEPT ![c] = r]
      BY <1>5 DEF Closed, Step
    <2> HIDE DEF a
    <2>3. f \in Process /\ f.at["main"] # "off"
      BY <2>1 DEF Process
    <2>4. g \in Process /\ g.at["main"] # "off"
      <3> HIDE DEF f
      <3>1. FALSE \in BOOLEAN
        OBVIOUS
      <3> QED BY <2>3, <3>1 DEF Process
    <2>5. q \in Process /\ q.at["main"] # "off"
      <3> HIDE DEF g
      <3> QED BY <2>4 DEF Process
    <2>6. r = q
      BY <2>1 DEF Process
    <2> HIDE DEF q, r
    <2>7. ProcStep(c, q)
      BY <1>2, <2>2, <2>6 DEF ProcStep
    <2>8. \A d \in Daemons : c \notin Waiting(d) \cup served[d]
      BY <1>1, <1>5 DEF Closed, Cut, IInv, KnownToOne
    <2> QED BY <1>2, <1>3, <2>5, <2>7, <2>8, LauncherPreserves
  <1> QED BY <1>4, <1>5

LEMMA EnterLeavePreserve ==
  ASSUME IInv, NEW c \in Clients, Enter(c) \/ Leave(c)
  PROVE  IInv'
  <1>1. path' = path /\ dpc' = dpc /\ UNCHANGED server
    BY DEF Enter, Leave
  <1>2. /\ dpc' \in [Daemons -> Listening \cup
             {"none", "unlink", "bind", "listen", "clean", "exit", "gone"}]
        /\ enters' \in 0..MaxEnters
    BY <1>1, BoundsAssumption DEF IInv, TypeOK, Enter, Leave
  <1>3. CASE Enter(c)
    <2> DEFINE q == At(Off, "main", "stat")
    <2>1. q \in Process /\ q.at["main"] # "off"
      <3> DEFINE a == [Off.at EXCEPT !["main"] = "stat"]
      <3>1. /\ a \in [Threads -> Opening \cup {"off", "idle", "ready", "failed"}]
            /\ a["main"] = "stat"
        BY DEF Off, Threads, Opening
      <3>2. q = [Off EXCEPT !.at = a]
        BY DEF At
      <3> HIDE DEF a, q
      <3> QED BY <3>1, <3>2, OffType DEF Process
    <2>2. ProcStep(c, q) /\ \A d \in Daemons : c \notin Waiting(d) \cup served[d]
      BY <1>1, <1>3 DEF ProcStep, Enter, Step
    <2> HIDE DEF q
    <2> QED BY <1>1, <1>2, <2>1, <2>2, LauncherPreserves
  <1>4. CASE Leave(c)
    <2>1. ProcStep(c, Off)
      BY <1>1, <1>4 DEF ProcStep, Leave
    <2> QED BY <1>1, <1>2, <2>1, OffType, LauncherPreserves
  <1> QED BY <1>3, <1>4

-----------------------------------------------------------------------------
(* The daemons.                                                            *)

\* The main thread of d: its clients and the numbers of them do not change.
LEMMA FilePreserves ==
  ASSUME IInv, NEW d \in Daemons, UNCHANGED server, enters' = enters,
         path' \in Daemons \cup {none, stale},
         dpc' \in [Daemons -> Listening \cup
             {"none", "unlink", "bind", "listen", "clean", "exit", "gone"}],
         proc' \in [Clients -> Process],
         \A c \in Clients :
            \/ proc'[c] = proc[c]
            \/ /\ proc[c].at["main"] # "off" /\ proc'[c].at["main"] # "off"
               /\ proc'[c].fd = proc[c].fd
  PROVE  IInv'
  <1> USE DEF IInv, server
  <1>1. TypeOK'
    BY DEF TypeOK
  <1>2. OffIsOff'
    BY DEF OffIsOff
  <1>3. KnownToOne'
    BY DEF KnownToOne, Waiting
  <1>4. Queues'
    BY DEF Queues, OnceInQueue, WaitingOrServed, EventHasConnection, Waiting
  <1>5. CountIsOffByEarly'
    BY DEF CountIsOffByEarly
  <1> QED BY <1>1, <1>2, <1>3, <1>4, <1>5

LEMMA BindPreserves ==
  ASSUME IInv, NEW d \in Daemons, Bind(d)
  PROVE  IInv'
  <1>1. /\ UNCHANGED server /\ enters' = enters /\ path' = d
        /\ dpc' = [dpc EXCEPT ![d] = "listen"]
        /\ proc' = [c \in Clients |->
                     IF Watching(proc[c])
                     THEN [proc[c] EXCEPT !.created = IF @ = 0 THEN 1 ELSE 2]
                     ELSE proc[c]]
    BY DEF Bind, DaemonStep
  <1>2. dpc' \in [Daemons -> Listening \cup
             {"none", "unlink", "bind", "listen", "clean", "exit", "gone"}]
    BY <1>1 DEF IInv, TypeOK
  <1>3. ASSUME NEW c \in Clients
        PROVE  /\ proc'[c] \in Process
               /\ \/ proc'[c] = proc[c]
                  \/ /\ proc[c].at["main"] # "off"
                     /\ proc'[c].at["main"] # "off"
                     /\ proc'[c].fd = proc[c].fd
    <2> DEFINE p == proc[c]
               n == IF p.created = 0 THEN 1 ELSE 2
               q == [p EXCEPT !.created = n]
    <2>1. p \in Process /\ n \in 0..2
      BY DEF IInv, TypeOK
    <2>2. CASE Watching(p)
      <3>1. proc'[c] = q /\ p.at["main"] # "off"
        BY <1>1, <2>2 DEF Watching, Opening
      <3>2. q \in Process /\ q.at = p.at /\ q.fd = p.fd
        <4> HIDE DEF n
        <4> QED BY <2>1 DEF Process
      <3> QED BY <3>1, <3>2
    <2>3. CASE ~Watching(p)
      BY <1>1, <2>1, <2>3
    <2> QED BY <2>2, <2>3
  <1>4. proc' \in [Clients -> Process]
    <2> DEFINE g(c) == IF Watching(proc[c])
                       THEN [proc[c] EXCEPT !.created = IF @ = 0 THEN 1 ELSE 2]
                       ELSE proc[c]
    <2>1. proc' = [c \in Clients |-> g(c)]
      BY <1>1
    <2>2. \A c \in Clients : g(c) \in Process
      BY <2>1, <1>3
    <2> HIDE DEF g
    <2> QED BY <2>1, <2>2
  <1>5. path' \in Daemons \cup {none, stale}
    BY <1>1
  <1> QED BY <1>1, <1>2, <1>3, <1>4, <1>5, FilePreserves

\* The listening socket of d is closed, and with it what is in its queue.
LEMMA EmptyPreserves ==
  ASSUME IInv, NEW d \in Daemons,
         UNCHANGED <<path, proc, enters>>,
         dpc' \in [Daemons -> Listening \cup
             {"none", "unlink", "bind", "listen", "clean", "exit", "gone"}],
         queue' = [queue EXCEPT ![d] = <<>>],
         pending' = [pending EXCEPT ![d] = FALSE],
         stop' \in [Daemons -> BOOLEAN],
         \/ UNCHANGED <<served, count, uncounted>>
         \/ /\ served' = [served EXCEPT ![d] = {}]
            /\ count' = [count EXCEPT ![d] = 0]
            /\ uncounted' = [uncounted EXCEPT ![d] = 0]
  PROVE  IInv'
  <1>1. TypeOK'
    <2>1. count \in [Daemons -> Int] /\ uncounted \in [Daemons -> Int]
      BY DEF IInv, TypeOK
    <2>2. <<>> \in Seq(Clients) /\ FALSE \in BOOLEAN
      OBVIOUS
    <2>3. queue' \in [Daemons -> Seq(Clients)]
      BY <2>2 DEF IInv, TypeOK
    <2>4. pending' \in [Daemons -> BOOLEAN]
      BY <2>2 DEF IInv, TypeOK
    <2>5. served' \in [Daemons -> SUBSET Clients]
      BY DEF IInv, TypeOK
    <2>6. count' \in [Daemons -> Int] /\ uncounted' \in [Daemons -> Int]
      <3>1. CASE UNCHANGED <<served, count, uncounted>>
        BY <2>1, <3>1
      <3>2. CASE /\ count' = [count EXCEPT ![d] = 0]
                 /\ uncounted' = [uncounted EXCEPT ![d] = 0]
        BY <2>1, <3>2
      <3> QED BY <3>1, <3>2
    <2>7. /\ path' \in Daemons \cup {none, stale} /\ enters' \in 0..MaxEnters
          /\ proc' \in [Clients -> Process]
      BY DEF IInv, TypeOK
    <2> QED BY <2>3, <2>4, <2>5, <2>6, <2>7 DEF TypeOK
  <1>2. OffIsOff'
    BY DEF IInv, OffIsOff
  <1>3. \A e \in Daemons : Waiting(e)' \subseteq Waiting(e)
                          /\ served'[e] \subseteq served[e]
    BY DEF IInv, TypeOK, Waiting
  <1>4. KnownToOne'
    BY <1>3 DEF IInv, KnownToOne
  <1>5. OnceInQueue'
    BY DEF IInv, TypeOK, Queues, OnceInQueue
  <1>6. WaitingOrServed'
    BY <1>3 DEF IInv, Queues, WaitingOrServed
  <1>7. EventHasConnection'
    BY DEF IInv, TypeOK, Queues, EventHasConnection
  <1>8. CountIsOffByEarly'
    <2> SUFFICES ASSUME NEW e \in Daemons
                 PROVE  (count[e] + uncounted[e] = Cardinality(served[e]))'
      BY DEF CountIsOffByEarly
    <2>1. /\ count[e] + uncounted[e] = Cardinality(served[e])
          /\ served \in [Daemons -> SUBSET Clients]
          /\ count \in [Daemons -> Int] /\ uncounted \in [Daemons -> Int]
      BY DEF IInv, TypeOK, CountIsOffByEarly
    <2>2. CASE UNCHANGED <<served, count, uncounted>>
      BY <2>1, <2>2
    <2>3. CASE /\ served' = [served EXCEPT ![d] = {}]
               /\ count' = [count EXCEPT ![d] = 0]
               /\ uncounted' = [uncounted EXCEPT ![d] = 0]
      <3>1. CASE e = d
        <4>1. served'[e] = {} /\ count'[e] = 0 /\ uncounted'[e] = 0
          BY <2>1, <2>3, <3>1
        <4> QED BY <4>1, FS_EmptySet
      <3>2. CASE e # d
        <4>1. served'[e] = served[e] /\ count'[e] = count[e]
              /\ uncounted'[e] = uncounted[e]
          BY <2>1, <2>3, <3>2
        <4> QED BY <2>1, <4>1
      <3> QED BY <3>1, <3>2
    <2> QED BY <2>2, <2>3
  <1> QED BY <1>1, <1>2, <1>4, <1>5, <1>6, <1>7, <1>8 DEF IInv, Queues

LEMMA MainPreserves ==
  ASSUME IInv, NEW d \in Daemons, DaemonMain(d) \/ ExecFails(d)
  PROVE  IInv'
  <1>1. dpc' \in [Daemons -> Listening \cup
             {"none", "unlink", "bind", "listen", "clean", "exit", "gone"}]
    <2>1. PICK l \in Listening \cup {"bind", "listen", "clean", "exit", "gone"} :
            dpc' = [dpc EXCEPT ![d] = l]
      BY DEF DaemonMain, Unlink, Bind, BindFails, Listen, AddSocket,
         Constructed, RunReturns, Close, UnlinkAgain, Exit, ExecFails, Ends,
         DaemonStep, Listening
    <2> QED BY <2>1 DEF IInv, TypeOK
  <1>2. CASE \/ Unlink(d) \/ BindFails(d) \/ Listen(d) \/ Constructed(d)
             \/ RunReturns(d) \/ UnlinkAgain(d)
    <2>1. /\ UNCHANGED server /\ proc' = proc /\ enters' = enters
          /\ path' = path \/ path' = none
      BY <1>2 DEF Unlink, BindFails, Listen, Constructed, RunReturns,
         UnlinkAgain
    <2>2. path' \in Daemons \cup {none, stale} /\ proc \in [Clients -> Process]
      BY <2>1 DEF IInv, TypeOK
    <2> QED BY <1>1, <2>1, <2>2, FilePreserves
  <1>3. CASE Bind(d)
    BY <1>3, BindPreserves
  <1>4. CASE AddSocket(d)
    <2>1. /\ pending' = [pending EXCEPT ![d] = queue[d] # <<>>]
          /\ UNCHANGED <<path, proc, queue, served, count, stop, uncounted,
                         enters>>
      BY <1>4 DEF AddSocket
    <2>2. TypeOK'
      <3> DEFINE b == queue[d] # <<>>
      <3>1. b \in BOOLEAN
        OBVIOUS
      <3> HIDE DEF b
      <3>2. pending' \in [Daemons -> BOOLEAN]
        BY <2>1, <3>1 DEF IInv, TypeOK, b
      <3> QED BY <1>1, <2>1, <3>2 DEF IInv, TypeOK
    <2>3. EventHasConnection'
      BY <2>1 DEF IInv, TypeOK, Queues, EventHasConnection
    <2> QED BY <2>1, <2>2, <2>3 DEF IInv, OffIsOff, KnownToOne, Queues,
               OnceInQueue, WaitingOrServed, Waiting, CountIsOffByEarly
  <1>5. CASE Close(d)
    BY <1>1, <1>5, EmptyPreserves DEF Close, IInv, TypeOK
  <1>6. CASE Ends(d)
    BY <1>1, <1>6, EmptyPreserves DEF Ends, IInv, TypeOK
  <1> QED BY <1>2, <1>3, <1>4, <1>5, <1>6 DEF DaemonMain, Exit, ExecFails

-----------------------------------------------------------------------------
(* The connections of the daemons.                                         *)

LEMMA ServedFinite ==
  ASSUME IInv, NEW d \in Daemons
  PROVE  IsFiniteSet(served[d]) /\ Cardinality(served[d]) \in Nat
  <1>1. served[d] \subseteq Clients
    BY DEF IInv, TypeOK
  <1> QED BY <1>1, BoundsAssumption, FS_Subset, FS_CardinalityType

LEMMA IncomingPreserves ==
  ASSUME IInv, NEW d \in Daemons, HandleIncoming(d)
  PROVE  IInv'
  <1> DEFINE s == queue[d]
             c == Head(s)
             t == Tail(s)
  <1>1. /\ queue \in [Daemons -> Seq(Clients)]
        /\ pending \in [Daemons -> BOOLEAN]
        /\ served \in [Daemons -> SUBSET Clients]
        /\ count \in [Daemons -> Int] /\ uncounted \in [Daemons -> Int]
    BY DEF IInv, TypeOK
  <1>2. /\ pending[d]
        /\ pending' = [pending EXCEPT ![d] = FALSE]
        /\ queue' = [queue EXCEPT ![d] = t]
        /\ served' = [served EXCEPT ![d] = served[d] \cup {c}]
        /\ UNCHANGED <<path, proc, dpc, stop, enters>>
    BY DEF HandleIncoming
  <1>3. \/ /\ uncounted' = [uncounted EXCEPT ![d] = uncounted[d] + 1]
           /\ count' = count
        \/ /\ count' = [count EXCEPT ![d] = count[d] + 1]
           /\ uncounted' = uncounted
    BY DEF HandleIncoming
  <1>4. /\ s \in Seq(Clients) /\ s # <<>>
        /\ \A i, j \in DOMAIN s : s[i] = s[j] => i = j
    BY <1>1, <1>2 DEF IInv, Queues, OnceInQueue, EventHasConnection
  <1>5. /\ c \in Clients /\ t \in Seq(Clients)
        /\ c \in {s[i] : i \in DOMAIN s}
        /\ {t[i] : i \in DOMAIN t} = {s[i] : i \in DOMAIN s} \ {c}
        /\ \A i, j \in DOMAIN t : t[i] = t[j] => i = j
    BY <1>4, ElementsOfTail
  <1>6. Waiting(d) = {s[i] : i \in DOMAIN s}
    BY DEF Waiting
  <1>7. queue'[d] = t /\ served'[d] = served[d] \cup {c}
    BY <1>1, <1>2
  <1> HIDE DEF c, s, t
  <1>8. Waiting(d)' = Waiting(d) \ {c} /\ c \in Waiting(d)
    <2>1. Waiting(d)' = {t[i] : i \in DOMAIN t}
      BY <1>7 DEF Waiting
    <2> QED BY <1>5, <1>6, <2>1
  <1>9. ASSUME NEW e \in Daemons, e # d
        PROVE  /\ queue'[e] = queue[e] /\ Waiting(e)' = Waiting(e)
               /\ served'[e] = served[e] /\ pending'[e] = pending[e]
               /\ count'[e] = count[e] /\ uncounted'[e] = uncounted[e]
    <2>1. queue'[e] = queue[e] /\ served'[e] = served[e] /\ pending'[e] = pending[e]
      BY <1>1, <1>2, <1>9
    <2>2. count'[e] = count[e] /\ uncounted'[e] = uncounted[e]
      BY <1>1, <1>3, <1>9
    <2> QED BY <2>1, <2>2 DEF Waiting
  <1>10. TypeOK'
    <2>1. count' \in [Daemons -> Int] /\ uncounted' \in [Daemons -> Int]
      <3>1. count[d] + 1 \in Int /\ uncounted[d] + 1 \in Int
        BY <1>1
      <3>2. CASE /\ uncounted' = [uncounted EXCEPT ![d] = uncounted[d] + 1]
                 /\ count' = count
        BY <1>1, <3>1, <3>2
      <3>3. CASE /\ count' = [count EXCEPT ![d] = count[d] + 1]
                 /\ uncounted' = uncounted
        BY <1>1, <3>1, <3>3
      <3> QED BY <1>3, <3>2, <3>3
    <2>2. pending' \in [Daemons -> BOOLEAN]
      BY <1>1, <1>2
    <2>3. queue' \in [Daemons -> Seq(Clients)]
      BY <1>1, <1>2, <1>5
    <2>4. served' \in [Daemons -> SUBSET Clients]
      BY <1>1, <1>2, <1>5
    <2> QED BY <1>2, <2>1, <2>2, <2>3, <2>4 DEF IInv, TypeOK
  <1>11. OffIsOff'
    BY <1>2 DEF IInv, OffIsOff
  <1>12. KnownToOne'
    <2>1. \A e \in Daemons :
            Waiting(e)' \cup served'[e] = Waiting(e) \cup served[e]
      BY <1>7, <1>8, <1>9
    <2> QED BY <1>2, <2>1 DEF IInv, KnownToOne
  <1>13. OnceInQueue'
    BY <1>5, <1>7, <1>9 DEF IInv, Queues, OnceInQueue
  <1>14. WaitingOrServed'
    BY <1>7, <1>8, <1>9 DEF IInv, Queues, WaitingOrServed
  <1>15. EventHasConnection'
    <2>1. ~pending'[d]
      BY <1>1, <1>2
    <2> QED BY <1>9, <2>1 DEF IInv, Queues, EventHasConnection
  <1>16. CountIsOffByEarly'
    <2>1. c \notin served[d]
      BY <1>8 DEF IInv, Queues, WaitingOrServed
    <2>2. Cardinality(served[d] \cup {c}) = Cardinality(served[d]) + 1
      BY <2>1, ServedFinite, FS_AddElement
    <2>3. count'[d] + uncounted'[d] = count[d] + uncounted[d] + 1
      BY <1>1, <1>3
    <2>4. count[d] + uncounted[d] = Cardinality(served[d])
      BY DEF IInv, CountIsOffByEarly
    <2>5. count'[d] + uncounted'[d] = Cardinality(served'[d])
      BY <1>7, <2>2, <2>3, <2>4
    <2> QED BY <1>9, <2>5 DEF IInv, CountIsOffByEarly
  <1> QED BY <1>10, <1>11, <1>12, <1>13, <1>14, <1>15, <1>16 DEF IInv, Queues

LEMMA ClosedPreserves ==
  ASSUME IInv, NEW d \in Daemons, NEW c \in Clients, ConnectionClosed(d, c)
  PROVE  IInv'
  <1>1. /\ queue \in [Daemons -> Seq(Clients)]
        /\ served \in [Daemons -> SUBSET Clients]
        /\ count \in [Daemons -> Int] /\ uncounted \in [Daemons -> Int]
        /\ stop \in [Daemons -> BOOLEAN]
    BY DEF IInv, TypeOK
  <1>2. /\ c \in served[d]
        /\ served' = [served EXCEPT ![d] = served[d] \ {c}]
        /\ \/ /\ count' = [count EXCEPT ![d] = count[d] - 1]
              /\ uncounted' = uncounted
           \/ /\ uncounted' = [uncounted EXCEPT ![d] = uncounted[d] - 1]
              /\ count' = count
        /\ UNCHANGED <<path, proc, dpc, queue, pending, enters>>
    BY DEF ConnectionClosed, Forget, HasLeft
  <1>3. stop' \in [Daemons -> BOOLEAN]
    <2> DEFINE b == stop[d] \/ (Counts(d) /\ count'[d] = 0)
    <2>1. b \in BOOLEAN /\ stop' = [stop EXCEPT ![d] = b]
      BY <1>1 DEF ConnectionClosed
    <2> HIDE DEF b
    <2> QED BY <1>1, <2>1
  <1>4. \A e \in Daemons : /\ Waiting(e)' = Waiting(e)
                           /\ served'[e] \subseteq served[e]
                           /\ e # d => /\ served'[e] = served[e]
                                       /\ count'[e] = count[e]
                                       /\ uncounted'[e] = uncounted[e]
    BY <1>1, <1>2 DEF Waiting
  <1>5. TypeOK'
    <2>1. count' \in [Daemons -> Int] /\ uncounted' \in [Daemons -> Int]
      <3>1. count[d] - 1 \in Int /\ uncounted[d] - 1 \in Int
        BY <1>1
      <3> QED BY <1>1, <1>2, <3>1
    <2>2. served' \in [Daemons -> SUBSET Clients]
      BY <1>1, <1>2
    <2>3. TypeOK
      BY DEF IInv
    <2> QED BY <1>2, <1>3, <2>1, <2>2, <2>3 DEF TypeOK
  <1>6. OffIsOff'
    BY <1>2 DEF IInv, OffIsOff
  <1>7. KnownToOne'
    BY <1>2, <1>4 DEF IInv, KnownToOne
  <1>8. Queues'
    BY <1>2, <1>4 DEF IInv, Queues, OnceInQueue, WaitingOrServed,
       EventHasConnection
  <1>9. CountIsOffByEarly'
    <2>1. Cardinality(served[d] \ {c}) = Cardinality(served[d]) - 1
      BY <1>2, ServedFinite, FS_RemoveElement
    <2>2. /\ served'[d] = served[d] \ {c}
          /\ \/ count'[d] = count[d] - 1 /\ uncounted'[d] = uncounted[d]
             \/ uncounted'[d] = uncounted[d] - 1 /\ count'[d] = count[d]
      BY <1>1, <1>2
    <2>3. count[d] + uncounted[d] = Cardinality(served[d])
      BY DEF IInv, CountIsOffByEarly
    <2>4. count'[d] + uncounted'[d] = Cardinality(served'[d])
      BY <1>1, <2>1, <2>2, <2>3
    <2> QED BY <1>2, <1>4, <2>4 DEF IInv, CountIsOffByEarly
  <1> QED BY <1>5, <1>6, <1>7, <1>8, <1>9 DEF IInv

-----------------------------------------------------------------------------
(* The theorems.                                                           *)

LEMMA InitIInv == Init => IInv
  <1> SUFFICES ASSUME Init PROVE IInv
    OBVIOUS
  <1>1. \A d \in Daemons : queue[d] = <<>> /\ served[d] = {} /\ Waiting(d) = {}
                          /\ count[d] = 0 /\ uncounted[d] = 0 /\ ~pending[d]
    BY DEF Init, Waiting
  <1>2. TypeOK
    <2>1. <<>> \in Seq(Clients) /\ 0 \in 0..MaxEnters
      BY BoundsAssumption
    <2>2. proc \in [Clients -> Process]
      BY OffType DEF Init
    <2> QED BY <2>1, <2>2 DEF Init, TypeOK
  <1>3. OffIsOff
    BY DEF Init, OffIsOff
  <1>4. KnownToOne /\ WaitingOrServed
    BY <1>1 DEF KnownToOne, WaitingOrServed
  <1>5. OnceInQueue /\ EventHasConnection
    BY <1>1 DEF OnceInQueue, EventHasConnection
  <1>6. CountIsOffByEarly
    <2> SUFFICES ASSUME NEW d \in Daemons
                 PROVE  count[d] + uncounted[d] = Cardinality(served[d])
      BY DEF CountIsOffByEarly
    <2>1. Cardinality(served[d]) = 0
      BY <1>1, FS_EmptySet
    <2> QED BY <1>1, <2>1
  <1> QED BY <1>2, <1>3, <1>4, <1>5, <1>6 DEF IInv, Queues

LEMMA NextIInv == IInv /\ [Next]_vars => IInv'
  <1> SUFFICES ASSUME IInv, [Next]_vars PROVE IInv'
    OBVIOUS
  <1>1. ASSUME NEW c \in Clients,
               Open(c, "main") \/ ClientIo(c) \/ Enter(c) \/ Leave(c)
        PROVE  IInv'
    BY <1>1, OpenPreserves, CallbackPreserves, EnterLeavePreserve
       DEF ClientIo, Threads
  <1>2. ASSUME NEW d \in Daemons, DaemonMain(d) \/ DaemonIo(d) \/ ExecFails(d)
        PROVE  IInv'
    BY <1>2, MainPreserves, IncomingPreserves, ClosedPreserves DEF DaemonIo
  <1>3. CASE UNCHANGED vars
    <2>1. UNCHANGED <<path, proc, dpc, queue, pending, served, count, stop,
                      uncounted, enters>>
      BY <1>3 DEF vars, server
    <2>2. TypeOK' /\ OffIsOff'
      BY <2>1 DEF IInv, TypeOK, OffIsOff
    <2>3. \A d \in Daemons : Waiting(d)' = Waiting(d)
      BY <2>1 DEF Waiting
    <2>4. KnownToOne' /\ Queues' /\ CountIsOffByEarly'
      BY <2>1, <2>3 DEF IInv, KnownToOne, Queues, OnceInQueue,
         WaitingOrServed, EventHasConnection, CountIsOffByEarly
    <2> QED BY <2>2, <2>4 DEF IInv
  <1> QED BY <1>1, <1>2, <1>3 DEF Next

(***************************************************************************)
(* Every variable keeps to its type: the count of a daemon may fall below  *)
(* zero, but nothing else that the handlers do leaves what they expect.    *)
(***************************************************************************)
THEOREM TypeCorrect == Spec => []TypeOK
  <1>1. IInv => TypeOK
    BY DEF IInv
  <1> QED BY <1>1, InitIInv, NextIInv, PTL DEF Spec, Safety

(***************************************************************************)
(* What a daemon has counted, with what came and went while the callbacks  *)
(* of the base class were called, is the number of its connections: no     *)
(* client is counted or forgotten twice, and none of them is missed        *)
(* (service.h:29-31, auto_shutdown_service.h:36-44,                        *)
(* unix_service_impl.cpp:58-82).                                           *)
(***************************************************************************)
THEOREM CountIsRight == Spec => []CountIsOffByEarly
  <1>1. IInv => CountIsOffByEarly
    BY DEF IInv
  <1> QED BY <1>1, InitIInv, NextIInv, PTL DEF Spec, Safety

\* The only step that makes a daemon stop is the end of a connection.
LEMMA StopStep ==
  ASSUME IInv, IInv', [Next]_vars, NEW d \in Daemons, stop'[d], ~stop[d]
  PROVE  Cardinality(served'[d]) = uncounted[d]
  <1>1. stop \in [Daemons -> BOOLEAN]
    BY DEF IInv, TypeOK
  <1>2. ASSUME NEW e \in Daemons, Ends(e) PROVE FALSE
    BY <1>1, <1>2 DEF Ends
  <1>3. stop' # stop
    OBVIOUS
  <1>4. PICK e \in Daemons, c \in Clients : ConnectionClosed(e, c)
    <2>1. ASSUME NEW c \in Clients,
                 Open(c, "main") \/ ClientIo(c) \/ Enter(c) \/ Leave(c)
          PROVE  FALSE
      BY <1>3, <2>1 DEF Open, Stat, Connects, Refused, Register, Hello, Watch,
         Start, StartFails, Waited, ClientIo, Notified, Closed, Enter, Leave,
         server
    <2>2. ASSUME NEW e \in Daemons,
                 DaemonMain(e) \/ ExecFails(e) \/ HandleIncoming(e)
          PROVE  FALSE
      BY <1>2, <1>3, <2>2 DEF DaemonMain, Unlink, Bind, BindFails, Listen,
         AddSocket, Constructed, RunReturns, Close, UnlinkAgain, Exit,
         ExecFails, HandleIncoming, server
    <2>3. CASE UNCHANGED vars
      BY <1>3, <2>3 DEF vars, server
    <2> QED BY <2>1, <2>2, <2>3 DEF Next, DaemonIo
  <1>5. e = d /\ count'[d] = 0 /\ uncounted'[d] = uncounted[d]
    <2>1. ConnectionClosed(e, c)
      BY <1>4
    <2>2. e = d
      BY <1>1, <2>1 DEF ConnectionClosed
    <2>3. Counts(d) /\ count'[d] = 0
      BY <1>1, <2>1, <2>2 DEF ConnectionClosed
    <2> QED BY <2>1, <2>2, <2>3 DEF ConnectionClosed, Forget
  <1>6. count'[d] + uncounted'[d] = Cardinality(served'[d])
    BY DEF IInv, CountIsOffByEarly
  <1>7. uncounted[d] \in Int
    BY DEF IInv, TypeOK
  <1> QED BY <1>5, <1>6, <1>7

(***************************************************************************)
(* A daemon decides to stop only when it has as many clients as it had at  *)
(* the end of its constructor, which are those it never counted; when it   *)
(* had none, only when nobody is connected (auto_shutdown_service.h:36-44, *)
(* auto_shutdown_service.cpp:10-15).                                       *)
(***************************************************************************)
THEOREM StopsOnlyWhenIdle == Spec => StopsWhenIdle
  <1>1. IInv /\ IInv' /\ [Next]_vars
          => [\A d \in Daemons :
                stop'[d] /\ ~stop[d]
                  => Cardinality(served'[d]) = uncounted[d]]_vars
    BY StopStep
  <1> QED BY <1>1, InitIInv, NextIInv, PTL DEF Spec, Safety, StopsWhenIdle
=============================================================================
