------------------------ MODULE EventManager_proofs ------------------------
(***************************************************************************)
(* Proofs about EventManager for all limits and any number of threads.     *)
(* The argument: whatever the tasks and the adders do, an event that has   *)
(* been accepted is in exactly one place, where those that are confirmed   *)
(* and still at the front of a batch count as confirmed; each step moves   *)
(* the first events of one place to the end of another, or adds one that   *)
(* was nowhere.                                                            *)
(***************************************************************************)
EXTENDS EventManager, TLAPS, FiniteSetTheorems, SequenceTheorems

-----------------------------------------------------------------------------
(* The invariant.                                                          *)

Places == {"realtime", "critical", "hand", "disk", "mem", "confirmed"}

WhereOf(r, c, h, d, m, f) ==
    [p \in Places |-> IF p = "realtime" THEN r
                      ELSE IF p = "critical" THEN c
                      ELSE IF p = "hand" THEN h
                      ELSE IF p = "disk" THEN d
                      ELSE IF p = "mem" THEN m ELSE f]

\* The events at the front of each batch that are confirmed already.
AckReal == IF rpc = "ack" THEN rlist.mem ELSE 0
AckCritical == IF mpc = "ack" /\ mlist.type = "critical" THEN mlist.disk ELSE 0
AckDisk == IF mpc = "ack" /\ mlist.type # "critical" THEN mlist.disk ELSE 0
AckMem == IF mpc = "ack" /\ mlist.type # "critical" THEN mlist.mem ELSE 0

Where == WhereOf(Drop(realtime, AckReal), Drop(critical, AckCritical), hand,
                 Drop(normal.disk, AckDisk), Drop(normal.mem, AckMem),
                 confirmed)

\* Every event is in one place, once.
OnePlace(W) ==
    \A p, q \in Places :
        \A i \in 1..Len(W[p]), j \in 1..Len(W[q]) :
            W[p][i] = W[q][j] => p = q /\ i = j
In(W, e) == \E p \in Places : \E i \in 1..Len(W[p]) : W[p][i] = e

Pending(a) == apc[a] \in {"realtime", "store"}

AddingIsEvent == \A a \in Adders : Pending(a) => adding[a] \in Events

\* A list is what is still at the front of its batch.
CriticalIsFront ==
    mpc \in {"post", "ack"} /\ mlist.type = "critical" =>
        /\ mlist.disk <= Len(critical)
        /\ mlist.events = First(critical, mlist.disk)
NormalIsFront ==
    mpc \in {"post", "ack"} /\ mlist.type # "critical" /\ ~overtaken =>
        /\ mlist.disk <= Len(normal.disk) /\ mlist.mem <= Len(normal.mem)
        /\ mlist.events = First(normal.disk, mlist.disk)
                            \o First(normal.mem, mlist.mem)
RealIsFront ==
    rpc \in {"post", "ack"} =>
        /\ rlist.mem <= Len(realtime)
        /\ rlist.events = First(realtime, rlist.mem)

\* All that is accepted is in some place, and in one.
AcceptedIsSomewhere == ~overtaken => \A e \in accepted : In(Where, e)
SomewhereOnce == ~overtaken => OnePlace(Where)

\* What is being added is nowhere, and numbers are given once.
AddingIsNew ==
    /\ \A a \in Adders : Pending(a) => adding[a].n <= count
    /\ \A a, b \in Adders : Pending(a) /\ Pending(b) /\ a # b =>
            adding[a] # adding[b]
    /\ ~overtaken =>
        /\ \A e \in Events : In(Where, e) => e.n <= count
        /\ \A a \in Adders : Pending(a) => ~In(Where, adding[a])

\* Critical events never get into the normal batch.
AckIsConfirmed ==
    /\ mpc = "ack" => Elements(mlist.events) \subseteq Elements(confirmed)
    /\ rpc = "ack" => Elements(rlist.events) \subseteq Elements(confirmed)
CriticalIsSomewhere ==
    \A e \in accepted : e.critical =>
        e \in Elements(realtime) \cup Elements(critical) \cup Elements(hand)
                \cup Elements(confirmed)

\* Nobody forgets the realtime batch, and at the end nothing is left.
HandIsSpread == rpc # "spread" => hand = <<>>
RealtimeIsSeen ==
    realtime # <<>> =>
        realWanted \/ rpc # "idle" \/ \E a \in Adders : apc[a] = "askReal"
AddersAreGone ==
    opc \notin {"new", "live"} => \A a \in Adders : apc[a] = "idle"
EndIsQuiet ==
    /\ opc \in {"again", "done"} => RealQuiet
    /\ opc = "done" => MainQuiet /\ normal.mem = <<>>

IInv ==
    /\ TypeOK /\ AddingIsEvent
    /\ CriticalIsFront /\ NormalIsFront /\ RealIsFront
    /\ AcceptedIsSomewhere /\ SomewhereOnce /\ AddingIsNew
    /\ AckIsConfirmed /\ CriticalIsSomewhere
    /\ HandIsSpread /\ RealtimeIsSeen /\ AddersAreGone /\ EndIsQuiet

-----------------------------------------------------------------------------
(* Facts about sequences.                                                  *)

\* A sequence cut in two: lengths and members of the parts.
LEMMA FirstAndDrop ==
    ASSUME NEW S, NEW q \in Seq(S), NEW n \in 0..Len(q)
    PROVE  /\ First(q, n) \in Seq(S) /\ Len(First(q, n)) = n
           /\ \A i \in 1..n : First(q, n)[i] = q[i]
           /\ Drop(q, n) \in Seq(S) /\ Len(Drop(q, n)) = Len(q) - n
           /\ \A i \in 1..Len(q) - n : Drop(q, n)[i] = q[n + i]
<1>1. Len(q) \in Nat /\ \A i \in 1..Len(q) : q[i] \in S
  OBVIOUS
<1>2. /\ First(q, n) \in Seq(S)
      /\ Len(First(q, n)) = IF 1 <= n THEN n - 1 + 1 ELSE 0
      /\ \A i \in 1..n - 1 + 1 : First(q, n)[i] = q[1 + i - 1]
  <2>1. \A i \in 1..n : q[i] \in S
    BY <1>1
  <2> QED
    BY <2>1, SubSeqProperties DEF First
<1>3. /\ Drop(q, n) \in Seq(S)
      /\ Len(Drop(q, n)) = IF n + 1 <= Len(q) THEN Len(q) - (n + 1) + 1 ELSE 0
      /\ \A i \in 1..Len(q) - (n + 1) + 1 : Drop(q, n)[i] = q[n + 1 + i - 1]
  <2>1. \A i \in n + 1..Len(q) : q[i] \in S
    BY <1>1
  <2>2. n + 1 \in Int /\ Len(q) \in Int
    BY <1>1
  <2> QED
    BY <2>1, <2>2, SubSeqProperties DEF Drop
<1> QED
  BY <1>1, <1>2, <1>3

\* The two extreme cuts.
LEMMA AllOrNothing ==
    ASSUME NEW S, NEW q \in Seq(S)
    PROVE  /\ First(q, 0) = <<>> /\ Drop(q, 0) = q
           /\ First(q, Len(q)) = q /\ Drop(q, Len(q)) = <<>>
<1>1. Len(q) \in Nat
  OBVIOUS
<1> QED
  BY <1>1, SubSeqFull, SubSeqEmpty DEF First, Drop

\* What is put behind the first n does not change them.
LEMMA Behind ==
    ASSUME NEW S, NEW q \in Seq(S), NEW r \in Seq(S), NEW n \in 0..Len(q)
    PROVE  /\ First(q \o r, n) = First(q, n)
           /\ Drop(q \o r, n) = Drop(q, n) \o r
<1>1. /\ q \o r \in Seq(S) /\ Len(q \o r) = Len(q) + Len(r)
      /\ Len(q) \in Nat /\ Len(r) \in Nat
      /\ \A i \in 1..Len(q) + Len(r) :
            (q \o r)[i] = IF i <= Len(q) THEN q[i] ELSE r[i - Len(q)]
  BY ConcatProperties
<1>2. n \in 0..Len(q \o r)
  BY <1>1
<1>3. First(q \o r, n) = First(q, n)
  <2>1. /\ First(q \o r, n) \in Seq(S) /\ Len(First(q \o r, n)) = n
        /\ \A i \in 1..n : First(q \o r, n)[i] = (q \o r)[i]
    BY <1>1, <1>2, FirstAndDrop
  <2>2. /\ First(q, n) \in Seq(S) /\ Len(First(q, n)) = n
        /\ \A i \in 1..n : First(q, n)[i] = q[i]
    BY FirstAndDrop
  <2>3. \A i \in 1..n : (q \o r)[i] = q[i]
    BY <1>1
  <2> HIDE DEF First
  <2> QED
    BY <2>1, <2>2, <2>3, SeqEqual
<1>4. Drop(q \o r, n) = Drop(q, n) \o r
  <2> DEFINE a == Drop(q \o r, n)
             d == Drop(q, n)
             b == d \o r
  <2>1. /\ a \in Seq(S) /\ Len(a) = Len(q) + Len(r) - n
        /\ \A i \in 1..Len(q) + Len(r) - n : a[i] = (q \o r)[n + i]
    <3> DEFINE s == q \o r
    <3>1. s \in Seq(S) /\ n \in 0..Len(s) /\ Len(s) = Len(q) + Len(r)
      BY <1>1, <1>2
    <3> HIDE DEF s
    <3>2. /\ Drop(s, n) \in Seq(S) /\ Len(Drop(s, n)) = Len(s) - n
          /\ \A i \in 1..Len(s) - n : Drop(s, n)[i] = s[n + i]
      BY <3>1, FirstAndDrop
    <3> QED
      BY <3>1, <3>2 DEF s
  <2>2. /\ d \in Seq(S) /\ Len(d) = Len(q) - n
        /\ \A i \in 1..Len(q) - n : d[i] = q[n + i]
    BY FirstAndDrop
  <2> HIDE DEF a, d
  <2>3. /\ b \in Seq(S) /\ Len(b) = Len(q) - n + Len(r)
        /\ \A i \in 1..Len(q) - n + Len(r) :
              b[i] = IF i <= Len(q) - n THEN d[i] ELSE r[i - (Len(q) - n)]
    <3>1. /\ b \in Seq(S) /\ Len(b) = Len(d) + Len(r)
          /\ \A i \in 1..Len(d) + Len(r) :
                b[i] = IF i <= Len(d) THEN d[i] ELSE r[i - Len(d)]
      BY <2>2, ConcatProperties
    <3> HIDE DEF b
    <3> QED
      BY <2>2, <3>1
  <2> HIDE DEF b
  <2>4. ASSUME NEW i \in 1..Len(a) PROVE a[i] = b[i]
    <3>1. n + i \in 1..Len(q) + Len(r)
      BY <1>1, <2>1
    <3>2. CASE i <= Len(q) - n
      <4>1. i \in 1..Len(q) - n /\ n + i <= Len(q)
        BY <1>1, <3>2
      <4> QED
        BY <1>1, <2>1, <2>2, <2>3, <3>1, <4>1
    <3>3. CASE ~ (i <= Len(q) - n)
      <4>1. ~ (n + i <= Len(q)) /\ n + i - Len(q) = i - (Len(q) - n)
        BY <1>1, <3>3
      <4>2. a[i] = (q \o r)[n + i] /\ (q \o r)[n + i] = r[n + i - Len(q)]
        BY <1>1, <2>1, <3>1, <4>1
      <4>3. b[i] = r[i - (Len(q) - n)]
        <5>1. i \in 1..Len(q) - n + Len(r)
          BY <1>1, <2>1
        <5> QED
          BY <2>3, <3>3, <5>1
      <4> QED
        BY <4>1, <4>2, <4>3
    <3> QED
      BY <3>2, <3>3
  <2>5. Len(a) = Len(b)
    BY <1>1, <2>1, <2>3
  <2>6. a = b
    BY <2>1, <2>3, <2>4, <2>5, SeqEqual
  <2> QED
    BY <2>6 DEF a, b, d
<1> QED
  BY <1>3, <1>4

\* The same for one member that is appended.
LEMMA OneBehind ==
    ASSUME NEW S, NEW q \in Seq(S), NEW e \in S, NEW n \in 0..Len(q)
    PROVE  /\ First(Append(q, e), n) = First(q, n)
           /\ Drop(Append(q, e), n) = Append(Drop(q, n), e)
<1>1. <<e>> \in Seq(S) /\ Append(q, e) = q \o <<e>>
  BY AppendIsConcat
<1>2. Append(Drop(q, n), e) = Drop(q, n) \o <<e>>
  BY FirstAndDrop, AppendIsConcat
<1> QED
  BY <1>1, <1>2, Behind

LEMMA ElementsOf ==
    ASSUME NEW S, NEW q \in Seq(S)
    PROVE  Elements(q) = {q[i] : i \in 1..Len(q)} /\ Elements(q) \subseteq S
<1>1. DOMAIN q = 1..Len(q) /\ \A i \in 1..Len(q) : q[i] \in S
  OBVIOUS
<1> QED
  BY <1>1 DEF Elements

\* What a sequence has as members when it is put together ...
LEMMA ElementsOfConcat ==
    ASSUME NEW S, NEW q \in Seq(S), NEW r \in Seq(S)
    PROVE  Elements(q \o r) = Elements(q) \cup Elements(r)
<1>1. /\ q \o r \in Seq(S) /\ Len(q \o r) = Len(q) + Len(r)
      /\ Len(q) \in Nat /\ Len(r) \in Nat
      /\ \A i \in 1..Len(q) + Len(r) :
            (q \o r)[i] = IF i <= Len(q) THEN q[i] ELSE r[i - Len(q)]
  BY ConcatProperties
<1>2. /\ Elements(q) = {q[i] : i \in 1..Len(q)}
      /\ Elements(r) = {r[i] : i \in 1..Len(r)}
      /\ Elements(q \o r) = {(q \o r)[i] : i \in 1..Len(q) + Len(r)}
  BY <1>1, ElementsOf
<1>3. ASSUME NEW i \in 1..Len(q) + Len(r)
      PROVE  (q \o r)[i] \in Elements(q) \cup Elements(r)
  <2>1. CASE i <= Len(q)
    BY <1>1, <1>2, <2>1
  <2>2. CASE ~ (i <= Len(q))
    <3>1. i - Len(q) \in 1..Len(r) /\ (q \o r)[i] = r[i - Len(q)]
      BY <1>1, <2>2
    <3> QED
      BY <1>2, <3>1
  <2> QED
    BY <2>1, <2>2
<1>4. ASSUME NEW i \in 1..Len(q) PROVE q[i] \in Elements(q \o r)
  <2>1. i \in 1..Len(q) + Len(r) /\ (q \o r)[i] = q[i]
    BY <1>1
  <2> QED
    BY <1>2, <2>1
<1>5. ASSUME NEW i \in 1..Len(r) PROVE r[i] \in Elements(q \o r)
  <2>1. Len(q) + i \in 1..Len(q) + Len(r) /\ (q \o r)[Len(q) + i] = r[i]
    BY <1>1
  <2> QED
    BY <1>2, <2>1
<1> QED
  BY <1>2, <1>3, <1>4, <1>5

LEMMA ElementsOfAppend ==
    ASSUME NEW S, NEW q \in Seq(S), NEW e \in S
    PROVE  Elements(Append(q, e)) = Elements(q) \cup {e}
<1> DEFINE t == <<e>>
<1>1. t \in Seq(S) /\ Append(q, e) = q \o t
  BY AppendIsConcat
<1>2. Elements(t) = {e}
  BY DEF Elements
<1> HIDE DEF t
<1>3. Elements(q \o t) = Elements(q) \cup Elements(t)
  BY <1>1, ElementsOfConcat
<1> QED
  BY <1>1, <1>2, <1>3, Zenon

\* ... and when it is cut.
LEMMA ElementsOfParts ==
    ASSUME NEW S, NEW q \in Seq(S), NEW n \in 0..Len(q)
    PROVE  Elements(q) = Elements(First(q, n)) \cup Elements(Drop(q, n))
<1>1. Len(q) \in Nat
  OBVIOUS
<1>2. First(q, n) \o Drop(q, n) = q
  <2>1. SubSeq(q, 1, n) \o SubSeq(q, n + 1, Len(q)) = SubSeq(q, 1, Len(q))
    <3>1. 1 \in 1..Len(q) + 1 /\ n \in 0..Len(q) /\ Len(q) \in n..Len(q)
      BY <1>1
    <3>2. n \in 1 - 1..Len(q)
      BY <3>1
    <3> QED
      BY <3>1, <3>2, ConcatAdjacentSubSeq
  <2> QED
    BY <2>1, SubSeqFull DEF First, Drop
<1> DEFINE a == First(q, n)
           b == Drop(q, n)
<1>3. a \in Seq(S) /\ b \in Seq(S)
  BY FirstAndDrop
<1> HIDE DEF a, b
<1>4. Elements(a \o b) = Elements(a) \cup Elements(b)
  BY <1>3, ElementsOfConcat
<1>5. a \o b = q
  BY <1>2 DEF a, b
<1> QED
  BY <1>4, <1>5, Zenon DEF a, b

-----------------------------------------------------------------------------
(* Facts about places.                                                     *)

LEMMA PlacesOf ==
    ASSUME NEW r, NEW c, NEW h, NEW d, NEW m, NEW f
    PROVE  LET W == WhereOf(r, c, h, d, m, f)
           IN  /\ DOMAIN W = Places
               /\ W["realtime"] = r /\ W["critical"] = c /\ W["hand"] = h
               /\ W["disk"] = d /\ W["mem"] = m /\ W["confirmed"] = f
BY DEF WhereOf, Places

LEMMA PlacesType ==
    ASSUME NEW r \in Seq(Events), NEW c \in Seq(Events),
           NEW h \in Seq(Events), NEW d \in Seq(Events),
           NEW m \in Seq(Events), NEW f \in Seq(Events)
    PROVE  WhereOf(r, c, h, d, m, f) \in [Places -> Seq(Events)]
<1> HIDE DEF Events
<1> QED
  BY DEF WhereOf

\* The first n of one place go to the end of another.
Moves(W, V, a, b, n) ==
    /\ a # b /\ n \in 0..Len(W[a])
    /\ V[a] = Drop(W[a], n) /\ V[b] = W[b] \o First(W[a], n)
    /\ \A p \in Places \ {a, b} : V[p] = W[p]

LEMMA Move ==
    ASSUME NEW S, NEW W \in [Places -> Seq(S)], NEW V \in [Places -> Seq(S)],
           NEW a \in Places, NEW b \in Places, NEW n, Moves(W, V, a, b, n),
           OnePlace(W)
    PROVE  OnePlace(V) /\ \A e : In(V, e) <=> In(W, e)
<1> USE DEF Moves
<1> DEFINE first(p) == IF p = a THEN n ELSE 0
           \* where V[p][i] comes from
           pl(p, i) == IF p = b /\ i > Len(W[b]) THEN a ELSE p
           ix(p, i) == IF p = a THEN n + i
                       ELSE IF p = b /\ i > Len(W[b]) THEN i - Len(W[b])
                       ELSE i
<1>1. \A p \in Places : W[p] \in Seq(S) /\ Len(W[p]) \in Nat
                  /\ V[p] \in Seq(S) /\ Len(V[p]) \in Nat
  OBVIOUS
<1>2. n \in Nat /\ n <= Len(W[a])
  BY <1>1
<1>3. /\ Len(V[a]) = Len(W[a]) - n
      /\ \A i \in 1..Len(W[a]) - n : V[a][i] = W[a][n + i]
      /\ First(W[a], n) \in Seq(S) /\ Len(First(W[a], n)) = n
      /\ \A i \in 1..n : First(W[a], n)[i] = W[a][i]
  <2> DEFINE s == W[a]
  <2>1. s \in Seq(S) /\ n \in 0..Len(s) /\ V[a] = Drop(s, n)
    BY <1>1
  <2> HIDE DEF s
  <2>2. /\ First(s, n) \in Seq(S) /\ Len(First(s, n)) = n
        /\ \A i \in 1..n : First(s, n)[i] = s[i]
        /\ Len(Drop(s, n)) = Len(s) - n
        /\ \A i \in 1..Len(s) - n : Drop(s, n)[i] = s[n + i]
    BY <2>1, FirstAndDrop
  <2> QED
    BY <2>1, <2>2 DEF s
<1>4. /\ Len(V[b]) = Len(W[b]) + n
      /\ \A i \in 1..Len(W[b]) + n :
            V[b][i] = IF i <= Len(W[b]) THEN W[b][i]
                      ELSE First(W[a], n)[i - Len(W[b])]
  <2> DEFINE s == W[b]
             t == First(W[a], n)
  <2>1. s \in Seq(S) /\ t \in Seq(S) /\ Len(t) = n /\ V[b] = s \o t
    BY <1>1, <1>3
  <2> HIDE DEF s, t
  <2>2. /\ Len(s \o t) = Len(s) + Len(t)
        /\ \A i \in 1..Len(s) + Len(t) :
              (s \o t)[i] = IF i <= Len(s) THEN s[i] ELSE t[i - Len(s)]
    BY <2>1, ConcatProperties
  <2> QED
    BY <2>1, <2>2 DEF s, t
<1>5. ASSUME NEW p \in Places, NEW i \in 1..Len(V[p])
      PROVE  /\ pl(p, i) \in Places /\ ix(p, i) \in 1..Len(W[pl(p, i)])
             /\ V[p][i] = W[pl(p, i)][ix(p, i)]
  <2>1. CASE p = a
    BY <1>1, <1>2, <1>3, <2>1
  <2>2. CASE p = b /\ i > Len(W[b])
    <3>1. /\ i \in 1..Len(W[b]) + n /\ i - Len(W[b]) \in 1..n
          /\ ~ (i <= Len(W[b]))
      BY <1>1, <1>2, <1>4, <2>2
    <3>2. V[b][i] = W[a][i - Len(W[b])] /\ i - Len(W[b]) \in 1..Len(W[a])
      BY <1>1, <1>2, <1>3, <1>4, <3>1
    <3> QED
      BY <2>2, <3>2
  <2>3. CASE p = b /\ ~ (i > Len(W[b]))
    <3>1. i \in 1..Len(W[b]) + n /\ i <= Len(W[b]) /\ i \in 1..Len(W[b])
      BY <1>1, <1>2, <1>4, <2>3
    <3> QED
      BY <1>4, <2>3, <3>1
  <2>4. CASE p # a /\ p # b
    BY <1>1, <2>4
  <2> QED
    BY <2>1, <2>2, <2>3, <2>4
<1>6. ASSUME NEW p \in Places, NEW q \in Places,
             NEW i \in 1..Len(V[p]), NEW j \in 1..Len(V[q]),
             pl(p, i) = pl(q, j), ix(p, i) = ix(q, j)
      PROVE  p = q /\ i = j
  <2>1. i \in Nat /\ j \in Nat /\ Len(W[b]) \in Nat
    BY <1>1
  <2>2. CASE p = b /\ i > Len(W[b])
    <3>1. i - Len(W[b]) <= n
      BY <1>1, <1>2, <1>4, <2>2
    <3>2. q = b /\ j > Len(W[b])
      BY <1>2, <1>6, <2>1, <2>2, <3>1
    <3> QED
      BY <1>6, <2>1, <2>2, <3>2
  <2>3. CASE ~ (p = b /\ i > Len(W[b]))
    <3>1. CASE q = b /\ j > Len(W[b])
      <4>1. j - Len(W[b]) <= n
        BY <1>1, <1>2, <1>4, <3>1
      <4>2. p = b /\ i > Len(W[b])
        BY <1>2, <1>6, <2>1, <2>3, <3>1, <4>1
      <4> QED
        BY <2>3, <4>2
    <3>2. CASE ~ (q = b /\ j > Len(W[b]))
      <4>1. p = q
        BY <1>6, <2>3, <3>2
      <4> QED
        BY <1>2, <1>6, <2>1, <2>3, <3>2, <4>1
    <3> QED
      BY <3>1, <3>2
  <2> QED
    BY <2>2, <2>3
<1>8. OnePlace(V)
  <2> SUFFICES ASSUME NEW p \in Places, NEW q \in Places,
                      NEW i \in 1..Len(V[p]), NEW j \in 1..Len(V[q]),
                      V[p][i] = V[q][j]
               PROVE  p = q /\ i = j
    BY DEF OnePlace, In
  <2> HIDE DEF pl, ix
  <2>1. PICK u \in Places : u = pl(p, i) /\ \E k \in 1..Len(W[u]) :
            k = ix(p, i) /\ V[p][i] = W[u][k]
    BY <1>5, Zenon
  <2>2. PICK v \in Places : v = pl(q, j) /\ \E l \in 1..Len(W[v]) :
            l = ix(q, j) /\ V[q][j] = W[v][l]
    BY <1>5, Zenon
  <2>3. PICK k \in 1..Len(W[u]) : k = ix(p, i) /\ V[p][i] = W[u][k]
    BY <2>1
  <2>4. PICK l \in 1..Len(W[v]) : l = ix(q, j) /\ V[q][j] = W[v][l]
    BY <2>2
  <2>5. W[u][k] = W[v][l]
    BY <2>3, <2>4
  <2>6. u = v /\ k = l
    <3> HIDE DEF Moves
    <3> QED
      BY <2>5, SMTT(30) DEF OnePlace
  <2>7. pl(p, i) = pl(q, j) /\ ix(p, i) = ix(q, j)
    BY <2>1, <2>2, <2>3, <2>4, <2>6, Zenon
  <2> QED
    BY SMTT(20), <1>6, <2>7
<1>9. ASSUME NEW e PROVE In(V, e) <=> In(W, e)
  <2>1. In(V, e) => In(W, e)
    <3> HIDE DEF pl, ix
    <3> QED
      BY <1>5, ZenonT(20) DEF In
  <2>2. ASSUME NEW p \in Places, NEW i \in 1..Len(W[p]), W[p][i] = e
        PROVE  In(V, e)
    <3>1. CASE p = a /\ i > n
      <4>1. i - n \in 1..Len(W[a]) - n /\ n + (i - n) = i
        BY <1>1, <1>2, <3>1
      <4>2. i - n \in 1..Len(V[a]) /\ V[a][i - n] = e
        BY <1>3, <2>2, <3>1, <4>1
      <4> QED
        BY <4>2 DEF In
    <3>2. CASE p = a /\ ~ (i > n)
      <4>1. /\ i \in 1..n /\ Len(W[b]) + i \in 1..Len(W[b]) + n
            /\ ~ (Len(W[b]) + i <= Len(W[b]))
            /\ Len(W[b]) + i - Len(W[b]) = i
        BY <1>1, <1>2, <3>2
      <4>2. V[b][Len(W[b]) + i] = e /\ Len(W[b]) + i \in 1..Len(V[b])
        BY <1>3, <1>4, <2>2, <3>2, <4>1
      <4> QED
        BY <4>2 DEF In
    <3>3. CASE p = b
      <4>1. i \in 1..Len(W[b]) + n /\ i <= Len(W[b])
        BY <1>1, <1>2, <3>3
      <4>2. V[b][i] = e /\ i \in 1..Len(V[b])
        BY <1>4, <2>2, <3>3, <4>1
      <4> QED
        BY <4>2 DEF In
    <3>4. CASE p # a /\ p # b
      <4>1. V[p][i] = e /\ i \in 1..Len(V[p])
        BY <2>2, <3>4
      <4> QED
        BY <4>1 DEF In
    <3> QED
      BY <3>1, <3>2, <3>3, <3>4
  <2> QED
    BY <2>1, <2>2 DEF In
<1> QED
  BY <1>8, <1>9

\* One that was nowhere is put at the end of a place.
OneMore(W, V, e) == \A g : In(V, g) <=> In(W, g) \/ g = e
Gets(W, V, a, e) ==
    /\ V[a] = Append(W[a], e)
    /\ \A p \in Places \ {a} : V[p] = W[p]

LEMMA AddOne ==
    ASSUME NEW S, NEW W \in [Places -> Seq(S)], NEW V \in [Places -> Seq(S)],
           NEW a \in Places, NEW e \in S, Gets(W, V, a, e), ~In(W, e),
           OnePlace(W)
    PROVE  OnePlace(V) /\ OneMore(W, V, e)
<1> USE DEF Gets, OneMore
<1>1. \A p \in Places : W[p] \in Seq(S) /\ Len(W[p]) \in Nat
  OBVIOUS
<1>2. /\ Len(V[a]) = Len(W[a]) + 1 /\ V[a][Len(W[a]) + 1] = e
      /\ \A i \in 1..Len(W[a]) : V[a][i] = W[a][i]
  BY <1>1, AppendProperties
<1>4. ASSUME NEW p \in Places, NEW i \in 1..Len(V[p])
      PROVE  \/ i \in 1..Len(W[p]) /\ V[p][i] = W[p][i]
             \/ p = a /\ i = Len(W[a]) + 1 /\ V[p][i] = e
  BY <1>1, <1>2
<1>5. OnePlace(V)
  <2> SUFFICES ASSUME NEW p \in Places, NEW q \in Places,
                      NEW i \in 1..Len(V[p]), NEW j \in 1..Len(V[q]),
                      V[p][i] = V[q][j]
               PROVE  p = q /\ i = j
    BY DEF OnePlace, In
  <2>1. CASE p = a /\ i = Len(W[a]) + 1 /\ V[p][i] = e
    <3>1. ~ (j \in 1..Len(W[q]) /\ V[q][j] = W[q][j])
      BY <2>1 DEF In
    <3> QED
      BY <1>4, <2>1, <3>1
  <2>2. CASE i \in 1..Len(W[p]) /\ V[p][i] = W[p][i]
    <3>1. ~ (V[q][j] = e)
      BY <2>2 DEF In
    <3>2. j \in 1..Len(W[q]) /\ V[q][j] = W[q][j]
      BY <1>4, <3>1
    <3>3. W[p][i] = W[q][j]
      BY <2>2, <3>2
    <3> QED
      BY <2>2, <3>2, <3>3 DEF OnePlace
  <2> QED
    BY <1>4, <2>1, <2>2
<1>6. ASSUME NEW g PROVE In(V, g) <=> In(W, g) \/ g = e
  <2>1. In(V, g) => In(W, g) \/ g = e
    BY <1>4 DEF In
  <2>2. In(W, g) => In(V, g)
    <3> SUFFICES ASSUME NEW p \in Places, NEW i \in 1..Len(W[p]), W[p][i] = g
                 PROVE  In(V, g)
      BY DEF OnePlace, In
    <3>1. i \in 1..Len(V[p]) /\ V[p][i] = g
      <4>1. CASE p = a
        <5>1. i \in 1..Len(W[a]) /\ i \in 1..Len(V[a])
          BY <1>1, <1>2, <4>1
        <5> QED
          BY <1>2, <4>1, <5>1
      <4>2. CASE p # a
        BY <4>2
      <4> QED
        BY <4>1, <4>2
    <3> QED
      BY <3>1, Zenon DEF In
  <2>3. In(V, e)
    <3>1. Len(W[a]) + 1 \in 1..Len(V[a])
      BY <1>1, <1>2
    <3> QED
      BY <1>2, <3>1 DEF In
  <2> QED
    BY <2>1, <2>2, <2>3
<1> QED
  BY <1>5, <1>6

\* The first of a place is taken away.
Loses(W, V, a) ==
    /\ W[a] # <<>> /\ V[a] = Tail(W[a])
    /\ \A p \in Places \ {a} : V[p] = W[p]

LEMMA TakeOne ==
    ASSUME NEW S, NEW W \in [Places -> Seq(S)], NEW V \in [Places -> Seq(S)],
           NEW a \in Places, Loses(W, V, a), OnePlace(W)
    PROVE  /\ OnePlace(V) /\ ~In(V, Head(W[a])) /\ Head(W[a]) \in S
           /\ OneMore(V, W, Head(W[a]))
<1> USE DEF Loses, OneMore
<1>1. \A p \in Places : W[p] \in Seq(S) /\ Len(W[p]) \in Nat
  OBVIOUS
<1>2. /\ Len(V[a]) = Len(W[a]) - 1 /\ Len(W[a]) > 0 /\ Head(W[a]) = W[a][1]
      /\ \A i \in 1..Len(V[a]) : V[a][i] = W[a][i + 1]
      /\ Head(W[a]) \in S
  BY <1>1, HeadTailProperties
<1> DEFINE ix(p, i) == IF p = a THEN i + 1 ELSE i
<1>4. ASSUME NEW p \in Places, NEW i \in 1..Len(V[p])
      PROVE  /\ ix(p, i) \in 1..Len(W[p]) /\ V[p][i] = W[p][ix(p, i)]
             /\ p = a => ix(p, i) # 1
  <2>1. CASE p = a
    <3>1. i \in Nat /\ i + 1 \in 1..Len(W[a]) /\ i + 1 # 1
      BY <1>1, <1>2, <2>1
    <3> QED
      BY <1>2, <2>1, <3>1
  <2>2. CASE p # a
    BY <1>1, <2>2
  <2> QED
    BY <2>1, <2>2
<1>5. OnePlace(V)
  <2> SUFFICES ASSUME NEW p \in Places, NEW q \in Places,
                      NEW i \in 1..Len(V[p]), NEW j \in 1..Len(V[q]),
                      V[p][i] = V[q][j]
               PROVE  p = q /\ i = j
    BY DEF OnePlace, In
  <2>1. p = q /\ ix(p, i) = ix(q, j)
    <3> HIDE DEF ix
    <3>1. /\ ix(p, i) \in 1..Len(W[p]) /\ ix(q, j) \in 1..Len(W[q])
          /\ W[p][ix(p, i)] = W[q][ix(q, j)]
      BY <1>4
    <3> QED
      BY <3>1 DEF OnePlace
  <2> QED
    BY <2>1
<1>6. ~In(V, Head(W[a]))
  <2> SUFFICES ASSUME NEW p \in Places, NEW i \in 1..Len(V[p]),
                      V[p][i] = W[a][1]
               PROVE  FALSE
    BY <1>2 DEF In
  <2>1. 1 \in 1..Len(W[a])
    BY <1>1, <1>2
  <2> HIDE DEF ix
  <2>2. p = a /\ ix(p, i) = 1
    <3>1. ix(p, i) \in 1..Len(W[p]) /\ W[p][ix(p, i)] = W[a][1]
      BY <1>4
    <3> QED
      BY <2>1, <3>1 DEF OnePlace
  <2> QED
    BY <1>4, <2>2
<1>7. ASSUME NEW g PROVE In(W, g) <=> In(V, g) \/ g = Head(W[a])
  <2>1. In(V, g) => In(W, g)
    <3> HIDE DEF ix
    <3> QED
      BY <1>4, Zenon DEF In
  <2>2. In(W, Head(W[a]))
    <3>1. 1 \in 1..Len(W[a])
      BY <1>1, <1>2
    <3> QED
      BY <1>2, <3>1, Zenon DEF In
  <2>3. ASSUME NEW p \in Places, NEW i \in 1..Len(W[p]), W[p][i] = g,
               g # Head(W[a])
        PROVE  In(V, g)
    <3>1. CASE p = a
      <4>1. i # 1 /\ i - 1 \in 1..Len(V[a]) /\ (i - 1) + 1 = i
        BY <1>1, <1>2, <2>3, <3>1
      <4>2. V[a][i - 1] = g
        BY <1>2, <2>3, <3>1, <4>1
      <4> QED
        BY <4>1, <4>2, Zenon DEF In
    <3>2. CASE p # a
      BY <2>3, <3>2 DEF In
    <3> QED
      BY <3>1, <3>2
  <2> QED
    BY <2>1, <2>2, <2>3 DEF In
<1> QED
  BY <1>2, <1>5, <1>6, <1>7

-----------------------------------------------------------------------------
(* Types.                                                                  *)

\* Drop() gives a sequence even if there is less to drop.
LEMMA DropType ==
    ASSUME NEW S, NEW q \in Seq(S), NEW n \in Nat
    PROVE  Drop(q, n) \in Seq(S) /\ Len(Drop(q, n)) <= Len(q)
<1>1. Len(q) \in Nat /\ \A i \in n + 1..Len(q) : q[i] \in S
  OBVIOUS
<1>2. n + 1 \in Int /\ Len(q) \in Int
  BY <1>1
<1>3. /\ Drop(q, n) \in Seq(S)
      /\ Len(Drop(q, n)) = IF n + 1 <= Len(q) THEN Len(q) - (n + 1) + 1 ELSE 0
  BY <1>1, <1>2, SubSeqProperties DEF Drop
<1> QED
  BY <1>1, <1>3

\* The lists that the batches give are what is at their front.
LEMMA ListsOfMemory ==
    ASSUME NEW q \in Seq(Events), NEW l \in MemoryLists(q)
    PROVE  /\ l \in Lists /\ l.type = "Memory" /\ l.disk = 0
           /\ l.mem <= Len(q) /\ l.events = First(q, l.mem)
<1> USE LimitsAssumption
<1>1. PICK m \in 1..Smaller(MaxCount, Len(q)) :
            l = List("Memory", 0, m, First(q, m))
  BY DEF MemoryLists
<1>2. m \in 0..Len(q) /\ m \in Nat
  BY DEF Smaller
<1>3. First(q, m) \in Seq(Events)
  BY <1>2, FirstAndDrop
<1> QED
  BY <1>1, <1>2, <1>3 DEF List, Lists

LEMMA ListsOfCritical ==
    ASSUME TypeOK, NEW l \in CriticalLists
    PROVE  /\ l \in Lists /\ l.type = "critical"
           /\ l.disk <= Len(critical) /\ l.events = First(critical, l.disk)
<1> USE LimitsAssumption
<1>1. PICK d \in 1..Smaller(MaxCount, Len(critical)) :
            l = List("critical", d, 0, First(critical, d))
  BY DEF CriticalLists
<1>2. critical \in Seq(Events)
  BY DEF TypeOK
<1>3. d \in 0..Len(critical) /\ d \in Nat
  BY <1>2 DEF Smaller
<1>4. First(critical, d) \in Seq(Events)
  BY <1>2, <1>3, FirstAndDrop
<1> QED
  BY <1>1, <1>3, <1>4 DEF List, Lists

LEMMA ListsOfNormal ==
    ASSUME TypeOK, NEW l \in BufferedLists(normal)
    PROVE  /\ l \in Lists /\ l.type # "critical"
           /\ l.disk <= Len(normal.disk) /\ l.mem <= Len(normal.mem)
           /\ l.events = First(normal.disk, l.disk) \o First(normal.mem, l.mem)
<1> USE LimitsAssumption
<1> DEFINE f == normal.disk
           m == normal.mem
<1>1. f \in Seq(Events) /\ m \in Seq(Events)
  BY DEF TypeOK
<1>2. Len(f) \in Nat /\ Len(m) \in Nat
  BY <1>1
<1>3. First(f, 0) = <<>> /\ First(m, 0) = <<>>
  BY <1>1, AllOrNothing
<1>4. CASE f = <<>>
  <2>1. l \in MemoryLists(m)
    BY <1>4 DEF BufferedLists
  <2>2. /\ l \in Lists /\ l.type = "Memory" /\ l.disk = 0
        /\ l.mem <= Len(m) /\ l.events = First(m, l.mem)
    <3> HIDE DEF m
    <3> QED
      BY <1>1, <2>1, ListsOfMemory
  <2>3. <<>> \o First(m, l.mem) = First(m, l.mem)
    <3>1. l.mem \in 0..Len(m)
      BY <1>2, <2>2 DEF Lists
    <3>2. First(m, l.mem) \in Seq(Events)
      BY <1>1, <3>1, FirstAndDrop
    <3> QED
      BY <3>2, ConcatEmptySeq
  <2>4. First(f, l.disk) = <<>> /\ 0 <= Len(f)
    BY <1>2, <1>3, <2>2
  <2>5. First(f, l.disk) \o First(m, l.mem) = First(m, l.mem)
    BY <2>3, <2>4
  <2> QED
    BY <2>2, <2>4, <2>5
<1>5. CASE l \in FromFiles(normal)
  <2>1. PICK d \in 1..Smaller(MaxCount, Len(f)) :
            l = List("Wrapped", d, 0, First(f, d))
    BY <1>5 DEF FromFiles
  <2>2. d \in 0..Len(f) /\ d \in Nat
    BY <1>2 DEF Smaller
  <2>3. First(f, d) \in Seq(Events)
    BY <1>1, <2>2, FirstAndDrop
  <2>4. First(f, d) \o <<>> = First(f, d)
    BY <2>3, ConcatEmptySeq
  <2> QED
    BY <1>2, <1>3, <2>1, <2>2, <2>3, <2>4 DEF List, Lists
<1>6. CASE l \in Merges(normal)
  <2>1. PICK d \in 1..Smaller(MaxCount - 1, Len(f)), k \in 0..Len(m) :
            l = List("Merged", d, k, First(f, d) \o First(m, k))
    BY <1>6 DEF Merges
  <2>2. d \in 0..Len(f) /\ d \in Nat /\ k \in Nat
    BY <1>2 DEF Smaller
  <2>3. First(f, d) \in Seq(Events) /\ First(m, k) \in Seq(Events)
    BY <1>1, <2>2, FirstAndDrop
  <2>4. First(f, d) \o First(m, k) \in Seq(Events)
    BY <2>3, ConcatProperties
  <2> QED
    BY <1>2, <2>1, <2>2, <2>4 DEF List, Lists
<1> QED
  BY <1>4, <1>5, <1>6 DEF BufferedLists

LEMMA NoListIsList == NoList \in Lists /\ NoList.type # "critical"
BY DEF NoList, List, Lists

\* What Store() does to the two batches.
LEMMA StoreType ==
    ASSUME TypeOK, NEW e \in Events, Store(e)
    PROVE  /\ critical' \in Seq(Events)
           /\ normal' \in [disk : Seq(Events), mem : Seq(Events)]
           /\ Len(normal'.mem) <= MemLimit
           /\ overtaken' \in BOOLEAN /\ (overtaken => overtaken')
<1> USE LimitsAssumption
<1> DEFINE f == normal.disk
           m == normal.mem
<1>1. /\ f \in Seq(Events) /\ m \in Seq(Events) /\ Len(m) <= MemLimit
      /\ critical \in Seq(Events) /\ overtaken \in BOOLEAN
      /\ normal \in [disk : Seq(Events), mem : Seq(Events)]
  BY DEF TypeOK
<1>2. CASE e.critical
  BY SMTT(20), <1>1, <1>2, AppendProperties DEF Store
<1>3. CASE ~e.critical /\ Len(m) < MemLimit
  <2>1. normal' = [normal EXCEPT !.mem = Append(@, e)] /\ critical' = critical
    BY <1>3 DEF Store, Added
  <2>2. Append(m, e) \in Seq(Events) /\ Len(Append(m, e)) = Len(m) + 1
    BY <1>1, AppendProperties
  <2>3. overtaken' = (overtaken \/ Overtakes)
    BY <1>3 DEF Store
  <2>4. Len(m) + 1 <= MemLimit
    BY <1>1, <1>3
  <2>5. /\ normal' \in [disk : Seq(Events), mem : Seq(Events)]
        /\ normal'.mem = Append(m, e)
    BY <1>1, <2>1, <2>2
  <2>6. Overtakes \in BOOLEAN
    BY DEF Overtakes
  <2> QED
    BY <1>1, <2>1, <2>2, <2>3, <2>4, <2>5, <2>6
<1>4. CASE ~e.critical /\ ~ (Len(m) < MemLimit)
  <2>1. normal' = [disk |-> f \o m, mem |-> <<e>>] /\ critical' = critical
    BY <1>4 DEF Store, Added, Flushed
  <2>2. f \o m \in Seq(Events)
    BY <1>1, ConcatProperties
  <2>3. <<e>> \in Seq(Events) /\ Len(<<e>>) = 1
    OBVIOUS
  <2>4. overtaken' = (overtaken \/ Overtakes)
    BY <1>4 DEF Store
  <2> QED
    BY <1>1, <2>1, <2>2, <2>3, <2>4 DEF Overtakes
<1> QED
  BY <1>2, <1>3, <1>4

\* Every step keeps the types.
LEMMA TypeStays ==
    ASSUME IInv, [Next]_vars
    PROVE  TypeOK' /\ AddingIsEvent'
<1> USE DEF batches, main, real, adders, history, vars
<1> DEFINE f == normal.disk
           m == normal.mem
<1>1. TypeOK /\ AddingIsEvent
  BY DEF IInv
<1>2. /\ realtime \in Seq(Events) /\ Len(realtime) <= RealtimeLimit
      /\ critical \in Seq(Events) /\ f \in Seq(Events) /\ m \in Seq(Events)
      /\ Len(m) <= MemLimit /\ confirmed \in Seq(Events)
      /\ hand \in Seq(Events)
      /\ normal \in [disk : Seq(Events), mem : Seq(Events)]
      /\ mlist \in Lists /\ rlist \in Lists
  BY <1>1 DEF TypeOK
<1>3. /\ Len(m) \in Nat /\ Len(realtime) \in Nat
      /\ NoList \in Lists /\ mlist.disk \in Nat /\ mlist.mem \in Nat
      /\ rlist.mem \in Nat
      /\ mlist.events \in Seq(Events) /\ rlist.events \in Seq(Events)
      /\ <<>> \in Seq(Events) /\ Len(<<>>) = 0
  <2> HIDE DEF f, m
  <2>1. Len(m) \in Nat /\ Len(realtime) \in Nat
    BY <1>2
  <2>2. \A l \in Lists : l.disk \in Nat /\ l.mem \in Nat /\ l.events \in Seq(Events)
    BY DEF Lists
  <2>3. <<>> \in Seq(Events) /\ Len(<<>>) = 0
    OBVIOUS
  <2> QED
    BY <1>2, <2>1, <2>2, <2>3, NoListIsList
<1> USE LimitsAssumption
<1> HIDE DEF f, m
<1>11. CASE \E a \in Adders : AddCall(a)
  <2>1. PICK a \in Adders : AddCall(a)
    BY <1>11
  <2>2. PICK k \in Kinds :
            /\ adding' = [adding EXCEPT ![a] =
                            [n |-> count + 1, critical |-> k.critical]]
            /\ apc' = [apc EXCEPT ![a] = IF k.realtime THEN "realtime"
                                         ELSE "store"]
    BY <2>1 DEF AddCall
  <2>3. count' = count + 1 /\ count < MaxEvents /\ count \in 0..MaxEvents
    BY <1>1, <2>1 DEF AddCall, TypeOK
  <2>4. [n |-> count + 1, critical |-> k.critical] \in Events
    BY <2>3 DEF Events
  <2>5. count' \in 0..MaxEvents
    BY <2>3
  <2>6. TypeOK'
    <3> HIDE DEF Lists
    <3> QED
      BY <1>1, <2>1, <2>2, <2>4, <2>5 DEF AddCall, TypeOK
  <2>7. AddingIsEvent'
    BY <1>1, <2>2, <2>4 DEF AddingIsEvent, Pending, TypeOK
  <2> QED
    BY <2>6, <2>7
<1>12. CASE \E a \in Adders : AddRealtime(a)
  <2>1. PICK a \in Adders : AddRealtime(a)
    BY <1>12
  <2>2. adding[a] \in Events
    BY <1>1, <2>1 DEF AddRealtime, AddingIsEvent, Pending
  <2>3. /\ Append(realtime, adding[a]) \in Seq(Events)
        /\ Len(Append(realtime, adding[a])) = Len(realtime) + 1
    BY <1>2, <2>2, AppendProperties
  <2>4. /\ realtime' \in Seq(Events) /\ Len(realtime') <= RealtimeLimit
        /\ accepted' \subseteq Events
    <3>1. CASE Len(realtime) < RealtimeLimit
      <4>1. Len(realtime) + 1 <= RealtimeLimit
        BY <1>3, <3>1
      <4> QED
        BY <1>1, <2>1, <2>2, <2>3, <3>1, <4>1 DEF AddRealtime, TypeOK
    <3>2. CASE ~ (Len(realtime) < RealtimeLimit)
      BY <1>1, <2>1, <3>2 DEF AddRealtime, TypeOK
    <3> QED
      BY <3>1, <3>2
  <2>6. apc' \in [Adders -> {"idle", "realtime", "store", "askReal",
                            "askMain"}]
    BY <1>1, <2>1 DEF AddRealtime, TypeOK
  <2>7. TypeOK'
    BY <1>1, <2>1, <2>4, <2>6 DEF AddRealtime, TypeOK
  <2>5. AddingIsEvent'
    BY <1>1, <2>1 DEF AddRealtime, AddingIsEvent, Pending, TypeOK
  <2> QED
    BY <2>5, <2>7
<1>13. CASE \E a \in Adders : AddStore(a)
  <2>1. PICK a \in Adders : AddStore(a)
    BY <1>13
  <2>2. adding[a] \in Events
    BY <1>1, <2>1 DEF AddStore, AddingIsEvent, Pending
  <2>3. /\ critical' \in Seq(Events)
        /\ normal' \in [disk : Seq(Events), mem : Seq(Events)]
        /\ Len(normal'.mem) <= MemLimit /\ overtaken' \in BOOLEAN
    BY <1>1, <2>1, <2>2, StoreType DEF AddStore
  <2>4. TypeOK'
    BY <1>1, <2>1, <2>2, <2>3 DEF AddStore, TypeOK
  <2>5. AddingIsEvent'
    BY <1>1, <2>1 DEF AddStore, AddingIsEvent, Pending, TypeOK
  <2> QED
    BY <2>4, <2>5
<1>14. CASE \E a \in Adders : AddAsk(a)
  BY <1>1, <1>14 DEF AddAsk, AddingIsEvent, Pending, TypeOK
<1>15. CASE MainStart
  BY <1>1, <1>3, <1>15 DEF MainStart, AddingIsEvent, Pending, TypeOK
<1>16. CASE MainLoop
  BY <1>1, <1>3, <1>16 DEF MainLoop, AddingIsEvent, Pending, TypeOK
<1>17. CASE MainGet
  <2>1. mlist' \in Lists
    BY <1>1, <1>17, ListsOfCritical, ListsOfNormal DEF MainGet
  <2> QED
    BY <1>1, <1>17, <2>1 DEF MainGet, AddingIsEvent, Pending, TypeOK
<1>18. CASE MainPostFails
  BY <1>1, <1>3, <1>18 DEF MainPostFails, AddingIsEvent, Pending, TypeOK
<1>19. CASE MainPostSucceeds
  <2>1. confirmed \o mlist.events \in Seq(Events)
    BY <1>2, <1>3, ConcatProperties
  <2> QED
    BY <1>1, <1>19, <2>1 DEF MainPostSucceeds, AddingIsEvent, Pending, TypeOK
<1>20. CASE MainAck
  <2>1. critical' \in Seq(Events)
    BY <1>2, <1>3, <1>20, DropType DEF MainAck
  <2>2. Drop(f, mlist.disk) \in Seq(Events)
    BY <1>2, <1>3, DropType
  <2>3. /\ Drop(m, mlist.mem) \in Seq(Events)
        /\ Len(Drop(m, mlist.mem)) <= MemLimit
    <3>1. /\ Drop(m, mlist.mem) \in Seq(Events)
          /\ Len(Drop(m, mlist.mem)) <= Len(m)
      BY <1>2, <1>3, DropType
    <3>2. Len(Drop(m, mlist.mem)) \in Nat
      BY <3>1
    <3> QED
      BY <1>2, <1>3, <3>1, <3>2
  <2>4. /\ normal' \in [disk : Seq(Events), mem : Seq(Events)]
        /\ Len(normal'.mem) <= MemLimit
    <3>1. CASE mlist.type = "critical"
      BY <1>2, <1>20, <3>1 DEF MainAck, m
    <3>2. CASE mlist.type # "critical"
      <4>1. normal' = [disk |-> Drop(f, mlist.disk),
                       mem |-> Drop(m, mlist.mem)]
        BY <1>20, <3>2 DEF MainAck, Uploaded, f, m
      <4> QED
        BY <2>2, <2>3, <4>1
    <3> QED
      BY <3>1, <3>2
  <2>5. mpc' \in {"undefined", "loop"} /\ mlist' = NoList
    BY <1>20 DEF MainAck
  <2> QED
    BY <1>1, <1>3, <1>20, <2>1, <2>4, <2>5
       DEF MainAck, AddingIsEvent, Pending, TypeOK
<1>21. CASE RealStart
  BY <1>1, <1>3, <1>21 DEF RealStart, AddingIsEvent, Pending, TypeOK
<1>22. CASE RealLoop
  BY <1>1, <1>3, <1>22 DEF RealLoop, AddingIsEvent, Pending, TypeOK
<1>23. CASE RealGet
  <2>1. rlist' \in Lists
    BY <1>2, <1>23, ListsOfMemory DEF RealGet
  <2> QED
    BY <1>1, <1>23, <2>1 DEF RealGet, AddingIsEvent, Pending, TypeOK
<1>24. CASE RealPostFails
  BY <1>1, <1>3, <1>24 DEF RealPostFails, AddingIsEvent, Pending, TypeOK
<1>25. CASE RealPostSucceeds
  <2>1. confirmed \o rlist.events \in Seq(Events)
    BY <1>2, <1>3, ConcatProperties
  <2> QED
    BY <1>1, <1>25, <2>1 DEF RealPostSucceeds, AddingIsEvent, Pending, TypeOK
<1>26. CASE RealAck
  <2>1. /\ Drop(realtime, rlist.mem) \in Seq(Events)
        /\ Len(Drop(realtime, rlist.mem)) <= Len(realtime)
    BY <1>2, <1>3, DropType
  <2>2. Len(Drop(realtime, rlist.mem)) \in Nat
    BY <2>1
  <2>3. Len(Drop(realtime, rlist.mem)) <= RealtimeLimit
    BY <1>2, <1>3, <2>1, <2>2
  <2> QED
    BY <1>1, <1>3, <1>26, <2>1, <2>3
       DEF RealAck, AddingIsEvent, Pending, TypeOK
<1>27. CASE RealTransfer
  BY SMTT(20), <1>1, <1>2, <1>3, <1>27 DEF RealTransfer, AddingIsEvent, Pending, TypeOK
<1>28. CASE RealSpread
  <2>1. CASE hand = <<>>
    BY <1>1, <1>28, <2>1 DEF RealSpread, AddingIsEvent, Pending, TypeOK
  <2>2. CASE hand # <<>>
    <3>1. Head(hand) \in Events /\ Tail(hand) \in Seq(Events)
      BY <1>2, <2>2, HeadTailProperties
    <3>2. Store(Head(hand)) /\ hand' = Tail(hand)
      BY <1>28, <2>2 DEF RealSpread
    <3>3. /\ critical' \in Seq(Events)
          /\ normal' \in [disk : Seq(Events), mem : Seq(Events)]
          /\ Len(normal'.mem) <= MemLimit /\ overtaken' \in BOOLEAN
      BY <1>1, <3>1, <3>2, StoreType
    <3> QED
      BY <1>1, <1>28, <2>2, <3>1, <3>2, <3>3
         DEF RealSpread, AddingIsEvent, Pending, TypeOK
  <2> QED
    BY <2>1, <2>2
<1>29. CASE RealAsk
  BY <1>1, <1>3, <1>29 DEF RealAsk, AddingIsEvent, Pending, TypeOK
<1>30. CASE Start
  BY <1>1, <1>3, <1>30 DEF Start, AddingIsEvent, Pending, TypeOK
<1>31. CASE Destroy
  BY <1>1, <1>3, <1>31 DEF Destroy, AddingIsEvent, Pending, TypeOK
<1>32. CASE MainTerminated
  BY <1>1, <1>3, <1>32 DEF MainTerminated, AddingIsEvent, Pending, TypeOK
<1>33. CASE RealTerminated
  BY <1>1, <1>3, <1>33 DEF RealTerminated, AddingIsEvent, Pending, TypeOK
<1>34. CASE Destroyed
  <2>1. f \o m \in Seq(Events)
    BY <1>2, ConcatProperties
  <2>2. normal' = [disk |-> f \o m, mem |-> <<>>]
    BY <1>34 DEF Destroyed, Flushed, f, m
  <2>3. /\ normal' \in [disk : Seq(Events), mem : Seq(Events)]
        /\ Len(normal'.mem) <= MemLimit
    BY <1>3, <2>1, <2>2
  <2>4. /\ realtime' \in Seq(Events) /\ Len(realtime') <= RealtimeLimit
        /\ apc' = apc /\ adding' = adding
    BY <1>3, <1>34 DEF Destroyed
  <2>5. TypeOK'
    BY <1>1, <1>34, <2>3, <2>4 DEF Destroyed, TypeOK
  <2> QED
    BY <1>1, <2>4, <2>5 DEF AddingIsEvent, Pending
<1>35. CASE UNCHANGED vars
  BY <1>1, <1>35 DEF AddingIsEvent, Pending, TypeOK
<1> QED
  BY <1>11, <1>12, <1>13, <1>14, <1>15, <1>16, <1>17, <1>18, <1>19,
     <1>20, <1>21, <1>22, <1>23, <1>24, <1>25, <1>26, <1>27, <1>28,
     <1>29, <1>30, <1>31, <1>32, <1>33, <1>34, <1>35
     DEF Next, Add, Main, Real, Owner

-----------------------------------------------------------------------------
(* Lists and the front of their batches.                                   *)

\* An event that is stored goes behind the list that is posted.
LEMMA StoreKeepsFronts ==
    ASSUME TypeOK, CriticalIsFront, NormalIsFront, NEW e \in Events, Store(e),
           mpc' = mpc, mlist' = mlist
    PROVE  CriticalIsFront' /\ NormalIsFront'
<1> DEFINE f == normal.disk
           m == normal.mem
           k == mlist.disk
           l == mlist.mem
<1>1. /\ f \in Seq(Events) /\ m \in Seq(Events) /\ critical \in Seq(Events)
      /\ mlist \in Lists /\ overtaken \in BOOLEAN
      /\ normal \in [disk : Seq(Events), mem : Seq(Events)]
  BY DEF TypeOK
<1>2. /\ Len(f) \in Nat /\ Len(m) \in Nat /\ Len(critical) \in Nat
      /\ k \in Nat /\ l \in Nat
  BY <1>1 DEF Lists
<1>3. CriticalIsFront'
  <2> SUFFICES ASSUME mpc \in {"post", "ack"}, mlist.type = "critical"
               PROVE  /\ k <= Len(critical')
                      /\ mlist.events = First(critical', k)
    BY DEF CriticalIsFront
  <2>1. k <= Len(critical) /\ mlist.events = First(critical, k)
    BY DEF CriticalIsFront
  <2>2. CASE e.critical
    <3>1. critical' = Append(critical, e) /\ k \in 0..Len(critical)
      BY <1>2, <2>1, <2>2 DEF Store
    <3>2. Len(Append(critical, e)) = Len(critical) + 1
      BY <1>1, AppendProperties
    <3>3. First(Append(critical, e), k) = First(critical, k)
      BY <1>1, <3>1, OneBehind
    <3> QED
      BY <1>2, <2>1, <3>1, <3>2, <3>3
  <2>3. CASE ~e.critical
    BY <2>1, <2>3 DEF Store
  <2> QED
    BY <2>2, <2>3
<1>4. NormalIsFront'
  <2> SUFFICES ASSUME mpc \in {"post", "ack"}, mlist.type # "critical",
                      ~overtaken'
               PROVE  /\ k <= Len(normal'.disk) /\ l <= Len(normal'.mem)
                      /\ mlist.events = First(normal'.disk, k)
                                            \o First(normal'.mem, l)
    BY DEF NormalIsFront
  <2>1. ~overtaken /\ (~e.critical => ~Overtakes)
    BY <1>1 DEF Store, Overtakes
  <2>2. /\ k <= Len(f) /\ l <= Len(m)
        /\ mlist.events = First(f, k) \o First(m, l)
    BY <2>1 DEF NormalIsFront
  <2>3. k \in 0..Len(f) /\ l \in 0..Len(m)
    BY <1>2, <2>2
  <2>4. CASE e.critical
    BY <2>2, <2>4 DEF Store
  <2>5. CASE ~e.critical /\ Len(m) < MemLimit
    <3>1. normal' = [normal EXCEPT !.mem = Append(@, e)]
      BY <2>5 DEF Store, Added
    <3>2. normal'.disk = f /\ normal'.mem = Append(m, e)
      BY <1>1, <3>1
    <3>3. Len(Append(m, e)) = Len(m) + 1
      BY <1>1, AppendProperties
    <3>4. First(Append(m, e), l) = First(m, l)
      BY <1>1, <2>3, OneBehind
    <3> QED
      BY <1>2, <2>2, <3>2, <3>3, <3>4
  <2>6. CASE ~e.critical /\ ~ (Len(m) < MemLimit)
    <3>1. normal' = [disk |-> f \o m, mem |-> <<e>>]
      BY <2>6 DEF Store, Added, Flushed
    <3>2. Len(f \o m) = Len(f) + Len(m) /\ Len(<<e>>) = 1
      BY <1>1, ConcatProperties
    <3>3. l = 0
      BY <1>2, <2>1, <2>6, LimitsAssumption DEF Overtakes
    <3>4. First(f \o m, k) = First(f, k)
      BY <1>1, <2>3, Behind
    <3>5. First(m, 0) = <<>> /\ First(<<e>>, 0) = <<>>
      <4>1. <<e>> \in Seq(Events)
        OBVIOUS
      <4> QED
        BY <1>1, <4>1, AllOrNothing
    <3> HIDE DEF k, l
    <3>6. normal'.disk = f \o m /\ normal'.mem = <<e>>
      BY <3>1
    <3>7. First(normal'.disk, k) = First(f, k)
      BY <3>4, <3>6
    <3>8. First(normal'.mem, l) = First(m, l)
      BY <3>3, <3>5, <3>6
    <3>9. k <= Len(normal'.disk) /\ l <= Len(normal'.mem)
      <4>1. Len(normal'.disk) = Len(f) + Len(m) /\ Len(normal'.mem) = 1
        BY <3>2, <3>6
      <4> HIDE DEF f, m
      <4> QED
        BY <1>2, <2>2, <3>3, <4>1
    <3> QED
      BY <2>2, <3>7, <3>8, <3>9
  <2> QED
    BY <2>4, <2>5, <2>6
<1> QED
  BY <1>3, <1>4

\* Every step leaves the posted lists at the front of their batches.
LEMMA FrontsStay ==
    ASSUME IInv, [Next]_vars
    PROVE  CriticalIsFront' /\ NormalIsFront' /\ RealIsFront'
<1> USE DEF batches, main, real, adders, history, vars
<1>1. TypeOK /\ CriticalIsFront /\ NormalIsFront /\ RealIsFront
  BY DEF IInv
<1>2. /\ realtime \in Seq(Events) /\ Len(realtime) \in Nat
      /\ rlist \in Lists /\ rlist.mem \in Nat
      /\ NoList.type # "critical" /\ overtaken \in BOOLEAN
  BY <1>1, NoListIsList DEF TypeOK, Lists
<1>3. \A a \in Adders : Pending(a) => adding[a] \in Events
  BY DEF IInv, AddingIsEvent
<1>11. CASE \E a \in Adders : AddCall(a)
  BY <1>1, <1>11 DEF AddCall, CriticalIsFront, NormalIsFront, RealIsFront
<1>12. CASE \E a \in Adders : AddRealtime(a)
  <2>1. PICK a \in Adders : AddRealtime(a)
    BY <1>12
  <2>2. adding[a] \in Events
    BY <1>3, <2>1 DEF AddRealtime, Pending
  <2>3. RealIsFront'
    <3> SUFFICES ASSUME rpc \in {"post", "ack"}
                 PROVE  /\ rlist.mem <= Len(realtime')
                        /\ rlist.events = First(realtime', rlist.mem)
      BY <2>1 DEF AddRealtime, RealIsFront
    <3>1. /\ rlist.mem \in 0..Len(realtime)
          /\ rlist.events = First(realtime, rlist.mem)
      BY <1>1, <1>2 DEF RealIsFront
    <3>2. /\ Len(Append(realtime, adding[a])) = Len(realtime) + 1
          /\ First(Append(realtime, adding[a]), rlist.mem)
                = First(realtime, rlist.mem)
      BY <1>2, <2>2, <3>1, AppendProperties, OneBehind
    <3>3. rlist' = rlist
      BY <2>1 DEF AddRealtime
    <3>4. CASE realtime' = realtime
      BY <3>1, <3>4
    <3>5. CASE realtime' = Append(realtime, adding[a])
      <4>1. First(realtime', rlist.mem) = First(realtime, rlist.mem)
        BY <3>2, <3>5
      <4>2. Len(realtime') = Len(realtime) + 1
        BY <3>2, <3>5
      <4>3. rlist.mem <= Len(realtime')
        BY <1>2, <3>1, <4>2
      <4> QED
        BY <3>1, <4>1, <4>3
    <3> QED
      BY <2>1, <3>4, <3>5 DEF AddRealtime
  <2> QED
    BY <1>1, <2>1, <2>3 DEF AddRealtime, CriticalIsFront, NormalIsFront
<1>13. CASE \E a \in Adders : AddStore(a)
  <2>1. PICK a \in Adders : AddStore(a)
    BY <1>13
  <2>2. adding[a] \in Events
    BY <1>3, <2>1 DEF AddStore, Pending
  <2>3. CriticalIsFront' /\ NormalIsFront'
    BY <1>1, <2>1, <2>2, StoreKeepsFronts DEF AddStore
  <2> QED
    BY <1>1, <2>1, <2>3 DEF AddStore, RealIsFront
<1>14. CASE \E a \in Adders : AddAsk(a)
  BY <1>1, <1>14 DEF AddAsk, CriticalIsFront, NormalIsFront, RealIsFront
<1>15. CASE MainStart
  BY <1>1, <1>15 DEF MainStart, CriticalIsFront, NormalIsFront, RealIsFront
<1>16. CASE MainLoop
  BY <1>1, <1>16 DEF MainLoop, CriticalIsFront, NormalIsFront, RealIsFront
<1>17. CASE MainGet
  <2>1. CASE mpc = "critical"
    <3>1. mlist' \in CriticalLists
      BY <1>17, <2>1 DEF MainGet
    <3>2. /\ mlist'.type = "critical" /\ mlist'.disk <= Len(critical)
          /\ mlist'.events = First(critical, mlist'.disk)
      BY <1>1, <3>1, ListsOfCritical
    <3> QED
      BY <1>1, <1>17, <3>2
         DEF MainGet, CriticalIsFront, NormalIsFront, RealIsFront
  <2>2. CASE mpc = "normal"
    <3>1. mlist' \in BufferedLists(normal)
      BY <1>17, <2>2 DEF MainGet
    <3>2. /\ mlist'.type # "critical"
          /\ mlist'.disk <= Len(normal.disk) /\ mlist'.mem <= Len(normal.mem)
          /\ mlist'.events = First(normal.disk, mlist'.disk)
                                \o First(normal.mem, mlist'.mem)
      BY <1>1, <3>1, ListsOfNormal
    <3> QED
      BY <1>1, <1>17, <3>2
         DEF MainGet, CriticalIsFront, NormalIsFront, RealIsFront
  <2> QED
    BY <1>17, <2>1, <2>2 DEF MainGet
<1>18. CASE MainPostFails
  BY <1>1, <1>18 DEF MainPostFails, CriticalIsFront, NormalIsFront, RealIsFront
<1>19. CASE MainPostSucceeds
  BY <1>1, <1>19
     DEF MainPostSucceeds, CriticalIsFront, NormalIsFront, RealIsFront
<1>20. CASE MainAck
  BY <1>1, <1>20 DEF MainAck, CriticalIsFront, NormalIsFront, RealIsFront
<1>21. CASE RealStart
  BY <1>1, <1>21 DEF RealStart, CriticalIsFront, NormalIsFront, RealIsFront
<1>22. CASE RealLoop
  BY <1>1, <1>22 DEF RealLoop, CriticalIsFront, NormalIsFront, RealIsFront
<1>23. CASE RealGet
  <2>1. /\ rlist'.mem <= Len(realtime)
        /\ rlist'.events = First(realtime, rlist'.mem)
    BY <1>2, <1>23, ListsOfMemory DEF RealGet
  <2> QED
    BY <1>1, <1>23, <2>1
       DEF RealGet, CriticalIsFront, NormalIsFront, RealIsFront
<1>24. CASE RealPostFails
  BY <1>1, <1>24 DEF RealPostFails, CriticalIsFront, NormalIsFront, RealIsFront
<1>25. CASE RealPostSucceeds
  BY <1>1, <1>25
     DEF RealPostSucceeds, CriticalIsFront, NormalIsFront, RealIsFront
<1>26. CASE RealAck
  BY <1>1, <1>26 DEF RealAck, CriticalIsFront, NormalIsFront, RealIsFront
<1>27. CASE RealTransfer
  BY <1>1, <1>27 DEF RealTransfer, CriticalIsFront, NormalIsFront, RealIsFront
<1>28. CASE RealSpread
  <2>1. CASE hand = <<>>
    BY <1>1, <1>28, <2>1
       DEF RealSpread, CriticalIsFront, NormalIsFront, RealIsFront
  <2>2. CASE hand # <<>>
    <3>1. Head(hand) \in Events
      <4>1. hand \in Seq(Events)
        BY <1>1 DEF TypeOK
      <4> QED
        BY <2>2, <4>1, HeadTailProperties
    <3>2. Store(Head(hand))
      BY <1>28, <2>2 DEF RealSpread
    <3>3. CriticalIsFront' /\ NormalIsFront'
      BY <1>1, <1>28, <3>1, <3>2, StoreKeepsFronts DEF RealSpread
    <3> QED
      BY <1>1, <1>28, <2>2, <3>3 DEF RealSpread, RealIsFront
  <2> QED
    BY <2>1, <2>2
<1>29. CASE RealAsk
  BY <1>1, <1>29 DEF RealAsk, CriticalIsFront, NormalIsFront, RealIsFront
<1>30. CASE Start
  BY <1>1, <1>30 DEF Start, CriticalIsFront, NormalIsFront, RealIsFront
<1>31. CASE Destroy
  BY <1>1, <1>31 DEF Destroy, CriticalIsFront, NormalIsFront, RealIsFront
<1>32. CASE MainTerminated
  BY <1>1, <1>32
     DEF MainTerminated, CriticalIsFront, NormalIsFront, RealIsFront
<1>33. CASE RealTerminated
  BY <1>1, <1>33
     DEF RealTerminated, CriticalIsFront, NormalIsFront, RealIsFront
<1>34. CASE Destroyed
  BY <1>1, <1>34 DEF Destroyed, MainQuiet, RealQuiet, CriticalIsFront,
                    NormalIsFront, RealIsFront
<1>35. CASE UNCHANGED vars
  BY <1>1, <1>35 DEF CriticalIsFront, NormalIsFront, RealIsFront
<1> QED
  BY <1>11, <1>12, <1>13, <1>14, <1>15, <1>16, <1>17, <1>18, <1>19,
     <1>20, <1>21, <1>22, <1>23, <1>24, <1>25, <1>26, <1>27, <1>28,
     <1>29, <1>30, <1>31, <1>32, <1>33, <1>34, <1>35
     DEF Next, Add, Main, Real, Owner

-----------------------------------------------------------------------------
(* The tasks come to an end.                                               *)

\* Every step keeps what the tasks and the destructor rely on.
LEMMA ControlStays ==
    ASSUME IInv, [Next]_vars
    PROVE  HandIsSpread' /\ RealtimeIsSeen' /\ AddersAreGone' /\ EndIsQuiet'
<1> USE DEF batches, main, real, adders, history, vars
<1>1. /\ HandIsSpread /\ RealtimeIsSeen /\ AddersAreGone /\ EndIsQuiet
      /\ TypeOK
  BY DEF IInv
<1>2. apc \in [Adders -> {"idle", "realtime", "store", "askReal", "askMain"}]
  BY <1>1 DEF TypeOK
<1> USE DEF HandIsSpread, RealtimeIsSeen, AddersAreGone, EndIsQuiet,
            RealQuiet, MainQuiet
<1>11. CASE \E a \in Adders : AddCall(a)
  <2>1. PICK a \in Adders : AddCall(a)
    BY <1>11
  <2>2. opc \in {"new", "live"}
    BY <1>1, <2>1 DEF AddCall
  <2> QED
    BY <1>1, <1>2, <2>1, <2>2 DEF AddCall
<1>12. CASE \E a \in Adders : AddRealtime(a)
  <2>1. PICK a \in Adders : AddRealtime(a)
    BY <1>12
  <2>2. opc \in {"new", "live"}
    BY <1>1, <2>1 DEF AddRealtime
  <2>3. RealtimeIsSeen'
    <3>1. CASE Len(realtime) < RealtimeLimit
      <4>1. apc'[a] = "askReal"
        BY <1>2, <2>1, <3>1 DEF AddRealtime
      <4> QED
        BY <4>1
    <3>2. CASE ~ (Len(realtime) < RealtimeLimit)
      BY <1>1, <1>2, <2>1, <3>2 DEF AddRealtime
    <3> QED
      BY <3>1, <3>2
  <2> QED
    BY <1>1, <1>2, <2>1, <2>2, <2>3 DEF AddRealtime
<1>13. CASE \E a \in Adders : AddStore(a)
  <2>1. PICK a \in Adders : AddStore(a)
    BY <1>13
  <2>2. opc \in {"new", "live"}
    BY <1>1, <2>1 DEF AddStore
  <2> QED
    BY <1>1, <1>2, <2>1, <2>2 DEF AddStore
<1>14. CASE \E a \in Adders : AddAsk(a)
  <2>1. PICK a \in Adders : AddAsk(a)
    BY <1>14
  <2>2. opc \in {"new", "live"}
    BY <1>1, <2>1 DEF AddAsk
  <2>3. ASSUME realtime # <<>>
        PROVE  realWanted' \/ rpc' # "idle" \/ \E b \in Adders : apc'[b] = "askReal"
    <3>1. CASE apc[a] = "askReal"
      BY <2>1, <3>1 DEF AddAsk
    <3>2. CASE apc[a] # "askReal"
      BY <1>1, <1>2, <2>1, <2>3, <3>2 DEF AddAsk
    <3> QED
      BY <3>1, <3>2
  <2> QED
    BY <1>1, <1>2, <2>1, <2>2, <2>3 DEF AddAsk
<1>15. CASE MainStart
  BY <1>1, <1>15 DEF MainStart
<1>16. CASE MainLoop
  BY <1>1, <1>16 DEF MainLoop
<1>17. CASE MainGet
  BY <1>1, <1>17 DEF MainGet
<1>18. CASE MainPostFails
  BY <1>1, <1>18 DEF MainPostFails
<1>19. CASE MainPostSucceeds
  BY <1>1, <1>19 DEF MainPostSucceeds
<1>20. CASE MainAck
  BY <1>1, <1>20 DEF MainAck
<1>21. CASE RealStart
  BY <1>1, <1>21 DEF RealStart
<1>22. CASE RealLoop
  BY <1>1, <1>22 DEF RealLoop
<1>23. CASE RealGet
  BY <1>1, <1>23 DEF RealGet
<1>24. CASE RealPostFails
  BY <1>1, <1>24 DEF RealPostFails
<1>25. CASE RealPostSucceeds
  BY <1>1, <1>25 DEF RealPostSucceeds
<1>26. CASE RealAck
  BY <1>1, <1>26 DEF RealAck
<1>27. CASE RealTransfer
  BY <1>1, <1>27 DEF RealTransfer
<1>28. CASE RealSpread
  BY <1>1, <1>28 DEF RealSpread
<1>29. CASE RealAsk
  BY <1>1, <1>29 DEF RealAsk
<1>30. CASE Start
  BY <1>1, <1>30 DEF Start
<1>31. CASE Destroy
  BY <1>1, <1>31 DEF Destroy
<1>32. CASE MainTerminated
  BY <1>1, <1>32 DEF MainTerminated
<1>33. CASE RealTerminated
  BY <1>1, <1>33 DEF RealTerminated
<1>34. CASE Destroyed
  <2>1. normal'.mem = <<>> /\ realtime' = <<>>
    BY <1>34 DEF Destroyed, Flushed
  <2> QED
    BY <1>1, <1>34, <2>1 DEF Destroyed
<1>35. CASE UNCHANGED vars
  BY <1>1, <1>35
<1> QED
  BY <1>11, <1>12, <1>13, <1>14, <1>15, <1>16, <1>17, <1>18, <1>19,
     <1>20, <1>21, <1>22, <1>23, <1>24, <1>25, <1>26, <1>27, <1>28,
     <1>29, <1>30, <1>31, <1>32, <1>33, <1>34, <1>35
     DEF Next, Add, Main, Real, Owner

-----------------------------------------------------------------------------
(* Critical events.                                                        *)

LEMMA NoElements == Elements(<<>>) = {}
BY DEF Elements

\* A sequence that is not empty has its head and what its tail has.
LEMMA ElementsOfHead ==
    ASSUME NEW S, NEW q \in Seq(S), q # <<>>
    PROVE  Elements(q) = {Head(q)} \cup Elements(Tail(q))
<1>1. /\ Head(q) = q[1] /\ Tail(q) \in Seq(S) /\ Len(Tail(q)) = Len(q) - 1
      /\ Len(q) \in Nat \ {0}
      /\ \A i \in 1..Len(Tail(q)) : Tail(q)[i] = q[i + 1]
  BY HeadTailProperties
<1>2. /\ Elements(q) = {q[i] : i \in 1..Len(q)}
      /\ Elements(Tail(q)) = {Tail(q)[i] : i \in 1..Len(Tail(q))}
  BY <1>1, ElementsOf
<1>3. ASSUME NEW i \in 1..Len(q) PROVE q[i] \in {Head(q)} \cup Elements(Tail(q))
  <2>1. CASE i = 1
    BY <1>1, <2>1
  <2>2. CASE i # 1
    <3>1. i - 1 \in 1..Len(Tail(q)) /\ (i - 1) + 1 = i
      BY <1>1, <2>2
    <3>2. Tail(q)[i - 1] = q[i]
      BY <1>1, <3>1
    <3> QED
      BY <1>2, <3>1, <3>2
  <2> QED
    BY <2>1, <2>2
<1>4. ASSUME NEW i \in 1..Len(Tail(q)) PROVE Tail(q)[i] \in Elements(q)
  <2>1. i + 1 \in 1..Len(q) /\ Tail(q)[i] = q[i + 1]
    BY <1>1
  <2> QED
    BY <1>2, <2>1
<1>5. Head(q) \in Elements(q)
  <2>1. 1 \in 1..Len(q)
    BY <1>1
  <2> QED
    BY <1>1, <1>2, <2>1
<1> QED
  BY <1>2, <1>3, <1>4, <1>5

\* Every step keeps critical events out of the normal batch, and kept.
LEMMA CriticalStays ==
    ASSUME IInv, [Next]_vars
    PROVE  AckIsConfirmed' /\ CriticalIsSomewhere'
<1> USE DEF batches, main, real, adders, history, vars
<1>1. /\ TypeOK /\ AddingIsEvent /\ CriticalIsFront /\ RealIsFront
      /\ AckIsConfirmed /\ CriticalIsSomewhere /\ HandIsSpread
      /\ RealtimeIsSeen /\ AddersAreGone
  BY DEF IInv
<1>2. /\ realtime \in Seq(Events) /\ critical \in Seq(Events)
      /\ hand \in Seq(Events) /\ confirmed \in Seq(Events)
      /\ mlist.events \in Seq(Events) /\ rlist.events \in Seq(Events)
      /\ mlist.disk \in Nat /\ rlist.mem \in Nat
  BY <1>1 DEF TypeOK, Lists
<1>3. \A a \in Adders : Pending(a) => adding[a] \in Events
  BY <1>1 DEF AddingIsEvent
<1>11. CASE \E a \in Adders : AddCall(a)
  BY <1>1, <1>11 DEF AddCall, AckIsConfirmed, CriticalIsSomewhere
<1>12. CASE \E a \in Adders : AddRealtime(a)
  <2>1. PICK a \in Adders : AddRealtime(a)
    BY <1>12
  <2>2. adding[a] \in Events
    BY <1>3, <2>1 DEF AddRealtime, Pending
  <2>3. Elements(Append(realtime, adding[a]))
            = Elements(realtime) \cup {adding[a]}
    BY <1>2, <2>2, ElementsOfAppend
  <2>4. CASE Len(realtime) < RealtimeLimit
    <3>1. /\ Elements(realtime') = Elements(realtime) \cup {adding[a]}
          /\ accepted' = accepted \cup {adding[a]}
      BY <2>1, <2>3, <2>4 DEF AddRealtime
    <3> QED
      BY <1>1, <2>1, <3>1 DEF AddRealtime, AckIsConfirmed, CriticalIsSomewhere
  <2>5. CASE ~ (Len(realtime) < RealtimeLimit)
    BY <1>1, <2>1, <2>5 DEF AddRealtime, AckIsConfirmed, CriticalIsSomewhere
  <2> QED
    BY <2>4, <2>5
<1>13. CASE \E a \in Adders : AddStore(a)
  <2>1. PICK a \in Adders : AddStore(a)
    BY <1>13
  <2>2. adding[a] \in Events
    BY <1>3, <2>1 DEF AddStore, Pending
  <2>3. Elements(Append(critical, adding[a]))
            = Elements(critical) \cup {adding[a]}
    BY <1>2, <2>2, ElementsOfAppend
  <2>4. /\ Elements(critical) \subseteq Elements(critical')
        /\ adding[a].critical => adding[a] \in Elements(critical')
    BY <2>1, <2>3 DEF AddStore, Store
  <2> QED
    BY <1>1, <2>1, <2>4 DEF AddStore, AckIsConfirmed, CriticalIsSomewhere
<1>14. CASE \E a \in Adders : AddAsk(a)
  BY <1>1, <1>14 DEF AddAsk, AckIsConfirmed, CriticalIsSomewhere
<1>15. CASE MainStart
  BY <1>1, <1>15 DEF MainStart, AckIsConfirmed, CriticalIsSomewhere
<1>16. CASE MainLoop
  BY <1>1, <1>16 DEF MainLoop, AckIsConfirmed, CriticalIsSomewhere
<1>17. CASE MainGet
  BY <1>1, <1>17 DEF MainGet, AckIsConfirmed, CriticalIsSomewhere
<1>18. CASE MainPostFails
  BY <1>1, <1>18 DEF MainPostFails, AckIsConfirmed, CriticalIsSomewhere
<1>19. CASE MainPostSucceeds
  <2>1. Elements(confirmed \o mlist.events)
            = Elements(confirmed) \cup Elements(mlist.events)
    BY <1>2, ElementsOfConcat
  <2>2. Elements(confirmed') = Elements(confirmed) \cup Elements(mlist.events)
    BY <1>19, <2>1 DEF MainPostSucceeds
  <2> QED
    BY <1>1, <1>19, <2>2
       DEF MainPostSucceeds, AckIsConfirmed, CriticalIsSomewhere
<1>20. CASE MainAck
  <2>1. ASSUME NEW e \in Elements(critical)
        PROVE  e \in Elements(critical') \cup Elements(confirmed)
    <3>1. CASE mlist.type = "critical"
      <4>1. /\ mlist.disk \in 0..Len(critical)
            /\ mlist.events = First(critical, mlist.disk)
        BY <1>1, <1>2, <1>20, <3>1 DEF MainAck, CriticalIsFront
      <4>2. Elements(critical) = Elements(First(critical, mlist.disk))
                                    \cup Elements(Drop(critical, mlist.disk))
        BY <1>2, <4>1, ElementsOfParts
      <4>3. Elements(mlist.events) \subseteq Elements(confirmed)
        BY <1>1, <1>20 DEF MainAck, AckIsConfirmed
      <4> QED
        BY <1>20, <3>1, <4>1, <4>2, <4>3 DEF MainAck
    <3>2. CASE mlist.type # "critical"
      BY <1>20, <3>2 DEF MainAck
    <3> QED
      BY <3>1, <3>2
  <2>2. mpc' # "ack"
    BY <1>20 DEF MainAck
  <2> QED
    BY <1>1, <1>20, <2>1, <2>2 DEF MainAck, AckIsConfirmed, CriticalIsSomewhere
<1>21. CASE RealStart
  BY <1>1, <1>21 DEF RealStart, AckIsConfirmed, CriticalIsSomewhere
<1>22. CASE RealLoop
  BY <1>1, <1>22 DEF RealLoop, AckIsConfirmed, CriticalIsSomewhere
<1>23. CASE RealGet
  BY <1>1, <1>23 DEF RealGet, AckIsConfirmed, CriticalIsSomewhere
<1>24. CASE RealPostFails
  BY <1>1, <1>24 DEF RealPostFails, AckIsConfirmed, CriticalIsSomewhere
<1>25. CASE RealPostSucceeds
  <2>1. Elements(confirmed \o rlist.events)
            = Elements(confirmed) \cup Elements(rlist.events)
    BY <1>2, ElementsOfConcat
  <2>2. Elements(confirmed') = Elements(confirmed) \cup Elements(rlist.events)
    BY <1>25, <2>1 DEF RealPostSucceeds
  <2> QED
    BY <1>1, <1>25, <2>2
       DEF RealPostSucceeds, AckIsConfirmed, CriticalIsSomewhere
<1>26. CASE RealAck
  <2>1. /\ rlist.mem \in 0..Len(realtime)
        /\ rlist.events = First(realtime, rlist.mem)
    BY <1>1, <1>2, <1>26 DEF RealAck, RealIsFront
  <2>2. Elements(realtime) = Elements(First(realtime, rlist.mem))
                                \cup Elements(Drop(realtime, rlist.mem))
    BY <1>2, <2>1, ElementsOfParts
  <2>3. Elements(rlist.events) \subseteq Elements(confirmed)
    BY <1>1, <1>26 DEF RealAck, AckIsConfirmed
  <2> QED
    BY <1>1, <1>26, <2>1, <2>2, <2>3
       DEF RealAck, AckIsConfirmed, CriticalIsSomewhere
<1>27. CASE RealTransfer
  <2>1. Elements(hand) = {}
    BY <1>1, <1>27, NoElements DEF RealTransfer, HandIsSpread
  <2> QED
    BY <1>1, <1>27, <2>1 DEF RealTransfer, AckIsConfirmed, CriticalIsSomewhere
<1>28. CASE RealSpread
  <2>1. CASE hand = <<>>
    BY <1>1, <1>28, <2>1 DEF RealSpread, AckIsConfirmed, CriticalIsSomewhere
  <2>2. CASE hand # <<>>
    <3>1. /\ Head(hand) \in Events /\ Tail(hand) \in Seq(Events)
      BY <1>2, <2>2, HeadTailProperties
    <3>2. Elements(hand) = {Head(hand)} \cup Elements(Tail(hand))
      BY <1>2, <2>2, <3>1, ElementsOfHead
    <3>3. Elements(Append(critical, Head(hand)))
            = Elements(critical) \cup {Head(hand)}
      BY <1>2, <3>1, ElementsOfAppend
    <3>4. /\ Elements(critical) \subseteq Elements(critical')
          /\ Head(hand).critical => Head(hand) \in Elements(critical')
      BY <1>28, <2>2, <3>3 DEF RealSpread, Store
    <3> QED
      BY <1>1, <1>28, <2>2, <3>2, <3>4
         DEF RealSpread, AckIsConfirmed, CriticalIsSomewhere
  <2> QED
    BY <2>1, <2>2
<1>29. CASE RealAsk
  BY <1>1, <1>29 DEF RealAsk, AckIsConfirmed, CriticalIsSomewhere
<1>30. CASE Start
  BY <1>1, <1>30 DEF Start, AckIsConfirmed, CriticalIsSomewhere
<1>31. CASE Destroy
  BY <1>1, <1>31 DEF Destroy, AckIsConfirmed, CriticalIsSomewhere
<1>32. CASE MainTerminated
  BY <1>1, <1>32 DEF MainTerminated, AckIsConfirmed, CriticalIsSomewhere
<1>33. CASE RealTerminated
  BY <1>1, <1>33 DEF RealTerminated, AckIsConfirmed, CriticalIsSomewhere
<1>34. CASE Destroyed
  <2>1. realtime = <<>>
    BY <1>1, <1>34 DEF Destroyed, RealQuiet, RealtimeIsSeen, AddersAreGone
  <2> QED
    BY <1>1, <1>34, <2>1 DEF Destroyed, AckIsConfirmed, CriticalIsSomewhere
<1>35. CASE UNCHANGED vars
  BY <1>1, <1>35 DEF AckIsConfirmed, CriticalIsSomewhere
<1> QED
  BY <1>11, <1>12, <1>13, <1>14, <1>15, <1>16, <1>17, <1>18, <1>19,
     <1>20, <1>21, <1>22, <1>23, <1>24, <1>25, <1>26, <1>27, <1>28,
     <1>29, <1>30, <1>31, <1>32, <1>33, <1>34, <1>35
     DEF Next, Add, Main, Real, Owner

-----------------------------------------------------------------------------
(* Where events go.                                                        *)

Flow == AcceptedIsSomewhere /\ SomewhereOnce /\ AddingIsNew

\* Each place holds a sequence of events, now and after a step.
LEMMA WhereType ==
    ASSUME TypeOK
    PROVE  Where \in [Places -> Seq(Events)]
<1>1. /\ realtime \in Seq(Events) /\ critical \in Seq(Events)
      /\ hand \in Seq(Events) /\ normal.disk \in Seq(Events)
      /\ normal.mem \in Seq(Events) /\ confirmed \in Seq(Events)
      /\ AckReal \in Nat /\ AckCritical \in Nat
      /\ AckDisk \in Nat /\ AckMem \in Nat
  BY DEF TypeOK, Lists, AckReal, AckCritical, AckDisk, AckMem
<1>2. /\ Drop(realtime, AckReal) \in Seq(Events)
      /\ Drop(critical, AckCritical) \in Seq(Events)
      /\ Drop(normal.disk, AckDisk) \in Seq(Events)
      /\ Drop(normal.mem, AckMem) \in Seq(Events)
  BY <1>1, DropType
<1> QED
  BY <1>1, <1>2, PlacesType DEF Where

LEMMA WhereTypeNext ==
    ASSUME TypeOK'
    PROVE  Where' \in [Places -> Seq(Events)]
<1>1. /\ realtime' \in Seq(Events) /\ critical' \in Seq(Events)
      /\ hand' \in Seq(Events) /\ normal'.disk \in Seq(Events)
      /\ normal'.mem \in Seq(Events) /\ confirmed' \in Seq(Events)
      /\ AckReal' \in Nat /\ AckCritical' \in Nat
      /\ AckDisk' \in Nat /\ AckMem' \in Nat
  BY DEF TypeOK, Lists, AckReal, AckCritical, AckDisk, AckMem
<1>2. /\ Drop(realtime', AckReal') \in Seq(Events)
      /\ Drop(critical', AckCritical') \in Seq(Events)
      /\ Drop(normal'.disk, AckDisk') \in Seq(Events)
      /\ Drop(normal'.mem, AckMem') \in Seq(Events)
  BY <1>1, DropType
<1> QED
  BY <1>1, <1>2, PlacesType DEF Where

\* What is in each place, now and after a step.
LEMMA WherePlaces ==
    /\ Where["realtime"] = Drop(realtime, AckReal)
    /\ Where["critical"] = Drop(critical, AckCritical)
    /\ Where["hand"] = hand
    /\ Where["disk"] = Drop(normal.disk, AckDisk)
    /\ Where["mem"] = Drop(normal.mem, AckMem)
    /\ Where["confirmed"] = confirmed
BY PlacesOf DEF Where

LEMMA WherePlacesNext ==
    /\ Where'["realtime"] = Drop(realtime', AckReal')
    /\ Where'["critical"] = Drop(critical', AckCritical')
    /\ Where'["hand"] = hand'
    /\ Where'["disk"] = Drop(normal'.disk, AckDisk')
    /\ Where'["mem"] = Drop(normal'.mem, AckMem')
    /\ Where'["confirmed"] = confirmed'
BY PlacesOf DEF Where

\* Events move, or stay where they are.
LEMMA FlowKept ==
    ASSUME Flow, overtaken => overtaken', accepted' = accepted,
           \A a \in Adders : Pending(a)' => Pending(a),
           adding' = adding, count' = count,
           ~overtaken' => /\ OnePlace(Where)'
                          /\ \A e : In(Where', e) <=> In(Where, e)
    PROVE  Flow'
<1>1. AcceptedIsSomewhere'
  BY DEF Flow, AcceptedIsSomewhere
<1>2. SomewhereOnce'
  BY DEF SomewhereOnce
<1>3. AddingIsNew'
  BY DEF Flow, AddingIsNew
<1> QED
  BY <1>1, <1>2, <1>3 DEF Flow

\* An event that was being added gets to some place.
LEMMA FlowAdded ==
    ASSUME Flow, TypeOK, AddingIsEvent, NEW a \in Adders, Pending(a),
           overtaken => overtaken', accepted' = accepted \cup {adding[a]},
           ~Pending(a)',
           \A b \in Adders : Pending(b)' => Pending(b),
           adding' = adding, count' = count,
           ~overtaken' => OnePlace(Where)' /\ OneMore(Where, Where', adding[a])
    PROVE  Flow'
<1> USE DEF OneMore
<1>1. AcceptedIsSomewhere'
  BY DEF Flow, AcceptedIsSomewhere
<1>2. SomewhereOnce'
  BY DEF SomewhereOnce
<1>3. ASSUME NEW b \in Adders, NEW c \in Adders, Pending(b)', Pending(c)', b # c
      PROVE  adding'[b].n <= count' /\ adding'[b] # adding'[c]
  BY <1>3 DEF Flow, AddingIsNew
<1>4. ASSUME NEW b \in Adders, Pending(b)'
      PROVE  adding'[b].n <= count' /\ (~overtaken' => ~In(Where', adding'[b]))
  <2>1. b # a /\ Pending(b)
    BY <1>4
  <2>2. adding[b] # adding[a]
    BY <2>1 DEF Flow, AddingIsNew
  <2> QED
    BY <2>1, <2>2 DEF Flow, AddingIsNew
<1>5. ASSUME ~overtaken', NEW e \in Events, In(Where', e)
      PROVE  e.n <= count'
  <2>1. In(Where, e) \/ e = adding[a]
    BY <1>5
  <2> QED
    BY <1>5, <2>1 DEF Flow, AddingIsNew
<1>6. AddingIsNew'
  BY <1>3, <1>4, <1>5 DEF AddingIsNew
<1> QED
  BY <1>1, <1>2, <1>6 DEF Flow


\* What Store() does with an event that is nowhere.
LEMMA StoreFlow ==
    ASSUME TypeOK, TypeOK', CriticalIsFront, NormalIsFront,
           NEW e \in Events, Store(e), mpc' = mpc, mlist' = mlist, ~overtaken',
           NEW X \in [Places -> Seq(Events)], OnePlace(X), ~In(X, e),
           \A p \in {"critical", "disk", "mem"} : X[p] = Where[p],
           \A p \in {"realtime", "hand", "confirmed"} : X[p] = Where'[p]
    PROVE  OnePlace(Where') /\ OneMore(X, Where', e)
<1> DEFINE V == Where'
           f == normal.disk
           m == normal.mem
<1>1. /\ f \in Seq(Events) /\ m \in Seq(Events) /\ critical \in Seq(Events)
      /\ mlist.disk \in Nat /\ mlist.mem \in Nat /\ overtaken \in BOOLEAN
      /\ normal \in [disk : Seq(Events), mem : Seq(Events)]
      /\ Len(f) \in Nat /\ Len(m) \in Nat /\ Len(critical) \in Nat
  <2>1. /\ f \in Seq(Events) /\ m \in Seq(Events) /\ critical \in Seq(Events)
        /\ mlist \in Lists /\ overtaken \in BOOLEAN
        /\ normal \in [disk : Seq(Events), mem : Seq(Events)]
    BY DEF TypeOK
  <2> HIDE DEF f, m
  <2> QED
    BY <2>1 DEF Lists
<1>2. V \in [Places -> Seq(Events)]
  BY WhereTypeNext
<1>3. /\ X["critical"] = Drop(critical, AckCritical)
      /\ X["disk"] = Drop(f, AckDisk) /\ X["mem"] = Drop(m, AckMem)
  BY WherePlaces
<1>4. /\ V["critical"] = Drop(critical', AckCritical)
      /\ V["disk"] = Drop(normal'.disk, AckDisk)
      /\ V["mem"] = Drop(normal'.mem, AckMem)
  BY WherePlacesNext DEF AckCritical, AckDisk, AckMem
<1>5. ~overtaken /\ (~e.critical => ~Overtakes)
  BY <1>1 DEF Store, Overtakes
<1>6. /\ AckCritical \in 0..Len(critical) /\ AckDisk \in 0..Len(f)
      /\ AckMem \in 0..Len(m)
  BY <1>1, <1>5
     DEF AckCritical, AckDisk, AckMem, CriticalIsFront, NormalIsFront
<1>7. \A p \in Places : p \in {"critical", "disk", "mem"} \/ V[p] = X[p]
  BY DEF Places
<1> HIDE DEF V
<1>8. CASE e.critical
  <2>1. critical' = Append(critical, e) /\ normal' = normal
    BY <1>8 DEF Store
  <2>2. V["critical"] = Append(X["critical"], e)
    <3>1. Drop(Append(critical, e), AckCritical)
            = Append(Drop(critical, AckCritical), e)
      BY <1>1, <1>6, OneBehind
    <3> QED
      BY <1>3, <1>4, <2>1, <3>1
  <2>3. \A p \in Places \ {"critical"} : V[p] = X[p]
    BY <1>3, <1>4, <1>7, <2>1
  <2>4. "critical" \in Places
    BY DEF Places
  <2>5. Gets(X, V, "critical", e)
    BY <2>2, <2>3 DEF Gets
  <2>6. OnePlace(V) /\ OneMore(X, V, e)
    BY <1>2, <2>4, <2>5, AddOne
  <2> QED
    BY <2>6 DEF V
<1>9. CASE ~e.critical /\ Len(m) < MemLimit
  <2>1. normal' = [normal EXCEPT !.mem = Append(@, e)] /\ critical' = critical
    BY <1>9 DEF Store, Added
  <2>2. normal'.disk = f /\ normal'.mem = Append(m, e)
    BY <1>1, <2>1
  <2>3. V["mem"] = Append(X["mem"], e)
    BY <1>1, <1>3, <1>4, <1>6, <2>2, OneBehind
  <2>4. \A p \in Places \ {"mem"} : V[p] = X[p]
    BY <1>3, <1>4, <1>7, <2>1, <2>2
  <2>5. "mem" \in Places
    BY DEF Places
  <2>6. Gets(X, V, "mem", e)
    BY <2>3, <2>4 DEF Gets
  <2>7. OnePlace(V) /\ OneMore(X, V, e)
    BY <1>2, <2>5, <2>6, AddOne
  <2> QED
    BY <2>7 DEF V
<1>10. CASE ~e.critical /\ ~ (Len(m) < MemLimit)
  <2> DEFINE Y == [X EXCEPT !["disk"] = X["disk"] \o m, !["mem"] = <<>>]
             t == <<e>>
  <2>1. normal' = [disk |-> f \o m, mem |-> t] /\ critical' = critical
    BY <1>10 DEF Store, Added, Flushed
  <2>2. normal'.disk = f \o m /\ normal'.mem = t
    BY <2>1
  <2>3. AckMem = 0
    BY <1>1, <1>5, <1>10, LimitsAssumption DEF Overtakes, AckMem
  <2>4. t \in Seq(Events) /\ Append(<<>>, e) = t
    OBVIOUS
  <2> HIDE DEF t
  <2>5. /\ X["mem"] = m /\ V["mem"] = t
        /\ First(m, Len(m)) = m /\ Drop(m, Len(m)) = <<>>
    BY <1>1, <1>3, <1>4, <2>2, <2>3, <2>4, AllOrNothing
  <2>6. V["disk"] = X["disk"] \o m
    <3>1. Drop(f \o m, AckDisk) = Drop(f, AckDisk) \o m
      <4> DEFINE n == AckDisk
      <4>1. f \in Seq(Events) /\ m \in Seq(Events) /\ n \in 0..Len(f)
        BY <1>1, <1>6
      <4> HIDE DEF f, m, n
      <4>2. Drop(f \o m, n) = Drop(f, n) \o m
        BY <4>1, Behind
      <4> QED
        BY <4>2 DEF n
    <3> QED
      BY <1>3, <1>4, <2>2, <3>1
  <2>7. X["disk"] \o m \in Seq(Events)
    <3>1. X["disk"] \in Seq(Events)
      BY DEF Places
    <3> QED
      BY <1>1, <3>1, ConcatProperties
  <2>8. /\ Y \in [Places -> Seq(Events)]
        /\ Y["disk"] = X["disk"] \o m /\ Y["mem"] = <<>>
        /\ \A p \in Places \ {"mem", "disk"} : Y[p] = X[p]
    <3>1. "mem" \in Places /\ "disk" \in Places /\ <<>> \in Seq(Events)
      BY DEF Places
    <3> QED
      BY <2>7, <3>1
  <2> HIDE DEF Y
  <2>9. OnePlace(Y) /\ \A g : In(Y, g) <=> In(X, g)
    <3>1. /\ "mem" \in Places /\ "disk" \in Places
          /\ Len(X["mem"]) \in 0..Len(X["mem"])
      BY <1>1, <2>5 DEF Places
    <3>2. Moves(X, Y, "mem", "disk", Len(X["mem"]))
      BY <2>5, <2>8, <3>1 DEF Moves
    <3> QED
      BY <2>8, <3>1, <3>2, Move
  <2>10. V["mem"] = Append(Y["mem"], e) /\ V["disk"] = Y["disk"]
    BY <2>4, <2>5, <2>6, <2>8
  <2>11. V["critical"] = X["critical"]
    BY <1>3, <1>4, <2>1
  <2>12. \A p \in Places \ {"mem"} : V[p] = Y[p]
    BY <1>7, <2>8, <2>10, <2>11
  <2>13. "mem" \in Places /\ ~In(Y, e)
    BY <2>9 DEF Places
  <2>14. Gets(Y, V, "mem", e)
    BY <2>10, <2>12 DEF Gets
  <2>15. OnePlace(V) /\ OneMore(Y, V, e)
    BY <1>2, <2>8, <2>9, <2>13, <2>14, AddOne
  <2> QED
    BY <2>9, <2>15 DEF V, OneMore
<1> QED
  BY <1>8, <1>9, <1>10


\* Nothing is lost, and nothing is in two places.
LEMMA FlowStays ==
    ASSUME IInv, [Next]_vars
    PROVE  Flow'
<1> USE DEF batches, main, real, adders, history, vars
<1>1. /\ TypeOK /\ AddingIsEvent /\ CriticalIsFront /\ NormalIsFront
      /\ RealIsFront /\ Flow /\ HandIsSpread /\ RealtimeIsSeen
      /\ AddersAreGone
  BY DEF IInv, Flow
<1>2. /\ TypeOK' /\ Where \in [Places -> Seq(Events)]
      /\ Where' \in [Places -> Seq(Events)]
  BY <1>1, TypeStays, WhereType, WhereTypeNext
<1>3. ~overtaken => OnePlace(Where)
  BY <1>1 DEF Flow, SomewhereOnce
<1>4. /\ realtime \in Seq(Events) /\ critical \in Seq(Events)
      /\ normal.disk \in Seq(Events) /\ normal.mem \in Seq(Events)
      /\ hand \in Seq(Events) /\ confirmed \in Seq(Events)
      /\ mlist.events \in Seq(Events) /\ rlist.events \in Seq(Events)
      /\ mlist.disk \in Nat /\ mlist.mem \in Nat /\ rlist.mem \in Nat
      /\ overtaken \in BOOLEAN
  BY <1>1 DEF TypeOK, Lists
<1>5. \A p \in Places : p \in {"realtime", "critical", "hand", "disk", "mem",
                                "confirmed"}
  BY DEF Places
<1>6. /\ "realtime" \in Places /\ "critical" \in Places /\ "hand" \in Places
      /\ "disk" \in Places /\ "mem" \in Places /\ "confirmed" \in Places
  BY DEF Places
<1>11. CASE \E a \in Adders : AddCall(a)
  <2>1. PICK a \in Adders : AddCall(a)
    BY <1>11
  <2>2. Where' = Where
    BY <2>1 DEF AddCall, Where, AckReal, AckCritical, AckDisk, AckMem
  <2>3. PICK k \in Kinds :
            adding' = [adding EXCEPT ![a] =
                            [n |-> count + 1, critical |-> k.critical]]
    BY <2>1 DEF AddCall
  <2>4. /\ count' = count + 1 /\ count \in Nat
        /\ accepted' = accepted /\ overtaken' = overtaken
    BY <1>1, <2>1, LimitsAssumption DEF AddCall, TypeOK
  <2>5. /\ adding'[a].n = count + 1
        /\ \A b \in Adders \ {a} : adding'[b] = adding[b]
    BY <1>1, <2>3 DEF TypeOK
  <2>6. \A b \in Adders \ {a} : Pending(b)' => Pending(b)
    BY <1>1, <2>1 DEF AddCall, Pending, TypeOK
  <2>7. /\ \A b \in Adders : Pending(b) =>
            /\ adding[b].n <= count /\ adding[b].n \in Nat
            /\ ~overtaken => ~In(Where, adding[b])
        /\ \A b, c \in Adders : Pending(b) /\ Pending(c) /\ b # c =>
            adding[b] # adding[c]
        /\ ~overtaken => \A e \in Events : In(Where, e) => e.n <= count
    BY <1>1 DEF Flow, AddingIsNew, AddingIsEvent, Events
  <2>8. \A b \in Adders : Pending(b)' => adding'[b].n <= count'
    BY <2>4, <2>5, <2>6, <2>7
  <2>9. ASSUME NEW b \in Adders, NEW c \in Adders, Pending(b)', Pending(c)',
               b # c
        PROVE  adding'[b] # adding'[c]
    <3>1. CASE b = a
      <4>1. adding'[c].n <= count /\ adding'[c].n \in Nat
        BY <2>5, <2>6, <2>7, <2>9, <3>1
      <4> QED
        BY <2>4, <2>5, <3>1, <4>1
    <3>2. CASE c = a
      <4>1. adding'[b].n <= count /\ adding'[b].n \in Nat
        BY <2>5, <2>6, <2>7, <2>9, <3>2
      <4> QED
        BY <2>4, <2>5, <3>2, <4>1
    <3>3. CASE b # a /\ c # a
      BY <2>5, <2>6, <2>7, <2>9, <3>3
    <3> QED
      BY <3>1, <3>2, <3>3
  <2>10. ASSUME ~overtaken', NEW e \in Events, In(Where', e)
         PROVE  e.n <= count'
    <3>1. e.n <= count /\ e.n \in Nat
      BY <2>2, <2>4, <2>7, <2>10 DEF Events
    <3> QED
      BY <2>4, <3>1
  <2>11. ASSUME ~overtaken', NEW b \in Adders, Pending(b)'
         PROVE  ~In(Where', adding'[b])
    <3>1. CASE b = a
      <4>1. adding'[a] \in Events
        BY <1>1, <1>2, <2>11, <3>1, TypeStays DEF AddingIsEvent
      <4>2. In(Where, adding'[a]) => adding'[a].n <= count
        BY <2>4, <2>7, <2>11, <4>1
      <4> QED
        BY <2>2, <2>4, <2>5, <3>1, <4>2
    <3>2. CASE b # a
      BY <2>2, <2>4, <2>5, <2>6, <2>7, <2>11, <3>2
    <3> QED
      BY <3>1, <3>2
  <2>12. AddingIsNew'
    BY <2>8, <2>9, <2>10, <2>11 DEF AddingIsNew
  <2>13. AcceptedIsSomewhere' /\ SomewhereOnce'
    BY <1>1, <2>2, <2>4 DEF Flow, AcceptedIsSomewhere, SomewhereOnce
  <2> QED
    BY <2>12, <2>13 DEF Flow
<1>12. CASE \E a \in Adders : AddRealtime(a)
  <2>1. PICK a \in Adders : AddRealtime(a)
    BY <1>12
  <2>2. /\ overtaken' = overtaken /\ adding' = adding /\ count' = count
        /\ \A b \in Adders : Pending(b)' => Pending(b)
        /\ Pending(a) /\ adding[a] \in Events
    BY <1>1, <2>1 DEF AddRealtime, Pending, TypeOK, AddingIsEvent
  <2>3. CASE Len(realtime) < RealtimeLimit
    <3>1. /\ accepted' = accepted \cup {adding[a]} /\ ~Pending(a)'
          /\ realtime' = Append(realtime, adding[a])
      BY <1>1, <2>1, <2>3 DEF AddRealtime, Pending, TypeOK
    <3>2. AckReal' = AckReal /\ AckReal \in 0..Len(realtime)
      BY <1>1, <1>4, <2>1 DEF AddRealtime, AckReal, RealIsFront
    <3>3. Drop(realtime', AckReal') = Append(Drop(realtime, AckReal), adding[a])
      BY <1>4, <2>2, <3>1, <3>2, OneBehind
    <3>4. Gets(Where, Where', "realtime", adding[a])
      <4>1. /\ Where'["critical"] = Where["critical"]
            /\ Where'["hand"] = Where["hand"]
            /\ Where'["disk"] = Where["disk"]
            /\ Where'["mem"] = Where["mem"]
            /\ Where'["confirmed"] = Where["confirmed"]
        BY <2>1, WherePlaces, WherePlacesNext
           DEF AddRealtime, AckCritical, AckDisk, AckMem
      <4> QED
        BY <1>5, <3>3, <4>1, WherePlaces, WherePlacesNext DEF Gets
    <3>5. ~overtaken => ~In(Where, adding[a])
      BY <1>1, <2>2 DEF Flow, AddingIsNew
    <3>6. ~overtaken' => OnePlace(Where)' /\ OneMore(Where, Where', adding[a])
      BY <1>2, <1>3, <1>6, <2>2, <3>4, <3>5, AddOne
    <3> QED
      BY <1>1, <2>2, <3>1, <3>6, FlowAdded
  <2>4. CASE ~ (Len(realtime) < RealtimeLimit)
    <3>1. accepted' = accepted
      BY <2>1, <2>4 DEF AddRealtime
    <3>2. Where' = Where
      BY <2>1, <2>4
         DEF AddRealtime, Where, AckReal, AckCritical, AckDisk, AckMem
    <3> QED
      BY <1>1, <1>3, <2>2, <3>1, <3>2, FlowKept
  <2> QED
    BY <2>3, <2>4
<1>13. CASE \E a \in Adders : AddStore(a)
  <2>1. PICK a \in Adders : AddStore(a)
    BY <1>13
  <2>2. /\ adding' = adding /\ count' = count
        /\ \A b \in Adders : Pending(b)' => Pending(b)
        /\ Pending(a) /\ adding[a] \in Events /\ ~Pending(a)'
        /\ accepted' = accepted \cup {adding[a]}
    BY <1>1, <2>1 DEF AddStore, Pending, TypeOK, AddingIsEvent
  <2>3. Store(adding[a]) /\ mpc' = mpc /\ mlist' = mlist
    BY <2>1 DEF AddStore
  <2>4. overtaken => overtaken'
    BY <1>1, <2>2, <2>3, StoreType
  <2>5. ASSUME ~overtaken'
        PROVE  OnePlace(Where') /\ OneMore(Where, Where', adding[a])
    <3>1. ~In(Where, adding[a]) /\ OnePlace(Where)
      BY <1>1, <1>3, <2>2, <2>4, <2>5 DEF Flow, AddingIsNew
    <3>2. \A p \in {"realtime", "hand", "confirmed"} : Where[p] = Where'[p]
      BY <2>1, WherePlaces, WherePlacesNext DEF AddStore, AckReal
    <3> QED
      BY <1>1, <1>2, <2>2, <2>3, <2>5, <3>1, <3>2, StoreFlow
  <2> QED
    BY <1>1, <2>2, <2>4, <2>5, FlowAdded
<1>14. CASE \E a \in Adders : AddAsk(a)
  <2>1. Where' = Where
    BY <1>14 DEF AddAsk, Where, AckReal, AckCritical, AckDisk, AckMem
  <2>20. /\ overtaken' = overtaken /\ accepted' = accepted
         /\ adding' = adding /\ count' = count
         /\ \A a \in Adders : Pending(a)' => Pending(a)
    BY <1>1, <1>14 DEF AddAsk, Pending, TypeOK
  <2> QED
    BY <1>1, <1>3, <2>1, <2>20, FlowKept
<1>15. CASE MainStart
  <2>1. Where' = Where
    BY <1>15 DEF MainStart, Where, AckReal, AckCritical, AckDisk, AckMem
  <2>20. /\ overtaken' = overtaken /\ accepted' = accepted
         /\ adding' = adding /\ count' = count
         /\ \A a \in Adders : Pending(a)' => Pending(a)
    BY <1>15 DEF MainStart, Pending
  <2> QED
    BY <1>1, <1>3, <2>1, <2>20, FlowKept
<1>16. CASE MainLoop
  <2>1. Where' = Where
    BY <1>16 DEF MainLoop, Where, AckReal, AckCritical, AckDisk, AckMem
  <2>20. /\ overtaken' = overtaken /\ accepted' = accepted
         /\ adding' = adding /\ count' = count
         /\ \A a \in Adders : Pending(a)' => Pending(a)
    BY <1>16 DEF MainLoop, Pending
  <2> QED
    BY <1>1, <1>3, <2>1, <2>20, FlowKept
<1>17. CASE MainGet
  <2>1. Where' = Where
    BY <1>17 DEF MainGet, Where, AckReal, AckCritical, AckDisk, AckMem
  <2>20. /\ overtaken' = overtaken /\ accepted' = accepted
         /\ adding' = adding /\ count' = count
         /\ \A a \in Adders : Pending(a)' => Pending(a)
    BY <1>17 DEF MainGet, Pending
  <2> QED
    BY <1>1, <1>3, <2>1, <2>20, FlowKept
<1>18. CASE MainPostFails
  <2>1. Where' = Where
    BY <1>18 DEF MainPostFails, Where, AckReal, AckCritical, AckDisk, AckMem
  <2>20. /\ overtaken' = overtaken /\ accepted' = accepted
         /\ adding' = adding /\ count' = count
         /\ \A a \in Adders : Pending(a)' => Pending(a)
    BY <1>18 DEF MainPostFails, Pending
  <2> QED
    BY <1>1, <1>3, <2>1, <2>20, FlowKept
<1>19. CASE MainPostSucceeds
  <2> DEFINE k == mlist.disk
             l == mlist.mem
             f == normal.disk
             m == normal.mem
  <2>1. /\ AckCritical = 0 /\ AckDisk = 0 /\ AckMem = 0
        /\ realtime' = realtime /\ critical' = critical /\ normal' = normal
        /\ confirmed' = confirmed \o mlist.events /\ mlist' = mlist
        /\ mpc' = "ack" /\ overtaken' = overtaken
    BY <1>19 DEF MainPostSucceeds, AckCritical, AckDisk, AckMem
  <2>2. /\ Where["critical"] = critical /\ Where["disk"] = f
        /\ Where["mem"] = m /\ Where["confirmed"] = confirmed
    BY <1>4, <2>1, WherePlaces, AllOrNothing
  <2>3. /\ Where'["realtime"] = Where["realtime"]
        /\ Where'["hand"] = Where["hand"]
        /\ Where'["confirmed"] = confirmed \o mlist.events
    BY <1>19, WherePlaces, WherePlacesNext DEF MainPostSucceeds, AckReal
  <2>4. ASSUME mlist.type = "critical", ~overtaken
        PROVE  OnePlace(Where') /\ \A e : In(Where', e) <=> In(Where, e)
    <3>1. k \in 0..Len(critical) /\ mlist.events = First(critical, k)
      BY <1>1, <1>4, <1>19, <2>4 DEF MainPostSucceeds, CriticalIsFront
    <3>2. AckCritical' = k /\ AckDisk' = 0 /\ AckMem' = 0
      BY <2>1, <2>4 DEF AckCritical, AckDisk, AckMem
    <3>3. /\ Where'["critical"] = Drop(critical, k)
          /\ Where'["disk"] = Where["disk"] /\ Where'["mem"] = Where["mem"]
      BY <2>1, <3>2, WherePlaces, WherePlacesNext
    <3>4. Moves(Where, Where', "critical", "confirmed", k)
      BY <1>5, <2>2, <2>3, <3>1, <3>3 DEF Moves
    <3> QED
      BY <1>2, <1>3, <1>6, <2>4, <3>4, Move
  <2>5. ASSUME mlist.type # "critical", ~overtaken
        PROVE  OnePlace(Where') /\ \A e : In(Where', e) <=> In(Where, e)
    <3> DEFINE X == [Where EXCEPT !["disk"] = Drop(f, k),
                                  !["confirmed"] = confirmed \o First(f, k)]
    <3>1. /\ k \in 0..Len(f) /\ l \in 0..Len(m)
          /\ mlist.events = First(f, k) \o First(m, l)
      BY <1>1, <1>4, <1>19, <2>5 DEF MainPostSucceeds, NormalIsFront
    <3>2. AckCritical' = 0 /\ AckDisk' = k /\ AckMem' = l
      BY <2>1, <2>5 DEF AckCritical, AckDisk, AckMem
    <3>3. /\ Where'["critical"] = Where["critical"]
          /\ Where'["disk"] = Drop(f, k) /\ Where'["mem"] = Drop(m, l)
      BY <2>1, <3>2, WherePlaces, WherePlacesNext
    <3>4. /\ First(f, k) \in Seq(Events) /\ Drop(f, k) \in Seq(Events)
          /\ First(m, l) \in Seq(Events)
      BY <1>4, <3>1, FirstAndDrop
    <3>5. /\ confirmed \o First(f, k) \in Seq(Events)
          /\ confirmed \o mlist.events
                = (confirmed \o First(f, k)) \o First(m, l)
      <4> DEFINE s == First(f, k)
                 t == First(m, l)
      <4>1. /\ s \in Seq(Events) /\ t \in Seq(Events)
            /\ confirmed \in Seq(Events) /\ mlist.events = s \o t
        BY <1>4, <3>1, <3>4
      <4> HIDE DEF s, t
      <4>2. /\ confirmed \o s \in Seq(Events)
            /\ (confirmed \o s) \o t = confirmed \o (s \o t)
        BY <4>1, ConcatProperties, ConcatAssociative
      <4>3. confirmed \o mlist.events = (confirmed \o s) \o t
        BY <4>1, <4>2
      <4> QED
        BY <4>2, <4>3 DEF s, t
    <3>6. /\ X \in [Places -> Seq(Events)]
          /\ X["disk"] = Drop(f, k) /\ X["confirmed"] = confirmed \o First(f, k)
          /\ \A p \in Places \ {"disk", "confirmed"} : X[p] = Where[p]
      BY <1>2, <1>6, <3>4, <3>5
    <3> HIDE DEF X
    <3>7. Moves(Where, X, "disk", "confirmed", k)
      BY <2>2, <3>1, <3>6 DEF Moves
    <3>8. X["mem"] = m
      BY <1>6, <2>2, <3>6
    <3>9. Moves(X, Where', "mem", "confirmed", l)
      <4>1. \A p \in Places \ {"mem", "confirmed"} : Where'[p] = X[p]
        BY <1>5, <1>6, <2>3, <3>3, <3>6
      <4> QED
        BY <2>3, <3>1, <3>3, <3>5, <3>6, <3>8, <4>1 DEF Moves
    <3>10. OnePlace(X) /\ \A e : In(X, e) <=> In(Where, e)
      BY <1>2, <1>3, <1>6, <2>5, <3>6, <3>7, Move
    <3>11. OnePlace(Where') /\ \A e : In(Where', e) <=> In(X, e)
      BY <1>2, <1>6, <3>6, <3>9, <3>10, Move
    <3> QED
      BY <3>10, <3>11
  <2>9. ~overtaken => /\ OnePlace(Where')
                      /\ \A e : In(Where', e) <=> In(Where, e)
    BY <2>4, <2>5
  <2>20. /\ overtaken' = overtaken /\ accepted' = accepted
         /\ adding' = adding /\ count' = count
         /\ \A a \in Adders : Pending(a)' => Pending(a)
    BY <1>19 DEF MainPostSucceeds, Pending
  <2> QED
    BY <1>1, <1>3, <2>9, <2>20, FlowKept
<1>20. CASE MainAck
  <2>1. Where' = Where
    <3>1. /\ mpc' # "ack" /\ realtime' = realtime /\ AckReal' = AckReal
          /\ hand' = hand /\ confirmed' = confirmed
          /\ AckCritical' = 0 /\ AckDisk' = 0 /\ AckMem' = 0
      BY <1>20 DEF MainAck, AckReal, AckCritical, AckDisk, AckMem
    <3>2. CASE mlist.type = "critical"
      <4>1. /\ critical' = Drop(critical, mlist.disk) /\ normal' = normal
            /\ AckCritical = mlist.disk /\ AckDisk = 0 /\ AckMem = 0
        BY <1>20, <3>2 DEF MainAck, AckCritical, AckDisk, AckMem
      <4>2. Drop(critical, mlist.disk) \in Seq(Events)
        BY <1>4, DropType
      <4>3. Drop(critical', 0) = Drop(critical, mlist.disk)
        BY <4>1, <4>2, AllOrNothing
      <4> QED
        BY <3>1, <4>1, <4>3 DEF Where
    <3>3. CASE mlist.type # "critical"
      <4>1. /\ critical' = critical /\ AckCritical = 0
            /\ AckDisk = mlist.disk /\ AckMem = mlist.mem
            /\ normal'.disk = Drop(normal.disk, mlist.disk)
            /\ normal'.mem = Drop(normal.mem, mlist.mem)
        BY <1>20, <3>3 DEF MainAck, AckCritical, AckDisk, AckMem, Uploaded
      <4>2. /\ Drop(normal.disk, mlist.disk) \in Seq(Events)
            /\ Drop(normal.mem, mlist.mem) \in Seq(Events)
        BY <1>4, DropType
      <4>3. /\ Drop(normal'.disk, 0) = Drop(normal.disk, mlist.disk)
            /\ Drop(normal'.mem, 0) = Drop(normal.mem, mlist.mem)
        BY <4>1, <4>2, AllOrNothing
      <4> QED
        BY <3>1, <4>1, <4>3 DEF Where
    <3> QED
      BY <3>2, <3>3
  <2>20. /\ overtaken' = overtaken /\ accepted' = accepted
         /\ adding' = adding /\ count' = count
         /\ \A a \in Adders : Pending(a)' => Pending(a)
    BY <1>20 DEF MainAck, Pending
  <2> QED
    BY <1>1, <1>3, <2>1, <2>20, FlowKept
<1>21. CASE RealStart
  <2>1. Where' = Where
    BY <1>21 DEF RealStart, Where, AckReal, AckCritical, AckDisk, AckMem
  <2>20. /\ overtaken' = overtaken /\ accepted' = accepted
         /\ adding' = adding /\ count' = count
         /\ \A a \in Adders : Pending(a)' => Pending(a)
    BY <1>21 DEF RealStart, Pending
  <2> QED
    BY <1>1, <1>3, <2>1, <2>20, FlowKept
<1>22. CASE RealLoop
  <2>1. Where' = Where
    BY <1>22 DEF RealLoop, Where, AckReal, AckCritical, AckDisk, AckMem
  <2>20. /\ overtaken' = overtaken /\ accepted' = accepted
         /\ adding' = adding /\ count' = count
         /\ \A a \in Adders : Pending(a)' => Pending(a)
    BY <1>22 DEF RealLoop, Pending
  <2> QED
    BY <1>1, <1>3, <2>1, <2>20, FlowKept
<1>23. CASE RealGet
  <2>1. Where' = Where
    BY <1>23 DEF RealGet, Where, AckReal, AckCritical, AckDisk, AckMem
  <2>20. /\ overtaken' = overtaken /\ accepted' = accepted
         /\ adding' = adding /\ count' = count
         /\ \A a \in Adders : Pending(a)' => Pending(a)
    BY <1>23 DEF RealGet, Pending
  <2> QED
    BY <1>1, <1>3, <2>1, <2>20, FlowKept
<1>24. CASE RealPostFails
  <2>1. Where' = Where
    BY <1>24 DEF RealPostFails, Where, AckReal, AckCritical, AckDisk, AckMem
  <2>20. /\ overtaken' = overtaken /\ accepted' = accepted
         /\ adding' = adding /\ count' = count
         /\ \A a \in Adders : Pending(a)' => Pending(a)
    BY <1>24 DEF RealPostFails, Pending
  <2> QED
    BY <1>1, <1>3, <2>1, <2>20, FlowKept
<1>25. CASE RealPostSucceeds
  <2>1. /\ AckReal = 0 /\ AckReal' = rlist.mem
        /\ realtime' = realtime /\ confirmed' = confirmed \o rlist.events
        /\ rlist.mem \in 0..Len(realtime)
        /\ rlist.events = First(realtime, rlist.mem)
    BY <1>1, <1>4, <1>25 DEF RealPostSucceeds, AckReal, RealIsFront
  <2>2. Where["realtime"] = realtime
    BY <1>4, <2>1, WherePlaces, AllOrNothing
  <2>3. /\ Where'["critical"] = Where["critical"]
        /\ Where'["hand"] = Where["hand"]
        /\ Where'["disk"] = Where["disk"] /\ Where'["mem"] = Where["mem"]
    BY <1>25, WherePlaces, WherePlacesNext
       DEF RealPostSucceeds, AckCritical, AckDisk, AckMem
  <2>4. /\ Where'["realtime"] = Drop(realtime, rlist.mem)
        /\ Where'["confirmed"] = Where["confirmed"] \o First(realtime, rlist.mem)
    BY <2>1, WherePlaces, WherePlacesNext
  <2>5. Moves(Where, Where', "realtime", "confirmed", rlist.mem)
    BY <1>5, <2>1, <2>2, <2>3, <2>4 DEF Moves
  <2>9. ~overtaken => /\ OnePlace(Where')
                      /\ \A e : In(Where', e) <=> In(Where, e)
    BY <1>2, <1>3, <1>6, <2>5, Move
  <2>20. /\ overtaken' = overtaken /\ accepted' = accepted
         /\ adding' = adding /\ count' = count
         /\ \A a \in Adders : Pending(a)' => Pending(a)
    BY <1>25 DEF RealPostSucceeds, Pending
  <2> QED
    BY <1>1, <1>3, <2>9, <2>20, FlowKept
<1>26. CASE RealAck
  <2>1. Where' = Where
    <3>1. /\ realtime' = Drop(realtime, rlist.mem)
          /\ AckReal = rlist.mem /\ AckReal' = 0
          /\ hand' = hand /\ confirmed' = confirmed /\ critical' = critical
          /\ normal' = normal /\ AckCritical' = AckCritical
          /\ AckDisk' = AckDisk /\ AckMem' = AckMem
      BY <1>26 DEF RealAck, AckReal, AckCritical, AckDisk, AckMem
    <3>2. Drop(realtime, rlist.mem) \in Seq(Events)
      BY <1>4, DropType
    <3>3. Drop(realtime', 0) = Drop(realtime, rlist.mem)
      BY <3>1, <3>2, AllOrNothing
    <3> QED
      BY <3>1, <3>3 DEF Where
  <2>20. /\ overtaken' = overtaken /\ accepted' = accepted
         /\ adding' = adding /\ count' = count
         /\ \A a \in Adders : Pending(a)' => Pending(a)
    BY <1>26 DEF RealAck, Pending
  <2> QED
    BY <1>1, <1>3, <2>1, <2>20, FlowKept
<1>27. CASE RealTransfer
  <2>1. /\ AckReal = 0 /\ AckReal' = 0 /\ realtime' = <<>>
        /\ hand = <<>> /\ hand' = realtime
    BY <1>1, <1>27 DEF RealTransfer, AckReal, HandIsSpread
  <2>2. Where["realtime"] = realtime /\ Where["hand"] = <<>>
    BY <1>4, <2>1, WherePlaces, AllOrNothing
  <2>3. /\ Where'["critical"] = Where["critical"]
        /\ Where'["disk"] = Where["disk"] /\ Where'["mem"] = Where["mem"]
        /\ Where'["confirmed"] = Where["confirmed"]
    BY <1>27, WherePlaces, WherePlacesNext
       DEF RealTransfer, AckCritical, AckDisk, AckMem
  <2>4. Where'["realtime"] = <<>> /\ Where'["hand"] = realtime
    <3>1. Drop(<<>>, 0) = <<>>
      BY DEF Drop
    <3> QED
      BY <2>1, <3>1, WherePlacesNext
  <2>5. /\ Len(realtime) \in 0..Len(realtime)
        /\ Drop(realtime, Len(realtime)) = <<>>
        /\ <<>> \o First(realtime, Len(realtime)) = realtime
    BY <1>4, AllOrNothing, ConcatEmptySeq
  <2>6. Moves(Where, Where', "realtime", "hand", Len(realtime))
    BY <1>5, <2>2, <2>3, <2>4, <2>5 DEF Moves
  <2>9. ~overtaken => /\ OnePlace(Where')
                      /\ \A e : In(Where', e) <=> In(Where, e)
    BY <1>2, <1>3, <1>6, <2>6, Move
  <2>20. /\ overtaken' = overtaken /\ accepted' = accepted
         /\ adding' = adding /\ count' = count
         /\ \A a \in Adders : Pending(a)' => Pending(a)
    BY <1>27 DEF RealTransfer, Pending
  <2> QED
    BY <1>1, <1>3, <2>9, <2>20, FlowKept
<1>28. CASE RealSpread
  <2>1. CASE hand = <<>>
    <3>1. Where' = Where
      BY <1>28, <2>1
         DEF RealSpread, Where, AckReal, AckCritical, AckDisk, AckMem
    <3>2. /\ overtaken' = overtaken /\ accepted' = accepted
          /\ adding' = adding /\ count' = count
          /\ \A a \in Adders : Pending(a)' => Pending(a)
      BY <1>28, <2>1 DEF RealSpread, Pending
    <3> QED
      BY <1>1, <1>3, <3>1, <3>2, FlowKept
  <2>2. CASE hand # <<>>
    <3> DEFINE X == [Where EXCEPT !["hand"] = Tail(hand)]
               e == Head(hand)
    <3>1. e \in Events /\ Tail(hand) \in Seq(Events)
      BY <1>4, <2>2, HeadTailProperties
    <3>2. /\ Store(e) /\ hand' = Tail(hand) /\ mpc' = mpc /\ mlist' = mlist
          /\ accepted' = accepted /\ adding' = adding /\ count' = count
          /\ \A a \in Adders : Pending(a)' => Pending(a)
      BY <1>28, <2>2 DEF RealSpread, Pending
    <3>3. /\ X \in [Places -> Seq(Events)] /\ X["hand"] = Tail(hand)
          /\ \A p \in Places \ {"hand"} : X[p] = Where[p]
      BY <1>2, <1>6, <3>1
    <3> HIDE DEF X, e
    <3>4. overtaken => overtaken'
      BY <1>1, <3>1, <3>2, StoreType
    <3>5. Where["hand"] = hand
      BY WherePlaces
    <3>6. Loses(Where, X, "hand")
      BY <2>2, <3>3, <3>5 DEF Loses
    <3>7. ASSUME ~overtaken'
          PROVE  OnePlace(Where') /\ \A g : In(Where', g) <=> In(Where, g)
      <4>1. /\ OnePlace(X) /\ ~In(X, e)
            /\ \A g : In(Where, g) <=> In(X, g) \/ g = e
        <5>1. OnePlace(Where)
          BY <1>3, <3>4, <3>7
        <5>2. /\ OnePlace(X) /\ ~In(X, Head(Where["hand"]))
              /\ OneMore(X, Where, Head(Where["hand"]))
          BY <1>2, <1>6, <3>3, <3>6, <5>1, TakeOne
        <5> QED
          BY <3>5, <5>2 DEF e, OneMore
      <4>2. /\ Where'["hand"] = hand' /\ Where'["realtime"] = Where["realtime"]
            /\ Where'["confirmed"] = Where["confirmed"]
        BY <1>28, WherePlaces, WherePlacesNext DEF RealSpread, AckReal
      <4>3. /\ \A p \in {"critical", "disk", "mem"} : X[p] = Where[p]
            /\ \A p \in {"realtime", "hand", "confirmed"} : X[p] = Where'[p]
        BY <1>6, <3>2, <3>3, <4>2
      <4>4. OnePlace(Where') /\ OneMore(X, Where', e)
        BY <1>1, <1>2, <3>1, <3>2, <3>3, <3>7, <4>1, <4>3, StoreFlow
      <4> QED
        BY <4>1, <4>4 DEF OneMore
    <3> QED
      BY <1>1, <3>2, <3>4, <3>7, FlowKept
  <2> QED
    BY <2>1, <2>2
<1>29. CASE RealAsk
  <2>1. Where' = Where
    BY <1>29 DEF RealAsk, Where, AckReal, AckCritical, AckDisk, AckMem
  <2>20. /\ overtaken' = overtaken /\ accepted' = accepted
         /\ adding' = adding /\ count' = count
         /\ \A a \in Adders : Pending(a)' => Pending(a)
    BY <1>29 DEF RealAsk, Pending
  <2> QED
    BY <1>1, <1>3, <2>1, <2>20, FlowKept
<1>30. CASE Start
  <2>1. Where' = Where
    BY <1>30 DEF Start, Where, AckReal, AckCritical, AckDisk, AckMem
  <2>20. /\ overtaken' = overtaken /\ accepted' = accepted
         /\ adding' = adding /\ count' = count
         /\ \A a \in Adders : Pending(a)' => Pending(a)
    BY <1>30 DEF Start, Pending
  <2> QED
    BY <1>1, <1>3, <2>1, <2>20, FlowKept
<1>31. CASE Destroy
  <2>1. Where' = Where
    BY <1>31 DEF Destroy, Where, AckReal, AckCritical, AckDisk, AckMem
  <2>20. /\ overtaken' = overtaken /\ accepted' = accepted
         /\ adding' = adding /\ count' = count
         /\ \A a \in Adders : Pending(a)' => Pending(a)
    BY <1>31 DEF Destroy, Pending
  <2> QED
    BY <1>1, <1>3, <2>1, <2>20, FlowKept
<1>32. CASE MainTerminated
  <2>1. Where' = Where
    BY <1>32 DEF MainTerminated, Where, AckReal, AckCritical, AckDisk, AckMem
  <2>20. /\ overtaken' = overtaken /\ accepted' = accepted
         /\ adding' = adding /\ count' = count
         /\ \A a \in Adders : Pending(a)' => Pending(a)
    BY <1>32 DEF MainTerminated, Pending
  <2> QED
    BY <1>1, <1>3, <2>1, <2>20, FlowKept
<1>33. CASE RealTerminated
  <2>1. Where' = Where
    BY <1>33 DEF RealTerminated, Where, AckReal, AckCritical, AckDisk, AckMem
  <2>20. /\ overtaken' = overtaken /\ accepted' = accepted
         /\ adding' = adding /\ count' = count
         /\ \A a \in Adders : Pending(a)' => Pending(a)
    BY <1>33 DEF RealTerminated, Pending
  <2> QED
    BY <1>1, <1>3, <2>1, <2>20, FlowKept
<1>34. CASE Destroyed
  <2> DEFINE m == normal.mem
  <2>1. /\ mpc = "idle" /\ mpc' = "idle" /\ rpc = "idle" /\ rpc' = "idle"
        /\ realtime = <<>> /\ realtime' = <<>>
        /\ normal'.disk = normal.disk \o m /\ normal'.mem = <<>>
    BY <1>1, <1>34 DEF Destroyed, MainQuiet, RealQuiet, RealtimeIsSeen,
       AddersAreGone, Flushed
  <2>2. /\ AckDisk = 0 /\ AckMem = 0 /\ AckReal = 0 /\ AckCritical = 0
        /\ AckDisk' = 0 /\ AckMem' = 0 /\ AckReal' = 0 /\ AckCritical' = 0
    BY <2>1 DEF AckReal, AckCritical, AckDisk, AckMem
  <2>3. /\ Where'["realtime"] = Where["realtime"]
        /\ Where'["critical"] = Where["critical"]
        /\ Where'["hand"] = Where["hand"]
        /\ Where'["confirmed"] = Where["confirmed"]
    BY <1>34, <2>1, <2>2, WherePlaces, WherePlacesNext DEF Destroyed
  <2>4. Where["disk"] = normal.disk /\ Where["mem"] = m
    BY <1>4, <2>2, WherePlaces, AllOrNothing
  <2>5. Where'["disk"] = normal.disk \o m /\ Where'["mem"] = <<>>
    <3>1. normal.disk \o m \in Seq(Events) /\ <<>> \in Seq(Events)
      BY <1>4, ConcatProperties
    <3>2. /\ Drop(normal.disk \o m, 0) = normal.disk \o m
          /\ Drop(<<>>, 0) = <<>>
      BY <3>1, AllOrNothing
    <3> QED
      BY <2>1, <2>2, <3>2, WherePlacesNext
  <2>6. Len(m) \in 0..Len(m) /\ Drop(m, Len(m)) = <<>> /\ First(m, Len(m)) = m
    BY <1>4, AllOrNothing
  <2>7. Moves(Where, Where', "mem", "disk", Len(m))
    BY <1>5, <2>3, <2>4, <2>5, <2>6 DEF Moves
  <2>9. ~overtaken => /\ OnePlace(Where')
                      /\ \A e : In(Where', e) <=> In(Where, e)
    BY <1>2, <1>3, <1>6, <2>7, Move
  <2>20. /\ overtaken' = overtaken /\ accepted' = accepted
         /\ adding' = adding /\ count' = count
         /\ \A a \in Adders : Pending(a)' => Pending(a)
    BY <1>34 DEF Destroyed, Pending
  <2> QED
    BY <1>1, <1>3, <2>9, <2>20, FlowKept
<1>35. CASE UNCHANGED vars
  <2>1. Where' = Where
    BY <1>35 DEF Where, AckReal, AckCritical, AckDisk, AckMem
  <2>20. /\ overtaken' = overtaken /\ accepted' = accepted
         /\ adding' = adding /\ count' = count
         /\ \A a \in Adders : Pending(a)' => Pending(a)
    BY <1>35 DEF Pending
  <2> QED
    BY <1>1, <1>3, <2>1, <2>20, FlowKept
<1> QED
  BY <1>11, <1>12, <1>13, <1>14, <1>15, <1>16, <1>17, <1>18, <1>19,
     <1>20, <1>21, <1>22, <1>23, <1>24, <1>25, <1>26, <1>27, <1>28,
     <1>29, <1>30, <1>31, <1>32, <1>33, <1>34, <1>35
     DEF Next, Add, Main, Real, Owner

-----------------------------------------------------------------------------
(* The invariant holds, and what follows from it.                          *)

\* At the beginning every place is empty.
LEMMA InitInv == Init => IInv
<1> SUFFICES ASSUME Init PROVE IInv
  OBVIOUS
<1>1. /\ realtime = <<>> /\ critical = <<>> /\ hand = <<>> /\ confirmed = <<>>
      /\ normal = [disk |-> <<>>, mem |-> <<>>]
      /\ mpc = "idle" /\ rpc = "idle" /\ accepted = {} /\ opc = "new"
      /\ mlist = NoList /\ rlist = NoList /\ count = 0
      /\ apc = [a \in Adders |-> "idle"]
  BY DEF Init
<1>2. TypeOK
  <2>1. /\ <<>> \in Seq(Events) /\ Len(<<>>) = 0 /\ NoList \in Lists
        /\ 0 \in 0..MaxEvents
    BY LimitsAssumption, NoListIsList
  <2>2. /\ normal \in [disk : Seq(Events), mem : Seq(Events)]
        /\ Len(normal.mem) <= MemLimit /\ Len(realtime) <= RealtimeLimit
    BY <1>1, <2>1, LimitsAssumption
  <2>3. /\ apc \in [Adders -> {"idle", "realtime", "store", "askReal", "askMain"}]
        /\ adding \in [Adders -> Events \cup {NoEvent}]
    BY DEF Init
  <2> QED
    BY <1>1, <2>1, <2>2, <2>3 DEF Init, TypeOK
<1>3. \A a \in Adders : ~Pending(a)
  BY <1>1 DEF Pending
<1>4. \A p \in Places : Len(Where[p]) = 0
  <2>1. Drop(<<>>, 0) = <<>> /\ Len(<<>>) = 0
    BY DEF Drop
  <2>2. AckReal = 0 /\ AckCritical = 0 /\ AckDisk = 0 /\ AckMem = 0
    BY <1>1 DEF AckReal, AckCritical, AckDisk, AckMem
  <2>3. normal.disk = <<>> /\ normal.mem = <<>>
    BY <1>1
  <2> QED
    BY <1>1, <2>1, <2>2, <2>3, WherePlaces DEF Places
<1>5. OnePlace(Where) /\ \A e : ~In(Where, e)
  BY <1>4 DEF OnePlace, In
<1>6. Elements(mlist.events) = {} /\ Elements(rlist.events) = {}
  BY <1>1, NoElements DEF NoList, List
<1> QED
  BY <1>1, <1>2, <1>3, <1>5, <1>6
     DEF IInv, AddingIsEvent, CriticalIsFront, NormalIsFront, RealIsFront,
         AcceptedIsSomewhere, SomewhereOnce, AddingIsNew, AckIsConfirmed,
         CriticalIsSomewhere, HandIsSpread, RealtimeIsSeen, AddersAreGone,
         EndIsQuiet, RealQuiet, MainQuiet

LEMMA Invariance == Safety => []IInv
<1>1. IInv /\ [Next]_vars => IInv'
  BY TypeStays, FrontsStay, ControlStays, CriticalStays, FlowStays
     DEF IInv, Flow
<1> QED
  BY <1>1, InitInv, PTL DEF Safety

\* What is in a place is an element of it, acknowledged or not.
LEMMA SomewhereIsKept ==
    ASSUME TypeOK, NEW e, In(Where, e)
    PROVE  e \in Kept \cup Elements(confirmed)
<1>1. /\ realtime \in Seq(Events) /\ critical \in Seq(Events)
      /\ hand \in Seq(Events) /\ normal.disk \in Seq(Events)
      /\ normal.mem \in Seq(Events) /\ confirmed \in Seq(Events)
      /\ AckReal \in Nat /\ AckCritical \in Nat
      /\ AckDisk \in Nat /\ AckMem \in Nat
  BY DEF TypeOK, Lists, AckReal, AckCritical, AckDisk, AckMem
<1>2. ASSUME NEW q \in Seq(Events), NEW n \in Nat, NEW i \in 1..Len(Drop(q, n))
      PROVE  Drop(q, n)[i] \in Elements(q)
  <2>1. Len(q) \in Nat /\ \A j \in n + 1..Len(q) : q[j] \in Events
    OBVIOUS
  <2>2. /\ Len(Drop(q, n)) = IF n + 1 <= Len(q) THEN Len(q) - (n + 1) + 1 ELSE 0
        /\ \A j \in 1..Len(q) - (n + 1) + 1 : Drop(q, n)[j] = q[n + 1 + j - 1]
    BY <2>1, SubSeqProperties DEF Drop
  <2> HIDE DEF Drop
  <2>3. n + 1 + i - 1 \in 1..Len(q) /\ Drop(q, n)[i] = q[n + 1 + i - 1]
    BY <2>1, <2>2
  <2>4. Elements(q) = {q[j] : j \in 1..Len(q)}
    BY ElementsOf
  <2> QED
    BY <2>3, <2>4
<1>3. ASSUME NEW q \in Seq(Events), NEW i \in 1..Len(q)
      PROVE  q[i] \in Elements(q)
  BY ElementsOf
<1>4. PICK p \in Places : \E i \in 1..Len(Where[p]) : Where[p][i] = e
  BY DEF In
<1>5. PICK i \in 1..Len(Where[p]) : Where[p][i] = e
  BY <1>4
<1>6. CASE p = "realtime"
  BY <1>1, <1>2, <1>5, <1>6, WherePlaces DEF Kept
<1>7. CASE p = "critical"
  BY <1>1, <1>2, <1>5, <1>7, WherePlaces DEF Kept
<1>8. CASE p = "hand"
  BY <1>1, <1>3, <1>5, <1>8, WherePlaces DEF Kept
<1>9. CASE p = "disk"
  BY <1>1, <1>2, <1>5, <1>9, WherePlaces DEF Kept
<1>10. CASE p = "mem"
  BY <1>1, <1>2, <1>5, <1>10, WherePlaces DEF Kept
<1>11. CASE p = "confirmed"
  BY <1>1, <1>3, <1>5, <1>11, WherePlaces
<1> QED
  BY <1>6, <1>7, <1>8, <1>9, <1>10, <1>11 DEF Places

\* A sequence without repetitions has as many members as its length.
LEMMA AsManyElements ==
    ASSUME NEW S, NEW q \in Seq(S),
           \A i, j \in 1..Len(q) : q[i] = q[j] => i = j
    PROVE  Cardinality(Elements(q)) = Len(q)
<1>1. Len(q) \in Nat /\ Elements(q) = {q[i] : i \in 1..Len(q)}
  BY ElementsOf
<1>2. q \in Bijection(1..Len(q), Elements(q))
  <2>1. q \in [1..Len(q) -> Elements(q)]
    <3>1. q = [i \in 1..Len(q) |-> q[i]]
      OBVIOUS
    <3> QED
      BY <1>1, <3>1
  <2>2. \A t \in Elements(q) : \E i \in 1..Len(q) : q[i] = t
    BY <1>1
  <2>3. q \in Injection(1..Len(q), Elements(q))
    BY <2>1 DEF Injection, IsInjective
  <2>4. q \in Surjection(1..Len(q), Elements(q))
    BY <2>1, <2>2 DEF Surjection
  <2> QED
    BY <2>3, <2>4 DEF Bijection
<1>3. ExistsBijection(1..Len(q), Elements(q))
  BY <1>2 DEF ExistsBijection
<1> QED
  BY <1>1, <1>3, FS_CountingElements

(***************************************************************************)
(* The variables keep their types; the realtime batch and the buffer never *)
(* exceed their limits (memory_event_batch.cpp:7-15,                       *)
(* buffered_event_batch.cpp:51-67).                                        *)
(***************************************************************************)
THEOREM TypeCorrect == Safety => []TypeOK
<1>1. IInv => TypeOK
  BY DEF IInv
<1> QED
  BY <1>1, Invariance, PTL

(***************************************************************************)
(* For any limits, any number of threads and any number of events, no      *)
(* event that was accepted is lost as long as memory is not flushed while  *)
(* a list from it is posted (event_manager.cpp:64-128).                    *)
(***************************************************************************)
THEOREM NoEventIsLost == Safety => []NothingLost
<1>1. IInv => NothingLost
  BY SomewhereIsKept DEF IInv, AcceptedIsSomewhere, NothingLost
<1> QED
  BY <1>1, Invariance, PTL

(***************************************************************************)
(* Critical events are not lost even then (event_manager.cpp:28-30,        *)
(* 96-104, 119-120).                                                       *)
(***************************************************************************)
THEOREM CriticalIsKept == Safety => []CriticalNeverLost
<1>1. IInv => CriticalNeverLost
  BY DEF IInv, CriticalIsSomewhere, CriticalNeverLost, Kept
<1> QED
  BY <1>1, Invariance, PTL

(***************************************************************************)
(* No event is confirmed twice (event_manager.cpp:90-106,                  *)
(* buffered_event_batch.cpp:16-49).                                        *)
(***************************************************************************)
THEOREM NeverConfirmedTwice == Safety => []ConfirmedOnce
<1>1. ASSUME IInv, ~overtaken
      PROVE  Cardinality(Elements(confirmed)) = Len(confirmed)
  <2>1. confirmed \in Seq(Events)
    BY <1>1 DEF IInv, TypeOK
  <2>2. OnePlace(Where) /\ "confirmed" \in Places
    BY <1>1 DEF IInv, SomewhereOnce, Places
  <2>3. \A i, j \in 1..Len(Where["confirmed"]) :
            Where["confirmed"][i] = Where["confirmed"][j] => i = j
    BY <2>2 DEF OnePlace
  <2>4. \A i, j \in 1..Len(confirmed) : confirmed[i] = confirmed[j] => i = j
    BY <2>3, WherePlaces
  <2> QED
    BY <2>1, <2>4, AsManyElements
<1>2. IInv => ConfirmedOnce
  BY <1>1 DEF ConfirmedOnce
<1> QED
  BY <1>2, Invariance, PTL

(***************************************************************************)
(* The destructor leaves no task, and nothing in memory: what was accepted *)
(* is confirmed or in a file (event_manager.cpp:41-44, 90-106,             *)
(* buffered_event_batch.h:27-29).                                          *)
(***************************************************************************)
THEOREM NothingIsLeftInMemory == Safety => []DestructionSaves
<1>1. ASSUME IInv, opc = "done"
      PROVE  /\ MainQuiet /\ RealQuiet
             /\ realtime = <<>> /\ hand = <<>> /\ normal.mem = <<>>
             /\ ~overtaken => accepted \subseteq
                    Elements(critical) \cup Elements(normal.disk)
                        \cup Elements(confirmed)
  <2>1. MainQuiet /\ RealQuiet /\ normal.mem = <<>>
    BY <1>1 DEF IInv, EndIsQuiet
  <2>2. hand = <<>>
    BY <1>1, <2>1 DEF IInv, HandIsSpread, RealQuiet
  <2>3. realtime = <<>>
    BY <1>1, <2>1 DEF IInv, RealtimeIsSeen, AddersAreGone, RealQuiet
  <2>4. ~overtaken => accepted \subseteq Kept \cup Elements(confirmed)
    BY <1>1, SomewhereIsKept DEF IInv, AcceptedIsSomewhere
  <2> QED
    BY <2>1, <2>2, <2>3, <2>4, NoElements DEF Kept
<1>2. IInv => DestructionSaves
  BY <1>1 DEF DestructionSaves
<1> QED
  BY <1>2, Invariance, PTL
=============================================================================
