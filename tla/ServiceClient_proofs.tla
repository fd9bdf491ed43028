------------------------ MODULE ServiceClient_proofs ------------------------
(***************************************************************************)
(* Proofs about ServiceClient, for any set of callers and any bounds.      *)
(***************************************************************************)
EXTENDS ServiceClient, TLAPS

Active(c) == cpc[c] # "idle"
One(b) == IF b THEN 1 ELSE 0

\* Every id is that of a call or of the .hello of a connection.
IdsAreCounted ==
    next + One(opc = "add") + One(ipc = "add") = calls + opens + 1

\* Nobody calls before the constructor has returned, and nothing happens in
\* the io thread before there is a connection.
ConstructorFirst ==
    /\ opc # "ready" => \A c \in Callers : ~Active(c)
    /\ opc = "new" => ipc = "idle" /\ ~conn /\ ~closed /\ opens = 0
    /\ opc \in {"send", "end"} => oid # 0

\* Where the io thread is tells what has become of the connection.
IoKnows ==
    /\ ipc \in {"forget", "take", "callAll", "reopen"} => ~conn /\ closed
    /\ ipc \notin {"call", "callAll"} => taken = {}
    /\ ipc \in {"reopen", "add", "send", "end"} => Reconnects
    /\ closed /\ Reconnects => opens < MaxOpens
    /\ ipc \in {"send", "end"} => iid # 0

\* Each call has an id of its own.
IdsAreUnique ==
    \A c \in Callers : Active(c) =>
        /\ cid[c] # 0 /\ cid[c] \notin greetings
        /\ \A d \in Callers : Active(d) /\ cid[d] = cid[c] => d = c

\* An id with a result has no callback any more, nor will it get one.
ResultIsFinal ==
    \A id \in Ids : result[id] # "none" =>
        id < next /\ id \notin cbs /\ id \notin taken

\* The callback of a call without a result is in the table or was taken.
CallbackIsKept ==
    \A c \in Callers : Active(c) /\ result[cid[c]] = "none" =>
        cid[c] \in cbs \cup taken

IInv ==
    /\ TypeOK
    /\ IdsAreCounted
    /\ ConstructorFirst
    /\ IoKnows
    /\ IdsAreUnique
    /\ ResultIsFinal
    /\ CallbackIsKept
    /\ SomebodyAnswers
LEMMA ElementsAppend ==
  ASSUME NEW S, NEW q \in Seq(S), NEW x \in S
  PROVE  Elements(Append(q, x)) = Elements(q) \cup {x}
  <1>1. ASSUME NEW y \in Elements(Append(q, x))
        PROVE  y \in Elements(q) \cup {x}
    BY <1>1 DEF Elements
  <1>2. ASSUME NEW y \in Elements(q)
        PROVE  y \in Elements(Append(q, x))
    <2>1. PICK i \in DOMAIN q : y = q[i]
      BY <1>2 DEF Elements
    <2>2. i \in DOMAIN Append(q, x) /\ Append(q, x)[i] = y
      BY <2>1
    <2> QED BY <2>2 DEF Elements
  <1>3. x \in Elements(Append(q, x))
    <2>1. Len(q) + 1 \in DOMAIN Append(q, x)
          /\ Append(q, x)[Len(q) + 1] = x
      OBVIOUS
    <2> QED BY <2>1 DEF Elements
  <1> QED BY <1>1, <1>2, <1>3

LEMMA ElementsTail ==
  ASSUME NEW S, NEW q \in Seq(S), q # <<>>
  PROVE  Elements(q) = {Head(q)} \cup Elements(Tail(q))
  <1>1. ASSUME NEW y \in Elements(q)
        PROVE  y \in {Head(q)} \cup Elements(Tail(q))
    <2>1. PICK i \in DOMAIN q : y = q[i]
      BY <1>1 DEF Elements
    <2>2. CASE i = 1
      BY <2>1, <2>2
    <2>3. CASE i # 1
      <3>1. i - 1 \in DOMAIN Tail(q) /\ Tail(q)[i - 1] = y
        BY <2>1, <2>3
      <3> QED BY <3>1 DEF Elements
    <2> QED BY <2>2, <2>3
  <1>2. ASSUME NEW y \in Elements(Tail(q))
        PROVE  y \in Elements(q)
    <2>1. PICK i \in DOMAIN Tail(q) : y = Tail(q)[i]
      BY <1>2 DEF Elements
    <2>2. i + 1 \in DOMAIN q /\ q[i + 1] = y
      BY <2>1
    <2> QED BY <2>2 DEF Elements
  <1>3. Head(q) \in Elements(q)
    <2>1. 1 \in DOMAIN q /\ Head(q) = q[1]
      OBVIOUS
    <2> QED BY <2>1 DEF Elements
  <1> QED BY <1>1, <1>2, <1>3

\* The same, of the messages on their way and of the replies.
LEMMA AppendMessage ==
  ASSUME NEW q \in Seq(Ids \cup {0}), NEW x \in Ids \cup {0}
  PROVE  /\ Append(q, x) \in Seq(Ids \cup {0})
         /\ Elements(Append(q, x)) = Elements(q) \cup {x}
  <1>1. PICK S : S = Ids \cup {0}
    OBVIOUS
  <1>2. q \in Seq(S) /\ x \in S
    BY <1>1
  <1>3. Append(q, x) \in Seq(S)
    BY <1>2
  <1>4. Elements(Append(q, x)) = Elements(q) \cup {x}
    BY <1>2, ElementsAppend
  <1> QED BY <1>1, <1>3, <1>4

LEMMA AppendReply ==
  ASSUME NEW q \in Seq(Ids), NEW x \in Ids
  PROVE  /\ Append(q, x) \in Seq(Ids)
         /\ Elements(Append(q, x)) = Elements(q) \cup {x}
  <1>1. Append(q, x) \in Seq(Ids)
    OBVIOUS
  <1>2. Elements(Append(q, x)) = Elements(q) \cup {x}
    BY ElementsAppend
  <1> QED BY <1>1, <1>2

LEMMA TailMessage ==
  ASSUME NEW q \in Seq(Ids \cup {0}), q # <<>>
  PROVE  /\ Head(q) \in Ids \cup {0} /\ Tail(q) \in Seq(Ids \cup {0})
         /\ Elements(q) = {Head(q)} \cup Elements(Tail(q))
  <1>1. PICK S : S = Ids \cup {0}
    OBVIOUS
  <1>2. q \in Seq(S)
    BY <1>1
  <1>3. Head(q) \in S /\ Tail(q) \in Seq(S)
    BY <1>2
  <1>4. Elements(q) = {Head(q)} \cup Elements(Tail(q))
    BY <1>2, ElementsTail
  <1> QED BY <1>1, <1>3, <1>4

USE BoundsAssumption DEF Ids

\* What a part of a message, or one that cannot be written, does to the
\* socket: what was on its way stays there, and nothing is ungarbled.
LEMMA PartIsWritten ==
  ASSUME TypeOK, NEW id \in Ids,
         FirstPart(id) \/ SecondPart(id) \/ WriteFails(id)
  PROVE  /\ out' \in Seq(Ids \cup {0}) /\ half' \in Ids \cup {0}
         /\ garbled' \subseteq Ids /\ garbled \subseteq garbled'
         /\ Elements(out) \subseteq Elements(out')
         /\ UNCHANGED <<conn, in, closed, opens>>
         /\ SecondPart(id) =>
              conn /\ ~closed /\ id \in Elements(out') \cup garbled'
  <1> USE DEF TypeOK
  <1>1. ASSUME NEW x \in Ids \cup {0}
        PROVE  /\ Append(out, x) \in Seq(Ids \cup {0})
               /\ Elements(Append(out, x)) = Elements(out) \cup {x}
    <2>1. out \in Seq(Ids \cup {0})
      OBVIOUS
    <2> HIDE DEF Ids, TypeOK
    <2> QED BY <2>1, AppendMessage
  <1>2. ASSUME Nonsense(id)
        PROVE  /\ out' \in Seq(Ids \cup {0}) /\ half' \in Ids \cup {0}
               /\ garbled' \subseteq Ids /\ garbled \subseteq garbled'
               /\ Elements(out) \subseteq Elements(out') /\ id \in garbled'
    <2>1. out' = Append(out, 0) /\ half' = 0
          /\ garbled' = garbled \cup ({half, id} \ {0})
      BY <1>2 DEF Nonsense
    <2>2. garbled' \subseteq Ids /\ garbled \subseteq garbled' /\ id \in garbled'
      BY <2>1
    <2> QED BY <1>1, <2>1, <2>2
  <1>3. CASE FirstPart(id)
    <2>1. ~SecondPart(id) \/ id \in Elements(out') \cup garbled'
      <3>1. CASE half = 0
        BY <1>1, <1>3, <3>1 DEF FirstPart, SecondPart, Nonsense
      <3>2. CASE half # 0
        BY <1>2, <1>3, <3>2 DEF FirstPart
      <3> QED BY <3>1, <3>2
    <2>2. CASE half = 0
      BY <1>3, <2>1, <2>2 DEF FirstPart, CanWrite
    <2>3. CASE half # 0
      BY <1>2, <1>3, <2>1, <2>3 DEF FirstPart, CanWrite
    <2> QED BY <2>2, <2>3
  <1>4. CASE SecondPart(id)
    <2>1. CASE half = id
      <3>1. out' = Append(out, id) /\ half' = 0 /\ UNCHANGED garbled
        BY <1>4, <2>1 DEF SecondPart
      <3> QED BY <1>1, <1>4, <3>1 DEF SecondPart, CanWrite
    <2>2. CASE half # id
      <3>1. Nonsense(id)
        BY <1>4, <2>2 DEF SecondPart
      <3> QED BY <1>2, <1>4, <3>1 DEF SecondPart, CanWrite
    <2> QED BY <2>1, <2>2
  <1>5. CASE WriteFails(id) /\ ~FirstPart(id) /\ ~SecondPart(id)
    <2>1. CASE UNCHANGED socket
      BY <1>5, <2>1 DEF socket
    <2>2. CASE ~UNCHANGED socket
      <3>1. Nonsense(id) /\ UNCHANGED <<conn, in, closed, opens>>
        BY <1>5, <2>2 DEF WriteFails
      <3> QED BY <1>2, <1>5, <3>1
    <2> QED BY <2>1, <2>2
  <1> QED BY <1>3, <1>4, <1>5

LEMMA Initially == Init => IInv
  <1> SUFFICES ASSUME Init PROVE IInv
    OBVIOUS
  <1> USE DEF Init, Active, One
  <1>1. TypeOK
    <2>1. cid \in [Callers -> 0..next - 1]
      OBVIOUS
    <2>2. result \in [Ids -> {"none", "reply", "error"}]
      OBVIOUS
    <2>3. out \in Seq(Ids \cup {0}) /\ in \in Seq(Ids)
      OBVIOUS
    <2>4. cpc \in [Callers -> {"idle", "test", "refuse", "send", "end", "get"}]
      OBVIOUS
    <2>5. {oid, iid} \subseteq 0..next - 1
          /\ next \in 1..MaxCalls + MaxOpens + 1
      OBVIOUS
    <2>6. opens \in 0..MaxOpens /\ calls \in 0..MaxCalls
      OBVIOUS
    <2> QED BY <2>1, <2>2, <2>3, <2>4, <2>5, <2>6 DEF TypeOK
  <1>2. IdsAreCounted /\ ConstructorFirst /\ IoKnows
    BY DEF IdsAreCounted, ConstructorFirst, IoKnows
  <1>3. IdsAreUnique /\ ResultIsFinal /\ CallbackIsKept
    BY DEF IdsAreUnique, ResultIsFinal, CallbackIsKept
  <1>4. SomebodyAnswers
    BY DEF SomebodyAnswers
  <1> QED BY <1>1, <1>2, <1>3, <1>4 DEF IInv

LEMMA OpenPreserves ==
  ASSUME IInv, Open
  PROVE  IInv'
  <1> USE DEF IInv, TypeOK, Active, Open, Connect, caller, io
  <1>1. TypeOK'
    <2>1. out' \in Seq(Ids \cup {0}) /\ in' \in Seq(Ids)
      OBVIOUS
    <2>2. opens' \in 0..MaxOpens
      BY DEF ConstructorFirst
    <2> QED BY <2>1, <2>2
  <1>2. IoKnows'
    BY DEF IoKnows, ConstructorFirst
  <1>3. SomebodyAnswers'
    BY DEF SomebodyAnswers, ConstructorFirst
  <1>4. IdsAreCounted' /\ ConstructorFirst' /\ IdsAreUnique'
       /\ ResultIsFinal' /\ CallbackIsKept'
    BY DEF IdsAreCounted, One, ConstructorFirst, IdsAreUnique,
           ResultIsFinal, CallbackIsKept
  <1> QED BY <1>1, <1>2, <1>3, <1>4

LEMMA OpenAddPreserves ==
  ASSUME IInv, OpenAdd
  PROVE  IInv'
  <1> USE DEF IInv, TypeOK, Active, OpenAdd, Register, socket, caller, io
  <1>1. TypeOK'
    BY DEF IdsAreCounted, One
  <1>2. SomebodyAnswers'
    BY DEF SomebodyAnswers, ConstructorFirst
  <1>3. IdsAreCounted' /\ ConstructorFirst' /\ IoKnows' /\ IdsAreUnique'
       /\ ResultIsFinal' /\ CallbackIsKept'
    BY DEF IdsAreCounted, One, ConstructorFirst, IoKnows, IdsAreUnique,
           ResultIsFinal, CallbackIsKept
  <1> QED BY <1>1, <1>2, <1>3

LEMMA OpenSendPreserves ==
  ASSUME IInv, OpenSend
  PROVE  IInv'
  <1>1. oid \in Ids /\ opc # "ready" /\ opc # "new"
        /\ opc' \in {"end", "wait", "failed"} /\ (opc' = "end" => oid # 0)
    BY DEF OpenSend, IInv, TypeOK, ConstructorFirst
  <1>2. /\ FirstPart(oid) \/ SecondPart(oid) \/ WriteFails(oid)
        /\ UNCHANGED <<hello, cbs, next, greetings, oid, caller, result, io>>
    BY DEF OpenSend
  <1>3. /\ out' \in Seq(Ids \cup {0}) /\ half' \in Ids \cup {0}
        /\ garbled' \subseteq Ids /\ UNCHANGED <<conn, in, closed, opens>>
    BY <1>1, <1>2, PartIsWritten DEF IInv
  <1> USE <1>1, <1>2, <1>3 DEF IInv, TypeOK, Active, caller, io
  <1>4. TypeOK'
    OBVIOUS
  <1>5. SomebodyAnswers'
    BY DEF SomebodyAnswers, ConstructorFirst
  <1>6. IdsAreCounted'
    <2>1. opc # "add" /\ opc' # "add"
      BY DEF OpenSend
    <2> QED BY <2>1 DEF IdsAreCounted, One
  <1>7. ConstructorFirst' /\ IoKnows' /\ IdsAreUnique'
       /\ ResultIsFinal' /\ CallbackIsKept'
    BY DEF ConstructorFirst, IoKnows, IdsAreUnique,
           ResultIsFinal, CallbackIsKept
  <1> QED BY <1>4, <1>5, <1>6, <1>7

LEMMA OpenReturnsPreserves ==
  ASSUME IInv, OpenReturns
  PROVE  IInv'
  <1> USE DEF IInv, TypeOK, Active, OpenReturns, socket, caller, io
  <1>1. SomebodyAnswers'
    BY DEF SomebodyAnswers, ConstructorFirst
  <1>2. TypeOK' /\ IdsAreCounted' /\ ConstructorFirst' /\ IoKnows'
       /\ IdsAreUnique' /\ ResultIsFinal' /\ CallbackIsKept'
    BY DEF IdsAreCounted, ConstructorFirst, IoKnows, IdsAreUnique,
           ResultIsFinal, CallbackIsKept
  <1> QED BY <1>1, <1>2

LEMMA CallPreserves ==
  ASSUME IInv, NEW c \in Callers, Call(c)
  PROVE  IInv'
  <1> USE DEF IInv, TypeOK, Active, Call, Register, socket, constructor, io
  <1>1. TypeOK'
    BY DEF IdsAreCounted, One
  <1>2. SomebodyAnswers'
    BY DEF SomebodyAnswers, OnItsWay
  <1>3. IdsAreCounted' /\ ConstructorFirst' /\ IoKnows' /\ IdsAreUnique'
       /\ ResultIsFinal' /\ CallbackIsKept'
    BY DEF IdsAreCounted, One, ConstructorFirst, IoKnows, IdsAreUnique,
           ResultIsFinal, CallbackIsKept
  <1> QED BY <1>1, <1>2, <1>3

LEMMA TestPreserves ==
  ASSUME IInv, NEW c \in Callers, Test(c)
  PROVE  IInv'
  <1> USE DEF IInv, TypeOK, Active, Test, socket, constructor, io
  <1>1. SomebodyAnswers'
    BY DEF SomebodyAnswers, OnItsWay
  <1>2. TypeOK' /\ IdsAreCounted' /\ ConstructorFirst' /\ IoKnows'
       /\ IdsAreUnique' /\ ResultIsFinal' /\ CallbackIsKept'
    BY SMTT(20) DEF IdsAreCounted, ConstructorFirst, IoKnows, IdsAreUnique,
           ResultIsFinal, CallbackIsKept
  <1> QED BY <1>1, <1>2

LEMMA RefusePreserves ==
  ASSUME IInv, NEW c \in Callers, Refuse(c)
  PROVE  IInv'
  <1> USE DEF IInv, TypeOK, Active, Refuse, socket, constructor, io
  <1>1. TypeOK'
    OBVIOUS
  <1>2. IdsAreUnique'
    BY DEF IdsAreUnique
  <1>3. ResultIsFinal'
    BY DEF ResultIsFinal
  <1>4. CallbackIsKept'
    BY DEF CallbackIsKept
  <1>5. SomebodyAnswers'
    BY DEF SomebodyAnswers, OnItsWay, CallbackIsKept
  <1>6. IdsAreCounted' /\ ConstructorFirst' /\ IoKnows'
    BY DEF IdsAreCounted, ConstructorFirst, IoKnows
  <1> QED BY <1>1, <1>2, <1>3, <1>4, <1>5, <1>6

LEMMA SendPreserves ==
  ASSUME IInv, NEW c \in Callers, Send(c)
  PROVE  IInv'
  <1>1. /\ cpc[c] \in {"send", "end"} /\ cid[c] \in Ids
        /\ FirstPart(cid[c]) \/ SecondPart(cid[c]) \/ WriteFails(cid[c])
        /\ cpc' \in [Callers -> {"idle", "test", "refuse", "send", "end", "get"}]
        /\ \A d \in Callers : d # c => cpc'[d] = cpc[d]
        /\ cpc'[c] = "get" => SecondPart(cid[c])
        /\ thrown' \subseteq Ids
        /\ UNCHANGED <<hello, cbs, next, greetings, constructor, cid, calls,
                       result, io>>
    <2>1. cpc[c] \in {"send", "end"}
      BY DEF Send, SendPart
    <2>2. cid[c] \in Ids
      BY <2>1 DEF IInv, TypeOK, IdsAreUnique, Active
    <2> QED BY <2>1, <2>2 DEF Send, SendPart, IInv, TypeOK
  <1>2. /\ out' \in Seq(Ids \cup {0}) /\ half' \in Ids \cup {0}
        /\ garbled' \subseteq Ids /\ garbled \subseteq garbled'
        /\ Elements(out) \subseteq Elements(out')
        /\ UNCHANGED <<conn, in, closed, opens>>
        /\ SecondPart(cid[c]) =>
             conn /\ ~closed /\ cid[c] \in Elements(out') \cup garbled'
    BY <1>1, PartIsWritten DEF IInv
  <1> USE <1>1, <1>2 DEF IInv, TypeOK, Active, constructor, io
  <1>3. TypeOK'
    OBVIOUS
  <1>4. IdsAreUnique'
    BY ZenonT(20) DEF IdsAreUnique
  <1>5. ASSUME NEW d \in Callers, cpc'[d] = "get", result[cid[d]] = "none"
        PROVE  \/ cid[d] \in taken
               \/ /\ cid[d] \in cbs
                  /\ \/ OnItsWay(cid[d])' \/ ipc \in {"forget", "take"}
                     \/ cid[d] \in garbled'
    <2>1. CASE d = c
      <3>1. cid[c] \in cbs \cup taken
        BY <1>5, <2>1 DEF CallbackIsKept
      <3> QED BY <1>5, <2>1, <3>1 DEF OnItsWay
    <2>2. CASE d # c
      BY <1>5, <2>2 DEF SomebodyAnswers, OnItsWay
    <2> QED BY <2>1, <2>2
  <1>6. SomebodyAnswers'
    BY <1>5 DEF SomebodyAnswers
  <1>7. IdsAreCounted' /\ ConstructorFirst' /\ IoKnows' /\ ResultIsFinal'
       /\ CallbackIsKept'
    BY DEF IdsAreCounted, ConstructorFirst, IoKnows, ResultIsFinal,
           CallbackIsKept
  <1> QED BY <1>3, <1>4, <1>6, <1>7

LEMMA GetPreserves ==
  ASSUME IInv, NEW c \in Callers, Get(c)
  PROVE  IInv'
  <1> USE DEF IInv, TypeOK, Active, Get, socket, constructor, io
  <1>1. SomebodyAnswers'
    BY DEF SomebodyAnswers, OnItsWay
  <1>2. TypeOK' /\ IdsAreCounted' /\ ConstructorFirst' /\ IoKnows'
       /\ IdsAreUnique' /\ ResultIsFinal' /\ CallbackIsKept'
    BY SMTT(20) DEF IdsAreCounted, ConstructorFirst, IoKnows, IdsAreUnique,
           ResultIsFinal, CallbackIsKept
  <1> QED BY <1>1, <1>2

LEMMA ReplyPreserves ==
  ASSUME IInv, Reply
  PROVE  IInv'
  <1> USE DEF IInv, TypeOK, Active, Reply, constructor, caller, io
  <1>0. Head(out) \in Ids /\ out \in Seq(Ids \cup {0}) /\ out # <<>>
        /\ Tail(out) \in Seq(Ids \cup {0}) /\ in \in Seq(Ids)
    OBVIOUS
  <1>1. TypeOK'
    <2>1. in' \in Seq(Ids)
      BY <1>0
    <2> QED BY <1>0, <2>1 DEF IoKnows
  <1>2. SomebodyAnswers'
    <2>1. out' = Tail(out) /\ in' = Append(in, Head(out))
      OBVIOUS
    <2>2. /\ Elements(out) = {Head(out)} \cup Elements(out')
          /\ Elements(in') = Elements(in) \cup {Head(out)}
      <3> HIDE DEF Ids, IInv, TypeOK, Reply
      <3> QED BY <1>0, <2>1, AppendReply, TailMessage
    <2> QED BY <2>2 DEF SomebodyAnswers, OnItsWay
  <1>3. IdsAreCounted' /\ ConstructorFirst' /\ IoKnows' /\ IdsAreUnique'
       /\ ResultIsFinal' /\ CallbackIsKept'
    BY DEF IdsAreCounted, ConstructorFirst, IoKnows, IdsAreUnique,
           ResultIsFinal, CallbackIsKept
  <1> QED BY <1>1, <1>2, <1>3

LEMMA MisreadPreserves ==
  ASSUME IInv, Misread
  PROVE  IInv'
  <1>1. /\ out \in Seq(Ids \cup {0}) /\ out # <<>> /\ Head(out) = 0
        /\ Tail(out) \in Seq(Ids \cup {0}) /\ Tail(out) # <<>>
        /\ out[2] = Head(Tail(out)) /\ out[2] \in Ids \cup {0}
    <2>1. out \in Seq(Ids \cup {0}) /\ Len(out) > 1 /\ Head(out) = 0
      BY DEF Misread, IInv, TypeOK
    <2>2. Len(Tail(out)) = Len(out) - 1 /\ Tail(out) \in Seq(Ids \cup {0})
      BY <2>1
    <2>3. Tail(out)[1] = out[2] /\ Head(Tail(out)) = Tail(out)[1]
      BY <2>1, <2>2
    <2>4. out[2] \in Ids \cup {0}
      BY <2>1
    <2> QED BY <2>1, <2>2, <2>3, <2>4
  <1> DEFINE left == Tail(Tail(out))
  <1>2. left \in Seq(Ids \cup {0}) /\ <<0>> \o left \in Seq(Ids \cup {0})
    BY <1>1
  <1>3. Elements(left) \subseteq Elements(<<0>> \o left)
    <2> SUFFICES ASSUME NEW i \in DOMAIN left
                 PROVE  \E j \in DOMAIN (<<0>> \o left) : (<<0>> \o left)[j] = left[i]
      BY DEF Elements
    <2>1. left \in Seq(Ids \cup {0}) /\ <<0>> \in Seq(Ids \cup {0})
      BY <1>2
    <2> HIDE DEF left, Ids
    <2>2. i \in 1..Len(left) /\ Len(left) \in Nat
      BY <2>1
    <2>3. Len(<<0>> \o left) = 1 + Len(left)
      BY <2>1
    <2>4. i + 1 \in DOMAIN (<<0>> \o left) /\ (<<0>> \o left)[i + 1] = left[i]
      BY <2>1, <2>2, <2>3
    <2> QED BY <2>4
  <1>4. Elements(out) = {0, out[2]} \cup Elements(left)
        /\ Elements(Tail(out)) = {out[2]} \cup Elements(left)
    <2> HIDE DEF Ids
    <2> QED BY <1>1, TailMessage
  <1>5. /\ out' \in Seq(Ids \cup {0}) /\ garbled' \subseteq Ids
        /\ garbled \subseteq garbled'
        /\ \A id \in Ids : id \in Elements(out) =>
              id \in Elements(out') \cup garbled'
        /\ UNCHANGED <<conn, in, half, closed, opens, hello, cbs, next,
                       greetings, constructor, caller, result, io>>
    <2>1. CASE out' = Tail(out) /\ UNCHANGED garbled
      BY <1>1, <1>4, <2>1 DEF Misread, IInv, TypeOK
    <2>2. CASE /\ out' = <<0>> \o left
               /\ garbled' = garbled \cup ({out[2]} \ {0})
      <3> HIDE DEF left
      <3>1. UNCHANGED <<conn, in, half, closed, opens, hello, cbs, next,
                       greetings, constructor, caller, result, io>>
        BY DEF Misread
      <3>2. garbled \subseteq Ids
        BY DEF IInv, TypeOK
      <3>3. out' \in Seq(Ids \cup {0}) /\ Elements(left) \subseteq Elements(out')
        BY <1>2, <1>3, <2>2
      <3>4. garbled' \subseteq Ids /\ garbled \subseteq garbled'
        BY <1>1, <2>2, <3>2
      <3>5. ASSUME NEW id \in Ids, id \in Elements(out)
            PROVE  id \in Elements(out') \cup garbled'
        BY <1>4, <2>2, <3>3, <3>5
      <3> QED BY <3>1, <3>3, <3>4, <3>5
    <2> QED BY <2>1, <2>2 DEF Misread
  <1> HIDE DEF left
  <1> USE <1>5 DEF IInv, TypeOK, Active, constructor, caller, io
  <1>6. TypeOK'
    OBVIOUS
  <1>7. SomebodyAnswers'
    BY DEF SomebodyAnswers, OnItsWay
  <1>8. IdsAreCounted' /\ ConstructorFirst' /\ IoKnows' /\ IdsAreUnique'
       /\ ResultIsFinal' /\ CallbackIsKept'
    BY DEF IdsAreCounted, ConstructorFirst, IoKnows, IdsAreUnique,
           ResultIsFinal, CallbackIsKept
  <1> QED BY <1>6, <1>7, <1>8

LEMMA DaemonClosesPreserves ==
  ASSUME IInv, DaemonCloses
  PROVE  IInv'
  <1> USE DEF IInv, TypeOK, Active, DaemonCloses, constructor, caller, io
  <1>1. SomebodyAnswers'
    BY DEF SomebodyAnswers, OnItsWay
  <1>2. TypeOK' /\ IdsAreCounted' /\ ConstructorFirst' /\ IoKnows'
       /\ IdsAreUnique' /\ ResultIsFinal' /\ CallbackIsKept'
    BY DEF IdsAreCounted, ConstructorFirst, IoKnows, IdsAreUnique,
           ResultIsFinal, CallbackIsKept
  <1> QED BY <1>1, <1>2

LEMMA IoReadPreserves ==
  ASSUME IInv, IoRead
  PROVE  IInv'
  <1> USE DEF IInv, TypeOK, Active, IoRead, constructor, caller
  <1>1. TypeOK'
    <2>1. in' \in Seq(Ids)
      OBVIOUS
    <2> QED BY <2>1
  <1>2. CallbackIsKept'
    BY DEF CallbackIsKept, IoKnows
  <1>3. SomebodyAnswers'
    BY ElementsTail DEF SomebodyAnswers, OnItsWay, IoKnows
  <1>4. IdsAreCounted' /\ ConstructorFirst' /\ IoKnows' /\ IdsAreUnique'
       /\ ResultIsFinal'
    BY DEF IdsAreCounted, ConstructorFirst, IoKnows, IdsAreUnique,
           ResultIsFinal
  <1> QED BY <1>1, <1>2, <1>3, <1>4

LEMMA IoClosePreserves ==
  ASSUME IInv, IoClose
  PROVE  IInv'
  <1> USE DEF IInv, TypeOK, Active, IoClose, constructor, caller
  <1>1. SomebodyAnswers'
    BY DEF SomebodyAnswers
  <1>2. TypeOK' /\ IdsAreCounted' /\ ConstructorFirst' /\ IoKnows'
       /\ IdsAreUnique' /\ ResultIsFinal' /\ CallbackIsKept'
    BY DEF IdsAreCounted, ConstructorFirst, IoKnows, IdsAreUnique,
           ResultIsFinal, CallbackIsKept
  <1> QED BY <1>1, <1>2

LEMMA IoForgetPreserves ==
  ASSUME IInv, IoForget
  PROVE  IInv'
  <1> USE DEF IInv, TypeOK, Active, IoForget, socket, constructor, caller
  <1>1. SomebodyAnswers'
    BY DEF SomebodyAnswers
  <1>2. TypeOK' /\ IdsAreCounted' /\ ConstructorFirst' /\ IoKnows'
       /\ IdsAreUnique' /\ ResultIsFinal' /\ CallbackIsKept'
    BY DEF IdsAreCounted, ConstructorFirst, IoKnows, IdsAreUnique,
           ResultIsFinal, CallbackIsKept
  <1> QED BY <1>1, <1>2

LEMMA IoTakePreserves ==
  ASSUME IInv, IoTake
  PROVE  IInv'
  <1> USE DEF IInv, TypeOK, Active, IoTake, socket, constructor, caller
  <1>1. CallbackIsKept'
    BY DEF CallbackIsKept, IoKnows
  <1>2. SomebodyAnswers'
    BY DEF SomebodyAnswers, IoKnows
  <1>3. TypeOK' /\ IdsAreCounted' /\ ConstructorFirst' /\ IoKnows'
       /\ IdsAreUnique' /\ ResultIsFinal'
    BY DEF IdsAreCounted, ConstructorFirst, IoKnows, IdsAreUnique,
           ResultIsFinal
  <1> QED BY <1>1, <1>2, <1>3

LEMMA IoCallPreserves ==
  ASSUME IInv, IoCall
  PROVE  IInv'
  <1> USE DEF IInv, TypeOK, Active, IoCall, socket, constructor, caller
  <1>1. TypeOK'
    OBVIOUS
  <1>2. IdsAreUnique'
    BY DEF IdsAreUnique
  <1>3. ResultIsFinal'
    BY DEF ResultIsFinal
  <1>4. CallbackIsKept'
    <2>1. CASE taken = {}
      BY <2>1 DEF CallbackIsKept
    <2>2. CASE taken # {}
      <3>1. PICK id \in taken :
              /\ taken' = taken \ {id}
              /\ result' = IF id \in greetings THEN result
                           ELSE [result EXCEPT ![id] = outcome]
        BY <2>2
      <3>2. id \in Ids
        OBVIOUS
      <3>3. ASSUME NEW c \in Callers, Active(c), result'[cid[c]] = "none"
            PROVE  cid[c] \in cbs \cup taken'
        BY <3>1, <3>2, <3>3 DEF CallbackIsKept, IdsAreUnique
      <3> QED BY <3>3 DEF CallbackIsKept
    <2> QED BY <2>1, <2>2
  <1>5. SomebodyAnswers'
    <2>1. CASE taken = {}
      BY <2>1 DEF SomebodyAnswers, OnItsWay
    <2>2. CASE taken # {}
      <3>1. PICK id \in taken :
              /\ taken' = taken \ {id}
              /\ result' = IF id \in greetings THEN result
                           ELSE [result EXCEPT ![id] = outcome]
        BY <2>2
      <3>2. id \in Ids /\ UNCHANGED <<cbs, conn, closed, out, in, garbled, cpc, cid>>
            /\ outcome # "none" /\ ipc' = ipc
        BY <2>2
      <3>3. ASSUME NEW c \in Callers, cpc[c] = "get", result'[cid[c]] = "none"
            PROVE  /\ result[cid[c]] = "none"
                   /\ cid[c] \in taken => cid[c] \in taken'
        BY <3>1, <3>2, <3>3 DEF IdsAreUnique
      <3> HIDE DEF IoCall, IInv, TypeOK, Ids
      <3>4. SomebodyAnswers
        BY DEF IInv
      <3> QED BY <3>2, <3>3, <3>4 DEF SomebodyAnswers, OnItsWay
    <2> QED BY <2>1, <2>2
  <1>6. IdsAreCounted' /\ ConstructorFirst' /\ IoKnows'
    BY DEF IdsAreCounted, ConstructorFirst, IoKnows
  <1> QED BY <1>1, <1>2, <1>3, <1>4, <1>5, <1>6

LEMMA IoReopenPreserves ==
  ASSUME IInv, IoReopen
  PROVE  IInv'
  <1> USE DEF IInv, TypeOK, Active, IoReopen, Connect, constructor, caller
  <1>1. TypeOK'
    <2>1. out' \in Seq(Ids \cup {0}) /\ in' \in Seq(Ids)
      OBVIOUS
    <2>2. opens' \in 0..MaxOpens
      BY DEF IoKnows
    <2> QED BY <2>1, <2>2
  <1>2. SomebodyAnswers'
    BY DEF SomebodyAnswers, OnItsWay, IoKnows
  <1>3. IdsAreCounted' /\ ConstructorFirst' /\ IoKnows' /\ IdsAreUnique'
       /\ ResultIsFinal' /\ CallbackIsKept'
    BY DEF IdsAreCounted, One, ConstructorFirst, IoKnows, IdsAreUnique,
           ResultIsFinal, CallbackIsKept
  <1> QED BY <1>1, <1>2, <1>3

LEMMA IoAddPreserves ==
  ASSUME IInv, IoAdd
  PROVE  IInv'
  <1> USE DEF IInv, TypeOK, Active, IoAdd, Register, socket, constructor,
             caller
  <1>1. TypeOK'
    BY DEF IdsAreCounted, One
  <1>2. SomebodyAnswers'
    BY DEF SomebodyAnswers, OnItsWay
  <1>3. IdsAreCounted' /\ ConstructorFirst' /\ IoKnows' /\ IdsAreUnique'
       /\ ResultIsFinal' /\ CallbackIsKept'
    BY DEF IdsAreCounted, One, ConstructorFirst, IoKnows, IdsAreUnique,
           ResultIsFinal, CallbackIsKept
  <1> QED BY <1>1, <1>2, <1>3

LEMMA IoSendPreserves ==
  ASSUME IInv, IoSend
  PROVE  IInv'
  <1>1. iid \in Ids /\ ipc \in {"send", "end"} /\ ipc' \in {"end", "idle", "dead"}
        /\ taken = {}
    BY DEF IoSend, IInv, TypeOK, IoKnows
  <1>2. /\ FirstPart(iid) \/ SecondPart(iid) \/ WriteFails(iid)
        /\ UNCHANGED <<hello, cbs, next, greetings, constructor, caller, result,
                       iid, taken, outcome>>
    BY DEF IoSend
  <1>3. /\ out' \in Seq(Ids \cup {0}) /\ half' \in Ids \cup {0}
        /\ garbled' \subseteq Ids /\ garbled \subseteq garbled'
        /\ Elements(out) \subseteq Elements(out')
        /\ UNCHANGED <<conn, in, closed, opens>>
    BY <1>1, <1>2, PartIsWritten DEF IInv
  <1> USE <1>1, <1>2, <1>3 DEF IInv, TypeOK, Active, constructor, caller
  <1>4. TypeOK'
    OBVIOUS
  <1>5. SomebodyAnswers'
    BY DEF SomebodyAnswers, OnItsWay
  <1>6. IdsAreCounted' /\ ConstructorFirst' /\ IoKnows' /\ IdsAreUnique'
       /\ ResultIsFinal' /\ CallbackIsKept'
    BY DEF IdsAreCounted, ConstructorFirst, IoKnows, IdsAreUnique,
           ResultIsFinal, CallbackIsKept
  <1> QED BY <1>4, <1>5, <1>6

LEMMA StepPreserves ==
  ASSUME IInv, [Next]_vars
  PROVE  IInv'
  <1>1. CASE Next
    BY <1>1, OpenPreserves, OpenAddPreserves, OpenSendPreserves,
       OpenReturnsPreserves, CallPreserves, TestPreserves, RefusePreserves,
       SendPreserves, GetPreserves, ReplyPreserves, MisreadPreserves, DaemonClosesPreserves,
       IoReadPreserves, IoClosePreserves, IoForgetPreserves, IoTakePreserves,
       IoCallPreserves, IoReopenPreserves, IoAddPreserves, IoSendPreserves
       DEF Next, Constructor, Caller, Io
  <1>2. CASE UNCHANGED vars
    BY <1>2
       DEF vars, socket, constructor, caller, io, IInv, TypeOK, Active,
           IdsAreCounted, ConstructorFirst, IoKnows, IdsAreUnique,
           ResultIsFinal, CallbackIsKept, SomebodyAnswers, OnItsWay
  <1> QED BY <1>1, <1>2

(***************************************************************************)
(* The inductive invariant.                                                *)
(***************************************************************************)
THEOREM Invariance == Safety => []IInv
  BY Initially, StepPreserves, PTL DEF Safety

(***************************************************************************)
(* Types, and a callback is never both in the table and taken out of it.   *)
(***************************************************************************)
THEOREM TypeCorrect == Safety => []TypeOK
  BY Invariance, PTL DEF IInv

(***************************************************************************)
(* Every call that waits will be answered by somebody, unless the daemon   *)
(* has not got its message as it was written.                              *)
(***************************************************************************)
THEOREM Answered == Safety => []SomebodyAnswers
  BY Invariance, PTL DEF IInv

LEMMA ResultStays ==
  ASSUME IInv, [Next]_vars
  PROVE  [\A id \in Ids : result[id] # "none" => result'[id] = result[id]]_vars
  <1> SUFFICES ASSUME NEW id \in Ids, result[id] # "none"
               PROVE  result'[id] = result[id]
    OBVIOUS
  <1> USE DEF vars, socket, constructor, caller, io
  <1>1. id \notin cbs /\ id \notin taken
    BY DEF IInv, ResultIsFinal
  <1>2. CASE Constructor
    BY <1>2 DEF Constructor, Open, OpenAdd, OpenSend, OpenReturns
  <1>3. ASSUME NEW c \in Callers, Call(c) \/ Test(c) \/ Send(c) \/ Get(c)
        PROVE  result' = result
    BY <1>3 DEF Call, Test, Send, Get
  <1>4. ASSUME NEW c \in Callers, Refuse(c)
        PROVE  result'[id] = result[id]
    BY <1>1, <1>4 DEF Refuse
  <1>5. CASE Reply \/ Misread \/ DaemonCloses
    BY <1>5 DEF Reply, Misread, DaemonCloses
  <1>6. CASE IoCall
    BY <1>1, <1>6 DEF IoCall, IInv, TypeOK
  <1>7. CASE Io /\ ~IoCall
    BY <1>7 DEF Io, IoRead, IoClose, IoForget, IoTake, IoReopen, IoAdd, IoSend
  <1>8. CASE UNCHANGED vars
    BY <1>8
  <1> QED BY <1>2, <1>3, <1>4, <1>5, <1>6, <1>7, <1>8 DEF Next, Caller

(***************************************************************************)
(* A callback is called once.                                              *)
(***************************************************************************)
THEOREM Once == Safety => CalledOnce
  BY Invariance, ResultStays, PTL DEF Safety, CalledOnce
=============================================================================
