-------------------------- MODULE Connection_proofs --------------------------
(***************************************************************************)
(* Proofs about Connection for all sizes of the buffer and of the socket,  *)
(* any set of threads and any messages.  The inductive invariant says what *)
(* lies in the buffer between the offsets, how far it has been searched,   *)
(* and which bytes epoll still has to report (IInv), and, while calls do   *)
(* not overlap, where in the socket each message lies, in which encoding,  *)
(* and which of them the server has handled (Ordered); and, whatever the   *)
(* bytes are, that the server has come to where it is by reading one       *)
(* message after the other from the beginning (RInv).                      *)
(***************************************************************************)
EXTENDS Connection, TLAPS, WellFoundedInduction

-----------------------------------------------------------------------------
(* Facts about the encodings.                                              *)

LEMMA LeastIsThere ==
    ASSUME NEW S, S \subseteq Nat, S # {}
    PROVE  Least(S) \in S /\ \A j \in S : Least(S) <= j
<1> DEFINE R == {p \in Nat \X Nat : p[1] < p[2]}
<1>1. IsWellFoundedOn(R, Nat)
  <2>1. OpToRel(<, Nat) = R
    BY Zenon DEF OpToRel
  <2> QED
    BY ONLY <2>1, NatLessThanWellFounded, Zenon
<1>2. \E x \in S : \A y \in S : ~ (<<y, x>> \in R)
  <2> HIDE DEF R
  <2> QED
    BY <1>1, WFMin
<1>3. PICK m \in S : \A y \in S : ~ (<<y, m>> \in R)
  BY <1>2
<1>4. \A y \in S : m <= y
  <2> TAKE y \in S
  <2>1. <<y, m>> \in Nat \X Nat /\ <<y, m>>[1] = y /\ <<y, m>>[2] = m
    OBVIOUS
  <2>2. ~ (y < m)
    BY <1>3, <2>1, Zenon
  <2> QED
    BY <2>2
<1> QED
  BY <1>4 DEF Least

\* Parts of a sequence, and when two sequences are the same.
LEMMA PartOf ==
    ASSUME NEW S, NEW u \in Seq(S), NEW m \in 1..Len(u) + 1,
           NEW n \in 0..Len(u), m <= n + 1
    PROVE  /\ SubSeq(u, m, n) \in Seq(S)
           /\ Len(SubSeq(u, m, n)) = n - m + 1
           /\ \A j \in 1..n - m + 1 : SubSeq(u, m, n)[j] = u[m + j - 1]
<1>1. Len(u) \in Nat
  OBVIOUS
<1>2. Len(SubSeq(u, m, n)) = n - m + 1
  BY <1>1
<1>3. SubSeq(u, m, n) \in Seq(S)
  BY <1>1
<1>4. ASSUME NEW j \in 1..n - m + 1
      PROVE  SubSeq(u, m, n)[j] = u[m + j - 1]
  BY <1>1, <1>2, <1>3
<1> QED
  BY <1>2, <1>3, <1>4

LEMMA SameSequence ==
    ASSUME NEW S, NEW s \in Seq(S), NEW t \in Seq(S), Len(s) = Len(t),
           \A j \in 1..Len(t) : s[j] = t[j]
    PROVE  s = t
<1> QED
  OBVIOUS

\* What send_json() writes is bytes.
LEMMA PartsAreBytes ==
    ASSUME NEW e, NEW b \in Message
    PROVE  FirstPart(e, b) \in Seq(Byte) /\ SecondPart(e, b) \in Seq(Byte)
<1>1. b \in Seq(Byte) /\ Len(b) \in Nat /\ Len(b) < Base * Base * Base
  BY BodiesAssumption, BaseAssumption DEF Message, Byte
<1>2. EncodeUnsigned(Len(b)) \in Seq(Byte)
  <2> DEFINE n == Len(b)
  <2>1. n \in Nat /\ Base \in Nat /\ Base > 1 /\ n < Base * Base * Base
    BY <1>1, BaseAssumption
  <2> HIDE DEF n
  <2>2. /\ n % Base \in 0..Base - 1
        /\ (n \div Base) % Base \in 0..Base - 1
        /\ n \div Base \in Nat
        /\ n \div Base < Base * Base
    BY <2>1, Z3
  <2>3. (n \div Base) \div Base \in 0..Base - 1
    BY <2>1, <2>2, Z3
  <2>4. CASE n < Base
    BY <2>1, <2>4 DEF EncodeUnsigned, Byte, n
  <2>5. CASE ~ (n < Base) /\ n \div Base < Base
    <3>1. EncodeUnsigned(n) = <<Base + (n % Base), n \div Base>>
      BY <2>5, Zenon DEF EncodeUnsigned
    <3> QED
      BY <2>1, <2>2, <2>5, <3>1 DEF Byte, n
  <2>6. CASE ~ (n < Base) /\ ~ (n \div Base < Base)
    <3>1. EncodeUnsigned(n) = <<Base + (n % Base),
                                Base + ((n \div Base) % Base),
                                (n \div Base) \div Base>>
      BY <2>6, Zenon DEF EncodeUnsigned
    <3> QED
      BY <2>1, <2>2, <2>3, <3>1 DEF Byte, n
  <2> QED
    BY <2>4, <2>5, <2>6
<1>3. <<Newline>> \in Seq(Byte)
  BY BaseAssumption DEF Byte, Newline
<1> QED
  BY <1>1, <1>2, <1>3 DEF FirstPart, SecondPart

\* A complete message lies in the bytes that were given.
LEMMA CompleteIsWithin ==
    ASSUME NEW e \in Encodings, NEW s \in Seq(Byte), NEW k \in 0..Len(s)
    PROVE  CompleteLength(e, s, k) \in 0..Len(s)
<1> DEFINE ends == {i \in k + 1..Len(s) : s[i] = Newline}
<1>1. ends # {} => Least(ends) \in ends
  <2>1. ends \subseteq Nat
    OBVIOUS
  <2> HIDE DEF ends
  <2> QED
    BY <2>1, LeastIsThere
<1>2. ends # {} => Least(ends) \in 1..Len(s)
  BY <1>1
<1> DEFINE total == Total(s)
<1>4. CASE e = "json"
  <2>1. CompleteLength(e, s, k) = IF ends = {} THEN 0 ELSE Least(ends)
    BY <1>4, Zenon DEF CompleteLength
  <2> QED
    BY <1>2, <2>1
<1>5. CASE e # "json"
  <2> HIDE DEF total
  <2>1. CompleteLength(e, s, k) =
            IF VarintSize(s) > 0 /\ total \in 1..Len(s) THEN total ELSE 0
    BY <1>5, Zenon DEF CompleteLength, total
  <2> QED
    BY <2>1
<1> QED
  BY <1>4, <1>5

\* Without a complete message there is no newline among the new bytes.
LEMMA NoneComplete ==
    ASSUME NEW s \in Seq(Byte), NEW k \in 0..Len(s),
           CompleteLength("json", s, k) = 0
    PROVE  \A i \in k + 1..Len(s) : s[i] # Newline
<1> DEFINE ends == {i \in k + 1..Len(s) : s[i] = Newline}
<1>1. ends # {} => Least(ends) \in ends
  <2>1. ends \subseteq Nat
    OBVIOUS
  <2> HIDE DEF ends
  <2> QED
    BY <2>1, LeastIsThere
<1>2. ends # {} => Least(ends) # 0
  BY <1>1
<1>3. CompleteLength("json", s, k) = IF ends = {} THEN 0 ELSE Least(ends)
  BY Zenon DEF CompleteLength
<1>4. ends = {}
  BY <1>2, <1>3
<1> QED
  BY <1>4

\* The bytes of a length: all but the last one are not below Base.
LEMMA BytesOfLength ==
    ASSUME NEW n \in Nat, n < Base * Base * Base
    PROVE  LET c == EncodeUnsigned(n)
           IN  /\ c \in Seq(Byte) /\ Len(c) \in 1..3
               /\ \A j \in 1..Len(c) : c[j] < Base <=> j = Len(c)
               /\ n = CASE Len(c) = 1 -> c[1] % Base
                        [] Len(c) = 2 -> (c[1] % Base) + Base * (c[2] % Base)
                        [] Len(c) = 3 -> (c[1] % Base) + Base *
                               ((c[2] % Base) + Base * (c[3] % Base))
<1>1. /\ n \in Nat /\ Base \in Nat /\ Base > 1
  BY BaseAssumption
<1>2. /\ n % Base \in 0..Base - 1
      /\ (n \div Base) % Base \in 0..Base - 1
      /\ n \div Base \in Nat
      /\ n \div Base < Base * Base
      /\ n = (n % Base) + Base * (n \div Base)
  BY <1>1, Z3
<1>3. /\ (n \div Base) \div Base \in 0..Base - 1
      /\ n \div Base = ((n \div Base) % Base) + Base * ((n \div Base) \div Base)
  BY <1>1, <1>2, Z3
<1>4. \A d \in 0..Base - 1 :
        /\ d \in Byte /\ Base + d \in Byte /\ d < Base /\ ~ (Base + d < Base)
        /\ d % Base = d /\ (Base + d) % Base = d
  BY <1>1, Z3 DEF Byte
<1>5. CASE n < Base
  <2>1. EncodeUnsigned(n) = <<n>>
    BY <1>5, Zenon DEF EncodeUnsigned
  <2>2. n \in 0..Base - 1
    BY <1>1, <1>5
  <2> QED
    BY <2>1, <2>2, <1>4
<1>6. CASE ~ (n < Base) /\ n \div Base < Base
  <2> DEFINE a == n % Base
             b == n \div Base
  <2>1. EncodeUnsigned(n) = <<Base + a, b>>
    BY <1>6, Zenon DEF EncodeUnsigned
  <2>2. a \in 0..Base - 1 /\ b \in 0..Base - 1 /\ n = a + Base * b
    BY <1>1, <1>2, <1>6
  <2> HIDE DEF a, b
  <2> QED
    BY <2>1, <2>2, <1>4
<1>7. CASE ~ (n < Base) /\ ~ (n \div Base < Base)
  <2> DEFINE a == n % Base
             b == (n \div Base) % Base
             c == (n \div Base) \div Base
  <2>1. EncodeUnsigned(n) = <<Base + a, Base + b, c>>
    BY <1>7, Zenon DEF EncodeUnsigned
  <2>2. /\ a \in 0..Base - 1 /\ b \in 0..Base - 1 /\ c \in 0..Base - 1
        /\ n = a + Base * (b + Base * c)
    BY <1>1, <1>2, <1>3
  <2> HIDE DEF a, b, c
  <2> QED
    BY <2>1, <2>2, <1>4
<1> QED
  BY <1>5, <1>6, <1>7

LEMMA VarintSizeRange ==
    ASSUME NEW s \in Seq(Byte)
    PROVE  /\ VarintSize(s) \in 0..Len(s)
           /\ VarintSize(s) > 0 =>
                /\ s[VarintSize(s)] < Base
                /\ \A j \in 1..Len(s) : j < VarintSize(s) => ~ (s[j] < Base)
           /\ VarintSize(s) = 0 =>
                \A j \in 1..Len(s) : j <= 9 => ~ (s[j] < Base)
<1> DEFINE ends == {i \in 1..Len(s) : i <= 9 /\ s[i] < Base}
<1>1. VarintSize(s) = IF ends = {} THEN 0 ELSE Least(ends)
  BY DEF VarintSize
<1>2. ends \subseteq 1..Len(s) /\ Len(s) \in Nat
  OBVIOUS
<1>3. CASE ends = {}
  <2>1. VarintSize(s) = 0
    BY <1>1, <1>3
  <2>2. \A j \in 1..Len(s) : ~ (j <= 9 /\ s[j] < Base)
    BY <1>3
  <2> QED
    BY <1>2, <2>1, <2>2
<1>4. CASE ends # {}
  <2>1. Least(ends) \in ends /\ \A j \in ends : Least(ends) <= j
    <3>1. ends \subseteq Nat
      BY <1>2
    <3> HIDE DEF ends
    <3> QED
      BY <1>4, <3>1, LeastIsThere
  <2>2. VarintSize(s) \in ends /\ \A j \in ends : VarintSize(s) <= j
    BY <1>1, <1>4, <2>1
  <2> QED
    BY <1>2, <2>2
<1> QED
  BY <1>3, <1>4

LEMMA ValueOfLength ==
    ASSUME NEW s \in Seq(Byte), VarintSize(s) \in 1..3,
           VarintSize(s) <= Digits
    PROVE  VarintValue(s) =
             CASE VarintSize(s) = 1 -> s[1] % Base
               [] VarintSize(s) = 2 -> (s[1] % Base) + Base * (s[2] % Base)
               [] VarintSize(s) = 3 -> (s[1] % Base) + Base *
                               ((s[2] % Base) + Base * (s[3] % Base))
<1> DEFINE n == VarintSize(s)
           Is(f) == f = [i \in 1..n + 1 |->
                          IF i > n THEN 0 ELSE (s[i] % Base) + Base * f[i + 1]]
           from == CHOOSE f : Is(f)
<1>1. VarintValue(s) = from[1]
  <2>1. n \in 0..Len(s) /\ Len(s) \in Nat /\ 1 \in 1..Len(s) + 1
    BY VarintSizeRange
  <2> HIDE DEF n
  <2> DEFINE d == SubSeq(s, 1, n)
             IsIt(f) == f = [i \in 1..Len(d) + 1 |->
                  IF i > Len(d) THEN 0 ELSE (d[i] % Base) + Base * f[i + 1]]
  <2>2. Len(d) = n /\ \A i \in 1..n : d[i] = s[i]
    BY <2>1
  <2>3. VarintValue(s) = NumberIn(d)
    BY Zenon DEF VarintValue, n
  <2>4. NumberIn(d) = (CHOOSE f : IsIt(f))[1]
    BY DEF NumberIn
  <2> HIDE DEF d
  <2>5. \A f : IsIt(f) <=> Is(f)
    <3> TAKE f
    <3>1. \A i \in 1..n + 1 : ~ (i > n) => d[i] = s[i]
      BY <2>1, <2>2
    <3>2. [i \in 1..Len(d) + 1 |->
              IF i > Len(d) THEN 0 ELSE (d[i] % Base) + Base * f[i + 1]]
          = [i \in 1..n + 1 |->
              IF i > n THEN 0 ELSE (s[i] % Base) + Base * f[i + 1]]
      BY <2>2, <3>1
    <3> QED
      BY <3>2
  <2> HIDE DEF IsIt, Is
  <2>6. (CHOOSE f : IsIt(f)) = (CHOOSE f : Is(f))
    BY <2>5
  <2> QED
    BY <2>3, <2>4, <2>6
<1> HIDE DEF n
<1>2. \A i \in 1..n : s[i] % Base \in 0..Base - 1
  <2>1. n <= Len(s)
    BY VarintSizeRange DEF n
  <2> QED
    BY <2>1, BaseAssumption, SMTT(60) DEF Byte, n
<1>3. \E f : Is(f)
  <2> DEFINE d(i) == s[i] % Base
  <2>1. CASE n = 1
    <3> DEFINE f == [i \in 1..2 |-> IF i = 1 THEN d(1) + Base * 0 ELSE 0]
    <3>1. Is(f)
      BY <2>1
    <3> QED
      BY <3>1
  <2>2. CASE n = 2
    <3> DEFINE f == [i \in 1..3 |->
                        IF i = 1 THEN d(1) + Base * (d(2) + Base * 0)
                        ELSE IF i = 2 THEN d(2) + Base * 0 ELSE 0]
    <3>1. Is(f)
      BY <2>2
    <3> QED
      BY <3>1
  <2>3. CASE n = 3
    <3> DEFINE f == [i \in 1..4 |->
                        IF i = 1
                        THEN d(1) + Base * (d(2) + Base * (d(3) + Base * 0))
                        ELSE IF i = 2 THEN d(2) + Base * (d(3) + Base * 0)
                        ELSE IF i = 3 THEN d(3) + Base * 0 ELSE 0]
    <3>1. Is(f)
      BY <2>3
    <3> QED
      BY <3>1
  <2> QED
    BY <2>1, <2>2, <2>3 DEF n
<1>4. Is(from)
  BY <1>3
<1> HIDE DEF from
<1>5. /\ from[n + 1] = 0
      /\ \A i \in 1..n : from[i] = (s[i] % Base) + Base * from[i + 1]
  <2>1. n \in 1..3
    BY DEF n
  <2>2. n + 1 \in 1..n + 1 /\ n + 1 > n
    BY <2>1
  <2>3. \A i \in 1..n : i \in 1..n + 1 /\ ~ (i > n)
    BY <2>1
  <2> QED
    BY <1>4, <2>2, <2>3
<1>6. from[n] = s[n] % Base
  BY SMTT(20), <1>2, <1>5, BaseAssumption DEF n
<1>7. CASE n = 1
  BY <1>1, <1>6, <1>7 DEF n
<1>8. CASE n = 2
  BY <1>1, <1>5, <1>6, <1>8 DEF n
<1>9. CASE n = 3
  <2>1. from[2] = (s[2] % Base) + Base * (s[3] % Base)
    BY <1>5, <1>6, <1>9
  <2> QED
    BY <1>1, <1>5, <2>1, <1>9 DEF n
<1> QED
  BY <1>7, <1>8, <1>9 DEF n

LEMMA VarintEnds ==
    ASSUME NEW s \in Seq(Byte), NEW n \in 1..3, n <= Len(s),
           \A j \in 1..n : s[j] < Base <=> j = n
    PROVE  VarintSize(s) = n
<1> DEFINE v == VarintSize(s)
<1>1. /\ v \in 0..Len(s) /\ Len(s) \in Nat
      /\ v > 0 =>
           /\ s[v] < Base
           /\ \A j \in 1..Len(s) : j < v => ~ (s[j] < Base)
      /\ v = 0 => \A j \in 1..Len(s) : j <= 9 => ~ (s[j] < Base)
  BY VarintSizeRange
<1> HIDE DEF v
<1>2. n \in 1..Len(s) /\ n <= 9 /\ s[n] < Base
  BY <1>1
<1>3. v # 0
  BY <1>1, <1>2
<1>4. ~ (v < n)
  BY <1>1, <1>3
<1>5. ~ (n < v)
  BY <1>1, <1>2, <1>3
<1> QED
  BY <1>1, <1>4, <1>5 DEF v

Whole(e, b) == FirstPart(e, b) \o SecondPart(e, b)

\* As far as u reaches, it is what send_json() writes for b.
IsBeginning(u, e, b) ==
    \A j \in 1..Len(u) : j <= Len(Whole(e, b)) => u[j] = Whole(e, b)[j]

LEMMA WholeOfJson ==
    ASSUME NEW b \in Message
    PROVE  /\ Whole("json", b) \in Seq(Byte)
           /\ Len(b) \in Nat \ {0} /\ b \in Seq(Byte)
           /\ Len(Whole("json", b)) = Len(b) + 1
           /\ \A j \in 1..Len(b) : Whole("json", b)[j] = b[j] /\ b[j] # Newline
           /\ Whole("json", b)[Len(b) + 1] = Newline
<1>1. /\ b \in Seq(Byte) /\ b # <<>> /\ Len(b) \in Nat /\ b \in Seq(Byte \ {Newline})
  BY BodiesAssumption DEF Message
<1>2. \A j \in 1..Len(b) : b[j] # Newline
  BY <1>1
<1>3. Newline \in Byte
  BY BaseAssumption DEF Byte, Newline
<1>4. Whole("json", b) = b \o <<Newline>>
  BY DEF Whole, FirstPart, SecondPart
<1>5. Len(b) # 0
  BY <1>1
<1> QED
  BY <1>1, <1>2, <1>3, <1>4, <1>5

LengthOf(b) == EncodeUnsigned(Len(b))

LEMMA WholeOfCbor ==
    ASSUME NEW e, e # "json", NEW b \in Message
    PROVE  /\ Whole(e, b) \in Seq(Byte)
           /\ Len(b) \in Nat \ {0} /\ b \in Seq(Byte)
           /\ LengthOf(b) \in Seq(Byte) /\ Len(LengthOf(b)) \in 1..3
           /\ Len(Whole(e, b)) = Len(LengthOf(b)) + Len(b)
           /\ \A j \in 1..Len(LengthOf(b)) : Whole(e, b)[j] = LengthOf(b)[j]
           /\ \A j \in 1..Len(b) : Whole(e, b)[Len(LengthOf(b)) + j] = b[j]
<1> DEFINE c == LengthOf(b)
<1>1. /\ b \in Seq(Byte) /\ b # <<>> /\ Len(b) \in Nat
      /\ Len(b) < Base * Base * Base
  BY BodiesAssumption DEF Message
<1>2. c \in Seq(Byte) /\ Len(c) \in 1..3
  BY <1>1, BytesOfLength DEF LengthOf
<1> HIDE DEF c
<1>3. Whole(e, b) = c \o b
  BY DEF Whole, FirstPart, SecondPart, c, LengthOf
<1>4. Len(b) # 0
  BY <1>1
<1>5. /\ Whole(e, b) \in Seq(Byte)
      /\ Len(Whole(e, b)) = Len(c) + Len(b)
      /\ \A j \in 1..Len(c) : Whole(e, b)[j] = c[j]
      /\ \A j \in 1..Len(b) : Whole(e, b)[Len(c) + j] = b[j]
  BY <1>1, <1>2, <1>3
<1> QED
  BY <1>1, <1>2, <1>4, <1>5 DEF c

LEMMA WholeIsBytes ==
    ASSUME NEW e, NEW b \in Message
    PROVE  Whole(e, b) \in Seq(Byte) /\ Len(Whole(e, b)) \in Nat \ {0}
<1>1. CASE e = "json"
  BY <1>1, WholeOfJson
<1>2. CASE e # "json"
  <2>1. /\ Len(b) \in Nat \ {0} /\ Len(LengthOf(b)) \in 1..3
        /\ Len(Whole(e, b)) = Len(LengthOf(b)) + Len(b)
        /\ Whole(e, b) \in Seq(Byte)
    BY <1>2, WholeOfCbor
  <2>2. Len(LengthOf(b)) + Len(b) \in Nat \ {0}
    BY <2>1
  <2> QED
    BY <2>1, <2>2
<1> QED
  BY <1>1, <1>2

\* The end of a line is found as soon as it is there, and not before.
LEMMA JsonTells ==
    ASSUME NEW b \in Message, NEW u \in Seq(Byte), NEW k \in 0..Len(u),
           \A j \in 1..k : u[j] # Newline,
           IsBeginning(u, "json", b)
    PROVE  LET n == Len(Whole("json", b))
           IN  /\ Len(u) < n => CompleteLength("json", u, k) = 0
               /\ Len(u) >= n =>
                    /\ CompleteLength("json", u, k) = n
                    /\ ReadMessage("json", SubSeq(u, 1, n)) = b
<1> DEFINE n == Len(Whole("json", b))
           ends == {i \in k + 1..Len(u) : u[i] = Newline}
<1>1. /\ n = Len(b) + 1 /\ Len(b) \in Nat \ {0} /\ b \in Seq(Byte)
      /\ Len(u) \in Nat
      /\ \A j \in 1..Len(u) :
            /\ j <= Len(b) => u[j] = b[j] /\ u[j] # Newline
            /\ j = n => u[j] = Newline
  BY WholeOfJson DEF IsBeginning
<1>2. CompleteLength("json", u, k) = IF ends = {} THEN 0 ELSE Least(ends)
  BY Zenon DEF CompleteLength
<1> HIDE DEF n
<1>3. CASE Len(u) < n
  <2>1. ends = {}
    BY <1>1, <1>3
  <2> QED
    BY <1>1, <1>2, <1>3, <2>1 DEF n
<1>4. CASE Len(u) >= n
  <2>1. n \in ends /\ \A j \in ends : n <= j
    BY <1>1, <1>4
  <2>2. ends \subseteq Nat
    OBVIOUS
  <2>3. ends # {} /\ Least(ends) = n
    <3> HIDE DEF ends
    <3>1. Least(ends) \in ends /\ \A j \in ends : Least(ends) <= j
      BY <2>1, <2>2, LeastIsThere
    <3>2. Least(ends) \in Nat /\ n \in Nat
      <4>1. Least(ends) \in Nat
        BY <2>2, <3>1, Zenon
      <4> QED
        BY <1>1, <4>1
    <3>3. Least(ends) <= n /\ n <= Least(ends)
      BY <2>1, <3>1
    <3> QED
      BY <2>1, <3>2, <3>3
  <2>4. ReadMessage("json", SubSeq(u, 1, n)) = b
    <3> DEFINE s == SubSeq(u, 1, n)
               r == SubSeq(s, 1, Len(s) - 1)
    <3>1. s \in Seq(Byte) /\ Len(s) = n /\ \A j \in 1..n : s[j] = u[j]
      BY <1>1, <1>4
    <3> HIDE DEF s
    <3>2. r \in Seq(Byte) /\ Len(r) = Len(b) /\ \A j \in 1..Len(b) : r[j] = b[j]
      <4>1. /\ 1 \in 1..Len(s) + 1 /\ Len(s) - 1 \in 0..Len(s)
            /\ Len(s) - 1 = Len(b) /\ (Len(s) - 1) - 1 + 1 = Len(b)
            /\ 1 <= (Len(s) - 1) + 1
        BY <1>1, <3>1
      <4>2. /\ r \in Seq(Byte) /\ Len(r) = Len(b)
            /\ \A j \in 1..Len(b) : r[j] = s[1 + j - 1]
        BY <3>1, <4>1, PartOf
      <4> HIDE DEF r
      <4>3. ASSUME NEW j \in 1..Len(b) PROVE r[j] = b[j]
        <5>1. 1 + j - 1 = j /\ j \in 1..n /\ j \in 1..Len(u)
          BY <1>1, <1>4
        <5>2. r[j] = u[j]
          BY <3>1, <4>2, <5>1
        <5> QED
          BY <1>1, <1>4, <5>1, <5>2
      <4> QED
        BY <4>2, <4>3
    <3> HIDE DEF r
    <3>3. r = b
      BY <1>1, <3>2, SameSequence
    <3> QED
      BY <3>3 DEF ReadMessage, r, s, Message
  <2> QED
    BY <1>1, <1>2, <1>4, <2>3, <2>4 DEF n
<1> QED
  BY <1>1, <1>3, <1>4 DEF n

\* The length of a message is read as soon as all its bytes are there.
LEMMA CborTells ==
    ASSUME NEW e, e # "json", NEW b \in Message, NEW u \in Seq(Byte), NEW k,
           IsBeginning(u, e, b)
    PROVE  LET n == Len(Whole(e, b))
           IN  /\ Len(u) < n => CompleteLength(e, u, k) = 0
               /\ Len(u) >= n =>
                    /\ CompleteLength(e, u, k) = n
                    /\ ReadMessage(e, SubSeq(u, 1, n)) = b
<1> DEFINE n == Len(Whole(e, b))
           c == LengthOf(b)
           total == Total(u)
<1>1. /\ n = Len(c) + Len(b) /\ Len(b) \in Nat \ {0} /\ b \in Seq(Byte)
      /\ c \in Seq(Byte) /\ Len(c) \in 1..3
      /\ Len(u) \in Nat
      /\ \A j \in 1..Len(u) : j <= Len(c) => u[j] = c[j]
      /\ \A j \in 1..Len(b) : Len(c) + j <= Len(u) => u[Len(c) + j] = b[j]
  <2>1. /\ n = Len(c) + Len(b) /\ Len(b) \in Nat \ {0} /\ b \in Seq(Byte)
        /\ c \in Seq(Byte) /\ Len(c) \in 1..3
        /\ \A j \in 1..Len(c) : Whole(e, b)[j] = c[j]
        /\ \A j \in 1..Len(b) : Whole(e, b)[Len(c) + j] = b[j]
    <3>1. /\ Whole(e, b) \in Seq(Byte)
          /\ Len(b) \in Nat \ {0} /\ b \in Seq(Byte)
          /\ LengthOf(b) \in Seq(Byte) /\ Len(LengthOf(b)) \in 1..3
          /\ Len(Whole(e, b)) = Len(LengthOf(b)) + Len(b)
          /\ \A j \in 1..Len(LengthOf(b)) : Whole(e, b)[j] = LengthOf(b)[j]
          /\ \A j \in 1..Len(b) : Whole(e, b)[Len(LengthOf(b)) + j] = b[j]
      <4> HIDE DEF n, c
      <4> QED
        BY WholeOfCbor
    <3> QED
      BY <3>1
  <2>2. /\ Len(u) \in Nat
        /\ \A j \in 1..Len(u) : j <= n => u[j] = Whole(e, b)[j]
    BY DEF IsBeginning
  <2> HIDE DEF n, c
  <2> QED
    BY <2>1, <2>2
<1>2. CompleteLength(e, u, k) =
         IF VarintSize(u) > 0 /\ total \in 1..Len(u) THEN total ELSE 0
  BY Zenon DEF CompleteLength
<1>3. /\ \A j \in 1..Len(c) : c[j] < Base <=> j = Len(c)
      /\ Len(b) = CASE Len(c) = 1 -> c[1] % Base
                    [] Len(c) = 2 -> (c[1] % Base) + Base * (c[2] % Base)
                    [] Len(c) = 3 -> (c[1] % Base) + Base *
                           ((c[2] % Base) + Base * (c[3] % Base))
  <2>1. Len(b) \in Nat /\ Len(b) < Base * Base * Base
    BY <1>1, BodiesAssumption, Zenon DEF Message
  <2> QED
    BY <2>1, BytesOfLength, Zenon DEF LengthOf
<1>4. VarintSize(u) \in 0..Len(u)
  BY VarintSizeRange
<1>7. Len(c) <= Digits /\ Len(b) + 3 < SizeValues /\ SizeValues \in Nat
      /\ Digits \in Nat
  BY WidthAssumption, Zenon DEF Message, LengthOf
<1> HIDE DEF n, c
<1>5. CASE Len(u) < Len(c)
  <2>1. \A j \in 1..Len(u) : ~ (u[j] < Base)
    BY <1>1, <1>3, <1>5
  <2>2. VarintSize(u) = 0
    BY <1>4, <2>1, VarintSizeRange
  <2> QED
    BY <1>1, <1>2, <1>5, <2>2 DEF n
<1>6. CASE Len(u) >= Len(c)
  <2>1. VarintSize(u) = Len(c)
    <3>1. \A j \in 1..Len(c) : u[j] < Base <=> j = Len(c)
      BY <1>1, <1>3, <1>6
    <3> QED
      BY <1>1, <1>6, <3>1, VarintEnds
  <2>2. VarintValue(u) = Len(b)
    <3>1. \A j \in 1..Len(c) : u[j] = c[j]
      BY <1>1, <1>6
    <3>2. VarintValue(u) =
            CASE Len(c) = 1 -> u[1] % Base
              [] Len(c) = 2 -> (u[1] % Base) + Base * (u[2] % Base)
              [] Len(c) = 3 -> (u[1] % Base) + Base *
                               ((u[2] % Base) + Base * (u[3] % Base))
      BY <1>1, <1>7, <2>1, ValueOfLength
    <3>3. CASE Len(c) = 1
      BY <1>3, <3>1, <3>2, <3>3
    <3>4. CASE Len(c) = 2
      BY <1>3, <3>1, <3>2, <3>4
    <3>5. CASE Len(c) = 3
      BY <1>3, <3>1, <3>2, <3>5
    <3> QED
      BY <1>1, <3>3, <3>4, <3>5
  <2>3. total = n
    <3>1. total = (Len(c) + Len(b)) % SizeValues
      BY <2>1, <2>2 DEF Total
    <3> HIDE DEF total
    <3>2. PICK x : x = Len(c)
      OBVIOUS
    <3>3. PICK y : y = Len(b)
      OBVIOUS
    <3>4. PICK v : v = SizeValues
      OBVIOUS
    <3>5. x \in Nat /\ y \in Nat /\ x + y < v /\ v \in Nat /\ v > 0
      <4>1. x \in 1..3 /\ y \in Nat
        BY <1>1, <3>2, <3>3
      <4> QED
        BY <1>7, <3>3, <3>4, <4>1
    <3>6. (x + y) % v = x + y
      BY <3>5
    <3> QED
      BY <1>1, <3>1, <3>2, <3>3, <3>4, <3>6
  <2>4. CASE Len(u) < n
    BY <1>1, <1>2, <2>3, <2>4 DEF n
  <2>5. CASE Len(u) >= n
    <3>1. CompleteLength(e, u, k) = n
      BY <1>1, <1>2, <2>1, <2>3, <2>5
    <3> DEFINE s == SubSeq(u, 1, n)
               r == SubSeq(s, VarintSize(s) + 1, Len(s))
    <3>2. s \in Seq(Byte) /\ Len(s) = n /\ \A j \in 1..n : s[j] = u[j]
      BY <1>1, <2>5
    <3> HIDE DEF s
    <3>3. \A j \in 1..Len(c) : s[j] < Base <=> j = Len(c)
      <4>1. \A j \in 1..Len(c) : j \in 1..n /\ j \in 1..Len(u) /\ j <= Len(c)
        BY <1>1, <2>5
      <4>2. \A j \in 1..Len(c) : s[j] = u[j]
        BY <3>2, <4>1
      <4>3. \A j \in 1..Len(c) : u[j] < Base <=> j = Len(c)
        BY <1>1, <1>3, <4>1
      <4> QED
        BY <4>2, <4>3
    <3>4. VarintSize(s) = Len(c)
      <4>1. Len(c) <= Len(s)
        BY <1>1, <3>2
      <4> QED
        BY <1>1, <3>2, <3>3, <4>1, VarintEnds
    <3>5. r \in Seq(Byte) /\ Len(r) = Len(b) /\ \A j \in 1..Len(b) : r[j] = b[j]
      <4>1. r = SubSeq(s, Len(c) + 1, n)
        BY <3>2, <3>4
      <4>2. /\ Len(c) + 1 \in 1..Len(s) + 1 /\ n \in 0..Len(s)
            /\ n - (Len(c) + 1) + 1 = Len(b)
        BY <1>1, <3>2
      <4> HIDE DEF r
      <4>3. r \in Seq(Byte) /\ Len(r) = Len(b)
            /\ \A j \in 1..Len(b) : r[j] = s[Len(c) + j]
        <5>1. Len(c) + 1 <= n + 1
          BY <1>1
        <5>2. /\ r \in Seq(Byte) /\ Len(r) = Len(b)
              /\ \A j \in 1..Len(b) : r[j] = s[(Len(c) + 1) + j - 1]
          BY <3>2, <4>1, <4>2, <5>1, PartOf
        <5>3. \A j \in 1..Len(b) : (Len(c) + 1) + j - 1 = Len(c) + j
          BY <1>1
        <5> QED
          BY <5>2, <5>3
      <4>4. ASSUME NEW j \in 1..Len(b) PROVE r[j] = b[j]
        <5>1. Len(c) + j \in 1..n /\ Len(c) + j <= Len(u)
          BY <1>1, <2>5
        <5>2. u[Len(c) + j] = b[j]
          BY <1>1, <5>1
        <5>3. s[Len(c) + j] = u[Len(c) + j]
          BY <3>2, <5>1
        <5> QED
          BY <4>3, <5>2, <5>3
      <4> QED
        BY <4>3, <4>4
    <3> HIDE DEF r
    <3>6. r = b
      BY <1>1, <3>5, SameSequence
    <3>7. ReadMessage(e, s) = b
      <4>1. VarintSize(s) # 0
        BY <1>1, <3>4
      <4> QED
        BY <3>6, <4>1, Zenon DEF ReadMessage, r, Message
    <3> QED
      BY <1>1, <2>5, <3>1, <3>7 DEF n, s
  <2> QED
    BY <1>1, <2>4, <2>5
<1> QED
  BY <1>1, <1>5, <1>6 DEF n

\* The two lemmas in one.
LEMMA MessageTells ==
    ASSUME NEW e \in Encodings, NEW b \in Message, NEW u \in Seq(Byte),
           NEW k \in 0..Len(u),
           e = "json" => \A j \in 1..k : u[j] # Newline,
           IsBeginning(u, e, b)
    PROVE  /\ Len(u) < Len(Whole(e, b)) => CompleteLength(e, u, k) = 0
           /\ Len(u) >= Len(Whole(e, b)) =>
                /\ CompleteLength(e, u, k) = Len(Whole(e, b))
                /\ ReadMessage(e, SubSeq(u, 1, Len(Whole(e, b)))) = b
<1>1. CASE e = "json"
  BY <1>1, JsonTells
<1>2. CASE e # "json"
  BY <1>2, CborTells
<1> QED
  BY <1>1, <1>2

-----------------------------------------------------------------------------
(* The inductive invariant.                                                *)

\* The bytes that have been searched for the end of a line.
Searched ==
    current = "json" =>
        \A i \in start + 1..IF io = "scan" THEN check ELSE off :
            buffer[i] # Newline

IInv == TypeOK /\ NothingStranded /\ UnreadIsStream /\ Searched

LEMMA InitIInv == Init => IInv
<1> SUFFICES ASSUME Init PROVE IInv
  OBVIOUS
<1> USE SizesAssumption DEF Init
<1>1. TypeOK
  <2>1. buffer \in Seq(Byte) /\ Len(buffer) = BufferSize
    BY BaseAssumption DEF Byte
  <2>2. Hello \in Message
    BY DEF Message
  <2>3. wpc \in [Threads -> {"idle", "load", "first", "second"}]
    OBVIOUS
  <2>4. {encoding, current, agreed} \subseteq Encodings
    BY DEF Encodings
  <2>5. {hello, ready, orderly, scrambled} \subseteq BOOLEAN
    OBVIOUS
  <2>6. Size \in BufferSize..MaxBufferSize /\ off \in 0..Size
    BY <2>1 DEF Size
  <2>7. body \in [Threads -> Message] /\ enc \in [Threads -> Encodings]
    BY <2>2 DEF Encodings
  <2>8. start \in 0..off /\ check \in start..off /\ calls \in 0..MaxCalls
    OBVIOUS
  <2>9. stream \in Seq(Byte) /\ taken \in 0..Len(stream)
    OBVIOUS
  <2>10. received \in Seq(Message \cup {ParseError}) /\ sent \in Seq(Message)
    OBVIOUS
  <2> QED
    BY <2>1, <2>3, <2>4, <2>5, <2>6, <2>7, <2>8, <2>9, <2>10 DEF TypeOK
<1>2. NothingStranded
  BY DEF NothingStranded
<1>3. UnreadIsStream
  BY DEF UnreadIsStream
<1>4. Searched
  BY DEF Searched
<1> QED
  BY <1>1, <1>2, <1>3, <1>4 DEF IInv

\* Writing a part makes epoll report what has been written, and moves
\* nothing that has been read.
LEMMA WriteKeeps ==
    ASSUME IInv, NEW part \in Seq(Byte), Write(part),
           UNCHANGED <<server, scrambled>>
    PROVE  /\ stream' \in Seq(Byte) /\ taken' \in 0..Len(stream')
           /\ ready' \in BOOLEAN
           /\ NothingStranded' /\ UnreadIsStream' /\ Searched'
<1> DEFINE n == Smaller(Len(part), Room)
<1>0. TypeOK
  BY DEF IInv
<1>1. stream \in Seq(Byte) /\ taken \in 0..Len(stream) /\ Len(part) \in Nat
  BY <1>0 DEF TypeOK
<1>2. Room \in Int /\ n \in Int /\ n <= Len(part)
  BY <1>1, SizesAssumption DEF Room, Smaller
<1> HIDE DEF n
<1>3. SubSeq(part, 1, n) \in Seq(Byte)
      /\ Len(SubSeq(part, 1, n)) = IF n > 0 THEN n ELSE 0
  BY <1>1, <1>2
<1>4. /\ stream' = stream \o SubSeq(part, 1, n)
      /\ ready' = (ready \/ n > 0) /\ taken' = taken
  BY DEF Write, n
<1>5. /\ stream' \in Seq(Byte)
      /\ Len(stream') = Len(stream) + IF n > 0 THEN n ELSE 0
      /\ \A j \in 1..Len(stream) : stream'[j] = stream[j]
  BY <1>1, <1>3, <1>4
<1>6. UNCHANGED <<io, buffer, start, off, check, current, received, scrambled>>
  BY DEF server
<1>7. NothingStranded'
  <2>1. CASE n > 0
    BY <1>4, <2>1 DEF NothingStranded
  <2>2. CASE ~ (n > 0)
    <3>1. Len(stream') = Len(stream)
      BY <1>1, <1>5, <2>2
    <3>2. ready' <=> ready
      BY <1>4, <2>2
    <3>3. Stuck' <=> Stuck
      BY <1>6 DEF Stuck, Full, Size
    <3> QED
      BY <1>4, <1>6, <3>1, <3>2, <3>3 DEF IInv, NothingStranded
  <2> QED
    BY <2>1, <2>2
<1>8. UnreadIsStream'
  BY <1>0, <1>1, <1>4, <1>5, <1>6 DEF IInv, UnreadIsStream, TypeOK
<1>9. Searched'
  BY <1>6 DEF IInv, Searched
<1> QED
  BY <1>1, <1>2, <1>4, <1>5, <1>7, <1>8, <1>9

\* Reading into a buffer that has room.
LEMMA FillKeeps ==
    ASSUME TypeOK,
           NEW b \in Seq(Byte), Len(b) \in BufferSize..MaxBufferSize,
           NEW o \in 0..Len(b) - 1, NEW s \in 0..o, NEW bad \in BOOLEAN,
           Fill(b, s, o, bad), UNCHANGED <<stream, ready, current>>,
           ~scrambled /\ ~bad =>
               /\ o - s <= taken
               /\ \A i \in s + 1..o : b[i] = stream[taken - o + i],
           current = "json" => \A i \in s + 1..o : b[i] # Newline
    PROVE  /\ buffer' \in Seq(Byte) /\ Len(buffer') = Len(b)
           /\ off' \in 0..Len(b) /\ start' \in 0..off'
           /\ check' \in start'..off' /\ taken' \in 0..Len(stream')
           /\ io' \in {"idle", "read", "scan"} /\ scrambled' \in BOOLEAN
           /\ NothingStranded' /\ UnreadIsStream' /\ Searched'
<1> DEFINE n == Smaller(Len(b) - o, Len(stream) - taken)
<1>1. /\ stream \in Seq(Byte) /\ taken \in 0..Len(stream)
      /\ scrambled \in BOOLEAN /\ Len(stream) \in Nat /\ Len(b) \in Nat
  BY SMTT(20), SizesAssumption DEF TypeOK
<1>2. /\ n \in 0..Len(b) - o /\ n <= Len(stream) - taken
      /\ n = 0 => taken = Len(stream)
  BY <1>1 DEF Smaller
<1> HIDE DEF n
<1>3. /\ buffer' = [i \in 1..Len(b) |->
                        IF i \in o + 1..o + n THEN stream[taken + i - o]
                        ELSE b[i]]
      /\ start' = s /\ check' = o /\ off' = o + n /\ taken' = taken + n
      /\ io' = IF n > 0 THEN "scan" ELSE "idle"
      /\ scrambled' = (scrambled \/ bad)
  BY DEF Fill, n
<1>4. ASSUME NEW i \in 1..Len(b) PROVE buffer'[i] \in Byte
  <2>1. b[i] \in Byte
    OBVIOUS
  <2>2. i \in o + 1..o + n => taken + i - o \in 1..Len(stream)
    BY <1>1, <1>2
  <2>3. i \in o + 1..o + n => stream[taken + i - o] \in Byte
    BY <1>1, <2>2
  <2>4. buffer'[i] = IF i \in o + 1..o + n THEN stream[taken + i - o] ELSE b[i]
    BY <1>3
  <2> QED
    BY <2>1, <2>3, <2>4, Zenon
<1>5. buffer' \in Seq(Byte) /\ Len(buffer') = Len(b)
  BY <1>1, <1>3, <1>4
<1>6. NothingStranded'
  BY <1>1, <1>2, <1>3 DEF NothingStranded
<1>7. UnreadIsStream'
  <2> SUFFICES ASSUME ~scrambled'
               PROVE  /\ off' - start' <= taken'
                      /\ \A i \in start' + 1..off' :
                            buffer'[i] = stream'[taken' - off' + i]
    BY DEF UnreadIsStream
  <2>1. /\ o - s <= taken
        /\ \A i \in s + 1..o : b[i] = stream[taken - o + i]
    BY <1>3, Zenon
  <2>2. off' - start' <= taken'
    BY <1>1, <1>2, <1>3, <2>1
  <2>3. ASSUME NEW i \in s + 1..o + n
        PROVE  buffer'[i] = stream[taken' - off' + i]
    <3>1. taken' - off' + i = taken - o + i
      BY <1>1, <1>2, <1>3
    <3>2. CASE i \in s + 1..o
      <4>1. buffer'[i] = b[i]
        BY <1>1, <1>2, <1>3, <3>2
      <4> QED
        BY <2>1, <3>1, <3>2, <4>1
    <3>3. CASE i \in o + 1..o + n
      <4>1. buffer'[i] = stream[taken + i - o]
        BY <1>1, <1>2, <1>3, <3>3
      <4> QED
        BY <1>1, <3>1, <3>3, <4>1
    <3> QED
      BY <1>2, <3>2, <3>3
  <2> QED
    BY <1>3, <2>2, <2>3
<1>8. Searched'
  BY <1>1, <1>2, <1>3 DEF Searched
<1> QED
  BY <1>1, <1>2, <1>3, <1>5, <1>6, <1>7, <1>8

\* Steps that leave the socket and the server alone.
LEMMA ClientAlone ==
    ASSUME IInv, UNCHANGED <<socket, server, scrambled>>
    PROVE  NothingStranded' /\ UnreadIsStream' /\ Searched'
<1>1. UNCHANGED <<stream, taken, ready, io, buffer, start, off, check, current,
                  received, scrambled>>
  BY DEF socket, server
<1> QED
  BY <1>1 DEF IInv, NothingStranded, UnreadIsStream, Searched, Stuck, Full,
              Size

LEMMA CallKeeps ==
    ASSUME IInv, NEW t \in Callers, NEW b \in Bodies, Call(t, b)
    PROVE  IInv'
<1>1. NothingStranded' /\ UnreadIsStream' /\ Searched'
  BY ClientAlone DEF Call
<1>2. TypeOK'
  <2>1. b \in Message /\ t \in Threads
    BY DEF Message, Threads
  <2>2. calls' \in 0..MaxCalls
    BY SizesAssumption DEF IInv, TypeOK, Call
  <2> QED
    BY <2>1, <2>2 DEF IInv, TypeOK, Call, socket, server, Size
<1> QED
  BY <1>1, <1>2 DEF IInv

LEMMA LoadKeeps ==
    ASSUME IInv, NEW t \in Threads, Load(t)
    PROVE  IInv'
<1>1. NothingStranded' /\ UnreadIsStream' /\ Searched'
  BY ClientAlone DEF Load, history
<1>2. TypeOK'
  BY DEF IInv, TypeOK, Load, socket, server, history, Size, Encodings
<1> QED
  BY <1>1, <1>2 DEF IInv

LEMMA FirstKeeps ==
    ASSUME IInv, NEW t \in Threads, First(t)
    PROVE  IInv'
<1> DEFINE part == FirstPart(enc[t], body[t])
<1>1. part \in Seq(Byte)
  BY PartsAreBytes DEF IInv, TypeOK
<1>2. Write(part) /\ UNCHANGED <<server, scrambled>>
  BY DEF First
<1> HIDE DEF part
<1>3. /\ stream' \in Seq(Byte) /\ taken' \in 0..Len(stream')
      /\ ready' \in BOOLEAN
      /\ NothingStranded' /\ UnreadIsStream' /\ Searched'
  BY <1>1, <1>2, WriteKeeps
<1>4. TypeOK'
  BY <1>3 DEF IInv, TypeOK, First, server, Size
<1> QED
  BY <1>3, <1>4 DEF IInv

LEMMA SecondKeeps ==
    ASSUME IInv, NEW t \in Threads, Second(t)
    PROVE  IInv'
<1> DEFINE part == SecondPart(enc[t], body[t])
<1>1. part \in Seq(Byte)
  BY PartsAreBytes DEF IInv, TypeOK
<1>2. Write(part) /\ UNCHANGED <<server, scrambled>>
  BY DEF Second
<1> HIDE DEF part
<1>3. /\ stream' \in Seq(Byte) /\ taken' \in 0..Len(stream')
      /\ ready' \in BOOLEAN
      /\ NothingStranded' /\ UnreadIsStream' /\ Searched'
  BY <1>1, <1>2, WriteKeeps
<1>4. TypeOK'
  <2>1. sent' \in Seq(Message)
    BY DEF IInv, TypeOK, Second
  <2> QED
    BY <1>3, <2>1 DEF IInv, TypeOK, Second, server, Size
<1> QED
  BY <1>3, <1>4 DEF IInv

LEMMA ReplyKeeps ==
    ASSUME IInv, SetEncoding \/ SetHello
    PROVE  IInv'
<1>1. NothingStranded' /\ UnreadIsStream' /\ Searched'
  BY ClientAlone DEF SetEncoding, SetHello, history
<1>2. TypeOK'
  BY DEF IInv, TypeOK, SetEncoding, SetHello, socket, server, history, Size
<1> QED
  BY <1>1, <1>2 DEF IInv

LEMMA WakeKeeps ==
    ASSUME IInv, Wake
    PROVE  IInv'
<1>1. TypeOK'
  BY DEF IInv, TypeOK, Wake, client, history, Size
<1>2. NothingStranded' /\ UnreadIsStream' /\ Searched'
  BY DEF IInv, NothingStranded, UnreadIsStream, Searched, Wake, history
<1> QED
  BY <1>1, <1>2 DEF IInv

\* The four ways to read: with room, after growing, and after moving the rest
\* forwards or backwards; or the buffer is at its limit.
LEMMA ReadKeeps ==
    ASSUME IInv, Read
    PROVE  IInv'
<1>0. /\ TypeOK /\ io = "read" /\ buffer \in Seq(Byte)
      /\ Size \in BufferSize..MaxBufferSize /\ Size = Len(buffer)
      /\ off \in 0..Size /\ start \in 0..off
      /\ BufferSize \in Nat \ {0} /\ MaxBufferSize \in Nat
      /\ Size \in Nat \ {0}
  BY SizesAssumption DEF IInv, TypeOK, Read, Size
<1>1. /\ UNCHANGED <<client, stream, ready, current, received, agreed, reply,
                      sent, orderly>>
  BY DEF Read
<1>2. /\ ~scrambled => /\ off - start <= taken
                       /\ \A i \in start + 1..off :
                             buffer[i] = stream[taken - off + i]
      /\ current = "json" => \A i \in start + 1..off : buffer[i] # Newline
  BY <1>0 DEF IInv, UnreadIsStream, Searched
<1>3. SUFFICES
        /\ buffer' \in Seq(Byte) /\ Len(buffer') \in BufferSize..MaxBufferSize
        /\ off' \in 0..Len(buffer') /\ start' \in 0..off'
        /\ check' \in start'..off' /\ taken' \in 0..Len(stream')
        /\ io' \in {"idle", "read", "scan"} /\ scrambled' \in BOOLEAN
        /\ NothingStranded' /\ UnreadIsStream' /\ Searched'
  BY <1>0, <1>1 DEF IInv, TypeOK, client, Size
<1>4. CASE ~Full /\ Fill(buffer, start, off, FALSE)
  <2>1. off \in 0..Len(buffer) - 1
    BY <1>0, <1>4 DEF Full
  <2> QED
    BY <1>0, <1>1, <1>2, <1>4, <2>1, FillKeeps
<1>5. CASE Full /\ start = 0 /\ ~Stuck /\ Fill(Grown, 0, off, FALSE)
  <2>1. Size < MaxBufferSize /\ off = Size
    BY <1>0, <1>5 DEF Stuck, Full
  <2>2. /\ Grown \in Seq(Byte)
        /\ Len(Grown) \in Size + 1..MaxBufferSize
        /\ \A i \in 1..Size : Grown[i] = buffer[i]
    BY <1>0, <2>1, BaseAssumption DEF Grown, Smaller, Byte
  <2> HIDE DEF Grown
  <2>3. /\ Len(Grown) \in BufferSize..MaxBufferSize
        /\ off \in 0..Len(Grown) - 1 /\ 0 \in 0..off
    BY <1>0, <2>1, <2>2
  <2>4. /\ ~scrambled => /\ off - 0 <= taken
                         /\ \A i \in 0 + 1..off :
                               Grown[i] = stream[taken - off + i]
        /\ current = "json" => \A i \in 0 + 1..off : Grown[i] # Newline
    BY <1>0, <1>2, <1>5, <2>1, <2>2
  <2> QED
    BY <1>0, <1>1, <1>5, <2>2, <2>3, <2>4, FillKeeps
<1>6. CASE Full /\ start > 0 /\ Fill(Moved, 0, off - start, FALSE)
  <2>1. off = Size
    BY <1>6 DEF Full
  <2>2. /\ Moved \in Seq(Byte) /\ Len(Moved) = Size
        /\ \A i \in 1..off - start : Moved[i] = buffer[start + i]
    BY <1>0, <2>1 DEF Moved
  <2> HIDE DEF Moved
  <2>3. off - start \in 0..Len(Moved) - 1 /\ 0 \in 0..off - start
    BY <1>0, <1>6, <2>1, <2>2
  <2>4. /\ ~scrambled => /\ (off - start) - 0 <= taken
                         /\ \A i \in 0 + 1..off - start :
                               Moved[i] = stream[taken - (off - start) + i]
        /\ current = "json" =>
              \A i \in 0 + 1..off - start : Moved[i] # Newline
    <3>1. \A i \in 0 + 1..off - start :
             /\ start + i \in start + 1..off
             /\ Moved[i] = buffer[start + i]
      BY <1>0, <2>2
    <3>2. ASSUME ~scrambled
          PROVE  /\ (off - start) - 0 <= taken
                 /\ \A i \in 0 + 1..off - start :
                       Moved[i] = stream[taken - (off - start) + i]
      <4>1. taken \in Nat
        BY <1>0 DEF TypeOK
      <4>2. \A i \in 0 + 1..off - start :
               taken - (off - start) + i = taken - off + (start + i)
        BY <1>0, <4>1
      <4> QED
        BY <1>0, <1>2, <3>1, <3>2, <4>1, <4>2
    <3>3. current = "json" =>
             \A i \in 0 + 1..off - start : Moved[i] # Newline
      BY <1>2, <3>1
    <3> QED
      BY <3>2, <3>3
  <2> QED
    BY <1>0, <1>1, <1>6, <2>2, <2>3, <2>4, FillKeeps
<1>7. CASE /\ Full /\ start > 0 /\ off - start > start
           /\ Fill(MovedBackwards, 0, off - start, TRUE)
  <2>1. off = Size
    BY <1>7 DEF Full
  <2>2. \A i \in 1..off - start :
           i + start * (1 + (off - start - i) \div start) \in start + 1..off
    <3> SUFFICES ASSUME NEW i \in 1..off - start
                 PROVE  i + start * (1 + (off - start - i) \div start)
                            \in start + 1..off
      OBVIOUS
    <3> DEFINE m == off - start - i
    <3>1. m \in Nat /\ start \in Nat /\ start > 0
      BY <1>0, <1>7
    <3> HIDE DEF m
    <3>2. /\ m \div start \in Nat
          /\ start * (m \div start) \in 0..m
          /\ start * (1 + m \div start) = start + start * (m \div start)
      BY <3>1, Z3
    <3> QED
      BY <1>0, <3>1, <3>2 DEF m
  <2>3. /\ MovedBackwards \in Seq(Byte) /\ Len(MovedBackwards) = Size
        /\ \A i \in 1..off - start :
              MovedBackwards[i] =
                  buffer[i + start * (1 + (off - start - i) \div start)]
    BY <1>0, <2>1, <2>2 DEF MovedBackwards
  <2> HIDE DEF MovedBackwards
  <2>4. off - start \in 0..Len(MovedBackwards) - 1 /\ 0 \in 0..off - start
    BY <1>0, <1>7, <2>1, <2>3
  <2>5. current = "json" =>
           \A i \in 0 + 1..off - start : MovedBackwards[i] # Newline
    BY SMTT(20), <1>0, <1>2, <2>2, <2>3
  <2> QED
    BY <1>0, <1>1, <1>7, <2>3, <2>4, <2>5, FillKeeps
<1>8. CASE /\ Stuck /\ io' = "idle"
           /\ UNCHANGED <<buffer, start, off, check, taken, scrambled>>
  <2>1. NothingStranded'
    BY <1>8 DEF NothingStranded, Stuck, Full, Size
  <2>2. UnreadIsStream' /\ Searched'
    BY <1>0, <1>1, <1>8 DEF IInv, UnreadIsStream, Searched
  <2> QED
    BY <1>0, <1>1, <1>8, <2>1, <2>2 DEF TypeOK
<1> QED
  BY <1>4, <1>5, <1>6, <1>7, <1>8 DEF Read

\* A message is taken from the bytes that have not been processed.
LEMMA DeliverKeeps ==
    ASSUME IInv, Deliver
    PROVE  IInv'
<1> DEFINE n == Complete
           m == ReadMessage(current, SubSeq(Unread, 1, Complete))
<1>0. /\ TypeOK /\ buffer \in Seq(Byte) /\ Size = Len(buffer) /\ Size \in Nat
      /\ off \in 0..Size /\ start \in 0..off /\ check \in start..off
      /\ current \in Encodings /\ taken \in Nat
  BY SizesAssumption DEF IInv, TypeOK, Size
<1>1. Unread \in Seq(Byte) /\ Len(Unread) = off - start
  BY <1>0 DEF Unread
<1>2. check - start \in 0..Len(Unread)
  BY <1>0, <1>1
<1>3. Complete \in 0..Len(Unread)
  BY <1>0, <1>1, <1>2, CompleteIsWithin DEF Complete
<1>4. m \in Message \cup {ParseError}
  BY Zenon DEF ReadMessage, Message
<1> HIDE DEF m, n
<1>5. /\ io = "scan" /\ n > 0 /\ received' = Append(received, m)
      /\ start' = start + n /\ check' = start'
      /\ current' \in Encodings /\ reply' \in {"none", "sent", "set", "done"}
      /\ UNCHANGED <<client, socket, io, buffer, off, agreed, history>>
  BY <1>0 DEF Deliver, HandleHello, TypeOK, n, m
<1>6. n \in 1..off - start
  BY <1>1, <1>3, <1>5 DEF n
<1>7. UNCHANGED <<io, buffer, off, taken, ready, stream, scrambled>>
  BY <1>5 DEF socket, history
<1>8. start' \in 0..off' /\ check' \in start'..off' /\ start' >= start
  BY <1>0, <1>5, <1>6, <1>7
<1>9. TypeOK'
  <2>1. received' \in Seq(Message \cup {ParseError})
    BY <1>0, <1>4, <1>5 DEF TypeOK
  <2>2. Size' = Size
    BY <1>7 DEF Size
  <2> QED
    BY <1>0, <1>5, <1>7, <1>8, <2>1, <2>2
    DEF TypeOK, client, socket, history
<1>10. NothingStranded'
  BY <1>5, <1>7 DEF NothingStranded
<1>11. UnreadIsStream'
  BY <1>0, <1>5, <1>7, <1>8 DEF IInv, UnreadIsStream
<1>12. Searched'
  BY <1>0, <1>5, <1>7, <1>8 DEF Searched
<1> QED
  BY <1>9, <1>10, <1>11, <1>12 DEF IInv

\* When no message is complete, all the bytes have been searched.
LEMMA ScanEndsKeeps ==
    ASSUME IInv, ScanEnds
    PROVE  IInv'
<1>0. /\ buffer \in Seq(Byte) /\ Size = Len(buffer) /\ Size \in Nat
      /\ off \in 0..Size /\ start \in 0..off /\ check \in start..off
  BY SizesAssumption DEF IInv, TypeOK, Size
<1>1. /\ io = "scan" /\ io' \in {"read", "endless"} /\ Complete = 0
      /\ UNCHANGED <<client, socket, buffer, start, off, check, current,
                     received, agreed, reply, history>>
  BY DEF ScanEnds
<1>2. TypeOK'
  BY <1>1 DEF IInv, TypeOK, client, socket, history, Size
<1>3. NothingStranded' /\ UnreadIsStream'
  BY <1>1 DEF IInv, NothingStranded, UnreadIsStream, socket, history
<1>4. Searched'
  <2> SUFFICES ASSUME current = "json", NEW i \in start + 1..off
               PROVE  buffer[i] # Newline
    BY <1>1 DEF Searched
  <2>1. CASE i <= check
    BY <1>0, <1>1, <2>1 DEF IInv, Searched
  <2>2. CASE i > check
    <3>1. /\ Unread \in Seq(Byte) /\ Len(Unread) = off - start
          /\ \A j \in 1..off - start : Unread[j] = buffer[start + j]
      <4>1. start + 1 \in 1..Len(buffer) + 1 /\ off \in 0..Len(buffer)
        BY <1>0
      <4>2. Len(SubSeq(buffer, start + 1, off)) = off - start
        BY <1>0, <4>1
      <4>3. ASSUME NEW j \in 1..off - start
            PROVE  SubSeq(buffer, start + 1, off)[j] = buffer[start + j]
        BY <1>0, <4>1, <4>2, <4>3
      <4> QED
        BY <1>0, <4>2, <4>3 DEF Unread
    <3>2. check - start \in 0..Len(Unread)
      BY <1>0, <3>1
    <3>3. \A j \in check - start + 1..Len(Unread) : Unread[j] # Newline
      BY <1>1, <3>1, <3>2, NoneComplete DEF Complete
    <3>4. /\ i - start \in check - start + 1..Len(Unread)
          /\ i - start \in 1..off - start /\ start + (i - start) = i
      BY <1>0, <2>2, <3>1
    <3>5. Unread[i - start] = buffer[start + (i - start)]
      BY <3>1, <3>4
    <3> QED
      BY <3>3, <3>4, <3>5
  <2> QED
    BY <1>0, <2>1, <2>2
<1> QED
  BY <1>2, <1>3, <1>4 DEF IInv

LEMMA NextIInv == IInv /\ [Next]_vars => IInv'
<1> SUFFICES ASSUME IInv, [Next]_vars PROVE IInv'
  OBVIOUS
<1>1. CASE \E t \in Callers, b \in Bodies : Call(t, b)
  BY <1>1, CallKeeps
<1>2. CASE \E t \in Threads : Send(t)
  BY <1>2, LoadKeeps, FirstKeeps, SecondKeeps DEF Send
<1>3. CASE SetEncoding \/ SetHello
  BY <1>3, ReplyKeeps
<1>4. CASE Wake
  BY <1>4, WakeKeeps
<1>5. CASE Read
  BY <1>5, ReadKeeps
<1>6. CASE Deliver
  BY <1>6, DeliverKeeps
<1>7. CASE ScanEnds
  BY <1>7, ScanEndsKeeps
<1>8. CASE UNCHANGED vars
  <2>1. UNCHANGED <<client, socket, server, agreed, reply, history>>
    BY <1>8 DEF vars
  <2>2. NothingStranded' /\ UnreadIsStream' /\ Searched'
    BY <2>1, ClientAlone DEF history
  <2>3. TypeOK'
    BY <2>1 DEF IInv, TypeOK, client, socket, server, history, Size
  <2> QED
    BY <2>2, <2>3 DEF IInv
<1> QED
  BY <1>1, <1>2, <1>3, <1>4, <1>5, <1>6, <1>7, <1>8 DEF Next, Io

LEMMA AlwaysIInv == Spec => []IInv
<1> QED
  BY InitIInv, NextIInv, PTL DEF Spec, Safety

-----------------------------------------------------------------------------
(* The order of the messages.                                              *)

\* .hello is written in json, what follows in the encoding that was agreed.
EncodingOf(i) == IF i = 1 THEN "json" ELSE agreed
Piece(i) == Whole(EncodingOf(i), sent[i])

\* ends[i] is the number of bytes of the first i messages.
AreEnds(ends) ==
    /\ ends \in [0..Len(sent) -> Nat]
    /\ ends[0] = 0
    /\ \A i \in 1..Len(sent) : ends[i] = ends[i - 1] + Len(Piece(i))

\* The socket has got the messages one behind the other, and the first part
\* of the one that is being written.
StreamIsMessages(ends) ==
    /\ \A i \in 1..Len(sent) : \A j \in 1..Len(Piece(i)) :
          stream[ends[i - 1] + j] = Piece(i)[j]
    /\ \A t \in Threads : wpc[t] = "second" =>
          LET part == FirstPart(enc[t], body[t])
          IN  /\ Len(stream) = ends[Len(sent)] + Len(part)
              /\ \A j \in 1..Len(part) : stream[ends[Len(sent)] + j] = part[j]
    /\ (\A t \in Threads : wpc[t] # "second") => Len(stream) = ends[Len(sent)]

\* What has been handled are the first messages, and what is in the buffer
\* begins where they end.
ServerFollows(ends) ==
    /\ Len(received) <= Len(sent)
    /\ \A i \in 1..Len(received) : received[i] = sent[i]
    /\ taken - (off - start) = ends[Len(received)]
    /\ current = EncodingOf(Len(received) + 1)

\* The first message is .hello, no other one is, and the reply to it comes
\* before any other message.
HelloComesFirst ==
    /\ \A i \in 1..Len(sent) : sent[i] = Hello <=> i = 1
    /\ wpc[Opener] # "idle" => sent = <<>> /\ body[Opener] = Hello
    /\ received = <<>> <=> reply = "none"
    /\ reply = "none" => encoding = "json"
    /\ reply \in {"set", "done"} => encoding = agreed
    /\ \A t \in Callers : wpc[t] # "idle" => reply = "done" /\ body[t] \in Bodies

\* Writers use the encoding that the server expects, one after the other, and
\* a line is not longer than the largest buffer.
WritersAgree ==
    /\ \A t \in Threads : wpc[t] \in {"first", "second"} =>
          /\ enc[t] = EncodingOf(Len(sent) + 1)
          /\ enc[t] = "json" => Len(body[t]) + 1 <= MaxBufferSize
    /\ \A i \in 1..Len(sent) :
          EncodingOf(i) = "json" => Len(sent[i]) + 1 <= MaxBufferSize
    /\ \A t, u \in Threads : wpc[t] = "second" /\ wpc[u] = "second" => t = u

Messages(ends) ==
    AreEnds(ends) /\ StreamIsMessages(ends) /\ ServerFollows(ends)

Ordered ==
    orderly /\ ~scrambled =>
        HelloComesFirst /\ WritersAgree /\ \E ends : Messages(ends)

LEMMA InitOrdered == Init => Ordered
<1> SUFFICES ASSUME Init PROVE Ordered
  OBVIOUS
<1>1. /\ sent = <<>> /\ received = <<>> /\ stream = <<>> /\ taken = 0
      /\ off = 0 /\ start = 0 /\ current = "json" /\ encoding = "json"
      /\ reply = "none" /\ body = [t \in Threads |-> Hello]
      /\ wpc = [t \in Threads |-> IF t = Opener THEN "load" ELSE "idle"]
  BY DEF Init
<1>2. HelloComesFirst
  BY <1>1, OpenerAssumption DEF HelloComesFirst, Threads
<1>3. WritersAgree
  BY <1>1 DEF WritersAgree
<1> DEFINE ends == [i \in 0..0 |-> 0]
<1>4. ends \in [0..0 -> Nat] /\ ends[0] = 0
  OBVIOUS
<1> HIDE DEF ends
<1>5. AreEnds(ends)
  BY <1>1, <1>4 DEF AreEnds
<1>6. StreamIsMessages(ends)
  BY <1>1, <1>4 DEF StreamIsMessages
<1>7. ServerFollows(ends)
  BY <1>1, <1>4 DEF ServerFollows, EncodingOf
<1> QED
  BY <1>2, <1>3, <1>5, <1>6, <1>7 DEF Ordered, Messages

\* The messages lie one behind the other.
LEMMA EndsGrow ==
    ASSUME TypeOK, NEW ends, AreEnds(ends), NEW i \in 1..Len(sent)
    PROVE  /\ ends[i - 1] \in Nat /\ ends[i] \in Nat
           /\ Len(Piece(i)) \in Nat \ {0}
           /\ ends[i - 1] + Len(Piece(i)) <= ends[Len(sent)]
<1>1. Len(sent) \in Nat /\ sent \in Seq(Message)
  BY DEF TypeOK
<1>2. \A k \in 1..Len(sent) :
        /\ ends[k - 1] \in Nat /\ ends[k] \in Nat /\ Len(Piece(k)) \in Nat \ {0}
        /\ ends[k] = ends[k - 1] + Len(Piece(k))
  <2> SUFFICES ASSUME NEW k \in 1..Len(sent)
               PROVE  /\ ends[k - 1] \in Nat /\ ends[k] \in Nat
                      /\ Len(Piece(k)) \in Nat \ {0}
                      /\ ends[k] = ends[k - 1] + Len(Piece(k))
    OBVIOUS
  <2>1. sent[k] \in Message
    BY <1>1
  <2>2. Len(Piece(k)) \in Nat \ {0}
    BY <2>1, WholeIsBytes DEF Piece
  <2>3. k - 1 \in 0..Len(sent) /\ k \in 0..Len(sent)
    BY <1>1
  <2> QED
    BY <2>2, <2>3 DEF AreEnds
\* The least number of messages behind i that are too short.
<1> DEFINE Bad == {k \in i..Len(sent) : ~ (ends[i] <= ends[k])}
<1>3. Bad = {}
  <2> SUFFICES ASSUME Bad # {} PROVE FALSE
    OBVIOUS
  <2>1. Bad \subseteq Nat
    BY <1>1
  <2>2. PICK k \in Bad : \A l \in Bad : k <= l
    <3> HIDE DEF Bad
    <3> QED
      BY <2>1, LeastIsThere
  <2>3. k \in i..Len(sent) /\ ~ (ends[i] <= ends[k]) /\ k # i
    BY <1>2
  <2>4. k - 1 \in i..Len(sent) /\ k - 1 \notin Bad /\ k \in 1..Len(sent)
    BY <1>1, <2>1, <2>2, <2>3
  <2>5. ends[i] <= ends[k - 1]
    BY <2>4
  <2>6. /\ ends[i] \in Nat /\ ends[k - 1] \in Nat /\ Len(Piece(k)) \in Nat
        /\ ends[k] = ends[k - 1] + Len(Piece(k))
    BY <1>2, <2>4
  <2>7. ends[i] <= ends[k - 1] + Len(Piece(k))
    BY <2>5, <2>6
  <2> QED
    BY <2>3, <2>6, <2>7
<1>4. Len(sent) \in i..Len(sent)
  BY <1>1
<1>5. ends[i] <= ends[Len(sent)]
  BY <1>3, <1>4
<1> QED
  BY <1>2, <1>5

\* Steps that write nothing and handle nothing.
LEMMA MessagesStay ==
    ASSUME NEW ends, Messages(ends),
           UNCHANGED <<agreed, sent, stream, received, current>>,
           taken' - (off' - start') = taken - (off - start),
           \A t \in Threads :
              /\ wpc'[t] = "second" <=> wpc[t] = "second"
              /\ wpc[t] = "second" => enc'[t] = enc[t] /\ body'[t] = body[t]
    PROVE  Messages(ends)'
<1>1. \A i : EncodingOf(i)' = EncodingOf(i) /\ Piece(i)' = Piece(i)
  BY DEF EncodingOf, Piece
<1>2. AreEnds(ends)'
  BY <1>1 DEF Messages, AreEnds
<1>3. StreamIsMessages(ends)'
  BY <1>1 DEF Messages, StreamIsMessages
<1>4. ServerFollows(ends)'
  BY <1>1 DEF Messages, ServerFollows
<1> QED
  BY <1>2, <1>3, <1>4 DEF Messages

\* A thread that sends finds the encoding that the server will expect.
LEMMA EncodingNow ==
    ASSUME TypeOK, HelloComesFirst, NEW ends, Messages(ends),
           NEW t \in Threads, wpc[t] # "idle"
    PROVE  /\ encoding = EncodingOf(Len(sent) + 1)
           /\ t = Opener => Len(sent) = 0 /\ body[t] = Hello
           /\ t # Opener => t \in Callers /\ Len(sent) > 0 /\ body[t] \in Bodies
<1>1. /\ Len(sent) \in Nat /\ Len(received) \in Nat /\ Len(received) <= Len(sent)
      /\ sent \in Seq(Message) /\ received \in Seq(Message \cup {ParseError})
      /\ received = <<>> <=> Len(received) = 0
  BY DEF TypeOK, Messages, ServerFollows
<1>2. CASE t = Opener
  <2>1. sent = <<>> /\ body[t] = Hello
    BY <1>2 DEF HelloComesFirst
  <2>2. received = <<>> /\ Len(sent) = 0
    BY <1>1, <2>1
  <2> QED
    BY <1>2, <2>1, <2>2 DEF HelloComesFirst, EncodingOf
<1>3. CASE t # Opener
  <2>1. t \in Callers
    BY <1>3 DEF Threads
  <2>2. reply = "done" /\ body[t] \in Bodies
    BY <2>1 DEF HelloComesFirst
  <2>3. received # <<>> /\ encoding = agreed
    BY <2>2 DEF HelloComesFirst
  <2>4. Len(sent) > 0 /\ Len(sent) + 1 # 1
    BY <1>1, <2>3
  <2> QED
    BY <1>3, <2>1, <2>2, <2>3, <2>4 DEF EncodingOf
<1> QED
  BY <1>2, <1>3

LEMMA CallOrdered ==
    ASSUME IInv, Ordered, NEW t \in Callers, NEW b \in Bodies, Call(t, b)
    PROVE  Ordered'
<1> SUFFICES ASSUME orderly', ~ scrambled' PROVE
        HelloComesFirst' /\ WritersAgree' /\ \E ends : Messages(ends)'
  BY DEF Ordered
<1>1. /\ orderly /\ ~ scrambled /\ reply = "done"
      /\ UNCHANGED <<encoding, hello, enc, stream, taken, ready, io, buffer, start,
                     off, check, current, received, agreed, reply, sent>>
      /\ wpc[t] = "idle" /\ wpc' = [wpc EXCEPT ![t] = "load"]
      /\ body' = [body EXCEPT ![t] = b]
  BY DEF Call, socket, server
<1>2. HelloComesFirst /\ WritersAgree /\ \E ends : Messages(ends)
  BY <1>1 DEF Ordered
<1>3. /\ wpc \in [Threads -> {"idle", "load", "first", "second"}]
      /\ body \in [Threads -> Message] /\ t \in Threads /\ t # Opener
      /\ Opener \in Threads
  BY OpenerAssumption DEF IInv, TypeOK, Threads
<1>4. /\ \A u \in Threads : u # t => wpc'[u] = wpc[u] /\ body'[u] = body[u]
      /\ wpc'[t] = "load" /\ body'[t] = b
  BY <1>1, <1>3
<1>5. HelloComesFirst'
  <2>1. \A u \in Callers : u \in Threads
    BY DEF Threads
  <2> QED
    BY <1>1, <1>2, <1>3, <1>4, <2>1 DEF HelloComesFirst
<1>6. WritersAgree'
  BY <1>1, <1>2, <1>3, <1>4 DEF WritersAgree, EncodingOf
<1>7. \E ends : Messages(ends)'
  <2>1. PICK ends : Messages(ends)
    BY <1>2
  <2> QED
    BY <1>1, <1>3, <1>4, <2>1, MessagesStay
<1> QED
  BY <1>5, <1>6, <1>7

LEMMA LoadOrdered ==
    ASSUME IInv, Ordered, NEW t \in Threads, Load(t)
    PROVE  Ordered'
<1> SUFFICES ASSUME orderly', ~ scrambled' PROVE
        HelloComesFirst' /\ WritersAgree' /\ \E ends : Messages(ends)'
  BY DEF Ordered
<1>1. /\ orderly /\ ~ scrambled
      /\ UNCHANGED <<encoding, hello, body, stream, taken, ready, io, buffer, start,
                     off, check, current, received, agreed, reply, sent>>
      /\ wpc[t] = "load"
      /\ wpc' = [wpc EXCEPT ![t] = IF TooBig(t) THEN "idle" ELSE "first"]
      /\ enc' = [enc EXCEPT ![t] = encoding]
  BY DEF Load, socket, server, history
<1>2. HelloComesFirst /\ WritersAgree /\ \E ends : Messages(ends)
  BY <1>1 DEF Ordered
<1>3. PICK ends : Messages(ends)
  BY <1>2
<1>4. /\ wpc \in [Threads -> {"idle", "load", "first", "second"}]
      /\ enc \in [Threads -> Encodings] /\ Opener \in Threads
      /\ \A u \in Callers : u \in Threads
  BY DEF IInv, TypeOK, Threads
<1>5. /\ \A u \in Threads : u # t => wpc'[u] = wpc[u] /\ enc'[u] = enc[u]
      /\ wpc'[t] = IF TooBig(t) THEN "idle" ELSE "first"
      /\ enc'[t] = encoding
  BY <1>1, <1>4
<1>6. HelloComesFirst'
  BY <1>1, <1>2, <1>4, <1>5 DEF HelloComesFirst
<1>7. encoding = EncodingOf(Len(sent) + 1)
  BY <1>1, <1>2, <1>3, EncodingNow DEF IInv
<1>8. wpc'[t] = "first" /\ encoding = "json" => Len(body[t]) + 1 <= MaxBufferSize
  <2> SUFFICES ASSUME wpc'[t] = "first", encoding = "json"
               PROVE  ~ (Len(body[t]) + 1 > MaxBufferSize)
    <3>1. Len(body[t]) \in Nat /\ MaxBufferSize \in Nat
      BY WholeOfJson, SizesAssumption DEF IInv, TypeOK
    <3> QED
      BY <3>1
  <2> QED
    BY <1>5 DEF TooBig
<1>9. WritersAgree'
  <2>1. \A i : EncodingOf(i)' = EncodingOf(i)
    BY <1>1 DEF EncodingOf
  <2> QED
    BY <1>1, <1>2, <1>5, <1>7, <1>8, <2>1 DEF WritersAgree
<1>10. Messages(ends)'
  BY <1>1, <1>3, <1>5, MessagesStay
<1> QED
  BY <1>6, <1>9, <1>10

LEMMA ReplyOrdered ==
    ASSUME IInv, Ordered, SetEncoding \/ SetHello
    PROVE  Ordered'
<1> SUFFICES ASSUME orderly', ~ scrambled' PROVE
        HelloComesFirst' /\ WritersAgree' /\ \E ends : Messages(ends)'
  BY DEF Ordered
<1>1. /\ orderly /\ ~ scrambled
      /\ UNCHANGED <<wpc, body, enc, stream, taken, ready, io, buffer, start,
                     off, check, current, received, agreed, sent>>
      /\ \/ reply = "sent" /\ encoding' = agreed /\ reply' = "set"
         \/ reply = "set" /\ encoding' = encoding /\ reply' = "done"
  <2>1. CASE SetEncoding
    BY <2>1 DEF SetEncoding, socket, server, history
  <2>2. CASE SetHello
    BY <2>2 DEF SetHello, socket, server, history
  <2> QED
    BY <2>1, <2>2
<1>2. HelloComesFirst /\ WritersAgree /\ \E ends : Messages(ends)
  BY <1>1 DEF Ordered
<1>3. HelloComesFirst'
  BY <1>1, <1>2 DEF HelloComesFirst
<1>4. WritersAgree'
  BY <1>1, <1>2 DEF WritersAgree, EncodingOf
<1>5. \E ends : Messages(ends)'
  BY <1>1, <1>2, MessagesStay
<1> QED
  BY <1>3, <1>4, <1>5

\* What write() has appended when there was room for all of it.
LEMMA AllWritten ==
    ASSUME TypeOK, NEW part \in Seq(Byte), Write(part), Fits(part)
    PROVE  /\ Len(stream') = Len(stream) + Len(part)
           /\ \A j \in 1..Len(stream) : stream'[j] = stream[j]
           /\ \A j \in 1..Len(part) : stream'[Len(stream) + j] = part[j]
           /\ taken' = taken
<1>1. /\ stream \in Seq(Byte) /\ taken \in 0..Len(stream) /\ Len(part) \in Nat
      /\ Room \in Int
  BY SizesAssumption DEF TypeOK, Room
<1>2. Smaller(Len(part), Room) = Len(part)
  BY <1>1 DEF Fits, Smaller
<1>3. SubSeq(part, 1, Len(part)) = part
  OBVIOUS
<1>4. stream' = stream \o part /\ taken' = taken
  BY <1>2, <1>3 DEF Write
<1> QED
  BY <1>1, <1>4

LEMMA FirstOrdered ==
    ASSUME IInv, Ordered, NEW t \in Threads, First(t)
    PROVE  Ordered'
<1> SUFFICES ASSUME orderly', ~ scrambled' PROVE
        HelloComesFirst' /\ WritersAgree' /\ \E ends : Messages(ends)'
  BY DEF Ordered
<1> DEFINE part == FirstPart(enc[t], body[t])
<1>1. /\ orderly /\ Fits(part) /\ \A u \in Threads : wpc[u] # "second"
      /\ ~ scrambled /\ Write(part)
      /\ UNCHANGED <<encoding, hello, body, enc, io, buffer, start, off, check,
                     current, received, agreed, reply, sent>>
      /\ wpc[t] = "first" /\ wpc' = [wpc EXCEPT ![t] = "second"]
  BY DEF First, server
<1>2. HelloComesFirst /\ WritersAgree
  BY <1>1 DEF Ordered
<1>3. PICK ends : Messages(ends)
  BY <1>1 DEF Ordered
<1>4. /\ wpc \in [Threads -> {"idle", "load", "first", "second"}]
      /\ body \in [Threads -> Message] /\ Opener \in Threads
      /\ \A u \in Callers : u \in Threads
      /\ TypeOK
  BY DEF IInv, TypeOK, Threads
<1>5. /\ \A u \in Threads : u # t => wpc'[u] = wpc[u]
      /\ wpc'[t] = "second"
  BY <1>1, <1>4
<1>6. part \in Seq(Byte)
  BY <1>4, PartsAreBytes
<1>7. /\ Len(stream') = Len(stream) + Len(part)
      /\ \A j \in 1..Len(stream) : stream'[j] = stream[j]
      /\ \A j \in 1..Len(part) : stream'[Len(stream) + j] = part[j]
      /\ taken' = taken
  BY <1>1, <1>4, <1>6, AllWritten
<1> HIDE DEF part
<1>8. HelloComesFirst'
  BY <1>1, <1>2, <1>4, <1>5 DEF HelloComesFirst
<1>9. \A i : EncodingOf(i)' = EncodingOf(i) /\ Piece(i)' = Piece(i)
  BY <1>1 DEF EncodingOf, Piece
<1>10. WritersAgree'
  <2>1. \A u \in Threads : wpc'[u] = "second" => u = t
    BY <1>1, <1>5
  <2>2. \A u \in Threads :
          wpc'[u] \in {"first", "second"} => wpc[u] \in {"first", "second"}
    BY <1>1, <1>5
  <2> QED
    BY <1>1, <1>2, <1>9, <2>1, <2>2 DEF WritersAgree
<1>11. AreEnds(ends)'
  BY <1>1, <1>3, <1>9 DEF Messages, AreEnds
<1>12. StreamIsMessages(ends)'
  <2>1. Len(stream) = ends[Len(sent)]
    BY <1>1, <1>3 DEF Messages, StreamIsMessages
  <2>2. ASSUME NEW i \in 1..Len(sent), NEW j \in 1..Len(Piece(i))
        PROVE  stream'[ends[i - 1] + j] = Piece(i)[j]
    <3>1. ends[i - 1] + j \in 1..Len(stream)
      <4>1. /\ ends[i - 1] \in Nat /\ Len(Piece(i)) \in Nat \ {0}
            /\ ends[i - 1] + Len(Piece(i)) <= ends[Len(sent)]
        BY <1>3, <1>4, EndsGrow DEF Messages
      <4>2. Len(stream) \in Nat
        BY <1>4 DEF TypeOK
      <4> QED
        BY <2>1, <4>1, <4>2
    <3> QED
      BY <1>3, <1>7, <3>1 DEF Messages, StreamIsMessages
  <2>3. /\ Len(stream') = ends[Len(sent)] + Len(part)
        /\ \A j \in 1..Len(part) : stream'[ends[Len(sent)] + j] = part[j]
    BY <1>7, <2>1
  <2>4. \A u \in Threads : wpc'[u] = "second" => u = t
    BY <1>1, <1>5
  <2> QED
    BY <1>1, <1>5, <1>9, <2>2, <2>3, <2>4 DEF StreamIsMessages, part
<1>13. ServerFollows(ends)'
  BY <1>1, <1>3, <1>7, <1>9 DEF Messages, ServerFollows
<1> QED
  BY <1>8, <1>10, <1>11, <1>12, <1>13 DEF Messages

LEMMA SecondOrdered ==
    ASSUME IInv, Ordered, NEW t \in Threads, Second(t)
    PROVE  Ordered'
<1> SUFFICES ASSUME orderly', ~ scrambled' PROVE
        HelloComesFirst' /\ WritersAgree' /\ \E ends : Messages(ends)'
  BY DEF Ordered
<1> DEFINE one == FirstPart(enc[t], body[t])
           two == SecondPart(enc[t], body[t])
<1>0. PICK n : n = Len(sent)
  OBVIOUS
<1>1. /\ orderly /\ Fits(two) /\ ~ scrambled /\ Write(two)
      /\ UNCHANGED <<encoding, hello, body, enc, io, buffer, start, off, check,
                     current, received, agreed, reply>>
      /\ wpc[t] = "second" /\ wpc' = [wpc EXCEPT ![t] = "idle"]
      /\ sent' = Append(sent, body[t])
  BY DEF Second, server
<1>2. HelloComesFirst /\ WritersAgree
  BY <1>1 DEF Ordered
<1>3. PICK ends : Messages(ends)
  BY <1>1 DEF Ordered
<1>4. /\ wpc \in [Threads -> {"idle", "load", "first", "second"}]
      /\ body[t] \in Message /\ Opener \in Threads
      /\ \A u \in Callers : u \in Threads
      /\ TypeOK /\ sent \in Seq(Message) /\ n \in Nat /\ Len(received) \in Nat
      /\ Len(stream) \in Nat
  BY <1>0 DEF IInv, TypeOK, Threads
<1>5. /\ \A u \in Threads : u # t => wpc'[u] = wpc[u]
      /\ wpc'[t] = "idle"
  BY <1>1, <1>4
<1>6. one \in Seq(Byte) /\ two \in Seq(Byte)
  BY <1>4, PartsAreBytes
<1>7. /\ Len(stream') = Len(stream) + Len(two)
      /\ \A j \in 1..Len(stream) : stream'[j] = stream[j]
      /\ \A j \in 1..Len(two) : stream'[Len(stream) + j] = two[j]
      /\ taken' = taken
  BY <1>1, <1>4, <1>6, AllWritten
<1>8. /\ Len(sent') = n + 1 /\ sent'[n + 1] = body[t]
      /\ \A i \in 1..n : sent'[i] = sent[i]
  BY <1>0, <1>1, <1>4
<1>9. /\ t = Opener => n = 0 /\ body[t] = Hello
      /\ t # Opener => t \in Callers /\ n > 0 /\ body[t] \in Bodies
  BY <1>0, <1>1, <1>2, <1>3, <1>4, EncodingNow
<1>10. enc[t] = EncodingOf(n + 1)
  BY <1>0, <1>1, <1>2 DEF WritersAgree
<1>11. /\ \A i : EncodingOf(i)' = EncodingOf(i)
       /\ \A i \in 1..n : Piece(i)' = Piece(i)
  BY <1>1, <1>8 DEF EncodingOf, Piece
<1>12. Piece(n + 1)' = one \o two
  BY <1>1, <1>8, <1>10, <1>11 DEF Piece, Whole
<1> HIDE DEF one, two
<1>13. HelloComesFirst'
  <2>1. \A i \in 1..n + 1 : sent'[i] = Hello <=> i = 1
    <3>1. body[t] \in Bodies => body[t] # Hello
      BY BodiesAssumption
    <3>2. \A i \in 1..n : sent[i] = Hello <=> i = 1
      BY <1>0, <1>2 DEF HelloComesFirst
    <3> QED
      BY <1>4, <1>8, <1>9, <3>1, <3>2
  <2>2. wpc'[Opener] = "idle"
    <3>1. CASE t = Opener
      BY <1>5, <3>1
    <3>2. CASE t # Opener
      <4>1. sent # <<>>
        BY <1>0, <1>4, <1>9, <3>2
      <4> QED
        BY <1>2, <1>4, <1>5, <3>2, <4>1 DEF HelloComesFirst
    <3> QED
      BY <3>1, <3>2
  <2>3. \A u \in Callers : wpc'[u] # "idle" => reply = "done" /\ body[u] \in Bodies
    BY <1>2, <1>4, <1>5 DEF HelloComesFirst
  <2> QED
    BY <1>0, <1>1, <1>2, <1>8, <2>1, <2>2, <2>3 DEF HelloComesFirst
<1>14. WritersAgree'
  <2>1. ASSUME NEW u \in Threads, wpc'[u] \in {"first", "second"}
        PROVE  /\ u # t /\ wpc[u] = wpc'[u]
               /\ enc[u] = EncodingOf(n + 2)
               /\ enc[u] = "json" => Len(body[u]) + 1 <= MaxBufferSize
    <3>1. u # t /\ wpc[u] = wpc'[u]
      BY <1>5, <2>1
    <3>2. /\ u = Opener => n = 0
          /\ u # Opener => n > 0
      BY <1>0, <1>2, <1>3, <1>4, <2>1, <3>1, EncodingNow
    <3>3. n > 0
      BY <1>9, <3>1, <3>2
    <3>4. EncodingOf(n + 1) = EncodingOf(n + 2)
      BY <1>4, <3>3 DEF EncodingOf
    <3> QED
      BY <1>0, <1>2, <2>1, <3>1, <3>4 DEF WritersAgree
  <2>2. \A i \in 1..n + 1 :
          EncodingOf(i) = "json" => Len(sent'[i]) + 1 <= MaxBufferSize
    <3>1. \A i \in 1..n :
            EncodingOf(i) = "json" => Len(sent[i]) + 1 <= MaxBufferSize
      BY <1>0, <1>2 DEF WritersAgree
    <3>2. EncodingOf(n + 1) = "json" => Len(body[t]) + 1 <= MaxBufferSize
      BY <1>1, <1>2, <1>10 DEF WritersAgree
    <3> QED
      BY <1>4, <1>8, <3>1, <3>2
  <2>3. (n + 1) + 1 = n + 2
    BY <1>4
  <2>4. \A u, v \in Threads : wpc'[u] = "second" /\ wpc'[v] = "second" => u = v
    BY <1>2, <2>1 DEF WritersAgree
  <2>5. \A u \in Threads : wpc'[u] \in {"first", "second"} =>
          /\ enc'[u] = EncodingOf(Len(sent') + 1)
          /\ enc'[u] = "json" => Len(body'[u]) + 1 <= MaxBufferSize
    BY <1>1, <1>8, <2>1, <2>3
  <2>6. \A i \in 1..Len(sent') :
          EncodingOf(i) = "json" => Len(sent'[i]) + 1 <= MaxBufferSize
    BY <1>8, <2>2
  <2> QED
    BY <1>11, <2>4, <2>5, <2>6 DEF WritersAgree
<1>15. PICK w : w = one \o two
  OBVIOUS
<1>16. /\ Len(w) = Len(one) + Len(two) /\ Len(one) \in Nat /\ Len(two) \in Nat
       /\ \A j \in 1..Len(one) : w[j] = one[j]
       /\ \A j \in 1..Len(two) : w[Len(one) + j] = two[j]
  BY <1>6, <1>15
<1>17. /\ ends \in [0..n -> Nat] /\ ends[0] = 0
       /\ \A i \in 1..n : ends[i] = ends[i - 1] + Len(Piece(i))
       /\ Len(stream) = ends[n] + Len(one)
       /\ \A j \in 1..Len(one) : stream[ends[n] + j] = one[j]
       /\ \A i \in 1..n : \A j \in 1..Len(Piece(i)) :
             stream[ends[i - 1] + j] = Piece(i)[j]
  BY <1>0, <1>1, <1>3 DEF Messages, AreEnds, StreamIsMessages, one
<1>22. PICK more : more = [i \in 0..n + 1 |->
                            IF i = n + 1 THEN ends[n] + Len(w) ELSE ends[i]]
  OBVIOUS
<1>18. /\ more \in [0..n + 1 -> Nat] /\ more[n + 1] = ends[n] + Len(w)
       /\ \A i \in 0..n : more[i] = ends[i]
       /\ ends[n] \in Nat
  BY <1>4, <1>16, <1>17, <1>22
<1>19. AreEnds(more)'
  <2>1. \A i \in 1..n + 1 : more[i] = more[i - 1] + Len(Piece(i)')
    <3>1. \A i \in 1..n : more[i] = more[i - 1] + Len(Piece(i)')
      <4>1. \A i \in 1..n : i - 1 \in 0..n /\ i \in 0..n
        BY <1>4
      <4> QED
        BY <1>11, <1>17, <1>18, <4>1
    <3>2. more[n + 1] = more[n] + Len(Piece(n + 1)') /\ (n + 1) - 1 = n
      <4>1. Piece(n + 1)' = w
        BY <1>12, <1>15
      <4>2. (n + 1) - 1 = n /\ n \in 0..n
        BY <1>4
      <4> QED
        BY <1>18, <4>1, <4>2
    <3>3. \A i \in 1..n + 1 : i \in 1..n \/ i = n + 1
      BY <1>4
    <3>4. ASSUME NEW i \in 1..n + 1
          PROVE  more[i] = more[i - 1] + Len(Piece(i)')
      BY <3>1, <3>2, <3>3
    <3> QED
      BY <3>4
  <2>2. more[0] = 0
    BY <1>4, <1>17, <1>18
  <2> QED
    BY <1>8, <1>18, <2>1, <2>2 DEF AreEnds
<1>20. StreamIsMessages(more)'
  <2>1. ASSUME NEW i \in 1..n, NEW j \in 1..Len(Piece(i))
        PROVE  stream'[more[i - 1] + j] = Piece(i)[j]
    <3>1. /\ ends[i - 1] \in Nat /\ Len(Piece(i)) \in Nat \ {0}
          /\ ends[i - 1] + Len(Piece(i)) <= ends[n]
      BY <1>0, <1>3, <1>4, EndsGrow DEF Messages
    <3>2. ends[i - 1] + j \in 1..Len(stream) /\ i - 1 \in 0..n
      <4>1. ends[n] <= Len(stream)
        BY <1>16, <1>17, <1>18
      <4>2. j \in Nat /\ j >= 1 /\ j <= Len(Piece(i))
        BY <3>1
      <4>3. ends[i - 1] + j \in Nat /\ ends[i - 1] + j >= 1
            /\ ends[i - 1] + j <= ends[n]
        BY <1>18, <3>1, <4>2
      <4>4. i - 1 \in 0..n
        BY <1>4
      <4> QED
        <5>1. PICK p : p = ends[i - 1] + j
          OBVIOUS
        <5>2. PICK q : q = ends[n]
          OBVIOUS
        <5>3. PICK r : r = Len(stream)
          OBVIOUS
        <5>4. p \in Nat /\ q \in Nat /\ r \in Nat /\ p >= 1 /\ p <= q /\ q <= r
          BY <1>4, <1>18, <4>1, <4>3, <5>1, <5>2, <5>3
        <5>5. p \in 1..r
          BY <5>4
        <5> QED
          BY <4>4, <5>1, <5>3, <5>5
    <3> QED
      BY <1>7, <1>17, <1>18, <3>2
  <2>2. ASSUME NEW j \in 1..Len(w)
        PROVE  stream'[more[n] + j] = w[j]
    <3>1. more[n] = ends[n]
      BY <1>4, <1>18
    <3>2. CASE j <= Len(one)
      <4>1. ends[n] + j \in 1..Len(stream) /\ j \in 1..Len(one)
        BY <1>16, <1>17, <1>18, <3>2
      <4> QED
        BY <1>7, <1>16, <1>17, <3>1, <4>1
    <3>3. CASE j > Len(one)
      <4>1. /\ j - Len(one) \in 1..Len(two)
            /\ ends[n] + j = Len(stream) + (j - Len(one))
            /\ Len(one) + (j - Len(one)) = j
        BY SMTT(60), <1>16, <1>17, <1>18, <3>3
      <4>2. stream'[ends[n] + j] = two[j - Len(one)]
        BY <1>7, <4>1
      <4>3. w[j] = two[j - Len(one)]
        BY <1>16, <4>1
      <4> QED
        BY <3>1, <4>2, <4>3
    <3> QED
      BY <1>16, <3>2, <3>3
  <2>3. \A i \in 1..n + 1 : \A j \in 1..Len(Piece(i)') :
          stream'[more[i - 1] + j] = Piece(i)'[j]
    <3>1. \A i \in 1..n + 1 : i \in 1..n \/ i = n + 1
      BY <1>4
    <3>2. (n + 1) - 1 = n
      BY <1>4
    <3> QED
      BY <1>11, <1>12, <1>15, <2>1, <2>2, <3>1, <3>2
  <2>4. \A u \in Threads : wpc'[u] # "second"
    BY <1>1, <1>2, <1>5 DEF WritersAgree
  <2>5. Len(stream') = more[n + 1]
    BY <1>4, <1>7, <1>16, <1>17, <1>18
  <2> QED
    BY <1>8, <2>3, <2>4, <2>5 DEF StreamIsMessages
<1>21. ServerFollows(more)'
  <2>1. /\ Len(received) <= n /\ \A i \in 1..Len(received) : received[i] = sent[i]
        /\ taken - (off - start) = ends[Len(received)]
        /\ current = EncodingOf(Len(received) + 1)
    BY <1>0, <1>3 DEF Messages, ServerFollows
  <2>2. \A i \in 1..Len(received) : received[i] = sent'[i]
    BY <1>4, <1>8, <2>1
  <2>3. Len(received) <= n + 1 /\ more[Len(received)] = ends[Len(received)]
    BY <1>4, <1>18, <2>1
  <2> QED
    BY <1>1, <1>7, <1>8, <1>11, <2>1, <2>2, <2>3 DEF ServerFollows
<1> QED
  BY <1>13, <1>14, <1>19, <1>20, <1>21 DEF Messages

\* What is in the buffer begins the next message, or the first part of one
\* that is being written.
LEMMA UnreadBegins ==
    ASSUME IInv, WritersAgree, ~ scrambled, NEW ends, Messages(ends)
    PROVE  \/ Len(Unread) = 0
           \/ \E b \in Message :
                /\ IsBeginning(Unread, current, b)
                /\ current = "json" => Len(b) + 1 <= MaxBufferSize
                /\ \/ /\ Len(received) < Len(sent)
                      /\ b = sent[Len(received) + 1]
                   \/ Len(Unread) < Len(Whole(current, b))
<1> DEFINE k == Len(received)
           n == Len(sent)
<1>1. /\ TypeOK /\ buffer \in Seq(Byte) /\ Size = Len(buffer) /\ Size \in Nat
      /\ off \in 0..Size /\ start \in 0..off /\ stream \in Seq(Byte)
      /\ taken \in 0..Len(stream) /\ Len(stream) \in Nat
      /\ sent \in Seq(Message) /\ n \in Nat /\ k \in Nat
  BY SizesAssumption DEF IInv, TypeOK, Size
<1>2. /\ k <= n /\ taken - (off - start) = ends[k]
      /\ current = EncodingOf(k + 1)
  BY DEF Messages, ServerFollows
<1>3. /\ off - start <= taken
      /\ \A i \in start + 1..off : buffer[i] = stream[taken - off + i]
  BY DEF IInv, UnreadIsStream
<1>4. /\ Unread \in Seq(Byte) /\ Len(Unread) = off - start
      /\ \A j \in 1..off - start : Unread[j] = buffer[start + j]
  <2>1. start + 1 \in 1..Len(buffer) + 1 /\ off \in 0..Len(buffer)
    BY <1>1
  <2>2. Len(SubSeq(buffer, start + 1, off)) = off - start
    BY <1>1, <2>1
  <2>3. ASSUME NEW j \in 1..off - start
        PROVE  SubSeq(buffer, start + 1, off)[j] = buffer[start + j]
    BY SMTT(20), <1>1, <2>1, <2>2, <2>3
  <2> QED
    BY <1>1, <2>2, <2>3 DEF Unread
<1> HIDE DEF k, n
<1>5. ASSUME NEW j \in 1..Len(Unread) PROVE Unread[j] = stream[ends[k] + j]
  <2>1. j \in 1..off - start /\ start + j \in start + 1..off
    BY <1>1, <1>4
  <2>2. taken - off + (start + j) = ends[k] + j
    BY <1>1, <1>2, <2>1
  <2> QED
    BY <1>3, <1>4, <2>1, <2>2
<1>6. ends[k] + Len(Unread) <= Len(stream)
  BY <1>1, <1>2, <1>4
<1>7. CASE k < n
  <2>1. k + 1 \in 1..n /\ (k + 1) - 1 = k
    BY <1>1, <1>7
  <2>2. sent[k + 1] \in Message
    BY <1>1, <2>1 DEF n
  <2>3. Piece(k + 1) = Whole(current, sent[k + 1])
    BY <1>2 DEF Piece
  <2>4. \A j \in 1..Len(Piece(k + 1)) : stream[ends[k] + j] = Piece(k + 1)[j]
    BY <2>1 DEF Messages, StreamIsMessages, n
  <2>5. Len(Piece(k + 1)) \in Nat
    BY <2>2, <2>3, WholeIsBytes
  <2>6. IsBeginning(Unread, current, sent[k + 1])
    BY <1>4, <1>5, <2>3, <2>4, <2>5 DEF IsBeginning
  <2>7. current = "json" => Len(sent[k + 1]) + 1 <= MaxBufferSize
    BY <1>2, <2>1 DEF WritersAgree, n
  <2> QED
    BY <1>7, <2>2, <2>6, <2>7 DEF k, n
<1>8. CASE k = n /\ \A t \in Threads : wpc[t] # "second"
  <2>1. Len(stream) = ends[n]
    BY <1>8 DEF Messages, StreamIsMessages, n
  <2>2. Len(Unread) = 0
    BY <1>1, <1>2, <1>4, <1>8, <2>1
  <2> QED
    BY <2>2
<1>9. CASE k = n /\ \E t \in Threads : wpc[t] = "second"
  <2>1. PICK t \in Threads : wpc[t] = "second"
    BY <1>9
  <2> DEFINE b == body[t]
             one == FirstPart(current, b)
  <2>2. b \in Message /\ enc[t] = current
    BY <1>1, <1>2, <1>9, <2>1 DEF WritersAgree, TypeOK, n
  <2>3. /\ Len(stream) = ends[n] + Len(one)
        /\ \A j \in 1..Len(one) : stream[ends[n] + j] = one[j]
    BY <2>1, <2>2 DEF Messages, StreamIsMessages, n
  <2>4. /\ one \in Seq(Byte) /\ SecondPart(current, b) \in Seq(Byte)
        /\ SecondPart(current, b) # <<>>
    BY <2>2, PartsAreBytes, BodiesAssumption DEF SecondPart, Message
  <2>5. current = "json" => Len(b) + 1 <= MaxBufferSize
    BY <2>1, <2>2 DEF WritersAgree
  <2> HIDE DEF one, b
  <2>6. /\ Len(one) \in Nat /\ Len(one) < Len(Whole(current, b))
        /\ \A j \in 1..Len(one) : Whole(current, b)[j] = one[j]
    <3> DEFINE two == SecondPart(current, b)
    <3>1. Whole(current, b) = one \o two
      BY DEF Whole, one
    <3>2. two \in Seq(Byte) /\ two # <<>>
      BY <2>4
    <3> HIDE DEF two
    <3> QED
      BY <2>4, <3>1, <3>2
  <2>7. Len(Unread) <= Len(one)
    <3>1. PICK e : e = ends[k]
      OBVIOUS
    <3>2. PICK l : l = Len(Unread)
      OBVIOUS
    <3>3. PICK x : x = Len(stream)
      OBVIOUS
    <3>4. /\ e \in Int /\ l \in Nat /\ x \in Nat
          /\ e + l <= x
      BY <1>1, <1>2, <1>4, <1>6, <3>1, <3>2, <3>3
    <3>5. x = e + Len(one)
      BY <1>9, <2>3, <3>1, <3>3
    <3> QED
      BY <2>6, <3>2, <3>4, <3>5
  <2>8. IsBeginning(Unread, current, b)
    <3> SUFFICES ASSUME NEW j \in 1..Len(Unread), j <= Len(Whole(current, b))
                 PROVE  Unread[j] = Whole(current, b)[j]
      BY <1>4 DEF IsBeginning
    <3>1. Len(Unread) \in Nat
      BY <1>4
    <3>2. j \in 1..Len(one)
      BY <2>6, <2>7, <3>1
    <3>3. Unread[j] = stream[ends[k] + j]
      BY <1>5
    <3> QED
      BY <1>9, <2>3, <2>6, <3>2, <3>3
  <2>9. Len(Unread) < Len(Whole(current, b))
    <3>1. Len(Whole(current, b)) \in Nat
      BY <2>2, WholeIsBytes
    <3> QED
      BY <1>1, <1>4, <2>6, <2>7, <3>1
  <2> QED
    BY <2>2, <2>5, <2>8, <2>9
<1> QED
  BY <1>1, <1>2, <1>7, <1>8, <1>9

\* What connection_internal takes for a message is the next one.
LEMMA NextMessage ==
    ASSUME IInv, WritersAgree, ~ scrambled, NEW ends, Messages(ends),
           io = "scan", Complete > 0
    PROVE  /\ Len(received) < Len(sent)
           /\ Complete = Len(Piece(Len(received) + 1))
           /\ ReadMessage(current, SubSeq(Unread, 1, Complete))
                = sent[Len(received) + 1]
<1> DEFINE k == Len(received)
           c == check - start
<1>1. /\ buffer \in Seq(Byte) /\ Size = Len(buffer) /\ Size \in Nat
      /\ off \in 0..Size /\ start \in 0..off /\ check \in start..off
      /\ current \in Encodings
  BY SizesAssumption DEF IInv, TypeOK, Size
<1>2. /\ Unread \in Seq(Byte) /\ Len(Unread) = off - start
      /\ \A j \in 1..off - start : Unread[j] = buffer[start + j]
  <2>1. start + 1 \in 1..Len(buffer) + 1 /\ off \in 0..Len(buffer)
    BY <1>1
  <2>2. Len(SubSeq(buffer, start + 1, off)) = off - start
    BY <1>1, <2>1
  <2>3. ASSUME NEW j \in 1..off - start
        PROVE  SubSeq(buffer, start + 1, off)[j] = buffer[start + j]
    BY <1>1, <2>1, <2>2, <2>3
  <2> QED
    BY <1>1, <2>2, <2>3 DEF Unread
<1>3. c \in 0..Len(Unread)
  BY <1>1, <1>2
<1>4. Complete = CompleteLength(current, Unread, c)
  BY DEF Complete
<1>5. Complete \in 0..Len(Unread)
  BY <1>1, <1>2, <1>3, <1>4, CompleteIsWithin
<1>6. Len(Unread) # 0
  BY <1>5
<1>7. current = "json" => \A j \in 1..c : Unread[j] # Newline
  <2> SUFFICES ASSUME current = "json", NEW j \in 1..c PROVE Unread[j] # Newline
    OBVIOUS
  <2>1. start + j \in start + 1..check /\ j \in 1..off - start
    BY <1>1
  <2>2. buffer[start + j] # Newline
    BY <2>1 DEF IInv, Searched
  <2> QED
    BY <1>2, <2>1, <2>2
<1>8. PICK b \in Message :
        /\ IsBeginning(Unread, current, b)
        /\ \/ /\ Len(received) < Len(sent)
              /\ b = sent[Len(received) + 1]
           \/ Len(Unread) < Len(Whole(current, b))
  BY <1>6, UnreadBegins
<1>9. /\ Len(Unread) < Len(Whole(current, b)) =>
           CompleteLength(current, Unread, c) = 0
      /\ Len(Unread) >= Len(Whole(current, b)) =>
           /\ CompleteLength(current, Unread, c) = Len(Whole(current, b))
           /\ ReadMessage(current, SubSeq(Unread, 1, Len(Whole(current, b)))) = b
  <2> HIDE DEF c
  <2> QED
    BY <1>1, <1>2, <1>3, <1>7, <1>8, MessageTells
<1>10. ~ (Len(Unread) < Len(Whole(current, b)))
  BY <1>4, <1>9
<1>11. Len(Unread) >= Len(Whole(current, b))
  <2>1. Len(Whole(current, b)) \in Nat /\ Len(Unread) \in Nat
    BY <1>1, <1>2, WholeIsBytes
  <2> QED
    BY <1>10, <2>1
<1>12. Len(received) < Len(sent) /\ b = sent[Len(received) + 1]
  BY <1>8, <1>10
<1>13. Piece(Len(received) + 1) = Whole(current, b)
  BY <1>12 DEF Messages, ServerFollows, Piece
<1> QED
  BY <1>4, <1>9, <1>11, <1>12, <1>13

\* A step of the server's io thread but Deliver takes nothing out of the
\* buffer, and what it reads it adds.
LEMMA PlaceStays ==
    ASSUME IInv, Wake \/ Read \/ ScanEnds, ~ scrambled'
    PROVE  /\ ~ scrambled
           /\ UNCHANGED <<encoding, wpc, body, enc, stream, current, received,
                          agreed, reply, sent, orderly>>
           /\ taken' - (off' - start') = taken - (off - start)
           /\ taken' >= taken
           /\ Read /\ io' # "scan" => taken' = taken
<1>1. /\ off \in Nat /\ start \in 0..off /\ taken \in Nat
      /\ Len(stream) \in Nat /\ Len(buffer) \in Nat /\ taken <= Len(stream)
      /\ off <= Len(buffer)
  BY SizesAssumption DEF IInv, TypeOK, Size
<1>2. CASE Wake \/ ScanEnds
  <2>1. UNCHANGED <<client, stream, taken, off, start, current, received,
                    agreed, reply, history>>
    BY <1>2 DEF Wake, ScanEnds, socket
  <2>2. /\ ~ scrambled
        /\ UNCHANGED <<encoding, wpc, body, enc, stream, current, received,
                       agreed, reply, sent, orderly, taken, off, start>>
    BY <2>1 DEF client, history
  <2>3. ~ Read
    BY <1>2 DEF Read, Wake, ScanEnds
  <2> QED
    BY <1>1, <2>2, <2>3
<1>3. CASE Read
  <2> DEFINE Stays == /\ ~ scrambled
                      /\ taken' - (off' - start') = taken - (off - start)
                      /\ taken' >= taken
                      /\ io' # "scan" => taken' = taken
  <2>1. UNCHANGED <<encoding, wpc, body, enc, stream, current, received,
                    agreed, reply, sent, orderly>>
    BY <1>3 DEF Read, client
  <2>2. ASSUME NEW b, NEW s \in Nat, NEW o \in Nat, NEW bad \in BOOLEAN,
               Fill(b, s, o, bad), o - s = off - start, Len(b) \in Nat,
               o <= Len(b)
        PROVE  Stays /\ ~ bad
    <3>1. PICK n : n = Smaller(Len(b) - o, Len(stream) - taken)
      OBVIOUS
    <3>2. /\ start' = s /\ off' = o + n /\ taken' = taken + n
          /\ scrambled' = (scrambled \/ bad)
          /\ io' = IF n > 0 THEN "scan" ELSE "idle"
      BY <2>2, <3>1 DEF Fill
    <3>3. n \in Nat
      BY <1>1, <2>2, <3>1 DEF Smaller
    <3>4. /\ taken' - (off' - start') = taken - (off - start)
          /\ taken' >= taken
          /\ n = 0 => taken' = taken
      BY <1>1, <2>2, <3>2, <3>3
    <3>5. io' # "scan" => n = 0
      BY <3>2, <3>3
    <3> QED
      BY <3>2, <3>4, <3>5
  <2>3. CASE ~Full /\ Fill(buffer, start, off, FALSE)
    <3>1. /\ start \in Nat /\ off - start = off - start /\ off <= Len(buffer)
          /\ FALSE \in BOOLEAN
      BY <1>1
    <3>2. Stays
      BY <1>1, <2>2, <2>3, <3>1
    <3> QED
      BY <2>1, <3>2
  <2>4. CASE Full /\ start = 0 /\ ~Stuck /\ Fill(Grown, 0, off, FALSE)
    <3>1. Len(Grown) \in Nat /\ off <= Len(Grown)
      BY <1>1, <2>4, SizesAssumption
      DEF Grown, Smaller, Stuck, Full, Size, IInv, TypeOK
    <3> QED
      BY <1>1, <2>1, <2>2, <2>4, <3>1
  <2>5. CASE Full /\ start > 0 /\ Fill(Moved, 0, off - start, FALSE)
    <3>1. Len(Moved) = Len(buffer)
      BY <1>1 DEF Moved, Size
    <3>2. /\ off - start \in Nat /\ off - start <= Len(buffer)
          /\ (off - start) - 0 = off - start /\ 0 \in Nat
      BY <1>1
    <3> QED
      BY <1>1, <2>1, <2>2, <2>5, <3>1, <3>2
  <2>6. CASE /\ Full /\ start > 0 /\ off - start > start
             /\ Fill(MovedBackwards, 0, off - start, TRUE)
    BY <2>6 DEF Fill
  <2>7. CASE /\ Stuck /\ io' = "idle"
             /\ UNCHANGED <<buffer, start, off, check, taken, scrambled>>
    BY <1>1, <2>1, <2>7
  <2> QED
    BY <1>3, <2>3, <2>4, <2>5, <2>6, <2>7 DEF Read
<1> QED
  BY <1>2, <1>3

LEMMA ReadOrdered ==
    ASSUME IInv, Ordered, Wake \/ Read \/ ScanEnds
    PROVE  Ordered'
<1> SUFFICES ASSUME orderly', ~ scrambled' PROVE
        HelloComesFirst' /\ WritersAgree' /\ \E ends : Messages(ends)'
  BY DEF Ordered
<1>1. /\ orderly /\ ~ scrambled
      /\ UNCHANGED <<encoding, wpc, body, enc, stream, current, received,
                     agreed, reply, sent>>
      /\ taken' - (off' - start') = taken - (off - start)
  BY PlaceStays
<1>2. HelloComesFirst /\ WritersAgree /\ \E ends : Messages(ends)
  BY <1>1 DEF Ordered
<1>3. HelloComesFirst'
  BY <1>1, <1>2 DEF HelloComesFirst
<1>4. WritersAgree'
  BY <1>1, <1>2 DEF WritersAgree, EncodingOf
<1>5. \E ends : Messages(ends)'
  BY <1>1, <1>2, MessagesStay
<1> QED
  BY <1>3, <1>4, <1>5

\* The message that is handled is the next one; it is .hello when it is the
\* first.
LEMMA DeliverOrdered ==
    ASSUME IInv, Ordered, Deliver
    PROVE  Ordered'
<1> SUFFICES ASSUME orderly', ~ scrambled' PROVE
        HelloComesFirst' /\ WritersAgree' /\ \E ends : Messages(ends)'
  BY DEF Ordered
<1> DEFINE m == ReadMessage(current, SubSeq(Unread, 1, Complete))
<1>0. PICK k : k = Len(received)
  OBVIOUS
<1>1. /\ orderly /\ ~ scrambled /\ io = "scan" /\ Complete > 0
      /\ received' = Append(received, m)
      /\ start' = start + Complete
      /\ IF m = Hello THEN current' = agreed /\ reply' = "sent"
                      ELSE current' = current /\ reply' = reply
      /\ UNCHANGED <<encoding, hello, wpc, body, enc, stream, taken, off,
                     agreed, sent>>
  BY DEF Deliver, HandleHello, client, socket, history
<1>2. HelloComesFirst /\ WritersAgree
  BY <1>1 DEF Ordered
<1>3. PICK ends : Messages(ends)
  BY <1>1 DEF Ordered
<1>4. /\ Len(received) < Len(sent) /\ Complete = Len(Piece(Len(received) + 1))
      /\ m = sent[Len(received) + 1]
  BY <1>1, <1>2, <1>3, NextMessage
<1> HIDE DEF m
<1>5. /\ k \in Nat /\ received \in Seq(Message \cup {ParseError})
      /\ sent \in Seq(Message) /\ Len(sent) \in Nat
      /\ off \in Nat /\ start \in 0..off /\ taken \in Nat
  BY <1>0, SizesAssumption DEF IInv, TypeOK, Size
<1>6. k + 1 \in 1..Len(sent) /\ (k + 1) - 1 = k
  BY <1>0, <1>4, <1>5
<1>7. m = sent[k + 1] /\ m \in Message
  BY <1>0, <1>4, <1>5, <1>6
<1>8. /\ received' \in Seq(Message \cup {ParseError})
      /\ Len(received') = k + 1 /\ received'[k + 1] = m
      /\ \A i \in 1..k : received'[i] = received[i]
  BY <1>0, <1>1, <1>5, <1>7
<1>9. m = Hello <=> k = 0
  BY <1>2, <1>5, <1>6, <1>7 DEF HelloComesFirst
<1>10. k = 0 <=> reply = "none"
  BY <1>0, <1>2, <1>5 DEF HelloComesFirst
<1>11. HelloComesFirst'
  <2>1. received' # <<>>
    BY <1>5, <1>8
  <2>2. reply' # "none"
    BY <1>1, <1>9, <1>10
  <2>3. reply' = "sent" \/ reply' = reply
    BY <1>1
  <2>4. reply = "none" => \A t \in Callers : wpc[t] = "idle"
    BY <1>2 DEF HelloComesFirst
  <2>5. \A t \in Callers : wpc'[t] # "idle" => reply' = "done" /\ body'[t] \in Bodies
    BY <1>1, <1>2, <1>9, <1>10, <2>4 DEF HelloComesFirst
  <2> QED
    BY <1>1, <1>2, <1>9, <1>10, <2>1, <2>2, <2>3, <2>5 DEF HelloComesFirst
<1>12. WritersAgree'
  BY <1>1, <1>2 DEF WritersAgree, EncodingOf
<1>13. \A i : EncodingOf(i)' = EncodingOf(i) /\ Piece(i)' = Piece(i)
  BY <1>1 DEF EncodingOf, Piece
<1>14. AreEnds(ends)'
  BY <1>1, <1>3, <1>13 DEF Messages, AreEnds
<1>15. StreamIsMessages(ends)'
  BY <1>1, <1>3, <1>13 DEF Messages, StreamIsMessages
<1>16. ServerFollows(ends)'
  <2>1. /\ \A i \in 1..k : received[i] = sent[i]
        /\ taken - (off - start) = ends[k]
        /\ current = EncodingOf(k + 1)
    BY <1>0, <1>3 DEF Messages, ServerFollows
  <2>2. \A i \in 1..k + 1 : received'[i] = sent[i]
    <3>1. \A i \in 1..k + 1 : i \in 1..k \/ i = k + 1
      BY <1>5
    <3> QED
      BY <1>7, <1>8, <2>1, <3>1
  <2>3. taken - (off - (start + Complete)) = ends[k + 1]
    <3>1. ends[k + 1] = ends[k] + Complete
      BY <1>0, <1>3, <1>4, <1>6 DEF Messages, AreEnds
    <3>2. Complete \in Nat
      BY <1>0, <1>3, <1>4, <1>6, EndsGrow DEF Messages, IInv
    <3> QED
      BY <1>5, <2>1, <3>1, <3>2
  <2>4. current' = EncodingOf((k + 1) + 1)
    BY <1>1, <1>5, <1>9, <2>1 DEF EncodingOf
  <2>5. k + 1 <= Len(sent)
    BY <1>5, <1>6
  <2> QED
    BY <1>1, <1>8, <1>13, <2>2, <2>3, <2>4, <2>5 DEF ServerFollows
<1> QED
  BY <1>11, <1>12, <1>14, <1>15, <1>16 DEF Messages

LEMMA NextOrdered == IInv /\ Ordered /\ [Next]_vars => Ordered'
<1> SUFFICES ASSUME IInv, Ordered, [Next]_vars PROVE Ordered'
  OBVIOUS
<1>1. CASE \E t \in Callers, b \in Bodies : Call(t, b)
  BY <1>1, CallOrdered
<1>2. CASE \E t \in Threads : Send(t)
  BY <1>2, LoadOrdered, FirstOrdered, SecondOrdered DEF Send
<1>3. CASE SetEncoding \/ SetHello
  BY <1>3, ReplyOrdered
<1>4. CASE Wake \/ Read \/ ScanEnds
  BY <1>4, ReadOrdered
<1>5. CASE Deliver
  BY <1>5, DeliverOrdered
<1>6. CASE UNCHANGED vars
  <2> SUFFICES ASSUME orderly', ~ scrambled' PROVE
          HelloComesFirst' /\ WritersAgree' /\ \E ends : Messages(ends)'
    BY DEF Ordered
  <2>1. UNCHANGED <<encoding, wpc, body, enc, stream, taken, off, start,
                    current, received, agreed, reply, sent, orderly, scrambled>>
    BY <1>6 DEF vars, client, socket, server, history
  <2>2. HelloComesFirst /\ WritersAgree /\ \E ends : Messages(ends)
    BY <2>1 DEF Ordered
  <2>3. HelloComesFirst' /\ WritersAgree'
    BY <2>1, <2>2 DEF HelloComesFirst, WritersAgree, EncodingOf
  <2>4. \E ends : Messages(ends)'
    BY <2>1, <2>2, MessagesStay
  <2> QED
    BY <2>3, <2>4
<1> QED
  BY <1>1, <1>2, <1>3, <1>4, <1>5, <1>6 DEF Next, Io

LEMMA AlwaysOrdered == Spec => [](IInv /\ Ordered)
<1> QED
  BY InitIInv, NextIInv, InitOrdered, NextOrdered, PTL DEF Spec, Safety

LEMMA OrderedInOrder == IInv /\ Ordered => InOrder
<1> SUFFICES ASSUME IInv, Ordered, orderly, ~ scrambled
             PROVE  IsPrefixOf(received, sent)
  BY DEF InOrder
<1>1. PICK ends : Messages(ends)
  BY DEF Ordered
<1>2. /\ Len(received) <= Len(sent)
      /\ \A i \in 1..Len(received) : received[i] = sent[i]
  BY <1>1 DEF Messages, ServerFollows
<1>3. /\ received \in Seq(Message \cup {ParseError}) /\ Len(received) \in Nat
      /\ sent \in Seq(Message) /\ Len(sent) \in Nat
  BY DEF IInv, TypeOK
<1>4. PICK n : n = Len(received)
  OBVIOUS
<1>5. PICK s : s = SubSeq(sent, 1, n)
  OBVIOUS
<1>6. /\ s \in Seq(Message) /\ Len(s) = n
      /\ \A i \in 1..n : s[i] = sent[i]
  <2>1. n \in 0..Len(sent)
    BY <1>2, <1>3, <1>4
  <2> QED
    BY <1>3, <1>5, <2>1
<1>7. received = s
  <2>1. \A i \in 1..n : received[i] = s[i]
    BY <1>2, <1>4, <1>6
  <2>2. s \in Seq(Message \cup {ParseError})
    BY <1>6
  <2> QED
    BY <1>3, <1>4, <1>6, <2>1, <2>2
<1> QED
  BY <1>2, <1>4, <1>5, <1>7 DEF IsPrefixOf

\* A buffer that is full of bytes without the end of a line would hold the
\* beginning of a line that is longer than the json encoding lets pass.
LEMMA OrderedLimitsAgree == IInv /\ Ordered => LimitsAgree
<1> SUFFICES ASSUME IInv, Ordered, orderly, ~ scrambled, current = "json",
                    io # "scan", Stuck
             PROVE  FALSE
  BY DEF LimitsAgree
<1>1. PICK ends : Messages(ends)
  BY DEF Ordered
<1>2. WritersAgree
  BY DEF Ordered
<1>3. /\ buffer \in Seq(Byte) /\ off = Len(buffer) /\ start = 0
      /\ Len(buffer) = MaxBufferSize /\ MaxBufferSize \in Nat \ {0}
  BY SizesAssumption DEF IInv, TypeOK, Stuck, Full, Size
<1>4. /\ Unread \in Seq(Byte) /\ Len(Unread) = MaxBufferSize
      /\ \A j \in 1..MaxBufferSize : Unread[j] = buffer[j]
  <2>1. SubSeq(buffer, 0 + 1, Len(buffer)) = buffer
    BY <1>3
  <2> QED
    BY <1>3, <2>1 DEF Unread
<1>5. \A j \in 1..MaxBufferSize : buffer[j] # Newline
  <2>1. \A j \in start + 1..off : buffer[j] # Newline
    BY DEF IInv, Searched
  <2> QED
    BY <1>3, <2>1
<1>6. PICK b \in Message :
        /\ IsBeginning(Unread, "json", b)
        /\ Len(b) + 1 <= MaxBufferSize
  <2>1. Len(Unread) # 0
    BY <1>3, <1>4
  <2> QED
    BY <1>1, <1>2, <2>1, UnreadBegins
<1>7. /\ Len(b) \in Nat /\ Len(Whole("json", b)) = Len(b) + 1
      /\ Whole("json", b)[Len(b) + 1] = Newline
  BY WholeOfJson
<1>8. Len(b) + 1 \in 1..Len(Unread) /\ Len(b) + 1 <= Len(Whole("json", b))
  BY <1>3, <1>4, <1>6, <1>7
<1>9. Unread[Len(b) + 1] = Newline
  BY <1>6, <1>7, <1>8 DEF IsBeginning
<1> QED
  BY <1>4, <1>5, <1>8, <1>9

-----------------------------------------------------------------------------
(* What has been handled is what reading all the bytes at once gives.      *)

\* Steps from a number to the next one reach every number up to the last.
LEMMA UpTo ==
    ASSUME NEW n \in Nat, NEW S, 0 \in S,
           \A i \in 1..n : i - 1 \in S => i \in S
    PROVE  \A i \in 0..n : i \in S
<1> DEFINE bad == {i \in 0..n : i \notin S}
<1> SUFFICES ASSUME bad # {} PROVE FALSE
  OBVIOUS
<1>1. PICK k : k = Least(bad)
  OBVIOUS
<1>2. k \in bad /\ \A j \in bad : k <= j
  <2>1. bad \subseteq Nat
    OBVIOUS
  <2> HIDE DEF bad
  <2> QED
    BY <1>1, <2>1, LeastIsThere
<1>3. k \in 1..n /\ k - 1 \in 0..n /\ ~ (k <= k - 1)
  BY <1>2
<1>4. k - 1 \in S
  BY <1>2, <1>3
<1> QED
  BY <1>2, <1>3, <1>4

IsStart(u, w) == Len(u) <= Len(w) /\ \A j \in 1..Len(u) : u[j] = w[j]

\* What follows does not change the length at the beginning.
LEMMA LengthStays ==
    ASSUME NEW u \in Seq(Byte), NEW w \in Seq(Byte), IsStart(u, w),
           VarintSize(u) > 0
    PROVE  VarintSize(w) = VarintSize(u) /\ VarintValue(w) = VarintValue(u)
<1>1. PICK m : m = VarintSize(u)
  OBVIOUS
<1>2. PICK n : n = VarintSize(w)
  OBVIOUS
<1>3. Len(u) \in Nat /\ Len(w) \in Nat /\ Len(u) <= Len(w)
  BY DEF IsStart
<1>4. m \in 1..Len(u) /\ u[m] < Base
      /\ \A j \in 1..Len(u) : j < m => ~ (u[j] < Base)
  BY <1>1, <1>3, VarintSizeRange
<1>5. n \in 0..Len(w)
      /\ (n > 0 => /\ w[n] < Base
                   /\ \A j \in 1..Len(w) : j < n => ~ (w[j] < Base))
      /\ (n = 0 => \A j \in 1..Len(w) : j <= 9 => ~ (w[j] < Base))
  BY <1>2, VarintSizeRange
<1>6. m <= 9
  <2> DEFINE ends == {i \in 1..Len(u) : i <= 9 /\ u[i] < Base}
  <2>1. VarintSize(u) = IF ends = {} THEN 0 ELSE Least(ends)
    BY DEF VarintSize
  <2>2. ends \subseteq Nat
    OBVIOUS
  <2>3. ends # {}
    BY <1>1, <1>4, <2>1
  <2>4. m \in ends
    <3> HIDE DEF ends
    <3> QED
      BY <1>1, <2>1, <2>2, <2>3, LeastIsThere
  <2> QED
    BY <2>4
<1>7. w[m] < Base /\ m \in 1..Len(w)
  BY <1>3, <1>4 DEF IsStart
<1>8. n > 0
  BY <1>5, <1>6, <1>7
<1>9. ~ (m < n)
  BY <1>5, <1>7, <1>8
<1>10. ~ (n < m)
  <2> SUFFICES ASSUME n < m PROVE FALSE
    OBVIOUS
  <2>1. n \in 1..Len(u)
    BY <1>3, <1>4, <1>5, <1>8
  <2>2. u[n] = w[n]
    BY <2>1 DEF IsStart
  <2> QED
    BY <1>4, <1>5, <1>8, <2>1, <2>2
<1>11. m = n
  BY <1>3, <1>4, <1>5, <1>9, <1>10
<1>12. SubSeq(u, 1, m) = SubSeq(w, 1, m)
  <2>1. m \in 0..Len(u) /\ m \in 0..Len(w) /\ 1 \in 1..Len(u) + 1
        /\ 1 \in 1..Len(w) + 1 /\ 1 <= m + 1
    BY <1>3, <1>4
  <2>2. PICK x : x = SubSeq(u, 1, m)
    OBVIOUS
  <2>3. PICK y : y = SubSeq(w, 1, m)
    OBVIOUS
  <2>4. x \in Seq(Byte) /\ Len(x) = m - 1 + 1
        /\ \A j \in 1..m - 1 + 1 : x[j] = u[1 + j - 1]
    BY <2>1, <2>2, PartOf
  <2>5. y \in Seq(Byte) /\ Len(y) = m - 1 + 1
        /\ \A j \in 1..m - 1 + 1 : y[j] = w[1 + j - 1]
    BY <2>1, <2>3, PartOf
  <2>6. \A j \in 1..m : u[j] = w[j]
    BY <1>3, <1>4 DEF IsStart
  <2>7. Len(x) = Len(y) /\ \A j \in 1..Len(y) : x[j] = y[j]
    BY <1>3, <1>4, <2>4, <2>5, <2>6
  <2>8. x = y
    BY <2>4, <2>5, <2>7, SameSequence
  <2> QED
    BY <2>2, <2>3, <2>8
<1> QED
  BY <1>1, <1>2, <1>11, <1>12 DEF VarintValue

\* Nor does it change where the first message ends, once it does.
LEMMA CompleteStays ==
    ASSUME NEW e \in Encodings, NEW u \in Seq(Byte), NEW w \in Seq(Byte),
           IsStart(u, w), CompleteLength(e, u, 0) > 0
    PROVE  CompleteLength(e, w, 0) = CompleteLength(e, u, 0)
<1>1. Len(u) \in Nat /\ Len(w) \in Nat /\ Len(u) <= Len(w)
  BY DEF IsStart
<1>2. CASE e = "json"
  <2> DEFINE endsOf(s) == {i \in 0 + 1..Len(s) : s[i] = Newline}
  <2>1. \A s : CompleteLength(e, s, 0) =
                  IF endsOf(s) = {} THEN 0 ELSE Least(endsOf(s))
    BY <1>2, Zenon DEF CompleteLength
  <2>2. endsOf(u) \subseteq Nat /\ endsOf(w) \subseteq Nat
    BY <1>1
  <2>3. endsOf(u) \subseteq endsOf(w)
    BY <1>1 DEF IsStart
  <2>4. \A i \in endsOf(w) : i <= Len(u) => i \in endsOf(u)
    BY <1>1 DEF IsStart
  <2>5. \A i \in endsOf(u) : i <= Len(u)
    BY <1>1
  <2> HIDE DEF endsOf
  <2>6. endsOf(u) # {}
    BY <2>1
  <2>7. PICK a : a = Least(endsOf(u))
    OBVIOUS
  <2>8. PICK b : b = Least(endsOf(w))
    OBVIOUS
  <2>9. a \in endsOf(u) /\ \A j \in endsOf(u) : a <= j
    BY <2>2, <2>6, <2>7, LeastIsThere
  <2>10. endsOf(w) # {} /\ b \in endsOf(w) /\ \A j \in endsOf(w) : b <= j
    BY <2>2, <2>3, <2>6, <2>8, LeastIsThere
  <2>11. a \in Nat /\ b \in Nat /\ b <= a /\ a <= Len(u)
    BY <2>2, <2>3, <2>5, <2>9, <2>10
  <2>12. b \in endsOf(u)
    BY <1>1, <2>4, <2>10, <2>11
  <2>13. a = b
    BY <2>9, <2>11, <2>12
  <2> QED
    BY <2>1, <2>6, <2>7, <2>8, <2>10, <2>13
<1>3. CASE e # "json"
  <2> DEFINE total(s) == Total(s)
  <2>1. \A s : CompleteLength(e, s, 0) =
                  IF VarintSize(s) > 0 /\ total(s) \in 1..Len(s)
                  THEN total(s) ELSE 0
    BY <1>3, Zenon DEF CompleteLength
  <2>2. VarintSize(u) > 0 /\ total(u) \in 1..Len(u)
    <3> HIDE DEF total
    <3> QED
      BY <2>1
  <2>3. VarintSize(w) > 0 /\ total(w) = total(u)
    <3>1. VarintSize(w) = VarintSize(u) /\ VarintValue(w) = VarintValue(u)
      BY <2>2, LengthStays
    <3> QED
      BY <2>2, <3>1 DEF Total
  <2> HIDE DEF total
  <2>4. total(w) \in 1..Len(w)
    BY <1>1, <2>2, <2>3
  <2> QED
    BY <2>1, <2>2, <2>3, <2>4
<1> QED
  BY <1>2, <1>3

\* A search that begins behind bytes without a newline finds what a search
\* from the start finds.
LEMMA SearchedOnce ==
    ASSUME NEW e, NEW u \in Seq(Byte), NEW k \in 0..Len(u),
           e = "json" => \A j \in 1..k : u[j] # Newline
    PROVE  CompleteLength(e, u, k) = CompleteLength(e, u, 0)
<1>1. CASE e = "json"
  <2> DEFINE ends(i) == {j \in i + 1..Len(u) : u[j] = Newline}
  <2>1. \A i : CompleteLength(e, u, i) =
                  IF ends(i) = {} THEN 0 ELSE Least(ends(i))
    BY <1>1, Zenon DEF CompleteLength
  <2>2. ends(k) = ends(0)
    BY <1>1
  <2> HIDE DEF ends
  <2> QED
    BY <2>1, <2>2
<1>2. CASE e # "json"
  BY <1>2, Zenon DEF CompleteLength
<1> QED
  BY <1>1, <1>2

Place == [pos : Nat, enc : Encodings, msgs : Seq(Message \cup {ParseError})]
Beginning == [pos |-> 0, enc |-> "json", msgs |-> <<>>]

\* The messages in s are what as many steps as s has bytes lead to.
LEMMA ReadingSteps ==
    ASSUME NEW s \in Seq(Byte)
    PROVE  \E f : /\ f[0] = Beginning
                  /\ \A i \in 1..Len(s) : f[i] = ReadOne(agreed, s, f[i - 1])
                  /\ ReadAtOnce(s) = f[Len(s)]
<1> DEFINE Is(f, m) == f = [i \in 0..m |-> IF i = 0 THEN Beginning
                                           ELSE ReadOne(agreed, s, f[i - 1])]
           read == CHOOSE f : Is(f, Len(s))
           S == {m \in 0..Len(s) : \E f : Is(f, m)}
<1>1. Len(s) \in Nat
  OBVIOUS
<1>2. ReadAtOnce(s) = read[Len(s)]
  BY DEF ReadAtOnce, Beginning
<1>3. 0 \in S
  <2> DEFINE f == [i \in 0..0 |-> Beginning]
  <2>1. Is(f, 0)
    OBVIOUS
  <2>2. \E g : Is(g, 0)
    <3> HIDE DEF f, Is
    <3> QED
      BY <2>1
  <2> QED
    BY <1>1, <2>2
<1>4. ASSUME NEW i \in 1..Len(s), i - 1 \in S PROVE i \in S
  <2>1. PICK f : Is(f, i - 1)
    BY <1>4
  <2>2. /\ f[0] = Beginning
        /\ \A j \in 1..i - 1 : f[j] = ReadOne(agreed, s, f[j - 1])
    BY <2>1
  <2> DEFINE g == [j \in 0..i |-> IF j = i THEN ReadOne(agreed, s, f[i - 1]) ELSE f[j]]
  <2>3. /\ g[0] = Beginning
        /\ \A j \in 1..i : g[j] = ReadOne(agreed, s, g[j - 1])
    <3>1. g[0] = f[0]
      OBVIOUS
    <3>2. \A j \in 1..i : g[j - 1] = f[j - 1]
      OBVIOUS
    <3>3. \A j \in 1..i : j = i \/ j \in 1..i - 1
      OBVIOUS
    <3>4. \A j \in 1..i - 1 : g[j] = f[j]
      OBVIOUS
    <3>5. g[i] = ReadOne(agreed, s, f[i - 1])
      OBVIOUS
    <3> HIDE DEF g
    <3> QED
      BY <2>2, <3>1, <3>2, <3>3, <3>4, <3>5
  <2>4. Is(g, i)
    <3>1. \A j \in 0..i : g[j] = IF j = 0 THEN Beginning ELSE ReadOne(agreed, s, g[j - 1])
      <4> HIDE DEF g
      <4>1. \A j \in 0..i : j = 0 \/ j \in 1..i
        OBVIOUS
      <4> QED
        BY <2>3, <4>1, Zenon
    <3> DEFINE h == [j \in 0..i |-> IF j = 0 THEN Beginning
                                    ELSE ReadOne(agreed, s, g[j - 1])]
    <3>2. h = [j \in 0..i |-> h[j]] /\ \A j \in 0..i : h[j] = g[j]
      <4> HIDE DEF g
      <4> QED
        BY <3>1
    <3>3. g = [j \in 0..i |-> g[j]]
      OBVIOUS
    <3> HIDE DEF g
    <3>4. g = h
      <4> HIDE DEF h
      <4> QED
        BY <3>2, <3>3
    <3> QED
      BY <3>4
  <2>5. \E h : Is(h, i)
    <3> HIDE DEF g, Is
    <3> QED
      BY <2>4
  <2> QED
    BY <2>5
<1>5. Len(s) \in S
  <2>1. \A i \in 0..Len(s) : i \in S
    <3> HIDE DEF S
    <3> QED
      BY <1>1, <1>3, <1>4, UpTo
  <2> QED
    BY <1>1, <2>1
<1>6. Is(read, Len(s))
  BY <1>5
<1> HIDE DEF read
<1>7. /\ read[0] = Beginning
      /\ \A i \in 1..Len(s) : read[i] = ReadOne(agreed, s, read[i - 1])
  BY <1>1, <1>6
<1> QED
  BY <1>2, <1>7

\* A message that is there is read in the same way when more bytes follow.
LEMMA ReadStays ==
    ASSUME NEW a, NEW s \in Seq(Byte), NEW t \in Seq(Byte), IsStart(s, t),
           NEW p \in Place, p.pos <= Len(s), ReadOne(a, s, p) # p
    PROVE  ReadOne(a, t, p) = ReadOne(a, s, p)
<1> DEFINE u == SubSeq(s, p.pos + 1, Len(s))
           w == SubSeq(t, p.pos + 1, Len(t))
           n == CompleteLength(p.enc, u, 0)
<1>1. /\ p.pos \in Nat /\ p.enc \in Encodings /\ Len(s) \in Nat
      /\ Len(t) \in Nat /\ Len(s) <= Len(t)
  BY DEF Place, IsStart
<1>2. /\ u \in Seq(Byte) /\ Len(u) = Len(s) - p.pos
      /\ \A j \in 1..Len(s) - p.pos : u[j] = s[p.pos + j]
  <2>1. p.pos + 1 \in 1..Len(s) + 1 /\ Len(s) \in 0..Len(s)
        /\ p.pos + 1 <= Len(s) + 1
    BY <1>1
  <2>2. u \in Seq(Byte) /\ Len(u) = Len(s) - (p.pos + 1) + 1
        /\ \A j \in 1..Len(s) - (p.pos + 1) + 1 : u[j] = s[(p.pos + 1) + j - 1]
    BY <2>1, PartOf
  <2> HIDE DEF u
  <2>3. /\ Len(s) - (p.pos + 1) + 1 = Len(s) - p.pos
        /\ \A j \in Nat : (p.pos + 1) + j - 1 = p.pos + j
    BY <1>1
  <2>4. \A j \in 1..Len(s) - p.pos : j \in Nat
    BY <1>1
  <2> QED
    BY <2>2, <2>3, <2>4
<1>3. /\ w \in Seq(Byte) /\ Len(w) = Len(t) - p.pos
      /\ \A j \in 1..Len(t) - p.pos : w[j] = t[p.pos + j]
  <2>1. p.pos + 1 \in 1..Len(t) + 1 /\ Len(t) \in 0..Len(t)
        /\ p.pos + 1 <= Len(t) + 1
    BY <1>1
  <2>2. w \in Seq(Byte) /\ Len(w) = Len(t) - (p.pos + 1) + 1
        /\ \A j \in 1..Len(t) - (p.pos + 1) + 1 : w[j] = t[(p.pos + 1) + j - 1]
    BY <2>1, PartOf
  <2> HIDE DEF w
  <2> QED
    BY <1>1, <2>2
<1>4. n \in 0..Len(u)
  <2>1. 0 \in 0..Len(u)
    BY <1>2
  <2> HIDE DEF u
  <2> QED
    BY <1>1, <1>2, <2>1, CompleteIsWithin
<1>5. n # 0
  <2> SUFFICES ASSUME n = 0 PROVE FALSE
    OBVIOUS
  <2>1. ReadOne(a, s, p) = p
    BY DEF ReadOne
  <2> QED
    BY <2>1
<1>6. IsStart(u, w)
  <2>1. Len(u) <= Len(w)
    BY <1>1, <1>2, <1>3
  <2>2. ASSUME NEW j \in 1..Len(u) PROVE u[j] = w[j]
    <3>1. /\ j \in 1..Len(s) - p.pos /\ j \in 1..Len(t) - p.pos
          /\ p.pos + j \in 1..Len(s)
      <4>1. j \in 1..Len(s) - p.pos
        BY <1>2
      <4> HIDE DEF u, w
      <4> QED
        BY <1>1, <4>1
    <3>2. s[p.pos + j] = t[p.pos + j]
      BY <3>1 DEF IsStart
    <3> HIDE DEF u, w
    <3> QED
      BY <1>2, <1>3, <3>1, <3>2
  <2> HIDE DEF u, w
  <2> QED
    BY <2>1, <2>2 DEF IsStart
<1>7. CompleteLength(p.enc, w, 0) = n
  <2>1. n > 0
    BY <1>4, <1>5
  <2> HIDE DEF u, w
  <2> QED
    BY <1>1, <1>2, <1>3, <1>6, <2>1, CompleteStays
<1>8. SubSeq(u, 1, n) = SubSeq(w, 1, n)
  <2>1. PICK k : k = n
    OBVIOUS
  <2>2. k \in 0..Len(u) /\ Len(u) \in Nat /\ Len(w) \in Nat /\ Len(u) <= Len(w)
    BY <1>4, <1>6, <1>2, <1>3, <2>1 DEF IsStart
  <2> HIDE DEF u, w, n
  <2>3. k \in 0..Len(w) /\ 1 \in 1..Len(u) + 1 /\ 1 \in 1..Len(w) + 1
        /\ 1 <= k + 1 /\ k - 1 + 1 = k
    BY <2>2
  <2>4. PICK x : x = SubSeq(u, 1, k)
    OBVIOUS
  <2>5. PICK y : y = SubSeq(w, 1, k)
    OBVIOUS
  <2>6. x \in Seq(Byte) /\ Len(x) = k - 1 + 1
        /\ \A j \in 1..k - 1 + 1 : x[j] = u[1 + j - 1]
    BY <1>2, <2>2, <2>3, <2>4, PartOf
  <2>7. y \in Seq(Byte) /\ Len(y) = k - 1 + 1
        /\ \A j \in 1..k - 1 + 1 : y[j] = w[1 + j - 1]
    BY <1>3, <2>2, <2>3, <2>5, PartOf
  <2>8. \A j \in 1..k : u[j] = w[j]
    BY <1>6, <2>2 DEF IsStart
  <2>9. Len(x) = Len(y) /\ \A j \in 1..Len(y) : x[j] = y[j]
    <3>1. Len(x) = k /\ Len(y) = k
      BY <2>3, <2>6, <2>7
    <3>2. \A j \in 1..k : x[j] = u[j] /\ y[j] = w[j]
      <4> TAKE j \in 1..k
      <4>1. j \in 1..k - 1 + 1 /\ 1 + j - 1 = j
        BY <2>3
      <4> QED
        BY <2>6, <2>7, <4>1
    <3> QED
      BY <2>8, <3>1, <3>2
  <2>10. x = y
    BY <2>6, <2>7, <2>9, SameSequence
  <2> QED
    BY <2>1, <2>4, <2>5, <2>10
<1> QED
  <2> HIDE DEF u, w, n
  <2> DEFINE r(x) ==
        LET m == ReadMessage(p.enc, SubSeq(x, 1, n))
        IN  [pos |-> p.pos + n, enc |-> IF m = Hello THEN a ELSE p.enc,
             msgs |-> Append(p.msgs, m)]
  <2>1. ReadOne(a, s, p) = r(u)
    BY <1>5 DEF ReadOne, u, n
  <2>2. ReadOne(a, t, p) = r(w)
    BY <1>5, <1>7 DEF ReadOne, w
  <2>3. r(u) = r(w)
    BY <1>8
  <2> QED
    BY <2>1, <2>2, <2>3

InSoFar == SubSeq(stream, 1, taken)
Here == [pos |-> taken - (off - start), enc |-> current, msgs |-> received]

\* The server has come here through the n places behind the messages handled.
CameBy(q, n) ==
    /\ q \in [0..n -> Place]
    /\ q[0] = Beginning /\ q[n] = Here
    /\ \A i \in 0..n : q[i].pos \in i..taken
    /\ \A i \in 1..n : /\ q[i] = ReadOne(agreed, InSoFar, q[i - 1])
                       /\ q[i] # q[i - 1]

Handled == ~scrambled => \E n \in Nat : \E q : CameBy(q, n)

\* Between the scans no complete message is left.
NothingComplete ==
    ~scrambled /\ io # "scan" => ReadOne(agreed, InSoFar, Here) = Here

RInv == Handled /\ NothingComplete

\* The loop that never ends has an empty message before it.
EndlessAtEmpty ==
    ~scrambled /\ io # "scan" => (io = "endless" <=> Empty(current, Unread))

TakenIsStart ==
    /\ InSoFar \in Seq(Byte) /\ Len(InSoFar) = taken /\ taken \in Nat
    /\ \A j \in 1..taken : InSoFar[j] = stream[j]

LEMMA SoFar == TypeOK => TakenIsStart
<1> SUFFICES ASSUME TypeOK PROVE TakenIsStart
  OBVIOUS
<1>1. stream \in Seq(Byte) /\ taken \in 0..Len(stream) /\ Len(stream) \in Nat
  BY DEF TypeOK
<1>2. /\ taken \in 0..Len(stream) /\ 1 \in 1..Len(stream) + 1
      /\ 1 <= taken + 1
  BY <1>1
<1>3. /\ InSoFar \in Seq(Byte) /\ Len(InSoFar) = taken - 1 + 1
      /\ \A j \in 1..taken - 1 + 1 : InSoFar[j] = stream[1 + j - 1]
  BY <1>1, <1>2, PartOf DEF InSoFar
<1>4. \A j \in 1..taken : j \in 1..taken - 1 + 1 /\ 1 + j - 1 = j
  BY <1>1
<1> QED
  BY <1>1, <1>3, <1>4 DEF TakenIsStart

LEMMA SoFarNext == TypeOK' => TakenIsStart'
<1> QED
  BY SoFar, PTL

\* What lies unread in the buffer is the rest of what has been taken.
LEMMA RestIsUnread ==
    ASSUME IInv, ~scrambled
    PROVE  /\ Here \in Place /\ Here.pos \in 0..taken
           /\ Here.pos = taken - (off - start)
           /\ Here.enc = current /\ Here.msgs = received
           /\ SubSeq(InSoFar, Here.pos + 1, Len(InSoFar)) = Unread
           /\ Unread \in Seq(Byte) /\ Len(Unread) = off - start
           /\ \A j \in 1..off - start : Unread[j] = buffer[start + j]
<1>1. /\ InSoFar \in Seq(Byte) /\ Len(InSoFar) = taken /\ taken \in Nat
      /\ \A j \in 1..taken : InSoFar[j] = stream[j]
  BY SoFar DEF IInv, TakenIsStart
<1>2. /\ buffer \in Seq(Byte) /\ off \in 0..Len(buffer) /\ start \in 0..off
      /\ Len(buffer) \in Nat /\ current \in Encodings
      /\ received \in Seq(Message \cup {ParseError})
  BY DEF IInv, TypeOK, Size
<1>3. /\ off - start <= taken
      /\ \A i \in start + 1..off : buffer[i] = stream[taken - off + i]
  BY DEF IInv, UnreadIsStream
<1>4. PICK p : p = taken - (off - start)
  OBVIOUS
<1>5. p \in 0..taken /\ off \in Nat /\ start \in Nat
  BY <1>1, <1>2, <1>3, <1>4
<1>6. Here = [pos |-> p, enc |-> current, msgs |-> received]
  BY <1>4 DEF Here
<1>7. /\ Here \in Place /\ Here.pos = p
      /\ Here.enc = current /\ Here.msgs = received
  BY <1>2, <1>5, <1>6 DEF Place
<1>8. /\ Unread \in Seq(Byte) /\ Len(Unread) = off - start
      /\ \A j \in 1..off - start : Unread[j] = buffer[start + j]
  <2>1. /\ start + 1 \in 1..Len(buffer) + 1 /\ off \in 0..Len(buffer)
        /\ start + 1 <= off + 1
    BY <1>2
  <2>2. /\ Unread \in Seq(Byte) /\ Len(Unread) = off - (start + 1) + 1
        /\ \A j \in 1..off - (start + 1) + 1 : Unread[j] = buffer[start + 1 + j - 1]
    BY <1>2, <2>1, PartOf DEF Unread
  <2>3. off - (start + 1) + 1 = off - start
    BY <1>5
  <2>4. \A j \in 1..off - start : start + 1 + j - 1 = start + j
    BY <1>5
  <2> QED
    BY <2>2, <2>3, <2>4
<1>9. SubSeq(InSoFar, p + 1, taken) = Unread
  <2>1. PICK x : x = SubSeq(InSoFar, p + 1, taken)
    OBVIOUS
  <2>2. /\ p + 1 \in 1..Len(InSoFar) + 1 /\ taken \in 0..Len(InSoFar)
        /\ p + 1 <= taken + 1
    BY <1>1, <1>5
  <2>3. /\ x \in Seq(Byte) /\ Len(x) = taken - (p + 1) + 1
        /\ \A j \in 1..taken - (p + 1) + 1 : x[j] = InSoFar[p + 1 + j - 1]
    BY <1>1, <2>1, <2>2, PartOf
  <2>4. taken - (p + 1) + 1 = off - start
    BY <1>1, <1>4, <1>5
  <2>5. ASSUME NEW j \in 1..off - start PROVE x[j] = Unread[j]
    <3>1. /\ p + 1 + j - 1 = p + j /\ p + j \in 1..taken
          /\ start + j \in start + 1..off /\ taken - off + (start + j) = p + j
      BY <1>1, <1>4, <1>5
    <3>2. x[j] = InSoFar[p + j]
      BY <2>3, <2>4, <3>1
    <3>3. InSoFar[p + j] = stream[p + j]
      BY <1>1, <3>1
    <3>4. buffer[start + j] = stream[p + j]
      BY <1>3, <3>1
    <3> QED
      BY <1>8, <3>2, <3>3, <3>4
  <2>6. Len(x) = Len(Unread) /\ \A j \in 1..Len(Unread) : x[j] = Unread[j]
    BY <1>8, <2>3, <2>4, <2>5
  <2>7. x = Unread
    BY <1>8, <2>3, <2>6, SameSequence
  <2> QED
    BY <2>1, <2>7
<1> QED
  BY <1>1, <1>4, <1>5, <1>7, <1>8, <1>9

\* What the io thread finds is what reading on from here gives.
LEMMA FoundIsNext ==
    ASSUME IInv, ~scrambled, io = "scan"
    PROVE  LET m == ReadMessage(current, SubSeq(Unread, 1, Complete))
           IN  /\ Complete \in 0..off - start
               /\ ReadOne(agreed, InSoFar, Here) =
                    IF Complete = 0 THEN Here
                    ELSE [pos |-> Here.pos + Complete,
                          enc |-> IF m = Hello THEN agreed ELSE current,
                          msgs |-> Append(received, m)]
<1> DEFINE k == check - start
<1>1. /\ Here.enc = current /\ Here.msgs = received
      /\ SubSeq(InSoFar, Here.pos + 1, Len(InSoFar)) = Unread
      /\ Unread \in Seq(Byte) /\ Len(Unread) = off - start
      /\ \A j \in 1..off - start : Unread[j] = buffer[start + j]
  BY RestIsUnread
<1>2. /\ off \in Nat /\ start \in 0..off /\ check \in start..off
      /\ current \in Encodings
  BY SizesAssumption DEF IInv, TypeOK, Size
<1>3. k \in 0..Len(Unread) /\ k <= off - start
  BY <1>1, <1>2
<1>4. current = "json" => \A j \in 1..k : Unread[j] # Newline
  <2> SUFFICES ASSUME current = "json", NEW j \in 1..k PROVE Unread[j] # Newline
    OBVIOUS
  <2>1. start + j \in start + 1..check /\ j \in 1..off - start
    BY <1>2
  <2>2. buffer[start + j] # Newline
    BY <2>1 DEF IInv, Searched
  <2> QED
    BY <1>1, <2>1, <2>2
<1> HIDE DEF k
<1>5. CompleteLength(current, Unread, k) = CompleteLength(current, Unread, 0)
  BY <1>1, <1>3, <1>4, SearchedOnce
<1>6. Complete = CompleteLength(current, Unread, 0)
  BY <1>5 DEF Complete, k
<1>7. Complete \in 0..off - start
  <2>1. 0 \in 0..Len(Unread)
    BY <1>1, <1>2
  <2>2. CompleteLength(current, Unread, 0) \in 0..Len(Unread)
    BY <1>1, <1>2, <2>1, CompleteIsWithin
  <2> QED
    BY <1>1, <1>6, <2>2
<1>8. ReadOne(agreed, InSoFar, Here) =
         LET m == ReadMessage(current, SubSeq(Unread, 1, Complete))
         IN  IF Complete = 0 THEN Here
             ELSE [pos |-> Here.pos + Complete,
                   enc |-> IF m = Hello THEN agreed ELSE current,
                   msgs |-> Append(received, m)]
  BY <1>1, <1>6, Zenon DEF ReadOne
<1> QED
  BY <1>7, <1>8

LEMMA InitRInv == Init => RInv
<1> SUFFICES ASSUME Init PROVE RInv
  OBVIOUS
<1>1. Here = Beginning
  BY DEF Init, Here, Beginning
<1>2. Beginning \in Place
  BY DEF Beginning, Place, Encodings
<1>3. taken = 0
  BY DEF Init
<1>4. Handled
  <2> DEFINE q == [i \in 0..0 |-> Beginning]
  <2>1. q \in [0..0 -> Place] /\ q[0] = Beginning
    BY <1>2
  <2>2. q[0].pos = 0
    BY DEF Beginning
  <2> HIDE DEF q
  <2>3. CameBy(q, 0)
    BY <1>1, <1>3, <2>1, <2>2 DEF CameBy
  <2> QED
    BY <2>3 DEF Handled
<1>5. NothingComplete
  <2> SUFFICES ReadOne(agreed, InSoFar, Here) = Here
    BY DEF NothingComplete
  <2>1. IInv /\ ~scrambled /\ off = 0 /\ start = 0
    BY InitIInv DEF Init
  <2>2. /\ Here.enc = current
        /\ SubSeq(InSoFar, Here.pos + 1, Len(InSoFar)) = Unread
        /\ Unread \in Seq(Byte) /\ Len(Unread) = 0 /\ current \in Encodings
    BY <2>1, RestIsUnread DEF IInv, TypeOK
  <2>3. CompleteLength(current, Unread, 0) = 0
    <3>1. 0 \in 0..Len(Unread) /\ 0..Len(Unread) = {0}
      BY <2>2
    <3> QED
      BY <2>2, <3>1, CompleteIsWithin
  <2> QED
    BY <2>2, <2>3 DEF ReadOne
<1> QED
  BY <1>4, <1>5 DEF RInv

\* Nothing that has been read is read in another way when more is taken.
LEMMA CameByStays ==
    ASSUME TypeOK, TypeOK', NEW n \in Nat, NEW q, CameBy(q, n),
           IsStart(InSoFar, InSoFar'), taken' >= taken, agreed' = agreed,
           Here' = Here
    PROVE  CameBy(q, n)'
<1>1. /\ InSoFar \in Seq(Byte) /\ Len(InSoFar) = taken /\ taken \in Nat
  BY SoFar DEF TakenIsStart
<1>2. /\ InSoFar' \in Seq(Byte) /\ taken' \in Nat
  BY SoFarNext DEF TakenIsStart
<1>3. /\ q \in [0..n -> Place] /\ q[0] = Beginning /\ q[n] = Here
      /\ \A i \in 0..n : q[i].pos \in i..taken
      /\ \A i \in 1..n : /\ q[i] = ReadOne(agreed, InSoFar, q[i - 1])
                         /\ q[i] # q[i - 1]
  BY DEF CameBy
<1>4. \A i \in 0..n : q[i].pos \in i..taken'
  BY <1>1, <1>2, <1>3
<1>5. ASSUME NEW i \in 1..n
      PROVE  q[i] = ReadOne(agreed', InSoFar', q[i - 1]) /\ q[i] # q[i - 1]
  <2>1. i - 1 \in 0..n
    OBVIOUS
  <2>2. q[i - 1] \in Place /\ q[i - 1].pos <= Len(InSoFar)
    <3>1. q[i - 1] \in Place
      BY <1>3, <2>1
    <3>2. q[i - 1].pos \in i - 1..taken
      BY <1>3, <2>1
    <3> QED
      BY <1>1, <3>1, <3>2
  <2>3. q[i] = ReadOne(agreed, InSoFar, q[i - 1]) /\ q[i] # q[i - 1]
    BY <1>3
  <2>4. ReadOne(agreed, InSoFar', q[i - 1]) = ReadOne(agreed, InSoFar, q[i - 1])
    BY <1>1, <1>2, <2>2, <2>3, ReadStays
  <2> QED
    BY <2>3, <2>4
<1>6. CameBy(q, n)' <=>
        /\ q \in [0..n -> Place] /\ q[0] = Beginning /\ q[n] = Here'
        /\ \A i \in 0..n : q[i].pos \in i..taken'
        /\ \A i \in 1..n : /\ q[i] = ReadOne(agreed', InSoFar', q[i - 1])
                           /\ q[i] # q[i - 1]
  BY DEF CameBy
<1> QED
  BY <1>3, <1>4, <1>5, <1>6

\* Bytes that are written do not change what has been taken.
LEMMA TakenStays ==
    ASSUME TypeOK, TypeOK', taken' = taken,
           \A j \in 1..taken : stream'[j] = stream[j]
    PROVE  InSoFar' = InSoFar
<1>1. /\ InSoFar \in Seq(Byte) /\ Len(InSoFar) = taken /\ taken \in Nat
      /\ \A j \in 1..taken : InSoFar[j] = stream[j]
  BY SoFar DEF TakenIsStart
<1>2. /\ InSoFar' \in Seq(Byte) /\ Len(InSoFar') = taken'
      /\ \A j \in 1..taken' : InSoFar'[j] = stream'[j]
  BY SoFarNext DEF TakenIsStart
<1> QED
  BY <1>1, <1>2, SameSequence

\* Steps that take nothing and handle nothing.
LEMMA NothingTaken ==
    ASSUME IInv, TypeOK', RInv, taken' = taken,
           \A j \in 1..taken : stream'[j] = stream[j],
           Here' = Here, agreed' = agreed, ~scrambled' => ~scrambled,
           ~scrambled /\ io' # "scan" => ReadOne(agreed, InSoFar, Here) = Here
    PROVE  RInv'
<1> SUFFICES ASSUME ~scrambled'
             PROVE  /\ (\E n \in Nat : \E q : CameBy(q, n))'
                    /\ io' # "scan" => ReadOne(agreed', InSoFar', Here') = Here'
  BY DEF RInv, Handled, NothingComplete
<1>1. InSoFar' = InSoFar
  BY TakenStays DEF IInv
<1>2. PICK n \in Nat : \E q : CameBy(q, n)
  BY DEF RInv, Handled
<1>3. PICK q : CameBy(q, n)
  BY <1>2
<1>4. CameBy(q, n)'
  BY <1>1, <1>3 DEF CameBy
<1> QED
  BY <1>1, <1>4

\* The client writes behind what has been taken.
LEMMA ClientTakesNothing ==
    ASSUME IInv,
           \/ \E t \in Callers, b \in Bodies : Call(t, b)
           \/ \E t \in Threads : Send(t)
           \/ SetEncoding \/ SetHello
    PROVE  /\ UNCHANGED <<taken, server, agreed, scrambled>>
           /\ \A j \in 1..taken : stream'[j] = stream[j]
<1>1. stream \in Seq(Byte) /\ taken \in 0..Len(stream) /\ Len(stream) \in Nat
  BY DEF IInv, TypeOK
<1>2. ASSUME NEW part \in Seq(Byte), Write(part)
      PROVE  taken' = taken /\ \A j \in 1..taken : stream'[j] = stream[j]
  <2>1. PICK n : n = Smaller(Len(part), Room)
    OBVIOUS
  <2>2. n \in Int /\ n <= Len(part) /\ Len(part) \in Nat
    BY <1>1, <2>1, SizesAssumption DEF Room, Smaller
  <2>3. PICK r : r = SubSeq(part, 1, n)
    OBVIOUS
  <2>4. r \in Seq(Byte)
    BY <2>2, <2>3
  <2>5. stream' = stream \o r /\ taken' = taken
    BY <1>2, <2>1, <2>3 DEF Write
  <2>6. \A j \in 1..Len(stream) : stream'[j] = stream[j]
    BY <1>1, <2>4, <2>5
  <2> QED
    BY <1>1, <2>5, <2>6
<1>3. CASE \E t \in Callers, b \in Bodies : Call(t, b)
  BY <1>3 DEF Call, socket
<1>4. CASE \E t \in Threads : Send(t)
  <2>1. PICK t \in Threads : Load(t) \/ First(t) \/ Second(t)
    BY <1>4 DEF Send
  <2>2. CASE Load(t)
    BY <2>2 DEF Load, socket, history
  <2>3. FirstPart(enc[t], body[t]) \in Seq(Byte)
        /\ SecondPart(enc[t], body[t]) \in Seq(Byte)
    BY PartsAreBytes DEF IInv, TypeOK
  <2>4. CASE First(t)
    BY <1>2, <2>3, <2>4 DEF First
  <2>5. CASE Second(t)
    BY <1>2, <2>3, <2>5 DEF Second
  <2> QED
    BY <2>1, <2>2, <2>4, <2>5
<1>5. CASE SetEncoding \/ SetHello
  BY <1>5 DEF SetEncoding, SetHello, socket, history
<1> QED
  BY <1>3, <1>4, <1>5

\* The io thread wakes up, reads or ends a scan.
LEMMA ReadKeepsPlaces ==
    ASSUME IInv, TypeOK', RInv, Wake \/ Read \/ ScanEnds
    PROVE  RInv'
<1> SUFFICES ASSUME ~scrambled' PROVE RInv'
  BY DEF RInv, Handled, NothingComplete
<1>1. /\ ~scrambled /\ UNCHANGED <<stream, current, received, agreed>>
      /\ taken' - (off' - start') = taken - (off - start)
      /\ taken' >= taken /\ (Read /\ io' # "scan" => taken' = taken)
  BY PlaceStays
<1>2. Here' = Here
  BY <1>1 DEF Here
<1>3. CASE taken' = taken /\ io' # "scan"
  <2>1. ReadOne(agreed, InSoFar, Here) = Here
    <3>1. CASE ScanEnds
      <4>1. io = "scan" /\ Complete = 0
        BY <3>1 DEF ScanEnds
      <4> QED
        BY <1>1, <4>1, FoundIsNext
    <3>2. CASE Wake \/ Read
      <4>1. io # "scan"
        BY <3>2 DEF Wake, Read
      <4> QED
        BY <1>1, <4>1 DEF RInv, NothingComplete
    <3> QED
      BY <3>1, <3>2
  <2> QED
    BY <1>1, <1>2, <1>3, <2>1, NothingTaken
<1>4. CASE io' = "scan"
  <2>1. PICK n \in Nat : \E q : CameBy(q, n)
    BY <1>1 DEF RInv, Handled
  <2>2. PICK q : CameBy(q, n)
    BY <2>1
  <2>3. IsStart(InSoFar, InSoFar')
    <3>1. /\ Len(InSoFar) = taken /\ taken \in Nat
          /\ \A j \in 1..taken : InSoFar[j] = stream[j]
      BY SoFar DEF IInv, TakenIsStart
    <3>2. /\ Len(InSoFar') = taken' /\ taken' \in Nat
          /\ \A j \in 1..taken' : InSoFar'[j] = stream'[j]
      BY SoFarNext DEF TakenIsStart
    <3> QED
      BY <1>1, <3>1, <3>2 DEF IsStart
  <2>4. CameBy(q, n)'
    BY <1>1, <1>2, <2>2, <2>3, CameByStays DEF IInv
  <2> QED
    BY <1>4, <2>4 DEF RInv, Handled, NothingComplete
<1>5. io' # "scan" => taken' = taken
  <2>1. Wake \/ ScanEnds => taken' = taken
    BY DEF Wake, ScanEnds, socket
  <2> QED
    BY <1>1, <2>1
<1> QED
  BY <1>3, <1>4, <1>5

\* A message that is handled makes one place more.
LEMMA DeliverKeepsPlaces ==
    ASSUME IInv, TypeOK', RInv, Deliver
    PROVE  RInv'
<1> SUFFICES ASSUME ~scrambled' PROVE RInv'
  BY DEF RInv, Handled, NothingComplete
<1>0. PICK c : c = Complete
  OBVIOUS
<1>1. PICK m : m = ReadMessage(current, SubSeq(Unread, 1, c))
  OBVIOUS
<1>2. /\ ~scrambled /\ io = "scan" /\ io' = "scan" /\ c > 0
      /\ received' = Append(received, m)
      /\ start' = start + c
      /\ current' = IF m = Hello THEN agreed ELSE current
      /\ UNCHANGED <<stream, taken, off, agreed>>
  BY <1>0, <1>1 DEF Deliver, HandleHello, socket, history
<1>3. /\ c \in 0..off - start
      /\ ReadOne(agreed, InSoFar, Here) =
           IF c = 0 THEN Here
           ELSE [pos |-> Here.pos + c,
                 enc |-> IF m = Hello THEN agreed ELSE current,
                 msgs |-> Append(received, m)]
  BY <1>0, <1>1, <1>2, FoundIsNext
<1>4. /\ Here \in Place /\ Here.pos \in 0..taken
      /\ Here.pos = taken - (off - start)
  BY <1>2, RestIsUnread
<1>5. /\ off \in Nat /\ start \in 0..off /\ taken \in Nat
      /\ current' \in Encodings /\ received' \in Seq(Message \cup {ParseError})
  BY SizesAssumption DEF IInv, TypeOK, Size
<1>6. /\ Here.pos + c = taken' - (off' - start')
      /\ Here.pos + c \in Here.pos + 1..taken /\ Here.pos + c # Here.pos
  <2>1. PICK h : h = Here.pos
    OBVIOUS
  <2> QED
    BY <1>2, <1>3, <1>4, <1>5, <2>1
<1>7. Here' = [pos |-> Here.pos + c, enc |-> current', msgs |-> received']
  BY <1>6 DEF Here
<1>8. ReadOne(agreed, InSoFar, Here) = Here'
  BY <1>2, <1>3, <1>7
<1>9. Here' \in Place /\ Here'.pos = Here.pos + c /\ Here' # Here
  <2>1. Here.pos + c \in Nat
    BY <1>4, <1>5, <1>6
  <2>2. Here' \in Place
    BY <1>5, <1>7, <2>1 DEF Place
  <2>3. Here'.pos = Here.pos + c
    BY <1>7
  <2> QED
    BY <1>6, <2>2, <2>3
<1>10. PICK n \in Nat : \E q : CameBy(q, n)
  BY <1>2 DEF RInv, Handled
<1>11. PICK q : CameBy(q, n)
  BY <1>10
<1>12. /\ q \in [0..n -> Place] /\ q[0] = Beginning /\ q[n] = Here
       /\ \A i \in 0..n : q[i].pos \in i..taken
       /\ \A i \in 1..n : /\ q[i] = ReadOne(agreed, InSoFar, q[i - 1])
                          /\ q[i] # q[i - 1]
  BY <1>11 DEF CameBy
<1>13. PICK h : h = Here'
  OBVIOUS
<1> DEFINE r == [i \in 0..n + 1 |-> IF i = n + 1 THEN h ELSE q[i]]
<1>14. /\ \A i \in 0..n : r[i] = q[i]
       /\ r[n + 1] = h
       /\ r \in [0..n + 1 -> Place]
  <2>1. h \in Place
    BY <1>9, <1>13
  <2>2. \A i \in 0..n + 1 : i # n + 1 => i \in 0..n
    OBVIOUS
  <2>3. \A i \in 0..n : q[i] \in Place /\ i # n + 1 /\ i \in 0..n + 1
    BY <1>12
  <2>4. n + 1 \in 0..n + 1
    OBVIOUS
  <2> QED
    BY <2>1, <2>2, <2>3, <2>4
<1> HIDE DEF r
<1>15. r[0] = Beginning
  BY <1>12, <1>14
<1>16. \A i \in 0..n + 1 : r[i].pos \in i..taken
  <2>1. q[n].pos \in n..taken /\ n \in 0..n
    BY <1>12
  <2>2. Here.pos + c \in n + 1..taken
    <3>1. Here.pos \in n..taken
      BY <1>12, <2>1
    <3>2. PICK p : p = Here.pos
      OBVIOUS
    <3> QED
      BY <1>5, <1>6, <3>1, <3>2
  <2>3. r[n + 1].pos \in n + 1..taken
    BY <1>9, <1>13, <1>14, <2>2
  <2>4. \A i \in 0..n + 1 : i = n + 1 \/ i \in 0..n
    OBVIOUS
  <2> QED
    BY <1>12, <1>14, <2>3, <2>4
<1>17. \A i \in 1..n + 1 : /\ r[i] = ReadOne(agreed, InSoFar, r[i - 1])
                           /\ r[i] # r[i - 1]
  <2>1. /\ r[n + 1] = ReadOne(agreed, InSoFar, r[(n + 1) - 1])
        /\ r[n + 1] # r[(n + 1) - 1]
    <3>1. (n + 1) - 1 = n /\ n \in 0..n
      OBVIOUS
    <3> QED
      BY <1>8, <1>9, <1>12, <1>13, <1>14, <3>1
  <2>2. \A i \in 1..n + 1 :
           i = n + 1 \/ (i \in 1..n /\ i \in 0..n /\ i - 1 \in 0..n)
    OBVIOUS
  <2> QED
    BY <1>12, <1>14, <2>1, <2>2
<1>18. InSoFar' = InSoFar
  BY <1>2 DEF InSoFar
<1>19. CameBy(r, n + 1)'
  BY <1>2, <1>13, <1>14, <1>15, <1>16, <1>17, <1>18 DEF CameBy
<1>20. n + 1 \in Nat
  OBVIOUS
<1> QED
  BY <1>2, <1>19, <1>20 DEF RInv, Handled, NothingComplete

LEMMA NextRInv == IInv /\ RInv /\ [Next]_vars => RInv'
<1> SUFFICES ASSUME IInv, RInv, [Next]_vars PROVE RInv'
  OBVIOUS
<1>1. TypeOK'
  BY NextIInv DEF IInv
<1>2. CASE \/ \E t \in Callers, b \in Bodies : Call(t, b)
           \/ \E t \in Threads : Send(t)
           \/ SetEncoding \/ SetHello
  <2>1. /\ UNCHANGED <<taken, server, agreed, scrambled>>
        /\ \A j \in 1..taken : stream'[j] = stream[j]
    BY <1>2, ClientTakesNothing
  <2>2. Here' = Here /\ io' = io
    BY <2>1 DEF Here, server
  <2>3. ~scrambled /\ io' # "scan" => ReadOne(agreed, InSoFar, Here) = Here
    BY <2>2 DEF RInv, NothingComplete
  <2> QED
    BY <1>1, <2>1, <2>2, <2>3, NothingTaken
<1>3. CASE Wake \/ Read \/ ScanEnds
  BY <1>1, <1>3, ReadKeepsPlaces
<1>4. CASE Deliver
  BY <1>1, <1>4, DeliverKeepsPlaces
<1>5. CASE UNCHANGED vars
  <2>1. /\ UNCHANGED <<taken, stream, agreed, scrambled, io>> /\ Here' = Here
    BY <1>5 DEF vars, socket, server, history, Here
  <2>2. ~scrambled /\ io' # "scan" => ReadOne(agreed, InSoFar, Here) = Here
    BY <2>1 DEF RInv, NothingComplete
  <2> QED
    BY <1>1, <2>1, <2>2, NothingTaken
<1> QED
  BY <1>2, <1>3, <1>4, <1>5 DEF Next, Io

LEMMA InitEndless == Init => EndlessAtEmpty
  BY DEF Init, EndlessAtEmpty, Empty

UnreadIsRest ==
    ~scrambled => Unread = SubSeq(InSoFar, Here.pos + 1, Len(InSoFar))

LEMMA UnreadTold == IInv => UnreadIsRest
  BY RestIsUnread DEF UnreadIsRest

LEMMA UnreadToldNext == IInv' => UnreadIsRest'
  BY UnreadTold, PTL

\* Only a scan makes the loop endless, and only what is taken changes what
\* is unread.
LEMMA NextEndless ==
    IInv /\ EndlessAtEmpty /\ [Next]_vars => EndlessAtEmpty'
<1> SUFFICES ASSUME IInv, EndlessAtEmpty, [Next]_vars,
                    ~scrambled', io' # "scan"
             PROVE  io' = "endless" <=> Empty(current, Unread)'
  BY DEF EndlessAtEmpty
<1>1. CASE \/ \E t \in Callers, b \in Bodies : Call(t, b)
           \/ \E t \in Threads : Send(t)
           \/ SetEncoding \/ SetHello
  <2>1. UNCHANGED <<server, scrambled>>
    BY <1>1, ClientTakesNothing
  <2> QED
    BY <2>1 DEF EndlessAtEmpty, server, Unread
<1>2. CASE Wake
  BY <1>2 DEF Wake, EndlessAtEmpty, history, Unread
<1>3. CASE ScanEnds
  <2>1. Unread' = Unread /\ current' = current
    BY <1>3 DEF ScanEnds, Unread
  <2>2. io' = IF Empty(current, Unread) THEN "endless" ELSE "read"
    BY <1>3 DEF ScanEnds
  <2> QED
    BY <2>1, <2>2
<1>4. CASE Deliver
  BY <1>4 DEF Deliver
<1>5. CASE Read
  <2>1. /\ ~scrambled /\ UNCHANGED <<stream, current, received, agreed>>
        /\ taken' - (off' - start') = taken - (off - start)
        /\ taken' = taken
    BY <1>5, PlaceStays
  <2>2. Here' = Here /\ InSoFar' = InSoFar
    BY <2>1 DEF Here, InSoFar
  <2>3. Unread' = Unread
    <3>1. IInv'
      BY NextIInv
    <3>2. Unread = SubSeq(InSoFar, Here.pos + 1, Len(InSoFar))
      BY <2>1, UnreadTold DEF UnreadIsRest
    <3> QED
      BY <2>1, <2>2, <3>1, <3>2, UnreadToldNext DEF UnreadIsRest
  <2>4. io = "read" /\ io' # "endless"
    BY <1>5 DEF Read, Fill
  <2> QED
    BY <2>1, <2>3, <2>4 DEF EndlessAtEmpty
<1>6. CASE UNCHANGED vars
  BY <1>6 DEF vars, EndlessAtEmpty, server, history, Unread
<1> QED
  BY <1>1, <1>2, <1>3, <1>4, <1>5, <1>6 DEF Next, Io

\* Reading on from a place leads to a place, and at most one message further.
LEMMA ReadOneIs ==
    ASSUME NEW a \in Encodings, NEW s \in Seq(Byte), NEW p \in Place,
           p.pos <= Len(s)
    PROVE  LET r == ReadOne(a, s, p)
           IN  /\ r \in Place /\ r.pos <= Len(s)
               /\ \/ r.msgs = p.msgs
                  \/ \E m \in Message \cup {ParseError} :
                        r.msgs = Append(p.msgs, m)
<1> DEFINE u == SubSeq(s, p.pos + 1, Len(s))
           n == CompleteLength(p.enc, u, 0)
           m == ReadMessage(p.enc, SubSeq(u, 1, n))
<1>1. /\ p.pos \in Nat /\ p.enc \in Encodings /\ Len(s) \in Nat
      /\ p.msgs \in Seq(Message \cup {ParseError})
  BY DEF Place
<1>2. u \in Seq(Byte) /\ Len(u) = Len(s) - p.pos
  <2>1. p.pos + 1 \in 1..Len(s) + 1 /\ Len(s) \in 0..Len(s)
        /\ p.pos + 1 <= Len(s) + 1
    BY <1>1
  <2>2. u \in Seq(Byte) /\ Len(u) = Len(s) - (p.pos + 1) + 1
    BY <2>1, PartOf
  <2> HIDE DEF u
  <2> QED
    BY <1>1, <2>2
<1>3. n \in 0..Len(s) - p.pos
  <2> HIDE DEF u
  <2>1. 0 \in 0..Len(u)
    BY <1>1, <1>2
  <2>2. n \in 0..Len(u)
    BY <1>1, <1>2, <2>1, CompleteIsWithin
  <2> QED
    BY <1>2, <2>2
<1>4. m \in Message \cup {ParseError}
  BY Zenon DEF ReadMessage, Message
<1>5. ReadOne(a, s, p) =
         IF n = 0 THEN p
         ELSE [pos |-> p.pos + n, enc |-> IF m = Hello THEN a ELSE p.enc,
               msgs |-> Append(p.msgs, m)]
  BY Zenon DEF ReadOne
<1> HIDE DEF u, n, m
<1>6. CASE n = 0
  BY <1>5, <1>6
<1>7. CASE n # 0
  <2>1. PICK e : e = IF m = Hello THEN a ELSE p.enc
    OBVIOUS
  <2>2. e \in Encodings
    BY <1>1, <2>1
  <2>3. PICK k : k = p.pos + n
    OBVIOUS
  <2>4. k \in Nat /\ k <= Len(s)
    BY <1>1, <1>3, <2>3
  <2>5. PICK t : t = Append(p.msgs, m)
    OBVIOUS
  <2>6. t \in Seq(Message \cup {ParseError})
    BY <1>1, <1>4, <2>5
  <2>7. ReadOne(a, s, p) = [pos |-> k, enc |-> e, msgs |-> t]
    BY <1>5, <1>7, <2>1, <2>3, <2>5
  <2> QED
    BY <1>4, <2>2, <2>4, <2>5, <2>6, <2>7 DEF Place
<1> QED
  BY <1>6, <1>7

LEMMA AppendKeepsPrefix ==
    ASSUME NEW S, NEW p \in Seq(S), NEW s \in Seq(S), NEW m \in S,
           IsPrefixOf(p, s)
    PROVE  IsPrefixOf(p, Append(s, m))
<1>1. /\ Len(p) <= Len(s) /\ p = SubSeq(s, 1, Len(p))
      /\ Len(p) \in Nat /\ Len(s) \in Nat
  BY DEF IsPrefixOf
<1>2. PICK k : k = Len(p)
  OBVIOUS
<1>3. PICK t : t = Append(s, m)
  OBVIOUS
<1>4. /\ t \in Seq(S) /\ Len(t) = Len(s) + 1
      /\ \A j \in 1..Len(s) : t[j] = s[j]
  BY <1>1, <1>3
<1>5. PICK x : x = SubSeq(t, 1, k)
  OBVIOUS
<1>6. /\ k \in 0..Len(t) /\ k \in 0..Len(s) /\ 1 \in 1..Len(t) + 1
      /\ 1 \in 1..Len(s) + 1 /\ 1 <= k + 1 /\ k - 1 + 1 = k
      /\ \A j \in 1..k : 1 + j - 1 = j /\ j \in 1..Len(s)
  BY <1>1, <1>2, <1>4
<1>7. x \in Seq(S) /\ Len(x) = k /\ \A j \in 1..k : x[j] = t[j]
  <2>1. x \in Seq(S) /\ Len(x) = k - 1 + 1
        /\ \A j \in 1..k - 1 + 1 : x[j] = t[1 + j - 1]
    BY <1>4, <1>5, <1>6, PartOf
  <2> QED
    BY <1>6, <2>1
<1>8. \A j \in 1..k : p[j] = s[j]
  <2>1. \A j \in 1..k - 1 + 1 : SubSeq(s, 1, k)[j] = s[1 + j - 1]
    BY <1>6, PartOf
  <2> QED
    BY <1>1, <1>2, <1>6, <2>1
<1>9. p = x
  <2>1. Len(p) = Len(x) /\ \A j \in 1..Len(x) : p[j] = x[j]
    BY <1>2, <1>4, <1>6, <1>7, <1>8
  <2> QED
    BY <1>7, <2>1, SameSequence
<1>10. Len(p) <= Len(t)
  BY <1>1, <1>4
<1> QED
  BY <1>2, <1>3, <1>5, <1>9, <1>10 DEF IsPrefixOf

LEMMA PlacesTell == IInv /\ RInv /\ EndlessAtEmpty => CutsDoNotMatter
<1> DEFINE all == ReadAtOnce(InSoFar)
           rest == SubSeq(InSoFar, all.pos + 1, Len(InSoFar))
<1> SUFFICES ASSUME IInv, RInv, EndlessAtEmpty, ~scrambled
             PROVE  /\ IsPrefixOf(received, all.msgs)
                    /\ io # "scan" =>
                          /\ received = all.msgs
                          /\ io = "endless" <=> Empty(all.enc, rest)
  BY DEF CutsDoNotMatter, InSoFar
<1> HIDE DEF all, rest
<1>1. InSoFar \in Seq(Byte) /\ Len(InSoFar) = taken /\ taken \in Nat
  BY SoFar DEF IInv, TakenIsStart
<1>2. PICK f : /\ f[0] = Beginning
               /\ \A i \in 1..taken : f[i] = ReadOne(agreed, InSoFar, f[i - 1])
               /\ ReadAtOnce(InSoFar) = f[taken]
  BY <1>1, ReadingSteps
<1>3. PICK n \in Nat : \E q : CameBy(q, n)
  BY DEF RInv, Handled
<1>4. PICK q : CameBy(q, n)
  BY <1>3
<1>5. /\ q[0] = Beginning /\ q[n] = Here /\ q[n].pos \in n..taken
      /\ \A i \in 1..n : q[i] = ReadOne(agreed, InSoFar, q[i - 1])
  BY <1>4 DEF CameBy
<1>6. n \in 0..taken
  BY <1>1, <1>5
<1>7. f[n] = Here
  <2> DEFINE S == {i \in Nat : f[i] = q[i]}
  <2>1. 0 \in S
    BY <1>2, <1>5
  <2>2. ASSUME NEW i \in 1..n, i - 1 \in S PROVE i \in S
    <3>1. i \in 1..taken /\ i \in Nat
      BY <1>1, <1>6
    <3>2. f[i - 1] = q[i - 1]
      BY <2>2
    <3> QED
      BY <1>2, <1>5, <3>1, <3>2
  <2>3. \A i \in 0..n : i \in S
    <3> HIDE DEF S
    <3> QED
      BY <2>1, <2>2, UpTo
  <2> QED
    BY <1>5, <2>3
<1>8. /\ Here \in Place /\ Here.pos \in 0..taken /\ Here.msgs = received
      /\ agreed \in Encodings /\ received \in Seq(Message \cup {ParseError})
  BY RestIsUnread DEF IInv, TypeOK
<1>9. PICK k \in Nat : n + k = taken
  <2>1. taken - n \in Nat /\ n + (taken - n) = taken
    BY <1>1, <1>6
  <2> QED
    BY <2>1
<1>10. \A j \in 1..k : /\ n + j \in 1..taken /\ (n + j) - 1 = n + (j - 1)
  BY <1>1, <1>6, <1>9
<1>11. \A j \in 1..k : f[n + j] = ReadOne(agreed, InSoFar, f[n + (j - 1)])
  BY <1>2, <1>10
<1>12. IsPrefixOf(received, all.msgs)
  <2> DEFINE S == {j \in Nat : /\ f[n + j] \in Place /\ f[n + j].pos <= taken
                               /\ IsPrefixOf(received, f[n + j].msgs)}
  <2>1. 0 \in S
    <3>1. n + 0 = n /\ Here.pos <= taken
      BY <1>1, <1>8
    <3>2. IsPrefixOf(received, received)
      BY <1>8 DEF IsPrefixOf
    <3> QED
      BY <1>7, <1>8, <3>1, <3>2
  <2>2. ASSUME NEW j \in 1..k, j - 1 \in S PROVE j \in S
    <3>1. PICK p : p = f[n + (j - 1)]
      OBVIOUS
    <3>2. PICK r : r = f[n + j]
      OBVIOUS
    <3>3. p \in Place /\ p.pos <= taken /\ IsPrefixOf(received, p.msgs)
      BY <2>2, <3>1
    <3>4. r = ReadOne(agreed, InSoFar, p)
      BY <1>11, <3>1, <3>2
    <3>5. /\ r \in Place /\ r.pos <= taken
          /\ \/ r.msgs = p.msgs
             \/ \E m \in Message \cup {ParseError} :
                   r.msgs = Append(p.msgs, m)
      BY <1>1, <1>8, <3>3, <3>4, ReadOneIs
    <3>6. p.msgs \in Seq(Message \cup {ParseError})
      BY <3>3 DEF Place
    <3>7. IsPrefixOf(received, r.msgs)
      BY <1>8, <3>3, <3>5, <3>6, AppendKeepsPrefix
    <3> QED
      BY <3>2, <3>5, <3>7
  <2>3. \A j \in 0..k : j \in S
    <3> HIDE DEF S
    <3> QED
      BY <2>1, <2>2, UpTo
  <2>4. k \in S
    BY <2>3
  <2> QED
    BY <1>2, <1>9, <2>4 DEF all
<1>13. ASSUME io # "scan"
       PROVE  received = all.msgs /\ (io = "endless" <=> Empty(all.enc, rest))
  <2>1. ReadOne(agreed, InSoFar, Here) = Here
    BY <1>13 DEF RInv, NothingComplete
  <2> DEFINE S == {j \in Nat : f[n + j] = Here}
  <2>2. 0 \in S
    BY <1>7
  <2>3. ASSUME NEW j \in 1..k, j - 1 \in S PROVE j \in S
    BY <1>11, <2>1, <2>3
  <2>4. \A j \in 0..k : j \in S
    <3> HIDE DEF S
    <3> QED
      BY <2>2, <2>3, UpTo
  <2>5. k \in S
    BY <2>4
  <2>6. all = Here
    BY <1>2, <1>9, <2>5 DEF all
  <2>7. all.msgs = received /\ all.enc = current /\ rest = Unread
    BY <2>6, RestIsUnread DEF rest
  <2> QED
    BY <1>13, <2>7 DEF EndlessAtEmpty
<1> QED
  BY <1>12, <1>13

LEMMA AlwaysPlaces == Spec => [](IInv /\ RInv /\ EndlessAtEmpty)
<1> QED
  BY InitIInv, NextIInv, InitRInv, NextRInv, InitEndless, NextEndless, PTL
  DEF Spec, Safety

-----------------------------------------------------------------------------
(* The theorems.                                                           *)

\* The offsets stay in order and within the buffer, and the buffer within its
\* limits, for every sequence of writes, reads, moves and growths.
THEOREM TypeCorrect == Spec => []TypeOK
<1>1. IInv => TypeOK
  BY DEF IInv
<1> QED
  BY AlwaysIInv, <1>1, PTL

\* The io thread never sleeps while bytes wait that epoll will not report
\* again, unless the buffer is at its limit (connection_internal.cpp:8-29).
THEOREM NothingIsStranded == Spec => []NothingStranded
<1>1. IInv => NothingStranded
  BY DEF IInv
<1> QED
  BY AlwaysIInv, <1>1, PTL

\* What lies between the offsets are the bytes of the socket that come next,
\* as long as memcpy() copies forwards (connection_internal.cpp:9-30).
THEOREM BufferIsTheStream == Spec => []UnreadIsStream
<1>1. IInv => UnreadIsStream
  BY DEF IInv
<1> QED
  BY AlwaysIInv, <1>1, PTL

\* No line is left in the buffer when the next read begins, although the
\* search starts where the last one ended (connection_internal.cpp:29-56).
THEOREM EveryLineIsFound == Spec => []NoLineLeft
<1>1. IInv => NoLineLeft
  BY DEF IInv, Searched, NoLineLeft
<1> QED
  BY AlwaysIInv, <1>1, PTL

\* What the handler gets are the messages that were written, whole, once and
\* in their order, however the reads cut them and although .hello changes the
\* encoding between two of them, as long as calls do not overlap and memcpy()
\* copies forwards (connection_internal.cpp:5-63).
THEOREM HandledInOrder == Spec => []InOrder
<1> QED
  BY AlwaysOrdered, OrderedInOrder, PTL

\* No message that the json encoding lets pass fills the buffer without its
\* newline (encoding_json.cpp:38-39, connection_internal.cpp:12-19).
THEOREM SidesAgreeOnLimits == Spec => []LimitsAgree
<1> QED
  BY AlwaysOrdered, OrderedLimitsAgree, PTL

\* What is handled is what reading all the bytes at once gives, however the
\* reads cut them and wherever they lie in the buffer, also when overlapping
\* calls or a write cut short have made nonsense of the stream, as long as
\* memcpy() copies forwards (connection_internal.cpp:5-63).
THEOREM CutsNeverMatter == Spec => []CutsDoNotMatter
<1> QED
  BY AlwaysPlaces, PlacesTell, PTL
=============================================================================
