------------------------- MODULE EventStore_proofs -------------------------
(***************************************************************************)
(* Proofs about EventStore, for any sizes of events and buffers, any       *)
(* limits, and any number of events, files, changes of the limits and      *)
(* crashes.                                                                *)
(*                                                                         *)
(* A file is a sequence of units, and what it holds are its lines: the     *)
(* first sections say what appending, copying and recovering do to lines.  *)
(* The inductive invariant IInv says that the batches in memory agree with *)
(* the files (Consistent), that the posted list begins the file of the     *)
(* batch that the uploader works on (IsFrontList), which events are where  *)
(* (AcceptedIsKept, LinesAreWhole), and, without a crash, that the lines   *)
(* of all files are in order and behind what has been confirmed            *)
(* (UploadOrder).  QInv adds what the batches need to implement the queue  *)
(* of EventQueue: the order of the lines, also after crashes.              *)
(*                                                                         *)
(* A write that fails breaks IInv.  FaultInv, which is inductive also      *)
(* with write errors, is weaker: a batch believes in no more than its file *)
(* holds (LooseInv), and the events accepted before the first one that was *)
(* not are where no later write reaches (EarlyAreKept).  Only the theorems *)
(* that name IInv assume that no write fails.                              *)
(***************************************************************************)
EXTENDS EventStore, FiniteSetTheorems, SequenceTheorems, WellFoundedInduction,
        TLAPS

-----------------------------------------------------------------------------
(* Finite sets of numbers: their ranks and their maximum.                  *)

\* How many members of N are at most j.
Rank(N, j) == Cardinality({m \in N : m <= j})

LEMMA RankGrows ==
    ASSUME NEW N \in SUBSET Nat, IsFiniteSet(N),
           NEW j \in N, NEW k \in N, j < k
    PROVE  Rank(N, j) < Rank(N, k)
<1> DEFINE A == {m \in N : m <= j}
           B == {m \in N : m <= k}
<1>1. IsFiniteSet(B) /\ IsFiniteSet(A)
  <2>1. A \in SUBSET N /\ B \in SUBSET N
    OBVIOUS
  <2> QED
    BY <2>1, FS_Subset
<1>2. A \in SUBSET B /\ A # B
  <2>1. k \in B /\ k \notin A
    OBVIOUS
  <2>2. \A m \in N : m <= j => m <= k
    OBVIOUS
  <2>3. A \in SUBSET B
    BY <2>2, Zenon
  <2> QED
    BY <2>1, <2>3, Zenon
<1>3. Cardinality(A) <= Cardinality(B) /\ Cardinality(A) # Cardinality(B)
  BY <1>1, <1>2, FS_Subset
<1>4. Cardinality(A) \in Nat /\ Cardinality(B) \in Nat
  BY <1>1, FS_CardinalityType
<1> HIDE DEF A, B
<1>5. Cardinality(A) < Cardinality(B)
  BY <1>3, <1>4
<1> QED
  BY <1>5 DEF Rank, A, B

LEMMA RankRange ==
    ASSUME NEW N \in SUBSET Nat, IsFiniteSet(N), NEW j \in N
    PROVE  Rank(N, j) \in 1..Cardinality(N)
<1> DEFINE A == {m \in N : m <= j}
<1>1. A \in SUBSET N /\ j \in A
  OBVIOUS
<1> HIDE DEF A
<1>2. /\ IsFiniteSet(A) /\ Cardinality(A) <= Cardinality(N)
      /\ Cardinality(A) \in Nat /\ Cardinality(N) \in Nat
  BY <1>1, FS_Subset, FS_CardinalityType
<1>3. Cardinality(A) # 0
  BY <1>1, <1>2, FS_EmptySet
<1> QED
  BY <1>2, <1>3 DEF Rank, A

\* Every rank is the rank of exactly one member.
LEMMA RankOnto ==
    ASSUME NEW N \in SUBSET Nat, IsFiniteSet(N), NEW i \in 1..Cardinality(N)
    PROVE  \E j \in N : Rank(N, j) = i
<1> DEFINE n == Cardinality(N)
           r == [j \in N |-> Rank(N, j)]
<1>1. n \in Nat
  BY FS_CardinalityType
<1>2. IsFiniteSet(1..n) /\ Cardinality(1..n) = n
  <2> HIDE DEF n
  <2> QED
    BY <1>1, FS_Interval
<1>3. r \in [N -> 1..n]
  BY RankRange
<1>4. \A j, k \in N : r[j] = r[k] => j = k
  <2> SUFFICES ASSUME NEW j \in N, NEW k \in N, Rank(N, j) = Rank(N, k)
               PROVE  j = k
    OBVIOUS
  <2>1. Rank(N, j) \in Nat /\ Rank(N, k) \in Nat
    BY RankRange
  <2>2. ~ (j < k)
    BY <2>1, RankGrows
  <2>3. ~ (k < j)
    BY <2>1, RankGrows
  <2> QED
    BY <2>2, <2>3
<1>5. r \in Injection(N, 1..n)
  <2> HIDE DEF r, n
  <2> QED
    BY <1>3, <1>4 DEF Injection, IsInjective
<1>6. r \in Surjection(N, 1..n)
  <2> HIDE DEF r
  <2> QED
    BY <1>2, <1>5, FS_Injection
<1>7. i \in 1..n
  OBVIOUS
<1>8. \E j \in N : r[j] = i
  <2> HIDE DEF r, n
  <2> QED
    BY <1>6, <1>7 DEF Surjection
<1> QED
  BY <1>8

LEMMA LeastIsThere ==
    ASSUME NEW S, S \subseteq Nat, S # {}
    PROVE  Min(S) \in S /\ \A j \in S : Min(S) <= j
<1> DEFINE R == {p \in Nat \X Nat : p[1] < p[2]}
<1>1. IsWellFoundedOn(R, Nat)
  <2>1. OpToRel(<, Nat) = R
    BY Zenon DEF OpToRel
  <2> QED
    BY ONLY <2>1, NatLessThanWellFounded, Zenon
<1>2. \E x \in S : \A y \in S : ~ (<<y, x>> \in R)
  <2> HIDE DEF R
  <2> QED
    BY <1>1, WFMin
<1>3. PICK m \in S : \A y \in S : ~ (<<y, m>> \in R)
  BY <1>2
<1>4. \A y \in S : m <= y
  <2> TAKE y \in S
  <2>1. <<y, m>> \in Nat \X Nat /\ <<y, m>>[1] = y /\ <<y, m>>[2] = m
    OBVIOUS
  <2>2. ~ (y < m)
    BY <1>3, <2>1, Zenon
  <2> QED
    BY <2>2
<1>5. \E x \in S : \A y \in S : x <= y
  BY <1>4
<1> QED
  BY <1>5, Zenon DEF Min

LEMMA GreatestIsThere ==
    ASSUME NEW S, S \subseteq Nat, IsFiniteSet(S), S # {}
    PROVE  Max(S) \in S /\ \A j \in S : j <= Max(S)
<1>1. Cardinality(S) \in Nat /\ Cardinality(S) # 0
  BY FS_CardinalityType, FS_EmptySet
<1>2. PICK m \in S : Rank(S, m) = Cardinality(S)
  BY <1>1, RankOnto
<1>3. \A j \in S : j <= m
  <2> SUFFICES ASSUME NEW j \in S, m < j PROVE FALSE
    OBVIOUS
  <2>1. Rank(S, m) < Rank(S, j)
    BY RankGrows
  <2>2. Rank(S, j) \in 1..Cardinality(S)
    BY RankRange
  <2> QED
    BY <1>1, <1>2, <2>1, <2>2
<1>4. \E x \in S : \A y \in S : x >= y
  BY <1>3
<1>5. Max(S) \in S /\ \A y \in S : Max(S) >= y
  BY <1>4, Zenon DEF Max
<1> QED
  BY <1>5

-----------------------------------------------------------------------------
(* Files and their lines.                                                  *)

Unit == {u \in [ev : 1..MaxEvents, k : Nat, n : Nat] : 1 <= u.k /\ u.k <= u.n}
            \cup {Hole}
File == Seq(Unit)

\* The event of the line that ends at position j.
LineAt(f, j) == IF IsWhole(f, j) THEN f[j].ev ELSE Garbage
EventsIn(f) == {LineAt(f, j) : j \in Newlines(f)}

\* Nothing follows the last end of line.
Clean(f) == f = <<>> \/ Len(f) \in Newlines(f)

LEMMA NewlinesAreFinite ==
    ASSUME NEW f \in File
    PROVE  /\ Newlines(f) \in SUBSET (1..Len(f)) /\ Newlines(f) \in SUBSET Nat
           /\ IsFiniteSet(Newlines(f)) /\ Cardinality(Newlines(f)) \in Nat
<1>1. Len(f) \in Nat /\ DOMAIN f = 1..Len(f)
  BY DEF File
<1>2. Newlines(f) \in SUBSET (1..Len(f))
  BY <1>1 DEF Newlines
<1>3. IsFiniteSet(1..Len(f)) /\ 1..Len(f) \in SUBSET Nat
  BY <1>1, FS_Interval
<1>4. IsFiniteSet(Newlines(f))
  BY <1>2, <1>3, FS_Subset
<1> QED
  BY <1>2, <1>3, <1>4, FS_CardinalityType

LEMMA EndOfLineIsThere ==
    ASSUME NEW f \in File, NEW i \in 1..Cardinality(Newlines(f))
    PROVE  /\ EndOfLine(f, i) \in Newlines(f)
           /\ Rank(Newlines(f), EndOfLine(f, i)) = i
<1>1. \E j \in Newlines(f) : Rank(Newlines(f), j) = i
  BY NewlinesAreFinite, RankOnto
<1> QED
  BY <1>1, Zenon DEF EndOfLine, Rank

LEMMA EndOfItsLine ==
    ASSUME NEW f \in File, NEW j \in Newlines(f)
    PROVE  EndOfLine(f, Rank(Newlines(f), j)) = j
<1> DEFINE N == Newlines(f)
           i == Rank(N, j)
           e == EndOfLine(f, i)
<1>1. N \in SUBSET Nat /\ IsFiniteSet(N)
  BY NewlinesAreFinite
<1>2. i \in 1..Cardinality(N)
  BY <1>1, RankRange
<1>3. e \in N /\ Rank(N, e) = i
  BY <1>2, EndOfLineIsThere
<1> HIDE DEF e, i
<1>4. ~ (e < j) /\ ~ (j < e)
  <2>1. Rank(N, j) = i /\ i \in Nat
    BY <1>2 DEF i
  <2> QED
    BY <1>1, <1>3, <2>1, RankGrows
<1>5. e \in Nat /\ j \in Nat
  BY <1>1, <1>3
<1>6. e = j
  BY <1>4, <1>5
<1> QED
  BY <1>6 DEF e, i

LEMMA EventsAreLines ==
    ASSUME NEW f \in File
    PROVE  /\ DOMAIN EventsOf(f) = 1..Cardinality(Newlines(f))
           /\ \A i \in 1..Cardinality(Newlines(f)) :
                EventsOf(f)[i] = LineAt(f, EndOfLine(f, i))
           /\ Elements(EventsOf(f)) = EventsIn(f)
<1> DEFINE n == Cardinality(Newlines(f))
<1>1. EventsOf(f) = [i \in 1..n |-> LineAt(f, EndOfLine(f, i))]
  BY DEF EventsOf, LineAt
<1>2. DOMAIN EventsOf(f) = 1..n
      /\ \A i \in 1..n : EventsOf(f)[i] = LineAt(f, EndOfLine(f, i))
  BY <1>1
<1>3. \A i \in 1..n : EndOfLine(f, i) \in Newlines(f)
  BY EndOfLineIsThere
<1>4. \A j \in Newlines(f) :
        Rank(Newlines(f), j) \in 1..n /\ EndOfLine(f, Rank(Newlines(f), j)) = j
  BY NewlinesAreFinite, RankRange, EndOfItsLine
<1> HIDE DEF n
<1>5. Elements(EventsOf(f)) \subseteq EventsIn(f)
  BY <1>2, <1>3 DEF Elements, EventsIn
<1>6. EventsIn(f) \subseteq Elements(EventsOf(f))
  <2> SUFFICES ASSUME NEW j \in Newlines(f)
               PROVE  LineAt(f, j) \in Elements(EventsOf(f))
    BY DEF EventsIn
  <2>1. EventsOf(f)[Rank(Newlines(f), j)] = LineAt(f, j)
    BY <1>2, <1>4
  <2> QED
    BY <1>2, <1>4, <2>1 DEF Elements
<1> QED
  BY <1>2, <1>5, <1>6 DEF n

LEMMA WholeIsUnits ==
    ASSUME NEW f \in File, NEW j \in 1..Len(f)
    PROVE  /\ f[j].n \in Nat \ {0} /\ f[j].ev \in 0..MaxEvents
           /\ IsWhole(f, j) <=>
                /\ f[j].n <= j
                /\ j > f[j].n => j - f[j].n \in Newlines(f)
                /\ \A k \in 1..f[j].n :
                     f[j - f[j].n + k] =
                        [ev |-> f[j].ev, k |-> k, n |-> f[j].n]
<1> DEFINE n == f[j].n
           e == f[j].ev
<1>1. f \in Seq(Unit) /\ f[j] \in Unit
  BY DEF File
<1>2. n \in Nat \ {0} /\ e \in 0..MaxEvents
  <2>1. CASE f[j] = Hole
    BY <2>1, StoreAssumption DEF Hole
  <2>2. CASE f[j] # Hole
    BY <1>1, <2>2, StoreAssumption DEF Unit
  <2> QED
    BY <2>1, <2>2
<1> HIDE DEF n, e
<1>3. ASSUME n <= j
      PROVE  SubSeq(f, j - n + 1, j) = Line(e, n) <=>
                \A k \in 1..n : f[j - n + k] = [ev |-> e, k |-> k, n |-> n]
  <2> DEFINE s == SubSeq(f, j - n + 1, j)
             l == Line(e, n)
             a == j - n + 1
  <2>1. s = [k \in 1..n |-> f[j - n + k]]
    <3>1. /\ a \in Int /\ j \in Int /\ a <= j /\ j - a + 1 = n
          /\ \A i \in a..j : f[i] \in Unit
      BY <1>1, <1>2, <1>3
    <3>2. \A k \in 1..n : a + k - 1 = j - n + k
      BY <1>1, <1>2
    <3> HIDE DEF a
    <3>3. /\ SubSeq(f, a, j) \in Seq(Unit)
          /\ Len(SubSeq(f, a, j)) = n
          /\ \A k \in 1..n : SubSeq(f, a, j)[k] = f[a + k - 1]
      BY <3>1, SubSeqProperties
    <3> DEFINE z == SubSeq(f, a, j)
    <3>4. z = [k \in 1..n |-> z[k]]
      <4> HIDE DEF z
      <4>1. z \in Seq(Unit) /\ Len(z) = n
        BY <3>3 DEF z
      <4> QED
        BY <4>1, LenProperties
    <3>5. s = z
      BY DEF a
    <3>6. \A k \in 1..n : z[k] = f[j - n + k]
      BY <3>2, <3>3
    <3> HIDE DEF z
    <3>7. [k \in 1..n |-> z[k]] = [k \in 1..n |-> f[j - n + k]]
      BY <3>6
    <3> QED
      BY <3>4, <3>5, <3>7
  <2>2. l = [k \in 1..n |-> [ev |-> e, k |-> k, n |-> n]]
    BY DEF Line
  <2> HIDE DEF s, l
  <2>3. s = l <=> \A k \in 1..n : s[k] = l[k]
    BY <2>1, <2>2
  <2>4. \A k \in 1..n : s[k] = f[j - n + k]
                        /\ l[k] = [ev |-> e, k |-> k, n |-> n]
    BY <2>1, <2>2
  <2> QED
    BY <2>3, <2>4 DEF s, l
<1>4. IsWhole(f, j) <=>
        /\ n <= j
        /\ j > n => j - n \in Newlines(f)
        /\ SubSeq(f, j - n + 1, j) = Line(e, n)
  BY DEF IsWhole, n, e
<1>5. IsWhole(f, j) <=>
        /\ n <= j
        /\ j > n => j - n \in Newlines(f)
        /\ \A k \in 1..n : f[j - n + k] = [ev |-> e, k |-> k, n |-> n]
  BY <1>3, <1>4
<1> QED
  BY <1>2, <1>5 DEF n, e

\* What lies up to m decides on the lines that end there.
LEMMA SameBeginning ==
    ASSUME NEW f \in File, NEW g \in File, NEW m \in Nat,
           m <= Len(f), m <= Len(g), \A i \in 1..m : f[i] = g[i]
    PROVE  \A j \in 1..m : /\ j \in Newlines(f) <=> j \in Newlines(g)
                           /\ LineAt(f, j) = LineAt(g, j)
<1>1. Len(f) \in Nat /\ DOMAIN f = 1..Len(f) /\ Len(g) \in Nat
      /\ DOMAIN g = 1..Len(g)
  BY DEF File
<1>2. \A j \in 1..m : j \in Newlines(f) <=> j \in Newlines(g)
  BY <1>1 DEF Newlines
<1> SUFFICES ASSUME NEW j \in 1..m
             PROVE  LineAt(f, j) = LineAt(g, j)
  BY <1>2
<1> DEFINE n == f[j].n
           e == f[j].ev
<1>3. j \in 1..Len(f) /\ j \in 1..Len(g) /\ f[j] = g[j]
  BY <1>1
<1>4. n \in Nat \ {0}
  BY <1>3, WholeIsUnits
<1> HIDE DEF n, e
<1>5. IsWhole(f, j) <=>
        /\ n <= j
        /\ j > n => j - n \in Newlines(f)
        /\ \A k \in 1..n : f[j - n + k] = [ev |-> e, k |-> k, n |-> n]
  BY <1>3, WholeIsUnits DEF n, e
<1>6. IsWhole(g, j) <=>
        /\ n <= j
        /\ j > n => j - n \in Newlines(g)
        /\ \A k \in 1..n : g[j - n + k] = [ev |-> e, k |-> k, n |-> n]
  BY <1>3, WholeIsUnits DEF n, e
<1>7. n <= j => \A k \in 1..n : j - n + k \in 1..m
  BY <1>4
<1>8. n <= j => \A k \in 1..n : f[j - n + k] = g[j - n + k]
  BY <1>7
<1>9. n < j => (j - n \in Newlines(f) <=> j - n \in Newlines(g))
  BY <1>2, <1>4
<1>10. IsWhole(f, j) <=> IsWhole(g, j)
  BY <1>4, <1>5, <1>6, <1>8, <1>9
<1> QED
  BY <1>3, <1>10 DEF LineAt

LEMMA PrefixLines ==
    ASSUME NEW f \in File, NEW n \in 0..Len(f)
    PROVE  /\ First(f, n) \in File /\ Len(First(f, n)) = n
           /\ \A i \in 1..n : First(f, n)[i] = f[i]
           /\ Newlines(First(f, n)) = {j \in Newlines(f) : j <= n}
           /\ \A j \in 1..n : LineAt(First(f, n), j) = LineAt(f, j)
<1> DEFINE p == First(f, n)
<1>1. p \in File /\ Len(p) = n /\ \A i \in 1..n : p[i] = f[i]
  BY DEF File, First
<1>2. Len(f) \in Nat
  BY DEF File
<1> HIDE DEF p
<1>3. \A j \in 1..n : /\ j \in Newlines(f) <=> j \in Newlines(p)
                      /\ LineAt(f, j) = LineAt(p, j)
  BY <1>1, <1>2, SameBeginning
<1>4. Newlines(p) \in SUBSET (1..n) /\ Newlines(f) \in SUBSET (1..Len(f))
  BY <1>1, NewlinesAreFinite
<1>5. Newlines(p) = {j \in Newlines(f) : j <= n}
  BY <1>2, <1>3, <1>4
<1> QED
  BY <1>1, <1>3, <1>5 DEF p

\* What the constructor keeps holds the same lines and nothing after them.
LEMMA RecoverIsClean ==
    ASSUME NEW f \in File
    PROVE  /\ Recover(f) \in File /\ Clean(Recover(f))
           /\ Newlines(Recover(f)) = Newlines(f)
           /\ \A j \in Newlines(f) : LineAt(Recover(f), j) = LineAt(f, j)
           /\ EventsIn(Recover(f)) = EventsIn(f)
           /\ Len(Recover(f)) <= Len(f)
           /\ Clean(f) => Recover(f) = f
<1> DEFINE N == Newlines(f)
           n == Max(N \cup {0})
<1>1. N \in SUBSET (1..Len(f)) /\ IsFiniteSet(N) /\ N \in SUBSET Nat
  BY NewlinesAreFinite
<1>2. IsFiniteSet(N \cup {0})
  BY <1>1, FS_AddElement
<1>3. n \in N \cup {0} /\ \A j \in N : j <= n
  <2> DEFINE S == N \cup {0}
  <2>1. S \subseteq Nat /\ S # {} /\ IsFiniteSet(S)
    BY <1>1, <1>2
  <2> HIDE DEF S
  <2>2. Max(S) \in S /\ \A j \in S : j <= Max(S)
    BY <2>1, GreatestIsThere
  <2> QED
    BY <2>2 DEF S
<1>4. Len(f) \in Nat
  BY DEF File
<1>5. n \in 0..Len(f)
  BY <1>1, <1>3, <1>4
<1>6. Recover(f) = First(f, n)
  BY DEF Recover
<1> HIDE DEF n
<1>7. /\ First(f, n) \in File /\ Len(First(f, n)) = n
      /\ Newlines(First(f, n)) = {j \in N : j <= n}
      /\ \A j \in 1..n : LineAt(First(f, n), j) = LineAt(f, j)
  BY <1>5, PrefixLines
<1>8. Newlines(First(f, n)) = N
  BY <1>3, <1>7
<1>9. Clean(First(f, n))
  <2>1. CASE n = 0
    <3>1. First(f, n) \in Seq(Unit) /\ Len(First(f, n)) = 0
      BY <1>7, <2>1 DEF File
    <3>2. First(f, n) = <<>>
      BY <3>1
    <3> QED
      BY <3>2 DEF Clean
  <2>2. CASE n # 0
    BY <1>3, <1>7, <1>8, <2>2 DEF Clean
  <2> QED
    BY <2>1, <2>2
<1>10. \A j \in N : LineAt(First(f, n), j) = LineAt(f, j)
  BY <1>1, <1>3, <1>7
<1>11. EventsIn(First(f, n)) = EventsIn(f)
  BY <1>8, <1>10 DEF EventsIn
<1>12. ASSUME Clean(f) PROVE First(f, n) = f
  <2>1. n = Len(f)
    <3>1. CASE f = <<>>
      BY <1>5, <3>1
    <3>2. CASE Len(f) \in N
      BY <1>3, <1>5, <3>2
    <3> QED
      BY <1>12, <3>1, <3>2 DEF Clean
  <2> QED
    BY <2>1 DEF First, File
<1> QED
  BY <1>4, <1>5, <1>6, <1>7, <1>8, <1>9, <1>10, <1>11, <1>12

\* r is what follows position s of f, a position between two lines.
IsRest(r, f, s) ==
    /\ Len(r) = Len(f) - s
    /\ \A i \in 1..Len(r) : r[i] = f[s + i]
    /\ s = 0 \/ s \in Newlines(f)

LEMMA SubSeqIsRest ==
    ASSUME NEW f \in File, NEW s \in 0..Len(f), s = 0 \/ s \in Newlines(f)
    PROVE  /\ SubSeq(f, s + 1, Len(f)) \in File
           /\ IsRest(SubSeq(f, s + 1, Len(f)), f, s)
<1> DEFINE m == s + 1
           n == Len(f)
<1>1. m \in Int /\ n \in Int /\ f \in Seq(Unit) /\ s \in Nat /\ n \in Nat
      /\ s <= n /\ \A i \in m..n : f[i] \in Unit
  BY DEF File
<1> HIDE DEF n
<1>2. /\ SubSeq(f, m, n) \in Seq(Unit)
      /\ Len(SubSeq(f, m, n)) = IF m <= n THEN n - m + 1 ELSE 0
      /\ \A i \in 1..n - m + 1 : SubSeq(f, m, n)[i] = f[m + i - 1]
  <2> HIDE DEF m
  <2> QED
    BY <1>1, SubSeqProperties
<1>3. Len(SubSeq(f, m, n)) = n - s
  BY <1>1, <1>2
<1>4. \A i \in 1..n - s : SubSeq(f, m, n)[i] = f[s + i]
  <2> TAKE i \in 1..n - s
  <2>1. i \in 1..n - m + 1 /\ m + i - 1 = s + i
    BY <1>1
  <2> QED
    BY <1>2, <2>1
<1> HIDE DEF m
<1> QED
  BY <1>2, <1>3, <1>4 DEF IsRest, File, n, m

\* What follows the end of a line holds the lines after it.
LEMMA RestLines ==
    ASSUME NEW f \in File, NEW s \in 0..Len(f), NEW r \in File, IsRest(r, f, s)
    PROVE  \A i \in 1..Len(r) : /\ i \in Newlines(r) <=> s + i \in Newlines(f)
                                /\ LineAt(r, i) = LineAt(f, s + i)
<1>0. Len(f) \in Nat /\ DOMAIN f = 1..Len(f) /\ s \in Nat /\ f \in Seq(Unit)
      /\ Len(r) \in Nat /\ s <= Len(f)
  BY DEF File
<1>1. Len(r) = Len(f) - s /\ \A i \in 1..Len(r) : r[i] = f[s + i]
      /\ (s = 0 \/ s \in Newlines(f))
  BY DEF IsRest
<1>2. DOMAIN r = 1..Len(r)
  BY <1>1 DEF File
<1>3. \A i \in 1..Len(r) : i \in Newlines(r) <=> s + i \in Newlines(f)
  <2> TAKE i \in 1..Len(r)
  <2>1. r[i] = f[s + i] /\ i \in 1..Len(r) /\ s + i \in 1..Len(f)
    BY <1>0, <1>1
  <2> QED
    BY <1>0, <1>2, <2>1 DEF Newlines
<1> SUFFICES ASSUME NEW i \in 1..Len(r) PROVE LineAt(r, i) = LineAt(f, s + i)
  BY <1>1, <1>3
<1> DEFINE n == r[i].n
           e == r[i].ev
<1>4. i \in Nat /\ i <= Len(f) - s /\ s + i \in 1..Len(f) /\ r[i] = f[s + i]
  BY <1>0, <1>1
<1>5. n \in Nat \ {0}
  BY <1>1, WholeIsUnits
<1> HIDE DEF n, e
<1>6. IsWhole(r, i) <=>
        /\ n <= i
        /\ i > n => i - n \in Newlines(r)
        /\ \A q \in 1..n : r[i - n + q] = [ev |-> e, k |-> q, n |-> n]
  BY <1>1, WholeIsUnits DEF n, e
<1>7. IsWhole(f, s + i) <=>
        /\ n <= s + i
        /\ s + i > n => (s + i) - n \in Newlines(f)
        /\ \A q \in 1..n : f[(s + i) - n + q] = [ev |-> e, k |-> q, n |-> n]
  <2> DEFINE j == s + i
  <2>1. j \in 1..Len(f) /\ n = f[j].n /\ e = f[j].ev
    BY <1>4 DEF n, e
  <2> HIDE DEF j
  <2>2. IsWhole(f, j) <=>
          /\ n <= j
          /\ j > n => j - n \in Newlines(f)
          /\ \A q \in 1..n : f[j - n + q] = [ev |-> e, k |-> q, n |-> n]
    BY <2>1, WholeIsUnits
  <2> QED
    BY <2>2 DEF j
<1>8. ASSUME IsWhole(f, s + i) PROVE n <= i
  <2> SUFFICES ASSUME i < n PROVE FALSE
    BY <1>4, <1>5
  <2>1. n - i \in 1..n /\ n - i < n /\ (s + i) - n + (n - i) = s
    BY <1>0, <1>4, <1>5
  <2>2. f[s] = [ev |-> e, k |-> n - i, n |-> n]
    BY <1>7, <1>8, <2>1
  <2>3. s # 0
    BY <1>0, <1>4, <1>5, <1>7, <1>8
  <2>4. f[s].k = f[s].n
    BY <1>1, <2>3 DEF Newlines
  <2> QED
    BY <1>4, <1>5, <2>2, <2>4
<1>9. ASSUME n <= i
      PROVE  /\ \A q \in 1..n : r[i - n + q] = f[(s + i) - n + q]
             /\ i > n => (i - n \in Newlines(r) <=> (s + i) - n \in Newlines(f))
             /\ ~ (i > n) /\ s + i > n => (s + i) - n \in Newlines(f)
  <2>1. \A q \in 1..n : i - n + q \in 1..Len(r)
                        /\ s + (i - n + q) = (s + i) - n + q
    BY <1>0, <1>4, <1>5, <1>9
  <2>2. \A q \in 1..n : r[i - n + q] = f[(s + i) - n + q]
    BY <1>1, <2>1
  <2>3. i > n => i - n \in 1..Len(r) /\ s + (i - n) = (s + i) - n
    BY <1>0, <1>4, <1>5
  <2>4. i > n => (i - n \in Newlines(r) <=> (s + i) - n \in Newlines(f))
    BY <1>3, <2>3
  <2>5. ~ (i > n) => (s + i) - n = s
    BY <1>0, <1>4, <1>5, <1>9
  <2> QED
    BY <1>0, <1>1, <1>4, <1>5, <2>2, <2>4, <2>5
<1>10. n <= i => n <= s + i /\ (i > n => s + i > n)
  BY <1>0, <1>4, <1>5
<1>11. IsWhole(r, i) <=> IsWhole(f, s + i)
  BY <1>6, <1>7, <1>8, <1>9, <1>10
<1> QED
  BY <1>4, <1>11 DEF LineAt

LEMMA RestHoldsTheRest ==
    ASSUME NEW f \in File, NEW s \in 0..Len(f), NEW r \in File, IsRest(r, f, s)
    PROVE  /\ Clean(f) => Clean(r)
           /\ EventsIn(f) = EventsIn(First(f, s)) \cup EventsIn(r)
           /\ Cardinality(Newlines(f)) =
                Cardinality(Newlines(First(f, s))) + Cardinality(Newlines(r))
<1>0. Len(f) \in Nat /\ DOMAIN f = 1..Len(f) /\ s \in Nat /\ f \in Seq(Unit)
      /\ Len(r) \in Nat /\ s <= Len(f)
  BY DEF File
<1>1. /\ Len(r) = Len(f) - s
      /\ \A i \in 1..Len(r) : /\ i \in Newlines(r) <=> s + i \in Newlines(f)
                              /\ LineAt(r, i) = LineAt(f, s + i)
  BY RestLines DEF IsRest
<1> DEFINE A == Newlines(First(f, s))
           B == {j \in Newlines(f) : j > s}
           C == Newlines(r)
<1>2. /\ A = {j \in Newlines(f) : j <= s}
      /\ \A j \in 1..s : LineAt(First(f, s), j) = LineAt(f, j)
  BY PrefixLines
<1>3. Newlines(f) \in SUBSET (1..Len(f)) /\ IsFiniteSet(Newlines(f))
  BY NewlinesAreFinite
<1>4. C \in SUBSET (1..Len(r)) /\ IsFiniteSet(C)
  BY <1>1, NewlinesAreFinite
<1>5. Newlines(f) = A \cup B /\ A \cap B = {}
  BY <1>0, <1>2, <1>3
<1>6. \A j \in B : j - s \in C /\ s + (j - s) = j
  BY <1>0, <1>1, <1>3
<1>7. \A i \in C : s + i \in B /\ (s + i) - s = i
  BY <1>0, <1>1, <1>4
<1>8. ASSUME Clean(f) PROVE Clean(r)
  <2>1. CASE Len(r) = 0
    BY <1>1, <2>1 DEF Clean, File
  <2>2. CASE Len(r) # 0
    <3> HIDE DEF A, B, C
    <3>0. Len(r) = Len(f) - s
      BY <1>1
    <3>4. Len(r) \in 1..Len(r)
      BY <1>0, <2>2
    <3>5. s + Len(r) = Len(f)
      BY <1>0, <3>0
    <3>6. Len(f) # 0
      BY <1>0, <2>2, <3>5
    <3>1. Len(r) \in 1..Len(r) /\ s + Len(r) = Len(f) /\ Len(f) # 0
      BY <3>4, <3>5, <3>6
    <3>2. Len(f) \in Newlines(f)
      BY <1>8, <3>1 DEF Clean
    <3> QED
      BY <1>1, <3>1, <3>2 DEF Clean
  <2> QED
    BY <2>1, <2>2
<1>9. EventsIn(f) = EventsIn(First(f, s)) \cup EventsIn(r)
  <2>1. \A j \in A : j \in Newlines(f) /\ LineAt(First(f, s), j) = LineAt(f, j)
    BY <1>0, <1>2, <1>3
  <2>2. \A j \in B : j - s \in C /\ LineAt(r, j - s) = LineAt(f, j)
    BY <1>1, <1>4, <1>6
  <2>3. \A i \in C : s + i \in Newlines(f) /\ LineAt(r, i) = LineAt(f, s + i)
    BY <1>1, <1>4
  <2> HIDE DEF A, B, C
  <2>4. EventsIn(f) = {LineAt(f, j) : j \in A \cup B}
    BY <1>5 DEF EventsIn
  <2>5. EventsIn(First(f, s)) = {LineAt(First(f, s), j) : j \in A}
        /\ EventsIn(r) = {LineAt(r, i) : i \in C}
    BY DEF EventsIn, A, C
  <2>6. \A j \in B : LineAt(f, j) \in EventsIn(r)
    BY <2>2, <2>5
  <2>7. \A j \in A : LineAt(f, j) \in EventsIn(First(f, s))
    BY <2>1, <2>5
  <2>8. EventsIn(f) \subseteq EventsIn(First(f, s)) \cup EventsIn(r)
    BY <2>4, <2>6, <2>7
  <2>9. EventsIn(r) \subseteq EventsIn(f)
    BY <2>3, <2>5 DEF EventsIn
  <2>10. EventsIn(First(f, s)) \subseteq EventsIn(f)
    BY <2>1, <2>5 DEF EventsIn
  <2> QED
    BY <2>8, <2>9, <2>10
<1>10. Cardinality(Newlines(f)) = Cardinality(A) + Cardinality(C)
  <2> DEFINE move == [j \in B |-> j - s]
  <2>1. A \in SUBSET Newlines(f) /\ B \in SUBSET Newlines(f)
    BY <1>5
  <2>2. move \in [B -> C]
    BY <1>6
  <2>3. \A i \in C : move[s + i] = i /\ s + i \in B
    <3> HIDE DEF B, C
    <3> QED
      BY <1>7
  <2>4. \A j, k \in B : move[j] = move[k] => j = k
    BY <1>0, <1>6, <1>3
  <2> HIDE DEF A, B, C, move
  <2>5. move \in Bijection(B, C)
    BY <2>2, <2>3, <2>4 DEF Bijection, Injection, Surjection, IsInjective
  <2>6. IsFiniteSet(A) /\ IsFiniteSet(B)
    BY <1>3, <2>1, FS_Subset
  <2>7. Cardinality(B) = Cardinality(C)
    BY <2>5, <2>6, FS_Bijection DEF ExistsBijection
  <2>8. Cardinality(A \cup B) = Cardinality(A) + Cardinality(B)
                                    - Cardinality(A \cap B)
    BY <2>6, FS_Union
  <2>9. Cardinality(A \cap B) = 0
    BY <1>5, FS_EmptySet
  <2>10. Cardinality(A) \in Nat /\ Cardinality(B) \in Nat
    BY <2>6, FS_CardinalityType
  <2> QED
    BY <1>5, <2>7, <2>8, <2>9, <2>10
<1> QED
  BY <1>8, <1>9, <1>10

-----------------------------------------------------------------------------
(* Writing.                                                                *)

LEMMA LineIsFile ==
    ASSUME NEW e \in 1..MaxEvents, NEW n \in Nat \ {0}
    PROVE  /\ Line(e, n) \in File /\ Len(Line(e, n)) = n
           /\ \A i \in 1..n : Line(e, n)[i] = [ev |-> e, k |-> i, n |-> n]
<1>1. \A i \in 1..n : [ev |-> e, k |-> i, n |-> n] \in Unit
  BY DEF Unit
<1>2. Line(e, n) = [i \in 1..n |-> [ev |-> e, k |-> i, n |-> n]]
  BY DEF Line
<1>3. Line(e, n) \in Seq(Unit)
  BY <1>1, <1>2, SeqDef
<1> QED
  BY <1>2, <1>3 DEF File

LEMMA GreaterOfTwo ==
    ASSUME NEW a \in Nat, NEW b \in Nat
    PROVE  Max({a, b}) = IF a >= b THEN a ELSE b
<1> DEFINE S == {a, b}
<1>1. \E x \in S : \A y \in S : x >= y
  BY DEF S
<1>2. Max(S) \in S /\ \A y \in S : Max(S) >= y
  <2> HIDE DEF S
  <2> QED
    BY <1>1, Zenon DEF Max
<1>3. Max(S) \in {a, b} /\ Max(S) >= a /\ Max(S) >= b
  BY <1>2
<1> HIDE DEF S
<1>4. Max(S) = IF a >= b THEN a ELSE b
  BY <1>3
<1> QED
  BY <1>4 DEF S

\* A write within the file, or at its end, leaves no gap.
LEMMA WriteWithin ==
    ASSUME NEW f \in File, NEW data \in File, NEW pos \in 0..Len(f)
    PROVE  /\ WriteAt(f, pos, data) \in File
           /\ Len(WriteAt(f, pos, data)) =
                IF Len(f) >= pos + Len(data) THEN Len(f) ELSE pos + Len(data)
           /\ \A i \in 1..Len(WriteAt(f, pos, data)) :
                WriteAt(f, pos, data)[i] =
                    IF i \in pos + 1..pos + Len(data) THEN data[i - pos] ELSE f[i]
<1> DEFINE m == pos + Len(data)
           l == IF Len(f) >= m THEN Len(f) ELSE m
           w(i) == IF i \in pos + 1..m THEN data[i - pos] ELSE f[i]
           g == [i \in 1..l |-> w(i)]
<1>1. f \in Seq(Unit) /\ data \in Seq(Unit) /\ Len(f) \in Nat /\ pos \in Nat
      /\ Len(data) \in Nat /\ pos <= Len(f)
  BY DEF File
<1>2. m \in Nat /\ l \in Nat
  BY <1>1
<1>3. Max({Len(f), m}) = l
  <2> HIDE DEF m
  <2> QED
    BY <1>1, <1>2, GreaterOfTwo
<1>4. WriteAt(f, pos, data) =
        [i \in 1..l |-> IF i \in pos + 1..m THEN data[i - pos]
                        ELSE IF i <= Len(f) THEN f[i] ELSE Hole]
  <2> HIDE DEF l
  <2> QED
    BY <1>3, Zenon DEF WriteAt, m
<1>5. \A i \in 1..l : i \notin pos + 1..m => i \in 1..Len(f)
  BY <1>1, <1>2
<1>6. WriteAt(f, pos, data) = g
  BY <1>4, <1>5
<1>7. \A i \in 1..l : w(i) \in Unit
  <2> TAKE i \in 1..l
  <2>1. CASE i \in pos + 1..m
    <3>1. i - pos \in 1..Len(data)
      BY <1>1, <2>1
    <3> QED
      BY <1>1, <2>1, <3>1
  <2>2. CASE i \notin pos + 1..m
    BY <1>1, <1>5, <2>2
  <2> QED
    BY <2>1, <2>2
<1> HIDE DEF m, l, w
<1>8. g \in Seq(Unit) /\ Len(g) = l
  BY <1>2, <1>7, SeqDef
<1>9. \A i \in 1..l : g[i] = w(i)
  OBVIOUS
<1> QED
  BY <1>6, <1>8, <1>9 DEF File, l, m, w

\* An event that is written at the end is a line of its own.
\* A line, or the first o units of it, is written behind f.
Appends(g, f, e, n) == g = WriteAt(f, Len(f), Line(e, n))
AppendsPart(g, f, e, n, o) == g = WriteAt(f, Len(f), First(Line(e, n), o))

LEMMA LineIsAppended ==
    ASSUME NEW f \in File, Clean(f), NEW e \in 1..MaxEvents, NEW n \in Nat \ {0},
           NEW g, Appends(g, f, e, n)
    PROVE  /\ g \in File /\ Len(g) = Len(f) + n /\ Clean(g)
           /\ \A i \in 1..Len(f) : g[i] = f[i]
           /\ Newlines(g) = Newlines(f) \cup {Len(f) + n}
           /\ Cardinality(Newlines(g)) = Cardinality(Newlines(f)) + 1
           /\ LineAt(g, Len(f) + n) = e
           /\ EventsIn(g) = EventsIn(f) \cup {e}
<1> DEFINE l == Len(f)
           m == l + n
           d == Line(e, n)
<1>1. f \in Seq(Unit) /\ l \in Nat /\ DOMAIN f = 1..l
  BY DEF File
<1>2. d \in File /\ Len(d) = n
      /\ \A i \in 1..n : d[i] = [ev |-> e, k |-> i, n |-> n]
  BY LineIsFile
<1> HIDE DEF d
<1>3. g \in File /\ Len(g) = m
      /\ \A i \in 1..m : g[i] = IF i \in l + 1..m THEN d[i - l] ELSE f[i]
  <2>1. /\ g \in File
        /\ Len(g) = IF l >= l + Len(d) THEN l ELSE l + Len(d)
        /\ \A i \in 1..Len(g) :
             g[i] = IF i \in l + 1..l + Len(d) THEN d[i - l] ELSE f[i]
    BY <1>1, <1>2, WriteWithin DEF d, Appends
  <2> QED
    BY <1>1, <1>2, <2>1
<1>4. m \in Nat /\ m \in 1..m /\ l <= m /\ l < m
  BY <1>1
<1>5. \A i \in 1..l : g[i] = f[i]
  BY <1>1, <1>3, <1>4
<1>6. \A i \in 1..n : l + i \in l + 1..m /\ l + i \in 1..m /\ (l + i) - l = i
  BY <1>1
<1>7. \A i \in 1..n : g[l + i] = [ev |-> e, k |-> i, n |-> n]
  BY <1>2, <1>3, <1>6
<1>8. DOMAIN g = 1..m
  BY <1>3 DEF File
<1> HIDE DEF m
<1>9. \A i \in 1..n : l + i \in Newlines(g) <=> i = n
  <2> TAKE i \in 1..n
  <2>1. l + i \in DOMAIN g
    BY <1>6, <1>8
  <2>2. g[l + i] = [ev |-> e, k |-> i, n |-> n]
    BY <1>7
  <2>3. g[l + i].k = i /\ g[l + i].n = n
    BY <2>2
  <2> QED
    BY <2>1, <2>3 DEF Newlines
<1>10. \A j \in 1..l : /\ j \in Newlines(f) <=> j \in Newlines(g)
                       /\ LineAt(f, j) = LineAt(g, j)
  BY <1>1, <1>3, <1>4, <1>5, SameBeginning
<1>11. \A j \in 1..m : j \in 1..l \/ (j - l \in 1..n /\ l + (j - l) = j)
  BY <1>1, <1>4 DEF m
<1>12. Newlines(f) \in SUBSET (1..l) /\ Newlines(g) \in SUBSET (1..m)
       /\ IsFiniteSet(Newlines(f)) /\ m \notin 1..l
  BY <1>1, <1>3, <1>4, NewlinesAreFinite
<1>13. Newlines(g) = Newlines(f) \cup {m}
  <2>1. m \in Newlines(g)
    BY <1>9, <1>6 DEF m
  <2>2. \A j \in Newlines(g) : j \in Newlines(f) \/ j = m
    <3> TAKE j \in Newlines(g)
    <3>1. j \in 1..m
      BY <1>12
    <3>2. CASE j \in 1..l
      BY <1>10, <3>2
    <3>3. CASE j - l \in 1..n /\ l + (j - l) = j
      <4>1. j - l = n
        BY <1>9, <3>3
      <4> QED
        BY <3>3, <4>1 DEF m
    <3> QED
      BY <1>11, <3>1, <3>2, <3>3
  <2>3. Newlines(f) \subseteq Newlines(g)
    BY <1>10, <1>12
  <2> QED
    BY <2>1, <2>2, <2>3
<1>14. Cardinality(Newlines(g)) = Cardinality(Newlines(f)) + 1
  BY <1>12, <1>13, FS_AddElement
<1>15. LineAt(g, m) = e
  <2>1. g[m] = [ev |-> e, k |-> n, n |-> n]
    BY <1>7 DEF m
  <2>2. g[m].n = n /\ g[m].ev = e /\ m - n = l
    BY <1>1, <2>1 DEF m
  <2>3. n <= m /\ (m > n => l \in Newlines(g))
    <3>1. l # 0 => l \in Newlines(f)
      BY DEF Clean
    <3>2. l # 0 => l \in Newlines(g)
      BY <3>1, <1>13
    <3> QED
      BY <1>1, <3>2 DEF m
  <2>4. \A i \in 1..n : g[m - n + i] = [ev |-> e, k |-> i, n |-> n]
    BY <1>7, <2>2
  <2>5. IsWhole(g, m)
    <3>1. m \in 1..Len(g) /\ (m > n => m - n \in Newlines(g))
      BY <1>3, <1>4, <2>2, <2>3
    <3>2. /\ g[m].n <= m
          /\ m > g[m].n => m - g[m].n \in Newlines(g)
          /\ \A i \in 1..g[m].n : g[m - g[m].n + i] =
                                    [ev |-> g[m].ev, k |-> i, n |-> g[m].n]
      BY <2>2, <2>3, <2>4, <3>1
    <3> QED
      BY <1>3, <3>1, <3>2, WholeIsUnits
  <2> QED
    BY <2>2, <2>5 DEF LineAt
<1>16. EventsIn(g) = EventsIn(f) \cup {e}
  <2>1. \A j \in Newlines(f) : LineAt(g, j) = LineAt(f, j)
    BY <1>10, <1>12
  <2> QED
    BY <1>13, <1>15, <2>1 DEF EventsIn
<1>17. Clean(g)
  BY <1>3, <1>13 DEF Clean
<1> QED
  BY <1>3, <1>5, <1>13, <1>14, <1>15, <1>16, <1>17 DEF m

\* A part of an event is no line.
LEMMA PartIsAppended ==
    ASSUME NEW f \in File, NEW e \in 1..MaxEvents, NEW n \in Nat \ {0},
           NEW o \in 0..n - 1,
           NEW g, AppendsPart(g, f, e, n, o)
    PROVE  /\ g \in File /\ Len(g) = Len(f) + o
           /\ \A i \in 1..Len(f) : g[i] = f[i]
           /\ Newlines(g) = Newlines(f)
           /\ \A j \in Newlines(f) : LineAt(g, j) = LineAt(f, j)
           /\ EventsIn(g) = EventsIn(f)
<1> DEFINE l == Len(f)
           m == l + o
           d == First(Line(e, n), o)
<1>1. f \in Seq(Unit) /\ l \in Nat /\ DOMAIN f = 1..l /\ o \in Nat /\ o < n
  BY DEF File
<1>2. d \in File /\ Len(d) = o
      /\ \A i \in 1..o : d[i] = [ev |-> e, k |-> i, n |-> n]
  <2>1. /\ Line(e, n) \in File /\ Len(Line(e, n)) = n
        /\ \A i \in 1..n : Line(e, n)[i] = [ev |-> e, k |-> i, n |-> n]
    BY LineIsFile
  <2>2. o \in 0..Len(Line(e, n))
    BY <1>1, <2>1
  <2>3. d \in File /\ Len(d) = o /\ \A i \in 1..o : d[i] = Line(e, n)[i]
    BY <2>1, <2>2, PrefixLines
  <2> QED
    BY <1>1, <2>1, <2>3
<1> HIDE DEF d
<1>3. g \in File /\ Len(g) = m
      /\ \A i \in 1..m : g[i] = IF i \in l + 1..m THEN d[i - l] ELSE f[i]
  <2>1. /\ g \in File
        /\ Len(g) = IF l >= l + Len(d) THEN l ELSE l + Len(d)
        /\ \A i \in 1..Len(g) :
             g[i] = IF i \in l + 1..l + Len(d) THEN d[i - l] ELSE f[i]
    BY <1>1, <1>2, WriteWithin, SMTT(30) DEF d, AppendsPart
  <2>2. l + Len(d) = m /\ Len(g) = m
    BY <1>1, <1>2, <2>1
  <2> QED
    BY <2>1, <2>2
<1>4. m \in Nat /\ l <= m
  BY <1>1
<1>5. \A i \in 1..l : g[i] = f[i]
  BY <1>1, <1>3, <1>4
<1>6. \A j \in l + 1..m : g[j] = d[j - l] /\ j - l \in 1..o /\ j \in 1..m
  BY <1>1, <1>3
<1>7. \A j \in l + 1..m : g[j].k # g[j].n
  BY <1>1, <1>2, <1>6
<1>8. DOMAIN g = 1..m
  BY <1>3 DEF File
<1>9. \A j \in 1..l : /\ j \in Newlines(f) <=> j \in Newlines(g)
                      /\ LineAt(f, j) = LineAt(g, j)
  <2>1. l \in Nat /\ l <= Len(f) /\ l <= Len(g) /\ g \in File
        /\ \A i \in 1..l : f[i] = g[i]
    BY <1>1, <1>3, <1>4, <1>5
  <2> HIDE DEF l, m
  <2> QED
    BY <2>1, SameBeginning
<1>10. \A j \in 1..m : j \in 1..l \/ j \in l + 1..m
  BY <1>1, <1>4
<1>11. Newlines(f) \in SUBSET (1..l) /\ Newlines(g) \in SUBSET (1..m)
  BY <1>3, NewlinesAreFinite
<1> HIDE DEF m
<1>12. Newlines(g) = Newlines(f)
  <2>1. \A j \in Newlines(g) : j \notin l + 1..m
    BY <1>7 DEF Newlines
  <2> QED
    BY <1>9, <1>10, <1>11, <2>1
<1>13. \A j \in Newlines(f) : LineAt(g, j) = LineAt(f, j)
  BY <1>9, <1>11
<1>14. EventsIn(g) = EventsIn(f)
  BY <1>12, <1>13 DEF EventsIn
<1> QED
  BY <1>3, <1>5, <1>12, <1>13, <1>14 DEF m

\* A copy of data over the beginning of a file.
Copies(g, f, data) == g = WriteAt(f, 0, data)

LEMMA CopyOverBeginning ==
    ASSUME NEW f \in File, NEW data \in File, Len(data) <= Len(f),
           NEW g, Copies(g, f, data)
    PROVE  /\ g \in File /\ Len(g) = Len(f)
           /\ \A i \in 1..Len(f) : g[i] = IF i <= Len(data) THEN data[i] ELSE f[i]
           /\ EventsIn(data) \subseteq EventsIn(g)
<1>1. Len(f) \in Nat /\ Len(data) \in Nat
  BY DEF File
<1>2. /\ g \in File
      /\ Len(g) = IF Len(f) >= 0 + Len(data) THEN Len(f) ELSE 0 + Len(data)
      /\ \A i \in 1..Len(g) :
           g[i] = IF i \in 0 + 1..0 + Len(data) THEN data[i - 0] ELSE f[i]
  BY <1>1, WriteWithin DEF Copies
<1>3. Len(g) = Len(f)
  BY <1>1, <1>2
<1>4. \A i \in 1..Len(f) : g[i] = IF i <= Len(data) THEN data[i] ELSE f[i]
  BY <1>1, <1>2, <1>3
<1>5. \A j \in 1..Len(data) : /\ j \in Newlines(data) <=> j \in Newlines(g)
                              /\ LineAt(data, j) = LineAt(g, j)
  <2>1. \A i \in 1..Len(data) : data[i] = g[i]
    BY <1>1, <1>4
  <2>2. Len(data) <= Len(data) /\ Len(data) <= Len(g)
    BY <1>1, <1>3
  <2> QED
    BY <1>1, <1>2, <2>1, <2>2, SameBeginning
<1>6. Newlines(data) \in SUBSET (1..Len(data))
  BY NewlinesAreFinite
<1>7. EventsIn(data) \subseteq EventsIn(g)
  BY <1>5, <1>6 DEF EventsIn
<1> QED
  BY <1>2, <1>3, <1>4, <1>7

-----------------------------------------------------------------------------
(* Objects of FileEventBatch.                                              *)

Batch == [id : Ids, open : BOOLEAN, finalized : BOOLEAN, fileSize : Nat,
          eventCount : Int, streamAtEnd : BOOLEAN, pos : Nat]

\* What the object b knows of its file f is true.  After a write error this
\* is not exact: the file may go on behind fileSize, which is not before it.
Knows(b, f, exact) ==
    /\ b.open /\ f \in File
    /\ b.fileSize <= Len(f)
    /\ b.streamAtEnd => b.fileSize <= b.pos
    /\ exact =>
         /\ b.fileSize = Len(f) /\ Clean(f)
         /\ b.eventCount = Cardinality(Newlines(f))
         /\ b.streamAtEnd => b.pos = Len(f)

KnowsExactly(b, f) ==
    /\ b.open /\ f \in File /\ Clean(f) /\ b.fileSize = Len(f)
    /\ b.eventCount = Cardinality(Newlines(f))
    /\ b.streamAtEnd => b.pos = Len(f)

LEMMA ExactlyKnown ==
    ASSUME NEW b, NEW f
    PROVE  Knows(b, f, TRUE) <=> KnowsExactly(b, f)
<1>1. f \in File => Len(f) \in Nat
  BY DEF File
<1> QED
  BY <1>1 DEF Knows, KnowsExactly

\* The list l holds the first lines of f.
IsListOf(l, f) ==
    /\ l.size \in 0..Len(f)
    /\ l.size = 0 \/ l.size \in Newlines(f)
    /\ l.data = First(f, l.size)
    /\ l.events = Cardinality(Newlines(First(f, l.size)))

LEMMA OpenedKnows ==
    ASSUME NEW exact \in BOOLEAN,
           NEW f \in File, NEW id \in Ids, NEW fin \in BOOLEAN
    PROVE  /\ OpenBatch(id, f, fin) \in Batch
           /\ OpenBatch(id, f, fin).id = id
           /\ OpenBatch(id, f, fin).finalized = fin
           /\ OpenBatch(id, f, fin).fileSize = Len(Recover(f))
           /\ Knows(OpenBatch(id, f, fin), Recover(f), exact)
<1>1. /\ Recover(f) \in File /\ Clean(Recover(f))
      /\ Newlines(Recover(f)) = Newlines(f)
  BY RecoverIsClean
<1>2. Cardinality(Newlines(f)) \in Nat /\ Len(Recover(f)) \in Nat
  BY <1>1, NewlinesAreFinite DEF File
<1> QED
  BY <1>1, <1>2 DEF OpenBatch, Batch, Knows

LEMMA EmptyFile == /\ <<>> \in File /\ Clean(<<>>) /\ Newlines(<<>>) = {}
                   /\ Recover(<<>>) = <<>> /\ EventsIn(<<>>) = {}
                   /\ Len(<<>>) = 0
<1>1. <<>> \in File /\ Clean(<<>>) /\ Newlines(<<>>) = {} /\ Len(<<>>) = 0
  BY DEF File, Clean, Newlines
<1> QED
  BY <1>1, RecoverIsClean DEF EventsIn

LEMMA NoFileIsNoFile == NoFile \notin File
<1> SUFFICES ASSUME NoFile \in File PROVE FALSE
  OBVIOUS
<1>1. NoFile \in Seq(Unit) /\ Len(NoFile) = 1 /\ NoFile[1].n = 0
  BY DEF NoFile, File
<1>2. NoFile[1] \in Unit
  <2> DEFINE x == NoFile
  <2>1. x \in Seq(Unit) /\ 1 \in 1..Len(x)
    BY <1>1
  <2> HIDE DEF x
  <2>2. x[1] \in Unit
    BY <2>1, ElementOfSeq
  <2> QED
    BY <2>2 DEF x
<1> QED
  BY <1>1, <1>2 DEF Unit, Hole

IsWritten(w, b, f, e, n) == w = Written(b, f, Line(e, n))

LEMMA LineIsWritten ==
    ASSUME NEW b \in Batch, NEW f, KnowsExactly(b, f),
           NEW e \in 1..MaxEvents, NEW n \in Nat \ {0},
           NEW w, IsWritten(w, b, f, e, n)
    PROVE  /\ Appends(w.file, f, e, n)
           /\ w.batch \in Batch /\ w.batch.id = b.id
           /\ w.batch.finalized = b.finalized
           /\ KnowsExactly(w.batch, w.file)
           /\ Len(w.file) = Len(f) + n
<1> DEFINE s == SeekToEnd(b, f)
           d == Line(e, n)
<1>1. f \in File /\ Clean(f) /\ Len(f) \in Nat
  BY DEF KnowsExactly, File
<1>2. Len(d) = n
  BY LineIsFile
<1>3. /\ s \in Batch /\ s.id = b.id /\ s.finalized = b.finalized
      /\ s.streamAtEnd /\ s.pos = Len(f) /\ s.fileSize = Len(f)
      /\ s.open /\ s.eventCount = b.eventCount
  BY <1>1 DEF SeekToEnd, Batch, KnowsExactly
<1> HIDE DEF s, d
<1>4. /\ w.batch = [s EXCEPT !.fileSize = @ + n, !.eventCount = @ + 1,
                             !.pos = @ + n]
      /\ w.file = WriteAt(f, Len(f), d)
  BY <1>2, <1>3 DEF IsWritten, Written, s, d
<1>10. Appends(w.file, f, e, n)
  BY <1>4 DEF Appends, d
<1>5. /\ w.file \in File /\ Len(w.file) = Len(f) + n /\ Clean(w.file)
      /\ Cardinality(Newlines(w.file)) = Cardinality(Newlines(f)) + 1
  BY <1>1, <1>10, LineIsAppended, SMTT(30)
<1>6. w.batch \in Batch /\ w.batch.id = b.id /\ w.batch.finalized = b.finalized
  <2>1. s.fileSize + n \in Nat /\ s.eventCount + 1 \in Int /\ s.pos + n \in Nat
    BY <1>3 DEF Batch
  <2> QED
    BY <1>3, <1>4, <2>1 DEF Batch
<1>7. /\ w.batch.fileSize = Len(f) + n /\ w.batch.open
      /\ w.batch.eventCount = b.eventCount + 1 /\ w.batch.pos = Len(f) + n
  BY <1>3, <1>4 DEF Batch
<1>8. b.eventCount = Cardinality(Newlines(f))
  BY DEF KnowsExactly
<1>9. KnowsExactly(w.batch, w.file)
  BY <1>5, <1>7, <1>8 DEF KnowsExactly
<1> QED
  BY <1>5, <1>6, <1>9, <1>10

LEMMA PartIsWritten ==
    ASSUME NEW b \in Batch, NEW f, KnowsExactly(b, f), NEW d, NEW o
    PROVE  WrittenPartly(b, f, d, o) = WriteAt(f, Len(f), First(d, o))
<1>1. SeekToEnd(b, f).pos = Len(f)
  BY DEF SeekToEnd, Batch, KnowsExactly
<1> QED
  BY <1>1 DEF WrittenPartly

\* getEventsForUpload() returns the first lines of the file.
LEMMA ListIsPrefix ==
    ASSUME NEW exact \in BOOLEAN,
           NEW b \in Batch, NEW f, Knows(b, f, exact),
           NEW maxCount \in Nat, NEW maxSize \in Nat,
           NEW l, l = ListOf(b, f, maxCount, maxSize)
    PROVE  /\ l.null <=> b.fileSize = 0 \/ maxCount = 0
           /\ l.null \in BOOLEAN
           /\ ~ l.null => IsListOf(l, f) /\ l.size <= b.fileSize
<1>1. /\ f \in File /\ Len(f) \in Nat /\ b.open /\ b.fileSize \in Nat
      /\ b.fileSize <= Len(f)
  BY DEF Knows, File, Batch
<1>2. CASE b.fileSize = 0 \/ maxCount = 0
  BY <1>1, <1>2 DEF ListOf, NoList
<1>3. CASE ~ (b.fileSize = 0 \/ maxCount = 0)
  <2> DEFINE M == {maxSize, ReadCap, b.fileSize, Len(f)}
             buf == First(f, Min(M))
             N == Newlines(buf)
             C == {Cardinality(N), maxCount}
             events == Min(C)
             n == IF events = 0 THEN 0 ELSE EndOfLine(buf, events)
  <2>1. l = [data |-> First(buf, n), size |-> n, events |-> events,
             null |-> FALSE]
    BY <1>1, <1>3 DEF ListOf
  <2>2. Min(M) \in 0..Len(f) /\ Min(M) <= b.fileSize
    <3>1. M \subseteq Nat /\ M # {} /\ Len(f) \in M /\ b.fileSize \in M
      BY <1>1, BufferAssumption
    <3> HIDE DEF M
    <3>3. Min(M) \in M /\ Min(M) <= Len(f) /\ Min(M) <= b.fileSize
      BY <3>1, LeastIsThere
    <3>4. Min(M) \in Nat
      BY <3>1, <3>3
    <3> HIDE DEF buf, N, C, events, n
    <3> QED
      BY <1>1, <3>3, <3>4
  <2> HIDE DEF M
  <2>3. /\ buf \in File /\ Len(buf) = Min(M)
        /\ \A i \in 1..Min(M) : buf[i] = f[i]
        /\ N = {j \in Newlines(f) : j <= Min(M)}
    BY <1>1, <2>2, PrefixLines
  <2> HIDE DEF buf
  <2>4. N \in SUBSET (1..Len(buf)) /\ IsFiniteSet(N) /\ N \in SUBSET Nat
        /\ Cardinality(N) \in Nat
    BY <2>3, NewlinesAreFinite
  <2>5. events \in 0..Cardinality(N)
    <3> DEFINE c == Cardinality(N)
    <3>1. c \in Nat
      BY <2>4
    <3> HIDE DEF c
    <3>2. C = {c, maxCount}
      BY DEF c
    <3>3. C \subseteq Nat /\ C # {} /\ c \in C
      BY <3>1, <3>2
    <3> HIDE DEF C
    <3>5. events \in C /\ events <= c
      BY <3>3, LeastIsThere
    <3> HIDE DEF events, n, N
    <3>6. events \in 0..c
      BY <3>1, <3>3, <3>5
    <3> QED
      BY <3>6 DEF c
  <2> HIDE DEF events
  <2>6. events # 0 => n \in N /\ Rank(N, n) = events
    <3> SUFFICES ASSUME events # 0
                 PROVE  n \in N /\ Rank(N, n) = events
      OBVIOUS
    <3>1. events \in 1..Cardinality(N)
      BY <2>4, <2>5
    <3>2. n = EndOfLine(buf, events)
      OBVIOUS
    <3> HIDE DEF n
    <3> QED
      BY <2>3, <3>1, <3>2, EndOfLineIsThere
  <2>7. n \in 0..Min(M) /\ (n = 0 \/ n \in Newlines(f)) /\ n \in 0..Len(f)
        /\ n <= b.fileSize
    BY <1>1, <2>2, <2>3, <2>4, <2>6
  <2>8. First(buf, n) = First(f, n)
    <3>1. First(f, n) \in Seq(Unit) /\ Len(First(f, n)) = n
          /\ \A i \in 1..n : First(f, n)[i] = f[i]
      BY <1>1, <2>7, PrefixLines DEF File
    <3>2. n \in 0..Len(buf)
      BY <2>3, <2>7
    <3>3. First(buf, n) \in Seq(Unit) /\ Len(First(buf, n)) = n
          /\ \A i \in 1..n : First(buf, n)[i] = buf[i]
      BY <2>3, <3>2, PrefixLines DEF File
    <3>4. \A i \in 1..n : buf[i] = f[i]
      BY <2>2, <2>3, <2>7
    <3> QED
      BY <3>1, <3>3, <3>4, SeqEqual
  <2>9. Cardinality(Newlines(First(f, n))) = events
    <3>1. Newlines(First(f, n)) = {j \in Newlines(f) : j <= n}
      BY <1>1, <2>7, PrefixLines
    <3>2. CASE events = 0
      <4>1. n = 0 /\ Newlines(f) \in SUBSET (1..Len(f))
        BY <1>1, <3>2, NewlinesAreFinite
      <4>2. Newlines(First(f, n)) = {}
        BY <1>1, <3>1, <4>1
      <4> QED
        BY <3>2, <4>2, FS_EmptySet
    <3>3. CASE events # 0
      <4>1. {j \in Newlines(f) : j <= n} = {j \in N : j <= n}
        <5>1. \A j \in Newlines(f) : j <= n => j <= Min(M)
          <6>1. Newlines(f) \in SUBSET Nat
            BY <1>1, NewlinesAreFinite
          <6> QED
            BY <1>1, <2>2, <2>7, <6>1
        <5> HIDE DEF N, n
        <5> QED
          BY <2>3, <5>1
      <4> QED
        BY <2>6, <3>1, <3>3, <4>1 DEF Rank
    <3> QED
      BY <3>2, <3>3
  <2> HIDE DEF n
  <2>10. l.size = n /\ l.data = First(f, n) /\ l.events = events /\ l.null = FALSE
    BY <2>1, <2>8
  <2> QED
    BY <1>3, <2>7, <2>9, <2>10 DEF IsListOf
<1> QED
  BY <1>2, <1>3

LEMMA ReadKeeps ==
    ASSUME NEW exact \in BOOLEAN,
           NEW b \in Batch, NEW f, Knows(b, f, exact)
    PROVE  /\ AfterRead(b) \in Batch /\ AfterRead(b).id = b.id
           /\ AfterRead(b).finalized = b.finalized
           /\ Knows(AfterRead(b), f, exact)
           /\ AfterRead(b).fileSize = b.fileSize
           /\ b.fileSize # 0 => ~ AfterRead(b).streamAtEnd
  BY DEF AfterRead, Batch, Knows

\* onEventsUploaded() removes the lines of the list, and nothing else.
LEMMA ListIsRemoved ==
    ASSUME NEW exact \in BOOLEAN,
           NEW b \in Batch, NEW f, Knows(b, f, exact),
           NEW l, IsListOf(l, f), l.size <= b.fileSize,
           exact => (b.streamAtEnd => Len(f) > l.size),
           NEW u, u = Uploaded(b, f, l)
    PROVE  /\ u.batch \in Batch /\ u.batch.id = b.id
           /\ u.batch.finalized = b.finalized
           /\ l.size = b.fileSize /\ b.finalized =>
                u.file = NoFile /\ ~ HasEvents(u.batch)
           /\ l.size = b.fileSize /\ ~ b.finalized =>
                u.file = <<>> /\ Knows(u.batch, u.file, exact)
           /\ l.size # b.fileSize =>
                /\ Knows(u.batch, u.file, exact) /\ HasEvents(u.batch)
                /\ u.batch.fileSize = Len(u.file)
                /\ u.file \in File /\ IsRest(u.file, f, l.size)
<1>1. /\ f \in File /\ Len(f) \in Nat /\ b.open
      /\ b.fileSize \in Nat /\ b.fileSize <= Len(f)
      /\ exact => /\ Clean(f) /\ b.fileSize = Len(f)
                  /\ b.eventCount = Cardinality(Newlines(f))
  BY DEF Knows, File, Batch
<1>2. /\ l.size \in 0..Len(f) /\ (l.size = 0 \/ l.size \in Newlines(f))
      /\ l.events = Cardinality(Newlines(First(f, l.size)))
  BY DEF IsListOf
<1>3. CASE l.size = b.fileSize
  <2>1. u = Emptied(b, f) /\ (exact => ~ b.streamAtEnd)
    BY <1>1, <1>3 DEF Uploaded
  <2>3. /\ u.batch = [b EXCEPT !.fileSize = 0, !.eventCount = 0,
                               !.open = ~ b.finalized]
        /\ u.file = IF b.finalized THEN NoFile ELSE <<>>
    BY <2>1 DEF Emptied
  <2>4. /\ u.batch \in Batch /\ u.batch.id = b.id
        /\ u.batch.finalized = b.finalized /\ u.batch.fileSize = 0
        /\ u.batch.eventCount = 0 /\ u.batch.open = ~ b.finalized
        /\ u.batch.streamAtEnd = b.streamAtEnd /\ u.batch.pos \in Nat
    <3> DEFINE unless == ~ b.finalized
    <3>1. unless \in BOOLEAN
      BY DEF Batch
    <3>2. u.batch \in Batch
      <4>1. u.batch = [b EXCEPT !.fileSize = 0, !.eventCount = 0,
                                !.open = unless]
        BY <2>3
      <4> HIDE DEF unless
      <4>2. [b EXCEPT !.fileSize = 0, !.eventCount = 0] \in Batch
        <5>1. 0 \in Nat /\ 0 \in Int
          OBVIOUS
        <5> QED
          BY <5>1, Zenon DEF Batch
      <4>3. \A c \in Batch : [c EXCEPT !.open = unless] \in Batch
        BY <3>1, Zenon DEF Batch
      <4>4. u.batch = [[b EXCEPT !.fileSize = 0, !.eventCount = 0]
                            EXCEPT !.open = unless]
        BY <4>1, Zenon
      <4> QED
        BY <4>2, <4>3, <4>4, Zenon
    <3>3. /\ u.batch.id = b.id
          /\ u.batch.finalized = b.finalized /\ u.batch.fileSize = 0
          /\ u.batch.eventCount = 0
      BY <2>3 DEF Batch
    <3>4. /\ u.batch.open = ~ b.finalized
          /\ u.batch.streamAtEnd = b.streamAtEnd
      BY <2>3, Zenon DEF Batch
    <3>5. u.batch.pos \in Nat
      BY <3>2 DEF Batch
    <3> QED
      BY <3>2, <3>3, <3>4, <3>5
  <2>5. CASE b.finalized
    BY <1>3, <2>3, <2>4, <2>5 DEF HasEvents
  <2>6. CASE ~ b.finalized
    <3>1. u.file = <<>> /\ Cardinality(Newlines(<<>>)) = 0
      BY <2>3, <2>6, EmptyFile, FS_EmptySet
    <3>2. Knows(u.batch, u.file, exact)
      <4>1. u.batch.open /\ u.file \in File /\ Clean(u.file) /\ Len(u.file) = 0
        BY <2>4, <2>6, <3>1, EmptyFile
      <4>2. u.batch.fileSize <= Len(u.file) /\ u.batch.fileSize <= u.batch.pos
        BY <2>4, <4>1
      <4>3. u.batch.eventCount = Cardinality(Newlines(u.file))
        BY <2>4, <3>1
      <4>4. exact => ~ u.batch.streamAtEnd
        BY <2>1, <2>4
      <4>5. u.batch.fileSize = Len(u.file)
        BY <2>4, <4>1
      <4> QED
        BY <4>1, <4>2, <4>3, <4>4, <4>5, Zenon DEF Knows
    <3> QED
      BY <1>3, <2>4, <2>6, <3>1, <3>2
  <2> QED
    BY <2>5, <2>6
<1>4. CASE l.size # b.fileSize
  <2> DEFINE rest == SubSeq(f, l.size + 1, Len(f))
  <2>1. rest \in File /\ IsRest(rest, f, l.size)
    BY <1>1, <1>2, SubSeqIsRest
  <2> HIDE DEF rest
  <2>2. /\ Clean(f) => Clean(rest)
        /\ Cardinality(Newlines(f)) = l.events + Cardinality(Newlines(rest))
    BY <1>1, <1>2, <2>1, RestHoldsTheRest
  <2>3. l.events \in Nat /\ Cardinality(Newlines(rest)) \in Nat
        /\ Len(rest) \in Nat /\ Len(rest) # 0
    <3>1. First(f, l.size) \in File
      BY <1>1, <1>2, PrefixLines
    <3>2. Len(rest) = Len(f) - l.size
      BY <2>1 DEF IsRest
    <3>3. Len(rest) # 0
      BY <1>1, <1>2, <1>4, <3>2
    <3> QED
      BY <1>2, <2>1, <3>1, <3>3, NewlinesAreFinite DEF File
  <2>4. u = Shifted(b, f, l)
    BY <1>1, <1>4 DEF Uploaded
  <2>5. /\ u.batch = [b EXCEPT !.fileSize = Len(rest),
                               !.eventCount = @ - l.events,
                               !.pos = Len(rest)]
        /\ u.file = rest
    <3> DEFINE x == [b EXCEPT !.fileSize = Len(rest),
                              !.eventCount = @ - l.events,
                              !.pos = Len(rest)]
    <3>1. u = [batch |-> x, file |-> rest]
      BY <2>4, Zenon DEF Shifted, Copied, Rest, rest
    <3> HIDE DEF x
    <3>2. u.batch = x /\ u.file = rest
      BY <3>1
    <3> QED
      BY <3>2 DEF x
  <2>6. exact => b.eventCount - l.events = Cardinality(Newlines(rest))
    BY <1>1, <2>2, <2>3
  <2>7. /\ u.batch \in Batch /\ u.batch.id = b.id
        /\ u.batch.finalized = b.finalized /\ u.batch.open
        /\ u.batch.fileSize = Len(rest) /\ u.batch.pos = Len(rest)
        /\ u.batch.eventCount = b.eventCount - l.events
    <3>1. PICK n : n = Len(rest)
      OBVIOUS
    <3>2. PICK c : c = b.eventCount - l.events
      OBVIOUS
    <3>3. n \in Nat /\ c \in Int
      BY <2>3, <3>1, <3>2 DEF Batch
    <3>4. u.batch = [b EXCEPT !.fileSize = n, !.eventCount = c, !.pos = n]
      BY <2>5, <3>1, <3>2
    <3>5. [b EXCEPT !.fileSize = n, !.eventCount = c, !.pos = n] \in Batch
      BY <3>3, Zenon DEF Batch
    <3>6. \A x : x = [b EXCEPT !.fileSize = n, !.eventCount = c, !.pos = n] =>
            /\ x.id = b.id /\ x.finalized = b.finalized /\ x.open = b.open
            /\ x.fileSize = n /\ x.pos = n /\ x.eventCount = c
      BY Zenon DEF Batch
    <3> QED
      BY <1>1, <3>1, <3>2, <3>4, <3>5, <3>6
  <2>8. Knows(u.batch, u.file, exact)
    BY <1>1, <2>1, <2>2, <2>3, <2>5, <2>6, <2>7 DEF Knows
  <2>9. HasEvents(u.batch)
    BY <2>3, <2>7 DEF HasEvents
  <2> QED
    BY <1>4, <2>1, <2>5, <2>7, <2>8, <2>9
<1> QED
  BY <1>3, <1>4

-----------------------------------------------------------------------------
(* The inductive invariant.                                                *)

Disk == [Ids -> File \cup {NoFile}]
Contents(d, i) == IF d[i] = NoFile THEN <<>> ELSE d[i]
StoredIn(d) == UNION {EventsIn(Contents(d, i)) : i \in Ids}

\* The batch that the uploader works on.
FrontOf(newest, oldest) == IF oldest = NoBatch THEN newest ELSE oldest
Front == FrontOf(newestBatch, oldestBatch)

FilesBelow(d, newest) ==
    /\ d \in Disk
    /\ \A i \in Ids : i > newest.id => d[i] = NoFile

BatchesKnow(d, newest, oldest, exact) ==
    /\ newest \in Batch /\ ~ newest.finalized
    /\ Knows(newest, d[newest.id], exact)
    /\ oldest # NoBatch =>
         /\ oldest \in Batch /\ oldest.finalized
         /\ Knows(oldest, d[oldest.id], exact)
         /\ oldest.id < newest.id

\* The old batches lie between the oldest and the newest one, in the order
\* of their age.
BatchesInOrder(d, newest, oldest, old) ==
    /\ old \in Seq(Ids)
    /\ \A i \in 1..Len(old) :
         /\ old[i] < newest.id
         /\ oldest # NoBatch => oldest.id < old[i]
         /\ d[old[i]] \in File
    /\ \A i, j \in 1..Len(old) : i < j => old[i] < old[j]

\* No file is forgotten that is not empty.
FilesAreKnown(d, newest, oldest, old) ==
    \A i \in Ids : d[i] # NoFile /\ d[i] # <<>> =>
        \/ i = newest.id
        \/ oldest # NoBatch /\ i = oldest.id
        \/ i \in Elements(old)

\* The batches and the files of the directory agree with each other.
Consistent(d, newest, oldest, old, exact) ==
    /\ FilesBelow(d, newest)
    /\ BatchesKnow(d, newest, oldest, exact)
    /\ BatchesInOrder(d, newest, oldest, old)
    /\ FilesAreKnown(d, newest, oldest, old)

StoreIsConsistent(exact) ==
    Consistent(disk, newestBatch, oldestBatch, oldBatches, exact)

\* The list l begins the file of the batch that the uploader works on, and
\* only a batch that has got an event since believes to be at the end.
IsFrontList(l, d, newest, oldest, old, exact) ==
    LET b == FrontOf(newest, oldest) IN
    /\ IsListOf(l, d[b.id])
    /\ oldest = NoBatch => old = <<>>
    /\ l.size <= b.fileSize
    /\ exact => (b.streamAtEnd => Len(d[b.id]) > l.size)

ListIsFront(exact) ==
    upc \in {"post", "ack", "drop"} =>
        IsFrontList(list, disk, newestBatch, oldestBatch, oldBatches, exact)

HistoryOK ==
    /\ limits \in Limits
    /\ upc \in {"idle", "post", "ack", "check", "drop"}
    /\ added \in 0..MaxEvents
    /\ crashes \in Nat
    /\ accepted \subseteq 1..added
    /\ confirmed \in Seq(0..MaxEvents)
    /\ dropped \subseteq 0..MaxEvents
    /\ torn \in BOOLEAN
    /\ cut \subseteq 0..MaxEvents /\ (torn \/ cut = {})
    /\ upc = "ack" => EventsIn(list.data) \subseteq Elements(confirmed)

AcceptedIsKept ==
    accepted \subseteq
        StoredIn(disk) \cup Elements(confirmed) \cup dropped \cup cut

LinesAreWhole ==
    ~ torn => Garbage \notin StoredIn(disk) \cup Elements(confirmed)

(* Without a crash. *)

Before(X, Y) == \A x \in X, y \in Y : x < y

LinesInOrder(f) ==
    \A j, k \in Newlines(f) : j < k => LineAt(f, j) < LineAt(f, k)

FilesInOrder(d) ==
    /\ \A i \in Ids : LinesInOrder(Contents(d, i))
    /\ \A i, j \in Ids :
         i < j => Before(EventsIn(Contents(d, i)), EventsIn(Contents(d, j)))

\* The lines of f behind the first s units.
LinesAfter(f, s) == {LineAt(f, j) : j \in {k \in Newlines(f) : s < k}}

\* What the file i holds that has not been confirmed.
Unsent(i) ==
    IF upc = "ack" /\ i = Front.id
    THEN LinesAfter(Contents(disk, i), list.size)
    ELSE EventsIn(Contents(disk, i))

Increases(q) == \A i, j \in DOMAIN q : i < j => q[i] < q[j]

UploadOrder ==
    crashes = 0 =>
        /\ FilesInOrder(disk)
        /\ \A x \in StoredIn(disk) \cup Elements(confirmed) : x <= added
        /\ Increases(confirmed)
        /\ \A i \in Ids : Before(Elements(confirmed), Unsent(i))

Structure(exact) == StoreIsConsistent(exact) /\ ListIsFront(exact)

IInv ==
    /\ Structure(TRUE) /\ HistoryOK /\ AcceptedIsKept /\ LinesAreWhole
    /\ UploadOrder


-----------------------------------------------------------------------------
(* Directories.                                                            *)

LEMMA BatchIsABatch == \A b \in Batch : b # NoBatch
<1> SUFFICES ASSUME NEW b \in Batch PROVE b.id # NoBatch.id
  OBVIOUS
<1>1. b.id \in Ids /\ NoBatch.id = 0 - 1
  BY DEF Batch, NoBatch
<1> QED
  BY <1>1 DEF Ids

\* g holds the lines of f, at their places, and is not longer.
Keeps(g, f) ==
    /\ Newlines(g) = Newlines(f) /\ Len(g) <= Len(f)
    /\ \A j \in Newlines(f) : LineAt(g, j) = LineAt(f, j)

LEMMA KeepsEvents ==
    ASSUME NEW f, NEW g, Keeps(g, f) PROVE EventsIn(g) = EventsIn(f)
  BY DEF Keeps, EventsIn

LEMMA FileKeepsItself ==
    ASSUME NEW f \in File PROVE Keeps(f, f)
<1>1. Len(f) \in Nat
  BY DEF File
<1> QED
  BY <1>1 DEF Keeps

LEMMA ContentsAreFiles ==
    ASSUME NEW d \in Disk, NEW i \in Ids
    PROVE  /\ Contents(d, i) \in File
           /\ d[i] \in File => Contents(d, i) = d[i]
           /\ d[i] \in File <=> d[i] # NoFile
           /\ d[i] = NoFile => Contents(d, i) = <<>>
  BY EmptyFile, NoFileIsNoFile DEF Disk, Contents

LEMMA StoredIsStored ==
    ASSUME disk \in Disk PROVE Stored = StoredIn(disk)
<1>1. \A i \in Ids : FileOf([id |-> i]) = Contents(disk, i)
  BY DEF FileOf, Contents
<1>2. \A i \in Ids :
        Elements(EventsOf(FileOf([id |-> i]))) = EventsIn(Contents(disk, i))
  BY <1>1, ContentsAreFiles, EventsAreLines
<1> QED
  BY <1>2 DEF Stored, StoredIn

LEMMA StoredMoves ==
    ASSUME NEW d, NEW e, NEW X,
           \A i \in Ids :
              EventsIn(Contents(d, i)) \subseteq EventsIn(Contents(e, i)) \cup X
    PROVE  StoredIn(d) \subseteq StoredIn(e) \cup X
  BY DEF StoredIn

\* The directory e is d, but for the file b, which is g.
Replaces(e, d, b, g) == e = [d EXCEPT ![b] = g]

LEMMA OneFileChanges ==
    ASSUME NEW d \in Disk, NEW b \in Ids, NEW g \in File \cup {NoFile},
           NEW e, Replaces(e, d, b, g)
    PROVE  /\ e \in Disk /\ e[b] = g
           /\ \A i \in Ids : i # b => e[i] = d[i] /\ Contents(e, i) = Contents(d, i)
           /\ g \in File => Contents(e, b) = g
           /\ g = NoFile => Contents(e, b) = <<>>
<1>1. e \in Disk /\ e[b] = g /\ \A i \in Ids : i # b => e[i] = d[i]
  BY DEF Disk, Replaces
<1> QED
  BY <1>1, ContentsAreFiles DEF Contents

\* The events of one file change.
LEMMA StoredChanges ==
    ASSUME NEW d \in Disk, NEW b \in Ids, NEW g \in File \cup {NoFile},
           NEW e, Replaces(e, d, b, g), NEW X
    PROVE  /\ EventsIn(Contents(d, b)) \subseteq EventsIn(Contents(e, b)) \cup X
                => StoredIn(d) \subseteq StoredIn(e) \cup X
           /\ EventsIn(Contents(e, b)) \subseteq EventsIn(Contents(d, b)) \cup X
                => StoredIn(e) \subseteq StoredIn(d) \cup X
<1>1. \A i \in Ids : i # b => Contents(e, i) = Contents(d, i)
  <2>1. \A i \in Ids : i # b => e[i] = d[i]
    BY DEF Disk, Replaces
  <2> QED
    BY <2>1 DEF Contents
<1>2. ASSUME EventsIn(Contents(d, b)) \subseteq EventsIn(Contents(e, b)) \cup X
      PROVE  StoredIn(d) \subseteq StoredIn(e) \cup X
  <2>1. \A i \in Ids :
          EventsIn(Contents(d, i)) \subseteq EventsIn(Contents(e, i)) \cup X
    BY <1>1, <1>2
  <2> QED
    BY <2>1, StoredMoves
<1>3. ASSUME EventsIn(Contents(e, b)) \subseteq EventsIn(Contents(d, b)) \cup X
      PROVE  StoredIn(e) \subseteq StoredIn(d) \cup X
  <2>1. \A i \in Ids :
          EventsIn(Contents(e, i)) \subseteq EventsIn(Contents(d, i)) \cup X
    BY <1>1, <1>3
  <2> QED
    BY <2>1, StoredMoves
<1> QED
  BY <1>2, <1>3

\* The first m units of g and f are the same.
Agree(g, f, m) ==
    /\ m \in Nat /\ m <= Len(f) /\ m <= Len(g)
    /\ \A i \in 1..m : g[i] = f[i]

\* g begins with f.
Extends(g, f) == Agree(g, f, Len(f))

LEMMA SmallerAgree ==
    ASSUME NEW f \in File, NEW g \in File, NEW m, Agree(g, f, m),
           NEW n \in Nat, n <= m
    PROVE  Agree(g, f, n)
<1>1. Len(f) \in Nat /\ Len(g) \in Nat
  BY DEF File
<1> QED
  BY <1>1 DEF Agree

LEMMA ListOfLonger ==
    ASSUME NEW f \in File, NEW g \in File,
           NEW l, IsListOf(l, f), Agree(g, f, l.size)
    PROVE  IsListOf(l, g)
<1> DEFINE n == l.size
<1>1. /\ Len(f) \in Nat /\ Len(g) \in Nat /\ n <= Len(f) /\ n <= Len(g)
      /\ \A i \in 1..n : g[i] = f[i]
  BY DEF File, Agree
<1>2. n \in 0..Len(f) /\ n \in 0..Len(g) /\ (n = 0 \/ n \in Newlines(f))
  BY <1>1 DEF IsListOf
<1> HIDE DEF n
<1>3. /\ First(f, n) \in Seq(Unit) /\ Len(First(f, n)) = n
      /\ \A i \in 1..n : First(f, n)[i] = f[i]
  BY <1>2, PrefixLines DEF File
<1>4. /\ First(g, n) \in Seq(Unit) /\ Len(First(g, n)) = n
      /\ \A i \in 1..n : First(g, n)[i] = g[i]
  BY <1>2, PrefixLines DEF File
<1>5. n \in Nat
  BY <1>1, <1>2
<1>6. First(f, n) = First(g, n)
  BY <1>1, <1>3, <1>4, <1>5, SeqEqual
<1>7. n = 0 \/ n \in Newlines(g)
  <2>1. \A i \in 1..n : f[i] = g[i]
    BY <1>1
  <2>2. \A j \in 1..n : j \in Newlines(f) <=> j \in Newlines(g)
    BY <1>1, <1>5, <2>1, SameBeginning
  <2>3. n # 0 => n \in 1..n
    BY <1>5
  <2> QED
    BY <1>2, <2>2, <2>3
<1> QED
  BY <1>2, <1>6, <1>7 DEF IsListOf, n

\* The constructor, on any directory.
LEMMA StartIsStructured ==
    ASSUME NEW d \in Disk, Started(d), upc' = "idle"
    PROVE  /\ Structure(TRUE)'
           /\ \A i \in Ids : Keeps(Contents(disk', i), Contents(d, i))
<1> DEFINE ids == {i \in Ids : d[i] # NoFile}
           S == ids \cup {0}
           last == Max(S)
           nth(i) == CHOOSE j \in ids : Cardinality({m \in ids : m <= j}) = i
           f == IF last \in ids THEN d[last] ELSE <<>>
           n == Cardinality(ids \ {last})
           old == [i \in 1..n |-> nth(i)]
<1>1. /\ disk' = [d EXCEPT ![last] = Recover(f)]
      /\ newestBatch' = OpenBatch(last, f, FALSE)
      /\ oldestBatch' = NoBatch
      /\ oldBatches' = old
  BY Zenon DEF Started
<1>2. ids \in SUBSET Ids /\ ids \in SUBSET Nat /\ IsFiniteSet(ids) /\ 0 \in Ids
      /\ Ids \subseteq Nat
  <2>1. MaxFiles \in Nat
    BY StoreAssumption
  <2>2. Ids \subseteq Nat /\ 0 \in Ids
    BY <2>1 DEF Ids
  <2>3. IsFiniteSet(Ids)
    BY <2>1, FS_Interval DEF Ids
  <2>4. ids \in SUBSET Ids
    OBVIOUS
  <2> HIDE DEF ids
  <2>5. IsFiniteSet(ids)
    BY <2>3, <2>4, FS_Subset
  <2> QED
    BY <2>2, <2>4, <2>5
<1>3. \A i \in Ids : i \in ids <=> d[i] # NoFile
  OBVIOUS
<1> HIDE DEF ids
<1>4. last \in S /\ \A j \in S : j <= last
  <2>1. S \subseteq Nat /\ S # {} /\ IsFiniteSet(S)
    BY <1>2, FS_AddElement
  <2> HIDE DEF S
  <2> QED
    BY <2>1, GreatestIsThere
<1>5. last \in Ids /\ \A j \in ids : j <= last
  BY <1>2, <1>4
<1>6. last \notin ids => ids = {}
  <2> SUFFICES ASSUME last \notin ids, NEW j \in ids PROVE FALSE
    OBVIOUS
  <2>1. last = 0
    BY <1>4
  <2> HIDE DEF last
  <2>2. j = 0
    BY <1>2, <1>5, <2>1
  <2> QED
    BY <2>1, <2>2
<1> HIDE DEF last, S
<1>7. f = Contents(d, last) /\ f \in File
  BY <1>3, <1>5, ContentsAreFiles DEF Contents
<1> HIDE DEF f
<1>8. /\ newestBatch' \in Batch /\ newestBatch'.id = last
      /\ newestBatch'.finalized = FALSE
      /\ Knows(newestBatch', Recover(f), TRUE)
  BY <1>1, <1>5, <1>7, OpenedKnows
<1>9. Recover(f) \in File /\ Keeps(Recover(f), f)
  BY <1>7, RecoverIsClean DEF Keeps
<1>10. /\ disk' \in Disk /\ disk'[last] = Recover(f)
       /\ \A i \in Ids : i # last =>
            disk'[i] = d[i] /\ Contents(disk', i) = Contents(d, i)
       /\ Contents(disk', last) = Recover(f)
  <2>1. Recover(f) \in File \cup {NoFile}
    BY <1>9
  <2>2. Replaces(disk', d, last, Recover(f))
    BY <1>1 DEF Replaces
  <2>3. Recover(f) \in File
    BY <1>9
  <2> QED
    BY <1>5, <2>1, <2>2, <2>3, OneFileChanges
<1>11. \A i \in 1..n : nth(i) \in ids /\ nth(i) < last /\ Rank(ids, nth(i)) = i
  <2> TAKE i \in 1..n
  <2>1. last \in ids
    <3> SUFFICES ASSUME last \notin ids PROVE FALSE
      OBVIOUS
    <3>1. ids \ {last} = {}
      BY <1>6
    <3>2. n = 0
      BY <3>1, FS_EmptySet
    <3> HIDE DEF n
    <3> QED
      BY <3>2
  <2>2. n = Cardinality(ids) - 1 /\ Cardinality(ids) \in Nat
    BY <1>2, <2>1, FS_RemoveElement, FS_CardinalityType
  <2>3. i \in 1..Cardinality(ids) /\ i # Cardinality(ids)
    <3> HIDE DEF n
    <3> QED
      BY <2>2
  <2>4. \E j \in ids : Rank(ids, j) = i
    BY <1>2, <2>3, RankOnto
  <2>5. nth(i) \in ids /\ Rank(ids, nth(i)) = i
    BY <2>4, Zenon DEF Rank
  <2>6. Rank(ids, last) = Cardinality(ids)
    <3>1. {m \in ids : m <= last} = ids
      BY <1>5
    <3> QED
      BY <3>1, Zenon DEF Rank
  <2>7. Rank(ids, nth(i)) # Rank(ids, last)
    BY <2>3, <2>5, <2>6
  <2> HIDE DEF nth
  <2>8. nth(i) # last /\ nth(i) <= last
    BY <1>5, <2>5, <2>7
  <2>9. nth(i) \in Nat /\ last \in Nat
    BY <1>2, <1>5, <2>5
  <2>10. nth(i) < last
    BY <2>8, <2>9
  <2> QED
    BY <2>5, <2>10
<1>12. n \in Nat
  <2>1. IsFiniteSet(ids \ {last})
    BY <1>2, FS_RemoveElement
  <2> QED
    BY <2>1, FS_CardinalityType
<1>13. \A i \in ids \ {last} :
          Rank(ids, i) \in 1..n /\ nth(Rank(ids, i)) = i
  <2> TAKE i \in ids \ {last}
  <2>1. last \in ids /\ i < last
    BY <1>2, <1>5, <1>6
  <2>2. Rank(ids, i) < Rank(ids, last) /\ Rank(ids, i) \in 1..Cardinality(ids)
        /\ Rank(ids, last) \in 1..Cardinality(ids)
    BY <1>2, <2>1, RankGrows, RankRange
  <2>3. n = Cardinality(ids) - 1 /\ Cardinality(ids) \in Nat
    BY <1>2, <2>1, FS_RemoveElement, FS_CardinalityType
  <2> HIDE DEF n, nth
  <2>4. Rank(ids, i) \in 1..n
    BY <2>2, <2>3
  <2> DEFINE j == nth(Rank(ids, i))
  <2>5. j \in ids /\ Rank(ids, j) = Rank(ids, i)
    BY <1>11, <2>4
  <2> HIDE DEF j
  <2>6. ~ (j < i) /\ ~ (i < j)
    BY <1>2, <2>2, <2>5, RankGrows
  <2>7. j = i
    BY <1>2, <2>5, <2>6
  <2> QED
    BY <2>4, <2>7 DEF j
<1> HIDE DEF n, nth
<1>14. /\ old \in Seq(Ids) /\ Len(old) = n
       /\ \A i \in 1..n : old[i] = nth(i)
  <2>1. \A i \in 1..n : nth(i) \in Ids
    BY <1>2, <1>11
  <2>2. old \in [1..n -> Ids]
    BY <2>1
  <2> QED
    BY <1>12, <2>2, SeqDef
<1>15. \A i, j \in 1..n : i < j => nth(i) < nth(j)
  <2> SUFFICES ASSUME NEW i \in 1..n, NEW j \in 1..n, i < j
               PROVE  nth(i) < nth(j)
    OBVIOUS
  <2>1. nth(i) \in ids /\ nth(j) \in ids /\ Rank(ids, nth(i)) = i
        /\ Rank(ids, nth(j)) = j
    BY <1>11
  <2>2. nth(i) # nth(j)
    BY <2>1
  <2>3. ~ (nth(j) < nth(i))
    <3> SUFFICES ASSUME nth(j) < nth(i) PROVE FALSE
      OBVIOUS
    <3>1. j < i
      BY <1>2, <2>1, RankGrows
    <3> QED
      BY <1>12, <3>1
  <2>4. nth(i) \in Nat /\ nth(j) \in Nat
    BY <1>2, <2>1
  <2> QED
    BY <2>2, <2>3, <2>4
<1> HIDE DEF old
<1>16. FilesBelow(disk', newestBatch')
  <2> SUFFICES ASSUME NEW i \in Ids, i > last PROVE disk'[i] = NoFile
    BY <1>8, <1>10 DEF FilesBelow
  <2>1. i # last /\ i \notin ids
    BY <1>2, <1>5
  <2> QED
    BY <1>3, <1>10, <2>1
<1>17. BatchesKnow(disk', newestBatch', oldestBatch', TRUE)
  BY <1>1, <1>8, <1>10 DEF BatchesKnow
<1>18. BatchesInOrder(disk', newestBatch', oldestBatch', oldBatches')
  <2>1. \A i \in 1..n : old[i] < last /\ disk'[old[i]] \in File
    <3> TAKE i \in 1..n
    <3>1. old[i] \in ids /\ old[i] < last
      BY <1>11, <1>14
    <3>2. old[i] \in Nat /\ last \in Nat /\ old[i] \in Ids
      BY <1>2, <1>5, <3>1
    <3>4. old[i] # last /\ d[old[i]] # NoFile
      BY <1>3, <3>1, <3>2
    <3>3. d[old[i]] \in File
      BY <3>2, <3>4, ContentsAreFiles
    <3> QED
      BY <1>10, <3>1, <3>2, <3>3, <3>4
  <2>2. \A i, j \in 1..n : i < j => old[i] < old[j]
    BY <1>14, <1>15
  <2> QED
    BY <1>1, <1>8, <1>14, <2>1, <2>2 DEF BatchesInOrder
<1>19. FilesAreKnown(disk', newestBatch', oldestBatch', oldBatches')
  <2> SUFFICES ASSUME NEW i \in Ids, disk'[i] # NoFile, i # last
               PROVE  i \in Elements(old)
    BY <1>1, <1>8, Zenon DEF FilesAreKnown
  <2>1. i \in ids
    BY <1>3, <1>10
  <2>2. Rank(ids, i) \in 1..n /\ old[Rank(ids, i)] = i
    BY <1>13, <1>14, <2>1
  <2>3. Rank(ids, i) \in DOMAIN old
    BY <1>14, <2>2
  <2> QED
    BY <2>2, <2>3 DEF Elements
<1>20. ListIsFront(TRUE)'
  BY DEF ListIsFront
<1>21. \A i \in Ids : Keeps(Contents(disk', i), Contents(d, i))
  <2> TAKE i \in Ids
  <2>1. CASE i = last
    BY <1>7, <1>9, <1>10, <2>1
  <2>2. CASE i # last
    <3>1. Contents(disk', i) = Contents(d, i) /\ Contents(d, i) \in File
      BY <1>10, <2>2, ContentsAreFiles
    <3> QED
      BY <3>1, FileKeepsItself
  <2> QED
    BY <2>1, <2>2
<1>22. StoreIsConsistent(TRUE)'
  BY <1>16, <1>17, <1>18, <1>19 DEF StoreIsConsistent, Consistent
<1> QED
  BY <1>20, <1>21, <1>22 DEF Structure

-----------------------------------------------------------------------------
(* One batch changes.                                                      *)

LEMMA OrderOfIds ==
    \A i, j, k \in Ids : /\ i < j => i # j /\ j > i
                         /\ i > j => i # j /\ j < i
                         /\ i < j /\ j < k => i < k
                         /\ j = i + 1 => i < j
  BY StoreAssumption DEF Ids

LEMMA FilesAreFiles ==
    ASSUME NEW exact \in BOOLEAN,
           NEW d, NEW newest, NEW oldest, NEW old,
           Consistent(d, newest, oldest, old, exact)
    PROVE  /\ d \in Disk /\ newest \in Batch /\ newest.id \in Ids
           /\ d[newest.id] \in File
           /\ oldest # NoBatch =>
                /\ oldest \in Batch /\ oldest.id \in Ids
                /\ d[oldest.id] \in File
                /\ oldest.id # newest.id
           /\ FrontOf(newest, oldest) \in Batch
           /\ FrontOf(newest, oldest).id \in Ids
           /\ Knows(FrontOf(newest, oldest), d[FrontOf(newest, oldest).id], exact)
<1>1. /\ d \in Disk /\ newest \in Batch /\ Knows(newest, d[newest.id], exact)
      /\ oldest # NoBatch =>
           /\ oldest \in Batch /\ Knows(oldest, d[oldest.id], exact)
           /\ oldest.id < newest.id
  BY DEF Consistent, FilesBelow, BatchesKnow
<1>2. newest.id \in Ids /\ (oldest # NoBatch => oldest.id \in Ids)
  BY <1>1 DEF Batch
<1> QED
  BY <1>1, <1>2, OrderOfIds DEF Knows, FrontOf

LEMMA NewestChanges ==
    ASSUME NEW exact \in BOOLEAN,
           NEW d, NEW newest, NEW oldest, NEW old,
           Consistent(d, newest, oldest, old, exact),
           NEW g \in File, NEW e, Replaces(e, d, newest.id, g),
           NEW b \in Batch, b.id = newest.id, ~ b.finalized, Knows(b, g, exact)
    PROVE  Consistent(e, b, oldest, old, exact)
<1>1. /\ d \in Disk /\ newest.id \in Ids
      /\ oldest # NoBatch => oldest.id \in Ids /\ oldest.id # newest.id
  BY FilesAreFiles
<1>2. /\ e \in Disk /\ e[newest.id] = g
      /\ \A i \in Ids : i # newest.id => e[i] = d[i]
  BY <1>1, OneFileChanges
<1>4. FilesBelow(e, b)
  <2> SUFFICES ASSUME NEW i \in Ids, i > newest.id PROVE e[i] = NoFile
    BY <1>2 DEF FilesBelow
  <2>1. i # newest.id
    BY <1>1, OrderOfIds
  <2> QED
    BY <1>2, <2>1 DEF Consistent, FilesBelow
<1>5. BatchesKnow(e, b, oldest, exact)
  BY <1>1, <1>2 DEF Consistent, BatchesKnow
<1>6. BatchesInOrder(e, b, oldest, old)
  <2>1. \A i \in 1..Len(old) : e[old[i]] \in File
    <3> TAKE i \in 1..Len(old)
    <3>1. old[i] \in Ids /\ d[old[i]] \in File
      BY DEF Consistent, BatchesInOrder
    <3> QED
      BY <1>2, <3>1
  <2> QED
    BY <2>1 DEF Consistent, BatchesInOrder
<1>7. FilesAreKnown(e, b, oldest, old)
  BY <1>2 DEF Consistent, FilesAreKnown
<1> QED
  BY <1>4, <1>5, <1>6, <1>7 DEF Consistent

LEMMA OldestChanges ==
    ASSUME NEW exact \in BOOLEAN,
           NEW d, NEW newest, NEW oldest, NEW old, oldest # NoBatch,
           Consistent(d, newest, oldest, old, exact),
           NEW g \in File, NEW e, Replaces(e, d, oldest.id, g),
           NEW b \in Batch, b.id = oldest.id, b.finalized, Knows(b, g, exact)
    PROVE  Consistent(e, newest, b, old, exact)
<1>1. d \in Disk /\ newest.id \in Ids /\ oldest.id \in Ids
      /\ oldest.id # newest.id /\ b # NoBatch
  BY FilesAreFiles, BatchIsABatch
<1>2. /\ e \in Disk /\ e[oldest.id] = g
      /\ \A i \in Ids : i # oldest.id => e[i] = d[i]
  BY <1>1, OneFileChanges
<1>4. FilesBelow(e, newest)
  <2> SUFFICES ASSUME NEW i \in Ids, i > newest.id PROVE e[i] = NoFile
    BY <1>2 DEF FilesBelow
  <2>1. oldest.id < newest.id
    BY DEF Consistent, BatchesKnow
  <2>2. i # oldest.id
    BY <1>1, OrderOfIds, <2>1
  <2> QED
    BY <1>2, <2>2 DEF Consistent, FilesBelow
<1>5. BatchesKnow(e, newest, b, exact)
  BY <1>1, <1>2 DEF Consistent, BatchesKnow
<1>6. BatchesInOrder(e, newest, b, old)
  <2>1. \A i \in 1..Len(old) : e[old[i]] \in File
    <3> TAKE i \in 1..Len(old)
    <3>1. old[i] \in Ids /\ d[old[i]] \in File
      BY DEF Consistent, BatchesInOrder
    <3> QED
      BY <1>2, <3>1
  <2> QED
    BY <2>1 DEF Consistent, BatchesInOrder
<1>7. FilesAreKnown(e, newest, b, old)
  BY <1>1, <1>2 DEF Consistent, FilesAreKnown
<1> QED
  BY <1>4, <1>5, <1>6, <1>7 DEF Consistent

LEMMA OldestGoes ==
    ASSUME NEW exact \in BOOLEAN,
           NEW d, NEW newest, NEW oldest, NEW old, oldest # NoBatch,
           Consistent(d, newest, oldest, old, exact),
           NEW g \in {NoFile, <<>>}, NEW e, Replaces(e, d, oldest.id, g)
    PROVE  Consistent(e, newest, NoBatch, old, exact)
<1>1. d \in Disk /\ newest.id \in Ids /\ oldest.id \in Ids
      /\ oldest.id # newest.id
  BY FilesAreFiles
<1>2. /\ e \in Disk /\ e[oldest.id] = g
      /\ \A i \in Ids : i # oldest.id => e[i] = d[i]
  <2>1. g \in File \cup {NoFile}
    BY EmptyFile
  <2> QED
    BY <1>1, <2>1, NoFileIsNoFile, OneFileChanges
<1>4. FilesBelow(e, newest)
  <2> SUFFICES ASSUME NEW i \in Ids, i > newest.id PROVE e[i] = NoFile
    BY <1>2 DEF FilesBelow
  <2>1. oldest.id < newest.id
    BY DEF Consistent, BatchesKnow
  <2>2. i # oldest.id
    BY <1>1, OrderOfIds, <2>1
  <2> QED
    BY <1>2, <2>2 DEF Consistent, FilesBelow
<1>5. BatchesKnow(e, newest, NoBatch, exact)
  BY <1>1, <1>2 DEF Consistent, BatchesKnow
<1>6. BatchesInOrder(e, newest, NoBatch, old)
  <2>1. \A i \in 1..Len(old) : e[old[i]] \in File
    <3> TAKE i \in 1..Len(old)
    <3>1. old[i] \in Ids /\ d[old[i]] \in File /\ oldest.id < old[i]
      BY DEF Consistent, BatchesInOrder
    <3>2. old[i] # oldest.id
      BY <1>1, OrderOfIds, <3>1
    <3> QED
      BY <1>2, <3>1, <3>2
  <2> QED
    BY <2>1 DEF Consistent, BatchesInOrder
<1>7. FilesAreKnown(e, newest, NoBatch, old)
  BY <1>1, <1>2 DEF Consistent, FilesAreKnown
<1> QED
  BY <1>4, <1>5, <1>6, <1>7 DEF Consistent

\* A new file is begun; the batch that was the newest becomes the oldest
\* one, or the last of the old ones.
LEMMA BatchesRotate ==
    ASSUME NEW exact \in BOOLEAN,
           NEW d, NEW newest, NEW oldest, NEW old,
           Consistent(d, newest, oldest, old, exact),
           NEW b \in Batch, b.id = newest.id + 1, ~ b.finalized,
           NEW g \in File, Knows(b, g, exact), NEW e, Replaces(e, d, b.id, g)
    PROVE  /\ oldest = NoBatch /\ old = <<>> =>
                Consistent(e, b, [newest EXCEPT !.finalized = TRUE], old, exact)
           /\ ~ (oldest = NoBatch /\ old = <<>>) =>
                Consistent(e, b, oldest, Append(old, newest.id), exact)
<1>1. /\ d \in Disk /\ newest \in Batch /\ newest.id \in Ids /\ b.id \in Ids
      /\ d[newest.id] \in File
      /\ oldest # NoBatch => oldest.id \in Ids
  BY FilesAreFiles DEF Batch
<1>2. /\ e \in Disk /\ e[b.id] = g /\ \A i \in Ids : i # b.id => e[i] = d[i]
  BY <1>1, OneFileChanges
<1>4. newest.id < b.id /\ newest.id # b.id
  BY <1>1, OrderOfIds
<1>5. FilesBelow(e, b)
  <2> SUFFICES ASSUME NEW i \in Ids, i > b.id PROVE e[i] = NoFile
    BY <1>2 DEF FilesBelow
  <2>1. i # b.id /\ newest.id < i
    BY <1>1, OrderOfIds, <1>4
  <2>2. i > newest.id
    BY <1>1, <2>1, OrderOfIds
  <2> QED
    BY <1>2, <2>1, <2>2 DEF Consistent, FilesBelow
<1>6. ASSUME oldest = NoBatch, old = <<>>
      PROVE  Consistent(e, b, [newest EXCEPT !.finalized = TRUE], old, exact)
  <2> DEFINE o == [newest EXCEPT !.finalized = TRUE]
  <2>1. o \in Batch /\ o.id = newest.id /\ o.finalized
    BY <1>1, Zenon DEF Batch
  <2>2. Knows(o, d[newest.id], exact)
    <3>1. Knows(newest, d[newest.id], exact)
      BY DEF Consistent, BatchesKnow
    <3>2. o.open = newest.open /\ o.fileSize = newest.fileSize
          /\ o.eventCount = newest.eventCount
          /\ o.streamAtEnd = newest.streamAtEnd /\ o.pos = newest.pos
      BY <1>1 DEF Batch
    <3> HIDE DEF o
    <3> QED
      BY <3>1, <3>2 DEF Knows
  <2>3. o # NoBatch
    BY <2>1, BatchIsABatch
  <2> HIDE DEF o
  <2>4. BatchesKnow(e, b, o, exact)
    BY <1>1, <1>2, <1>4, <2>1, <2>2 DEF BatchesKnow
  <2>5. Len(old) = 0 /\ old \in Seq(Ids)
    BY <1>6
  <2>6. BatchesInOrder(e, b, o, old)
    BY <2>5 DEF BatchesInOrder
  <2>7. FilesAreKnown(e, b, o, old)
    <3> SUFFICES ASSUME NEW i \in Ids, e[i] # NoFile, e[i] # <<>>, i # b.id
                 PROVE  i = newest.id
      BY <2>1, <2>3 DEF FilesAreKnown
    <3>1. d[i] # NoFile /\ d[i] # <<>>
      BY <1>2
    <3>2. i \notin Elements(old)
      BY <1>6 DEF Elements
    <3> QED
      BY <1>6, <3>1, <3>2 DEF Consistent, FilesAreKnown
  <2>8. Consistent(e, b, o, old, exact)
    BY <1>5, <2>4, <2>6, <2>7 DEF Consistent
  <2> QED
    BY <2>8 DEF o
<1>7. ASSUME ~ (oldest = NoBatch /\ old = <<>>)
      PROVE  Consistent(e, b, oldest, Append(old, newest.id), exact)
  <2> DEFINE more == Append(old, newest.id)
  <2>1. /\ old \in Seq(Ids) /\ Len(old) \in Nat
        /\ \A i \in 1..Len(old) :
             /\ old[i] \in Ids /\ old[i] < newest.id
             /\ oldest # NoBatch => oldest.id < old[i]
             /\ d[old[i]] \in File
        /\ \A i, j \in 1..Len(old) : i < j => old[i] < old[j]
    BY DEF Consistent, BatchesInOrder
  <2>2. /\ more \in Seq(Ids) /\ Len(more) = Len(old) + 1
        /\ \A i \in 1..Len(old) : more[i] = old[i]
        /\ more[Len(old) + 1] = newest.id
    BY <1>1, <2>1
  <2> HIDE DEF more
  <2>3. BatchesKnow(e, b, oldest, exact)
    <3> SUFFICES ASSUME oldest # NoBatch
                 PROVE  /\ oldest \in Batch /\ oldest.finalized
                        /\ Knows(oldest, e[oldest.id], exact)
                        /\ oldest.id < b.id
      BY <1>2 DEF BatchesKnow
    <3>1. /\ oldest \in Batch /\ oldest.finalized
          /\ Knows(oldest, d[oldest.id], exact) /\ oldest.id < newest.id
      BY DEF Consistent, BatchesKnow
    <3>2. oldest.id < b.id /\ oldest.id # b.id
      BY <1>1, OrderOfIds, <1>4, <3>1
    <3> QED
      BY <1>1, <1>2, <3>1, <3>2
  <2>4. BatchesInOrder(e, b, oldest, more)
    <3>1. ASSUME NEW i \in 1..Len(more)
          PROVE  /\ more[i] < b.id
                 /\ oldest # NoBatch => oldest.id < more[i]
                 /\ e[more[i]] \in File
      <4>1. CASE i \in 1..Len(old)
        <5>1. more[i] = old[i] /\ old[i] \in Ids /\ old[i] < newest.id
          BY <2>1, <2>2, <4>1
        <5>2. more[i] < b.id /\ more[i] # b.id
          BY <1>1, OrderOfIds, <1>4, <5>1
        <5> QED
          BY <1>2, <2>1, <4>1, <5>1, <5>2
      <4>2. CASE i = Len(old) + 1
        <5>1. more[i] = newest.id
          BY <2>2, <4>2
        <5>2. oldest # NoBatch => oldest.id < newest.id
          BY DEF Consistent, BatchesKnow
        <5> QED
          BY <1>1, <1>2, <1>4, <5>1, <5>2
      <4> QED
        BY <2>1, <2>2, <3>1, <4>1, <4>2
    <3>2. ASSUME NEW i \in 1..Len(more), NEW j \in 1..Len(more), i < j
          PROVE  more[i] < more[j]
      <4>1. i \in 1..Len(old)
        BY <2>1, <2>2, <3>2
      <4>2. CASE j \in 1..Len(old)
        BY <2>1, <2>2, <3>2, <4>1, <4>2
      <4>3. CASE j = Len(old) + 1
        BY <2>1, <2>2, <4>1, <4>3
      <4> QED
        BY <2>1, <2>2, <3>2, <4>2, <4>3
    <3> QED
      BY <2>2, <3>1, <3>2 DEF BatchesInOrder
  <2>5. FilesAreKnown(e, b, oldest, more)
    <3> SUFFICES ASSUME NEW i \in Ids, e[i] # NoFile, e[i] # <<>>, i # b.id,
                        ~ (oldest # NoBatch /\ i = oldest.id)
                 PROVE  i \in Elements(more)
      BY DEF FilesAreKnown
    <3>1. d[i] # NoFile /\ d[i] # <<>>
      BY <1>2
    <3>2. i = newest.id \/ i \in Elements(old)
      BY <3>1 DEF Consistent, FilesAreKnown
    <3>3. CASE i = newest.id
      <4>1. Len(old) + 1 \in DOMAIN more
        BY <2>1, <2>2
      <4> QED
        BY <2>2, <3>3, <4>1 DEF Elements
    <3>4. CASE i \in Elements(old)
      <4>1. PICK j \in DOMAIN old : old[j] = i
        BY <3>4 DEF Elements
      <4>2. j \in 1..Len(old) /\ j \in DOMAIN more /\ more[j] = i
        BY <2>1, <2>2, <4>1
      <4> QED
        BY <4>2 DEF Elements
    <3> QED
      BY <3>2, <3>3, <3>4
  <2>6. Consistent(e, b, oldest, more, exact)
    BY <1>5, <2>3, <2>4, <2>5 DEF Consistent
  <2> QED
    BY <2>6 DEF more
<1> QED
  BY <1>6, <1>7

-----------------------------------------------------------------------------
(* checkOldestBatch() and getEventsForUpload().                            *)

\* The directory without the first k files of the list.
FirstOf(k) == {oldBatches[i] : i \in 1..k}
Left(k) == [i \in Ids |-> IF i \in FirstOf(k) THEN NoFile ELSE disk[i]]

LEMMA EmptyFilesAreRemoved ==
    ASSUME NEW exact \in BOOLEAN,
           StoreIsConsistent(exact), NEW k \in 0..Len(oldBatches),
           \A i \in 1..k : IsEmptyFile(oldBatches[i])
    PROVE  /\ Left(k) \in Disk /\ newestBatch.id \notin FirstOf(k)
           /\ FilesBelow(Left(k), newestBatch)
           /\ Knows(newestBatch, Left(k)[newestBatch.id], exact)
           /\ \A i \in Ids : /\ i \notin FirstOf(k) => Left(k)[i] = disk[i]
                             /\ Left(k)[i] # NoFile => i \notin FirstOf(k)
           /\ \A i \in Ids : Keeps(Contents(Left(k), i), Contents(disk, i))
<1>1. /\ disk \in Disk /\ newestBatch \in Batch /\ newestBatch.id \in Ids
      /\ Knows(newestBatch, disk[newestBatch.id], exact)
  BY FilesAreFiles DEF StoreIsConsistent, Consistent, BatchesKnow
<1>2. /\ Len(oldBatches) \in Nat
      /\ \A i \in 1..Len(oldBatches) :
           /\ oldBatches[i] \in Ids /\ oldBatches[i] < newestBatch.id
           /\ disk[oldBatches[i]] \in File
  BY DEF StoreIsConsistent, Consistent, BatchesInOrder
<1>3. \A i \in 1..k : i \in 1..Len(oldBatches)
  BY <1>2
<1>4. \A i \in Ids : i \in FirstOf(k) =>
         /\ i # newestBatch.id /\ disk[i] \in File /\ Recover(disk[i]) = <<>>
  BY <1>1, <1>2, <1>3, OrderOfIds DEF FirstOf, IsEmptyFile
<1>5. \A i \in Ids : Left(k)[i] = IF i \in FirstOf(k) THEN NoFile ELSE disk[i]
  BY DEF Left
<1>6. Left(k) \in Disk
  BY <1>1 DEF Left, Disk
<1>7. newestBatch.id \notin FirstOf(k)
  BY <1>1, <1>4
<1>8. FilesBelow(Left(k), newestBatch)
  BY <1>5, <1>6 DEF StoreIsConsistent, Consistent, FilesBelow
<1>9. \A i \in Ids : Keeps(Contents(Left(k), i), Contents(disk, i))
  <2> TAKE i \in Ids
  <2>1. CASE i \in FirstOf(k)
    <3>1. Contents(Left(k), i) = <<>> /\ Contents(disk, i) = disk[i]
      BY <1>1, <1>4, <1>5, <2>1, ContentsAreFiles DEF Contents
    <3>2. disk[i] \in File /\ Newlines(<<>>) = Newlines(disk[i])
          /\ Len(<<>>) <= Len(disk[i])
          /\ \A j \in Newlines(disk[i]) : LineAt(<<>>, j) = LineAt(disk[i], j)
      BY <1>4, <2>1, RecoverIsClean
    <3> QED
      BY <3>1, <3>2 DEF Keeps
  <2>2. CASE i \notin FirstOf(k)
    <3>1. Contents(Left(k), i) = Contents(disk, i)
      BY <1>5, <2>2 DEF Contents
    <3> QED
      BY <1>1, <3>1, ContentsAreFiles, FileKeepsItself
  <2> QED
    BY <2>1, <2>2
<1> QED
  BY <1>1, <1>5, <1>6, <1>7, <1>8, <1>9

LEMMA CheckIsConsistent ==
    ASSUME NEW exact \in BOOLEAN,
           StoreIsConsistent(exact), NEW c, c = CheckOldestBatch
    PROVE  /\ Consistent(c.disk, newestBatch, c.oldest, c.old, exact)
           /\ c.oldest = NoBatch => c.old = <<>>
           /\ \A i \in Ids : Keeps(Contents(c.disk, i), Contents(disk, i))
           /\ \/ c.oldest = NoBatch \/ c.oldest = oldestBatch
              \/ c.oldest.fileSize = Len(Contents(c.disk, c.oldest.id))
<1> DEFINE K == {j \in 0..Len(oldBatches) :
                    \A i \in 1..j : IsEmptyFile(oldBatches[i])}
           k == Max(K)
           next == oldBatches[k + 1]
<1>1. c = IF oldestBatch # NoBatch
          THEN [oldest |-> oldestBatch, old |-> oldBatches, disk |-> disk]
          ELSE IF k = Len(oldBatches)
          THEN [oldest |-> NoBatch, old |-> <<>>, disk |-> Left(k)]
          ELSE [oldest |-> OpenBatch(next, disk[next], TRUE),
                old |-> SubSeq(oldBatches, k + 2, Len(oldBatches)),
                disk |-> [Left(k) EXCEPT ![next] = Recover(@)]]
  BY Zenon DEF CheckOldestBatch, FirstOf, Left
<1>2. /\ disk \in Disk /\ oldBatches \in Seq(Ids) /\ Len(oldBatches) \in Nat
      /\ newestBatch \in Batch /\ ~ newestBatch.finalized
      /\ newestBatch.id \in Ids
      /\ \A i \in 1..Len(oldBatches) :
           /\ oldBatches[i] \in Ids /\ oldBatches[i] < newestBatch.id
           /\ disk[oldBatches[i]] \in File
      /\ \A i, j \in 1..Len(oldBatches) :
           i < j => oldBatches[i] < oldBatches[j]
  BY FilesAreFiles
     DEF StoreIsConsistent, Consistent, BatchesInOrder, BatchesKnow
<1>3. k \in 0..Len(oldBatches) /\ \A i \in 1..k : IsEmptyFile(oldBatches[i])
  <2>1. 0 \in K
    BY <1>2
  <2>2. IsFiniteSet(0..Len(oldBatches))
    BY <1>2, FS_Interval
  <2>3. K \in SUBSET (0..Len(oldBatches)) /\ K \subseteq Nat
    BY <1>2
  <2>4. k \in K
    <3> HIDE DEF K
    <3>1. IsFiniteSet(K)
      BY <2>2, <2>3, FS_Subset
    <3> QED
      BY <2>1, <2>3, <3>1, GreatestIsThere
  <2> HIDE DEF k
  <2> QED
    BY <2>4
<1> HIDE DEF K, k
<1>4. CASE oldestBatch # NoBatch
  <2>1. c.oldest = oldestBatch /\ c.old = oldBatches /\ c.disk = disk
    BY <1>1, <1>4
  <2> QED
    BY <1>2, <1>4, <2>1, ContentsAreFiles, FileKeepsItself
       DEF StoreIsConsistent
<1>5. /\ Left(k) \in Disk /\ newestBatch.id \notin FirstOf(k)
      /\ FilesBelow(Left(k), newestBatch)
      /\ Knows(newestBatch, Left(k)[newestBatch.id], exact)
      /\ \A i \in Ids : /\ i \notin FirstOf(k) => Left(k)[i] = disk[i]
                        /\ Left(k)[i] # NoFile => i \notin FirstOf(k)
      /\ \A i \in Ids : Keeps(Contents(Left(k), i), Contents(disk, i))
  BY <1>3, EmptyFilesAreRemoved
<1>6. ASSUME oldestBatch = NoBatch, NEW i \in Ids,
             Left(k)[i] # NoFile, Left(k)[i] # <<>>
      PROVE  /\ i \notin FirstOf(k)
             /\ i = newestBatch.id \/ i \in Elements(oldBatches)
  <2>1. i \notin FirstOf(k) /\ disk[i] # NoFile /\ disk[i] # <<>>
    BY <1>5, <1>6
  <2> QED
    BY <1>6, <2>1 DEF StoreIsConsistent, Consistent, FilesAreKnown
<1>7. CASE oldestBatch = NoBatch /\ k = Len(oldBatches)
  <2>1. c.oldest = NoBatch /\ c.old = <<>> /\ c.disk = Left(k)
    BY <1>1, <1>7
  <2>2. BatchesKnow(Left(k), newestBatch, NoBatch, exact)
    BY <1>2, <1>5 DEF BatchesKnow
  <2>3. BatchesInOrder(Left(k), newestBatch, NoBatch, <<>>)
    BY DEF BatchesInOrder
  <2>4. FilesAreKnown(Left(k), newestBatch, NoBatch, <<>>)
    <3> SUFFICES ASSUME NEW i \in Ids,
                        Left(k)[i] # NoFile, Left(k)[i] # <<>>
                 PROVE  i = newestBatch.id
      BY DEF FilesAreKnown
    <3>1. FirstOf(k) = Elements(oldBatches)
      BY <1>2, <1>7 DEF FirstOf, Elements
    <3> QED
      BY <1>6, <1>7, <3>1
  <2>5. Consistent(Left(k), newestBatch, NoBatch, <<>>, exact)
    BY <1>5, <2>2, <2>3, <2>4 DEF Consistent
  <2> QED
    BY <1>5, <2>1, <2>5
<1>8. CASE oldestBatch = NoBatch /\ k # Len(oldBatches)
  <2> DEFINE o == OpenBatch(next, disk[next], TRUE)
             old == SubSeq(oldBatches, k + 2, Len(oldBatches))
             e == [Left(k) EXCEPT ![next] = Recover(@)]
             n == Len(oldBatches)
  <2>1. c.oldest = o /\ c.old = old /\ c.disk = e
    <3>1. c = [oldest |-> o, old |-> old, disk |-> e]
      BY <1>1, <1>8, Zenon
    <3> HIDE DEF o, old, e
    <3> QED
      BY <3>1
  <2>2. k + 1 \in 1..n /\ k \in Nat /\ n \in Nat /\ k < n
    BY <1>2, <1>3, <1>8
  <2>3. next \in Ids /\ disk[next] \in File /\ next < newestBatch.id
    BY <1>2, <2>2
  <2>4. next \notin FirstOf(k)
    <3> SUFFICES ASSUME NEW i \in 1..k PROVE oldBatches[i] # next
      BY DEF FirstOf
    <3>1. i \in 1..n /\ i < k + 1
      BY <2>2
    <3> QED
      BY <1>2, <2>2, <2>3, <3>1, OrderOfIds
  <2> DEFINE r == Recover(disk[next])
  <2>5. r \in File /\ Keeps(r, disk[next])
    BY <2>3, RecoverIsClean DEF Keeps
  <2>6. /\ o \in Batch /\ o.id = next /\ o.finalized /\ Knows(o, r, exact)
        /\ o # NoBatch /\ o.fileSize = Len(r)
    <3>1. PICK f : f = disk[next]
      OBVIOUS
    <3>2. PICK id : id = next
      OBVIOUS
    <3>3. f \in File /\ id \in Ids
      BY <2>3, <3>1, <3>2
    <3>4. o = OpenBatch(id, f, TRUE) /\ r = Recover(f)
      BY <3>1, <3>2
    <3> HIDE DEF o, r, next
    <3>5. /\ o \in Batch /\ o.id = id /\ o.finalized = TRUE
          /\ o.fileSize = Len(r) /\ Knows(o, r, exact)
      BY <3>3, <3>4, OpenedKnows
    <3> QED
      BY <3>2, <3>5, BatchIsABatch
  <2>7. Replaces(e, Left(k), next, r)
    BY <1>5, <2>3, <2>4 DEF Replaces
  <2>8. /\ old \in Seq(Ids) /\ Len(old) = n - (k + 1)
        /\ \A i \in 1..n - (k + 1) : old[i] = oldBatches[(k + 1) + i]
    <3> DEFINE m == k + 2
    <3>1. m \in Int /\ n \in Int /\ \A i \in m..n : oldBatches[i] \in Ids
      BY <1>2, <2>2
    <3>2. /\ SubSeq(oldBatches, m, n) \in Seq(Ids)
          /\ Len(SubSeq(oldBatches, m, n)) = IF m <= n THEN n - m + 1 ELSE 0
          /\ \A i \in 1..n - m + 1 :
               SubSeq(oldBatches, m, n)[i] = oldBatches[m + i - 1]
      <4> HIDE DEF m, n
      <4> QED
        BY <3>1, SubSeqProperties
    <3> HIDE DEF n
    <3>3. Len(SubSeq(oldBatches, m, n)) = n - (k + 1)
      BY <2>2, <3>2
    <3>4. \A i \in 1..n - (k + 1) :
             SubSeq(oldBatches, m, n)[i] = oldBatches[(k + 1) + i]
      <4> TAKE i \in 1..n - (k + 1)
      <4>1. i \in 1..n - m + 1 /\ m + i - 1 = (k + 1) + i
        BY <2>2
      <4> QED
        BY <3>2, <4>1
    <3> HIDE DEF m
    <3> QED
      BY <3>2, <3>3, <3>4 DEF m, n
  <2> HIDE DEF o, old, e, r, next
  <2>9. /\ e \in Disk /\ e[next] = r /\ Contents(e, next) = r
        /\ \A i \in Ids : i # next =>
              e[i] = Left(k)[i] /\ Contents(e, i) = Contents(Left(k), i)
    BY <1>5, <2>3, <2>5, <2>7, OneFileChanges
  <2>10. FilesBelow(e, newestBatch)
    <3> SUFFICES ASSUME NEW i \in Ids, i > newestBatch.id PROVE e[i] = NoFile
      BY <2>9 DEF FilesBelow
    <3>1. i # next
      BY <1>2, <2>3, OrderOfIds
    <3> QED
      BY <1>5, <2>9, <3>1 DEF FilesBelow
  <2>11. BatchesKnow(e, newestBatch, o, exact)
    BY <1>2, <1>5, <2>3, <2>6, <2>9, OrderOfIds DEF BatchesKnow
  <2>12. \A i \in 1..n - (k + 1) :
            /\ (k + 1) + i \in 1..n /\ k + 1 < (k + 1) + i
            /\ old[i] = oldBatches[(k + 1) + i]
    BY <2>2, <2>8
  <2>13. BatchesInOrder(e, newestBatch, o, old)
    <3>1. ASSUME NEW i \in 1..n - (k + 1)
          PROVE  /\ old[i] < newestBatch.id /\ next < old[i]
                 /\ e[old[i]] \in File
      <4>1. /\ old[i] \in Ids /\ old[i] < newestBatch.id
            /\ disk[old[i]] \in File /\ next < old[i]
        BY <1>2, <2>2, <2>12 DEF next
      <4>2. old[i] # next
        BY <2>3, <4>1, OrderOfIds
      <4>3. old[i] \notin FirstOf(k)
        <5> SUFFICES ASSUME NEW j \in 1..k PROVE oldBatches[j] # old[i]
          BY DEF FirstOf
        <5>1. j \in 1..n /\ j < (k + 1) + i
          BY <2>2, <2>12
        <5> QED
          BY <1>2, <2>12, <5>1, OrderOfIds
      <4> QED
        BY <1>5, <2>9, <4>1, <4>2, <4>3
    <3>2. ASSUME NEW i \in 1..n - (k + 1), NEW j \in 1..n - (k + 1), i < j
          PROVE  old[i] < old[j]
      <4>1. (k + 1) + i < (k + 1) + j
        BY <2>2, <3>2
      <4> QED
        BY <1>2, <2>12, <4>1
    <3> QED
      BY <2>6, <2>8, <3>1, <3>2 DEF BatchesInOrder
  <2>14. FilesAreKnown(e, newestBatch, o, old)
    <3> SUFFICES ASSUME NEW i \in Ids, e[i] # NoFile, e[i] # <<>>,
                        i # newestBatch.id, i # next
                 PROVE  i \in Elements(old)
      BY <2>6 DEF FilesAreKnown
    <3>1. i \notin FirstOf(k) /\ i \in Elements(oldBatches)
      BY <1>6, <1>8, <2>9
    <3>2. PICK j \in 1..n : i = oldBatches[j]
      BY <1>2, <3>1 DEF Elements
    <3>3. ~ (j \in 1..k) /\ j # k + 1
      BY <3>1, <3>2 DEF FirstOf, next
    <3>4. j - (k + 1) \in 1..n - (k + 1) /\ (k + 1) + (j - (k + 1)) = j
      BY <2>2, <3>3
    <3>5. j - (k + 1) \in DOMAIN old /\ old[j - (k + 1)] = i
      BY <2>8, <3>2, <3>4
    <3> QED
      BY <3>5 DEF Elements
  <2>15. Consistent(e, newestBatch, o, old, exact)
    BY <2>10, <2>11, <2>13, <2>14 DEF Consistent
  <2>16. \A i \in Ids : Keeps(Contents(e, i), Contents(disk, i))
    <3> TAKE i \in Ids
    <3>1. CASE i = next
      <4>1. Contents(disk, i) = disk[next]
        BY <1>2, <2>3, <3>1, ContentsAreFiles
      <4> QED
        BY <2>5, <2>9, <3>1, <4>1
    <3>2. CASE i # next
      BY <1>5, <2>9, <3>2
    <3> QED
      BY <3>1, <3>2
  <2> QED
    BY <2>1, <2>6, <2>9, <2>15, <2>16
<1> QED
  BY <1>4, <1>7, <1>8

LEMMA GetEventsIsConsistent ==
    ASSUME NEW exact \in BOOLEAN,
           StoreIsConsistent(exact), NEW maxCount \in Nat, NEW maxSize \in Nat,
           GetEvents(maxCount, maxSize)
    PROVE  /\ StoreIsConsistent(exact)'
           /\ list'.null \in BOOLEAN
           /\ ~ list'.null =>
                /\ IsFrontList(list', disk', newestBatch', oldestBatch',
                               oldBatches', exact)
                /\ IsListOf(list', disk'[FrontOf(newestBatch', oldestBatch').id])
           /\ \A i \in Ids : Keeps(Contents(disk', i), Contents(disk, i))
           /\ newestBatch'.id = newestBatch.id
           /\ newestBatch'.fileSize = newestBatch.fileSize
           /\ oldestBatch' # NoBatch =>
                \/ /\ oldestBatch # NoBatch /\ oldestBatch'.id = oldestBatch.id
                   /\ oldestBatch'.fileSize = oldestBatch.fileSize
                \/ oldestBatch'.fileSize = Len(Contents(disk', oldestBatch'.id))
<1>1. PICK c : /\ c = CheckOldestBatch
               /\ disk' = c.disk /\ oldBatches' = c.old
               /\ c.oldest = NoBatch =>
                    /\ list' = ListOf(newestBatch, c.disk[newestBatch.id],
                                      maxCount, maxSize)
                    /\ newestBatch' = AfterRead(newestBatch)
                    /\ oldestBatch' = NoBatch
               /\ c.oldest # NoBatch =>
                    /\ list' = ListOf(c.oldest, c.disk[c.oldest.id],
                                      maxCount, maxSize)
                    /\ oldestBatch' = AfterRead(c.oldest)
                    /\ newestBatch' = newestBatch
  BY Zenon DEF GetEvents
<1>2. /\ Consistent(c.disk, newestBatch, c.oldest, c.old, exact)
      /\ c.oldest = NoBatch => c.old = <<>>
      /\ \A i \in Ids : Keeps(Contents(c.disk, i), Contents(disk, i))
      /\ \/ c.oldest = NoBatch \/ c.oldest = oldestBatch
         \/ c.oldest.fileSize = Len(Contents(c.disk, c.oldest.id))
  BY <1>1, CheckIsConsistent
<1>3. /\ c.disk \in Disk /\ newestBatch \in Batch /\ newestBatch.id \in Ids
      /\ c.disk[newestBatch.id] \in File
      /\ Knows(newestBatch, c.disk[newestBatch.id], exact) /\ ~ newestBatch.finalized
  BY <1>2, FilesAreFiles DEF Consistent, BatchesKnow
<1>4. \A i \in Ids : Replaces(c.disk, c.disk, i, c.disk[i])
  BY <1>3 DEF Replaces, Disk
<1>5. CASE c.oldest = NoBatch
  <2> DEFINE f == c.disk[newestBatch.id]
             b == AfterRead(newestBatch)
  <2>1. /\ b \in Batch /\ b.id = newestBatch.id /\ ~ b.finalized
        /\ Knows(b, f, exact) /\ (newestBatch.fileSize # 0 => ~ b.streamAtEnd)
        /\ b.fileSize = newestBatch.fileSize
    BY <1>3, ReadKeeps
  <2>2. Consistent(c.disk, b, c.oldest, c.old, exact)
    <3> HIDE DEF b
    <3> QED
      BY <1>2, <1>3, <1>4, <2>1, NewestChanges
  <2>3. /\ list'.null <=> newestBatch.fileSize = 0 \/ maxCount = 0
        /\ list'.null \in BOOLEAN
        /\ ~ list'.null =>
             IsListOf(list', f) /\ list'.size <= newestBatch.fileSize
    BY <1>1, <1>3, <1>5, ListIsPrefix
  <2>4. /\ newestBatch' = b /\ oldestBatch' = c.oldest /\ oldBatches' = c.old
        /\ disk' = c.disk
    BY <1>1, <1>5
  <2>5. ~ list'.null => IsFrontList(list', disk', b, c.oldest, c.old, exact)
    BY <1>2, <1>5, <2>1, <2>3, <2>4 DEF IsFrontList, FrontOf
  <2> QED
    BY <1>1, <1>2, <1>5, <2>1, <2>2, <2>3, <2>4, <2>5
       DEF StoreIsConsistent, FrontOf
<1>6. CASE c.oldest # NoBatch
  <2> DEFINE f == c.disk[c.oldest.id]
             b == AfterRead(c.oldest)
  <2>1. /\ c.oldest \in Batch /\ c.oldest.id \in Ids /\ f \in File
        /\ Knows(c.oldest, f, exact) /\ c.oldest.finalized
    BY <1>2, <1>6, FilesAreFiles DEF Consistent, BatchesKnow
  <2>2. /\ b \in Batch /\ b.id = c.oldest.id /\ b.finalized
        /\ Knows(b, f, exact) /\ (c.oldest.fileSize # 0 => ~ b.streamAtEnd)
        /\ b # NoBatch /\ b.fileSize = c.oldest.fileSize
    BY <2>1, ReadKeeps, BatchIsABatch
  <2>3. Consistent(c.disk, newestBatch, b, c.old, exact)
    <3> HIDE DEF b
    <3> QED
      BY <1>2, <1>4, <1>6, <2>1, <2>2, OldestChanges
  <2>4. /\ list'.null <=> c.oldest.fileSize = 0 \/ maxCount = 0
        /\ list'.null \in BOOLEAN
        /\ ~ list'.null =>
             IsListOf(list', f) /\ list'.size <= c.oldest.fileSize
    BY <1>1, <1>6, <2>1, ListIsPrefix
  <2>5. /\ newestBatch' = newestBatch /\ oldestBatch' = b
        /\ oldBatches' = c.old /\ disk' = c.disk
    BY <1>1, <1>6
  <2>6. ~ list'.null => IsFrontList(list', disk', newestBatch, b, c.old, exact)
    BY <2>2, <2>4, <2>5 DEF IsFrontList, FrontOf
  <2>7. \/ /\ oldestBatch # NoBatch /\ oldestBatch'.id = oldestBatch.id
           /\ oldestBatch'.fileSize = oldestBatch.fileSize
        \/ oldestBatch'.fileSize = Len(Contents(disk', oldestBatch'.id))
    BY <1>2, <1>6, <2>2, <2>5
  <2> QED
    BY <1>2, <2>2, <2>3, <2>4, <2>5, <2>6, <2>7 DEF StoreIsConsistent, FrontOf
<1> QED
  BY <1>5, <1>6

-----------------------------------------------------------------------------
(* onEventsUploaded().                                                     *)

\* What is left of a file after its first s units have been removed.
WhatIsLeft(g, f, s) ==
    /\ g \in File /\ IsRest(g, f, s)

LEMMA FrontIsFile ==
    ASSUME NEW exact \in BOOLEAN,
           StoreIsConsistent(exact)
    PROVE  /\ disk \in Disk /\ Front.id \in Ids /\ disk[Front.id] \in File
           /\ Contents(disk, Front.id) = disk[Front.id]
           /\ Front \in Batch /\ Knows(Front, disk[Front.id], exact)
<1>1. /\ disk \in Disk /\ Front \in Batch /\ Front.id \in Ids
      /\ Knows(Front, disk[Front.id], exact)
  BY FilesAreFiles DEF StoreIsConsistent, Front
<1>2. disk[Front.id] \in File
  BY <1>1 DEF Knows
<1> QED
  BY <1>1, <1>2, ContentsAreFiles

LEMMA UploadedIsConsistent ==
    ASSUME NEW exact \in BOOLEAN, StoreIsConsistent(exact), OnEventsUploaded,
           IsFrontList(list, disk, newestBatch, oldestBatch, oldBatches, exact)
    PROVE  /\ StoreIsConsistent(exact)'
           /\ Front.id \in Ids /\ disk[Front.id] \in File
           /\ list.size \in 0..Len(disk[Front.id])
           /\ \A i \in Ids : i # Front.id => Contents(disk', i) = Contents(disk, i)
           /\ list.size = Front.fileSize => Contents(disk', Front.id) = <<>>
           /\ list.size # Front.fileSize =>
                WhatIsLeft(Contents(disk', Front.id), disk[Front.id], list.size)
           /\ oldestBatch = NoBatch =>
                /\ oldestBatch' = NoBatch /\ newestBatch'.id = newestBatch.id
                /\ list.size # Front.fileSize =>
                     newestBatch'.fileSize = Len(Contents(disk', Front.id))
           /\ oldestBatch # NoBatch =>
                /\ newestBatch' = newestBatch
                /\ oldestBatch' # NoBatch => oldestBatch'.id = oldestBatch.id
                /\ list.size # Front.fileSize =>
                     oldestBatch'.fileSize = Len(Contents(disk', Front.id))
<1> DEFINE b == Front
           f == disk[b.id]
           u == Uploaded(b, f, list)
<1>1. /\ disk' = [disk EXCEPT ![b.id] = u.file]
      /\ oldBatches' = oldBatches
      /\ oldestBatch = NoBatch =>
           newestBatch' = u.batch /\ oldestBatch' = NoBatch
      /\ oldestBatch # NoBatch =>
           /\ newestBatch' = newestBatch
           /\ oldestBatch' = IF HasEvents(u.batch) THEN u.batch ELSE NoBatch
  BY Zenon DEF OnEventsUploaded, Acknowledge, SetFront, FrontBatch, Front, FrontOf
<1>2. /\ b \in Batch /\ b.id \in Ids /\ Knows(b, f, exact) /\ f \in File
      /\ disk \in Disk
      /\ oldestBatch = NoBatch => ~ b.finalized /\ b = newestBatch
      /\ oldestBatch # NoBatch => b.finalized /\ b = oldestBatch
  BY FilesAreFiles
     DEF StoreIsConsistent, Consistent, BatchesKnow, Front, FrontOf, Knows
<1>3. /\ IsListOf(list, f) /\ list.size <= b.fileSize
      /\ exact => (b.streamAtEnd => Len(f) > list.size)
  BY DEF IsFrontList, Front
<1> HIDE DEF b, f
<1>4. /\ u.batch \in Batch /\ u.batch.id = b.id
      /\ u.batch.finalized = b.finalized
      /\ list.size = b.fileSize /\ b.finalized =>
           u.file = NoFile /\ ~ HasEvents(u.batch)
      /\ list.size = b.fileSize /\ ~ b.finalized =>
           u.file = <<>> /\ Knows(u.batch, u.file, exact)
      /\ list.size # b.fileSize =>
           /\ Knows(u.batch, u.file, exact) /\ HasEvents(u.batch)
           /\ u.batch.fileSize = Len(u.file)
           /\ u.file \in File /\ IsRest(u.file, f, list.size)
  BY <1>2, <1>3, ListIsRemoved
<1>5. list.size \in 0..Len(f)
  BY <1>3 DEF IsListOf
<1> HIDE DEF u
<1>6. Replaces(disk', disk, b.id, u.file)
  BY <1>1 DEF Replaces
<1>7. CASE list.size = b.fileSize /\ b.finalized
  <2>1. oldestBatch # NoBatch /\ oldestBatch' = NoBatch
        /\ newestBatch' = newestBatch /\ u.file = NoFile /\ b = oldestBatch
    BY <1>1, <1>2, <1>4, <1>7
  <2>2. StoreIsConsistent(exact)'
    BY <1>1, <1>6, <2>1, OldestGoes DEF StoreIsConsistent
  <2>3. /\ Contents(disk', b.id) = <<>>
        /\ \A i \in Ids : i # b.id => Contents(disk', i) = Contents(disk, i)
    BY <1>2, <1>6, <2>1, NoFileIsNoFile, OneFileChanges
  <2> QED
    BY <1>2, <1>5, <1>7, <2>1, <2>2, <2>3 DEF b, f
<1>8. CASE ~ (list.size = b.fileSize /\ b.finalized)
  <2>1. Knows(u.batch, u.file, exact) /\ u.file \in File
    BY <1>4, <1>8 DEF Knows
  <2>2. /\ Contents(disk', b.id) = u.file
        /\ \A i \in Ids : i # b.id => Contents(disk', i) = Contents(disk, i)
    BY <1>2, <1>6, <2>1, OneFileChanges
  <2>3. CASE oldestBatch = NoBatch
    <3>1. b = newestBatch /\ newestBatch' = u.batch /\ oldestBatch' = NoBatch
      BY <1>1, <1>2, <2>3
    <3>2. StoreIsConsistent(exact)'
      BY <1>1, <1>2, <1>4, <1>6, <2>1, <2>3, <3>1, NewestChanges
         DEF StoreIsConsistent
    <3> QED
      BY <1>2, <1>4, <1>5, <1>8, <2>1, <2>2, <2>3, <3>1, <3>2
         DEF WhatIsLeft, b, f
  <2>4. CASE oldestBatch # NoBatch
    <3>1. /\ b = oldestBatch /\ list.size # b.fileSize
          /\ newestBatch' = newestBatch /\ oldestBatch' = u.batch
      BY <1>1, <1>2, <1>4, <1>8, <2>4
    <3>2. StoreIsConsistent(exact)'
      BY <1>1, <1>2, <1>4, <1>6, <2>1, <2>4, <3>1, OldestChanges
         DEF StoreIsConsistent
    <3> QED
      BY <1>2, <1>4, <1>5, <2>1, <2>2, <2>4, <3>1, <3>2 DEF WhatIsLeft, b, f
  <2> QED
    BY <2>3, <2>4
<1> QED
  BY <1>7, <1>8

\* When what the batch knows is exact, all but the list is left.
LEMMA AllButTheListIsLeft ==
    ASSUME StoreIsConsistent(TRUE), OnEventsUploaded,
           IsFrontList(list, disk, newestBatch, oldestBatch, oldBatches, TRUE)
    PROVE  /\ WhatIsLeft(Contents(disk', Front.id), disk[Front.id], list.size)
           /\ EventsIn(disk[Front.id]) =
                EventsIn(list.data) \cup EventsIn(Contents(disk', Front.id))
<1> DEFINE f == disk[Front.id]
           g == Contents(disk', Front.id)
<1>1. /\ f \in File /\ Len(f) \in Nat /\ list.size \in 0..Len(f)
      /\ list.size = Front.fileSize => g = <<>>
      /\ list.size # Front.fileSize => WhatIsLeft(g, f, list.size)
  <2>1. TRUE \in BOOLEAN
    OBVIOUS
  <2>2. /\ disk[Front.id] \in File
        /\ list.size \in 0..Len(disk[Front.id])
        /\ list.size = Front.fileSize => Contents(disk', Front.id) = <<>>
        /\ list.size # Front.fileSize =>
             WhatIsLeft(Contents(disk', Front.id), disk[Front.id], list.size)
    BY <2>1, UploadedIsConsistent, Zenon
  <2> QED
    BY <2>2 DEF File
<1>2. /\ list.data = First(f, list.size)
      /\ list.size = 0 \/ list.size \in Newlines(f)
      /\ Front.fileSize = Len(f)
  <2>1. IsListOf(list, f) /\ Knows(Front, f, TRUE)
    BY FrontIsFile DEF IsFrontList, Front
  <2> QED
    BY <2>1 DEF IsListOf, Knows
<1> HIDE DEF f, g
<1>3. WhatIsLeft(g, f, list.size)
  <2>1. CASE list.size = Len(f)
    <3>1. g = <<>>
      BY <1>1, <1>2, <2>1
    <3>2. IsRest(<<>>, f, list.size)
      BY <1>1, <1>2, <2>1, EmptyFile DEF IsRest
    <3> QED
      BY <3>1, <3>2, EmptyFile DEF WhatIsLeft
  <2>2. CASE list.size # Len(f)
    BY <1>1, <1>2, <2>2
  <2> QED
    BY <2>1, <2>2
<1>4. EventsIn(f) = EventsIn(list.data) \cup EventsIn(g)
  BY <1>1, <1>2, <1>3, RestHoldsTheRest DEF WhatIsLeft
<1> QED
  BY <1>3, <1>4 DEF f, g

-----------------------------------------------------------------------------
(* addEvent().                                                             *)

LEMMA NewestForIsBatch ==
    ASSUME NEW exact \in BOOLEAN,
           StoreIsConsistent(exact), NEW n, NewestFor(n).id \in Ids
    PROVE  /\ NewestFor(n) \in Batch /\ ~ NewestFor(n).finalized
           /\ FileOf(NewestFor(n)) \in File
           /\ FileOf(NewestFor(n)) = Contents(disk, NewestFor(n).id)
           /\ Knows(NewestFor(n), FileOf(NewestFor(n)), exact)
           /\ \/ NewestFor(n) = newestBatch
              \/ /\ NewestFor(n) # newestBatch
                 /\ NewestFor(n).id = newestBatch.id + 1
                 /\ disk[NewestFor(n).id] = NoFile
<1> DEFINE b == NewestFor(n)
<1>1. /\ disk \in Disk /\ newestBatch \in Batch /\ newestBatch.id \in Ids
      /\ disk[newestBatch.id] \in File /\ ~ newestBatch.finalized
      /\ Knows(newestBatch, disk[newestBatch.id], exact)
  BY FilesAreFiles DEF StoreIsConsistent, Consistent, BatchesKnow
<1>2. FileOf(b) = Contents(disk, b.id)
  BY DEF FileOf, Contents
<1>3. b = newestBatch \/ b = OpenBatch(newestBatch.id + 1, <<>>, FALSE)
  BY Zenon DEF NewestFor
<1> HIDE DEF b
<1>4. CASE b = newestBatch
  <2>1. FileOf(b) = disk[newestBatch.id]
    BY <1>1, <1>2, <1>4, ContentsAreFiles
  <2> QED
    BY <1>1, <1>2, <1>4, <2>1 DEF b
<1>5. CASE b = OpenBatch(newestBatch.id + 1, <<>>, FALSE)
  <2>1. b.id = newestBatch.id + 1
    BY <1>5 DEF OpenBatch
  <2>2. b.id \in Ids /\ newestBatch.id < b.id /\ b.id > newestBatch.id
        /\ b.id # newestBatch.id
    BY <1>1, <2>1, OrderOfIds DEF b
  <2>3. disk[b.id] = NoFile
    BY <2>2 DEF StoreIsConsistent, Consistent, FilesBelow
  <2>4. FileOf(b) = <<>>
    BY <2>3 DEF FileOf
  <2>5. b \in Batch /\ ~ b.finalized /\ Knows(b, <<>>, exact)
    <3>1. newestBatch.id + 1 \in Ids /\ <<>> \in File /\ FALSE \in BOOLEAN
      BY <2>1, <2>2, EmptyFile
    <3>2. /\ OpenBatch(newestBatch.id + 1, <<>>, FALSE) \in Batch
          /\ OpenBatch(newestBatch.id + 1, <<>>, FALSE).finalized = FALSE
          /\ Knows(OpenBatch(newestBatch.id + 1, <<>>, FALSE), Recover(<<>>), exact)
      BY <3>1, OpenedKnows
    <3> QED
      BY <1>5, <3>2, EmptyFile
  <2> QED
    BY <1>2, <2>1, <2>2, <2>3, <2>4, <2>5, EmptyFile DEF b
<1> QED
  BY <1>3, <1>4, <1>5

\* addEvent() uses the newest batch or a new one.
Begun(b) == IF b = newestBatch THEN UNCHANGED <<oldestBatch, oldBatches>>
            ELSE Rotate

LEMMA NewestForStays ==
    ASSUME NEW exact \in BOOLEAN,
           StoreIsConsistent(exact), NEW n, NewestFor(n).id \in Ids,
           Begun(NewestFor(n)), newestBatch' \in Batch,
           newestBatch'.id = NewestFor(n).id, ~ newestBatch'.finalized,
           NEW g \in File, Knows(newestBatch', g, exact),
           Replaces(disk', disk, NewestFor(n).id, g)
    PROVE  StoreIsConsistent(exact)'
<1> DEFINE b == NewestFor(n)
<1>1. /\ b \in Batch /\ ~ b.finalized
      /\ \/ b = newestBatch
         \/ b # newestBatch /\ b.id = newestBatch.id + 1
  BY NewestForIsBatch
<1> HIDE DEF b
<1>2. CASE b = newestBatch
  <2>1. UNCHANGED <<oldestBatch, oldBatches>>
    BY <1>2 DEF Begun, b
  <2> QED
    BY <1>2, <2>1, NewestChanges DEF StoreIsConsistent, b
<1>3. CASE b # newestBatch /\ b.id = newestBatch.id + 1
  <2>1. Rotate
    BY <1>3 DEF Begun, b
  <2>2. /\ oldestBatch = NoBatch /\ oldBatches = <<>> =>
             /\ oldestBatch' = [newestBatch EXCEPT !.finalized = TRUE]
             /\ oldBatches' = oldBatches
        /\ ~ (oldestBatch = NoBatch /\ oldBatches = <<>>) =>
             /\ oldBatches' = Append(oldBatches, newestBatch.id)
             /\ oldestBatch' = oldestBatch
    BY <2>1, Zenon DEF Rotate
  <2>3. Replaces(disk', disk, newestBatch'.id, g)
    BY DEF b
  <2>4. newestBatch'.id = newestBatch.id + 1
    BY <1>3 DEF b
  <2>5. /\ oldestBatch = NoBatch /\ oldBatches = <<>> =>
             Consistent(disk', newestBatch',
                        [newestBatch EXCEPT !.finalized = TRUE], oldBatches, exact)
        /\ ~ (oldestBatch = NoBatch /\ oldBatches = <<>>) =>
             Consistent(disk', newestBatch', oldestBatch,
                        Append(oldBatches, newestBatch.id), exact)
    BY <2>3, <2>4, BatchesRotate DEF StoreIsConsistent
  <2> QED
    BY <2>2, <2>5, Zenon DEF StoreIsConsistent
<1> QED
  BY <1>1, <1>2, <1>3

\* The list that is on its way still begins the file of the batch that the
\* uploader works on.
LEMMA ListStaysInFront ==
    ASSUME NEW exact \in BOOLEAN,
           StoreIsConsistent(exact), NEW n, NewestFor(n).id \in Ids,
           Begun(NewestFor(n)), newestBatch'.id = NewestFor(n).id,
           NEW g \in File,
           Agree(g, FileOf(NewestFor(n)), NewestFor(n).fileSize),
           NewestFor(n).fileSize <= newestBatch'.fileSize,
           newestBatch'.fileSize \in Nat,
           Replaces(disk', disk, NewestFor(n).id, g),
           exact => \/ newestBatch' = NewestFor(n) /\ g = FileOf(NewestFor(n))
                    \/ Len(g) > Len(FileOf(NewestFor(n))),
           NEW l, IsFrontList(l, disk, newestBatch, oldestBatch, oldBatches, exact)
    PROVE  /\ FrontOf(newestBatch', oldestBatch').id = Front.id
           /\ IsFrontList(l, disk', newestBatch', oldestBatch', oldBatches', exact)
<1> DEFINE b == NewestFor(n)
           f == FileOf(b)
<1>1. /\ b \in Batch /\ ~ b.finalized /\ f \in File
      /\ f = Contents(disk, b.id) /\ Knows(b, f, exact)
      /\ \/ b = newestBatch
         \/ b # newestBatch /\ b.id = newestBatch.id + 1
  BY NewestForIsBatch
<1>2. /\ disk \in Disk /\ newestBatch.id \in Ids /\ newestBatch \in Batch
      /\ disk[newestBatch.id] \in File
      /\ oldestBatch # NoBatch =>
           oldestBatch.id \in Ids /\ oldestBatch.id < newestBatch.id
  BY FilesAreFiles DEF StoreIsConsistent, Consistent, BatchesKnow
<1>3. /\ IsListOf(l, disk[FrontOf(newestBatch, oldestBatch).id])
      /\ oldestBatch = NoBatch => oldBatches = <<>>
      /\ l.size <= FrontOf(newestBatch, oldestBatch).fileSize
      /\ exact =>
           (FrontOf(newestBatch, oldestBatch).streamAtEnd =>
               Len(disk[FrontOf(newestBatch, oldestBatch).id]) > l.size)
  BY DEF IsFrontList
<1>4. disk'[b.id] = g /\ \A i \in Ids : i # b.id => disk'[i] = disk[i]
  BY <1>2, OneFileChanges
<1>5. b.id \in Ids
  OBVIOUS
<1> HIDE DEF b, f
<1>6. CASE oldestBatch # NoBatch
  <2>1. oldestBatch' = oldestBatch
    BY <1>6, Zenon DEF Begun, Rotate
  <2>2. oldestBatch.id # b.id
    <3>1. CASE b = newestBatch
      BY <1>2, <1>6, <3>1, OrderOfIds
    <3>2. CASE b.id = newestBatch.id + 1
      BY <1>2, <1>5, <1>6, <3>2, OrderOfIds
    <3> QED
      BY <1>1, <3>1, <3>2
  <2>3. disk'[oldestBatch.id] = disk[oldestBatch.id]
    BY <1>2, <1>4, <1>6, <2>2
  <2>4. FrontOf(newestBatch', oldestBatch') = oldestBatch
        /\ FrontOf(newestBatch, oldestBatch) = oldestBatch
    BY <1>6, <2>1 DEF FrontOf
  <2> QED
    BY <1>3, <1>6, <2>1, <2>3, <2>4 DEF IsFrontList, Front
<1>7. CASE oldestBatch = NoBatch /\ b = newestBatch
  <2>1. oldestBatch' = NoBatch /\ oldBatches' = oldBatches
    BY <1>7 DEF Begun, b
  <2>2. FrontOf(newestBatch', oldestBatch') = newestBatch'
        /\ FrontOf(newestBatch, oldestBatch) = newestBatch
    BY <1>7, <2>1 DEF FrontOf
  <2>3. newestBatch'.id = newestBatch.id
    BY <1>7 DEF b
  <2>4. f = disk[newestBatch.id]
    BY <1>1, <1>2, <1>7, ContentsAreFiles
  <2>5. /\ IsListOf(l, f) /\ oldBatches = <<>>
        /\ l.size <= newestBatch.fileSize
        /\ exact => (newestBatch.streamAtEnd => Len(f) > l.size)
    BY <1>3, <1>7, <2>2, <2>4
  <2>6. /\ Agree(g, f, newestBatch.fileSize)
        /\ newestBatch.fileSize <= newestBatch'.fileSize
        /\ exact => \/ Len(g) > Len(f)
                    \/ newestBatch' = newestBatch /\ g = f
    BY <1>7 DEF b, f
  <2>10. l.size \in Nat /\ newestBatch.fileSize \in Nat
    BY <1>2, <2>5 DEF IsListOf, Batch
  <2>11. l.size <= newestBatch'.fileSize
    BY <2>5, <2>6, <2>10
  <2>7. IsListOf(l, g)
    BY <1>1, <2>5, <2>6, <2>10, SmallerAgree, ListOfLonger
  <2>8. exact => (newestBatch'.streamAtEnd => Len(g) > l.size)
    <3> SUFFICES ASSUME exact PROVE newestBatch'.streamAtEnd => Len(g) > l.size
      OBVIOUS
    <3>1. l.size \in Nat /\ l.size <= Len(f) /\ Len(f) \in Nat /\ Len(g) \in Nat
      BY <1>1, <2>5 DEF IsListOf, File
    <3>2. CASE Len(g) > Len(f)
      BY <3>1, <3>2
    <3>3. CASE newestBatch' = newestBatch /\ g = f
      BY <2>5, <3>3
    <3> QED
      BY <2>6, <3>2, <3>3
  <2>9. disk'[newestBatch'.id] = g
    BY <1>4, <1>7, <2>3
  <2> QED
    BY <2>1, <2>2, <2>3, <2>5, <2>7, <2>8, <2>9, <2>11 DEF IsFrontList, Front
<1>8. CASE oldestBatch = NoBatch /\ b # newestBatch /\ b.id = newestBatch.id + 1
  <2> DEFINE o == [newestBatch EXCEPT !.finalized = TRUE]
  <2>1. Rotate /\ oldBatches = <<>>
    BY <1>3, <1>8 DEF Begun, b
  <2>2. oldestBatch' = o /\ oldBatches' = oldBatches
    BY <1>8, <2>1, Zenon DEF Rotate
  <2>3. o \in Batch /\ o.id = newestBatch.id
        /\ o.streamAtEnd = newestBatch.streamAtEnd
        /\ o.fileSize = newestBatch.fileSize
    BY <1>2, Zenon DEF Batch
  <2>4. o # NoBatch
    BY <2>3, BatchIsABatch
  <2> HIDE DEF o
  <2>5. FrontOf(newestBatch', oldestBatch') = o
        /\ FrontOf(newestBatch, oldestBatch) = newestBatch
    BY <1>8, <2>2, <2>4 DEF FrontOf
  <2>6. newestBatch.id # b.id
    BY <1>2, <1>5, <1>8, OrderOfIds
  <2>7. disk'[newestBatch.id] = disk[newestBatch.id]
    BY <1>2, <1>4, <2>6
  <2> QED
    BY <1>3, <1>8, <2>1, <2>2, <2>3, <2>4, <2>5, <2>7 DEF IsFrontList, Front
<1> QED
  BY <1>1, <1>6, <1>7, <1>8

-----------------------------------------------------------------------------
(* The order of the lines.                                                 *)

LEMMA LinesAreNumbers ==
    ASSUME NEW f \in File
    PROVE  /\ \A j \in Newlines(f) : LineAt(f, j) \in 0..MaxEvents
           /\ EventsIn(f) \subseteq 0..MaxEvents
<1> SUFFICES ASSUME NEW j \in Newlines(f) PROVE LineAt(f, j) \in 0..MaxEvents
  BY DEF EventsIn
<1>1. j \in 1..Len(f)
  BY NewlinesAreFinite
<1>2. f[j].ev \in 0..MaxEvents
  BY <1>1, WholeIsUnits
<1>3. MaxEvents \in Nat
  BY StoreAssumption
<1> QED
  BY <1>2, <1>3 DEF LineAt, Garbage

LEMMA ElementsOfBoth ==
    ASSUME NEW S, NEW a \in Seq(S), NEW b \in Seq(S)
    PROVE  /\ Elements(a \o b) = Elements(a) \cup Elements(b)
           /\ Elements(a) \subseteq S
<1> DEFINE c == a \o b
<1>1. /\ Len(a) \in Nat /\ Len(b) \in Nat /\ Len(c) = Len(a) + Len(b)
      /\ DOMAIN a = 1..Len(a) /\ DOMAIN b = 1..Len(b)
      /\ DOMAIN c = 1..Len(c)
      /\ \A i \in 1..Len(a) + Len(b) :
            c[i] = IF i <= Len(a) THEN a[i] ELSE b[i - Len(a)]
  OBVIOUS
<1> HIDE DEF c
<1>2. Elements(c) \subseteq Elements(a) \cup Elements(b)
  <2> SUFFICES ASSUME NEW i \in DOMAIN c
               PROVE  c[i] \in Elements(a) \cup Elements(b)
    BY DEF Elements
  <2>1. CASE i <= Len(a)
    <3>1. i \in DOMAIN a /\ c[i] = a[i]
      BY <1>1, <2>1
    <3> QED
      BY <3>1 DEF Elements
  <2>2. CASE ~ (i <= Len(a))
    <3>1. i - Len(a) \in DOMAIN b /\ c[i] = b[i - Len(a)]
      BY <1>1, <2>2
    <3> QED
      BY <3>1 DEF Elements
  <2> QED
    BY <2>1, <2>2
<1>3. Elements(a) \subseteq Elements(c)
  <2> SUFFICES ASSUME NEW i \in DOMAIN a PROVE a[i] \in Elements(c)
    BY DEF Elements
  <2>1. i \in DOMAIN c /\ c[i] = a[i]
    BY <1>1
  <2> QED
    BY <2>1 DEF Elements
<1>4. Elements(b) \subseteq Elements(c)
  <2> SUFFICES ASSUME NEW i \in DOMAIN b PROVE b[i] \in Elements(c)
    BY DEF Elements
  <2>1. Len(a) + i \in DOMAIN c /\ c[Len(a) + i] = b[i]
    BY <1>1
  <2> QED
    BY <2>1 DEF Elements
<1>5. Elements(a) \subseteq S
  BY <1>1 DEF Elements
<1> QED
  BY <1>2, <1>3, <1>4, <1>5 DEF c

LEMMA BetweenTwo ==
    ASSUME NEW S, NEW x \in S, NEW s \in Seq(S), NEW y \in S
    PROVE  LET both == <<x>> \o s \o <<y>>
           IN  /\ DOMAIN both = 1..Len(s) + 2
               /\ both[1] = x
               /\ \A k \in 1..Len(s) : both[k + 1] = s[k]
               /\ both[Len(s) + 2] = y
<1> DEFINE front == <<x>> \o s
<1>1. /\ front \in Seq(S) /\ Len(s) \in Nat
      /\ Len(front) = Len(s) + 1
      /\ front[1] = x
      /\ \A k \in 1..Len(s) : front[k + 1] = s[k]
  OBVIOUS
<1> HIDE DEF front
<1> DEFINE both == front \o <<y>>
<1>2. /\ Len(both) = Len(front) + 1
      /\ DOMAIN both = 1..Len(front) + 1
      /\ \A k \in 1..Len(front) : both[k] = front[k]
      /\ both[Len(front) + 1] = y
  BY <1>1
<1> HIDE DEF both
<1>3. /\ DOMAIN both = 1..Len(s) + 2
      /\ both[1] = x
      /\ \A k \in 1..Len(s) : both[k + 1] = s[k]
      /\ both[Len(s) + 2] = y
  BY <1>1, <1>2
<1> QED
  BY <1>3 DEF both, front

\* One increasing sequence after another.
LEMMA BothIncrease ==
    ASSUME NEW a \in Seq(Nat), NEW b \in Seq(Nat), Increases(a), Increases(b),
           Before(Elements(a), Elements(b))
    PROVE  Increases(a \o b)
<1> DEFINE c == a \o b
<1>1. /\ Len(a) \in Nat /\ Len(b) \in Nat /\ Len(c) = Len(a) + Len(b)
      /\ DOMAIN a = 1..Len(a) /\ DOMAIN b = 1..Len(b)
      /\ DOMAIN c = 1..Len(c)
      /\ \A i \in 1..Len(a) + Len(b) :
            c[i] = IF i <= Len(a) THEN a[i] ELSE b[i - Len(a)]
  OBVIOUS
<1> HIDE DEF c
<1>2. ASSUME NEW i \in DOMAIN c, NEW j \in DOMAIN c, i < j PROVE c[i] < c[j]
  <2>1. CASE j <= Len(a)
    BY <1>1, <1>2, <2>1 DEF Increases
  <2>2. CASE i <= Len(a) /\ ~ (j <= Len(a))
    <3>1. /\ i \in DOMAIN a /\ c[i] = a[i]
          /\ j - Len(a) \in DOMAIN b /\ c[j] = b[j - Len(a)]
      BY <1>1, <1>2, <2>2
    <3>2. c[i] \in Elements(a) /\ c[j] \in Elements(b)
      BY <3>1 DEF Elements
    <3> QED
      BY <3>2 DEF Before
  <2>3. CASE ~ (i <= Len(a))
    <3>1. /\ i - Len(a) \in DOMAIN b /\ c[i] = b[i - Len(a)]
          /\ j - Len(a) \in DOMAIN b /\ c[j] = b[j - Len(a)]
          /\ i - Len(a) < j - Len(a)
      BY <1>1, <1>2, <2>3
    <3> QED
      BY <3>1 DEF Increases
  <2> QED
    BY <2>1, <2>2, <2>3
<1> QED
  BY <1>2 DEF Increases, c

\* The events of a file come in the order of its lines.
LEMMA EventsOfInOrder ==
    ASSUME NEW f \in File
    PROVE  /\ EventsOf(f) \in Seq(0..MaxEvents)
           /\ LinesInOrder(f) => Increases(EventsOf(f))
<1> DEFINE n == Cardinality(Newlines(f))
<1>1. /\ n \in Nat /\ DOMAIN EventsOf(f) = 1..n
      /\ Newlines(f) \in SUBSET Nat /\ IsFiniteSet(Newlines(f))
      /\ \A i \in 1..n : /\ EventsOf(f)[i] = LineAt(f, EndOfLine(f, i))
                         /\ EndOfLine(f, i) \in Newlines(f)
                         /\ Rank(Newlines(f), EndOfLine(f, i)) = i
  BY EventsAreLines, NewlinesAreFinite, EndOfLineIsThere
<1>2. EventsOf(f) = [i \in 1..n |-> EventsOf(f)[i]]
  BY DEF EventsOf
<1> HIDE DEF n
<1>3. EventsOf(f) \in Seq(0..MaxEvents)
  <2>1. \A i \in 1..n : EventsOf(f)[i] \in 0..MaxEvents
    BY <1>1, LinesAreNumbers
  <2>2. EventsOf(f) \in [1..n -> 0..MaxEvents]
    BY <1>2, <2>1
  <2> QED
    BY <1>1, <2>2, SeqDef
<1>4. ASSUME LinesInOrder(f), NEW i \in 1..n, NEW j \in 1..n, i < j
      PROVE  EventsOf(f)[i] < EventsOf(f)[j]
  <2> DEFINE p == EndOfLine(f, i)
             q == EndOfLine(f, j)
  <2>1. /\ p \in Newlines(f) /\ q \in Newlines(f)
        /\ Rank(Newlines(f), p) = i /\ Rank(Newlines(f), q) = j
        /\ EventsOf(f)[i] = LineAt(f, p) /\ EventsOf(f)[j] = LineAt(f, q)
    BY <1>1
  <2> HIDE DEF p, q
  <2>2. p # q
    BY <1>1, <1>4, <2>1
  <2>3. ~ (q < p)
    <3> SUFFICES ASSUME q < p PROVE FALSE
      OBVIOUS
    <3>1. j < i
      BY <1>1, <2>1, RankGrows
    <3> QED
      BY <1>1, <1>4, <3>1
  <2>4. p \in Nat /\ q \in Nat
    BY <1>1, <2>1
  <2>5. p < q
    BY <2>2, <2>3, <2>4
  <2> QED
    BY <1>4, <2>1, <2>5 DEF LinesInOrder
<1> QED
  BY <1>1, <1>3, <1>4 DEF Increases

\* g holds the lines of f, at their places.
SameLines(g, f) ==
    /\ Newlines(g) = Newlines(f)
    /\ \A j \in Newlines(f) : LineAt(g, j) = LineAt(f, j)

LEMMA SameLinesOrder ==
    ASSUME NEW d, NEW e,
           \A i \in Ids : SameLines(Contents(e, i), Contents(d, i))
    PROVE  /\ FilesInOrder(d) => FilesInOrder(e)
           /\ StoredIn(e) = StoredIn(d)
<1>1. \A i \in Ids : EventsIn(Contents(e, i)) = EventsIn(Contents(d, i))
  BY DEF SameLines, EventsIn
<1>2. ASSUME FilesInOrder(d) PROVE \A i \in Ids : LinesInOrder(Contents(e, i))
  BY <1>2 DEF FilesInOrder, LinesInOrder, SameLines
<1> QED
  BY <1>1, <1>2 DEF FilesInOrder, StoredIn

LEMMA KeepsOrder ==
    ASSUME NEW d, NEW e, FilesInOrder(d),
           \A i \in Ids : Keeps(Contents(e, i), Contents(d, i))
    PROVE  FilesInOrder(e)
  BY SameLinesOrder DEF Keeps, SameLines

\* A list takes the first events of a file, which come before the others.
LEMMA ListIsFirst ==
    ASSUME NEW f \in File, NEW l, IsListOf(l, f)
    PROVE  /\ l.data \in File /\ EventsIn(l.data) \subseteq EventsIn(f)
           /\ EventsIn(f) = EventsIn(l.data) \cup LinesAfter(f, l.size)
           /\ LinesInOrder(f) =>
                /\ LinesInOrder(l.data)
                /\ Before(EventsIn(l.data), LinesAfter(f, l.size))
<1> DEFINE s == l.size
           r == l.data
<1>1. s \in 0..Len(f) /\ r = First(f, s) /\ Len(f) \in Nat
  BY DEF IsListOf, File
<1>2. /\ Newlines(f) \in SUBSET Nat /\ Newlines(f) \in SUBSET (1..Len(f))
  BY NewlinesAreFinite
<1> HIDE DEF s, r
<1>3. /\ r \in File
      /\ Newlines(r) = {j \in Newlines(f) : j <= s}
      /\ \A j \in 1..s : LineAt(r, j) = LineAt(f, j)
  BY <1>1, PrefixLines
<1>4. \A j \in Newlines(r) : j \in Newlines(f) /\ j <= s
                             /\ LineAt(r, j) = LineAt(f, j)
  BY <1>1, <1>2, <1>3
<1>5. \A j \in Newlines(f) : j \in Newlines(r) \/ s < j
  BY <1>1, <1>2, <1>3
<1>6. EventsIn(f) = EventsIn(r) \cup LinesAfter(f, s)
  BY <1>4, <1>5 DEF EventsIn, LinesAfter
<1>7. ASSUME LinesInOrder(f)
      PROVE  LinesInOrder(r) /\ Before(EventsIn(r), LinesAfter(f, s))
  <2>1. LinesInOrder(r)
    BY <1>4, <1>7 DEF LinesInOrder
  <2>2. ASSUME NEW j \in Newlines(r), NEW k \in Newlines(f), s < k
        PROVE  LineAt(r, j) < LineAt(f, k)
    <3>1. j < k
      BY <1>1, <1>2, <1>4, <2>2
    <3> QED
      BY <1>4, <1>7, <2>2, <3>1 DEF LinesInOrder
  <2> QED
    BY <2>1, <2>2 DEF Before, EventsIn, LinesAfter
<1> QED
  BY <1>3, <1>6, <1>7 DEF s, r

LEMMA RestInOrder ==
    ASSUME NEW f \in File, NEW s \in 0..Len(f), NEW g, WhatIsLeft(g, f, s)
    PROVE  /\ EventsIn(g) = LinesAfter(f, s)
           /\ LinesInOrder(f) => LinesInOrder(g)
           /\ Len(g) <= Len(f)
<1>1. /\ g \in File /\ IsRest(g, f, s) /\ Len(f) \in Nat /\ Len(g) = Len(f) - s
  BY DEF WhatIsLeft, IsRest, File
<1>2. \A i \in 1..Len(g) : /\ i \in Newlines(g) <=> s + i \in Newlines(f)
                           /\ LineAt(g, i) = LineAt(f, s + i)
  BY <1>1, RestLines
<1>3. /\ Newlines(f) \in SUBSET (1..Len(f)) /\ Newlines(g) \in SUBSET (1..Len(g))
  BY <1>1, NewlinesAreFinite
<1>4. \A i \in Newlines(g) : /\ s + i \in Newlines(f) /\ s < s + i
                             /\ LineAt(g, i) = LineAt(f, s + i)
  BY <1>1, <1>2, <1>3
<1>5. \A k \in Newlines(f) : s < k => /\ k - s \in Newlines(g)
                                      /\ LineAt(g, k - s) = LineAt(f, k)
  <2> SUFFICES ASSUME NEW k \in Newlines(f), s < k
               PROVE  k - s \in Newlines(g) /\ LineAt(g, k - s) = LineAt(f, k)
    OBVIOUS
  <2>1. k - s \in 1..Len(g) /\ s + (k - s) = k
    BY <1>1, <1>3
  <2> QED
    BY <1>2, <2>1
<1>6. EventsIn(g) \subseteq LinesAfter(f, s)
  BY <1>4 DEF EventsIn, LinesAfter
<1>7. LinesAfter(f, s) \subseteq EventsIn(g)
  BY <1>5 DEF EventsIn, LinesAfter
<1>8. ASSUME LinesInOrder(f), NEW i \in Newlines(g), NEW j \in Newlines(g), i < j
      PROVE  LineAt(g, i) < LineAt(g, j)
  <2>1. s + i < s + j
    BY <1>1, <1>3, <1>8
  <2> QED
    BY <1>4, <1>8, <2>1 DEF LinesInOrder
<1>9. LinesInOrder(f) => LinesInOrder(g)
  BY <1>8 DEF LinesInOrder
<1>10. Len(g) <= Len(f)
  BY <1>1
<1> QED
  BY <1>6, <1>7, <1>9, <1>10

-----------------------------------------------------------------------------
(* Steps that move no event.                                               *)

\* Every file keeps its lines.
FilesKeep == \A i \in Ids : Keeps(Contents(disk', i), Contents(disk, i))

LEMMA KeptIsStored ==
    ASSUME disk \in Disk, disk' \in Disk, FilesKeep
    PROVE  StoredIn(disk') = StoredIn(disk)
<1>1. \A i \in Ids : EventsIn(Contents(disk', i)) = EventsIn(Contents(disk, i))
  BY KeepsEvents DEF FilesKeep
<1> QED
  BY <1>1 DEF StoredIn

\* The events stay where they are, and nothing is reported as uploaded.
LEMMA NothingMoves ==
    ASSUME IInv, disk' \in Disk, FilesKeep,
           upc \notin {"ack"}, upc' \notin {"ack"},
           UNCHANGED <<added, accepted, confirmed, dropped, crashes, torn, cut>>
    PROVE  AcceptedIsKept' /\ LinesAreWhole' /\ UploadOrder'
<1>1. disk \in Disk
  BY FilesAreFiles DEF IInv, Structure, StoreIsConsistent
<1>2. StoredIn(disk') = StoredIn(disk)
  BY <1>1, KeptIsStored DEF IInv
<1>3. AcceptedIsKept' /\ LinesAreWhole'
  BY <1>2 DEF IInv, AcceptedIsKept, LinesAreWhole
<1>4. UploadOrder'
  <2> SUFFICES ASSUME crashes = 0
               PROVE  /\ FilesInOrder(disk')
                      /\ \A x \in StoredIn(disk') \cup Elements(confirmed') :
                            x <= added'
                      /\ Increases(confirmed')
                      /\ \A i \in Ids : Before(Elements(confirmed'), Unsent(i)')
    BY DEF UploadOrder
  <2>1. /\ FilesInOrder(disk)
        /\ \A x \in StoredIn(disk) \cup Elements(confirmed) : x <= added
        /\ Increases(confirmed)
        /\ \A i \in Ids : Before(Elements(confirmed), Unsent(i))
    BY DEF IInv, UploadOrder
  <2>2. FilesInOrder(disk')
    BY <2>1, KeepsOrder DEF FilesKeep
  <2>3. \A i \in Ids : Unsent(i)' = Unsent(i)
    BY KeepsEvents DEF Unsent, FilesKeep
  <2> QED
    BY <1>2, <2>1, <2>2, <2>3
<1> QED
  BY <1>2, <1>3, <1>4

LEMMA TakingKeeps ==
    ASSUME IInv, NEW maxCount \in Nat, NEW maxSize \in Nat,
           GetEvents(maxCount, maxSize), UNCHANGED <<limits, history>>,
           upc \notin {"ack"},
           upc' \in {"idle", "post", "check", "drop"},
           list'.null => upc' \in {"idle", "check"}
    PROVE  IInv'
<1>1. /\ StoreIsConsistent(TRUE)'
      /\ list'.null \in BOOLEAN
      /\ ~ list'.null =>
           IsFrontList(list', disk', newestBatch', oldestBatch', oldBatches', TRUE)
      /\ FilesKeep
  BY GetEventsIsConsistent DEF IInv, Structure, FilesKeep
<1>2. disk' \in Disk
  BY <1>1, FilesAreFiles DEF StoreIsConsistent
<1>3. ListIsFront(TRUE)'
  BY <1>1 DEF ListIsFront
<1>4. HistoryOK'
  BY DEF IInv, HistoryOK, history
<1>5. AcceptedIsKept' /\ LinesAreWhole' /\ UploadOrder'
  BY <1>1, <1>2, NothingMoves DEF history
<1> QED
  BY <1>1, <1>3, <1>4, <1>5 DEF IInv, Structure

LEMMA LimitsAreNumbers ==
    ASSUME HistoryOK PROVE limits.count \in Nat /\ limits.size \in Nat
  BY StoreAssumption DEF HistoryOK

LEMMA SendBeginKeeps == ASSUME IInv, SendBegin PROVE IInv'
<1>1. limits.count \in Nat /\ limits.size \in Nat
  BY LimitsAreNumbers DEF IInv
<1>2. /\ GetEvents(limits.count, limits.size)
      /\ UNCHANGED <<limits, history>> /\ upc = "idle"
      /\ upc' = IF list'.null THEN "check" ELSE "post"
  BY Zenon DEF SendBegin
<1>3. /\ upc' \in {"idle", "post", "check", "drop"}
      /\ list'.null => upc' \in {"idle", "check"}
  BY <1>2
<1> QED
  BY <1>1, <1>2, <1>3, TakingKeeps

LEMMA CheckEventsKeeps == ASSUME IInv, CheckEvents PROVE IInv'
<1>1. CASE HasAnyEvents
  <2>1. ReadCap \in Nat /\ 1 \in Nat
    BY BufferAssumption
  <2>2. /\ GetEvents(1, ReadCap)
        /\ UNCHANGED <<limits, history>> /\ upc = "check"
        /\ upc' = IF list'.null THEN "idle" ELSE "drop"
    BY <1>1, Zenon DEF CheckEvents
  <2>3. /\ upc' \in {"idle", "post", "check", "drop"}
        /\ list'.null => upc' \in {"idle", "check"}
    BY <2>2
  <2> QED
    BY <2>1, <2>2, <2>3, TakingKeeps
<1>2. CASE ~ HasAnyEvents
  <2>1. /\ UNCHANGED <<disk, newestBatch, oldestBatch, oldBatches, list>>
        /\ UNCHANGED <<limits, history>> /\ upc = "check" /\ upc' = "idle"
    BY <1>2 DEF CheckEvents
  <2>2. StoreIsConsistent(TRUE)' /\ ListIsFront(TRUE)' /\ HistoryOK'
    BY <2>1 DEF IInv, Structure, StoreIsConsistent, ListIsFront, HistoryOK,
                history
  <2>3. disk' \in Disk
    BY <2>2, FilesAreFiles DEF StoreIsConsistent
  <2>4. FilesKeep
    BY <2>1, <2>3, ContentsAreFiles, FileKeepsItself DEF FilesKeep
  <2>5. AcceptedIsKept' /\ LinesAreWhole' /\ UploadOrder'
    BY <2>1, <2>3, <2>4, NothingMoves DEF history
  <2> QED
    BY <2>2, <2>5 DEF IInv, Structure
<1> QED
  BY <1>1, <1>2

LEMMA PostFailsKeeps == ASSUME IInv, PostFails PROVE IInv'
<1>1. /\ UNCHANGED <<disk, memory, history>> /\ upc = "post" /\ upc' = "idle"
  BY DEF PostFails
<1>2. StoreIsConsistent(TRUE)' /\ ListIsFront(TRUE)' /\ HistoryOK'
  BY <1>1 DEF IInv, Structure, StoreIsConsistent, ListIsFront, HistoryOK,
              history, memory
<1>3. disk' \in Disk
  BY <1>2, FilesAreFiles DEF StoreIsConsistent
<1>4. FilesKeep
  BY <1>1, <1>3, ContentsAreFiles, FileKeepsItself DEF FilesKeep
<1>5. AcceptedIsKept' /\ LinesAreWhole' /\ UploadOrder'
  BY <1>1, <1>3, <1>4, NothingMoves DEF history
<1> QED
  BY <1>2, <1>5 DEF IInv, Structure

LEMMA SetFileLimitsKeeps == ASSUME IInv, SetFileLimits PROVE IInv'
<1>1. /\ UNCHANGED <<disk, newestBatch, oldestBatch, oldBatches, uploader,
                     added, accepted, confirmed, dropped, crashes, torn, cut>>
      /\ limits' \in Limits
  BY DEF SetFileLimits
<1>2. StoreIsConsistent(TRUE)' /\ ListIsFront(TRUE)'
  BY <1>1 DEF IInv, Structure, StoreIsConsistent, ListIsFront, uploader
<1>3. HistoryOK'
  BY <1>1 DEF IInv, HistoryOK, uploader
<1>4. AcceptedIsKept' /\ LinesAreWhole'
  BY <1>1 DEF IInv, AcceptedIsKept, LinesAreWhole
<1>5. UploadOrder'
  BY <1>1 DEF IInv, UploadOrder, Unsent, Front, uploader
<1> QED
  BY <1>2, <1>3, <1>4, <1>5 DEF IInv, Structure

-----------------------------------------------------------------------------
(* Steps of the uploader that report events.                               *)

LEMMA FrontIsFirst ==
    ASSUME StoreIsConsistent(TRUE), oldestBatch = NoBatch => oldBatches = <<>>,
           NEW i \in Ids, disk[i] # NoFile, disk[i] # <<>>, i # Front.id
    PROVE  Front.id < i
<1>1. \/ i = newestBatch.id
      \/ oldestBatch # NoBatch /\ i = oldestBatch.id
      \/ i \in Elements(oldBatches)
  BY DEF StoreIsConsistent, Consistent, FilesAreKnown
<1>2. CASE oldestBatch = NoBatch
  <2>1. Elements(oldBatches) = {}
    BY <1>2 DEF Elements
  <2> QED
    BY <1>1, <1>2, <2>1 DEF Front, FrontOf
<1>3. CASE oldestBatch # NoBatch
  <2>1. oldestBatch.id < newestBatch.id
    BY <1>3 DEF StoreIsConsistent, Consistent, BatchesKnow
  <2>2. \A x \in Elements(oldBatches) : oldestBatch.id < x
    BY <1>3 DEF StoreIsConsistent, Consistent, BatchesInOrder, Elements
  <2> QED
    BY <1>1, <1>3, <2>1, <2>2 DEF Front, FrontOf
<1> QED
  BY <1>2, <1>3

LEMMA BeforeSome ==
    ASSUME NEW X, NEW Y, NEW U, NEW V, Before(X, Y), U \subseteq X, V \subseteq Y
    PROVE  Before(U, V)
  BY DEF Before

LEMMA PostSucceedsKeeps == ASSUME IInv, PostSucceeds PROVE IInv'
<1> DEFINE sent == EventsOf(list.data)
           f == disk[Front.id]
<1>1. /\ upc = "post" /\ upc' = "ack"
      /\ confirmed' = confirmed \o sent
      /\ UNCHANGED <<disk, limits, newestBatch, oldestBatch, oldBatches, list,
                     added, accepted, dropped, crashes, torn, cut>>
  BY DEF PostSucceeds, memory
<1>2. /\ StoreIsConsistent(TRUE)
      /\ IsFrontList(list, disk, newestBatch, oldestBatch, oldBatches, TRUE)
      /\ confirmed \in Seq(0..MaxEvents)
  BY <1>1 DEF IInv, Structure, ListIsFront, HistoryOK
<1>3. /\ Front.id \in Ids /\ f \in File /\ Contents(disk, Front.id) = f
      /\ disk \in Disk
  BY <1>2, FrontIsFile
<1>4. /\ IsListOf(list, f) /\ (oldestBatch = NoBatch => oldBatches = <<>>)
  BY <1>2 DEF IsFrontList, Front
<1> HIDE DEF f
<1>5. /\ list.data \in File /\ EventsIn(list.data) \subseteq EventsIn(f)
      /\ EventsIn(f) = EventsIn(list.data) \cup LinesAfter(f, list.size)
      /\ LinesInOrder(f) =>
           /\ LinesInOrder(list.data)
           /\ Before(EventsIn(list.data), LinesAfter(f, list.size))
  BY <1>3, <1>4, ListIsFirst
<1>6. /\ Elements(sent) = EventsIn(list.data) /\ sent \in Seq(0..MaxEvents)
      /\ LinesInOrder(list.data) => Increases(sent)
  BY <1>5, EventsAreLines, EventsOfInOrder
<1> HIDE DEF sent
<1>7. /\ Elements(confirmed') = Elements(confirmed) \cup EventsIn(list.data)
      /\ confirmed' \in Seq(0..MaxEvents)
  BY <1>1, <1>2, <1>6, ElementsOfBoth
<1>8. EventsIn(list.data) \subseteq StoredIn(disk)
  BY <1>3, <1>5 DEF StoredIn
<1>9. StoreIsConsistent(TRUE)' /\ ListIsFront(TRUE)'
  BY <1>1, <1>2 DEF StoreIsConsistent, ListIsFront
<1>10. HistoryOK'
  BY <1>1, <1>7 DEF IInv, HistoryOK
<1>11. AcceptedIsKept' /\ LinesAreWhole'
  BY <1>1, <1>7, <1>8
     DEF IInv, AcceptedIsKept, LinesAreWhole
<1>12. ASSUME crashes = 0
       PROVE  /\ FilesInOrder(disk')
              /\ \A x \in StoredIn(disk') \cup Elements(confirmed') : x <= added'
              /\ Increases(confirmed')
              /\ \A i \in Ids : Before(Elements(confirmed'), Unsent(i)')
  <2>1. /\ FilesInOrder(disk)
        /\ \A x \in StoredIn(disk) \cup Elements(confirmed) : x <= added
        /\ Increases(confirmed)
        /\ \A i \in Ids : Before(Elements(confirmed), Unsent(i))
    BY <1>12 DEF IInv, UploadOrder
  <2>2. FilesInOrder(disk')
        /\ \A x \in StoredIn(disk') \cup Elements(confirmed') : x <= added'
    BY <1>1, <1>7, <1>8, <2>1
  <2>3. \A i \in Ids : Unsent(i) = EventsIn(Contents(disk, i))
    BY <1>1 DEF Unsent
  <2>4. LinesInOrder(f)
    BY <1>3, <2>1 DEF FilesInOrder
  <2>5. Before(Elements(confirmed), EventsIn(list.data))
    BY <1>3, <1>5, <2>1, <2>3, BeforeSome
  <2>6. Increases(confirmed')
    <3>1. confirmed \in Seq(Nat) /\ sent \in Seq(Nat)
      BY <1>2, <1>6, StoreAssumption
    <3> QED
      BY <1>1, <1>5, <1>6, <2>1, <2>4, <2>5, <3>1, BothIncrease
  <2>7. ASSUME NEW i \in Ids
        PROVE  /\ Before(Elements(confirmed), Unsent(i)')
               /\ Before(EventsIn(list.data), Unsent(i)')
    <3>1. CASE i = Front.id
      <4>1. Unsent(i)' = LinesAfter(f, list.size)
        BY <1>1, <1>3, <3>1 DEF Unsent, Front
      <4>2. Unsent(i) = EventsIn(f)
        BY <1>3, <2>3, <3>1
      <4>3. Before(Elements(confirmed), LinesAfter(f, list.size))
        BY <1>5, <2>1, <2>7, <4>2, BeforeSome
      <4> QED
        BY <1>5, <2>4, <4>1, <4>3
    <3>2. CASE i # Front.id
      <4>1. Unsent(i)' = EventsIn(Contents(disk, i))
        BY <1>1, <3>2 DEF Unsent, Front
      <4>2. CASE disk[i] = NoFile \/ disk[i] = <<>>
        <5>1. EventsIn(Contents(disk, i)) = {}
          BY <4>2, EmptyFile DEF Contents
        <5> QED
          BY <4>1, <5>1 DEF Before
      <4>3. CASE disk[i] # NoFile /\ disk[i] # <<>>
        <5>1. Front.id < i
          BY <1>2, <1>4, <3>2, <4>3, FrontIsFirst
        <5>2. Before(EventsIn(f), EventsIn(Contents(disk, i)))
          BY <1>3, <2>1, <2>7, <5>1 DEF FilesInOrder
        <5>3. Before(EventsIn(list.data), EventsIn(Contents(disk, i)))
          BY <1>5, <5>2, BeforeSome
        <5> QED
          BY <2>1, <2>3, <2>7, <4>1, <5>3
      <4> QED
        BY <4>2, <4>3
    <3> QED
      BY <3>1, <3>2
  <2>8. \A i \in Ids : Before(Elements(confirmed'), Unsent(i)')
    BY <1>7, <2>7 DEF Before
  <2> QED
    BY <2>2, <2>6, <2>8
<1>13. UploadOrder'
  BY <1>1, <1>12 DEF UploadOrder
<1> QED
  BY <1>9, <1>10, <1>11, <1>13 DEF IInv, Structure

LEMMA UploadedKeeps ==
    ASSUME IInv, upc \in {"ack", "drop"}, OnEventsUploaded, upc' = "idle",
           UNCHANGED <<added, accepted, confirmed, crashes, torn, cut>>,
           dropped' = dropped \cup DroppedWith(upc, list)
    PROVE  IInv'
<1> DEFINE f == disk[Front.id]
           g == Contents(disk', Front.id)
<1>1. /\ StoreIsConsistent(TRUE)
      /\ IsFrontList(list, disk, newestBatch, oldestBatch, oldBatches, TRUE)
  BY DEF IInv, Structure, ListIsFront
<1>2. /\ Front.id \in Ids /\ f \in File /\ Contents(disk, Front.id) = f
      /\ disk \in Disk
  BY <1>1, FrontIsFile
<1>3. /\ StoreIsConsistent(TRUE)'
      /\ list.size \in 0..Len(f)
      /\ \A i \in Ids : i # Front.id => Contents(disk', i) = Contents(disk, i)
      /\ WhatIsLeft(g, f, list.size)
      /\ EventsIn(f) = EventsIn(list.data) \cup EventsIn(g)
  BY <1>1, UploadedIsConsistent, AllButTheListIsLeft
<1>4. IsListOf(list, f)
  BY <1>1 DEF IsFrontList, Front
<1> HIDE DEF f, g
<1>5. /\ EventsIn(g) = LinesAfter(f, list.size)
      /\ LinesInOrder(f) => LinesInOrder(g)
      /\ Len(g) <= Len(f)
  BY <1>2, <1>3, RestInOrder
<1>6. list.data \in File
  BY <1>2, <1>4, ListIsFirst
<1>7. /\ disk' \in Disk
      /\ \A i \in Ids : /\ Contents(disk', i) \in File
                        /\ Contents(disk, i) \in File
  BY <1>2, <1>3, FilesAreFiles, ContentsAreFiles DEF StoreIsConsistent
<1>8. \A i \in Ids :
         /\ EventsIn(Contents(disk', i)) \subseteq EventsIn(Contents(disk, i))
         /\ EventsIn(Contents(disk, i))
               \subseteq EventsIn(Contents(disk', i)) \cup EventsIn(list.data)
  BY <1>2, <1>3 DEF g
<1>9. /\ StoredIn(disk') \subseteq StoredIn(disk)
      /\ StoredIn(disk) \subseteq StoredIn(disk') \cup EventsIn(list.data)
  BY <1>8 DEF StoredIn
<1>10. /\ upc = "drop" => dropped' = dropped \cup EventsIn(list.data)
       /\ upc = "ack" => EventsIn(list.data) \subseteq Elements(confirmed)
       /\ dropped \subseteq dropped'
  BY <1>6, EventsAreLines DEF DroppedWith, IInv, HistoryOK
<1>11. ListIsFront(TRUE)'
  BY DEF ListIsFront
<1>12. HistoryOK'
  <2>1. EventsIn(list.data) \subseteq 0..MaxEvents
    BY <1>6, LinesAreNumbers
  <2>2. dropped' \subseteq 0..MaxEvents
    BY <1>6, <2>1, EventsAreLines DEF DroppedWith, IInv, HistoryOK
  <2>3. limits' = limits
    BY Zenon DEF OnEventsUploaded, Acknowledge, SetFront
  <2> QED
    BY <2>2, <2>3 DEF IInv, HistoryOK
<1>14. AcceptedIsKept'
  BY <1>9, <1>10 DEF IInv, AcceptedIsKept
<1>15. LinesAreWhole'
  BY <1>9 DEF IInv, LinesAreWhole
<1>16. ASSUME crashes = 0
       PROVE  /\ FilesInOrder(disk')
              /\ \A x \in StoredIn(disk') \cup Elements(confirmed') : x <= added'
              /\ Increases(confirmed')
              /\ \A i \in Ids : Before(Elements(confirmed'), Unsent(i)')
  <2>1. /\ FilesInOrder(disk)
        /\ \A x \in StoredIn(disk) \cup Elements(confirmed) : x <= added
        /\ Increases(confirmed)
        /\ \A i \in Ids : Before(Elements(confirmed), Unsent(i))
    BY <1>16 DEF IInv, UploadOrder
  <2>2. \A i \in Ids : LinesInOrder(Contents(disk', i))
    BY <1>2, <1>3, <1>5, <2>1 DEF FilesInOrder, g
  <2>3. \A i, j \in Ids :
          i < j => Before(EventsIn(Contents(disk', i)),
                          EventsIn(Contents(disk', j)))
    BY <1>8, <2>1, BeforeSome DEF FilesInOrder
  <2>4. ASSUME NEW i \in Ids PROVE Unsent(i)' \subseteq Unsent(i)
    <3>1. Unsent(i)' = EventsIn(Contents(disk', i))
      BY DEF Unsent
    <3>2. CASE upc = "ack" /\ i = Front.id
      BY <1>2, <1>5, <3>1, <3>2 DEF Unsent, g
    <3>3. CASE ~ (upc = "ack" /\ i = Front.id)
      BY <1>8, <3>1, <3>3 DEF Unsent
    <3> QED
      BY <3>2, <3>3
  <2>5. \A i \in Ids : Before(Elements(confirmed'), Unsent(i)')
    BY <2>1, <2>4, BeforeSome
  <2> QED
    BY <1>9, <2>1, <2>2, <2>3, <2>5 DEF FilesInOrder
<1>17. UploadOrder'
  BY <1>16 DEF UploadOrder
<1> QED
  BY <1>3, <1>11, <1>12, <1>14, <1>15, <1>17 DEF IInv, Structure

LEMMA SendEndKeeps ==
    ASSUME IInv, SendEnd, WriteErrors => ~ torn' PROVE IInv'
<1>1. /\ upc = "ack" /\ OnEventsUploaded /\ upc' = "idle"
      /\ UNCHANGED <<added, accepted, confirmed, crashes, torn, cut, dropped>>
  BY DEF SendEnd, ReportUploaded, CopyFails
<1>2. dropped' = dropped \cup DroppedWith(upc, list)
  BY <1>1 DEF DroppedWith
<1> QED
  BY <1>1, <1>2, UploadedKeeps

LEMMA DropFirstKeeps ==
    ASSUME IInv, DropFirst, WriteErrors => ~ torn' PROVE IInv'
<1>1. OnEventsUploaded /\ UNCHANGED torn
  BY DEF DropFirst, ReportUploaded, CopyFails
<1> QED
  BY <1>1, UploadedKeeps DEF DropFirst

-----------------------------------------------------------------------------
(* addEvent() keeps the invariant.                                         *)

\* g is f with one more line, the event e.
GrownBy(g, f, e) ==
    /\ g \in File /\ f \in File /\ Extends(g, f) /\ Len(g) > Len(f)
    /\ Newlines(g) = Newlines(f) \cup {Len(g)}
    /\ LineAt(g, Len(g)) = e

LEMMA GrownEvents ==
    ASSUME NEW f, NEW g, NEW e, GrownBy(g, f, e)
    PROVE  /\ \A j \in Newlines(f) : LineAt(g, j) = LineAt(f, j) /\ j < Len(g)
           /\ EventsIn(g) = EventsIn(f) \cup {e}
           /\ \A s \in 0..Len(f) : LinesAfter(g, s) = LinesAfter(f, s) \cup {e}
           /\ e \in Nat /\ LinesInOrder(f) /\ (\A x \in EventsIn(f) : x < e)
                => LinesInOrder(g)
<1> DEFINE m == Len(g)
           l == Len(f)
<1>1. /\ g \in File /\ f \in File /\ m \in Nat /\ l \in Nat /\ l < m
      /\ \A i \in 1..l : f[i] = g[i]
      /\ Newlines(g) = Newlines(f) \cup {m} /\ LineAt(g, m) = e
      /\ Newlines(f) \in SUBSET (1..l)
  BY NewlinesAreFinite DEF GrownBy, Extends, Agree, File
<1> HIDE DEF m, l
<1>2. \A j \in 1..l : LineAt(f, j) = LineAt(g, j)
  <2>1. l \in Nat /\ l <= Len(f) /\ l <= Len(g)
    BY <1>1 DEF l, m
  <2> QED
    BY <1>1, <2>1, SameBeginning
<1>3. \A j \in Newlines(f) : LineAt(g, j) = LineAt(f, j) /\ j < m
  BY <1>1, <1>2
<1>4. EventsIn(g) = EventsIn(f) \cup {e}
  BY <1>1, <1>3 DEF EventsIn
<1>5. ASSUME NEW s \in 0..l PROVE LinesAfter(g, s) = LinesAfter(f, s) \cup {e}
  <2>1. s < m
    BY <1>1
  <2> QED
    BY <1>1, <1>3, <2>1 DEF LinesAfter
<1>6. ASSUME e \in Nat, LinesInOrder(f), \A x \in EventsIn(f) : x < e,
             NEW i \in Newlines(g), NEW j \in Newlines(g), i < j
      PROVE  LineAt(g, i) < LineAt(g, j)
  <2>1. i \in Newlines(f)
    <3>1. i # m
      <4>1. j <= m /\ i \in Nat /\ j \in Nat
        BY <1>1
      <4> QED
        BY <1>1, <1>6, <4>1
    <3> QED
      BY <1>1, <3>1
  <2>2. CASE j \in Newlines(f)
    BY <1>3, <1>6, <2>1, <2>2 DEF LinesInOrder
  <2>3. CASE j = m
    BY <1>1, <1>3, <1>6, <2>1, <2>3 DEF EventsIn
  <2> QED
    BY <1>1, <2>2, <2>3
<1>7. e \in Nat /\ LinesInOrder(f) /\ (\A x \in EventsIn(f) : x < e)
         => LinesInOrder(g)
  BY <1>6 DEF LinesInOrder
<1> QED
  BY <1>3, <1>4, <1>5, <1>7 DEF l, m

\* The file id of the newest batch has got the next event, or none.
NewestGrows(id) ==
    /\ id \in Ids /\ newestBatch'.id = id /\ StoreIsConsistent(TRUE)'
    /\ \A i \in Ids : i # id => Contents(disk', i) = Contents(disk, i)
    /\ \/ /\ Contents(disk', id) = Contents(disk, id)
          /\ accepted' = accepted
       \/ /\ GrownBy(Contents(disk', id), Contents(disk, id), added + 1)
          /\ accepted' = accepted \cup {added + 1}
          /\ limits.size # 0 => Len(Contents(disk', id)) <= limits.size

\* The order of the lines, whatever has happened before.
LEMMA GrowthKeepsOrder ==
    ASSUME IInv, NEW id, NewestGrows(id), added' = added + 1,
           FilesInOrder(disk), \A x \in StoredIn(disk) : x <= added
    PROVE  FilesInOrder(disk') /\ \A x \in StoredIn(disk') : x <= added'
<1> DEFINE e == added + 1
<1>1. /\ id \in Ids
      /\ \A i \in Ids : i # id => Contents(disk', i) = Contents(disk, i)
      /\ \/ Contents(disk', id) = Contents(disk, id)
         \/ GrownBy(Contents(disk', id), Contents(disk, id), e)
  BY DEF NewestGrows
<1>2. added \in Nat /\ e \in Nat /\ added < e /\ added' = e
  BY StoreAssumption DEF IInv, HistoryOK
<1>3. disk \in Disk /\ \A i \in Ids : Contents(disk, i) \in File
  BY FilesAreFiles, ContentsAreFiles DEF IInv, Structure, StoreIsConsistent
<1> HIDE DEF e
<1>4. \A i \in Ids :
         EventsIn(Contents(disk', i)) \subseteq EventsIn(Contents(disk, i)) \cup {e}
  BY <1>1, GrownEvents
<1>5. \A i \in Ids : \A x \in EventsIn(Contents(disk, i)) : x \in Nat /\ x < e
  <2> SUFFICES ASSUME NEW i \in Ids, NEW x \in EventsIn(Contents(disk, i))
               PROVE  x \in Nat /\ x < e
    OBVIOUS
  <2>1. x \in StoredIn(disk)
    BY DEF StoredIn
  <2>2. x \in 0..MaxEvents
    BY <1>3, LinesAreNumbers
  <2>3. x \in Nat
    BY <2>2, StoreAssumption
  <2> QED
    BY <1>2, <2>1, <2>3
<1>6. \A i \in Ids : LinesInOrder(Contents(disk', i))
  <2> TAKE i \in Ids
  <2>1. LinesInOrder(Contents(disk, i))
    BY DEF FilesInOrder
  <2>2. CASE Contents(disk', i) = Contents(disk, i)
    BY <2>1, <2>2
  <2>3. CASE i = id /\ GrownBy(Contents(disk', id), Contents(disk, id), e)
    BY <1>2, <1>5, <2>1, <2>3, GrownEvents
  <2> QED
    BY <1>1, <2>2, <2>3
<1>7. ASSUME NEW i \in Ids, NEW j \in Ids, i < j
      PROVE  Before(EventsIn(Contents(disk', i)), EventsIn(Contents(disk', j)))
  <2>1. Before(EventsIn(Contents(disk, i)), EventsIn(Contents(disk, j)))
    BY <1>7 DEF FilesInOrder
  <2>2. CASE i = id
    <3>1. j > newestBatch'.id
      BY <1>7, <2>2, OrderOfIds DEF NewestGrows
    <3>2. disk'[j] = NoFile
      BY <3>1 DEF NewestGrows, StoreIsConsistent, Consistent, FilesBelow
    <3>3. EventsIn(Contents(disk', j)) = {}
      BY <3>2, EmptyFile DEF Contents
    <3> QED
      BY <3>3 DEF Before
  <2>3. CASE i # id
    <3>1. EventsIn(Contents(disk', i)) = EventsIn(Contents(disk, i))
      BY <1>1, <2>3
    <3> QED
      BY <1>4, <1>5, <2>1, <3>1 DEF Before
  <2> QED
    BY <2>2, <2>3
<1>8. ASSUME NEW i \in Ids, NEW x \in EventsIn(Contents(disk', i))
      PROVE  x <= added'
  <2>1. x = e \/ x \in EventsIn(Contents(disk, i))
    BY <1>4
  <2> QED
    BY <1>2, <1>5, <2>1
<1> QED
  BY <1>6, <1>7, <1>8 DEF FilesInOrder, StoredIn

LEMMA AddKeepsOrder ==
    ASSUME IInv, NEW id, NewestGrows(id), added' = added + 1,
           UNCHANGED <<upc, list, confirmed, crashes>>,
           upc = "ack" => FrontOf(newestBatch', oldestBatch').id = Front.id
    PROVE  UploadOrder'
<1> DEFINE e == added + 1
<1>1. /\ id \in Ids
      /\ \A i \in Ids : i # id => Contents(disk', i) = Contents(disk, i)
      /\ \/ Contents(disk', id) = Contents(disk, id)
         \/ GrownBy(Contents(disk', id), Contents(disk, id), e)
  BY DEF NewestGrows
<1>2. added \in Nat /\ e \in Nat /\ added < e /\ added' = e
  BY StoreAssumption DEF IInv, HistoryOK
<1>3. disk \in Disk /\ disk' \in Disk /\ StoreIsConsistent(TRUE)
      /\ \A i \in Ids : Contents(disk, i) \in File /\ Contents(disk', i) \in File
  BY FilesAreFiles, ContentsAreFiles
     DEF IInv, Structure, StoreIsConsistent, NewestGrows
<1> HIDE DEF e
<1>4. \A i \in Ids :
         EventsIn(Contents(disk', i)) \subseteq EventsIn(Contents(disk, i)) \cup {e}
  BY <1>1, GrownEvents
<1> SUFFICES ASSUME crashes = 0
             PROVE  /\ FilesInOrder(disk')
                    /\ \A x \in StoredIn(disk') \cup Elements(confirmed') :
                          x <= added'
                    /\ Increases(confirmed')
                    /\ \A i \in Ids : Before(Elements(confirmed'), Unsent(i)')
  BY DEF UploadOrder
<1>5. /\ FilesInOrder(disk)
      /\ \A x \in StoredIn(disk) \cup Elements(confirmed) : x <= added
      /\ Increases(confirmed)
      /\ \A i \in Ids : Before(Elements(confirmed), Unsent(i))
  BY DEF IInv, UploadOrder
<1>6. Elements(confirmed) \subseteq Nat
  BY StoreAssumption, ElementsOfBoth DEF IInv, HistoryOK
<1>7. \A x \in Elements(confirmed) : x \in Nat /\ x < e
  BY <1>2, <1>5, <1>6
<1>8. FilesInOrder(disk') /\ \A x \in StoredIn(disk') : x <= added'
  BY <1>5, GrowthKeepsOrder
<1>9. \A x \in Elements(confirmed') : x <= added'
  BY <1>2, <1>7
<1>10. ASSUME NEW i \in Ids PROVE Unsent(i)' \subseteq Unsent(i) \cup {e}
  <2>1. CASE upc = "ack" /\ i = Front.id
    <3>1. Unsent(i)' = LinesAfter(Contents(disk', i), list.size)
          /\ Unsent(i) = LinesAfter(Contents(disk, i), list.size)
      BY <2>1 DEF Unsent, Front
    <3>2. list.size \in 0..Len(Contents(disk, i))
      BY <1>3, <2>1, FrontIsFile
         DEF IInv, Structure, ListIsFront, IsFrontList, Front, IsListOf
    <3> QED
      BY <1>1, <3>1, <3>2, GrownEvents
  <2>2. CASE ~ (upc = "ack" /\ i = Front.id)
    <3>1. /\ Unsent(i)' = EventsIn(Contents(disk', i))
          /\ Unsent(i) = EventsIn(Contents(disk, i))
      BY <2>2 DEF Unsent, Front
    <3> QED
      BY <1>4, <3>1
  <2> QED
    BY <2>1, <2>2
<1>11. \A i \in Ids : Before(Elements(confirmed'), Unsent(i)')
  BY <1>5, <1>7, <1>10 DEF Before
<1> QED
  BY <1>5, <1>8, <1>9, <1>11

LEMMA NewestForIsId ==
    ASSUME NEW exact \in BOOLEAN,
           StoreIsConsistent(exact), NEW n, Begun(NewestFor(n))
    PROVE  NewestFor(n).id \in Ids
<1>1. newestBatch.id \in Ids /\ newestBatch.id \in Nat /\ MaxFiles \in Nat
  BY FilesAreFiles, StoreAssumption DEF StoreIsConsistent, Ids
<1>2. CASE NewestFor(n) = newestBatch
  BY <1>1, <1>2
<1>3. CASE NewestFor(n) # newestBatch
  <2>1. NewestFor(n) = OpenBatch(newestBatch.id + 1, <<>>, FALSE)
    BY <1>3, Zenon DEF NewestFor
  <2>2. NewestFor(n).id = newestBatch.id + 1
    BY <2>1 DEF OpenBatch
  <2>3. newestBatch.id < MaxFiles
    BY <1>3 DEF Begun, Rotate
  <2>4. newestBatch.id + 1 \in Ids
    BY <1>1, <2>3 DEF Ids
  <2> QED
    BY <2>2, <2>4
<1> QED
  BY <1>2, <1>3

LEMMA InterruptedIsId ==
    ASSUME NEW exact \in BOOLEAN,
           StoreIsConsistent(exact), NEW n, NewestFor(n).id <= MaxFiles
    PROVE  NewestFor(n).id \in Ids
<1>1. newestBatch.id \in Ids
  BY FilesAreFiles, Zenon DEF StoreIsConsistent
<1>2. newestBatch.id \in Nat /\ MaxFiles \in Nat
  BY <1>1, StoreAssumption DEF Ids
<1>3. CASE NewestFor(n) = newestBatch
  BY <1>1, <1>3
<1>4. CASE NewestFor(n) = OpenBatch(newestBatch.id + 1, <<>>, FALSE)
  <2>1. NewestFor(n).id = newestBatch.id + 1
    BY <1>4 DEF OpenBatch
  <2> QED
    BY <1>2, <2>1 DEF Ids
<1> QED
  BY <1>3, <1>4, Zenon DEF NewestFor

LEMMA AddEventKeeps ==
    ASSUME IInv, NEW n \in Sizes, AddEvent(n),
           WriteErrors => accepted' = 1..added'
    PROVE  IInv' /\ NewestGrows(NewestFor(n).id)
<1> DEFINE e == added + 1
           b == NewestFor(n)
           f == FileOf(b)
<1>1. /\ added < MaxEvents /\ added' = e /\ Begun(b)
      /\ Accept(b, e, n) \/ Reject(b, e, n) \/ FailToWrite(b, e, n)
      /\ UNCHANGED <<limits, uploader, confirmed, dropped, crashes, torn, cut>>
  BY Zenon DEF AddEvent, Begun
<1>2. StoreIsConsistent(TRUE) /\ HistoryOK /\ ListIsFront(TRUE)
  BY DEF IInv, Structure
<1>3. b.id \in Ids
  BY <1>1, <1>2, NewestForIsId
<1>4. /\ b \in Batch /\ ~ b.finalized /\ f \in File
      /\ f = Contents(disk, b.id) /\ Knows(b, f, TRUE)
  BY <1>2, <1>3, NewestForIsBatch
<1>5. e \in 1..MaxEvents /\ n \in Nat \ {0} /\ added \in Nat /\ MaxEvents \in Nat
  BY <1>1, <1>2, StoreAssumption DEF HistoryOK
<1>6. disk \in Disk
  BY <1>2, FilesAreFiles DEF StoreIsConsistent
<1> HIDE DEF e, f
<1>7. PICK g \in File :
         /\ newestBatch' \in Batch /\ newestBatch'.id = b.id
         /\ ~ newestBatch'.finalized
         /\ Knows(newestBatch', g, TRUE) /\ Replaces(disk', disk, b.id, g)
         /\ Extends(g, f)
         /\ \/ /\ newestBatch' = b /\ g = f /\ accepted' = accepted
            \/ /\ GrownBy(g, f, e) /\ accepted' = accepted \cup {e}
               /\ Len(g) = Len(f) + n /\ CanAddEvent(b, n, limits)
  <2>1. CASE Accept(b, e, n)
    <3> DEFINE w == Written(b, f, Line(e, n))
               g == w.file
    <3>0. IsWritten(w, b, f, e, n)
      BY DEF IsWritten
    <3>1. /\ newestBatch' = w.batch /\ disk' = [disk EXCEPT ![b.id] = g]
          /\ accepted' = accepted \cup {e} /\ CanAddEvent(b, n, limits)
      BY <2>1, Zenon DEF Accept, f
    <3> HIDE DEF b, w
    <3>2. /\ Appends(g, f, e, n)
          /\ w.batch \in Batch /\ w.batch.id = b.id
          /\ w.batch.finalized = b.finalized
          /\ Knows(w.batch, g, TRUE) /\ Len(g) = Len(f) + n
      <4>1. KnowsExactly(b, f)
        BY <1>4, ExactlyKnown
      <4>2. KnowsExactly(w.batch, g) => Knows(w.batch, g, TRUE)
        BY ExactlyKnown
      <4>3. /\ Appends(g, f, e, n)
            /\ w.batch \in Batch /\ w.batch.id = b.id
            /\ w.batch.finalized = b.finalized
            /\ KnowsExactly(w.batch, g) /\ Len(g) = Len(f) + n
        <5>1. b \in Batch /\ e \in 1..MaxEvents /\ n \in Nat \ {0}
          BY <1>4, <1>5
        <5> QED
          BY <3>0, <4>1, <5>1, LineIsWritten
      <4> QED
        BY <4>2, <4>3
    <3> HIDE DEF g
    <3>3. /\ g \in File /\ Newlines(g) = Newlines(f) \cup {Len(f) + n}
          /\ \A i \in 1..Len(f) : g[i] = f[i]
          /\ LineAt(g, Len(f) + n) = e
      BY <1>4, <1>5, <3>2, LineIsAppended DEF Knows
    <3>4. Len(f) \in Nat /\ Len(f) + n > Len(f)
      BY <1>4, <1>5 DEF File
    <3>5. Extends(g, f)
      BY <3>2, <3>3, <3>4 DEF Extends, Agree
    <3>6. GrownBy(g, f, e)
      BY <1>4, <3>2, <3>3, <3>4, <3>5 DEF GrownBy
    <3>7. Replaces(disk', disk, b.id, g)
      BY <3>1 DEF Replaces
    <3> QED
      BY <1>4, <3>1, <3>2, <3>3, <3>5, <3>6, <3>7
  <2>2. CASE Reject(b, e, n)
    <3>1. /\ newestBatch' = b /\ disk' = [disk EXCEPT ![b.id] = f]
          /\ accepted' = accepted
      BY <2>2 DEF Reject, f
    <3>2. Replaces(disk', disk, b.id, f)
      BY <3>1 DEF Replaces
    <3>3. Extends(f, f)
      BY <1>4 DEF Extends, Agree, File
    <3> QED
      BY <1>4, <3>1, <3>2, <3>3
  <2>3. ~ FailToWrite(b, e, n)
    <3> SUFFICES ASSUME FailToWrite(b, e, n) PROVE FALSE
      OBVIOUS
    <3>1. accepted' = accepted /\ WriteErrors
      BY DEF FailToWrite
    <3>2. e \notin accepted /\ e \in 1..e /\ added' = e
      BY <1>1, <1>2, <1>5 DEF HistoryOK, e
    <3> QED
      BY <3>1, <3>2
  <2> QED
    BY <1>1, <2>1, <2>2, <2>3
<1>8. StoreIsConsistent(TRUE)'
  BY <1>1, <1>2, <1>3, <1>7, NewestForStays
<1>9. /\ \A i \in Ids : i # b.id => Contents(disk', i) = Contents(disk, i)
      /\ Contents(disk', b.id) = g
  BY <1>3, <1>6, <1>7, OneFileChanges
<1>10. ASSUME IsFrontList(list, disk, newestBatch, oldestBatch, oldBatches, TRUE)
       PROVE  /\ FrontOf(newestBatch', oldestBatch').id = Front.id
              /\ IsFrontList(list, disk', newestBatch', oldestBatch', oldBatches', TRUE)
  <2>1. \/ newestBatch' = b /\ g = f
        \/ Len(g) > Len(f)
    BY <1>7 DEF GrownBy
  <2>2. b.fileSize = Len(f) /\ newestBatch'.fileSize = Len(g)
    BY <1>4, <1>7 DEF Knows
  <2>3. /\ Agree(g, f, b.fileSize) /\ b.fileSize <= newestBatch'.fileSize
        /\ newestBatch'.fileSize \in Nat
    BY <1>7, <2>2 DEF Extends, Agree, File
  <2> QED
    BY <1>1, <1>2, <1>3, <1>7, <1>10, <2>1, <2>2, <2>3, ListStaysInFront DEF f
<1>11. ListIsFront(TRUE)'
  BY <1>1, <1>2, <1>10 DEF ListIsFront, uploader
<1>12. upc = "ack" => FrontOf(newestBatch', oldestBatch').id = Front.id
  BY <1>2, <1>10 DEF ListIsFront
<1> HIDE DEF b
<1>13. NewestGrows(b.id)
  <2>1. ASSUME CanAddEvent(b, n, limits), Len(g) = Len(f) + n, limits.size # 0
        PROVE  Len(g) <= limits.size
    BY <1>4, <2>1 DEF CanAddEvent, Knows
  <2> QED
    BY <1>3, <1>4, <1>7, <1>8, <1>9, <2>1 DEF NewestGrows, e
<1>14. UploadOrder'
  BY <1>1, <1>12, <1>13, AddKeepsOrder DEF uploader, e
<1>15. HistoryOK'
  <2>1. added' \in 0..MaxEvents /\ 1..added \subseteq 1..added' /\ e \in 1..added'
    BY <1>1, <1>5 DEF e
  <2>2. accepted' \subseteq 1..added'
    BY <1>2, <1>7, <2>1 DEF HistoryOK
  <2> QED
    BY <1>1, <1>2, <2>1, <2>2 DEF HistoryOK, uploader
<1>16. \A i \in Ids :
          /\ EventsIn(Contents(disk, i)) \subseteq EventsIn(Contents(disk', i))
          /\ EventsIn(Contents(disk', i))
                \subseteq EventsIn(Contents(disk, i)) \cup {e}
  BY <1>4, <1>7, <1>9, GrownEvents
<1>17. /\ StoredIn(disk) \subseteq StoredIn(disk')
       /\ StoredIn(disk') \subseteq StoredIn(disk) \cup {e}
  BY <1>16 DEF StoredIn
<1>18. AcceptedIsKept'
  <2>1. CASE accepted' = accepted
    BY <1>1, <1>17, <2>1 DEF IInv, AcceptedIsKept
  <2>2. CASE accepted' = accepted \cup {e} /\ GrownBy(g, f, e)
    <3>1. e \in EventsIn(Contents(disk', b.id))
      BY <1>9, <2>2, GrownEvents
    <3>2. e \in StoredIn(disk')
      BY <1>3, <3>1 DEF StoredIn
    <3> QED
      BY <1>1, <1>17, <2>2, <3>2 DEF IInv, AcceptedIsKept
  <2> QED
    BY <1>7, <2>1, <2>2
<1>19. LinesAreWhole'
  <2>1. e # Garbage
    BY <1>5 DEF Garbage
  <2> QED
    BY <1>1, <1>17, <2>1 DEF IInv, LinesAreWhole
<1>21. IInv'
  BY <1>8, <1>11, <1>14, <1>15, <1>18, <1>19 DEF IInv, Structure
<1> QED
  BY <1>13, <1>21 DEF b

-----------------------------------------------------------------------------
(* The constructor and the crashes keep the invariant.                     *)

\* A crash leaves the directory d, which holds what disk held, but for X.
LEMMA RestartKeeps ==
    ASSUME IInv, NEW d \in Disk, Restart(d), added' \in added..MaxEvents,
           torn' \in BOOLEAN, torn => torn', dropped' \subseteq 0..MaxEvents,
           cut' \subseteq 0..MaxEvents, torn' \/ cut' = {},
           ~ torn' => StoredIn(d) \subseteq StoredIn(disk),
           (StoredIn(disk) \ {Garbage}) \cup dropped \cup cut \subseteq
              StoredIn(d) \cup Elements(confirmed) \cup dropped' \cup cut'
    PROVE  IInv'
<1>1. /\ crashes' = crashes + 1 /\ Started(d) /\ upc' = "idle"
      /\ UNCHANGED <<limits, accepted, confirmed>>
  BY DEF Restart
<1>2. Structure(TRUE)' /\ \A i \in Ids : Keeps(Contents(disk', i), Contents(d, i))
  BY <1>1, StartIsStructured
<1>3. StoredIn(disk') = StoredIn(d)
  BY <1>2, KeepsEvents DEF StoredIn
<1>4. disk' \in Disk
  BY <1>2, FilesAreFiles DEF Structure, StoreIsConsistent
<1>5. crashes' \in Nat /\ crashes' # 0
  BY <1>1 DEF IInv, HistoryOK
<1>6. HistoryOK'
  <2>1. added \in Nat /\ MaxEvents \in Nat
    BY StoreAssumption DEF IInv, HistoryOK
  <2>2. added' \in 0..MaxEvents /\ 1..added \subseteq 1..added'
    BY <2>1
  <2> QED
    BY <1>1, <1>5, <2>2 DEF IInv, HistoryOK
<1>8. AcceptedIsKept'
  <2>1. accepted \subseteq StoredIn(disk) \cup Elements(confirmed) \cup dropped
                              \cup cut
    BY DEF IInv, AcceptedIsKept
  <2>2. Garbage \notin accepted
    BY DEF IInv, HistoryOK, Garbage
  <2> QED
    BY <1>1, <1>3, <2>1, <2>2 DEF AcceptedIsKept
<1>9. LinesAreWhole'
  BY <1>1, <1>3 DEF IInv, LinesAreWhole
<1>10. UploadOrder'
  BY <1>5 DEF UploadOrder
<1> QED
  BY <1>2, <1>6, <1>8, <1>9, <1>10 DEF IInv

LEMMA CrashKeeps == ASSUME IInv, Crash PROVE IInv'
<1>1. Restart(disk) /\ UNCHANGED <<added, dropped, torn, cut>>
  BY DEF Crash
<1>2. disk \in Disk /\ added \in added..MaxEvents /\ HistoryOK
  <2>1. disk \in Disk
    BY FilesAreFiles DEF IInv, Structure, StoreIsConsistent
  <2>2. added \in added..MaxEvents
    BY StoreAssumption DEF IInv, HistoryOK
  <2> QED
    BY <2>1, <2>2 DEF IInv
<1> QED
  BY <1>1, <1>2, RestartKeeps DEF HistoryOK

\* A part of an event leaves all lines where they are.
InterruptedAt(d) ==
    /\ d \in Disk /\ Restart(d)
    /\ \A i \in Ids : SameLines(Contents(d, i), Contents(disk, i))

LEMMA CrashInAddLeavesLines ==
    ASSUME IInv, NEW n \in Sizes, CrashInAdd(n)
    PROVE  /\ added' = added + 1 /\ added' \in added..MaxEvents
           /\ UNCHANGED <<dropped, torn, cut>>
           /\ \E d : InterruptedAt(d)
<1> DEFINE b == NewestFor(n)
           e == added + 1
           f == FileOf(b)
<1>1. PICK o \in 0..n - 1 :
         Restart([disk EXCEPT ![b.id] = WrittenPartly(b, f, Line(e, n), o)])
  BY DEF CrashInAdd
<1>2. /\ added < MaxEvents /\ b.id <= MaxFiles /\ CanAddEvent(b, n, limits)
      /\ added' = e /\ UNCHANGED <<dropped, torn, cut>>
  BY DEF CrashInAdd
<1>3. StoreIsConsistent(TRUE) /\ HistoryOK
  BY DEF IInv, Structure
<1>4. b.id \in Ids
  BY <1>2, <1>3, InterruptedIsId
<1>5. /\ b \in Batch /\ f \in File /\ f = Contents(disk, b.id) /\ Knows(b, f, TRUE)
  BY <1>3, <1>4, NewestForIsBatch
<1>6. e \in 1..MaxEvents /\ n \in Nat \ {0} /\ added \in Nat /\ MaxEvents \in Nat
  BY <1>2, <1>3, StoreAssumption DEF HistoryOK
<1>7. disk \in Disk
  BY <1>3, FilesAreFiles DEF StoreIsConsistent
<1> HIDE DEF b, e, f
<1> DEFINE g == WrittenPartly(b, f, Line(e, n), o)
           d == [disk EXCEPT ![b.id] = g]
<1>8. AppendsPart(g, f, e, n, o)
  <2>1. \A x : WrittenPartly(b, f, x, o) = WriteAt(f, Len(f), First(x, o))
    <3>1. KnowsExactly(b, f)
      BY <1>5, ExactlyKnown
    <3> QED
      BY <1>5, <3>1, PartIsWritten
  <2> QED
    BY <2>1, Zenon DEF AppendsPart, g
<1> HIDE DEF g
<1>9. g \in File /\ Len(g) = Len(f) + o /\ SameLines(g, f)
  BY <1>5, <1>6, <1>8, PartIsAppended DEF SameLines
<1>10. Replaces(d, disk, b.id, g) /\ Restart(d)
  BY <1>1 DEF Replaces, g
<1> HIDE DEF d
<1>11. /\ d \in Disk /\ Contents(d, b.id) = g
       /\ \A i \in Ids : i # b.id => Contents(d, i) = Contents(disk, i)
  BY <1>4, <1>7, <1>9, <1>10, OneFileChanges
<1>12. \A i \in Ids : SameLines(Contents(d, i), Contents(disk, i))
  BY <1>5, <1>9, <1>11 DEF SameLines
<1>14. added' \in added..MaxEvents
  BY <1>2, <1>6 DEF e
<1>15. InterruptedAt(d)
  BY <1>10, <1>11, <1>12 DEF InterruptedAt
<1> QED
  BY <1>2, <1>14, <1>15 DEF e

LEMMA CrashInAddKeeps ==
    ASSUME IInv, NEW n \in Sizes, CrashInAdd(n) PROVE IInv'
<1>1. /\ added' \in added..MaxEvents /\ UNCHANGED <<dropped, torn, cut>>
      /\ \E d : InterruptedAt(d)
  BY CrashInAddLeavesLines
<1>2. PICK d : InterruptedAt(d)
  BY <1>1
<1>3. /\ d \in Disk /\ Restart(d) /\ StoredIn(d) = StoredIn(disk)
  BY <1>2, SameLinesOrder DEF InterruptedAt
<1>4. /\ torn \in BOOLEAN /\ dropped \subseteq 0..MaxEvents
      /\ cut \subseteq 0..MaxEvents /\ (torn \/ cut = {})
  BY DEF IInv, HistoryOK
<1> QED
  BY <1>1, <1>3, <1>4, RestartKeeps

\* A whole line that begins behind the copy stays.
LEMMA LineBehindStays ==
    ASSUME NEW f \in File, NEW g \in File, Len(g) = Len(f), NEW k \in Nat,
           \A i \in 1..Len(f) : k < i => g[i] = f[i],
           NEW j \in Newlines(f), IsWhole(f, j), k < j - f[j].n
    PROVE  f[j].ev \in EventsIn(g)
<1> DEFINE n == f[j].n
           e == f[j].ev
<1>1. /\ Len(f) \in Nat /\ j \in 1..Len(f) /\ DOMAIN f = 1..Len(f)
      /\ DOMAIN g = 1..Len(f)
  BY NewlinesAreFinite DEF File
<1>2. /\ n \in Nat \ {0} /\ n <= j /\ (j > n => j - n \in Newlines(f))
      /\ \A i \in 1..n : f[j - n + i] = [ev |-> e, k |-> i, n |-> n]
  BY <1>1, WholeIsUnits
<1> HIDE DEF n, e
<1>3. k < j - n /\ f[j].n = n /\ f[j].ev = e
  BY DEF n, e
<1>4. /\ k < j /\ j - n \in 1..Len(f) /\ j - n \in Newlines(f)
      /\ \A i \in 1..n : j - n + i \in 1..Len(f) /\ k < j - n + i
  BY <1>1, <1>2, <1>3
<1>5. g[j] = f[j] /\ g[j - n] = f[j - n]
      /\ \A i \in 1..n : g[j - n + i] = f[j - n + i]
  BY <1>1, <1>3, <1>4
<1>6. j \in Newlines(g) /\ j - n \in Newlines(g)
  BY <1>1, <1>4, <1>5 DEF Newlines
<1>7. g[j].n = n /\ g[j].ev = e
  BY <1>3, <1>5
<1>8. IsWhole(g, j)
  <2>1. j \in 1..Len(g)
    BY <1>1
  <2>2. /\ g[j].n <= j
        /\ j > g[j].n => j - g[j].n \in Newlines(g)
        /\ \A i \in 1..g[j].n :
             g[j - g[j].n + i] = [ev |-> g[j].ev, k |-> i, n |-> g[j].n]
    BY <1>2, <1>5, <1>6, <1>7
  <2> QED
    BY <2>1, <2>2, WholeIsUnits
<1> QED
  BY <1>3, <1>6, <1>7, <1>8 DEF EventsIn, LineAt

\* When the first k units of the rest have been written over f, every line
\* behind s is at its old place or at its new one, but for one.
LEMMA CopyCutsOne ==
    ASSUME NEW f \in File, NEW l, l.size \in 0..Len(f),
           l.size = 0 \/ l.size \in Newlines(f),
           NEW k \in 1..Len(f) - l.size, NEW g, g = ShiftedPartly(f, l, k)
    PROVE  /\ g \in File
           /\ LinesAfter(f, l.size) \ {Garbage}
                 \subseteq EventsIn(g) \cup CutThrough(f, l, k)
           /\ CutThrough(f, l, k) \subseteq 0..MaxEvents
<1> DEFINE s == l.size
           rest == Rest(f, l)
           data == First(rest, k)
<1>1. /\ s \in 0..Len(f) /\ (s = 0 \/ s \in Newlines(f)) /\ s \in Nat
      /\ Len(f) \in Nat /\ k \in Nat /\ k <= Len(f) - s /\ 1 <= k
  BY DEF File
<1>2. rest \in File /\ IsRest(rest, f, s)
  BY SubSeqIsRest DEF Rest
<1> HIDE DEF s, rest
<1>3. Len(rest) = Len(f) - s /\ k \in 0..Len(rest) /\ Len(rest) \in Nat
  BY <1>1, <1>2 DEF IsRest
<1>4. /\ data \in File /\ Len(data) = k
      /\ Newlines(data) = {j \in Newlines(rest) : j <= k}
      /\ \A j \in 1..k : LineAt(data, j) = LineAt(rest, j)
  BY <1>2, <1>3, PrefixLines
<1>5. Copies(g, f, data)
  BY DEF Copies, ShiftedPartly, rest
<1> HIDE DEF data
<1>6. /\ g \in File /\ Len(g) = Len(f) /\ EventsIn(data) \subseteq EventsIn(g)
      /\ \A i \in 1..Len(f) : g[i] = IF i <= k THEN data[i] ELSE f[i]
  BY <1>1, <1>4, <1>5, CopyOverBeginning
<1>7. ASSUME NEW j \in Newlines(f), s < j, LineAt(f, j) # Garbage
      PROVE  LineAt(f, j) \in EventsIn(g) \cup CutThrough(f, l, k)
  <2> DEFINE n == f[j].n
             e == f[j].ev
  <2>1. IsWhole(f, j) /\ LineAt(f, j) = e
    BY <1>7 DEF LineAt
  <2>2. j \in 1..Len(f)
    BY NewlinesAreFinite
  <2>3. /\ n \in Nat \ {0} /\ n <= j
        /\ \A i \in 1..n : f[j - n + i] = [ev |-> e, k |-> i, n |-> n]
    BY <2>1, <2>2, WholeIsUnits
  <2>4. CASE j - s <= k
    <3>1. PICK h : h = j - s
      OBVIOUS
    <3>2. h \in 1..Len(rest) /\ s + h = j /\ h \in 1..k
      BY <1>1, <1>3, <1>7, <2>2, <2>4, <3>1
    <3>3. h \in Newlines(rest) /\ LineAt(rest, h) = e
      BY <1>1, <1>2, <2>1, <3>2, RestLines
    <3>4. h \in Newlines(data) /\ LineAt(data, h) = e
      BY <1>4, <3>2, <3>3
    <3> QED
      BY <1>6, <2>1, <3>4 DEF EventsIn
  <2>5. CASE k < j - n
    <3>1. \A i \in 1..Len(f) : k < i => g[i] = f[i]
      BY <1>1, <1>6
    <3> QED
      BY SMTT(20), <1>1, <1>6, <2>1, <2>5, <3>1, LineBehindStays
  <2>6. CASE ~ (j - s <= k) /\ ~ (k < j - n)
    <3>0. n \in Nat /\ n <= j
      BY <2>3
    <3> HIDE DEF n, e
    <3>1. j - n <= k /\ k < j - s /\ j \in Nat /\ j <= Len(f) /\ n \in Nat /\ n <= j
      BY <1>1, <2>2, <3>0, <2>6
    <3>2. PICK p : p = k + 1 - (j - n)
      OBVIOUS
    <3>3. PICK q : q = k + 1 + s - (j - n)
      OBVIOUS
    <3>6. p \in 1..n /\ j - n + p = k + 1
      BY <1>1, <3>1, <3>2
    <3>7. q \in 1..n /\ j - n + q = k + 1 + s
      BY <1>1, <3>1, <3>3
    <3>8. k # Len(f) - s
      BY <1>1, <3>1
    <3>9. f[j - n + p] = [ev |-> e, k |-> p, n |-> n]
      BY <2>3, <3>6, Zenon
    <3>10. f[j - n + q] = [ev |-> e, k |-> q, n |-> n]
      BY <2>3, <3>7, Zenon
    <3>4. f[k + 1].ev = e /\ f[k + 1 + s].ev = e
      BY <3>6, <3>7, <3>9, <3>10
    <3>5. e \in CutThrough(f, l, k)
      BY <3>4, <3>8 DEF CutThrough, s
    <3> QED
      BY <2>1, <3>5 DEF e
  <2> QED
    BY <2>4, <2>5, <2>6
<1>8. CutThrough(f, l, k) \subseteq 0..MaxEvents
  <2>1. CASE k = Len(f) - s
    BY <2>1 DEF CutThrough, s
  <2>2. CASE k # Len(f) - s
    <3>1. k + 1 \in 1..Len(f)
      BY <1>1, <2>2
    <3>2. f[k + 1].ev \in 0..MaxEvents
      BY <3>1, WholeIsUnits
    <3> QED
      BY <2>2, <3>2 DEF CutThrough, s
  <2> QED
    BY <2>1, <2>2
<1> QED
  BY <1>6, <1>7, <1>8 DEF LinesAfter, s

LEMMA CrashInShiftKeeps ==
    ASSUME IInv, CrashInShift, WriteErrors => ~ torn' PROVE IInv'
<1> DEFINE f == disk[Front.id]
<1>1. /\ upc \in {"ack", "drop"} /\ torn' = TRUE /\ UNCHANGED added
      /\ dropped' = dropped \cup DroppedWith(upc, list)
      /\ \E k \in 1..Len(Rest(f, list)) :
            /\ Restart([disk EXCEPT ![Front.id] = ShiftedPartly(f, list, k)])
            /\ cut' = cut \cup CutThrough(f, list, k)
  BY Zenon DEF CrashInShift, FrontBatch, Front, FrontOf
<1>2. /\ StoreIsConsistent(TRUE) /\ HistoryOK
      /\ IsFrontList(list, disk, newestBatch, oldestBatch, oldBatches, TRUE)
  BY <1>1 DEF IInv, Structure, ListIsFront
<1>3. /\ Front.id \in Ids /\ f \in File /\ Contents(disk, Front.id) = f
      /\ disk \in Disk /\ IsListOf(list, f)
  BY <1>2, FrontIsFile DEF IsFrontList, Front
<1>4. /\ list.size \in 0..Len(f)
      /\ list.size = 0 \/ list.size \in Newlines(f)
  BY <1>3 DEF IsListOf
<1> HIDE DEF f
<1>5. Rest(f, list) \in File /\ Len(Rest(f, list)) = Len(f) - list.size
  BY <1>3, <1>4, SubSeqIsRest DEF Rest, IsRest
<1>6. PICK k \in 1..Len(f) - list.size :
         /\ Restart([disk EXCEPT ![Front.id] = ShiftedPartly(f, list, k)])
         /\ cut' = cut \cup CutThrough(f, list, k)
  BY <1>1, <1>5
<1>7. /\ list.data \in File
      /\ EventsIn(f) = EventsIn(list.data) \cup LinesAfter(f, list.size)
  BY <1>3, ListIsFirst
<1> DEFINE g == ShiftedPartly(f, list, k)
           d == [disk EXCEPT ![Front.id] = g]
<1>8. /\ g \in File
      /\ LinesAfter(f, list.size) \ {Garbage}
            \subseteq EventsIn(g) \cup CutThrough(f, list, k)
      /\ CutThrough(f, list, k) \subseteq 0..MaxEvents
  BY <1>3, <1>4, CopyCutsOne
<1>9. Replaces(d, disk, Front.id, g) /\ Restart(d)
  BY <1>6 DEF Replaces
<1> HIDE DEF d, g
<1>10. /\ d \in Disk /\ Contents(d, Front.id) = g
       /\ \A i \in Ids : i # Front.id => Contents(d, i) = Contents(disk, i)
  BY <1>3, <1>8, <1>9, OneFileChanges
<1>11. /\ EventsIn(list.data) \subseteq Elements(confirmed) \cup dropped'
       /\ dropped \subseteq dropped' /\ dropped' \subseteq 0..MaxEvents
  <2>1. /\ Elements(EventsOf(list.data)) = EventsIn(list.data)
        /\ EventsIn(list.data) \subseteq 0..MaxEvents
    BY <1>7, EventsAreLines, LinesAreNumbers
  <2> QED
    BY <1>1, <1>2, <2>1 DEF DroppedWith, HistoryOK
<1>12. /\ cut \subseteq cut' /\ cut' \subseteq 0..MaxEvents
       /\ CutThrough(f, list, k) \subseteq cut'
  BY <1>2, <1>6, <1>8 DEF HistoryOK
<1>13. (StoredIn(disk) \ {Garbage}) \cup dropped \cup cut \subseteq
          StoredIn(d) \cup Elements(confirmed) \cup dropped' \cup cut'
  <2> DEFINE X == EventsIn(list.data) \cup cut' \cup {Garbage}
  <2>1. ASSUME NEW i \in Ids
        PROVE  EventsIn(Contents(disk, i)) \subseteq EventsIn(Contents(d, i)) \cup X
    BY <1>3, <1>7, <1>8, <1>10, <1>12
  <2>2. StoredIn(disk) \subseteq StoredIn(d) \cup X
    BY ZenonT(60), <2>1, StoredMoves
  <2> QED
    BY <1>11, <1>12, <2>2
<1>14. added' \in added..MaxEvents
  BY <1>1, <1>2, StoreAssumption DEF HistoryOK
<1> QED
  BY <1>1, <1>9, <1>10, <1>11, <1>12, <1>13, <1>14, RestartKeeps

-----------------------------------------------------------------------------
(* The invariant holds.                                                    *)

LEMMA InitIsGood == ASSUME Init PROVE IInv
<1>1. 0 \in Ids /\ Ids \subseteq Nat
  BY StoreAssumption DEF Ids
<1>2. /\ disk = [i \in Ids |-> IF i = 0 THEN <<>> ELSE NoFile]
      /\ limits \in Limits
      /\ newestBatch = OpenBatch(0, <<>>, FALSE)
      /\ oldestBatch = NoBatch /\ oldBatches = <<>> /\ upc = "idle"
      /\ added = 0 /\ accepted = {} /\ confirmed = <<>> /\ dropped = {}
      /\ crashes = 0 /\ torn = FALSE /\ cut = {}
  BY DEF Init
<1>3. /\ <<>> \in File /\ EventsIn(<<>>) = {} /\ Newlines(<<>>) = {}
      /\ Len(<<>>) = 0 /\ Recover(<<>>) = <<>>
  BY EmptyFile
<1>4. disk \in Disk /\ disk[0] = <<>> /\ \A i \in Ids : i # 0 => disk[i] = NoFile
  BY <1>1, <1>2, <1>3 DEF Disk
<1>5. \A i \in Ids : Contents(disk, i) = <<>>
  BY <1>4 DEF Contents
<1>6. /\ newestBatch \in Batch /\ newestBatch.id = 0
      /\ newestBatch.finalized = FALSE /\ Knows(newestBatch, <<>>, TRUE)
  <2>1. FALSE \in BOOLEAN
    OBVIOUS
  <2> QED
    BY ZenonT(60), <1>1, <1>2, <1>3, <2>1, OpenedKnows
<1>7. StoreIsConsistent(TRUE)
  <2>1. FilesBelow(disk, newestBatch)
    BY <1>4, <1>6 DEF FilesBelow
  <2>2. BatchesKnow(disk, newestBatch, oldestBatch, TRUE)
    BY <1>2, <1>4, <1>6 DEF BatchesKnow
  <2>3. BatchesInOrder(disk, newestBatch, oldestBatch, oldBatches)
    BY <1>2 DEF BatchesInOrder
  <2>4. FilesAreKnown(disk, newestBatch, oldestBatch, oldBatches)
    BY <1>4, <1>6 DEF FilesAreKnown
  <2> QED
    BY <2>1, <2>2, <2>3, <2>4 DEF StoreIsConsistent, Consistent
<1>8. ListIsFront(TRUE)
  BY <1>2 DEF ListIsFront
<1>9. HistoryOK
  <2>1. 0 \in 0..MaxEvents /\ confirmed \in Seq(0..MaxEvents)
    BY <1>2, StoreAssumption
  <2> QED
    BY <1>2, <2>1 DEF HistoryOK
<1>10. StoredIn(disk) = {} /\ Elements(confirmed) = {}
  BY <1>2, <1>3, <1>5 DEF StoredIn, Elements
<1>11. AcceptedIsKept /\ LinesAreWhole
  BY <1>2, <1>3, <1>5, <1>10, BufferAssumption
     DEF AcceptedIsKept, LinesAreWhole
<1>12. UploadOrder
  <2>1. FilesInOrder(disk)
    BY <1>3, <1>5 DEF FilesInOrder, LinesInOrder, Before
  <2>2. Increases(confirmed)
    BY <1>2 DEF Increases
  <2> QED
    BY <1>10, <2>1, <2>2 DEF UploadOrder, Before
<1> QED
  BY <1>7, <1>8, <1>9, <1>11, <1>12 DEF IInv, Structure

LEMMA StepIsGood ==
    ASSUME IInv, [Next]_vars,
           WriteErrors => accepted' = 1..added' /\ ~ torn'
    PROVE  IInv'
<1>1. ASSUME NEW n \in Sizes, AddEvent(n) PROVE IInv'
  BY <1>1, AddEventKeeps
<1>2. ASSUME NEW n \in Sizes, CrashInAdd(n) PROVE IInv'
  BY <1>2, CrashInAddKeeps
<1>3. CASE SendBegin
  BY <1>3, SendBeginKeeps
<1>4. CASE PostSucceeds
  BY <1>4, PostSucceedsKeeps
<1>5. CASE SendEnd
  BY <1>5, SendEndKeeps
<1>6. CASE CheckEvents
  BY <1>6, CheckEventsKeeps
<1>7. CASE DropFirst
  BY <1>7, DropFirstKeeps
<1>8. CASE PostFails
  BY <1>8, PostFailsKeeps
<1>9. CASE SetFileLimits
  BY <1>9, SetFileLimitsKeeps
<1>10. CASE Crash
  BY <1>10, CrashKeeps
<1>11. CASE CrashInShift
  BY <1>11, CrashInShiftKeeps
<1>12. CASE UNCHANGED vars
  <2>1. UNCHANGED <<disk, limits, newestBatch, oldestBatch, oldBatches, upc, list,
                    added, accepted, confirmed, dropped, crashes, torn, cut>>
    BY <1>12 DEF vars, memory, uploader, history
  <2>2. Structure(TRUE)' /\ HistoryOK'
    BY <2>1 DEF IInv, Structure, StoreIsConsistent, ListIsFront, HistoryOK
  <2>3. AcceptedIsKept' /\ LinesAreWhole'
    BY <2>1 DEF IInv, AcceptedIsKept, LinesAreWhole
  <2>4. UploadOrder'
    BY <2>1 DEF IInv, UploadOrder, Unsent, Front
  <2> QED
    BY <2>2, <2>3, <2>4 DEF IInv
<1> QED
  BY <1>1, <1>2, <1>3, <1>4, <1>5, <1>6, <1>7, <1>8, <1>9, <1>10, <1>11, <1>12
     DEF Next, Upload

LEMMA Invariance == ASSUME ~ WriteErrors PROVE Safety => []IInv
<1>1. Init => IInv
  BY InitIsGood
<1>2. IInv /\ [Next]_vars => IInv'
  BY StepIsGood
<1> QED
  BY <1>1, <1>2, PTL DEF Safety

-----------------------------------------------------------------------------
(* The batches implement the abstract queue.  Once a crash has torn a file *)
(* the queue promises nothing, and the lines need not be in order.         *)

QueueOrder ==
    ~ torn => FilesInOrder(disk) /\ \A x \in StoredIn(disk) : x <= added

IdleHasNoList == upc \in {"idle", "check"} => list = NoList

QInv == IInv /\ QueueOrder /\ IdleHasNoList

\* The events of the list come before all others.
LEMMA ListComesFirst ==
    ASSUME StoreIsConsistent(TRUE), FilesInOrder(disk),
           IsFrontList(list, disk, newestBatch, oldestBatch, oldBatches, TRUE)
    PROVE  LET X == EventsIn(list.data)
               f == disk[Front.id]
           IN  /\ X \subseteq 0..MaxEvents
               /\ EventsIn(f) = X \cup LinesAfter(f, list.size)
               /\ Before(X, LinesAfter(f, list.size))
               /\ \A i \in Ids : i # Front.id => Before(X, EventsIn(Contents(disk, i)))
<1> DEFINE X == EventsIn(list.data)
           f == disk[Front.id]
<1>1. Front.id \in Ids /\ f \in File /\ Contents(disk, Front.id) = f
  BY FrontIsFile
<1>2. IsListOf(list, f) /\ (oldestBatch = NoBatch => oldBatches = <<>>)
  BY DEF IsFrontList, Front
<1>3. LinesInOrder(f)
  BY <1>1 DEF FilesInOrder
<1> HIDE DEF f
<1>4. /\ list.data \in File /\ X \subseteq EventsIn(f)
      /\ EventsIn(f) = X \cup LinesAfter(f, list.size)
      /\ Before(X, LinesAfter(f, list.size))
  BY <1>1, <1>2, <1>3, ListIsFirst
<1>5. X \subseteq 0..MaxEvents
  BY <1>4, LinesAreNumbers
<1>6. ASSUME NEW i \in Ids, i # Front.id
      PROVE  Before(X, EventsIn(Contents(disk, i)))
  <2>1. CASE disk[i] = NoFile \/ disk[i] = <<>>
    <3>1. EventsIn(Contents(disk, i)) = {}
      BY <2>1, EmptyFile DEF Contents
    <3> QED
      BY <3>1 DEF Before
  <2>2. CASE disk[i] # NoFile /\ disk[i] # <<>>
    <3>1. Front.id < i
      BY <1>2, <1>6, <2>2, FrontIsFirst
    <3>2. Before(EventsIn(f), EventsIn(Contents(disk, i)))
      BY <1>1, <1>6, <3>1 DEF FilesInOrder
    <3> QED
      BY <1>4, <3>2, BeforeSome
  <2> QED
    BY <2>1, <2>2
<1> QED
  BY <1>4, <1>5, <1>6 DEF f

LEMMA ListBeginsStore ==
    ASSUME StoreIsConsistent(TRUE), FilesInOrder(disk),
           IsFrontList(list, disk, newestBatch, oldestBatch, oldBatches, TRUE)
    PROVE  /\ EventsIn(list.data) \subseteq StoredIn(disk)
           /\ \A e \in EventsIn(list.data), g \in StoredIn(disk) :
                g < e => g \in EventsIn(list.data)
<1> DEFINE X == EventsIn(list.data)
           Y == LinesAfter(disk[Front.id], list.size)
<1>1. /\ X \subseteq 0..MaxEvents /\ EventsIn(disk[Front.id]) = X \cup Y
      /\ Before(X, Y)
      /\ \A i \in Ids : i # Front.id => Before(X, EventsIn(Contents(disk, i)))
  BY ListComesFirst
<1>2. /\ disk \in Disk /\ Front.id \in Ids
      /\ Contents(disk, Front.id) = disk[Front.id]
  BY FrontIsFile
<1> HIDE DEF X, Y
<1>3. X \subseteq StoredIn(disk)
  BY <1>1, <1>2 DEF StoredIn
<1>4. ASSUME NEW e \in X, NEW g \in StoredIn(disk), g < e PROVE g \in X
  <2>1. PICK i \in Ids : g \in EventsIn(Contents(disk, i))
    BY DEF StoredIn
  <2>2. g \in X \/ e < g
    BY <1>1, <1>2, <2>1 DEF Before
  <2>3. g \in 0..MaxEvents
    BY <1>2, <2>1, ContentsAreFiles, LinesAreNumbers
  <2>4. e \in Nat /\ g \in Nat
    BY <1>1, <2>3
  <2> QED
    BY <1>4, <2>2, <2>4
<1> QED
  BY <1>3, <1>4 DEF X

\* The variables of the queue.
LEMMA PendingIs == ASSUME IInv PROVE Stored = StoredIn(disk)
  BY FilesAreFiles, StoredIsStored DEF IInv, Structure, StoreIsConsistent

LEMMA TakenIs ==
    ASSUME IInv, IdleHasNoList
    PROVE  /\ list.data \in File
           /\ Elements(EventsOf(list.data)) = EventsIn(list.data)
           /\ upc \in {"idle", "check"} => EventsIn(list.data) = {}
<1>1. CASE upc \in {"idle", "check"}
  <2>1. list.data = <<>>
    BY <1>1 DEF IdleHasNoList, NoList
  <2> QED
    BY <2>1, EmptyFile, EventsAreLines
<1>2. CASE upc \in {"post", "ack", "drop"}
  <2>1. /\ StoreIsConsistent(TRUE)
        /\ IsFrontList(list, disk, newestBatch, oldestBatch, oldBatches, TRUE)
    BY <1>2 DEF IInv, Structure, ListIsFront
  <2>2. disk[Front.id] \in File /\ IsListOf(list, disk[Front.id])
    BY <2>1, FrontIsFile DEF IsFrontList, Front
  <2>3. list.data \in File
    BY <2>2, ListIsFirst
  <2> QED
    BY <1>2, <2>3, EventsAreLines
<1> QED
  BY <1>1, <1>2 DEF IInv, HistoryOK

\* What the queue sees of a state.
IsSeen ==
    /\ Stored = StoredIn(disk)
    /\ Elements(EventsOf(list.data)) = EventsIn(list.data)
    /\ upc \in {"idle", "check"} => EventsIn(list.data) = {}

ListBegins ==
    /\ EventsIn(list.data) \subseteq StoredIn(disk)
    /\ \A e \in EventsIn(list.data), g \in StoredIn(disk) :
         g < e => g \in EventsIn(list.data)

HasList == ~ torn /\ upc \in {"post", "ack", "drop"}

LEMMA QueueIsSeen == IInv /\ IdleHasNoList => IsSeen
  BY PendingIs, TakenIs DEF IsSeen

LEMMA QueueIsSeenNext == IInv' /\ IdleHasNoList' => IsSeen'
  BY QueueIsSeen, PTL

LEMMA ListIsBeginning ==
    IInv /\ QueueOrder /\ HasList => ListBegins
<1> SUFFICES ASSUME IInv, QueueOrder, HasList PROVE ListBegins
  OBVIOUS
<1>1. /\ StoreIsConsistent(TRUE) /\ FilesInOrder(disk)
      /\ IsFrontList(list, disk, newestBatch, oldestBatch, oldBatches, TRUE)
  BY DEF IInv, Structure, ListIsFront, QueueOrder, HasList
<1> QED
  BY <1>1, ListBeginsStore DEF ListBegins

LEMMA ListIsBeginningNext ==
    IInv' /\ QueueOrder' /\ HasList' => ListBegins'
  BY ListIsBeginning, PTL

LEMMA NullListIsNoList ==
    ASSUME NEW maxCount, NEW maxSize, GetEvents(maxCount, maxSize)
    PROVE  list'.null => list' = NoList
<1>1. \A b, f, x, y : ListOf(b, f, x, y).null => ListOf(b, f, x, y) = NoList
  <2> SUFFICES ASSUME NEW b, NEW f, NEW x, NEW y, ListOf(b, f, x, y).null
               PROVE  ListOf(b, f, x, y) = NoList
    OBVIOUS
  <2>1. CASE ~ b.open \/ b.fileSize = 0 \/ x = 0
    BY <2>1, Zenon DEF ListOf
  <2>2. CASE ~ (~ b.open \/ b.fileSize = 0 \/ x = 0)
    <3>1. PICK l : /\ l = ListOf(b, f, x, y)
                   /\ \E d, n, e : l = [data |-> d, size |-> n, events |-> e,
                                        null |-> FALSE]
      BY <2>2, Zenon DEF ListOf
    <3> QED
      BY <3>1
  <2> QED
    BY <2>1, <2>2
<1>2. \E b, f, x, y : list' = ListOf(b, f, x, y)
  BY Zenon DEF GetEvents
<1> QED
  BY <1>1, <1>2

LEMMA IdleStays == ASSUME IdleHasNoList, [Next]_vars PROVE IdleHasNoList'
<1>1. CASE SendBegin
  <2>1. PICK c, s : GetEvents(c, s)
    BY <1>1, Zenon DEF SendBegin
  <2>2. upc' = IF list'.null THEN "check" ELSE "post"
    BY <1>1 DEF SendBegin
  <2> QED
    BY <2>1, <2>2, NullListIsNoList DEF IdleHasNoList
<1>2. CASE CheckEvents
  <2>1. CASE HasAnyEvents
    <3>1. PICK c, s : GetEvents(c, s)
      BY <1>2, <2>1, Zenon DEF CheckEvents
    <3>2. upc' = IF list'.null THEN "idle" ELSE "drop"
      BY <1>2, <2>1 DEF CheckEvents
    <3> QED
      BY <3>1, <3>2, NullListIsNoList DEF IdleHasNoList
  <2>2. CASE ~ HasAnyEvents
    BY <1>2, <2>2 DEF CheckEvents, IdleHasNoList
  <2> QED
    BY <2>1, <2>2
<1>3. CASE PostSucceeds \/ PostFails \/ SendEnd \/ DropFirst
  BY <1>3 DEF PostSucceeds, PostFails, SendEnd, DropFirst, IdleHasNoList
<1>4. CASE Crash \/ CrashInShift \/ \E n \in Sizes : CrashInAdd(n)
  BY <1>4 DEF Crash, CrashInShift, CrashInAdd, Restart, IdleHasNoList
<1>5. CASE SetFileLimits \/ (\E n \in Sizes : AddEvent(n)) \/ UNCHANGED vars
  BY <1>5 DEF SetFileLimits, AddEvent, uploader, vars, IdleHasNoList
<1> QED
  BY <1>1, <1>2, <1>3, <1>4, <1>5 DEF Next, Upload

LEMMA TornStays == ASSUME torn, torn \in BOOLEAN, [Next]_vars PROVE torn'
<1>1. CASE SendBegin \/ PostFails \/ CheckEvents \/ SendEnd
  BY <1>1 DEF SendBegin, PostFails, CheckEvents, SendEnd, ReportUploaded, history
<1>2. CASE PostSucceeds \/ DropFirst \/ SetFileLimits
  BY <1>2 DEF PostSucceeds, DropFirst, ReportUploaded, SetFileLimits
<1>3. CASE Crash \/ CrashInShift \/ \E n \in Sizes : CrashInAdd(n)
  BY <1>3 DEF Crash, CrashInShift, CrashInAdd
<1>4. CASE (\E n \in Sizes : AddEvent(n)) \/ UNCHANGED vars
  BY <1>4 DEF AddEvent, vars, history
<1> QED
  BY <1>1, <1>2, <1>3, <1>4 DEF Next, Upload

LEMMA AddIsAdd ==
    ASSUME QInv, ~ torn, ~ WriteErrors, NEW n \in Sizes, AddEvent(n),
           IInv', IdleHasNoList'
    PROVE  QueueOrder' /\ Queue!Add
<1>1. /\ added' = added + 1 /\ UNCHANGED <<upc, list, confirmed, dropped, torn, cut>>
  BY DEF AddEvent, uploader
<1>2. PICK id : id = NewestFor(n).id
  OBVIOUS
<1>3. IInv /\ NewestGrows(id)
  BY <1>2, AddEventKeeps DEF QInv
<1>4. FilesInOrder(disk) /\ \A x \in StoredIn(disk) : x <= added
  BY DEF QInv, QueueOrder
<1>5. QueueOrder'
  BY <1>1, <1>3, <1>4, GrowthKeepsOrder DEF QueueOrder
<1>6. \/ StoredIn(disk') = StoredIn(disk) /\ accepted' = accepted
      \/ /\ StoredIn(disk') = StoredIn(disk) \cup {added'}
         /\ accepted' = accepted \cup {added'}
  <2>1. /\ id \in Ids
        /\ \A i \in Ids : i # id => Contents(disk', i) = Contents(disk, i)
    BY <1>3 DEF NewestGrows
  <2>2. CASE Contents(disk', id) = Contents(disk, id) /\ accepted' = accepted
    <3>1. \A i \in Ids : Contents(disk', i) = Contents(disk, i)
      BY <2>1, <2>2
    <3> QED
      BY <2>2, <3>1 DEF StoredIn
  <2>3. CASE /\ GrownBy(Contents(disk', id), Contents(disk, id), added + 1)
             /\ accepted' = accepted \cup {added + 1}
    <3>1. EventsIn(Contents(disk', id)) = EventsIn(Contents(disk, id)) \cup {added'}
      BY <1>1, <2>3, GrownEvents
    <3>2. \A i \in Ids : i # id =>
             EventsIn(Contents(disk', i)) = EventsIn(Contents(disk, i))
      BY <2>1
    <3>3. StoredIn(disk') = StoredIn(disk) \cup {added'}
      BY <2>1, <3>1, <3>2 DEF StoredIn
    <3> QED
      BY <1>1, <2>3, <3>3
  <2> QED
    BY <1>3, <2>2, <2>3 DEF NewestGrows
<1>7. Stored = StoredIn(disk) /\ Stored' = StoredIn(disk')
  BY QueueIsSeen, QueueIsSeenNext DEF QInv, IsSeen
<1>8. Queue!Add
  BY <1>1, <1>6, <1>7 DEF Queue!Add
<1> QED
  BY <1>5, <1>8

LEMMA TakingIsTaking ==
    ASSUME QInv, ~ torn, NEW maxCount \in Nat, NEW maxSize \in Nat,
           GetEvents(maxCount, maxSize), UNCHANGED history,
           upc \in {"idle", "check"},
           upc' \in IF list'.null THEN {"idle", "check"} ELSE {"post", "drop"},
           IInv', IdleHasNoList'
    PROVE  QueueOrder' /\ (Queue!Take \/ UNCHANGED Queue!vars)
<1>1. /\ list'.null \in BOOLEAN
      /\ \A i \in Ids : Keeps(Contents(disk', i), Contents(disk, i))
  BY GetEventsIsConsistent DEF QInv, IInv, Structure
<1>2. UNCHANGED <<added, accepted, confirmed, dropped, torn, cut>>
  BY DEF history
<1>3. /\ FilesInOrder(disk) => FilesInOrder(disk')
      /\ StoredIn(disk') = StoredIn(disk)
  BY <1>1, SameLinesOrder DEF Keeps, SameLines
<1>4. QueueOrder'
  BY <1>2, <1>3 DEF QInv, QueueOrder
<1>5. IsSeen /\ IsSeen'
  BY QueueIsSeen, QueueIsSeenNext DEF QInv
<1>6. /\ Stored' = Stored /\ Stored = StoredIn(disk)
      /\ Elements(EventsOf(list.data)) = {}
      /\ Elements(EventsOf(list'.data)) = EventsIn(list'.data)
      /\ upc' \in {"idle", "check"} => EventsIn(list'.data) = {}
  BY <1>3, <1>5 DEF IsSeen
<1>7. CASE list'.null
  <2>1. /\ UNCHANGED <<added, accepted, Stored, confirmed, dropped, torn, cut>>
        /\ upc' \in {"idle", "check"}
        /\ Elements(EventsOf(list'.data)) = Elements(EventsOf(list.data))
    BY <1>2, <1>6, <1>7
  <2> QED
    BY <1>4, <2>1 DEF Queue!vars
<1>8. CASE ~ list'.null
  <2>1. upc' \in {"post", "drop"}
    BY <1>8
  <2>2. ListBegins'
    BY <1>2, <1>4, <2>1, ListIsBeginningNext DEF HasList
  <2>3. /\ EventsIn(list'.data) \subseteq Stored
        /\ \A e \in EventsIn(list'.data), g \in Stored :
             g < e => g \in EventsIn(list'.data)
    BY <1>3, <1>6, <2>2 DEF ListBegins
  <2>4. Queue!Take
    BY <1>2, <1>6, <2>1, <2>3 DEF Queue!Take, Queue!BeginsQueue
  <2> QED
    BY <1>4, <2>4
<1> QED
  BY <1>1, <1>7, <1>8

LEMMA SendBeginIsTaking ==
    ASSUME QInv, ~ torn, SendBegin, IInv', IdleHasNoList'
    PROVE  QueueOrder' /\ (Queue!Take \/ UNCHANGED Queue!vars)
<1>1. limits.count \in Nat /\ limits.size \in Nat
  BY LimitsAreNumbers DEF QInv, IInv
<1>2. /\ GetEvents(limits.count, limits.size) /\ UNCHANGED history /\ upc = "idle"
      /\ upc' = IF list'.null THEN "check" ELSE "post"
  BY Zenon DEF SendBegin
<1>3. /\ upc \in {"idle", "check"}
      /\ upc' \in IF list'.null THEN {"idle", "check"} ELSE {"post", "drop"}
  BY <1>2
<1> QED
  BY <1>1, <1>2, <1>3, TakingIsTaking

LEMMA CheckEventsIsTaking ==
    ASSUME QInv, ~ torn, CheckEvents, IInv', IdleHasNoList'
    PROVE  QueueOrder' /\ (Queue!Take \/ UNCHANGED Queue!vars)
<1>1. CASE HasAnyEvents
  <2>1. ReadCap \in Nat /\ 1 \in Nat
    BY BufferAssumption
  <2>2. /\ GetEvents(1, ReadCap) /\ UNCHANGED history /\ upc = "check"
        /\ upc' = IF list'.null THEN "idle" ELSE "drop"
    BY <1>1, Zenon DEF CheckEvents
  <2>3. /\ upc \in {"idle", "check"}
        /\ upc' \in IF list'.null THEN {"idle", "check"} ELSE {"post", "drop"}
    BY <2>2
  <2> QED
    BY <2>1, <2>2, <2>3, TakingIsTaking
<1>2. CASE ~ HasAnyEvents
  <2>1. /\ UNCHANGED <<disk, list, added, accepted, confirmed, dropped, torn, cut>>
        /\ upc = "check" /\ upc' = "idle"
    BY <1>2 DEF CheckEvents, history
  <2>2. Stored = StoredIn(disk) /\ Stored' = StoredIn(disk')
    BY QueueIsSeen, QueueIsSeenNext DEF QInv, IsSeen
  <2>3. QueueOrder' /\ Stored' = Stored
    BY <2>1, <2>2 DEF QInv, QueueOrder
  <2> QED
    BY <2>1, <2>3 DEF Queue!vars
<1> QED
  BY <1>1, <1>2

LEMMA PostFailsIsRefusing ==
    ASSUME QInv, PostFails, IInv', IdleHasNoList'
    PROVE  QueueOrder' /\ Queue!Refuse
<1>1. /\ UNCHANGED <<disk, added, accepted, confirmed, dropped, torn, cut>>
      /\ upc = "post" /\ upc' = "idle"
  BY DEF PostFails, history
<1>2. /\ Stored = StoredIn(disk) /\ Stored' = StoredIn(disk')
      /\ Elements(EventsOf(list'.data)) = {}
  BY <1>1, QueueIsSeen, QueueIsSeenNext DEF QInv, IsSeen
<1>3. QueueOrder' /\ Stored' = Stored
  BY <1>1, <1>2 DEF QInv, QueueOrder
<1>4. Queue!Refuse
  BY <1>1, <1>2, <1>3 DEF Queue!Refuse
<1> QED
  BY <1>3, <1>4

LEMMA LimitsAreNotSeen ==
    ASSUME QInv, SetFileLimits \/ UNCHANGED vars, IInv', IdleHasNoList'
    PROVE  QueueOrder' /\ UNCHANGED Queue!vars
<1>1. UNCHANGED <<disk, upc, list, added, accepted, confirmed, dropped, torn, cut>>
  BY DEF SetFileLimits, vars, uploader, history
<1>2. Stored = StoredIn(disk) /\ Stored' = StoredIn(disk')
  BY QueueIsSeen, QueueIsSeenNext DEF QInv, IsSeen
<1>3. QueueOrder' /\ Stored' = Stored
  BY <1>1, <1>2 DEF QInv, QueueOrder
<1> QED
  BY <1>1, <1>3 DEF Queue!vars

LEMMA SameCardinality ==
    ASSUME NEW S PROVE Queue!Cardinality(S) = Cardinality(S)
  BY DEF Queue!Cardinality, Cardinality

\* The list of a file in order is a list of its events, each of them once.
LEMMA SentIsSorted ==
    ASSUME NEW f \in File, LinesInOrder(f)
    PROVE  EventsOf(f) \in Queue!Sorted(EventsIn(f))
<1> DEFINE q == EventsOf(f)
           n == Cardinality(Newlines(f))
           S == EventsIn(f)
<1>1. n \in Nat /\ DOMAIN q = 1..n /\ Elements(q) = S
  BY NewlinesAreFinite, EventsAreLines, FS_CardinalityType
<1>2. q \in Seq(0..MaxEvents) /\ Increases(q)
  BY EventsOfInOrder
<1>3. q = [i \in 1..n |-> q[i]]
  BY DEF EventsOf
<1> HIDE DEF q, n, S
<1>4. \A i \in 1..n : q[i] \in S /\ q[i] \in Nat
  <2>1. \A i \in 1..n : q[i] \in S
    BY <1>1 DEF Elements
  <2>2. S \subseteq 0..MaxEvents
    BY LinesAreNumbers DEF S
  <2>3. S \subseteq Nat
    BY <2>2
  <2> QED
    BY <2>1, <2>3
<1>5. q \in [1..n -> S]
  BY <1>3, <1>4
<1>6. \A i, j \in 1..n : i # j => q[i] # q[j]
  <2> SUFFICES ASSUME NEW i \in 1..n, NEW j \in 1..n, i < j PROVE q[i] # q[j]
    BY <1>1
  <2>1. q[i] < q[j]
    BY <1>1, <1>2 DEF Increases
  <2> QED
    BY <1>4, <2>1
<1>7. q \in Surjection(1..n, S) /\ q \in Injection(1..n, S)
  <2>1. \A y \in S : \E i \in 1..n : q[i] = y
    BY <1>1 DEF Elements
  <2> QED
    BY <1>5, <1>6, <2>1 DEF Surjection, Injection, IsInjective
<1>8. Cardinality(S) = n
  <2>1. IsFiniteSet(1..n) /\ Cardinality(1..n) = n
    BY <1>1, FS_Interval
  <2> QED
    BY <1>7, <2>1, FS_Surjection
<1> QED
  BY <1>1, <1>2, <1>5, <1>8, SameCardinality DEF Queue!Sorted, Increases, q, S

LEMMA PostSucceedsIsConfirming ==
    ASSUME QInv, ~ torn, PostSucceeds, IInv', IdleHasNoList'
    PROVE  QueueOrder' /\ Queue!Confirm
<1> DEFINE q == EventsOf(list.data)
<1>1. /\ UNCHANGED <<disk, list, added, accepted, dropped, torn, cut>>
      /\ upc = "post" /\ upc' = "ack"
      /\ confirmed' = confirmed \o q
  BY DEF PostSucceeds
<1>2. /\ StoreIsConsistent(TRUE) /\ FilesInOrder(disk)
      /\ IsFrontList(list, disk, newestBatch, oldestBatch, oldBatches, TRUE)
  BY <1>1 DEF QInv, IInv, Structure, ListIsFront, QueueOrder
<1>3. list.data \in File /\ LinesInOrder(list.data)
  <2>1. /\ disk[Front.id] \in File /\ Front.id \in Ids
        /\ Contents(disk, Front.id) = disk[Front.id]
    BY <1>2, FrontIsFile
  <2>2. LinesInOrder(disk[Front.id]) /\ IsListOf(list, disk[Front.id])
    BY <1>2, <2>1 DEF FilesInOrder, IsFrontList, Front
  <2> QED
    BY <2>1, <2>2, ListIsFirst
<1>4. /\ Stored = StoredIn(disk) /\ Stored' = StoredIn(disk')
      /\ Elements(q) = EventsIn(list.data)
  BY QueueIsSeen, QueueIsSeenNext DEF QInv, IsSeen
<1>5. q \in Queue!Sorted(Elements(q))
  BY <1>3, <1>4, SentIsSorted
<1>6. QueueOrder' /\ Stored' = Stored
  BY <1>1, <1>4 DEF QInv, QueueOrder
<1>7. Queue!Confirm
  BY <1>1, <1>5, <1>6 DEF Queue!Confirm
<1> QED
  BY <1>6, <1>7

LEMMA UploadedIsRemoved ==
    ASSUME QInv, ~ torn, upc \in {"ack", "drop"}, OnEventsUploaded,
           upc' = "idle", UNCHANGED <<added, accepted, confirmed, torn, cut>>,
           dropped' = dropped \cup DroppedWith(upc, list),
           IInv', IdleHasNoList'
    PROVE  QueueOrder' /\ Queue!Remove
<1> DEFINE f == disk[Front.id]
           X == EventsIn(list.data)
           Y == LinesAfter(f, list.size)
<1>1. /\ StoreIsConsistent(TRUE) /\ FilesInOrder(disk)
      /\ \A x \in StoredIn(disk) : x <= added
      /\ IsFrontList(list, disk, newestBatch, oldestBatch, oldBatches, TRUE)
  BY DEF QInv, IInv, Structure, ListIsFront, QueueOrder
<1>2. /\ X \subseteq 0..MaxEvents /\ EventsIn(f) = X \cup Y /\ Before(X, Y)
      /\ \A i \in Ids : i # Front.id => Before(X, EventsIn(Contents(disk, i)))
  BY <1>1, ListComesFirst
<1>3. /\ Front.id \in Ids /\ f \in File /\ Contents(disk, Front.id) = f
      /\ list.size \in 0..Len(f)
  BY <1>1, FrontIsFile, UploadedIsConsistent
<1>4. /\ \A i \in Ids : i # Front.id => Contents(disk', i) = Contents(disk, i)
      /\ WhatIsLeft(Contents(disk', Front.id), f, list.size)
  BY <1>1, UploadedIsConsistent, AllButTheListIsLeft
<1> HIDE DEF f
<1>5. /\ EventsIn(Contents(disk', Front.id)) = Y
      /\ LinesInOrder(f) => LinesInOrder(Contents(disk', Front.id))
  BY <1>3, <1>4, RestInOrder
<1> HIDE DEF X, Y
<1>6. StoredIn(disk') = StoredIn(disk) \ X
  <2>1. \A x \in X : x \in Nat /\ ~ (x < x)
    BY <1>2
  <2>2. ASSUME NEW i \in Ids
        PROVE  EventsIn(Contents(disk', i)) = EventsIn(Contents(disk, i)) \ X
    <3>1. CASE i = Front.id
      <4>1. \A x \in Y : x \notin X
        BY <1>2, <2>1 DEF Before
      <4> QED
        BY <1>2, <1>3, <1>5, <3>1, <4>1
    <3>2. CASE i # Front.id
      <4>1. \A x \in EventsIn(Contents(disk, i)) : x \notin X
        BY <1>2, <2>1, <3>2 DEF Before
      <4> QED
        BY <1>4, <3>2, <4>1
    <3> QED
      BY <3>1, <3>2
  <2> QED
    BY <2>2 DEF StoredIn
<1>7. \A i \in Ids :
         EventsIn(Contents(disk', i)) \subseteq EventsIn(Contents(disk, i))
  BY <1>2, <1>3, <1>4, <1>5
<1>8. FilesInOrder(disk')
  <2>1. \A i \in Ids : LinesInOrder(Contents(disk', i))
    BY <1>1, <1>3, <1>4, <1>5 DEF FilesInOrder
  <2>2. \A i, j \in Ids :
          i < j => Before(EventsIn(Contents(disk', i)),
                          EventsIn(Contents(disk', j)))
    BY <1>1, <1>7, BeforeSome DEF FilesInOrder
  <2> QED
    BY <2>1, <2>2 DEF FilesInOrder
<1>9. QueueOrder'
  BY <1>1, <1>6, <1>8 DEF QueueOrder
<1>10. /\ Stored = StoredIn(disk) /\ Stored' = StoredIn(disk')
       /\ Elements(EventsOf(list.data)) = X /\ Elements(EventsOf(list'.data)) = {}
  BY QueueIsSeen, QueueIsSeenNext DEF QInv, IsSeen, X
<1>11. dropped' = IF upc = "drop" THEN dropped \cup X ELSE dropped
  BY <1>10 DEF DroppedWith
<1>12. Queue!Remove
  BY <1>6, <1>10, <1>11 DEF Queue!Remove
<1> QED
  BY <1>9, <1>12

\* A crash that leaves every line where it is.
LEMMA RestartIsCrash ==
    ASSUME QInv, ~ torn, NEW d \in Disk, Restart(d),
           \A i \in Ids : SameLines(Contents(d, i), Contents(disk, i)),
           added' \in {added, added + 1}, UNCHANGED <<dropped, torn, cut>>,
           IInv', IdleHasNoList'
    PROVE  QueueOrder' /\ Queue!Crash
<1>1. /\ Started(d) /\ upc' = "idle" /\ UNCHANGED <<accepted, confirmed>>
  BY DEF Restart
<1>2. \A i \in Ids : Keeps(Contents(disk', i), Contents(d, i))
  BY <1>1, StartIsStructured
<1>3. \A i \in Ids : SameLines(Contents(disk', i), Contents(disk, i))
  BY <1>2 DEF Keeps, SameLines
<1>4. FilesInOrder(disk') /\ StoredIn(disk') = StoredIn(disk)
  BY <1>3, SameLinesOrder DEF QInv, QueueOrder
<1>5. \A x \in StoredIn(disk) : x <= added'
  <2>1. disk \in Disk /\ added \in Nat /\ MaxEvents \in Nat
    <3>1. disk \in Disk
      BY FilesAreFiles DEF QInv, IInv, Structure, StoreIsConsistent
    <3>2. added \in 0..MaxEvents
      BY DEF QInv, IInv, HistoryOK
    <3> QED
      BY <3>1, <3>2, StoreAssumption
  <2>2. StoredIn(disk) \subseteq 0..MaxEvents
    BY <2>1, ContentsAreFiles, LinesAreNumbers DEF StoredIn
  <2>3. \A x \in StoredIn(disk) : x \in Nat /\ x <= added
    BY <2>1, <2>2 DEF QInv, QueueOrder
  <2> QED
    BY <2>1, <2>3
<1>6. QueueOrder'
  BY <1>4, <1>5 DEF QueueOrder
<1>7. /\ Stored = StoredIn(disk) /\ Stored' = StoredIn(disk')
      /\ Elements(EventsOf(list'.data)) = {}
  BY <1>1, QueueIsSeen, QueueIsSeenNext DEF QInv, IsSeen
<1>8. Queue!Crash
  BY <1>1, <1>4, <1>7 DEF Queue!Crash
<1> QED
  BY <1>6, <1>8

LEMMA CrashIsCrash ==
    ASSUME QInv, ~ torn, Crash, IInv', IdleHasNoList'
    PROVE  QueueOrder' /\ Queue!Crash
<1>1. Restart(disk) /\ UNCHANGED <<added, dropped, torn, cut>>
  BY DEF Crash
<1>2. disk \in Disk
  BY FilesAreFiles DEF QInv, IInv, Structure, StoreIsConsistent
<1>3. \A i \in Ids : SameLines(Contents(disk, i), Contents(disk, i))
  BY DEF SameLines
<1> QED
  BY <1>1, <1>2, <1>3, RestartIsCrash

LEMMA CrashInAddIsCrash ==
    ASSUME QInv, ~ torn, NEW n \in Sizes, CrashInAdd(n), IInv', IdleHasNoList'
    PROVE  QueueOrder' /\ Queue!Crash
<1>1. /\ added' = added + 1 /\ UNCHANGED <<dropped, torn, cut>>
      /\ \E d : InterruptedAt(d)
  BY CrashInAddLeavesLines DEF QInv
<1>2. PICK d : InterruptedAt(d)
  BY <1>1
<1> QED
  BY <1>1, <1>2, RestartIsCrash DEF InterruptedAt

LEMMA QueueInit == Init => QInv /\ Queue!Init
<1> SUFFICES ASSUME Init PROVE QInv /\ Queue!Init
  OBVIOUS
<1>1. IInv
  BY InitIsGood
<1>2. /\ disk = [i \in Ids |-> IF i = 0 THEN <<>> ELSE NoFile]
      /\ upc = "idle" /\ list = NoList /\ added = 0 /\ accepted = {}
      /\ confirmed = <<>> /\ dropped = {} /\ torn = FALSE /\ crashes = 0
  BY DEF Init
<1>3. IdleHasNoList
  BY <1>2 DEF IdleHasNoList
<1>4. \A i \in Ids : Contents(disk, i) = <<>>
  BY <1>2 DEF Contents
<1>5. StoredIn(disk) = {}
  BY <1>4, EmptyFile DEF StoredIn
<1>6. QueueOrder
  BY <1>1, <1>2, <1>5 DEF QueueOrder, IInv, UploadOrder
<1>7. Stored = {} /\ Elements(EventsOf(list.data)) = {}
  BY <1>1, <1>2, <1>3, <1>5, QueueIsSeen DEF IsSeen
<1>8. Queue!Init
  BY <1>2, <1>7 DEF Queue!Init
<1> QED
  BY <1>1, <1>3, <1>6, <1>8 DEF QInv

LEMMA QueueStep ==
    ASSUME QInv, [Next]_vars, ~ WriteErrors
    PROVE  QInv' /\ [Queue!Next]_(Queue!vars)
<1>1. IInv' /\ IdleHasNoList'
  BY StepIsGood, IdleStays DEF QInv
<1> SUFFICES QueueOrder' /\ (Queue!Next \/ UNCHANGED Queue!vars)
  BY <1>1 DEF QInv
<1>2. CASE torn'
  BY <1>2 DEF QueueOrder, Queue!Next, Queue!Tear
<1>3. CASE ~ torn'
  <2>1. ~ torn
    BY <1>3, TornStays DEF QInv, IInv, HistoryOK
  <2>2. ASSUME NEW n \in Sizes, AddEvent(n)
        PROVE  QueueOrder' /\ Queue!Next
    BY <1>1, <2>1, <2>2, AddIsAdd DEF Queue!Next
  <2>3. ASSUME NEW n \in Sizes, CrashInAdd(n)
        PROVE  QueueOrder' /\ Queue!Next
    BY <1>1, <2>1, <2>3, CrashInAddIsCrash DEF Queue!Next
  <2>4. CASE SendBegin
    BY <1>1, <2>1, <2>4, SendBeginIsTaking DEF Queue!Next
  <2>5. CASE CheckEvents
    BY <1>1, <2>1, <2>5, CheckEventsIsTaking DEF Queue!Next
  <2>6. CASE PostSucceeds
    BY <1>1, <2>1, <2>6, PostSucceedsIsConfirming DEF Queue!Next
  <2>7. CASE PostFails
    BY <1>1, <2>7, PostFailsIsRefusing DEF Queue!Next
  <2>8. CASE SendEnd
    <3>1. /\ upc = "ack" /\ OnEventsUploaded /\ upc' = "idle"
          /\ UNCHANGED <<added, accepted, confirmed, torn, cut, dropped>>
      BY <1>3, <2>8 DEF SendEnd, ReportUploaded, CopyFails
    <3>2. dropped' = dropped \cup DroppedWith(upc, list)
      BY <3>1 DEF DroppedWith
    <3> QED
      BY <1>1, <2>1, <3>1, <3>2, UploadedIsRemoved DEF Queue!Next
  <2>9. CASE DropFirst
    <3>1. /\ upc = "drop" /\ OnEventsUploaded /\ upc' = "idle"
          /\ UNCHANGED <<added, accepted, confirmed, torn, cut>>
          /\ dropped' = dropped \cup DroppedWith(upc, list)
      BY <1>3, <2>9 DEF DropFirst, ReportUploaded, CopyFails
    <3> QED
      BY <1>1, <2>1, <3>1, UploadedIsRemoved DEF Queue!Next
  <2>10. CASE SetFileLimits \/ UNCHANGED vars
    BY <1>1, <2>10, LimitsAreNotSeen
  <2>11. CASE Crash
    BY <1>1, <2>1, <2>11, CrashIsCrash DEF Queue!Next
  <2>12. ~ CrashInShift
    BY <1>3 DEF CrashInShift
  <2> QED
    BY <2>2, <2>3, <2>4, <2>5, <2>6, <2>7, <2>8, <2>9, <2>10, <2>11, <2>12
       DEF Next, Upload
<1> QED
  BY <1>2, <1>3

-----------------------------------------------------------------------------
(* Write errors.  A write that has failed leaves an offset behind the end  *)
(* of the file, so that what a batch knows of its file is not exact any    *)
(* more, and events written from then on may be lost.  As long as all that *)
(* was added has been accepted, IInv holds; from the first event that was  *)
(* not, what was stored before stays within the sizes that the batches     *)
(* believe in (IsPlaced), which no later write reaches.                    *)

Early == {e \in accepted : 1..e - 1 \subseteq accepted}

\* The event e is the line of file i that ends at j.
IsAt(e, i, j, d) ==
    j \in Newlines(Contents(d, i)) /\ LineAt(Contents(d, i), j) = e

WithinSize(i, j, newest, oldest) ==
    /\ i = newest.id => j <= newest.fileSize
    /\ oldest # NoBatch /\ i = oldest.id => j <= oldest.fileSize

IsPlaced(e, d, newest, oldest) ==
    \E i \in Ids, j \in Nat :
        IsAt(e, i, j, d) /\ WithinSize(i, j, newest, oldest)

IsUploaded(e) == e \in Elements(confirmed) \cup dropped
IsKept(e) == IsUploaded(e) \/ IsPlaced(e, disk, newestBatch, oldestBatch)

EarlyAreKept == ~ torn => \A e \in Early : IsKept(e)

LooseInv == Structure(FALSE) /\ HistoryOK /\ EarlyAreKept
FaultInv == LooseInv /\ (~ torn /\ accepted = 1..added => IInv)

\* What is exact is also true.
LEMMA LessIsKnown == ASSUME Structure(TRUE) PROVE Structure(FALSE)
<1>1. \A b, f : Knows(b, f, TRUE) => Knows(b, f, FALSE)
  BY DEF Knows
<1>2. StoreIsConsistent(FALSE)
  <2>1. /\ FilesBelow(disk, newestBatch)
        /\ BatchesKnow(disk, newestBatch, oldestBatch, TRUE)
        /\ BatchesInOrder(disk, newestBatch, oldestBatch, oldBatches)
        /\ FilesAreKnown(disk, newestBatch, oldestBatch, oldBatches)
    BY DEF Structure, StoreIsConsistent, Consistent
  <2>2. BatchesKnow(disk, newestBatch, oldestBatch, FALSE)
    BY <1>1, <2>1 DEF BatchesKnow
  <2> QED
    BY <2>1, <2>2 DEF StoreIsConsistent, Consistent
<1>3. ListIsFront(FALSE)
  BY DEF Structure, ListIsFront, IsFrontList
<1> QED
  BY <1>2, <1>3 DEF Structure

\* Where a batch knows its file exactly, every line of it is within its size.
LEMMA FoundIsPlaced ==
    ASSUME NEW d, NEW newest, NEW oldest, NEW old,
           Consistent(d, newest, oldest, old, TRUE),
           NEW e, NEW i \in Ids, NEW j, IsAt(e, i, j, d)
    PROVE  IsPlaced(e, d, newest, oldest)
<1>1. /\ d \in Disk
      /\ Knows(newest, d[newest.id], TRUE)
      /\ oldest # NoBatch => Knows(oldest, d[oldest.id], TRUE)
  BY DEF Consistent, FilesBelow, BatchesKnow
<1>2. Contents(d, i) \in File
  BY <1>1, ContentsAreFiles
<1>3. j \in Nat /\ j <= Len(Contents(d, i))
  BY <1>2, NewlinesAreFinite DEF IsAt
<1>4. \A b : Knows(b, d[b.id], TRUE) /\ i = b.id =>
                b.fileSize = Len(Contents(d, i))
  <2> SUFFICES ASSUME NEW b, Knows(b, d[b.id], TRUE), i = b.id
               PROVE  b.fileSize = Len(Contents(d, i))
    OBVIOUS
  <2>1. KnowsExactly(b, d[i])
    BY ExactlyKnown
  <2>2. d[i] \in File /\ b.fileSize = Len(d[i])
    BY <2>1 DEF KnowsExactly
  <2> QED
    BY <1>1, <2>2, ContentsAreFiles
<1>5. WithinSize(i, j, newest, oldest)
  BY <1>1, <1>3, <1>4 DEF WithinSize
<1> QED
  BY <1>3, <1>5 DEF IsPlaced

LEMMA SoundIsLoose == ASSUME IInv PROVE LooseInv
<1>1. /\ Structure(TRUE) /\ Structure(FALSE) /\ HistoryOK
      /\ Consistent(disk, newestBatch, oldestBatch, oldBatches, TRUE)
  BY LessIsKnown DEF IInv, Structure, StoreIsConsistent
<1>2. disk \in Disk
  BY <1>1 DEF Consistent, FilesBelow
<1>3. ASSUME ~ torn, NEW e \in accepted, ~ IsUploaded(e)
      PROVE  IsPlaced(e, disk, newestBatch, oldestBatch)
  <2>1. e \in StoredIn(disk)
    BY <1>1, <1>3 DEF IInv, AcceptedIsKept, IsUploaded, HistoryOK
  <2>2. PICK i \in Ids : e \in EventsIn(Contents(disk, i))
    BY <2>1 DEF StoredIn
  <2>3. PICK j \in Newlines(Contents(disk, i)) : LineAt(Contents(disk, i), j) = e
    BY <2>2 DEF EventsIn
  <2>5. IsAt(e, i, j, disk)
    BY <2>3 DEF IsAt
  <2> QED
    BY <1>1, <2>5, FoundIsPlaced
<1>4. EarlyAreKept
  BY <1>3 DEF EarlyAreKept, IsKept, Early
<1> QED
  BY <1>1, <1>4 DEF LooseInv

LEMMA EarlyStay ==
    ASSUME EarlyAreKept, torn' \/ Early' \subseteq Early, torn => torn',
           \A e \in Early : IsUploaded(e) => IsUploaded(e)',
           ~ torn' =>
              \A e \in Early :
                IsPlaced(e, disk, newestBatch, oldestBatch) => IsKept(e)'
    PROVE  EarlyAreKept'
<1> SUFFICES ASSUME ~ torn', NEW e \in Early' PROVE IsKept(e)'
  BY DEF EarlyAreKept
<1>1. e \in Early /\ ~ torn
  OBVIOUS
<1>2. IsUploaded(e) \/ IsPlaced(e, disk, newestBatch, oldestBatch)
  BY <1>1 DEF EarlyAreKept, IsKept
<1> QED
  BY <1>1, <1>2 DEF IsKept

\* The list that the uploader works on.
LEMMA ListIsGood ==
    ASSUME Structure(FALSE), upc \in {"post", "ack", "drop"}
    PROVE  /\ Front.id \in Ids /\ disk[Front.id] \in File
           /\ Contents(disk, Front.id) = disk[Front.id]
           /\ IsFrontList(list, disk, newestBatch, oldestBatch, oldBatches, FALSE)
           /\ IsListOf(list, disk[Front.id]) /\ list.size <= Front.fileSize
           /\ list.data \in File
           /\ Elements(EventsOf(list.data)) = EventsIn(list.data)
           /\ EventsIn(list.data) \subseteq 0..MaxEvents
           /\ EventsOf(list.data) \in Seq(0..MaxEvents)
<1>1. /\ StoreIsConsistent(FALSE)
      /\ IsFrontList(list, disk, newestBatch, oldestBatch, oldBatches, FALSE)
  BY DEF Structure, ListIsFront
<1>2. /\ Front.id \in Ids /\ disk[Front.id] \in File
      /\ Contents(disk, Front.id) = disk[Front.id]
  BY <1>1, FrontIsFile
<1>3. IsListOf(list, disk[Front.id]) /\ list.size <= Front.fileSize
  BY <1>1 DEF IsFrontList, Front
<1>4. list.data \in File
  BY <1>2, <1>3, ListIsFirst
<1>5. /\ Elements(EventsOf(list.data)) = EventsIn(list.data)
      /\ EventsIn(list.data) \subseteq 0..MaxEvents
      /\ EventsOf(list.data) \in Seq(0..MaxEvents)
  BY <1>4, EventsAreLines, LinesAreNumbers, EventsOfInOrder
<1> QED
  BY <1>1, <1>2, <1>3, <1>4, <1>5

LEMMA DroppedAreEvents ==
    ASSUME Structure(FALSE), HistoryOK, upc \in {"ack", "drop"},
           dropped' = dropped \cup DroppedWith(upc, list)
    PROVE  /\ dropped \subseteq dropped' /\ dropped' \subseteq 0..MaxEvents
           /\ EventsIn(list.data) \subseteq Elements(confirmed) \cup dropped'
<1>1. /\ Elements(EventsOf(list.data)) = EventsIn(list.data)
      /\ EventsIn(list.data) \subseteq 0..MaxEvents
  BY ListIsGood
<1> QED
  BY <1>1 DEF DroppedWith, HistoryOK

\* What had a place in disk has one in the directory d, or is in X.
PlacesAreIn(d, X) ==
    \A e \in Early :
        IsPlaced(e, disk, newestBatch, oldestBatch) =>
            e \in X \/ \E i \in Ids, j \in Nat : IsAt(e, i, j, d)

\* A crash leaves the directory d, which holds all that had a place in disk.
LEMMA RestartIsLoose ==
    ASSUME LooseInv, NEW d \in Disk, Restart(d), added' \in added..MaxEvents,
           torn' \in BOOLEAN, torn => torn', torn' \/ cut' = {},
           cut' \subseteq 0..MaxEvents,
           dropped \subseteq dropped', dropped' \subseteq 0..MaxEvents,
           ~ torn' => PlacesAreIn(d, Elements(confirmed) \cup dropped')
    PROVE  LooseInv'
<1>1. /\ crashes' = crashes + 1 /\ Started(d) /\ upc' = "idle"
      /\ UNCHANGED <<limits, accepted, confirmed>>
  BY DEF Restart
<1>2. Structure(TRUE)' /\ \A i \in Ids : Keeps(Contents(disk', i), Contents(d, i))
  BY <1>1, StartIsStructured
<1>3. Structure(FALSE)'
  BY <1>2, LessIsKnown, PTL
<1>4. HistoryOK'
  <2>1. added \in Nat /\ MaxEvents \in Nat /\ crashes \in Nat
    BY StoreAssumption DEF LooseInv, HistoryOK
  <2>2. /\ added' \in 0..MaxEvents /\ 1..added \subseteq 1..added'
        /\ crashes' \in Nat
    BY <1>1, <2>1
  <2> QED
    BY <1>1, <2>2 DEF LooseInv, HistoryOK
<1>5. ASSUME NEW e, NEW i \in Ids, NEW j \in Nat, IsAt(e, i, j, d)
      PROVE  IsPlaced(e, disk, newestBatch, oldestBatch)'
  <2>1. IsAt(e, i, j, disk')
    BY <1>2, <1>5 DEF IsAt, Keeps
  <2>2. Consistent(disk', newestBatch', oldestBatch', oldBatches', TRUE)
    BY <1>2 DEF Structure, StoreIsConsistent
  <2> QED
    BY <2>1, <2>2, FoundIsPlaced
<1>6. EarlyAreKept'
  <2>1. Early' = Early
    BY <1>1 DEF Early
  <2>2. \A e \in Early : IsUploaded(e) => IsUploaded(e)'
    BY <1>1 DEF IsUploaded
  <2>3. ASSUME ~ torn', NEW e \in Early,
               IsPlaced(e, disk, newestBatch, oldestBatch)
        PROVE  IsKept(e)'
    <3>1. CASE e \in Elements(confirmed) \cup dropped'
      BY <1>1, <3>1 DEF IsKept, IsUploaded
    <3>2. CASE \E i \in Ids, j \in Nat : IsAt(e, i, j, d)
      BY <1>5, <3>2 DEF IsKept
    <3> QED
      BY <2>3, <3>1, <3>2 DEF PlacesAreIn
  <2> QED
    BY <2>1, <2>2, <2>3, EarlyStay DEF LooseInv
<1> QED
  BY <1>3, <1>4, <1>6 DEF LooseInv

\* A write at any offset leaves what is before it, and may leave a gap.
LEMMA WriteAnywhere ==
    ASSUME NEW f \in File, NEW data \in File, NEW pos \in Nat,
           NEW g, g = WriteAt(f, pos, data)
    PROVE  /\ g \in File /\ Len(g) \in Nat
           /\ Len(f) <= Len(g) /\ pos + Len(data) <= Len(g)
           /\ \A i \in 1..Len(f) : i <= pos => g[i] = f[i]
<1> DEFINE m == pos + Len(data)
           l == IF Len(f) >= m THEN Len(f) ELSE m
           w(i) == IF i \in pos + 1..m THEN data[i - pos]
                   ELSE IF i <= Len(f) THEN f[i] ELSE Hole
<1>1. f \in Seq(Unit) /\ data \in Seq(Unit) /\ Len(f) \in Nat /\ Len(data) \in Nat
  BY DEF File
<1>2. m \in Nat /\ l \in Nat /\ Len(f) <= l /\ m <= l
  BY <1>1
<1>3. Max({Len(f), m}) = l
  <2> HIDE DEF m
  <2> QED
    BY <1>1, <1>2, GreaterOfTwo
<1>4. g = [i \in 1..l |-> w(i)]
  <2> HIDE DEF l
  <2> QED
    BY <1>3, Zenon DEF WriteAt, m
<1>5. \A i \in 1..l : w(i) \in Unit
  <2> TAKE i \in 1..l
  <2>1. CASE i \in pos + 1..m
    <3>1. i - pos \in 1..Len(data)
      BY <1>1, <2>1
    <3> QED
      BY <1>1, <2>1, <3>1
  <2>2. CASE i \notin pos + 1..m /\ i <= Len(f)
    BY <1>1, <2>2
  <2>3. CASE i \notin pos + 1..m /\ ~ (i <= Len(f))
    BY <2>3 DEF Unit
  <2> QED
    BY <2>1, <2>2, <2>3
<1>6. \A i \in 1..Len(f) : i <= pos => w(i) = f[i]
  BY <1>1, <1>2
<1>7. 1..Len(f) \subseteq 1..l
  BY <1>1, <1>2
<1> HIDE DEF m, l, w
<1>8. g \in Seq(Unit) /\ Len(g) = l
  BY <1>2, <1>4, <1>5, SeqDef
<1>9. \A i \in 1..Len(f) : g[i] = w(i)
  BY <1>4, <1>7
<1> QED
  BY <1>2, <1>6, <1>8, <1>9 DEF File, m

\* seekToEndAndGetFileSize() is called unless the offset is known, which is
\* then not before fileSize.
LEMMA EndIsSought ==
    ASSUME NEW b \in Batch, NEW f, Knows(b, f, FALSE),
           NEW s, s = SeekToEnd(b, f)
    PROVE  /\ s \in Batch /\ s.id = b.id /\ s.finalized = b.finalized /\ s.open
           /\ s.streamAtEnd
           /\ f \in File /\ Len(f) \in Nat
           /\ b.fileSize <= s.fileSize /\ s.fileSize <= Len(f)
           /\ s.fileSize <= s.pos
           /\ s.fileSize \in Nat /\ s.pos \in Nat /\ b.fileSize \in Nat
<1>1. f \in File /\ Len(f) \in Nat /\ b.open /\ b.fileSize <= Len(f)
      /\ b.fileSize \in Nat
  BY DEF Knows, File, Batch
<1>2. CASE b.streamAtEnd
  BY <1>1, <1>2 DEF SeekToEnd, Knows, Batch
<1>3. CASE ~ b.streamAtEnd
  <2> DEFINE n == Len(f)
  <2>1. s = [b EXCEPT !.streamAtEnd = TRUE, !.pos = n, !.fileSize = n]
    BY <1>3, Zenon DEF SeekToEnd
  <2>2. n \in Nat
    BY <1>1
  <2> HIDE DEF n
  <2>3. s \in Batch /\ s.id = b.id /\ s.finalized = b.finalized
        /\ s.open = b.open /\ s.fileSize = n /\ s.pos = n /\ s.streamAtEnd
    BY <2>1, <2>2, Zenon DEF Batch
  <2> QED
    BY <1>1, <2>2, <2>3 DEF n
<1> QED
  BY <1>2, <1>3

\* The object c and its file g come from b and f, and what is within the size
\* that b believed in is as it was.
Follows(c, g, b, f) ==
    /\ c \in Batch /\ c.id = b.id /\ c.finalized = b.finalized
    /\ g \in File /\ Knows(c, g, FALSE)
    /\ Agree(g, f, b.fileSize) /\ b.fileSize <= c.fileSize

LEMMA KnownFollows ==
    ASSUME NEW b \in Batch, NEW f, Knows(b, f, FALSE)
    PROVE  Follows(b, f, b, f)
<1>1. f \in File /\ Len(f) \in Nat /\ b.fileSize \in Nat /\ b.fileSize <= Len(f)
  BY DEF Knows, File, Batch
<1>2. Agree(f, f, b.fileSize) /\ b.fileSize <= b.fileSize
  BY <1>1 DEF Agree
<1> QED
  BY <1>1, <1>2, Zenon DEF Follows

\* Whatever a write to the file leaves, with the new size and offset.
LEMMA WriteFollows ==
    ASSUME NEW b \in Batch, NEW f, Knows(b, f, FALSE),
           NEW s, s = SeekToEnd(b, f),
           NEW g \in File, Agree(g, f, s.fileSize),
           NEW c \in Batch, c.id = b.id, c.finalized = b.finalized, c.open,
           s.fileSize <= c.fileSize, c.fileSize <= Len(g), c.fileSize <= c.pos
    PROVE  Follows(c, g, b, f)
<1>1. /\ f \in File /\ Len(f) \in Nat
      /\ b.fileSize <= s.fileSize /\ s.fileSize \in Nat /\ b.fileSize \in Nat
      /\ c.fileSize \in Nat /\ c.pos \in Nat
  BY EndIsSought DEF Batch
<1>2. Agree(g, f, b.fileSize)
  BY <1>1, SmallerAgree
<1>3. b.fileSize <= c.fileSize
  BY <1>1
<1>4. Knows(c, g, FALSE)
  BY DEF Knows
<1> QED
  BY <1>2, <1>3, <1>4 DEF Follows

LEMMA LineFollows ==
    ASSUME NEW b \in Batch, NEW f, Knows(b, f, FALSE),
           NEW e \in 1..MaxEvents, NEW n \in Nat \ {0},
           NEW w, IsWritten(w, b, f, e, n)
    PROVE  Follows(w.batch, w.file, b, f)
<1> DEFINE s == SeekToEnd(b, f)
           d == Line(e, n)
<1>1. d \in File /\ Len(d) = n
  BY LineIsFile
<1>2. /\ s \in Batch /\ s.id = b.id /\ s.finalized = b.finalized /\ s.open
      /\ f \in File /\ Len(f) \in Nat
      /\ s.fileSize <= Len(f) /\ s.fileSize <= s.pos
      /\ s.fileSize \in Nat /\ s.pos \in Nat
  BY EndIsSought
<1> HIDE DEF s, d
<1>3. /\ w.batch = [s EXCEPT !.fileSize = @ + n, !.eventCount = @ + 1,
                             !.pos = @ + n]
      /\ w.file = WriteAt(f, s.pos, d)
  BY <1>1 DEF IsWritten, Written, s, d
<1>4. /\ w.file \in File /\ Len(w.file) \in Nat
      /\ Len(f) <= Len(w.file) /\ s.pos + Len(d) <= Len(w.file)
      /\ \A i \in 1..Len(f) : i <= s.pos => w.file[i] = f[i]
  <2>1. PICK p : p = s.pos
    OBVIOUS
  <2>2. PICK g : g = w.file
    OBVIOUS
  <2>3. p \in Nat /\ f \in File /\ d \in File
    BY <1>1, <1>2, <2>1
  <2>4. g = WriteAt(f, p, d)
    BY <1>3, <2>1, <2>2
  <2>5. /\ g \in File /\ Len(g) \in Nat
        /\ Len(f) <= Len(g) /\ p + Len(d) <= Len(g)
        /\ \A i \in 1..Len(f) : i <= p => g[i] = f[i]
    BY <2>3, <2>4, WriteAnywhere
  <2> QED
    BY <2>1, <2>2, <2>5
<1>5. /\ w.batch \in Batch /\ w.batch.id = b.id
      /\ w.batch.finalized = b.finalized /\ w.batch.open
      /\ w.batch.fileSize = s.fileSize + n /\ w.batch.pos = s.pos + n
  <2>1. s.fileSize + n \in Nat /\ s.eventCount + 1 \in Int /\ s.pos + n \in Nat
    BY <1>2 DEF Batch
  <2> QED
    BY <1>2, <1>3, <2>1 DEF Batch
<1>6. Agree(w.file, f, s.fileSize)
  <2>1. s.fileSize <= Len(w.file)
    BY <1>2, <1>4
  <2>2. \A i \in 1..s.fileSize : i \in 1..Len(f) /\ i <= s.pos
    BY <1>2
  <2>3. \A i \in 1..s.fileSize : w.file[i] = f[i]
    BY <1>4, <2>2
  <2> QED
    BY <1>2, <2>1, <2>3 DEF Agree
<1>7. /\ s.fileSize <= w.batch.fileSize /\ w.batch.fileSize <= Len(w.file)
      /\ w.batch.fileSize <= w.batch.pos
  BY <1>1, <1>2, <1>4, <1>5
<1> QED
  BY <1>4, <1>5, <1>6, <1>7, WriteFollows DEF s

\* A write that fails, or a crash, after o units.
IsFailed(w, b, f, e, n, o) == w = WriteFailed(b, f, Line(e, n), o)
IsPart(g, b, f, e, n, o) == g = WrittenPartly(b, f, Line(e, n), o)

LEMMA PartAgrees ==
    ASSUME NEW b \in Batch, NEW f, Knows(b, f, FALSE),
           NEW e \in 1..MaxEvents, NEW n \in Nat \ {0}, NEW o \in 0..n - 1,
           NEW g, IsPart(g, b, f, e, n, o),
           NEW s, s = SeekToEnd(b, f)
    PROVE  g \in File /\ Agree(g, f, s.fileSize)
<1> DEFINE d == First(Line(e, n), o)
<1>1. d \in File
  <2>1. Line(e, n) \in File /\ o \in 0..Len(Line(e, n))
    BY LineIsFile
  <2> QED
    BY <2>1, PrefixLines
<1>2. /\ f \in File /\ Len(f) \in Nat
      /\ s.fileSize <= Len(f) /\ s.fileSize <= s.pos
      /\ s.fileSize \in Nat /\ s.pos \in Nat
  BY EndIsSought
<1>3. g = WriteAt(f, s.pos, d)
  BY DEF IsPart, WrittenPartly
<1> HIDE DEF d
<1>4. /\ g \in File /\ Len(g) \in Nat /\ Len(f) <= Len(g)
      /\ \A i \in 1..Len(f) : i <= s.pos => g[i] = f[i]
  <2>1. PICK p : p = s.pos
    OBVIOUS
  <2>2. p \in Nat /\ f \in File /\ d \in File
    BY <1>1, <1>2, <2>1
  <2>3. g = WriteAt(f, p, d)
    BY <1>3, <2>1
  <2>4. /\ g \in File /\ Len(g) \in Nat /\ Len(f) <= Len(g)
        /\ \A i \in 1..Len(f) : i <= p => g[i] = f[i]
    BY <2>2, <2>3, WriteAnywhere
  <2> QED
    BY <2>1, <2>4
<1>5. s.fileSize <= Len(g)
  BY <1>2, <1>4
<1>6. \A i \in 1..s.fileSize : i \in 1..Len(f) /\ i <= s.pos
  BY <1>2
<1>7. \A i \in 1..s.fileSize : g[i] = f[i]
  BY <1>4, <1>6
<1> QED
  BY <1>2, <1>4, <1>5, <1>7 DEF Agree

LEMMA FailureFollows ==
    ASSUME NEW b \in Batch, NEW f, Knows(b, f, FALSE),
           NEW e \in 1..MaxEvents, NEW n \in Nat \ {0}, NEW o \in 0..n - 1,
           NEW w, IsFailed(w, b, f, e, n, o)
    PROVE  Follows(w.batch, w.file, b, f)
<1> DEFINE s == SeekToEnd(b, f)
           p == WrittenPartly(b, f, Line(e, n), o)
<1>1. /\ s \in Batch /\ s.id = b.id /\ s.finalized = b.finalized /\ s.open
      /\ f \in File /\ Len(f) \in Nat
      /\ s.fileSize <= Len(f) /\ s.fileSize <= s.pos
      /\ s.fileSize \in Nat /\ s.pos \in Nat
  BY EndIsSought
<1>2. p \in File /\ Agree(p, f, s.fileSize)
  <2>1. IsPart(p, b, f, e, n, o)
    BY DEF IsPart
  <2> HIDE DEF p, s
  <2> QED
    BY <2>1, PartAgrees DEF s
<1>3. /\ w.batch = [s EXCEPT !.pos = @ + o]
      /\ w.file = IF o = 0 THEN f ELSE First(p, s.fileSize)
  BY DEF IsFailed, WriteFailed
<1> HIDE DEF s, p
<1>4. /\ w.batch \in Batch /\ w.batch.id = b.id
      /\ w.batch.finalized = b.finalized /\ w.batch.open
      /\ w.batch.fileSize = s.fileSize /\ w.batch.pos = s.pos + o
  <2>1. s.pos + o \in Nat /\ o \in Nat
    BY <1>1
  <2> QED
    BY <1>1, <1>3, <2>1 DEF Batch
<1>5. w.file \in File /\ Agree(w.file, f, s.fileSize)
  <2>1. CASE o = 0
    BY <1>1, <1>3, <2>1 DEF Agree
  <2>2. CASE o # 0
    <3>1. w.file = First(p, s.fileSize)
      BY <1>3, <2>2
    <3>2. s.fileSize \in 0..Len(p) /\ Len(p) \in Nat
      BY <1>1, <1>2 DEF Agree, File
    <3>3. /\ First(p, s.fileSize) \in File
          /\ Len(First(p, s.fileSize)) = s.fileSize
          /\ \A i \in 1..s.fileSize : First(p, s.fileSize)[i] = p[i]
      BY <1>2, <3>2, PrefixLines
    <3> QED
      BY <1>1, <1>2, <3>1, <3>3 DEF Agree
  <2> QED
    BY <2>1, <2>2
<1>6. /\ s.fileSize <= w.batch.fileSize /\ w.batch.fileSize <= Len(w.file)
      /\ w.batch.fileSize <= w.batch.pos
  BY <1>1, <1>4, <1>5 DEF Agree
<1> QED
  BY <1>4, <1>5, <1>6, WriteFollows DEF s

LEMMA AgreeingLines ==
    ASSUME NEW f \in File, NEW g \in File, NEW m, Agree(g, f, m),
           NEW j \in Newlines(f), j <= m
    PROVE  j \in Newlines(g) /\ LineAt(g, j) = LineAt(f, j)
<1>1. /\ m \in Nat /\ m <= Len(f) /\ m <= Len(g) /\ \A i \in 1..m : f[i] = g[i]
  BY DEF Agree
<1>2. j \in 1..m
  <2>1. j \in 1..Len(f) /\ Len(f) \in Nat
    BY NewlinesAreFinite DEF File
  <2> QED
    BY <1>1, <2>1
<1> QED
  BY <1>1, <1>2, SameBeginning

\* What is within the size of the batch that gets an event has the same place
\* when the file has been written.
LEMMA PlaceStays ==
    ASSUME StoreIsConsistent(FALSE), NEW n, NewestFor(n).id \in Ids,
           NEW g \in File, Agree(g, FileOf(NewestFor(n)), NewestFor(n).fileSize),
           NEW d, Replaces(d, disk, NewestFor(n).id, g),
           NEW x, NEW i \in Ids, NEW j, IsAt(x, i, j, disk),
           WithinSize(i, j, newestBatch, oldestBatch)
    PROVE  /\ IsAt(x, i, j, d)
           /\ i = NewestFor(n).id => j <= NewestFor(n).fileSize
<1> DEFINE b == NewestFor(n)
           f == FileOf(b)
<1>1. /\ b \in Batch /\ f \in File /\ f = Contents(disk, b.id)
      /\ \/ b = newestBatch
         \/ disk[b.id] = NoFile
  BY NewestForIsBatch
<1>2. disk \in Disk
  BY FilesAreFiles DEF StoreIsConsistent
<1>3. /\ Agree(g, f, b.fileSize) /\ Replaces(d, disk, b.id, g) /\ b.id \in Ids
  OBVIOUS
<1> HIDE DEF b, f
<1>4. /\ \A k \in Ids : k # b.id => Contents(d, k) = Contents(disk, k)
      /\ Contents(d, b.id) = g
  BY <1>2, <1>3, OneFileChanges
<1>5. CASE i = b.id
  <2>1. j \in Newlines(f) /\ LineAt(f, j) = x
    BY <1>1, <1>5 DEF IsAt
  <2>2. disk[b.id] # NoFile
    <3>1. Newlines(<<>>) = {}
      BY EmptyFile
    <3> QED
      BY <1>1, <2>1, <3>1 DEF Contents
  <2>3. j <= b.fileSize
    BY <1>1, <1>5, <2>2 DEF WithinSize
  <2>4. j \in Newlines(g) /\ LineAt(g, j) = x
    BY <1>1, <1>3, <2>1, <2>3, AgreeingLines
  <2> QED
    BY <1>4, <1>5, <2>3, <2>4 DEF IsAt, b
<1>6. CASE i # b.id
  BY <1>4, <1>6 DEF IsAt, b
<1> QED
  BY <1>5, <1>6

LEMMA AddEventIsLoose ==
    ASSUME LooseInv, NEW n \in Sizes, AddEvent(n), torn' \/ Early' \subseteq Early
    PROVE  LooseInv'
<1> DEFINE e == added + 1
           b == NewestFor(n)
           f == FileOf(b)
<1>1. /\ added < MaxEvents /\ added' = e /\ Begun(b)
      /\ Accept(b, e, n) \/ Reject(b, e, n) \/ FailToWrite(b, e, n)
      /\ UNCHANGED <<limits, uploader, confirmed, dropped, crashes, torn, cut>>
  BY Zenon DEF AddEvent, Begun
<1>2. StoreIsConsistent(FALSE) /\ HistoryOK /\ ListIsFront(FALSE)
  BY DEF LooseInv, Structure
<1>3. b.id \in Ids
  BY <1>1, <1>2, NewestForIsId
<1>4. b \in Batch /\ ~ b.finalized /\ f \in File /\ Knows(b, f, FALSE)
  BY <1>2, <1>3, NewestForIsBatch
<1>5. e \in 1..MaxEvents /\ n \in Nat \ {0} /\ added \in Nat /\ MaxEvents \in Nat
  BY <1>1, <1>2, StoreAssumption DEF HistoryOK
<1> HIDE DEF e, f
<1>6. \E g \in File : /\ Follows(newestBatch', g, b, f)
                      /\ Replaces(disk', disk, b.id, g)
                      /\ accepted' \subseteq accepted \cup {e}
  <2>1. CASE Accept(b, e, n)
    <3> DEFINE w == Written(b, f, Line(e, n))
    <3>1. IsWritten(w, b, f, e, n)
      BY DEF IsWritten
    <3>2. /\ newestBatch' = w.batch /\ disk' = [disk EXCEPT ![b.id] = w.file]
          /\ accepted' = accepted \cup {e}
      BY <2>1, Zenon DEF Accept, f
    <3> HIDE DEF b, w
    <3>3. Follows(w.batch, w.file, b, f)
      BY <1>4, <1>5, <3>1, LineFollows
    <3> QED
      BY <3>2, <3>3 DEF Replaces, Follows
  <2>2. CASE Reject(b, e, n)
    <3>1. /\ newestBatch' = b /\ disk' = [disk EXCEPT ![b.id] = f]
          /\ accepted' = accepted
      BY <2>2 DEF Reject, f
    <3> HIDE DEF b
    <3>2. Follows(b, f, b, f)
      BY <1>4, KnownFollows
    <3> QED
      BY <1>4, <3>1, <3>2 DEF Replaces
  <2>3. CASE FailToWrite(b, e, n)
    <3>1. /\ accepted' = accepted
          /\ \E o \in 0..n - 1 :
                /\ newestBatch' = WriteFailed(b, f, Line(e, n), o).batch
                /\ disk' = [disk EXCEPT ![b.id] =
                                WriteFailed(b, f, Line(e, n), o).file]
      BY <2>3, Zenon DEF FailToWrite, f
    <3>2. PICK o \in 0..n - 1 :
                /\ newestBatch' = WriteFailed(b, f, Line(e, n), o).batch
                /\ disk' = [disk EXCEPT ![b.id] =
                                WriteFailed(b, f, Line(e, n), o).file]
      BY <3>1
    <3> DEFINE w == WriteFailed(b, f, Line(e, n), o)
    <3>3. IsFailed(w, b, f, e, n, o)
      BY DEF IsFailed
    <3>4. newestBatch' = w.batch /\ disk' = [disk EXCEPT ![b.id] = w.file]
      BY <3>2
    <3> HIDE DEF b, w
    <3>5. Follows(w.batch, w.file, b, f)
      BY <1>4, <1>5, <3>3, FailureFollows
    <3> QED
      BY <3>1, <3>4, <3>5 DEF Replaces, Follows
  <2> QED
    BY <1>1, <2>1, <2>2, <2>3
<1>7. PICK g \in File : /\ Follows(newestBatch', g, b, f)
                        /\ Replaces(disk', disk, b.id, g)
                        /\ accepted' \subseteq accepted \cup {e}
  BY <1>6
<1>8. /\ newestBatch' \in Batch /\ newestBatch'.id = b.id
      /\ ~ newestBatch'.finalized /\ Knows(newestBatch', g, FALSE)
      /\ Agree(g, f, b.fileSize) /\ b.fileSize <= newestBatch'.fileSize
      /\ newestBatch'.fileSize \in Nat /\ b.fileSize \in Nat
  BY <1>4, <1>7 DEF Follows, Batch
<1>9. StoreIsConsistent(FALSE)'
  BY <1>1, <1>2, <1>3, <1>7, <1>8, NewestForStays
<1>10. ListIsFront(FALSE)'
  <2>1. ASSUME IsFrontList(list, disk, newestBatch, oldestBatch, oldBatches, FALSE)
        PROVE  IsFrontList(list, disk', newestBatch', oldestBatch', oldBatches', FALSE)
    BY <1>1, <1>2, <1>3, <1>7, <1>8, <2>1, ListStaysInFront DEF f
  <2> QED
    BY <1>1, <1>2, <2>1 DEF ListIsFront, uploader
<1>11. HistoryOK'
  <2>1. added' \in 0..MaxEvents /\ 1..added \subseteq 1..added' /\ e \in 1..added'
    BY <1>1, <1>5 DEF e
  <2>2. accepted' \subseteq 1..added'
    BY <1>2, <1>7, <2>1 DEF HistoryOK
  <2> QED
    BY <1>1, <1>2, <2>1, <2>2 DEF HistoryOK, uploader
<1>12. ASSUME NEW x, NEW i \in Ids, NEW j \in Nat, IsAt(x, i, j, disk),
              WithinSize(i, j, newestBatch, oldestBatch)
       PROVE  IsAt(x, i, j, disk') /\ WithinSize(i, j, newestBatch', oldestBatch')
  <2>1. IsAt(x, i, j, disk') /\ (i = b.id => j <= b.fileSize)
    BY <1>2, <1>3, <1>7, <1>8, <1>12, PlaceStays DEF f
  <2>2. i = newestBatch'.id => j <= newestBatch'.fileSize
    BY <1>8, <2>1
  <2>3. ASSUME oldestBatch' # NoBatch, i = oldestBatch'.id
        PROVE  j <= oldestBatch'.fileSize
    <3>1. CASE oldestBatch' = oldestBatch
      BY <1>12, <2>3, <3>1 DEF WithinSize
    <3>2. CASE oldestBatch' = [newestBatch EXCEPT !.finalized = TRUE]
      <4>1. newestBatch \in Batch
        BY <1>2, FilesAreFiles DEF StoreIsConsistent
      <4>2. /\ oldestBatch'.id = newestBatch.id
            /\ oldestBatch'.fileSize = newestBatch.fileSize
        BY <3>2, <4>1, Zenon DEF Batch
      <4> QED
        BY <1>12, <2>3, <4>2 DEF WithinSize
    <3> QED
      BY <1>1, <3>1, <3>2, Zenon DEF Begun, Rotate
  <2> QED
    BY <2>1, <2>2, <2>3 DEF WithinSize
<1>13. EarlyAreKept'
  <2>1. \A x \in Early : IsUploaded(x) => IsUploaded(x)'
    BY <1>1 DEF IsUploaded
  <2>2. \A x \in Early :
           IsPlaced(x, disk, newestBatch, oldestBatch) => IsKept(x)'
    BY <1>12 DEF IsPlaced, IsKept
  <2> QED
    BY <1>1, <2>1, <2>2, EarlyStay DEF LooseInv
<1> QED
  BY <1>9, <1>10, <1>11, <1>13 DEF LooseInv, Structure

LEMMA CrashIsLoose == ASSUME LooseInv, Crash PROVE LooseInv'
<1>1. Restart(disk) /\ UNCHANGED <<added, dropped, torn, cut>>
  BY DEF Crash
<1>2. /\ disk \in Disk /\ added' \in added..MaxEvents
      /\ torn' \in BOOLEAN /\ (torn => torn') /\ (torn' \/ cut' = {})
      /\ cut' \subseteq 0..MaxEvents
      /\ dropped \subseteq dropped' /\ dropped' \subseteq 0..MaxEvents
  <2>1. disk \in Disk
    BY FilesAreFiles DEF LooseInv, Structure, StoreIsConsistent
  <2>2. added' \in added..MaxEvents
    BY <1>1, StoreAssumption DEF LooseInv, HistoryOK
  <2> QED
    BY <1>1, <2>1, <2>2 DEF LooseInv, HistoryOK
<1>3. PlacesAreIn(disk, Elements(confirmed) \cup dropped')
  BY DEF IsPlaced, PlacesAreIn
<1> QED
  BY <1>1, <1>2, <1>3, RestartIsLoose

LEMMA CrashInAddIsLoose ==
    ASSUME LooseInv, NEW n \in Sizes, CrashInAdd(n) PROVE LooseInv'
<1> DEFINE b == NewestFor(n)
           e == added + 1
           f == FileOf(b)
<1>1. PICK o \in 0..n - 1 :
         Restart([disk EXCEPT ![b.id] = WrittenPartly(b, f, Line(e, n), o)])
  BY DEF CrashInAdd
<1>2. /\ added < MaxEvents /\ b.id <= MaxFiles
      /\ added' = e /\ UNCHANGED <<dropped, torn, cut>>
  BY DEF CrashInAdd
<1>3. StoreIsConsistent(FALSE) /\ HistoryOK
  BY DEF LooseInv, Structure
<1>4. b.id \in Ids
  BY <1>2, <1>3, InterruptedIsId
<1>5. b \in Batch /\ f \in File /\ Knows(b, f, FALSE)
  BY <1>3, <1>4, NewestForIsBatch
<1>6. e \in 1..MaxEvents /\ n \in Nat \ {0} /\ added \in Nat /\ MaxEvents \in Nat
  BY <1>2, <1>3, StoreAssumption DEF HistoryOK
<1>7. disk \in Disk
  BY <1>3, FilesAreFiles DEF StoreIsConsistent
<1> HIDE DEF b, e, f
<1> DEFINE g == WrittenPartly(b, f, Line(e, n), o)
           d == [disk EXCEPT ![b.id] = g]
           s == SeekToEnd(b, f)
<1>8. IsPart(g, b, f, e, n, o)
  BY DEF IsPart
<1>9. Replaces(d, disk, b.id, g) /\ Restart(d)
  BY <1>1 DEF Replaces
<1> HIDE DEF d, g
<1>10. g \in File /\ Agree(g, f, b.fileSize)
  <2>1. g \in File /\ Agree(g, f, s.fileSize)
    <3> HIDE DEF s
    <3> QED
      BY <1>5, <1>6, <1>8, PartAgrees DEF s
  <2>2. b.fileSize <= s.fileSize /\ b.fileSize \in Nat
    BY <1>5, EndIsSought
  <2> HIDE DEF s
  <2> QED
    BY <1>5, <2>1, <2>2, SmallerAgree
<1>11. d \in Disk
  BY <1>4, <1>7, <1>9, <1>10, OneFileChanges
<1>12. ASSUME NEW x, NEW i \in Ids, NEW j \in Nat, IsAt(x, i, j, disk),
              WithinSize(i, j, newestBatch, oldestBatch)
       PROVE  IsAt(x, i, j, d)
  BY <1>3, <1>4, <1>9, <1>10, <1>12, PlaceStays DEF b, f
<1>13. PlacesAreIn(d, Elements(confirmed) \cup dropped')
  BY <1>12 DEF IsPlaced, PlacesAreIn
<1>14. added' \in added..MaxEvents /\ torn' \in BOOLEAN /\ (torn => torn')
       /\ dropped \subseteq dropped' /\ dropped' \subseteq 0..MaxEvents
       /\ cut' \subseteq 0..MaxEvents /\ (torn' \/ cut' = {})
  BY <1>2, <1>3, <1>6 DEF e, HistoryOK
<1> QED
  BY <1>9, <1>11, <1>13, <1>14, RestartIsLoose

\* The steps of the uploader that take a list, or find that there is none.
LEMMA TakingIsLoose ==
    ASSUME LooseInv, NEW maxCount \in Nat, NEW maxSize \in Nat,
           GetEvents(maxCount, maxSize), UNCHANGED <<limits, history>>,
           upc' \in {"idle", "post", "check", "drop"},
           list'.null => upc' \in {"idle", "check"}
    PROVE  LooseInv'
<1>1. StoreIsConsistent(FALSE)
  BY DEF LooseInv, Structure
<1>2. /\ StoreIsConsistent(FALSE)'
      /\ list'.null \in BOOLEAN
      /\ ~ list'.null =>
           IsFrontList(list', disk', newestBatch', oldestBatch', oldBatches', FALSE)
      /\ \A i \in Ids : Keeps(Contents(disk', i), Contents(disk, i))
      /\ newestBatch'.id = newestBatch.id
      /\ newestBatch'.fileSize = newestBatch.fileSize
      /\ oldestBatch' # NoBatch =>
           \/ /\ oldestBatch # NoBatch /\ oldestBatch'.id = oldestBatch.id
              /\ oldestBatch'.fileSize = oldestBatch.fileSize
           \/ oldestBatch'.fileSize = Len(Contents(disk', oldestBatch'.id))
  BY <1>1, GetEventsIsConsistent
<1>3. disk' \in Disk
  BY <1>2, FilesAreFiles DEF StoreIsConsistent
<1>4. ListIsFront(FALSE)'
  BY <1>2 DEF ListIsFront
<1>5. HistoryOK'
  BY DEF LooseInv, HistoryOK, history
<1>6. ASSUME NEW x, NEW i \in Ids, NEW j \in Nat, IsAt(x, i, j, disk),
             WithinSize(i, j, newestBatch, oldestBatch)
      PROVE  IsAt(x, i, j, disk') /\ WithinSize(i, j, newestBatch', oldestBatch')
  <2>1. IsAt(x, i, j, disk')
    BY <1>2, <1>6 DEF IsAt, Keeps
  <2>2. j <= Len(Contents(disk', i))
    <3>1. Contents(disk', i) \in File
      BY <1>3, ContentsAreFiles
    <3>2. j \in 1..Len(Contents(disk', i))
      BY <2>1, <3>1, NewlinesAreFinite DEF IsAt
    <3> QED
      BY <3>2
  <2>3. i = newestBatch'.id => j <= newestBatch'.fileSize
    BY <1>2, <1>6 DEF WithinSize
  <2>4. oldestBatch' # NoBatch /\ i = oldestBatch'.id => j <= oldestBatch'.fileSize
    BY <1>2, <1>6, <2>2 DEF WithinSize
  <2> QED
    BY <2>1, <2>3, <2>4 DEF WithinSize
<1>7. EarlyAreKept'
  <2>1. \A x \in Early : IsUploaded(x) => IsUploaded(x)'
    BY DEF IsUploaded, history
  <2>2. \A x \in Early :
           IsPlaced(x, disk, newestBatch, oldestBatch) => IsKept(x)'
    BY <1>6 DEF IsPlaced, IsKept
  <2> QED
    BY <2>1, <2>2, EarlyStay DEF LooseInv, Early, history
<1> QED
  BY <1>2, <1>4, <1>5, <1>7 DEF LooseInv, Structure

LEMMA SendBeginIsLoose == ASSUME LooseInv, SendBegin PROVE LooseInv'
<1>1. limits.count \in Nat /\ limits.size \in Nat
  BY LimitsAreNumbers DEF LooseInv
<1>2. /\ GetEvents(limits.count, limits.size)
      /\ UNCHANGED <<limits, history>>
      /\ upc' = IF list'.null THEN "check" ELSE "post"
  BY Zenon DEF SendBegin
<1> QED
  BY <1>1, <1>2, TakingIsLoose

\* Steps that leave the files and the batches as they are.
LEMMA NothingIsMoved ==
    ASSUME LooseInv,
           UNCHANGED <<disk, newestBatch, oldestBatch, oldBatches,
                       added, accepted, dropped, torn, cut>>,
           Elements(confirmed) \subseteq Elements(confirmed'),
           HistoryOK', ListIsFront(FALSE)'
    PROVE  LooseInv'
<1>1. StoreIsConsistent(FALSE)'
  BY DEF LooseInv, Structure, StoreIsConsistent
<1>2. EarlyAreKept'
  BY DEF LooseInv, EarlyAreKept, Early, IsKept, IsUploaded
<1> QED
  BY <1>1, <1>2 DEF LooseInv, Structure

LEMMA CheckEventsIsLoose == ASSUME LooseInv, CheckEvents PROVE LooseInv'
<1>1. CASE HasAnyEvents
  <2>1. ReadCap \in Nat /\ 1 \in Nat
    BY BufferAssumption
  <2>2. /\ GetEvents(1, ReadCap) /\ UNCHANGED <<limits, history>>
        /\ upc' = IF list'.null THEN "idle" ELSE "drop"
    BY <1>1, Zenon DEF CheckEvents
  <2> QED
    BY <2>1, <2>2, TakingIsLoose
<1>2. CASE ~ HasAnyEvents
  <2>1. /\ UNCHANGED <<disk, newestBatch, oldestBatch, oldBatches, list>>
        /\ UNCHANGED <<limits, history>> /\ upc' = "idle"
    BY <1>2 DEF CheckEvents
  <2>2. HistoryOK' /\ ListIsFront(FALSE)'
    BY <2>1 DEF LooseInv, HistoryOK, ListIsFront, history
  <2> QED
    BY <2>1, <2>2, NothingIsMoved DEF history
<1> QED
  BY <1>1, <1>2

LEMMA PostFailsIsLoose == ASSUME LooseInv, PostFails PROVE LooseInv'
<1>1. /\ UNCHANGED <<disk, memory, history>> /\ upc' = "idle"
  BY DEF PostFails
<1>2. HistoryOK' /\ ListIsFront(FALSE)'
  BY <1>1 DEF LooseInv, HistoryOK, ListIsFront, history, memory
<1> QED
  BY <1>1, <1>2, NothingIsMoved DEF history, memory

LEMMA SetFileLimitsIsLoose == ASSUME LooseInv, SetFileLimits PROVE LooseInv'
<1>1. /\ UNCHANGED <<disk, newestBatch, oldestBatch, oldBatches, uploader,
                     added, accepted, confirmed, dropped, crashes, torn, cut>>
      /\ limits' \in Limits
  BY DEF SetFileLimits
<1>2. HistoryOK' /\ ListIsFront(FALSE)'
  BY <1>1 DEF LooseInv, Structure, HistoryOK, ListIsFront, uploader
<1> QED
  BY <1>1, <1>2, NothingIsMoved

LEMMA PostSucceedsIsLoose == ASSUME LooseInv, PostSucceeds PROVE LooseInv'
<1>1. /\ upc = "post" /\ upc' = "ack"
      /\ confirmed' = confirmed \o EventsOf(list.data)
      /\ UNCHANGED <<disk, limits, newestBatch, oldestBatch, oldBatches, list,
                     added, accepted, dropped, crashes, torn, cut>>
  BY DEF PostSucceeds, memory
<1>2. /\ Elements(EventsOf(list.data)) = EventsIn(list.data)
      /\ EventsOf(list.data) \in Seq(0..MaxEvents)
      /\ confirmed \in Seq(0..MaxEvents)
  BY <1>1, ListIsGood DEF LooseInv, HistoryOK
<1>3. /\ Elements(confirmed') = Elements(confirmed) \cup EventsIn(list.data)
      /\ confirmed' \in Seq(0..MaxEvents)
  BY <1>1, <1>2, ElementsOfBoth
<1>4. HistoryOK'
  BY <1>1, <1>3 DEF LooseInv, HistoryOK
<1>5. ListIsFront(FALSE)'
  BY <1>1 DEF LooseInv, Structure, ListIsFront
<1> QED
  BY <1>1, <1>3, <1>4, <1>5, NothingIsMoved

\* A line is in the list, or in what follows it.
LEMMA LineOfList ==
    ASSUME NEW f \in File, NEW l, IsListOf(l, f),
           NEW j \in Newlines(f), j <= l.size
    PROVE  LineAt(f, j) \in EventsIn(l.data)
<1>1. l.size \in 0..Len(f) /\ l.data = First(f, l.size)
  BY DEF IsListOf
<1>2. j \in 1..Len(f) /\ Len(f) \in Nat
  BY NewlinesAreFinite DEF File
<1>3. j \in 1..l.size
  BY <1>1, <1>2
<1>4. j \in Newlines(l.data) /\ LineAt(l.data, j) = LineAt(f, j)
  BY <1>1, <1>3, PrefixLines
<1> QED
  BY <1>4 DEF EventsIn

LEMMA LineOfRest ==
    ASSUME NEW f \in File, NEW s \in 0..Len(f), NEW r \in File, IsRest(r, f, s),
           NEW j \in Newlines(f), s < j
    PROVE  /\ j - s \in 1..Len(r) /\ j - s \in Newlines(r)
           /\ LineAt(r, j - s) = LineAt(f, j)
<1>1. j \in 1..Len(f) /\ Len(f) \in Nat /\ Len(r) \in Nat /\ Len(r) = Len(f) - s
  BY NewlinesAreFinite DEF File, IsRest
<1>2. j - s \in 1..Len(r) /\ s + (j - s) = j
  BY <1>1
<1>3. \A i \in 1..Len(r) : /\ i \in Newlines(r) <=> s + i \in Newlines(f)
                           /\ LineAt(r, i) = LineAt(f, s + i)
  BY RestLines
<1> QED
  BY <1>2, <1>3

LEMMA UploadedIsLoose ==
    ASSUME LooseInv, upc \in {"ack", "drop"}, OnEventsUploaded, upc' = "idle",
           UNCHANGED <<added, accepted, confirmed, crashes, torn, cut>>,
           dropped' = dropped \cup DroppedWith(upc, list)
    PROVE  LooseInv'
<1> DEFINE f == disk[Front.id]
           g == Contents(disk', Front.id)
           s == list.size
<1>1. /\ StoreIsConsistent(FALSE) /\ HistoryOK
      /\ Front.id \in Ids /\ f \in File /\ Contents(disk, Front.id) = f
      /\ IsFrontList(list, disk, newestBatch, oldestBatch, oldBatches, FALSE)
      /\ IsListOf(list, f) /\ s <= Front.fileSize
  BY ListIsGood DEF LooseInv, Structure
<1>2. /\ StoreIsConsistent(FALSE)'
      /\ s \in 0..Len(f)
      /\ \A i \in Ids : i # Front.id => Contents(disk', i) = Contents(disk, i)
      /\ s # Front.fileSize => WhatIsLeft(g, f, s)
      /\ oldestBatch = NoBatch =>
           /\ oldestBatch' = NoBatch /\ newestBatch'.id = newestBatch.id
           /\ s # Front.fileSize => newestBatch'.fileSize = Len(g)
      /\ oldestBatch # NoBatch =>
           /\ newestBatch' = newestBatch
           /\ oldestBatch' # NoBatch => oldestBatch'.id = oldestBatch.id
           /\ s # Front.fileSize => oldestBatch'.fileSize = Len(g)
  BY <1>1, UploadedIsConsistent
<1>3. /\ oldestBatch = NoBatch => Front = newestBatch
      /\ oldestBatch # NoBatch =>
           Front = oldestBatch /\ oldestBatch.id # newestBatch.id
  BY <1>1, FilesAreFiles DEF StoreIsConsistent, Front, FrontOf
<1>4. /\ dropped \subseteq dropped' /\ dropped' \subseteq 0..MaxEvents
      /\ EventsIn(list.data) \subseteq Elements(confirmed) \cup dropped'
  BY DroppedAreEvents DEF LooseInv
<1> HIDE DEF f, g, s
<1>5. ListIsFront(FALSE)'
  BY DEF ListIsFront
<1>6. HistoryOK'
  <2>1. limits' = limits
    BY Zenon DEF OnEventsUploaded, Acknowledge, SetFront
  <2> QED
    BY <1>1, <1>4, <2>1 DEF HistoryOK
<1>7. ASSUME NEW x, NEW i \in Ids, NEW j \in Nat, IsAt(x, i, j, disk),
             WithinSize(i, j, newestBatch, oldestBatch)
      PROVE  \/ x \in EventsIn(list.data)
             \/ IsPlaced(x, disk', newestBatch', oldestBatch')
  <2>1. CASE i # Front.id
    <3>1. IsAt(x, i, j, disk')
      BY <1>2, <1>7, <2>1 DEF IsAt
    <3>2. WithinSize(i, j, newestBatch', oldestBatch')
      BY <1>2, <1>3, <1>7, <2>1 DEF WithinSize
    <3> QED
      BY <3>1, <3>2 DEF IsPlaced
  <2>2. CASE i = Front.id /\ j <= s
    <3>1. j \in Newlines(f) /\ x = LineAt(f, j)
      BY <1>1, <1>7, <2>2 DEF IsAt
    <3>2. j <= list.size
      BY <2>2 DEF s
    <3> QED
      BY <1>1, <3>1, <3>2, LineOfList
  <2>3. CASE i = Front.id /\ ~ (j <= s)
    <3>1. j \in Newlines(f) /\ x = LineAt(f, j)
      BY <1>1, <1>7, <2>3 DEF IsAt
    <3>2. j <= Front.fileSize
      BY <1>3, <1>7, <2>3 DEF WithinSize
    <3>3. s \in Nat /\ s < j /\ s # Front.fileSize
      <4>1. s \in Nat /\ s < j
        BY <1>2, <2>3
      <4> QED
        BY <2>3, <3>2, <4>1
    <3>4. g \in File /\ IsRest(g, f, s)
      BY <1>2, <3>3 DEF WhatIsLeft
    <3>5. /\ j - s \in 1..Len(g) /\ j - s \in Newlines(g)
          /\ LineAt(g, j - s) = x
      BY <1>1, <1>2, <3>1, <3>3, <3>4, LineOfRest
    <3>6. PICK k : k = j - s
      OBVIOUS
    <3>7. /\ k \in Nat /\ k <= Len(g) /\ k <= j
          /\ k \in Newlines(g) /\ LineAt(g, k) = x
      BY <3>3, <3>5, <3>6
    <3>9. IsAt(x, i, k, disk')
      BY <2>3, <3>7 DEF IsAt, g
    <3>10. WithinSize(i, k, newestBatch', oldestBatch')
      BY <1>2, <1>3, <2>3, <3>3, <3>7 DEF WithinSize
    <3> QED
      BY <3>7, <3>9, <3>10 DEF IsPlaced
  <2> QED
    BY <2>1, <2>2, <2>3
<1>8. EarlyAreKept'
  <2>1. \A x \in Early : IsUploaded(x) => IsUploaded(x)'
    BY <1>4 DEF IsUploaded
  <2>2. \A x : x \in EventsIn(list.data) => IsUploaded(x)'
    BY <1>4 DEF IsUploaded
  <2>3. \A x \in Early :
           IsPlaced(x, disk, newestBatch, oldestBatch) => IsKept(x)'
    <3> SUFFICES ASSUME NEW x \in Early,
                        IsPlaced(x, disk, newestBatch, oldestBatch)
                 PROVE  IsKept(x)'
      OBVIOUS
    <3>1. PICK i \in Ids, j \in Nat :
             IsAt(x, i, j, disk) /\ WithinSize(i, j, newestBatch, oldestBatch)
      BY DEF IsPlaced
    <3> QED
      BY <1>7, <2>2, <3>1 DEF IsKept
  <2> QED
    BY <2>1, <2>3, EarlyStay DEF LooseInv, Early
<1> QED
  BY <1>2, <1>5, <1>6, <1>8 DEF LooseInv, Structure

\* A copy that has failed leaves some beginning of every chunk, in File.
LEMMA UnitsAreFile ==
    ASSUME NEW f \in File, NEW K \in SUBSET DOMAIN f
    PROVE  /\ UnitsAt(f, K) \in File
           /\ Len(UnitsAt(f, K)) \in Nat /\ Len(UnitsAt(f, K)) <= Len(f)
<1>1. /\ Len(f) \in Nat /\ DOMAIN f = 1..Len(f) /\ f \in Seq(Unit)
  BY DEF File
<1>2. K \in SUBSET (1..Len(f)) /\ IsFiniteSet(1..Len(f))
      /\ Cardinality(1..Len(f)) = Len(f)
  <2>1. 1 \in Int /\ Len(f) \in Int
    BY <1>1
  <2>2. IsFiniteSet(1..Len(f))
        /\ Cardinality(1..Len(f)) = IF 1 > Len(f) THEN 0 ELSE Len(f) - 1 + 1
    BY <2>1, FS_Interval
  <2> QED
    BY <1>1, <2>2
<1>3. IsFiniteSet(K) /\ Cardinality(K) <= Len(f) /\ K \in SUBSET Nat
      /\ Cardinality(K) \in Nat
  BY <1>1, <1>2, FS_Subset, FS_CardinalityType
<1>4. ASSUME NEW i \in 1..Cardinality(K)
      PROVE  f[CHOOSE j \in K : Cardinality({m \in K : m <= j}) = i] \in Unit
  <2>1. \E j \in K : Rank(K, j) = i
    BY <1>3, RankOnto
  <2>2. \E j \in K : Cardinality({m \in K : m <= j}) = i
    BY <2>1 DEF Rank
  <2>3. (CHOOSE j \in K : Cardinality({m \in K : m <= j}) = i) \in K
    BY <2>2
  <2> QED
    BY <1>1, <1>2, <2>3
<1>5. PICK c \in Nat : c = Cardinality(K)
  BY <1>3
<1>6. UnitsAt(f, K) \in [1..c -> Unit]
  BY <1>4, <1>5 DEF UnitsAt
<1>7. UnitsAt(f, K) \in Seq(Unit) /\ Len(UnitsAt(f, K)) = c
  BY <1>6
<1> QED
  BY <1>3, <1>5, <1>7 DEF File

\* Every batch that a failed copy leaves is consistent with its file.
LEMMA CopyFailsIsConsistent ==
    ASSUME StoreIsConsistent(FALSE), CopyFails,
           IsFrontList(list, disk, newestBatch, oldestBatch, oldBatches, FALSE)
    PROVE  StoreIsConsistent(FALSE)'
<1> DEFINE b == Front
           f == disk[b.id]
<1>1. FALSE \in BOOLEAN
  OBVIOUS
<1>2. /\ b \in Batch /\ b.id \in Ids /\ Knows(b, f, FALSE) /\ f \in File
      /\ disk \in Disk
      /\ oldestBatch = NoBatch => ~ b.finalized /\ b = newestBatch
      /\ oldestBatch # NoBatch => b.finalized /\ b = oldestBatch
  BY FilesAreFiles
     DEF StoreIsConsistent, Consistent, BatchesKnow, Front, FrontOf, Knows
<1>3. IsListOf(list, f)
  BY DEF IsFrontList, Front
<1>4. PICK K \in SUBSET DOMAIN Rest(f, list) :
         Acknowledge(Copied(b, UnitsAt(Rest(f, list), K), list))
  BY Zenon DEF CopyFails, ChunkBeginnings, FrontBatch, Front, FrontOf
<1> DEFINE left == UnitsAt(Rest(f, list), K)
           u == Copied(b, left, list)
<1>5. /\ disk' = [disk EXCEPT ![b.id] = u.file]
      /\ oldBatches' = oldBatches
      /\ oldestBatch = NoBatch =>
           newestBatch' = u.batch /\ oldestBatch' = NoBatch
      /\ oldestBatch # NoBatch =>
           /\ newestBatch' = newestBatch
           /\ oldestBatch' = IF HasEvents(u.batch) THEN u.batch ELSE NoBatch
  BY <1>4, Zenon DEF Acknowledge, SetFront, FrontBatch, Front, FrontOf
<1>6. Rest(f, list) \in File
  <2>1. list.size \in 0..Len(f) /\ (list.size = 0 \/ list.size \in Newlines(f))
    BY <1>3 DEF IsListOf
  <2> QED
    BY <1>2, <2>1, SubSeqIsRest DEF Rest
<1>7. left \in File /\ Len(left) \in Nat
  BY <1>6, UnitsAreFile
<1>8. list.events \in Nat
  <2>1. list.size \in 0..Len(f) /\ list.events = Cardinality(Newlines(First(f, list.size)))
    BY <1>3 DEF IsListOf
  <2>2. First(f, list.size) \in File
    BY <1>2, <2>1, PrefixLines
  <2> QED
    BY <2>1, <2>2, NewlinesAreFinite
<1> HIDE DEF b, f, left
<1>9. /\ u.batch \in Batch /\ u.batch.id = b.id
      /\ u.batch.finalized = b.finalized /\ u.file = left
      /\ u.batch.open = b.open /\ u.batch.fileSize = Len(left)
      /\ u.batch.pos = Len(left)
  <2> DEFINE x == [b EXCEPT !.fileSize = Len(left),
                            !.eventCount = @ - list.events,
                            !.pos = Len(left)]
  <2>1. u = [batch |-> x, file |-> left]
    BY Zenon DEF Copied
  <2>2. u.batch = x /\ u.file = left
    <3> HIDE DEF x, u
    <3> QED
      BY <2>1
  <2>3. /\ x \in Batch /\ x.id = b.id /\ x.finalized = b.finalized
        /\ x.open = b.open /\ x.fileSize = Len(left) /\ x.pos = Len(left)
    <3>1. PICK m : m = Len(left)
      OBVIOUS
    <3>2. PICK c : c = b.eventCount - list.events
      OBVIOUS
    <3>3. c \in Int /\ m \in Nat
      BY <1>2, <1>7, <1>8, <3>1, <3>2 DEF Batch
    <3>4. x = [b EXCEPT !.fileSize = m, !.eventCount = c, !.pos = m]
      BY <3>1, <3>2
    <3> HIDE DEF x
    <3>5. /\ x \in Batch /\ x.id = b.id /\ x.finalized = b.finalized
          /\ x.open = b.open /\ x.fileSize = m /\ x.pos = m
      BY <1>2, <3>3, <3>4 DEF Batch
    <3> QED
      BY <3>1, <3>5
  <2> HIDE DEF x, u
  <2> QED
    BY <2>2, <2>3
<1>10. Knows(u.batch, u.file, FALSE)
  BY <1>2, <1>7, <1>9 DEF Knows
<1> HIDE DEF u
<1>11. Replaces(disk', disk, b.id, u.file)
  BY <1>5 DEF Replaces
<1>12. CASE oldestBatch = NoBatch
  BY ZenonT(20), <1>1, <1>2, <1>5, <1>7, <1>9, <1>10, <1>11, <1>12, NewestChanges
     DEF StoreIsConsistent
<1>13. CASE oldestBatch # NoBatch /\ HasEvents(u.batch)
  <2>1. b = oldestBatch /\ newestBatch' = newestBatch /\ oldestBatch' = u.batch
        /\ b.finalized /\ u.file \in File
    BY <1>2, <1>5, <1>7, <1>9, <1>13
  <2>2. Consistent(disk', newestBatch, u.batch, oldBatches, FALSE)
    BY <1>1, <1>9, <1>10, <1>11, <1>13, <2>1, OldestChanges
       DEF StoreIsConsistent
  <2> QED
    BY <1>5, <2>1, <2>2 DEF StoreIsConsistent
<1>14. CASE oldestBatch # NoBatch /\ ~ HasEvents(u.batch)
  <2>1. u.file = <<>>
    BY <1>7, <1>9, <1>14 DEF HasEvents, File
  <2>2. b = oldestBatch /\ newestBatch' = newestBatch /\ oldestBatch' = NoBatch
    BY <1>2, <1>5, <1>14
  <2>3. Consistent(disk', newestBatch, NoBatch, oldBatches, FALSE)
    BY <1>1, <1>11, <1>14, <2>1, <2>2, OldestGoes DEF StoreIsConsistent
  <2> QED
    BY <1>5, <2>2, <2>3 DEF StoreIsConsistent
<1> QED
  BY <1>12, <1>13, <1>14

LEMMA CopyFailsIsLoose ==
    ASSUME LooseInv, upc \in {"ack", "drop"}, CopyFails, torn' = TRUE,
           upc' = "idle", UNCHANGED <<added, accepted, confirmed, crashes, cut>>,
           dropped' = dropped \cup DroppedWith(upc, list)
    PROVE  LooseInv'
<1>1. /\ StoreIsConsistent(FALSE) /\ HistoryOK
      /\ IsFrontList(list, disk, newestBatch, oldestBatch, oldBatches, FALSE)
  BY ListIsGood DEF LooseInv, Structure
<1>2. StoreIsConsistent(FALSE)'
  BY <1>1, CopyFailsIsConsistent
<1>3. ListIsFront(FALSE)'
  BY DEF ListIsFront
<1>4. HistoryOK'
  <2>1. dropped' \subseteq 0..MaxEvents
    BY DroppedAreEvents DEF LooseInv
  <2>2. limits' = limits
    BY Zenon DEF CopyFails, Acknowledge, SetFront
  <2> QED
    BY <1>1, <2>1, <2>2 DEF HistoryOK
<1>5. EarlyAreKept'
  BY DEF EarlyAreKept
<1> QED
  BY <1>2, <1>3, <1>4, <1>5 DEF LooseInv, Structure

LEMMA SendEndIsLoose == ASSUME LooseInv, SendEnd PROVE LooseInv'
<1>1. /\ upc = "ack" /\ upc' = "idle"
      /\ ReportUploaded
      /\ UNCHANGED <<added, accepted, confirmed, crashes, cut, dropped>>
  BY DEF SendEnd
<1>2. dropped' = dropped \cup DroppedWith(upc, list)
  BY <1>1 DEF DroppedWith
<1> QED
  BY <1>1, <1>2, UploadedIsLoose, CopyFailsIsLoose DEF ReportUploaded

LEMMA DropFirstIsLoose == ASSUME LooseInv, DropFirst PROVE LooseInv'
  BY UploadedIsLoose, CopyFailsIsLoose DEF DropFirst, ReportUploaded

LEMMA CrashInShiftIsLoose == ASSUME LooseInv, CrashInShift PROVE LooseInv'
<1> DEFINE f == disk[Front.id]
           rest == Rest(f, list)
           At(g) == [disk EXCEPT ![Front.id] = g]
<1>1. /\ upc \in {"ack", "drop"} /\ torn' = TRUE /\ UNCHANGED added
      /\ dropped' = dropped \cup DroppedWith(upc, list)
      /\ \/ \E k \in 1..Len(rest) :
              /\ Restart(At(ShiftedPartly(f, list, k)))
              /\ cut' = cut \cup CutThrough(f, list, k)
         \/ /\ \E K \in SUBSET DOMAIN rest :
                  Restart(At(WriteAt(f, 0, UnitsAt(rest, K))))
            /\ UNCHANGED cut
  BY Zenon DEF CrashInShift, ChunkBeginnings, FrontBatch, Front, FrontOf
<1>2. /\ HistoryOK
      /\ Front.id \in Ids /\ f \in File /\ IsListOf(list, f)
  BY <1>1, ListIsGood DEF LooseInv
<1>3. /\ list.size \in 0..Len(f)
      /\ list.size = 0 \/ list.size \in Newlines(f)
  BY <1>2 DEF IsListOf
<1>4. disk \in Disk
  BY FilesAreFiles DEF LooseInv, Structure, StoreIsConsistent
<1> HIDE DEF f
<1>5. rest \in File /\ Len(rest) = Len(f) - list.size /\ Len(rest) <= Len(f)
      /\ Len(f) \in Nat
  BY <1>2, <1>3, SubSeqIsRest DEF Rest, IsRest, File
<1> HIDE DEF rest
<1>6. \E g \in File : /\ Restart(At(g)) /\ cut' \subseteq 0..MaxEvents
  <2>1. CASE \E k \in 1..Len(rest) :
                /\ Restart(At(ShiftedPartly(f, list, k)))
                /\ cut' = cut \cup CutThrough(f, list, k)
    <3>1. PICK k \in 1..Len(f) - list.size :
             /\ Restart(At(ShiftedPartly(f, list, k)))
             /\ cut' = cut \cup CutThrough(f, list, k)
      BY <1>5, <2>1
    <3>2. /\ ShiftedPartly(f, list, k) \in File
          /\ CutThrough(f, list, k) \subseteq 0..MaxEvents
      BY <1>2, <1>3, CopyCutsOne
    <3> QED
      BY <1>2, <3>1, <3>2 DEF HistoryOK
  <2>2. CASE /\ \E K \in SUBSET DOMAIN rest :
                  Restart(At(WriteAt(f, 0, UnitsAt(rest, K))))
             /\ UNCHANGED cut
    <3>1. PICK K \in SUBSET DOMAIN rest :
             Restart(At(WriteAt(f, 0, UnitsAt(rest, K))))
      BY <2>2
    <3> DEFINE data == UnitsAt(rest, K)
               g == WriteAt(f, 0, data)
    <3>2. data \in File /\ Len(data) \in Nat /\ Len(data) <= Len(rest)
      BY <1>5, UnitsAreFile
    <3>3. Len(data) <= Len(f) /\ Copies(g, f, data)
      BY <1>5, <3>2 DEF Copies, File
    <3> HIDE DEF data
    <3>4. Restart(At(g))
      BY <3>1 DEF data
    <3> HIDE DEF g, At
    <3>5. g \in File
      BY <1>2, <3>2, <3>3, CopyOverBeginning
    <3> QED
      BY <1>2, <2>2, <3>4, <3>5 DEF HistoryOK
  <2> QED
    BY <1>1, <2>1, <2>2
<1>7. PICK g \in File : Restart(At(g)) /\ cut' \subseteq 0..MaxEvents
  BY <1>6
<1> DEFINE d == At(g)
<1>8. Replaces(d, disk, Front.id, g) /\ Restart(d)
  BY <1>7 DEF Replaces
<1> HIDE DEF d, At
<1>9. d \in Disk
  BY <1>2, <1>4, <1>7, <1>8, OneFileChanges
<1>10. dropped \subseteq dropped' /\ dropped' \subseteq 0..MaxEvents
  BY <1>1, DroppedAreEvents DEF LooseInv
<1>11. added' \in added..MaxEvents
  BY <1>1, <1>2, StoreAssumption DEF HistoryOK
<1> QED
  BY <1>1, <1>7, <1>8, <1>9, <1>10, <1>11, RestartIsLoose

LEMMA StepIsLoose ==
    ASSUME LooseInv, [Next]_vars, torn' \/ Early' \subseteq Early PROVE LooseInv'
<1>1. ASSUME NEW n \in Sizes, AddEvent(n) PROVE LooseInv'
  BY <1>1, AddEventIsLoose
<1>2. ASSUME NEW n \in Sizes, CrashInAdd(n) PROVE LooseInv'
  BY <1>2, CrashInAddIsLoose
<1>3. CASE SendBegin
  BY <1>3, SendBeginIsLoose
<1>4. CASE PostSucceeds
  BY <1>4, PostSucceedsIsLoose
<1>5. CASE SendEnd
  BY <1>5, SendEndIsLoose
<1>6. CASE CheckEvents
  BY <1>6, CheckEventsIsLoose
<1>7. CASE DropFirst
  BY <1>7, DropFirstIsLoose
<1>8. CASE PostFails
  BY <1>8, PostFailsIsLoose
<1>9. CASE SetFileLimits
  BY <1>9, SetFileLimitsIsLoose
<1>10. CASE Crash
  BY <1>10, CrashIsLoose
<1>11. CASE CrashInShift
  BY <1>11, CrashInShiftIsLoose
<1>12. CASE UNCHANGED vars
  <2>1. UNCHANGED <<disk, limits, newestBatch, oldestBatch, oldBatches, upc, list,
                    added, accepted, confirmed, dropped, crashes, torn, cut>>
    BY <1>12 DEF vars, memory, uploader, history
  <2>2. HistoryOK' /\ ListIsFront(FALSE)'
    BY <2>1 DEF LooseInv, Structure, HistoryOK, ListIsFront
  <2> QED
    BY <2>1, <2>2, NothingIsMoved
<1> QED
  BY <1>1, <1>2, <1>3, <1>4, <1>5, <1>6, <1>7, <1>8, <1>9, <1>10, <1>11, <1>12
     DEF Next, Upload

\* An event that is accepted comes after all that were added.
LEMMA AcceptedInOrder ==
    ASSUME HistoryOK, [Next]_vars
    PROVE  /\ Early' \subseteq Early \/ accepted' = 1..added'
           /\ accepted' = 1..added' => accepted = 1..added
<1>1. accepted \subseteq 1..added /\ added \in Nat
  BY DEF HistoryOK
<1>2. CASE UNCHANGED <<added, accepted>>
  BY <1>2 DEF Early
<1>3. CASE added' = added + 1 /\ accepted' = accepted
  <2>1. added + 1 \in 1..added' /\ added + 1 \notin accepted
    BY <1>1, <1>3
  <2> QED
    BY <1>3, <2>1 DEF Early
<1>4. CASE added' = added + 1 /\ accepted' = accepted \cup {added + 1}
  <2>1. added + 1 \notin 1..added /\ 1..added' = 1..added \cup {added + 1}
        /\ (added + 1) - 1 = added
    BY <1>1, <1>4
  <2>2. accepted' = 1..added' => accepted = 1..added
    BY <1>1, <1>4, <2>1
  <2>3. ASSUME NEW e \in accepted, 1..e - 1 \subseteq accepted'
        PROVE  1..e - 1 \subseteq accepted
    <3>1. e \in 1..added
      BY <1>1
    <3>2. added + 1 \notin 1..e - 1
      BY <1>1, <3>1
    <3> QED
      BY <1>4, <2>3, <3>2
  <2>4. ASSUME 1..(added + 1) - 1 \subseteq accepted'
        PROVE  accepted' = 1..added'
    <3>1. 1..added \subseteq accepted
      BY <1>4, <2>1, <2>4
    <3> QED
      BY <1>1, <1>4, <2>1, <3>1
  <2>5. Early' \subseteq Early \/ accepted' = 1..added'
    BY <1>4, <2>3, <2>4 DEF Early
  <2> QED
    BY <2>2, <2>5
<1>5. \/ UNCHANGED <<added, accepted>>
      \/ added' = added + 1 /\ accepted' = accepted
      \/ added' = added + 1 /\ accepted' = accepted \cup {added + 1}
  <2>1. ASSUME NEW n \in Sizes, AddEvent(n)
        PROVE  /\ added' = added + 1
               /\ accepted' = accepted \/ accepted' = accepted \cup {added + 1}
    BY <2>1, Zenon DEF AddEvent, Accept, Reject, FailToWrite
  <2>2. ASSUME NEW n \in Sizes, CrashInAdd(n)
        PROVE  added' = added + 1 /\ accepted' = accepted
    BY <2>2, Zenon DEF CrashInAdd, Restart
  <2>3. CASE Upload \/ PostFails
    BY <2>3 DEF Upload, SendBegin, PostSucceeds, SendEnd, CheckEvents,
                DropFirst, PostFails, history
  <2>4. CASE SetFileLimits
    BY <2>4 DEF SetFileLimits
  <2>5. CASE Crash \/ CrashInShift
    BY <2>5, Zenon DEF Crash, CrashInShift, Restart
  <2>6. CASE UNCHANGED vars
    BY <2>6 DEF vars, history
  <2> QED
    BY <2>1, <2>2, <2>3, <2>4, <2>5, <2>6 DEF Next
<1> QED
  BY <1>2, <1>3, <1>4, <1>5

LEMMA FaultInvariance == Safety => []FaultInv
<1>1. Init => FaultInv
  BY InitIsGood, SoundIsLoose DEF FaultInv
<1>2. FaultInv /\ [Next]_vars => FaultInv'
  <2> SUFFICES ASSUME FaultInv, [Next]_vars PROVE FaultInv'
    OBVIOUS
  <2>1. /\ Early' \subseteq Early \/ accepted' = 1..added'
        /\ accepted' = 1..added' => accepted = 1..added
    BY AcceptedInOrder DEF FaultInv, LooseInv
  <2>2. torn => torn'
    BY TornStays DEF FaultInv, LooseInv, HistoryOK
  <2>3. ~ torn' /\ accepted' = 1..added' => IInv'
    BY <2>1, <2>2, StepIsGood DEF FaultInv
  <2>4. ~ torn' /\ accepted' = 1..added' => LooseInv'
    BY <2>3, SoundIsLoose, PTL
  <2>5. torn' \/ Early' \subseteq Early => LooseInv'
    BY StepIsLoose DEF FaultInv
  <2> QED
    BY <2>1, <2>3, <2>4, <2>5 DEF FaultInv
<1> QED
  BY <1>1, <1>2, PTL DEF Safety

LEMMA EarlyOnesSurvive ==
    ASSUME FaultInv PROVE EarlierEventsSurvive
<1> SUFFICES ASSUME ~ torn, NEW e \in accepted
             PROVE  \/ e \in Stored \cup Elements(confirmed) \cup dropped
                    \/ \E f \in (1..added) \ accepted : f < e
  BY DEF EarlierEventsSurvive
<1>1. accepted \subseteq 1..added /\ added \in Nat
  BY DEF FaultInv, LooseInv, HistoryOK
<1>2. CASE e \in Early
  <2>1. IsKept(e)
    BY <1>2 DEF FaultInv, LooseInv, EarlyAreKept
  <2>2. disk \in Disk
    BY FilesAreFiles DEF FaultInv, LooseInv, Structure, StoreIsConsistent
  <2>3. CASE IsPlaced(e, disk, newestBatch, oldestBatch)
    <3>1. PICK i \in Ids, j \in Nat : IsAt(e, i, j, disk)
      BY <2>3 DEF IsPlaced
    <3>2. e \in StoredIn(disk)
      BY <3>1 DEF IsAt, EventsIn, StoredIn
    <3> QED
      BY <2>2, <3>2, StoredIsStored
  <2> QED
    BY <2>1, <2>3 DEF IsKept, IsUploaded
<1>3. CASE e \notin Early
  <2>1. PICK f \in 1..e - 1 : f \notin accepted
    BY <1>3 DEF Early
  <2>2. f \in (1..added) \ accepted /\ f < e
    BY <1>1, <2>1
  <2> QED
    BY <2>2
<1> QED
  BY <1>2, <1>3

-----------------------------------------------------------------------------
(* The theorems.                                                           *)

(***************************************************************************)
(* The types, and the order of the batches: every file number is used by   *)
(* one batch only, and a batch that is older has a smaller one, whether or *)
(* not writes fail (multi_file_event_batch.cpp:15-125).                    *)
(***************************************************************************)
THEOREM TypeCorrect == Safety => []TypeOK
<1>1. ASSUME FaultInv PROVE TypeOK
  <2>1. /\ disk \in Disk /\ newestBatch.id \in Ids
        /\ oldestBatch # NoBatch => oldestBatch.id \in Ids
        /\ oldestBatch # NoBatch => oldestBatch.id < newestBatch.id
        /\ oldBatches \in Seq(Ids)
        /\ \A i \in 1..Len(oldBatches) :
             /\ oldBatches[i] < newestBatch.id
             /\ oldestBatch # NoBatch => oldestBatch.id < oldBatches[i]
        /\ \A i, j \in 1..Len(oldBatches) :
             i < j => oldBatches[i] < oldBatches[j]
    BY <1>1, FilesAreFiles
       DEF FaultInv, LooseInv, Structure, StoreIsConsistent, Consistent, BatchesKnow,
           BatchesInOrder
  <2> DEFINE start == IF oldestBatch = NoBatch THEN <<>> ELSE <<oldestBatch.id>>
             order == start \o oldBatches \o <<newestBatch.id>>
  <2>2. ASSUME NEW i \in DOMAIN order, NEW j \in DOMAIN order, i < j
        PROVE  order[i] < order[j]
    <3> DEFINE n == Len(oldBatches)
    <3>1. n \in Nat /\ DOMAIN oldBatches = 1..n
      BY <2>1
    <3>2. CASE oldestBatch = NoBatch
      <4>1. /\ order = oldBatches \o <<newestBatch.id>>
            /\ DOMAIN order = 1..n + 1
            /\ \A k \in 1..n : order[k] = oldBatches[k]
            /\ order[n + 1] = newestBatch.id
        BY <2>1, <3>1, <3>2
      <4> HIDE DEF order, n
      <4>2. i \in 1..n /\ (j \in 1..n \/ j = n + 1)
        BY <2>2, <3>1, <4>1
      <4> QED
        BY <2>1, <2>2, <4>1, <4>2 DEF n
    <3>3. CASE oldestBatch # NoBatch
      <4>1. start = <<oldestBatch.id>>
        BY <3>3
      <4>2. /\ DOMAIN order = 1..n + 2
            /\ order[1] = oldestBatch.id
            /\ \A k \in 1..n : order[k + 1] = oldBatches[k]
            /\ order[n + 2] = newestBatch.id
        BY <2>1, <3>1, <3>3, <4>1, BetweenTwo
      <4> HIDE DEF order, start, n
      <4>3. \A k \in 1..n + 2 : k = 1 \/ k = n + 2 \/ (k - 1 \in 1..n /\ (k - 1) + 1 = k)
        BY <3>1
      <4>4. CASE i = 1
        <5>1. j = n + 2 \/ (j - 1 \in 1..n /\ (j - 1) + 1 = j)
          BY <2>2, <4>2, <4>3, <4>4
        <5> QED
          BY <2>1, <3>3, <4>2, <4>4, <5>1 DEF n
      <4>5. CASE i # 1
        <5>1. i - 1 \in 1..n /\ (i - 1) + 1 = i /\ i - 1 < j - 1
          BY <2>2, <3>1, <4>2, <4>5
        <5>2. j = n + 2 \/ (j - 1 \in 1..n /\ (j - 1) + 1 = j)
          BY <2>2, <3>1, <4>2, <4>5
        <5> QED
          BY <2>1, <4>2, <5>1, <5>2 DEF n
      <4> QED
        BY <4>4, <4>5
    <3> QED
      BY <3>2, <3>3
  <2>3. \A i, j \in DOMAIN order : i < j => order[i] < order[j]
    BY <2>2
  <2>4. /\ limits \in Limits /\ upc \in {"idle", "post", "ack", "check", "drop"}
        /\ added \in 0..MaxEvents /\ accepted \subseteq 1..added
        /\ dropped \subseteq 0..MaxEvents /\ confirmed \in Seq(0..MaxEvents)
        /\ cut \subseteq 0..MaxEvents
    BY <1>1 DEF FaultInv, LooseInv, HistoryOK
  <2>5. accepted \subseteq 1..MaxEvents
    BY <2>4, StoreAssumption
  <2> HIDE DEF order, start
  <2>6. \A i \in DOMAIN confirmed : confirmed[i] \in 0..MaxEvents
    <3> SUFFICES ASSUME NEW i \in DOMAIN confirmed
                 PROVE  confirmed[i] \in 0..MaxEvents
      OBVIOUS
    <3>1. Elements(confirmed) \subseteq 0..MaxEvents
      BY <2>4, ElementsOfBoth
    <3> QED
      BY <3>1 DEF Elements
  <2>7. oldestBatch.id \in Ids \cup {NoBatch.id}
    BY <2>1
  <2>8. DOMAIN disk = Ids
    BY <2>1 DEF Disk
  <2> QED
    BY <2>1, <2>3, <2>4, <2>5, <2>6, <2>7, <2>8 DEF TypeOK, order, start
<1> QED
  BY <1>1, FaultInvariance, PTL

(***************************************************************************)
(* Whatever is added, posted, refused and interrupted, and however often   *)
(* the limits change and the process starts again, every event that        *)
(* addEvent() has accepted is in a file or has been uploaded, as long as   *)
(* write() does not fail - but for the events that a crash within the copy *)
(* of onEventsUploaded() has cut through, one for a crash at most          *)
(* (file_event_batch.cpp:68-96, 137-178; multi_file_event_batch.cpp:       *)
(* 79-125).                                                                *)
(***************************************************************************)
THEOREM AcceptedEventsStay ==
    ASSUME ~ WriteErrors PROVE Safety => []OnlyCutEventsLost
<1>1. IInv => OnlyCutEventsLost
  BY FilesAreFiles, StoredIsStored
     DEF IInv, Structure, StoreIsConsistent, AcceptedIsKept, OnlyCutEventsLost
<1> QED
  BY <1>1, Invariance, PTL

(***************************************************************************)
(* Events are confirmed in the order in which they were added, and once,   *)
(* until the process crashes for the first time                            *)
(* (multi_file_event_batch.cpp:82-91, 112-125).                            *)
(***************************************************************************)
THEOREM ConfirmedInOrder ==
    ASSUME ~ WriteErrors PROVE Safety => []InOrderOnce
<1>1. IInv => InOrderOnce
  BY DEF IInv, UploadOrder, Increases, InOrderOnce
<1> QED
  BY <1>1, Invariance, PTL

(***************************************************************************)
(* The server gets no part of an event, until a crash interrupts           *)
(* onEventsUploaded() (file_event_batch.cpp:34-59, 122-134).               *)
(***************************************************************************)
THEOREM OnlyWholeEvents ==
    ASSUME ~ WriteErrors PROVE Safety => []WholeEventsOnly
<1>1. IInv => WholeEventsOnly
  BY DEF IInv, LinesAreWhole, WholeEventsOnly
<1> QED
  BY <1>1, Invariance, PTL

(***************************************************************************)
(* What the newest and the oldest batch believe of their files is true     *)
(* (file_event_batch.cpp:78-94, 141-142, 175-177).                         *)
(***************************************************************************)
THEOREM BookkeepingStaysTrue ==
    ASSUME ~ WriteErrors PROVE Safety => []BookkeepingIsTrue
<1>1. ASSUME IInv PROVE BookkeepingIsTrue
  <2>1. /\ newestBatch.id \in Ids /\ Knows(newestBatch, disk[newestBatch.id], TRUE)
        /\ oldestBatch # NoBatch =>
             /\ oldestBatch.id \in Ids
             /\ Knows(oldestBatch, disk[oldestBatch.id], TRUE)
        /\ disk \in Disk
    BY <1>1, FilesAreFiles
       DEF IInv, Structure, StoreIsConsistent, Consistent, BatchesKnow
  <2>2. \A b : Knows(b, disk[b.id], TRUE) => FileOf(b) = disk[b.id]
    BY NoFileIsNoFile DEF Knows, FileOf
  <2> QED
    BY <2>1, <2>2 DEF BookkeepingIsTrue, Knows
<1> QED
  BY <1>1, Invariance, PTL

(***************************************************************************)
(* Also when writes fail, an event that addEvent() has accepted is in a    *)
(* file or has been uploaded, unless one that was added before it was not  *)
(* accepted (file_event_batch.cpp:53-58, 81-91).  This holds until a copy  *)
(* of onEventsUploaded() is not finished, because one of its writes fails  *)
(* or the process crashes (:152-175).                                      *)
(***************************************************************************)
THEOREM EarlierEventsStay == Safety => []EarlierEventsSurvive
<1>1. FaultInv => EarlierEventsSurvive
  BY EarlyOnesSurvive
<1> QED
  BY <1>1, FaultInvariance, PTL

(***************************************************************************)
(* The batches on disk are a queue that survives crashes: a list takes its *)
(* first events, what leaves it was in the list, and a crash takes nothing *)
(* but the event that was being added - whatever files hold the events and *)
(* whichever of them are cut, removed or begun, and until a crash leaves a *)
(* copy of onEventsUploaded() unfinished (multi_file_event_batch.cpp:      *)
(* 43-125, file_event_batch.cpp:34-178).                                   *)
(***************************************************************************)
THEOREM Refinement == ASSUME ~ WriteErrors PROVE Safety => ImplementsQueue
<1>1. Init => QInv /\ Queue!Init
  BY QueueInit
<1>2. QInv /\ [Next]_vars => QInv' /\ [Queue!Next]_(Queue!vars)
  BY QueueStep
<1> QED
  BY <1>1, <1>2, PTL DEF Safety, ImplementsQueue, Queue!Safety
=============================================================================
