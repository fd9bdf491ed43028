---------------------------- MODULE Hooks_proofs ----------------------------
(***************************************************************************)
(* Proofs about Hooks for any libraries, slots and hooks.  The inductive   *)
(* invariant says how the pointers, the variables of the mods and the      *)
(* slots follow from the list of the hooks in the order of their creation. *)
(***************************************************************************)
EXTENDS Hooks, TLAPS

-----------------------------------------------------------------------------
(* The inductive invariant.                                                *)

\* A hook is in one place of one list.
Distinct ==
    \A l \in Keys : \A i, j \in 1..Len(chain[l]) :
        chain[l][i] = chain[l][j] => i = j

LiveInChain ==
    \A h \in HookInstances :
        symbolOf[h] # Null =>
            \E i \in 1..Len(chain[symbolOf[h]]) : chain[symbolOf[h]][i] = h

UnusedIsFresh ==
    \A h \in unused : /\ symbolOf[h] = Null /\ h \notin late
                      /\ parent[h] = Null /\ child[h] = Null /\ orig[h] = Null

NoSymbolNoHooks ==
    \A l \in Keys \ symbols : chain[l] = <<>> /\ original[l] = Null

\* A hook calls the one below it, the first one the original.
OrigLeadsDown ==
    \A l \in Keys : \A i \in 2..Len(chain[l]) :
        orig[chain[l][i]] = chain[l][i - 1] /\ chain[l][i] \notin late

FirstLeadsOut ==
    \A l \in Keys : Len(chain[l]) > 0 =>
        IF chain[l][1] \in late
        THEN orig[chain[l][1]] = Null /\ original[l] # Null
        ELSE orig[chain[l][1]] = original[l]

UnregisteredHasNoEntry == \A m \in Libs \ Registered : entry[m] = Null

SlotsAreApplied ==
    ~dirty => \A l \in symbols : \A s \in Found(l) :
        Len(chain[l]) > 0 => got[s] = chain[l][Len(chain[l])]

Words == {Low[Resolved[s]] : s \in Slots}

\* With one list, a slot is as the linker left it until the original is known,
\* and those that are not found as long as no library has been removed.
AloneIsKept ==
    \A l \in Keys : symbols \subseteq {l} =>
        /\ original[l] = Null => got = Resolved
        /\ original[l] \in OrNull(Words)
        /\ ~dirty /\ chain[l] = <<>> =>
             \A s \in Found(l) : got[s] \in {original[l], Resolved[s]}
        /\ gone = {} => \A s \in Slots \ Found(l) : got[s] = Resolved[s]

\* When a call through a slot comes to the end of a list, there is an original.
OriginalIsKnown ==
    ~dirty => \A l \in symbols :
        Found(l) # {} /\ Len(chain[l]) > 0 => original[l] # Null

Structure == /\ PointersAreChain /\ Distinct /\ LiveInChain /\ UnusedIsFresh
             /\ NoSymbolNoHooks /\ UnregisteredHasNoEntry
Calls == /\ OrigLeadsDown /\ FirstLeadsOut /\ SlotsAreApplied /\ AloneIsKept
         /\ OriginalIsKnown
IInv == TypeOK /\ Structure /\ Calls

LEMMA InitIInv == Init => IInv
<1> SUFFICES ASSUME Init PROVE IInv
  OBVIOUS
<1> USE LibsAssumption, NullAssumption DEF Init
<1>1. TypeOK
  <2>1. got \in [Slots -> Code]
    BY DEF Code
  <2>2. chain \in [Keys -> Seq(HookInstances)]
    OBVIOUS
  <2>3. /\ entry \in [Libs -> OrNull(symbols)]
        /\ original \in [Keys -> OrNull(Code)]
        /\ firstHook \in [Keys -> OrNull(HookInstances)]
        /\ lastHook \in [Keys -> OrNull(HookInstances)]
        /\ symbolOf \in [HookInstances -> OrNull(symbols)]
        /\ parent \in [HookInstances -> OrNull(HookInstances)]
        /\ child \in [HookInstances -> OrNull(HookInstances)]
        /\ orig \in [HookInstances -> OrNull(Code)]
        /\ libs \in [Libs -> OrNull(Infos)]
    BY DEF OrNull
  <2> QED
    BY <2>1, <2>2, <2>3 DEF TypeOK
<1>2. Structure
  <2>1. PointersAreChain
    <3>1. \A l \in Keys : /\ firstHook[l] = Null /\ lastHook[l] = Null
                          /\ chain[l] = <<>>
      OBVIOUS
    <3>2. 1..Len(<<>>) = {}
      OBVIOUS
    <3> QED
      BY ONLY <3>1, <3>2, Zenon DEF PointersAreChain
  <2>2. Distinct /\ LiveInChain
    BY DEF Distinct, LiveInChain
  <2>3. UnusedIsFresh /\ NoSymbolNoHooks /\ UnregisteredHasNoEntry
    BY DEF UnusedIsFresh, NoSymbolNoHooks, UnregisteredHasNoEntry
  <2> QED
    BY <2>1, <2>2, <2>3 DEF Structure
<1>3. Calls
  BY DEF Calls, OrigLeadsDown, FirstLeadsOut, SlotsAreApplied, AloneIsKept,
         OriginalIsKnown, OrNull
<1> QED
  BY <1>1, <1>2, <1>3 DEF IInv

-----------------------------------------------------------------------------
(* Libraries come and go.                                                  *)

\* What is found, and whether a library has been removed, is all that the calls
\* depend on.
LEMMA CallsStay ==
    ASSUME IInv,
           UNCHANGED <<original, symbols, chain, orig, got, dirty, late>>,
           \A k \in Keys : Found(k)' \subseteq Found(k),
           gone' = {} => gone = {} /\ \A k \in Keys : Found(k)' = Found(k)
    PROVE  Calls'
<1>1. symbols \subseteq Keys /\ Calls
  BY DEF IInv, TypeOK
<1>2. OrigLeadsDown' /\ FirstLeadsOut'
  BY <1>1 DEF Calls, OrigLeadsDown, FirstLeadsOut
<1>3. SlotsAreApplied' /\ OriginalIsKnown'
  BY <1>1 DEF Calls, SlotsAreApplied, OriginalIsKnown
<1>4. AloneIsKept'
  BY <1>1 DEF Calls, AloneIsKept
<1> QED
  BY <1>2, <1>3, <1>4 DEF Calls

LEMMA AddLibraryKeeps ==
    ASSUME IInv, NEW l \in Libs, AddLibrary(l)
    PROVE  IInv'
<1>1. PICK a \in Infos : libs' = [libs EXCEPT ![l] = a]
  BY DEF AddLibrary
<1>2. UNCHANGED <<gone, entry, original, symbolOf, unused, parent, child,
                  symbols, firstHook, lastHook, chain, orig, got, dirty, late>>
  BY DEF AddLibrary, hooks, lists
<1>3. TypeOK'
  <2>1. libs' \in [Libs -> OrNull(Infos)]
    BY <1>1 DEF IInv, TypeOK, OrNull
  <2> QED
    BY <1>2, <2>1 DEF IInv, TypeOK
<1>4. Registered \subseteq Registered'
  BY <1>1, NullAssumption DEF Registered, IInv, TypeOK
<1>5. Structure'
  <2>1. UnregisteredHasNoEntry'
    BY <1>2, <1>4 DEF IInv, Structure, UnregisteredHasNoEntry
  <2> QED
    BY SMTT(20), <1>2, <2>1 DEF IInv, Structure, PointersAreChain, LinksOf, Distinct,
                      LiveInChain, UnusedIsFresh, NoSymbolNoHooks
<1>6. \A k \in Keys : Found(k)' = Found(k)
  BY <1>2 DEF Found
<1>7. Calls'
  BY <1>2, <1>6, CallsStay
<1> QED
  BY <1>3, <1>5, <1>7 DEF IInv

LEMMA RemoveLibraryKeeps ==
    ASSUME IInv, NEW l \in Libs, RemoveLibrary(l)
    PROVE  IInv'
<1>1. /\ libs' = [libs EXCEPT ![l] = Null] /\ gone' = gone \cup {l}
      /\ entry' = [entry EXCEPT ![l] = Null]
      /\ UNCHANGED <<original, symbolOf, unused, parent, child,
                     symbols, firstHook, lastHook, chain, orig, got, dirty, late>>
  BY DEF RemoveLibrary, hooks, lists
<1>2. TypeOK'
  <2>1. /\ libs' \in [Libs -> OrNull(Infos)]
        /\ entry' \in [Libs -> OrNull(symbols')]
    BY <1>1 DEF IInv, TypeOK, OrNull
  <2> QED
    BY <1>1, <2>1 DEF IInv, TypeOK
<1>3. Structure'
  <2>1. Registered \subseteq Registered' \cup {l}
    BY <1>1 DEF Registered, IInv, TypeOK
  <2>2. UnregisteredHasNoEntry'
    BY <1>1, <2>1 DEF IInv, TypeOK, Structure, UnregisteredHasNoEntry
  <2> QED
    BY <1>1, <2>2 DEF IInv, Structure, PointersAreChain, LinksOf, Distinct,
                      LiveInChain, UnusedIsFresh, NoSymbolNoHooks
<1>4. \A k \in Keys : Found(k)' \subseteq Found(k)
  <2>1. \A k \in Keys : k # Null
    BY NullAssumption
  <2>2. entry \in [Libs -> OrNull(symbols)] /\ \A s \in Slots : LibOf[s] \in Libs
    BY LibsAssumption DEF IInv, TypeOK
  <2> QED
    BY <1>1, <2>1, <2>2 DEF Found
<1>5. Calls'
  <2>1. gone' # {}
    BY <1>1
  <2> QED
    BY <1>1, <1>4, <2>1, CallsStay
<1> QED
  BY <1>2, <1>3, <1>5 DEF IInv

-----------------------------------------------------------------------------
(* A hook is created.                                                      *)

\* What follows from the structure for a hook that is in a list.
LEMMA Members ==
    ASSUME IInv
    PROVE  \A k \in Keys :
              /\ chain[k] \in Seq(HookInstances) /\ Len(chain[k]) \in Nat
              /\ chain[k] = <<>> <=> Len(chain[k]) = 0
              /\ \A i \in 1..Len(chain[k]) :
                    /\ chain[k][i] \in HookInstances
                    /\ chain[k][i] # Null
                    /\ symbolOf[chain[k][i]] = k
                    /\ chain[k][i] \notin unused
<1> SUFFICES ASSUME NEW k \in Keys
             PROVE  /\ chain[k] \in Seq(HookInstances) /\ Len(chain[k]) \in Nat
                    /\ chain[k] = <<>> <=> Len(chain[k]) = 0
                    /\ \A i \in 1..Len(chain[k]) :
                          /\ chain[k][i] \in HookInstances
                          /\ chain[k][i] # Null
                          /\ symbolOf[chain[k][i]] = k
                          /\ chain[k][i] \notin unused
  OBVIOUS
<1>1. chain[k] \in Seq(HookInstances)
  BY DEF IInv, TypeOK
<1>2. \A i \in 1..Len(chain[k]) : symbolOf[chain[k][i]] = k
  BY DEF IInv, Structure, PointersAreChain, LinksOf
<1>3. \A h \in unused : symbolOf[h] = Null
  BY DEF IInv, Structure, UnusedIsFresh
<1>4. k # Null /\ Null \notin HookInstances
  BY NullAssumption
<1>5. \A i \in 1..Len(chain[k]) : chain[k][i] \in HookInstances
  BY <1>1
<1>6. Len(chain[k]) \in Nat /\ (chain[k] = <<>> <=> Len(chain[k]) = 0)
  BY <1>1
<1> QED
  BY <1>1, <1>2, <1>3, <1>4, <1>5, <1>6

\* The new values in terms of the list.
LEMMA Created ==
    ASSUME IInv, NEW m \in Libs, NEW l \in Keys, l = Key(m),
           NEW h \in HookInstances, CreateHook(m, h)
    PROVE  LET c == chain[l]
               n == Len(c)
           IN  /\ h \in unused /\ m \in Registered
               /\ chain' = [chain EXCEPT ![l] = Append(c, h)]
               /\ \A k \in Keys \ {l} : firstHook'[k] = firstHook[k]
                                        /\ lastHook'[k] = lastHook[k]
               /\ firstHook'[l] = IF n = 0 THEN h ELSE c[1]
               /\ lastHook'[l] = h
               /\ symbolOf' = [symbolOf EXCEPT ![h] = l]
               /\ \A g \in HookInstances :
                    /\ parent'[g] = IF n > 0 /\ g = h THEN c[n] ELSE parent[g]
                    /\ child'[g] = IF n > 0 /\ g = c[n] THEN h ELSE child[g]
                    /\ orig'[g] = IF n > 0 /\ g = h THEN c[n] ELSE orig[g]
               /\ unused' = unused \ {h}
               /\ late' = IF n = 0 /\ original[l] # Null THEN late \cup {h}
                          ELSE late
<1> DEFINE c == chain[l]
           n == Len(c)
<1>1. /\ n \in Nat /\ (c = <<>> <=> n = 0)
      /\ n > 0 => c[1] # Null /\ c[n] \in HookInstances
  BY Members
<1>2. /\ firstHook[l] = IF c = <<>> THEN Null ELSE c[1]
      /\ lastHook[l] = IF c = <<>> THEN Null ELSE c[n]
  BY DEF IInv, Structure, PointersAreChain
<1>3. firstHook[l] = Null <=> n = 0
  BY <1>1, <1>2
<1>4. /\ parent \in [HookInstances -> OrNull(HookInstances)]
      /\ child \in [HookInstances -> OrNull(HookInstances)]
      /\ orig \in [HookInstances -> OrNull(Code)]
      /\ firstHook \in [Keys -> OrNull(HookInstances)]
      /\ lastHook \in [Keys -> OrNull(HookInstances)]
  BY DEF IInv, TypeOK
<1> HIDE DEF c, n
<1>5. /\ \A k \in Keys \ {l} : lastHook'[k] = lastHook[k]
      /\ lastHook'[l] = h
  BY <1>4 DEF CreateHook, Link
<1>6. CASE n = 0
  <2>1. /\ firstHook' = [firstHook EXCEPT ![l] = h]
        /\ UNCHANGED <<parent, child, orig>>
    BY <1>3, <1>6 DEF CreateHook, Link
  <2>2. /\ firstHook'[l] = h
        /\ \A k \in Keys \ {l} : firstHook'[k] = firstHook[k]
    BY <1>4, <2>1
  <2> QED
    BY <1>3, <1>5, <1>6, <2>1, <2>2 DEF CreateHook, Link, c, n
<1>7. CASE n # 0
  <2>1. /\ UNCHANGED firstHook
        /\ parent' = [parent EXCEPT ![h] = c[n]]
        /\ child' = [child EXCEPT ![c[n]] = h]
        /\ orig' = [orig EXCEPT ![h] = c[n]]
        /\ firstHook[l] = c[1]
    BY <1>1, <1>2, <1>3, <1>7 DEF CreateHook, Link
  <2>2. \A g \in HookInstances :
          /\ parent'[g] = IF g = h THEN c[n] ELSE parent[g]
          /\ child'[g] = IF g = c[n] THEN h ELSE child[g]
          /\ orig'[g] = IF g = h THEN c[n] ELSE orig[g]
    BY <1>4, <2>1
  <2>3. n > 0
    BY <1>1, <1>7
  <2> QED
    BY <1>3, <1>5, <1>7, <2>1, <2>2, <2>3 DEF CreateHook, Link, c, n
<1> QED
  BY <1>6, <1>7

LEMMA CreateHookType ==
    ASSUME IInv, NEW m \in Libs, NEW l \in Keys, l = Key(m),
           NEW h \in HookInstances, CreateHook(m, h)
    PROVE  TypeOK'
<1>1. TypeOK
  BY DEF IInv
<1>2. symbols' = symbols \cup {l} /\ symbols' \subseteq Keys
  BY <1>1 DEF CreateHook, Link, GetOrCreateHookSymbol, TypeOK
<1>3. entry' \in [Libs -> OrNull(symbols')]
  BY <1>1, <1>2 DEF CreateHook, Link, GetOrCreateHookSymbol, TypeOK, OrNull
<1>4. symbolOf' \in [HookInstances -> OrNull(symbols')]
  BY <1>1, <1>2 DEF CreateHook, Link, TypeOK, OrNull
<1>5. /\ firstHook' \in [Keys -> OrNull(HookInstances)]
      /\ lastHook' \in [Keys -> OrNull(HookInstances)]
  BY <1>1 DEF CreateHook, Link, TypeOK, OrNull
<1>6. /\ parent' \in [HookInstances -> OrNull(HookInstances)]
      /\ child' \in [HookInstances -> OrNull(HookInstances)]
  BY <1>1 DEF CreateHook, Link, TypeOK, OrNull
<1>7. orig' \in [HookInstances -> OrNull(Code)]
  <2>1. /\ firstHook[l] = IF chain[l] = <<>> THEN Null ELSE chain[l][1]
        /\ lastHook[l] =
               IF chain[l] = <<>> THEN Null ELSE chain[l][Len(chain[l])]
    BY DEF IInv, Structure, PointersAreChain
  <2>2. chain[l] # <<>> => chain[l][Len(chain[l])] \in HookInstances
    BY Members
  <2> QED
    BY <1>1, <2>1, <2>2 DEF CreateHook, Link, TypeOK, OrNull, Code
<1>8. chain' \in [Keys -> Seq(HookInstances)]
  <2>1. Append(chain[l], h) \in Seq(HookInstances)
    BY <1>1 DEF TypeOK
  <2> QED
    BY <1>1, <2>1 DEF CreateHook, Link, TypeOK
<1>9. /\ unused' \subseteq HookInstances /\ late' \subseteq HookInstances
      /\ UNCHANGED <<libs, gone, original, got>> /\ dirty' \in BOOLEAN
  BY <1>1 DEF CreateHook, Link, TypeOK
<1> QED
  BY <1>1, <1>2, <1>3, <1>4, <1>5, <1>6, <1>7, <1>8, <1>9 DEF TypeOK

LEMMA CreateHookStructure ==
    ASSUME IInv, NEW m \in Libs, NEW l \in Keys, l = Key(m),
           NEW h \in HookInstances, CreateHook(m, h)
    PROVE  Structure'
<1> DEFINE c == chain[l]
           n == Len(c)
           d == Append(c, h)
<1>1. /\ h \in unused /\ m \in Registered
      /\ \A k \in Keys \ {l} : firstHook'[k] = firstHook[k]
                               /\ lastHook'[k] = lastHook[k]
      /\ firstHook'[l] = IF n = 0 THEN h ELSE c[1]
      /\ lastHook'[l] = h
      /\ \A g \in HookInstances :
           /\ parent'[g] = IF n > 0 /\ g = h THEN c[n] ELSE parent[g]
           /\ child'[g] = IF n > 0 /\ g = c[n] THEN h ELSE child[g]
           /\ orig'[g] = IF n > 0 /\ g = h THEN c[n] ELSE orig[g]
      /\ unused' = unused \ {h}
      /\ late' = IF n = 0 /\ original[l] # Null THEN late \cup {h} ELSE late
  BY Created
<1>2. /\ c \in Seq(HookInstances) /\ n \in Nat
      /\ \A i \in 1..n : c[i] \in HookInstances /\ c[i] \notin unused
  BY Members
<1>3. /\ chain'[l] = d /\ \A k \in Keys \ {l} : chain'[k] = chain[k]
      /\ symbolOf'[h] = l
      /\ \A g \in HookInstances \ {h} : symbolOf'[g] = symbolOf[g]
  BY Created DEF IInv, TypeOK
<1>4. /\ d \in Seq(HookInstances) /\ Len(d) = n + 1 /\ d[n + 1] = h
      /\ \A i \in 1..n : d[i] = c[i]
  BY <1>2
<1>5. PointersAreChain /\ Distinct /\ LiveInChain /\ UnusedIsFresh
      /\ NoSymbolNoHooks /\ UnregisteredHasNoEntry
  BY DEF IInv, Structure
<1>6. \A i \in 1..n : c[i] # h
  BY <1>1, <1>2
<1> HIDE DEF c, n, d
<1> DEFINE Linked(k, e, i) ==
             /\ symbolOf'[e[i]] = k
             /\ parent'[e[i]] = IF i = 1 THEN Null ELSE e[i - 1]
             /\ child'[e[i]] = IF i = Len(e) THEN Null ELSE e[i + 1]
<1>7. PointersAreChain'
  <2>1. ASSUME NEW k \in Keys, k # l
        PROVE  /\ firstHook'[k] = IF chain'[k] = <<>> THEN Null ELSE chain'[k][1]
               /\ lastHook'[k] = IF chain'[k] = <<>> THEN Null
                                 ELSE chain'[k][Len(chain'[k])]
               /\ \A i \in 1..Len(chain'[k]) : Linked(k, chain'[k], i)
    <3>1. chain'[k] = chain[k]
      BY <1>3, <2>1
    <3>2. /\ firstHook[k] = IF chain[k] = <<>> THEN Null ELSE chain[k][1]
          /\ lastHook[k] = IF chain[k] = <<>> THEN Null
                           ELSE chain[k][Len(chain[k])]
      BY <1>5 DEF PointersAreChain
    <3>3. ASSUME NEW i \in 1..Len(chain[k])
          PROVE  Linked(k, chain[k], i)
      <4>1. LinksOf(k, chain[k], i)
        BY <1>5 DEF PointersAreChain
      <4>2. /\ chain[k][i] \in HookInstances /\ symbolOf[chain[k][i]] = k
            /\ chain[k][i] \notin unused
        BY Members
      <4>3. n > 0 => symbolOf[c[n]] = l
        BY <1>2, Members DEF c, n
      <4>4. chain[k][i] # h /\ (n > 0 => chain[k][i] # c[n])
        BY <1>1, <2>1, <4>2, <4>3
      <4>5. /\ parent'[chain[k][i]] = parent[chain[k][i]]
            /\ child'[chain[k][i]] = child[chain[k][i]]
            /\ symbolOf'[chain[k][i]] = symbolOf[chain[k][i]]
        BY <1>1, <1>3, <4>2, <4>4
      <4> QED
        BY <3>1, <4>1, <4>5 DEF LinksOf
    <3> QED
      BY <1>1, <2>1, <3>1, <3>2, <3>3
  <2>2. /\ firstHook'[l] = IF d = <<>> THEN Null ELSE d[1]
        /\ lastHook'[l] = IF d = <<>> THEN Null ELSE d[Len(d)]
    BY <1>1, <1>2, <1>4
  <2>3. ASSUME NEW i \in 1..Len(d)
        PROVE  Linked(l, d, i)
    <3>1. CASE i \in 1..n
      <4>1. LinksOf(l, c, i)
        BY <1>5, <3>1 DEF PointersAreChain, c, n
      <4>2. d[i] = c[i] /\ c[i] \in HookInstances \ {h}
        BY <1>2, <1>4, <1>6, <3>1
      <4>3. c[i] = c[n] <=> i = n
        BY <1>2, <1>5, <3>1 DEF Distinct, c, n
      <4>4. symbolOf'[d[i]] = l
        BY <1>3, <4>1, <4>2 DEF LinksOf
      <4>5. parent'[d[i]] = IF i = 1 THEN Null ELSE c[i - 1]
        BY <1>1, <4>1, <4>2 DEF LinksOf
      <4>6. child'[d[i]] = IF i = n THEN h ELSE c[i + 1]
        BY <1>1, <3>1, <1>2, <4>1, <4>2, <4>3 DEF LinksOf, n
      <4> QED
        BY <1>2, <1>4, <3>1, <4>4, <4>5, <4>6
    <3>2. CASE i = n + 1
      <4>1. d[i] = h /\ symbolOf'[h] = l
        BY <1>3, <1>4, <3>2
      <4>2. parent[h] = Null /\ child[h] = Null
        BY <1>1, <1>5 DEF UnusedIsFresh
      <4>3. child'[h] = Null
        BY <1>1, <1>2, <1>6, <4>2
      <4>4. parent'[h] = IF i = 1 THEN Null ELSE d[i - 1]
        BY <1>1, <1>2, <1>4, <3>2, <4>2
      <4> QED
        BY <1>4, <3>2, <4>1, <4>3, <4>4
    <3> QED
      BY <1>2, <1>4, <3>1, <3>2
  <2>4. \A i \in 1..Len(chain'[l]) : Linked(l, chain'[l], i)
    BY <1>3, <2>3
  <2>5. /\ firstHook'[l] = IF chain'[l] = <<>> THEN Null ELSE chain'[l][1]
        /\ lastHook'[l] = IF chain'[l] = <<>> THEN Null
                          ELSE chain'[l][Len(chain'[l])]
    BY <1>3, <2>2
  <2> QED
    BY <2>1, <2>4, <2>5 DEF PointersAreChain, LinksOf
<1>8. Distinct'
  <2>1. \A i, j \in 1..n : c[i] = c[j] => i = j
    BY <1>5 DEF Distinct, c, n
  <2>2. \A i, j \in 1..Len(d) : d[i] = d[j] => i = j
    BY <1>2, <1>4, <1>6, <2>1
  <2>3. \A k \in Keys \ {l} : \A i, j \in 1..Len(chain'[k]) :
           chain'[k][i] = chain'[k][j] => i = j
    BY <1>3, <1>5 DEF Distinct
  <2> QED
    BY <1>3, <2>2, <2>3 DEF Distinct
<1>9. LiveInChain'
  <2> SUFFICES ASSUME NEW g \in HookInstances, symbolOf'[g] # Null
               PROVE  \E i \in 1..Len(chain'[symbolOf'[g]]) :
                          chain'[symbolOf'[g]][i] = g
    BY DEF LiveInChain
  <2>1. CASE g = h
    BY <1>2, <1>3, <1>4, <2>1
  <2>2. CASE g # h
    <3>1. symbolOf'[g] = symbolOf[g]
      BY <1>3, <2>2
    <3>2. PICK i \in 1..Len(chain[symbolOf[g]]) : chain[symbolOf[g]][i] = g
      BY <1>5, <3>1 DEF LiveInChain
    <3>3. symbolOf[g] \in Keys
      BY <3>1 DEF IInv, TypeOK, OrNull
    <3> QED
      BY <1>2, <1>3, <1>4, <3>1, <3>2, <3>3 DEF c, n
  <2> QED
    BY <2>1, <2>2
<1>10. UnusedIsFresh'
  <2> SUFFICES ASSUME NEW g \in unused, g # h
               PROVE  /\ symbolOf'[g] = Null /\ g \notin late'
                      /\ parent'[g] = Null /\ child'[g] = Null /\ orig'[g] = Null
    BY <1>1 DEF UnusedIsFresh
  <2>1. /\ symbolOf[g] = Null /\ g \notin late
        /\ parent[g] = Null /\ child[g] = Null /\ orig[g] = Null
        /\ g \in HookInstances
    BY <1>5 DEF UnusedIsFresh, IInv, TypeOK
  <2>2. n > 0 => g # c[n]
    BY <1>2
  <2> QED
    BY <1>1, <1>3, <2>1, <2>2
<1>11. NoSymbolNoHooks'
  BY <1>3, <1>5 DEF NoSymbolNoHooks, CreateHook, Link, GetOrCreateHookSymbol
<1>12. UnregisteredHasNoEntry'
  <2>1. Registered' = Registered /\ Entered(m) \subseteq Registered
    BY <1>1 DEF Registered, Entered, CreateHook
  <2> QED
    BY <1>5, <2>1 DEF UnregisteredHasNoEntry, CreateHook, GetOrCreateHookSymbol
<1> QED
  BY <1>7, <1>8, <1>9, <1>10, <1>11, <1>12 DEF Structure

LEMMA CreateHookCalls ==
    ASSUME IInv, NEW m \in Libs, NEW l \in Keys, l = Key(m),
           NEW h \in HookInstances, CreateHook(m, h)
    PROVE  Calls'
<1> DEFINE c == chain[l]
           n == Len(c)
           d == Append(c, h)
<1>1. /\ h \in unused
      /\ \A g \in HookInstances :
           orig'[g] = IF n > 0 /\ g = h THEN c[n] ELSE orig[g]
      /\ late' = IF n = 0 /\ original[l] # Null THEN late \cup {h} ELSE late
      /\ UNCHANGED <<original, got>> /\ dirty' = TRUE
  <2>1. UNCHANGED <<original, got>> /\ dirty' = TRUE
    BY DEF CreateHook, Link
  <2> QED
    BY <2>1, Created
<1>2. /\ c \in Seq(HookInstances) /\ n \in Nat
      /\ \A i \in 1..n : c[i] \in HookInstances /\ c[i] \notin unused
  BY Members
<1>3. chain'[l] = d /\ \A k \in Keys \ {l} : chain'[k] = chain[k]
  BY Created DEF IInv, TypeOK
<1>4. /\ d \in Seq(HookInstances) /\ Len(d) = n + 1 /\ d[n + 1] = h
      /\ \A i \in 1..n : d[i] = c[i]
  BY <1>2
<1>5. OrigLeadsDown /\ FirstLeadsOut /\ AloneIsKept
  BY DEF IInv, Calls
<1>6. orig[h] = Null /\ h \notin late
  BY <1>1 DEF IInv, Structure, UnusedIsFresh
<1>7. \A k \in Keys : \A i \in 1..Len(chain[k]) :
         chain[k][i] \in HookInstances /\ chain[k][i] # h
  BY <1>1, Members
<1> HIDE DEF c, n, d
<1>8. OrigLeadsDown'
  <2>1. ASSUME NEW k \in Keys \ {l}, NEW i \in 2..Len(chain'[k])
        PROVE  /\ orig'[chain'[k][i]] = chain'[k][i - 1]
               /\ chain'[k][i] \notin late'
    <3>1. chain'[k] = chain[k] /\ Len(chain[k]) \in Nat
      BY <1>3, Members
    <3>2. chain[k][i] \in HookInstances /\ chain[k][i] # h
      BY <1>7, <3>1
    <3> QED
      BY <1>1, <1>5, <3>1, <3>2 DEF OrigLeadsDown
  <2>2. ASSUME NEW i \in 2..Len(d)
        PROVE  orig'[d[i]] = d[i - 1] /\ d[i] \notin late'
    <3>1. CASE i \in 2..n
      <4>1. c[i] \in HookInstances /\ c[i] # h
        BY <1>7, <1>2, <3>1 DEF c, n
      <4>2. orig[c[i]] = c[i - 1] /\ c[i] \notin late
        BY <1>5, <3>1 DEF OrigLeadsDown, c, n
      <4>3. orig'[c[i]] = c[i - 1] /\ c[i] \notin late'
        BY <1>1, <4>1, <4>2
      <4>4. d[i] = c[i] /\ d[i - 1] = c[i - 1]
        BY <1>2, <1>4, <3>1
      <4> QED
        BY <4>3, <4>4
    <3>2. CASE i = n + 1
      BY <1>1, <1>2, <1>4, <1>6, <3>2
    <3> QED
      BY <1>2, <1>4, <3>1, <3>2
  <2> QED
    BY <1>3, <2>1, <2>2 DEF OrigLeadsDown
<1>9. FirstLeadsOut'
  <2>1. ASSUME NEW k \in Keys \ {l}, Len(chain'[k]) > 0
        PROVE  IF chain'[k][1] \in late'
               THEN orig'[chain'[k][1]] = Null /\ original[k] # Null
               ELSE orig'[chain'[k][1]] = original[k]
    <3>1. chain'[k] = chain[k] /\ Len(chain[k]) \in Nat
      BY <1>3, Members
    <3>2. chain[k][1] \in HookInstances /\ chain[k][1] # h
      BY <1>7, <2>1, <3>1
    <3> QED
      BY <1>1, <1>5, <2>1, <3>1, <3>2 DEF FirstLeadsOut
  <2>2. IF d[1] \in late' THEN orig'[d[1]] = Null /\ original[l] # Null
        ELSE orig'[d[1]] = original[l]
    <3>1. CASE n = 0
      BY <1>1, <1>4, <1>6, <3>1
    <3>2. CASE n > 0
      <4>1. d[1] = c[1] /\ c[1] \in HookInstances /\ c[1] # h
        BY <1>2, <1>4, <1>7, <3>2 DEF c, n
      <4> QED
        BY <1>1, <1>5, <3>2, <4>1 DEF FirstLeadsOut, c, n
    <3> QED
      BY <1>2, <3>1, <3>2
  <2> QED
    BY <1>1, <1>3, <2>1, <2>2 DEF FirstLeadsOut
<1>10. SlotsAreApplied'
  BY <1>1 DEF SlotsAreApplied
<1>11. AloneIsKept'
  <2> SUFFICES ASSUME NEW k \in Keys, symbols' \subseteq {k}
               PROVE  /\ original[k] = Null => got = Resolved
                      /\ original[k] \in OrNull(Words)
                      /\ gone = {} =>
                           \A s \in Slots \ Found(k)' : got[s] = Resolved[s]
    BY <1>1 DEF AloneIsKept, CreateHook
  <2>1. symbols' = symbols \cup {l} /\ k = l
    BY DEF CreateHook, GetOrCreateHookSymbol
  <2>2. entry' = [e \in Libs |-> IF l \notin symbols /\ e \in Entered(m)
                                 THEN l ELSE entry[e]]
    BY DEF CreateHook, GetOrCreateHookSymbol
  <2>3. Found(k) \subseteq Found(k)'
    BY <2>1, <2>2, LibsAssumption DEF Found
  <2> QED
    BY <1>5, <2>1, <2>3 DEF AloneIsKept
<1>12. OriginalIsKnown'
  BY <1>1 DEF OriginalIsKnown
<1> QED
  BY <1>8, <1>9, <1>10, <1>11, <1>12 DEF Calls

-----------------------------------------------------------------------------
(* A hook is deleted.                                                      *)

\* Without() takes out the place where the hook is.
LEMMA WithoutIs ==
    ASSUME NEW s \in Seq(HookInstances), NEW i \in 1..Len(s),
           \A a, b \in 1..Len(s) : s[a] = s[b] => a = b
    PROVE  /\ Without(s, s[i]) \in Seq(HookInstances)
           /\ Len(Without(s, s[i])) = Len(s) - 1
           /\ \A j \in 1..Len(s) - 1 :
                 Without(s, s[i])[j] = IF j < i THEN s[j] ELSE s[j + 1]
<1> DEFINE P(k) == k \in 1..Len(s) /\ s[k] = s[i]
<1>1. (CHOOSE k \in 1..Len(s) : s[k] = s[i]) = i
  OBVIOUS
<1>2. Without(s, s[i]) =
         [j \in 1..Len(s) - 1 |-> IF j < i THEN s[j] ELSE s[j + 1]]
  BY <1>1 DEF Without
<1>3. Len(s) - 1 \in Nat
  OBVIOUS
<1>4. \A j \in 1..Len(s) - 1 :
         (IF j < i THEN s[j] ELSE s[j + 1]) \in HookInstances
  OBVIOUS
<1> HIDE DEF P
<1> QED
  BY <1>2, <1>3, <1>4

\* The new values in terms of the list and the place of the hook in it.
LEMMA Deleted ==
    ASSUME IInv, NEW h \in HookInstances, DeleteHook(h),
           NEW i \in 1..Len(chain[symbolOf[h]]), chain[symbolOf[h]][i] = h
    PROVE  LET l == symbolOf[h]
               c == chain[l]
               n == Len(c)
               d == Without(c, h)
               p == IF i = 1 THEN Null ELSE c[i - 1]
               q == IF i = n THEN Null ELSE c[i + 1]
           IN  /\ l \in Keys /\ l \in symbols
               /\ chain'[l] = d /\ \A k \in Keys \ {l} : chain'[k] = chain[k]
               /\ d \in Seq(HookInstances) /\ Len(d) = n - 1
               /\ \A j \in 1..n - 1 :
                     d[j] = IF j < i THEN c[j] ELSE c[j + 1]
               /\ \A k \in Keys \ {l} : firstHook'[k] = firstHook[k]
                                        /\ lastHook'[k] = lastHook[k]
               /\ firstHook'[l] = IF i = 1 THEN q ELSE c[1]
               /\ lastHook'[l] = IF i = n THEN p ELSE c[n]
               /\ symbolOf'[h] = Null
               /\ \A g \in HookInstances \ {h} : symbolOf'[g] = symbolOf[g]
               /\ \A g \in HookInstances :
                    /\ parent'[g] = IF g = q THEN p ELSE parent[g]
                    /\ child'[g] = IF g = p THEN q ELSE child[g]
                    /\ orig'[g] = IF g # q THEN orig[g]
                                  ELSE IF i # 1 THEN p ELSE original[l]
<1> DEFINE l == symbolOf[h]
           c == chain[l]
           n == Len(c)
           d == Without(c, h)
           p == IF i = 1 THEN Null ELSE c[i - 1]
           q == IF i = n THEN Null ELSE c[i + 1]
<1>1. l \in symbols /\ l \in Keys
  BY DEF DeleteHook, IInv, TypeOK, OrNull
<1>2. /\ c \in Seq(HookInstances) /\ n \in Nat
      /\ \A j \in 1..n : c[j] \in HookInstances /\ c[j] # Null
  BY <1>1, Members
<1>3. LinksOf(l, c, i) /\ c # <<>>
      /\ firstHook[l] = c[1] /\ lastHook[l] = c[n]
  <2>1. c # <<>>
    BY <1>2
  <2> QED
    BY <1>1, <2>1 DEF IInv, Structure, PointersAreChain
<1>4. \A a, b \in 1..n : c[a] = c[b] => a = b
  BY <1>1 DEF IInv, Structure, Distinct
<1>5. /\ d \in Seq(HookInstances) /\ Len(d) = n - 1
      /\ \A j \in 1..n - 1 : d[j] = IF j < i THEN c[j] ELSE c[j + 1]
  <2>1. c[i] = h /\ i \in 1..Len(c)
    OBVIOUS
  <2> HIDE DEF l, c
  <2>2. /\ Without(c, c[i]) \in Seq(HookInstances)
        /\ Len(Without(c, c[i])) = Len(c) - 1
        /\ \A j \in 1..Len(c) - 1 :
              Without(c, c[i])[j] = IF j < i THEN c[j] ELSE c[j + 1]
    BY <1>2, <1>4, <2>1, WithoutIs
  <2> QED
    BY <2>1, <2>2
<1>6. parent[h] = p /\ child[h] = q
  BY <1>3 DEF LinksOf
<1>7. p # Null <=> i # 1
  BY <1>2
<1> HIDE DEF p, q
<1>8. \A g \in HookInstances :
        /\ parent'[g] = IF g = q THEN p ELSE parent[g]
        /\ child'[g] = IF g = p THEN q ELSE child[g]
        /\ orig'[g] = IF g # q THEN orig[g]
                      ELSE IF i # 1 THEN p ELSE original[l]
  BY <1>6, <1>7 DEF DeleteHook
<1>9. chain'[l] = d /\ \A k \in Keys \ {l} : chain'[k] = chain[k]
  BY <1>1 DEF DeleteHook, IInv, TypeOK
<1>10. /\ symbolOf'[h] = Null
       /\ \A g \in HookInstances \ {h} : symbolOf'[g] = symbolOf[g]
  BY DEF DeleteHook, IInv, TypeOK
<1>11. /\ \A k \in Keys \ {l} : firstHook'[k] = firstHook[k]
                                /\ lastHook'[k] = lastHook[k]
       /\ firstHook'[l] = IF firstHook[l] = h THEN q ELSE firstHook[l]
       /\ lastHook'[l] = IF lastHook[l] = h THEN p ELSE lastHook[l]
  BY <1>1, <1>6 DEF DeleteHook, IInv, TypeOK
<1>12. (c[1] = h <=> i = 1) /\ (c[n] = h <=> i = n)
  BY <1>2, <1>4
<1>13. /\ firstHook'[l] = IF i = 1 THEN q ELSE c[1]
       /\ lastHook'[l] = IF i = n THEN p ELSE c[n]
  BY <1>3, <1>11, <1>12
<1> HIDE DEF l, c, n, d
<1>14. /\ l \in Keys /\ l \in symbols
       /\ chain'[l] = d /\ \A k \in Keys \ {l} : chain'[k] = chain[k]
       /\ d \in Seq(HookInstances) /\ Len(d) = n - 1
       /\ \A j \in 1..n - 1 : d[j] = IF j < i THEN c[j] ELSE c[j + 1]
       /\ \A k \in Keys \ {l} : firstHook'[k] = firstHook[k]
                                /\ lastHook'[k] = lastHook[k]
       /\ firstHook'[l] = IF i = 1 THEN q ELSE c[1]
       /\ lastHook'[l] = IF i = n THEN p ELSE c[n]
       /\ symbolOf'[h] = Null
       /\ \A g \in HookInstances \ {h} : symbolOf'[g] = symbolOf[g]
       /\ \A g \in HookInstances :
            /\ parent'[g] = IF g = q THEN p ELSE parent[g]
            /\ child'[g] = IF g = p THEN q ELSE child[g]
            /\ orig'[g] = IF g # q THEN orig[g]
                          ELSE IF i # 1 THEN p ELSE original[l]
  BY <1>1, <1>5, <1>8, <1>9, <1>10, <1>11, <1>13
<1> QED
  BY <1>14, Zenon DEF l, c, n, d, p, q

LEMMA DeleteHookType ==
    ASSUME IInv, NEW h \in HookInstances, DeleteHook(h)
    PROVE  TypeOK'
<1>1. PICK i \in 1..Len(chain[symbolOf[h]]) : chain[symbolOf[h]][i] = h
  BY DEF DeleteHook, IInv, Structure, LiveInChain
<1>2. TypeOK
  BY DEF IInv
<1>3. /\ UNCHANGED <<libs, gone, entry, symbols, original, unused, got, late>>
      /\ dirty' = TRUE
  BY DEF DeleteHook
<1>4. /\ symbolOf[h] \in Keys /\ parent[h] \in OrNull(HookInstances)
      /\ child[h] \in OrNull(HookInstances)
  BY <1>2 DEF DeleteHook, TypeOK, OrNull
<1>5. /\ symbolOf' \in [HookInstances -> OrNull(symbols')]
      /\ parent' \in [HookInstances -> OrNull(HookInstances)]
      /\ child' \in [HookInstances -> OrNull(HookInstances)]
  BY <1>2, <1>3, <1>4 DEF DeleteHook, TypeOK, OrNull
<1>6. /\ firstHook' \in [Keys -> OrNull(HookInstances)]
      /\ lastHook' \in [Keys -> OrNull(HookInstances)]
  BY <1>2, <1>4 DEF DeleteHook, TypeOK
<1>7. orig' \in [HookInstances -> OrNull(Code)]
  BY <1>2, <1>4 DEF DeleteHook, TypeOK, OrNull, Code
<1>8. chain' \in [Keys -> Seq(HookInstances)]
  <2>1. Without(chain[symbolOf[h]], h) \in Seq(HookInstances)
    BY <1>1, Deleted
  <2> QED
    BY <1>2, <2>1 DEF DeleteHook, TypeOK
<1> QED
  BY <1>2, <1>3, <1>5, <1>6, <1>7, <1>8 DEF TypeOK

LEMMA DeleteHookStructure ==
    ASSUME IInv, NEW h \in HookInstances, DeleteHook(h)
    PROVE  Structure'
<1>1. PICK i \in 1..Len(chain[symbolOf[h]]) : chain[symbolOf[h]][i] = h
  BY DEF DeleteHook, IInv, Structure, LiveInChain
<1> DEFINE l == symbolOf[h]
           c == chain[l]
           n == Len(c)
           d == Without(c, h)
           p == IF i = 1 THEN Null ELSE c[i - 1]
           q == IF i = n THEN Null ELSE c[i + 1]
<1>2. /\ l \in Keys /\ l \in symbols
      /\ chain'[l] = d /\ \A k \in Keys \ {l} : chain'[k] = chain[k]
      /\ d \in Seq(HookInstances) /\ Len(d) = n - 1
      /\ \A j \in 1..n - 1 : d[j] = IF j < i THEN c[j] ELSE c[j + 1]
      /\ \A k \in Keys \ {l} : firstHook'[k] = firstHook[k]
                               /\ lastHook'[k] = lastHook[k]
      /\ firstHook'[l] = IF i = 1 THEN q ELSE c[1]
      /\ lastHook'[l] = IF i = n THEN p ELSE c[n]
      /\ symbolOf'[h] = Null
      /\ \A g \in HookInstances \ {h} : symbolOf'[g] = symbolOf[g]
      /\ \A g \in HookInstances :
           /\ parent'[g] = IF g = q THEN p ELSE parent[g]
           /\ child'[g] = IF g = p THEN q ELSE child[g]
           /\ orig'[g] = IF g # q THEN orig[g]
                         ELSE IF i # 1 THEN p ELSE original[l]
  BY <1>1, Deleted
<1>3. /\ c \in Seq(HookInstances) /\ n \in Nat /\ i \in 1..n /\ c[i] = h
      /\ \A j \in 1..n : /\ c[j] \in HookInstances /\ c[j] # Null
                         /\ symbolOf[c[j]] = l /\ c[j] \notin unused
  BY <1>1, <1>2, Members
<1>4. /\ PointersAreChain /\ Distinct /\ LiveInChain /\ UnusedIsFresh
      /\ NoSymbolNoHooks /\ UnregisteredHasNoEntry
      /\ UNCHANGED <<libs, gone, entry, symbols, original, unused, got, late>>
  BY DEF IInv, Structure, DeleteHook
<1>5. \A a, b \in 1..n : c[a] = c[b] => a = b
  BY <1>2, <1>4 DEF Distinct
<1>6. \A j \in 1..n : /\ symbolOf[c[j]] = l
                      /\ parent[c[j]] = IF j = 1 THEN Null ELSE c[j - 1]
                      /\ child[c[j]] = IF j = n THEN Null ELSE c[j + 1]
  BY <1>2, <1>4 DEF PointersAreChain, LinksOf
<1>7. \A g \in HookInstances : symbolOf[g] # l => g # p /\ g # q
  <2>1. /\ p # Null => p \in HookInstances /\ symbolOf[p] = l
        /\ q # Null => q \in HookInstances /\ symbolOf[q] = l
        /\ Null \notin HookInstances
    BY <1>3, NullAssumption
  <2> QED
    BY <2>1
<1> HIDE DEF l, c, n, d, p, q
<1> DEFINE Linked(k, e, j) ==
             /\ symbolOf'[e[j]] = k
             /\ parent'[e[j]] = IF j = 1 THEN Null ELSE e[j - 1]
             /\ child'[e[j]] = IF j = Len(e) THEN Null ELSE e[j + 1]
<1>8. PointersAreChain'
  <2>1. ASSUME NEW k \in Keys, k # l
        PROVE  /\ firstHook'[k] = IF chain'[k] = <<>> THEN Null ELSE chain'[k][1]
               /\ lastHook'[k] = IF chain'[k] = <<>> THEN Null
                                 ELSE chain'[k][Len(chain'[k])]
               /\ \A j \in 1..Len(chain'[k]) : Linked(k, chain'[k], j)
    <3>1. chain'[k] = chain[k]
      BY <1>2, <2>1
    <3>2. /\ firstHook[k] = IF chain[k] = <<>> THEN Null ELSE chain[k][1]
          /\ lastHook[k] = IF chain[k] = <<>> THEN Null
                           ELSE chain[k][Len(chain[k])]
      BY <1>4 DEF PointersAreChain
    <3>3. ASSUME NEW j \in 1..Len(chain[k])
          PROVE  Linked(k, chain[k], j)
      <4>1. LinksOf(k, chain[k], j)
        BY <1>4 DEF PointersAreChain
      <4>2. chain[k][j] \in HookInstances /\ symbolOf[chain[k][j]] = k
        BY Members
      <4>3. symbolOf[h] = l
        BY DEF l
      <4>4. chain[k][j] # h /\ chain[k][j] # p /\ chain[k][j] # q
        BY <1>7, <2>1, <4>2, <4>3
      <4>5. /\ parent'[chain[k][j]] = parent[chain[k][j]]
            /\ child'[chain[k][j]] = child[chain[k][j]]
            /\ symbolOf'[chain[k][j]] = symbolOf[chain[k][j]]
        BY <1>2, <4>2, <4>4
      <4> QED
        BY <4>1, <4>5 DEF LinksOf
    <3> HIDE DEF Linked
    <3> QED
      BY <1>2, <2>1, <3>1, <3>2, <3>3
  <2>2. /\ firstHook'[l] = IF d = <<>> THEN Null ELSE d[1]
        /\ lastHook'[l] = IF d = <<>> THEN Null ELSE d[Len(d)]
    <3>1. CASE n = 1
      <4>1. d = <<>> /\ p = Null /\ q = Null /\ i = 1 /\ i = n
        BY <1>2, <1>3, <3>1 DEF p, q
      <4> QED
        BY <1>2, <4>1
    <3>2. CASE n > 1
      <4>1. d # <<>> /\ 1 \in 1..n - 1 /\ n - 1 \in 1..n - 1
        BY <1>2, <1>3, <3>2
      <4>2. d[1] = IF i = 1 THEN c[2] ELSE c[1]
        BY <1>2, <1>3, <4>1
      <4>3. d[n - 1] = IF i = n THEN c[n - 1] ELSE c[n]
        BY <1>2, <1>3, <4>1
      <4>4. (i = 1 => q = c[2]) /\ (i = n => p = c[n - 1])
        BY <1>3, <3>2 DEF p, q
      <4> QED
        BY <1>2, <4>1, <4>2, <4>3, <4>4
    <3> QED
      BY <1>3, <3>1, <3>2
  <2>3. ASSUME NEW j \in 1..Len(d)
        PROVE  Linked(l, d, j)
    <3> DEFINE m == IF j < i THEN j ELSE j + 1
    <3>1. /\ j \in 1..n - 1 /\ m \in 1..n /\ m # i
          /\ d[j] = c[m] /\ c[m] \in HookInstances
      BY <1>2, <1>3
    <3>2. c[m] # h
      BY <1>3, <1>5, <3>1
    <3>3. symbolOf'[d[j]] = l
      BY <1>2, <1>6, <3>1, <3>2
    <3>4. c[m] = q <=> j = i
      <4>1. CASE i = n
        BY <1>3, <3>1, <4>1 DEF q
      <4>2. CASE i # n
        <5>1. q = c[i + 1] /\ i + 1 \in 1..n
          BY <1>3, <4>2 DEF q
        <5>2. m = i + 1 <=> j = i
          BY <1>3, <3>1
        <5> QED
          BY <1>5, <3>1, <5>1, <5>2
      <4> QED
        BY <4>1, <4>2
    <3>5. c[m] = p <=> j = i - 1
      <4>1. CASE i = 1
        BY <1>3, <3>1, <4>1 DEF p
      <4>2. CASE i # 1
        <5>1. p = c[i - 1] /\ i - 1 \in 1..n
          BY <1>3, <4>2 DEF p
        <5>2. m = i - 1 <=> j = i - 1
          BY <1>3, <3>1
        <5> QED
          BY <1>5, <3>1, <5>1, <5>2
      <4> QED
        BY <4>1, <4>2
    <3>6. parent'[d[j]] = IF j = 1 THEN Null ELSE d[j - 1]
      <4>1. parent[c[m]] = IF m = 1 THEN Null ELSE c[m - 1]
        BY <1>6, <3>1
      <4>2. CASE j = i
        <5>1. parent'[d[j]] = p
          BY <1>2, <3>1, <3>4, <4>2
        <5>2. j # 1 => d[j - 1] = c[j - 1]
          BY <1>2, <1>3, <3>1, <4>2
        <5> QED
          BY <4>2, <5>1, <5>2 DEF p
      <4>3. CASE j < i
        <5>1. parent'[d[j]] = IF j = 1 THEN Null ELSE c[j - 1]
          BY <1>2, <1>3, <3>1, <3>4, <4>1, <4>3
        <5>2. j # 1 => d[j - 1] = c[j - 1]
          BY <1>2, <1>3, <3>1, <4>3
        <5> QED
          BY <5>1, <5>2
      <4>4. CASE j > i
        <5>1. parent'[d[j]] = c[j]
          BY <1>2, <1>3, <3>1, <3>4, <4>1, <4>4
        <5>2. j # 1 /\ d[j - 1] = c[j]
          BY SMTT(20), <1>2, <1>3, <3>1, <4>4
        <5> QED
          BY <5>1, <5>2
      <4> QED
        BY <1>3, <3>1, <4>2, <4>3, <4>4
    <3>7. child'[d[j]] = IF j = n - 1 THEN Null ELSE d[j + 1]
      <4>1. child[c[m]] = IF m = n THEN Null ELSE c[m + 1]
        BY <1>6, <3>1
      <4>2. CASE j = i - 1
        <5>1. child'[d[j]] = q
          BY <1>2, <3>1, <3>5, <4>2
        <5>2. j # n - 1 => d[j + 1] = c[i + 1]
          BY <1>2, <1>3, <3>1, <4>2
        <5>3. j = n - 1 <=> i = n
          BY <1>3, <3>1, <4>2
        <5> QED
          BY <5>1, <5>2, <5>3 DEF q
      <4>3. CASE j < i - 1
        <5>1. child'[d[j]] = c[j + 1]
          BY <1>2, <1>3, <3>1, <3>5, <4>1, <4>3
        <5>2. j # n - 1 /\ d[j + 1] = c[j + 1]
          BY <1>2, <1>3, <3>1, <4>3
        <5> QED
          BY <5>1, <5>2
      <4>4. CASE j >= i
        <5>1. child'[d[j]] = IF j + 1 = n THEN Null ELSE c[j + 2]
          BY <1>2, <1>3, <3>1, <3>5, <4>1, <4>4
        <5>2. j # n - 1 => d[j + 1] = c[j + 2]
          BY <1>2, <1>3, <3>1, <4>4
        <5> QED
          BY <1>3, <3>1, <5>1, <5>2
      <4> QED
        BY <1>3, <3>1, <4>2, <4>3, <4>4
    <3> QED
      BY <1>2, <3>3, <3>6, <3>7
  <2>4. \A j \in 1..Len(chain'[l]) : Linked(l, chain'[l], j)
    BY <1>2, <2>3
  <2>5. /\ firstHook'[l] = IF chain'[l] = <<>> THEN Null ELSE chain'[l][1]
        /\ lastHook'[l] = IF chain'[l] = <<>> THEN Null
                          ELSE chain'[l][Len(chain'[l])]
    BY <1>2, <2>2
  <2> QED
    BY SMTT(20), <2>1, <2>4, <2>5 DEF PointersAreChain, LinksOf
<1>9. Distinct'
  <2>1. \A a, b \in 1..Len(d) : d[a] = d[b] => a = b
    <3> SUFFICES ASSUME NEW a \in 1..n - 1, NEW b \in 1..n - 1, d[a] = d[b]
                 PROVE  a = b
      BY <1>2
    <3> DEFINE ma == IF a < i THEN a ELSE a + 1
               mb == IF b < i THEN b ELSE b + 1
    <3>1. d[a] = c[ma] /\ d[b] = c[mb] /\ ma \in 1..n /\ mb \in 1..n
      BY <1>2, <1>3
    <3>2. ma = mb
      <4> HIDE DEF ma, mb
      <4> QED
        BY <1>5, <3>1
    <3> QED
      BY <1>3, <3>2
  <2>2. \A k \in Keys \ {l} : \A a, b \in 1..Len(chain'[k]) :
           chain'[k][a] = chain'[k][b] => a = b
    BY <1>2, <1>4 DEF Distinct
  <2> QED
    BY <1>2, <2>1, <2>2 DEF Distinct
<1>10. LiveInChain'
  <2> SUFFICES ASSUME NEW g \in HookInstances, symbolOf'[g] # Null
               PROVE  \E j \in 1..Len(chain'[symbolOf'[g]]) :
                          chain'[symbolOf'[g]][j] = g
    BY DEF LiveInChain
  <2>1. g # h /\ symbolOf'[g] = symbolOf[g]
    BY <1>2
  <2>2. PICK j \in 1..Len(chain[symbolOf[g]]) : chain[symbolOf[g]][j] = g
    BY <1>4, <2>1 DEF LiveInChain
  <2>3. symbolOf[g] \in Keys
    BY <2>1 DEF IInv, TypeOK, OrNull
  <2>4. CASE symbolOf[g] # l
    BY <1>2, <2>1, <2>2, <2>3, <2>4
  <2>5. CASE symbolOf[g] = l
    <3>1. j \in 1..n /\ c[j] = g /\ j # i
      BY <1>3, <2>1, <2>2, <2>5 DEF c, n
    <3>2. CASE j < i
      <4>1. j \in 1..n - 1 /\ d[j] = g
        BY <1>2, <1>3, <3>1, <3>2
      <4> QED
        BY <1>2, <2>1, <2>5, <4>1
    <3>3. CASE j > i
      <4>1. j - 1 \in 1..n - 1 /\ d[j - 1] = g
        BY <1>2, <1>3, <3>1, <3>3
      <4> QED
        BY <1>2, <2>1, <2>5, <4>1
    <3> QED
      BY <1>3, <3>1, <3>2, <3>3
  <2> QED
    BY <2>4, <2>5
<1>11. UnusedIsFresh'
  <2> SUFFICES ASSUME NEW g \in unused
               PROVE  /\ symbolOf'[g] = Null /\ g \notin late
                      /\ parent'[g] = Null /\ child'[g] = Null /\ orig'[g] = Null
    BY <1>4 DEF UnusedIsFresh
  <2>1. /\ symbolOf[g] = Null /\ g \notin late
        /\ parent[g] = Null /\ child[g] = Null /\ orig[g] = Null
        /\ g \in HookInstances
    BY <1>4 DEF UnusedIsFresh, IInv, TypeOK
  <2>2. symbolOf[g] # l
    BY <1>2, <2>1, NullAssumption
  <2>3. g # p /\ g # q
    BY <1>7, <2>1, <2>2
  <2> QED
    BY <1>2, <2>1, <2>3
<1>12. NoSymbolNoHooks'
  BY <1>2, <1>4 DEF NoSymbolNoHooks
<1>13. UnregisteredHasNoEntry'
  BY <1>4 DEF UnregisteredHasNoEntry, Registered
<1> QED
  BY <1>8, <1>9, <1>10, <1>11, <1>12, <1>13 DEF Structure

LEMMA DeleteHookCalls ==
    ASSUME IInv, NEW h \in HookInstances, DeleteHook(h)
    PROVE  Calls'
<1>1. PICK i \in 1..Len(chain[symbolOf[h]]) : chain[symbolOf[h]][i] = h
  BY DEF DeleteHook, IInv, Structure, LiveInChain
<1> DEFINE l == symbolOf[h]
           c == chain[l]
           n == Len(c)
           d == Without(c, h)
           p == IF i = 1 THEN Null ELSE c[i - 1]
           q == IF i = n THEN Null ELSE c[i + 1]
<1>2. /\ l \in Keys /\ l \in symbols
      /\ chain'[l] = d /\ \A k \in Keys \ {l} : chain'[k] = chain[k]
      /\ d \in Seq(HookInstances) /\ Len(d) = n - 1
      /\ \A j \in 1..n - 1 : d[j] = IF j < i THEN c[j] ELSE c[j + 1]
      /\ \A k \in Keys \ {l} : firstHook'[k] = firstHook[k]
                               /\ lastHook'[k] = lastHook[k]
      /\ firstHook'[l] = IF i = 1 THEN q ELSE c[1]
      /\ lastHook'[l] = IF i = n THEN p ELSE c[n]
      /\ symbolOf'[h] = Null
      /\ \A g \in HookInstances \ {h} : symbolOf'[g] = symbolOf[g]
      /\ \A g \in HookInstances :
           /\ parent'[g] = IF g = q THEN p ELSE parent[g]
           /\ child'[g] = IF g = p THEN q ELSE child[g]
           /\ orig'[g] = IF g # q THEN orig[g]
                         ELSE IF i # 1 THEN p ELSE original[l]
  BY <1>1, Deleted
<1>3. /\ c \in Seq(HookInstances) /\ n \in Nat /\ i \in 1..n /\ c[i] = h
      /\ \A j \in 1..n : c[j] \in HookInstances /\ c[j] # Null
  BY <1>1, <1>2, Members
<1>4. /\ UNCHANGED <<libs, gone, entry, symbols, original, unused, got, late>>
      /\ dirty' = TRUE
  BY DEF DeleteHook
<1>5. OrigLeadsDown /\ FirstLeadsOut /\ AloneIsKept
  BY DEF IInv, Calls
<1>6. \A a, b \in 1..n : c[a] = c[b] => a = b
  BY <1>2 DEF IInv, Structure, Distinct
<1>7. \A j \in 2..n : orig[c[j]] = c[j - 1] /\ c[j] \notin late
  BY <1>2, <1>5 DEF OrigLeadsDown
<1>8. IF c[1] \in late THEN orig[c[1]] = Null /\ original[l] # Null
      ELSE orig[c[1]] = original[l]
  <2>1. Len(chain[l]) > 0
    BY <1>3
  <2> QED
    BY <1>2, <1>5, <2>1 DEF FirstLeadsOut
<1>9. \A k \in Keys \ {l} : \A j \in 1..Len(chain[k]) :
         chain[k][j] \in HookInstances /\ chain[k][j] # q
  <2>1. q # Null => symbolOf[q] = l
    <3>1. i # n => i + 1 \in 1..n
      BY <1>3
    <3> QED
      BY <1>2, <3>1, Members
  <2> QED
    BY <2>1, Members
<1>10. \A j \in 1..n : c[j] = q <=> j = i + 1
  <2>1. CASE i = n
    BY <1>3, <2>1
  <2>2. CASE i # n
    <3>1. q = c[i + 1] /\ i + 1 \in 1..n
      BY <1>3, <2>2
    <3> QED
      BY <1>6, <3>1
  <2> QED
    BY <2>1, <2>2
<1> HIDE DEF l, c, n, d, q
<1>11. OrigLeadsDown'
  <2>1. ASSUME NEW j \in 2..n - 1
        PROVE  orig'[d[j]] = d[j - 1] /\ d[j] \notin late
    <3>1. CASE j < i
      <4>1. d[j] = c[j] /\ d[j - 1] = c[j - 1] /\ j \in 2..n
        BY <1>2, <1>3, <3>1
      <4>2. c[j] # q /\ c[j] \in HookInstances
        BY <1>3, <1>10, <3>1, <4>1
      <4>3. orig'[c[j]] = orig[c[j]]
        BY <1>2, <4>2
      <4> QED
        BY <1>7, <4>1, <4>3
    <3>2. CASE j = i
      <4>1. d[j] = c[j + 1] /\ d[j - 1] = c[j - 1] /\ j + 1 \in 2..n /\ i # 1
        <5>1. /\ j \in 1..n - 1 /\ j - 1 \in 1..n - 1
              /\ ~(j < i) /\ j - 1 < i /\ j + 1 \in 2..n /\ i # 1
          BY <1>3, <3>2
        <5>2. \A m \in 1..n - 1 : d[m] = IF m < i THEN c[m] ELSE c[m + 1]
          BY <1>2
        <5> QED
          BY <5>1, <5>2
      <4>2. orig'[c[j + 1]] = c[j - 1]
        BY <1>2, <1>3, <1>10, <3>2, <4>1
      <4> QED
        BY <1>7, <4>1, <4>2
    <3>3. CASE j > i
      <4>1. d[j] = c[j + 1] /\ d[j - 1] = c[j] /\ j + 1 \in 2..n
        <5>1. /\ j \in 1..n - 1 /\ j - 1 \in 1..n - 1 /\ ~ (j < i)
              /\ ~ (j - 1 < i) /\ (j - 1) + 1 = j /\ j + 1 \in 2..n
          BY <1>3, <3>3
        <5> QED
          BY <1>2, <5>1
      <4>2. orig'[c[j + 1]] = orig[c[j + 1]]
        BY SMTT(20), <1>2, <1>3, <1>10, <3>3, <4>1
      <4>3. orig[c[j + 1]] = c[j] /\ c[j + 1] \notin late
        BY <1>7, <4>1
      <4> QED
        BY <4>1, <4>2, <4>3
    <3> QED
      BY <1>3, <3>1, <3>2, <3>3
  <2>2. ASSUME NEW k \in Keys \ {l}, NEW j \in 2..Len(chain[k])
        PROVE  /\ orig'[chain[k][j]] = chain[k][j - 1]
               /\ chain[k][j] \notin late
    <3>1. j \in 1..Len(chain[k])
      BY Members
    <3>2. orig'[chain[k][j]] = orig[chain[k][j]]
      BY <1>2, <1>9, <3>1
    <3> QED
      BY <1>5, <3>2 DEF OrigLeadsDown
  <2> QED
    BY <1>2, <1>4, <2>1, <2>2 DEF OrigLeadsDown
<1>12. FirstLeadsOut'
  <2>1. ASSUME n - 1 > 0
        PROVE  IF d[1] \in late THEN orig'[d[1]] = Null /\ original[l] # Null
               ELSE orig'[d[1]] = original[l]
    <3>1. CASE i = 1
      <4>1. d[1] = c[2] /\ 2 \in 2..n
        BY <1>2, <1>3, <2>1, <3>1
      <4>2. orig'[c[2]] = original[l]
        BY <1>2, <1>3, <1>10, <3>1, <4>1
      <4> QED
        BY <1>7, <4>1, <4>2
    <3>2. CASE i # 1
      <4>1. d[1] = c[1] /\ 1 \in 1..n
        BY <1>2, <1>3, <2>1, <3>2
      <4>2. orig'[c[1]] = orig[c[1]]
        BY <1>2, <1>3, <1>10, <3>2, <4>1
      <4> QED
        BY <1>8, <4>1, <4>2
    <3> QED
      BY <3>1, <3>2
  <2>2. ASSUME NEW k \in Keys \ {l}, Len(chain[k]) > 0
        PROVE  orig'[chain[k][1]] = orig[chain[k][1]]
    <3>1. 1 \in 1..Len(chain[k])
      BY <2>2, Members
    <3> QED
      BY <1>2, <1>9, <3>1
  <2>3. \A k \in Keys \ {l} : Len(chain'[k]) > 0 =>
           IF chain'[k][1] \in late
           THEN orig'[chain'[k][1]] = Null /\ original[k] # Null
           ELSE orig'[chain'[k][1]] = original[k]
    BY <1>2, <1>5, <2>2 DEF FirstLeadsOut
  <2> QED
    BY <1>2, <1>4, <2>1, <2>3 DEF FirstLeadsOut
<1>13. SlotsAreApplied' /\ AloneIsKept' /\ OriginalIsKnown'
  <2>1. \A k \in Keys : Found(k)' = Found(k)
    BY <1>4 DEF Found
  <2> QED
    BY <1>4, <1>5, <2>1 DEF SlotsAreApplied, AloneIsKept, OriginalIsKnown
<1> QED
  BY <1>11, <1>12, <1>13 DEF Calls

-----------------------------------------------------------------------------
(* The hooks are applied.                                                  *)

LEMMA ApplyHooksKeeps ==
    ASSUME IInv, ApplyHooks
    PROVE  IInv'
<1> DEFINE C == {l \in symbols : Captures(l)}
<1>1. PICK slot \in [C -> Slots] :
        /\ \A l \in C : slot[l] \in Found(l)
        /\ original' = [l \in Keys |-> IF l \in C THEN Low[got[slot[l]]]
                                       ELSE original[l]]
        /\ orig' = [h \in HookInstances |->
                       IF \E l \in C : firstHook[l] = h
                       THEN Low[got[slot[symbolOf[h]]]] ELSE orig[h]]
  <2>1. PICK slot \in [C -> Slots] :
          /\ \A l \in DOMAIN slot : slot[l] \in Found(l)
          /\ original' = [l \in Keys |-> IF l \in DOMAIN slot THEN Low[got[slot[l]]]
                                         ELSE original[l]]
          /\ orig' = [h \in HookInstances |->
                         IF \E l \in DOMAIN slot : firstHook[l] = h
                         THEN Low[got[slot[symbolOf[h]]]] ELSE orig[h]]
    BY Zenon DEF ApplyHooks
  <2>2. DOMAIN slot = C
    BY <2>1
  <2> HIDE DEF C
  <2> QED
    BY <2>1, <2>2, Zenon
<1>2. /\ got' = [s \in Slots |->
                    IF \E l \in symbols : s \in Found(l) /\ Target(l) # Null
                    THEN Target(entry[LibOf[s]]) ELSE got[s]]
      /\ dirty' = FALSE
      /\ UNCHANGED <<libs, gone, entry, symbolOf, unused, parent, child,
                     symbols, firstHook, lastHook, chain, late>>
  BY DEF ApplyHooks, hooks, lists
<1>3. TypeOK /\ C \subseteq symbols /\ symbols \subseteq Keys
  BY DEF IInv, TypeOK
<1>4. /\ PointersAreChain /\ Distinct /\ LiveInChain /\ UnusedIsFresh
      /\ NoSymbolNoHooks /\ UnregisteredHasNoEntry
      /\ OrigLeadsDown /\ FirstLeadsOut /\ AloneIsKept
  BY DEF IInv, Structure, Calls
<1>5. \A l \in C : original[l] = Null /\ lastHook[l] # Null /\ Found(l) # {}
  BY DEF Captures
<1> HIDE DEF C
<1>6. \A l \in Keys : original'[l] = IF l \in C THEN Low[got[slot[l]]]
                                     ELSE original[l]
  BY <1>1
<1>7. \A k \in Keys : Found(k)' = Found(k)
  BY <1>2 DEF Found
\* The first hook of k is found in no other list.
<1>8. ASSUME NEW k \in Keys, NEW i \in 1..Len(chain[k])
      PROVE  (\E l \in C : firstHook[l] = chain[k][i]) <=> i = 1 /\ k \in C
  <2>1. chain[k][i] # Null /\ symbolOf[chain[k][i]] = k /\ chain[k] # <<>>
    BY Members
  <2>2. \A l \in Keys : firstHook[l] # Null =>
           /\ chain[l] # <<>> /\ 1 \in 1..Len(chain[l])
           /\ firstHook[l] = chain[l][1] /\ symbolOf[firstHook[l]] = l
    BY <1>4, Members DEF PointersAreChain
  <2>3. ASSUME NEW l \in C, firstHook[l] = chain[k][i]
        PROVE  i = 1 /\ k \in C
    <3>1. l = k /\ chain[k][1] = chain[k][i] /\ 1 \in 1..Len(chain[k])
      BY <1>3, <2>1, <2>2, <2>3
    <3> QED
      BY <1>4, <3>1 DEF Distinct
  <2>4. ASSUME i = 1, k \in C
        PROVE  firstHook[k] = chain[k][i]
    BY <1>4, <2>1, <2>4 DEF PointersAreChain
  <2> QED
    BY <2>3, <2>4
<1>9. ASSUME NEW k \in Keys, NEW i \in 1..Len(chain[k])
      PROVE  orig'[chain[k][i]] = IF i = 1 /\ k \in C THEN Low[got[slot[k]]]
                                  ELSE orig[chain[k][i]]
  <2>1. chain[k][i] \in HookInstances /\ symbolOf[chain[k][i]] = k
    BY Members
  <2> QED
    BY <1>1, <1>8, <2>1
<1>10. TypeOK'
  <2> DEFINE O == OrNull(Code)
  <2>4. \A s \in Slots : Low[got[s]] \in O
    BY <1>3, LowAssumption DEF TypeOK, OrNull, Code
  <2>5. /\ \A l \in C : slot[l] \in Slots
        /\ original \in [Keys -> O] /\ orig \in [HookInstances -> O]
    BY <1>1, <1>3 DEF TypeOK
  <2> HIDE DEF O
  <2>1. original' \in [Keys -> O]
    BY <1>1, <2>4, <2>5
  <2>2. orig' \in [HookInstances -> O]
    <3>1. ASSUME NEW h \in HookInstances, NEW l \in C, firstHook[l] = h
          PROVE  symbolOf[h] = l
      <4>1. chain[l] # <<>> /\ 1 \in 1..Len(chain[l]) /\ h = chain[l][1]
        BY <1>3, <1>4, <3>1, NullAssumption, Members DEF PointersAreChain
      <4> QED
        BY <1>3, <4>1, Members
    <3>2. \A h \in HookInstances : orig'[h] \in O
      BY <1>1, <2>4, <2>5, <3>1
    <3> QED
      BY <1>1, <3>2
  <2>3. got' \in [Slots -> Code]
    <3>1. ASSUME NEW s \in Slots, NEW l \in symbols, s \in Found(l),
                 Target(l) # Null
          PROVE  Target(entry[LibOf[s]]) \in Code
      <4>1. entry[LibOf[s]] = l
        BY <3>1 DEF Found
      <4> QED
        BY <1>3, <3>1, <4>1 DEF TypeOK, Target, OrNull, Code
    <3> QED
      BY <1>2, <1>3, <3>1 DEF TypeOK
  <2> QED
    BY <1>2, <1>3, <2>1, <2>2, <2>3 DEF TypeOK, O
<1>11. Structure'
  <2>1. PointersAreChain' /\ Distinct' /\ LiveInChain' /\ UnregisteredHasNoEntry'
    BY <1>2, <1>4 DEF PointersAreChain, LinksOf, Distinct, LiveInChain,
                      UnregisteredHasNoEntry, Registered
  <2>2. UnusedIsFresh'
    <3> SUFFICES ASSUME NEW g \in unused PROVE orig'[g] = Null
      BY <1>2, <1>4 DEF UnusedIsFresh
    <3>1. g \in HookInstances /\ orig[g] = Null
      BY <1>3, <1>4 DEF UnusedIsFresh, TypeOK
    <3>2. ~ \E l \in C : firstHook[l] = g
      <4> SUFFICES ASSUME NEW l \in C, firstHook[l] = g PROVE FALSE
        OBVIOUS
      <4>1. chain[l] # <<>> /\ 1 \in 1..Len(chain[l]) /\ g = chain[l][1]
        BY <1>3, <1>4, <3>1, NullAssumption, Members DEF PointersAreChain
      <4> QED
        BY <1>3, <4>1, Members
    <3> QED
      BY <1>1, <3>1, <3>2
  <2>3. NoSymbolNoHooks'
    BY <1>2, <1>3, <1>4, <1>6 DEF NoSymbolNoHooks
  <2> QED
    BY <2>1, <2>2, <2>3 DEF Structure
<1>12. OrigLeadsDown'
  <2> SUFFICES ASSUME NEW k \in Keys, NEW i \in 2..Len(chain[k])
               PROVE  orig'[chain[k][i]] = orig[chain[k][i]]
    BY <1>2, <1>4 DEF OrigLeadsDown
  <2>1. i \in 1..Len(chain[k]) /\ i # 1
    BY Members
  <2> QED
    BY <1>9, <2>1
<1>13. FirstLeadsOut'
  <2> SUFFICES ASSUME NEW k \in Keys, Len(chain[k]) > 0
               PROVE  IF chain[k][1] \in late
                      THEN orig'[chain[k][1]] = Null /\ original'[k] # Null
                      ELSE orig'[chain[k][1]] = original'[k]
    BY <1>2 DEF FirstLeadsOut
  <2>1. 1 \in 1..Len(chain[k])
    BY Members
  <2>2. orig'[chain[k][1]] = IF k \in C THEN Low[got[slot[k]]]
                             ELSE orig[chain[k][1]]
    BY <1>9, <2>1
  <2>3. chain[k][1] \in late => original[k] # Null /\ k \notin C
    BY <1>4, <1>5 DEF FirstLeadsOut
  <2> QED
    BY <1>4, <1>6, <2>2, <2>3 DEF FirstLeadsOut
<1>14. SlotsAreApplied'
  <2> SUFFICES ASSUME NEW l \in symbols, NEW s \in Found(l), Len(chain[l]) > 0
               PROVE  got'[s] = chain[l][Len(chain[l])]
    BY <1>2, <1>3, <1>7 DEF SlotsAreApplied
  <2>1. lastHook[l] = chain[l][Len(chain[l])] /\ lastHook[l] # Null
    BY <1>3, <1>4, Members DEF PointersAreChain
  <2>2. Target(l) = lastHook[l] /\ entry[LibOf[s]] = l /\ s \in Slots
    BY <2>1 DEF Target, Found
  <2> QED
    BY <1>2, <2>1, <2>2
<1>15. AloneIsKept'
  <2> SUFFICES ASSUME NEW l \in Keys, symbols \subseteq {l}
               PROVE  /\ original'[l] = Null => got' = Resolved
                      /\ original'[l] \in OrNull(Words)
                      /\ chain[l] = <<>> =>
                           \A s \in Found(l) :
                               got'[s] \in {original'[l], Resolved[s]}
                      /\ gone = {} =>
                           \A s \in Slots \ Found(l) : got'[s] = Resolved[s]
    BY <1>2, <1>7 DEF AloneIsKept
  <2>1. /\ original[l] = Null => got = Resolved
        /\ original[l] \in OrNull(Words)
    BY <1>4 DEF AloneIsKept
  <2>2. l \in C => original'[l] \in Words
    <3> SUFFICES ASSUME l \in C PROVE original'[l] \in Words
      OBVIOUS
    <3>1. slot[l] \in Slots /\ got = Resolved
      BY <1>1, <1>5, <2>1
    <3>2. original'[l] = Low[Resolved[slot[l]]]
      BY <1>6, <3>1
    <3> QED
      BY <3>1, <3>2 DEF Words
  <2>3. l \notin C => original'[l] = original[l]
    BY <1>6
  <2>4. Null \notin Words
    BY LibsAssumption, LowAssumption, NullAssumption DEF Words
  <2>5. ASSUME l \notin C, original[l] = Null
        PROVE  got' = Resolved
    <3>1. \A k \in symbols : \A s \in Found(k) : Target(k) = Null
      <4> SUFFICES ASSUME NEW s \in Found(l), l \in symbols, Target(l) # Null
                   PROVE  FALSE
        OBVIOUS
      <4>1. lastHook[l] # Null
        BY <2>5 DEF Target
      <4> QED
        BY <2>5, <4>1 DEF Captures, C
    <3>2. got' = [s \in Slots |-> got[s]]
      BY <1>2, <3>1
    <3> QED
      BY <1>3, <2>1, <2>5, <3>2 DEF TypeOK
  <2>6. ASSUME chain[l] = <<>>, NEW s \in Found(l)
        PROVE  got'[s] \in {original'[l], Resolved[s]}
    <3>1. lastHook[l] = Null
      BY <1>4, <2>6 DEF PointersAreChain
    <3>2. l \notin C
      BY <1>5, <3>1
    <3>3. entry[LibOf[s]] = l /\ s \in Slots /\ LibOf[s] \in Libs
      BY LibsAssumption DEF Found
    <3>4. l \in symbols
      BY <1>3, <3>3, NullAssumption DEF TypeOK, OrNull
    <3>5. CASE original[l] = Null
      BY <2>5, <3>2, <3>5
    <3>6. CASE original[l] # Null
      <4>1. Target(l) = original[l]
        BY <3>1 DEF Target
      <4>2. got'[s] = original[l]
        BY <1>2, <3>3, <3>4, <3>6, <4>1
      <4> QED
        BY <2>3, <3>2, <4>2
    <3> QED
      BY <3>5, <3>6
  <2>7. ASSUME gone = {}, NEW s \in Slots \ Found(l)
        PROVE  got'[s] = Resolved[s]
    <3>1. got[s] = Resolved[s]
      BY <1>4, <2>7 DEF AloneIsKept
    <3>2. ~ \E k \in symbols : s \in Found(k) /\ Target(k) # Null
      OBVIOUS
    <3> QED
      BY <1>2, <3>1, <3>2
  <2> QED
    BY <2>1, <2>2, <2>3, <2>4, <2>5, <2>6, <2>7 DEF OrNull
<1>16. OriginalIsKnown'
  <2> SUFFICES ASSUME NEW l \in symbols, Found(l) # {}, Len(chain[l]) > 0
               PROVE  original'[l] # Null
    BY <1>2, <1>3, <1>7 DEF OriginalIsKnown
  <2>1. lastHook[l] # Null /\ l \in Keys
    BY <1>3, <1>4, Members DEF PointersAreChain
  <2>2. CASE l \in C
    <3>1. slot[l] \in Slots /\ Low[got[slot[l]]] \in Code
      BY <1>1, <1>3, <2>2, LowAssumption DEF TypeOK, Code
    <3> QED
      BY <1>6, <2>1, <2>2, <3>1, NullAssumption DEF Code
  <2>3. CASE l \notin C
    <3>1. original[l] # Null
      BY <2>1, <2>3 DEF C, Captures
    <3> QED
      BY <1>6, <2>1, <2>3, <3>1
  <2> QED
    BY <2>2, <2>3
<1> QED
  BY <1>10, <1>11, <1>12, <1>13, <1>14, <1>15, <1>16 DEF IInv, Calls

-----------------------------------------------------------------------------
(* The theorems.                                                           *)

LEMMA NextIInv == IInv /\ [Next]_vars => IInv'
<1> SUFFICES ASSUME IInv, [Next]_vars PROVE IInv'
  OBVIOUS
<1>1. CASE \E l \in Libs : AddLibrary(l) \/ RemoveLibrary(l)
  BY <1>1, AddLibraryKeeps, RemoveLibraryKeeps
<1>2. CASE \E l \in Libs, h \in HookInstances : CreateHook(l, h)
  <2>1. PICK l \in Libs, h \in HookInstances : CreateHook(l, h)
    BY <1>2
  <2>2. Key(l) \in Keys
    BY <2>1 DEF CreateHook, Registered, Key, Keys, IInv, TypeOK, OrNull
  <2> QED
    BY <2>1, <2>2, CreateHookType, CreateHookStructure, CreateHookCalls
       DEF IInv
<1>3. CASE \E h \in HookInstances : DeleteHook(h)
  BY <1>3, DeleteHookType, DeleteHookStructure, DeleteHookCalls DEF IInv
<1>4. CASE ApplyHooks
  BY <1>4, ApplyHooksKeeps
<1>5. CASE UNCHANGED vars
  <2>1. UNCHANGED <<libs, gone, entry, symbolOf, unused, parent, child,
                    symbols, firstHook, lastHook, chain, late, original, orig,
                    got, dirty>>
    BY <1>5 DEF vars, hooks, lists
  <2>2. \A k \in Keys : Found(k)' = Found(k)
    BY <2>1 DEF Found
  <2>3. TypeOK' /\ Structure'
    BY <2>1 DEF IInv, TypeOK, Structure, PointersAreChain, LinksOf, Distinct,
                LiveInChain, UnusedIsFresh, NoSymbolNoHooks,
                UnregisteredHasNoEntry, Registered
  <2>4. Calls'
    BY <2>1, <2>2, CallsStay
  <2> QED
    BY <2>3, <2>4 DEF IInv
<1> QED
  BY <1>1, <1>2, <1>3, <1>4, <1>5 DEF Next

LEMMA AlwaysIInv == Spec => []IInv
<1> QED
  BY InitIInv, NextIInv, PTL DEF Spec

\* Where the addresses fit, what is captured of them is all of them.
LEMMA WordsAreLinked ==
    ASSUME NEW k, OneList(k)
    PROVE  Words = LinkedTo
<1> QED
  BY DEF OneList, Words, LinkedTo

\* Every pointer of the HookManager and of the mods has a value of its type,
\* whatever the order of the calls.
THEOREM TypeCorrect == Spec => []TypeOK
<1>1. IInv => TypeOK
  BY DEF IInv
<1> QED
  BY AlwaysIInv, <1>1, PTL

\* The pointers describe the hooks that exist, in the order of their creation,
\* for any number of hooks and libraries (hook.cpp:179-221).
THEOREM ListsAreRight == Spec => []PointersAreChain
<1>1. IInv => PointersAreChain
  BY DEF IInv, Structure
<1> QED
  BY AlwaysIInv, <1>1, PTL

\* When the hooks have been applied since the last change, a call through a slot
\* that is found runs all of its list, the newest first.  It ends at a function
\* that the linker has resolved the symbol to, if there is one list and its
\* addresses fit into an ElfW(Word); where all hooks had once been deleted it
\* ends at a null pointer (hook.cpp:93-117, 179-221).
THEOREM EveryHookIsRun == Spec => []CallRunsEveryHook
<1>1. IInv => CallRunsEveryHook
  <2> SUFFICES ASSUME IInv, ~dirty, NEW l \in symbols, NEW s \in Found(l),
                      Len(chain[l]) > 0
               PROVE  /\ got[s] = chain[l][Len(chain[l])]
                      /\ \A i \in 2..Len(chain[l]) :
                            orig[chain[l][i]] = chain[l][i - 1]
                      /\ IF chain[l][1] \in late THEN orig[chain[l][1]] = Null
                         ELSE OneList(l) => orig[chain[l][1]] \in LinkedTo
    BY Zenon DEF CallRunsEveryHook
  <2>1. l \in Keys
    BY DEF IInv, TypeOK
  <2>2. /\ got[s] = chain[l][Len(chain[l])]
        /\ \A i \in 2..Len(chain[l]) : orig[chain[l][i]] = chain[l][i - 1]
        /\ IF chain[l][1] \in late THEN orig[chain[l][1]] = Null
           ELSE orig[chain[l][1]] = original[l]
        /\ original[l] # Null
    BY <2>1 DEF IInv, Calls, SlotsAreApplied, OrigLeadsDown, FirstLeadsOut,
                OriginalIsKnown
  <2>3. OneList(l) => original[l] \in LinkedTo
    BY <2>1, <2>2, WordsAreLinked DEF IInv, Calls, AloneIsKept, OneList, OrNull
  <2> QED
    BY <2>2, <2>3
<1> QED
  BY AlwaysIInv, <1>1, PTL

\* With one list and addresses that fit, what is captured is a function that the
\* linker has resolved the symbol to, and it is what the slots hold when the
\* hooks are gone: all of the slots while no library has been removed, those that
\* are found afterwards (hook.cpp:89-117, 126-177).
THEOREM OriginalReturns == Spec => []OriginalComesBack
<1>1. IInv => OriginalComesBack
  <2> SUFFICES ASSUME IInv, NEW k \in symbols, OneList(k)
               PROVE  /\ original[k] \in OrNull(LinkedTo)
                      /\ ~dirty /\ chain[k] = <<>> =>
                           \A s \in Slots :
                               gone = {} \/ s \in Found(k)
                                 => got[s] \in {original[k], Resolved[s]}
    BY DEF OriginalComesBack
  <2>1. k \in Keys /\ symbols \subseteq {k}
    BY DEF IInv, TypeOK, OneList
  <2>2. /\ original[k] \in OrNull(Words)
        /\ ~dirty /\ chain[k] = <<>> =>
             \A s \in Found(k) : got[s] \in {original[k], Resolved[s]}
        /\ gone = {} => \A s \in Slots \ Found(k) : got[s] = Resolved[s]
    BY <2>1 DEF IInv, Calls, AloneIsKept
  <2> QED
    BY <2>2, WordsAreLinked DEF OrNull
<1> QED
  BY AlwaysIInv, <1>1, PTL
=============================================================================
