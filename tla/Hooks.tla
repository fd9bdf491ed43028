------------------------------- MODULE Hooks -------------------------------
(***************************************************************************)
(* The hooks of the launcher: mods replace a function of the game by       *)
(* writing the address of their own into the slots through which the       *)
(* libraries call it, and call the function, or the hook that was there    *)
(* before, through a pointer that the HookManager keeps up to date         *)
(* (mcpelauncher-core/src/hook.cpp, include/mcpelauncher/hook.h).          *)
(*                                                                         *)
(* The module is about one symbol.  It may be defined by more than one     *)
(* library (an inline function), so there may be more than one HookedSymbol*)
(* of it.  They are found by the address of a LibInfo and the index of the *)
(* symbol in its library, and are never erased: when a library is removed  *)
(* its LibInfo is deleted, and the next one may have its address and find  *)
(* its HookedSymbols.  (Those of other symbols that it may find so are left*)
(* out.)  A library that has been unloaded and is loaded again is another  *)
(* member of Libs.  A hook stands for its replacement too.  One thread     *)
(* calls the HookManager, as it has no lock.                               *)
(***************************************************************************)
EXTENDS Naturals, Sequences

CONSTANTS
    Libs,           \* handles of libraries
    Infos,          \* addresses of LibInfos
    Index,          \* Index[l]: the index of the symbol in l
    Needs,          \* Needs[l]: the libraries that l depends on
    Defines,        \* the libraries that define the symbol
    Slots,          \* relocations of the symbol that the LibInfos know
    LibOf,          \* the library of a slot
    Functions,      \* addresses that are no hook's
    Resolved,       \* what the linker resolved the symbol to in each slot
    Low,            \* what is read of an address that is read as ElfW(Word):
                    \* all of it in a 32-bit build, half of it in a 64-bit one
    HookInstances,  \* the hooks that are created
    Null

Keys == Infos \X {Index[l] : l \in Libs}

ASSUME LibsAssumption ==
    /\ Needs \in [Libs -> SUBSET Libs] /\ Defines \subseteq Libs
    /\ LibOf \in [Slots -> Libs] /\ Resolved \in [Slots -> Functions]
ASSUME NullAssumption ==
    /\ Null \notin Infos \cup Functions \cup HookInstances /\ Null \notin Keys
    /\ Functions \cap HookInstances = {}
ASSUME LowAssumption ==
    /\ Low \in [Functions \cup HookInstances -> Functions \cup HookInstances]
    /\ \A f \in Functions : Low[f] \in Functions

VARIABLES
    libs,           \* the LibInfo of each library that is registered
    gone,           \* history: libraries that have been removed
    entry,          \* LibInfo::hookedSymbols of each library, for this symbol
    symbols,        \* HookManager::hookedSymbols
    original, firstHook, lastHook,  \* its members
    symbolOf,       \* the symbol of a hook, Null before and after its life
    unused,         \* hooks that have not been created
    parent, child,
    orig,           \* *orig, a variable of the mod
    got,            \* the slots
    chain,          \* history: the hooks of a symbol, oldest first
    dirty,          \* history: hooks have changed since applyHooks()
    late            \* history: created when a symbol had lost all its hooks

hooks == <<symbolOf, unused, parent, child>>
lists == <<symbols, firstHook, lastHook, chain>>
vars == <<libs, gone, entry, original, hooks, lists, orig, got, dirty, late>>

Code == Functions \cup HookInstances
OrNull(S) == S \cup {Null}

TypeOK ==
    /\ libs \in [Libs -> OrNull(Infos)]
    /\ gone \subseteq Libs /\ symbols \subseteq Keys
    /\ entry \in [Libs -> OrNull(symbols)]
    /\ original \in [Keys -> OrNull(Code)]
    /\ {firstHook, lastHook} \subseteq [Keys -> OrNull(HookInstances)]
    /\ symbolOf \in [HookInstances -> OrNull(symbols)]
    /\ unused \subseteq HookInstances /\ late \subseteq HookInstances
    /\ {parent, child} \subseteq [HookInstances -> OrNull(HookInstances)]
    /\ orig \in [HookInstances -> OrNull(Code)]
    /\ got \in [Slots -> Code]
    /\ chain \in [Keys -> Seq(HookInstances)]
    /\ dirty \in BOOLEAN

Init ==
    /\ libs = [l \in Libs |-> Null] /\ gone = {}
    /\ entry = [l \in Libs |-> Null] /\ symbols = {}
    /\ original = [k \in Keys |-> Null]
    /\ firstHook = [k \in Keys |-> Null] /\ lastHook = firstHook
    /\ symbolOf = [h \in HookInstances |-> Null]
    /\ unused = HookInstances /\ late = {}
    /\ parent = [h \in HookInstances |-> Null] /\ child = parent
    /\ orig = [h \in HookInstances |-> Null]
    /\ got = Resolved
    /\ chain = [k \in Keys |-> <<>>]
    /\ dirty = FALSE

-----------------------------------------------------------------------------

Registered == {l \in Libs : libs[l] # Null}

\* addLibrary(): the new LibInfo may be where one was that has been deleted.
AddLibrary(l) ==
    /\ l \notin Registered
    /\ \E a \in Infos : /\ \A m \in Libs : libs[m] # a
                        /\ libs' = [libs EXCEPT ![l] = a]
    /\ UNCHANGED <<gone, entry, original, hooks, lists, orig, got, dirty, late>>

\* removeLibrary()
RemoveLibrary(l) ==
    /\ l \in Registered
    /\ libs' = [libs EXCEPT ![l] = Null]
    /\ gone' = gone \cup {l}
    /\ entry' = [entry EXCEPT ![l] = Null]
    /\ UNCHANGED <<original, hooks, lists, orig, got, dirty, late>>

\* The libraries that setHook() enters a new HookedSymbol of l in.  A library
\* that needs l but does not define the symbol enters it under the index -1,
\* which no relocation has.
Entered(l) ==
    {l} \cup {m \in Registered \cap Defines : l \in Needs[m]}

Key(l) == <<libs[l], Index[l]>>

\* getOrCreateHookSymbol(): one that is there already is not entered again.
GetOrCreateHookSymbol(l) ==
    /\ symbols' = symbols \cup {Key(l)}
    /\ entry' = [m \in Libs |->
                    IF Key(l) \notin symbols /\ m \in Entered(l)
                    THEN Key(l) ELSE entry[m]]

\* Mutant: the new hook is put in front of the list.
LinkInFront(k, h) ==
    /\ symbolOf' = [symbolOf EXCEPT ![h] = k]
    /\ firstHook' = [firstHook EXCEPT ![k] = h]
    /\ IF firstHook[k] = Null
       THEN lastHook' = [lastHook EXCEPT ![k] = h]
            /\ UNCHANGED <<parent, child, orig>>
       ELSE /\ parent' = [parent EXCEPT ![firstHook[k]] = h]
            /\ child' = [child EXCEPT ![h] = firstHook[k]]
            /\ orig' = [orig EXCEPT ![firstHook[k]] = h]
            /\ UNCHANGED lastHook

\* The new hook becomes the last one of k.
Link(k, h) ==
    /\ symbolOf' = [symbolOf EXCEPT ![h] = k]
    /\ lastHook' = [lastHook EXCEPT ![k] = h]
    /\ IF firstHook[k] = Null
       THEN /\ firstHook' = [firstHook EXCEPT ![k] = h]
            /\ UNCHANGED <<parent, child, orig>>
       ELSE /\ parent' = [parent EXCEPT ![h] = lastHook[k]]
            /\ child' = [child EXCEPT ![lastHook[k]] = h]
            /\ orig' = [orig EXCEPT ![h] = lastHook[k]]
            /\ UNCHANGED firstHook

\* createHook(); it throws for a library that is not registered or does not
\* define the symbol.
CreateHook(l, h) ==
    /\ l \in Registered \cap Defines /\ h \in unused
    /\ GetOrCreateHookSymbol(l)
    /\ Link(Key(l), h)
    /\ unused' = unused \ {h}
    /\ late' = IF firstHook[Key(l)] = Null /\ original[Key(l)] # Null
               THEN late \cup {h} ELSE late
    /\ chain' = [chain EXCEPT ![Key(l)] = Append(@, h)]
    /\ dirty' = TRUE
    /\ UNCHANGED <<libs, gone, original, got>>

Without(s, h) ==
    LET i == CHOOSE i \in 1..Len(s) : s[i] = h
    IN  [j \in 1..Len(s) - 1 |-> IF j < i THEN s[j] ELSE s[j + 1]]

\* Mutant: the hook above keeps its pointer to the one that is deleted.
DeleteHookKeepsOrig(h) ==
    LET k == symbolOf[h] p == parent[h] c == child[h]
    IN  /\ k # Null
        /\ parent' = [g \in HookInstances |-> IF g = c THEN p ELSE parent[g]]
        /\ child' = [g \in HookInstances |-> IF g = p THEN c ELSE child[g]]
        /\ firstHook' = [firstHook EXCEPT ![k] = IF @ = h THEN c ELSE @]
        /\ lastHook' = [lastHook EXCEPT ![k] = IF @ = h THEN p ELSE @]
        /\ symbolOf' = [symbolOf EXCEPT ![h] = Null]
        /\ chain' = [chain EXCEPT ![k] = Without(@, h)]
        /\ dirty' = TRUE
        /\ UNCHANGED <<libs, gone, entry, symbols, original, unused, orig, got,
                       late>>

\* deleteHook(): the hook above it now calls the one below it, or the original.
DeleteHook(h) ==
    LET k == symbolOf[h] p == parent[h] c == child[h]
    IN  /\ k # Null
        /\ parent' = [g \in HookInstances |-> IF g = c THEN p ELSE parent[g]]
        /\ orig' = [g \in HookInstances |->
                       IF g # c THEN orig[g]
                       ELSE IF p # Null THEN p ELSE original[k]]
        /\ child' = [g \in HookInstances |-> IF g = p THEN c ELSE child[g]]
        /\ firstHook' = [firstHook EXCEPT ![k] = IF @ = h THEN c ELSE @]
        /\ lastHook' = [lastHook EXCEPT ![k] = IF @ = h THEN p ELSE @]
        /\ symbolOf' = [symbolOf EXCEPT ![h] = Null]
        /\ chain' = [chain EXCEPT ![k] = Without(@, h)]
        /\ dirty' = TRUE
        /\ UNCHANGED <<libs, gone, entry, symbols, original, unused, got, late>>

\* The slots that are found for the HookedSymbol k.
Found(k) == {s \in Slots : entry[LibOf[s]] = k}

\* What applyHooks() writes into the slots found for k, Null if nothing.
Target(k) == IF lastHook[k] # Null THEN lastHook[k] ELSE original[k]

\* Mutant: a hook that is there already is taken for the original.
CapturesAgain(k) == lastHook[k] # Null /\ Found(k) # {}

\* The original of k is not known yet, and applyHooks() comes to a slot.
Captures(k) == original[k] = Null /\ lastHook[k] # Null /\ Found(k) # {}

\* applyHooks(); the libraries come in any order, and what was in the first
\* slot that is found is the original: what ElfW(Word) holds of it.
ApplyHooks ==
    /\ \E slot \in [{k \in symbols : Captures(k)} -> Slots] :
        /\ \A k \in DOMAIN slot : slot[k] \in Found(k)
        /\ original' = [k \in Keys |-> IF k \in DOMAIN slot THEN Low[got[slot[k]]]
                                       ELSE original[k]]
        /\ orig' = [h \in HookInstances |->
                       IF \E k \in DOMAIN slot : firstHook[k] = h
                       THEN Low[got[slot[symbolOf[h]]]] ELSE orig[h]]
    /\ got' = [s \in Slots |->
                  IF \E k \in symbols : s \in Found(k) /\ Target(k) # Null
                  THEN Target(entry[LibOf[s]]) ELSE got[s]]
    /\ dirty' = FALSE
    /\ UNCHANGED <<libs, gone, entry, hooks, lists, late>>

Next ==
    \/ \E l \in Libs : AddLibrary(l) \/ RemoveLibrary(l)
    \/ \E l \in Libs, h \in HookInstances : CreateHook(l, h)
    \/ \E h \in HookInstances : DeleteHook(h)
    \/ ApplyHooks

Spec == Init /\ [][Next]_vars

-----------------------------------------------------------------------------
(* Properties.                                                             *)

LinksOf(k, c, i) ==
    /\ symbolOf[c[i]] = k
    /\ parent[c[i]] = IF i = 1 THEN Null ELSE c[i - 1]
    /\ child[c[i]] = IF i = Len(c) THEN Null ELSE c[i + 1]

(***************************************************************************)
(* The pointers describe the list of the hooks that have been created and  *)
(* not deleted, in the order of their creation (hook.cpp:179-221).         *)
(***************************************************************************)
PointersAreChain ==
    \A k \in Keys :
        /\ firstHook[k] = IF chain[k] = <<>> THEN Null ELSE chain[k][1]
        /\ lastHook[k] =
               IF chain[k] = <<>> THEN Null ELSE chain[k][Len(chain[k])]
        /\ \A i \in 1..Len(chain[k]) : LinksOf(k, chain[k], i)

\* There is one HookedSymbol, and the addresses fit into an ElfW(Word): of two
\* lists the one may take a hook of the other, even one that is deleted later,
\* for the original, and in a 64-bit build the upper half of it is lost.
OneList(k) ==
    symbols = {k} /\ \A s \in Slots : Low[Resolved[s]] = Resolved[s]

LinkedTo == {Resolved[s] : s \in Slots}

(***************************************************************************)
(* When the hooks have been applied since the last change, a call through a*)
(* slot that is found runs every hook of its list, the newest first, and   *)
(* then, if there is one list and its addresses fit, a function that the   *)
(* linker has resolved the symbol to - except that the first hook of a     *)
(* symbol that has once lost all its hooks never gets a pointer to it      *)
(* (hook.cpp:84-119, 185-192, 206-221).                                    *)
(***************************************************************************)
CallRunsEveryHook ==
    ~dirty => \A k \in symbols : \A s \in Found(k) :
        LET c == chain[k] n == Len(chain[k])
        IN  n > 0 =>
              /\ got[s] = c[n]
              /\ \A i \in 2..n : orig[c[i]] = c[i - 1]
              /\ IF c[1] \in late THEN orig[c[1]] = Null
                 ELSE OneList(k) => orig[c[1]] \in LinkedTo

(***************************************************************************)
(* As long as there is one list and its addresses fit, what is captured is *)
(* a function that the linker has resolved the symbol to, never a hook; and*)
(* when the hooks have been deleted and that has been applied, it is what  *)
(* the slots hold: all of them, or, when a library has been removed, those *)
(* that are found.  (The slots of a library that is removed keep what they *)
(* hold.  When it is added again and finds its HookedSymbol, it does not   *)
(* enter it again: hook.cpp:89-117, 126-177.)                              *)
(***************************************************************************)
OriginalComesBack ==
    \A k \in symbols : OneList(k) =>
        /\ original[k] \in OrNull(LinkedTo)
        /\ ~dirty /\ chain[k] = <<>> =>
             \A s \in Slots :
                 gone = {} \/ s \in Found(k)
                   => got[s] \in {original[k], Resolved[s]}
=============================================================================
