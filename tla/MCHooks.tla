------------------------------ MODULE MCHooks ------------------------------
(***************************************************************************)
(* Hooks for TLC: the symbol is defined by the game and, inline, by a mod  *)
(* that needs the game; another mod needs the game and only imports it.    *)
(* The mod's slot has been resolved to the mod's own definition.  The index*)
(* of the symbol is the same in all of them, so that each finds what another*)
(* one has left at the address of its LibInfo, and addresses fit into an   *)
(* ElfW(Word).                                                             *)
(***************************************************************************)
EXTENDS Hooks, TLC

CONSTANTS Game, Mod, Importer, GameSlot, GamePlt, ModSlot, ImportSlot,
          GameFunction, ModFunction

NeedsValue == (Game :> {}) @@ [l \in {Mod, Importer} |-> {Game}]
LibOfValue == [s \in Slots |->
                  CASE s = ModSlot -> Mod [] s = ImportSlot -> Importer
                    [] OTHER -> Game]
ResolvedValue == [s \in Slots |->
                     IF s = ModSlot THEN ModFunction ELSE GameFunction]

IndexValue == [l \in Libs |-> 1]
LowValue == [f \in Functions \cup HookInstances |-> f]

Alike == Permutations(HookInstances) \cup Permutations(Infos)
=============================================================================
