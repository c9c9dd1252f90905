----------------------------- MODULE BlockNames -----------------------------
(***************************************************************************)
(* How the library's two fixed tables (failure streaks in loxguard.c, block *)
(* states in loxguard_adapters.c) recognise a block.  A slot keeps a 64-byte *)
(* copy of the name and the FNV-1a hash of the whole name; a lookup compares *)
(* the hash and then the stored text with the whole name asked for, so a     *)
(* name longer than 63 characters never equals the text a slot kept of it.   *)
(***************************************************************************)
CONSTANTS
  Names,      \* the block names the application uses, non-empty
  NoName,     \* a NULL or empty name
  GlobalName, \* "global", the key NULL and "" stand for
  Text,       \* Text[n]: what a 64-byte field keeps of n
  Hash        \* Hash[n]: FNV-1a of all of n

Texts  == {Text[n] : n \in Names} \cup {NoName}
Hashes == {Hash[n] : n \in Names} \cup {NoName}

(* A text that a field kept fits in a field, so it is kept whole again. *)
ASSUME KeptTextsFit ==
  \A m, n \in Names : Text[m] = n => Text[n] = n

(* 32-bit collisions between names with the same first 63 characters are
   left out; names that differ in the text kept may collide. *)
ASSUME HashSeparates ==
  \A m, n \in Names : Text[m] = Text[n] /\ Hash[m] = Hash[n] => m = n

ASSUME NamesAssumption ==
  /\ NoName \notin Names
  /\ GlobalName \in Names
  /\ \A n \in Names : Text[n] # NoName

Key(b) == IF b = NoName THEN GlobalName ELSE b

(* Mutant: the hash is not compared. *)
Holds_TextOnly(slot, k) == slot.in_use /\ slot.block_name = k

(* The name test of a table slot: used, same hash, same text. *)
Holds(slot, k) ==
  /\ slot.in_use
  /\ slot.name_hash = Hash[k]
  /\ slot.block_name = k

(* Names that a slot can recognise again. *)
Fits(n) == Text[n] = n
=============================================================================
