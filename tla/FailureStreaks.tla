--------------------------- MODULE FailureStreaks ---------------------------
(***************************************************************************)
(* The failure streak table of loxguard.c: lox_failure_streak_for_block and *)
(* the counting lox_emit_event_ex does through the pointer it returns.      *)
(* Index StreakSlots stands for the overflow slot.                          *)
(***************************************************************************)
EXTENDS BlockNames, EventLog, Naturals, FiniteSetsExt

CONSTANTS
  StreakSlots, \* LOX_FAILURE_STREAK_SLOTS, 8 in the code
  StreakMod    \* 2^32: a streak is a uint32_t

ASSUME StreakAssumption ==
  /\ StreakSlots \in Nat \ {0}
  /\ StreakMod \in Nat \ {0}

Streak == [in_use : BOOLEAN, block_name : Texts, name_hash : Hashes,
           streak : 0 .. StreakMod - 1]

StreakTable == [0 .. StreakSlots -> Streak]

UnusedStreak == [in_use |-> FALSE, block_name |-> NoName,
                 name_hash |-> NoName, streak |-> 0]

NoStreaks == [i \in 0 .. StreakSlots |-> UnusedStreak]

(* The slots of the scan whose name test fails.  The code remembers the first
   of them as its free slot without asking whether the slot is in use. *)
PassedOver(t, k) == {i \in 0 .. StreakSlots - 1 : ~Holds(t[i], k)}

StreakAt(t, k) ==
  LET hits == {i \in 0 .. StreakSlots - 1 : Holds(t[i], k)}
  IN  IF hits # {} THEN Min(hits)
      ELSE IF PassedOver(t, k) # {} THEN Min(PassedOver(t, k))
      ELSE StreakSlots

(* Mutant: a slot taken over keeps the count of the block it belonged to. *)
StreakClaimed_KeepsCount(t, k) ==
  LET i == StreakAt(t, k)
  IN  IF i < StreakSlots /\ Holds(t[i], k) THEN t
      ELSE [t EXCEPT ![i].in_use = TRUE, ![i].block_name = Text[k],
                     ![i].name_hash = Hash[k]]

(* The table after the lookup: a slot taken over starts at 0, the overflow
   slot keeps the count of whatever block used it before. *)
StreakClaimed(t, k) ==
  LET i == StreakAt(t, k)
  IN  IF i < StreakSlots /\ Holds(t[i], k) THEN t
      ELSE [t EXCEPT ![i] =
              [in_use |-> TRUE, block_name |-> Text[k], name_hash |-> Hash[k],
               streak |-> IF i = StreakSlots THEN t[i].streak ELSE 0]]

StreakOf(t, k) == StreakClaimed(t, k)[StreakAt(t, k)].streak

(* What emitting an event of this kind does to the streak at index i. *)
StreakCounted(t, i, kind) ==
  IF kind = "OK" THEN [t EXCEPT ![i].streak = 0]
  ELSE IF kind \in IncidentKinds
       THEN [t EXCEPT ![i].streak = (@ + 1) % StreakMod]
  ELSE t
=============================================================================
