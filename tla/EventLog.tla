------------------------------ MODULE EventLog ------------------------------
(***************************************************************************)
(* Events, and what the black box promises about them: the newest Capacity  *)
(* events, oldest first, each with the names it was stored with.            *)
(***************************************************************************)
EXTENDS Naturals, Sequences

CONSTANTS
  Capacity     \* LOX_BLACKBOX_MAX_EVENTS, 16 in the code

ASSUME CapacityAssumption == Capacity \in Nat \ {0}

(* lox_event_kind_t without NONE. *)
Kinds == {"OUT_OF_BOUNDS", "ARENA_OVERFLOW", "TIMEOUT", "MEMORY_FAULT",
          "UNSUPPORTED", "ENTERED", "OK", "COMPLETED", "ERROR", "PANIC",
          "FAULT"}

(* The kinds that count as a failure of the block. *)
IncidentKinds == Kinds \ {"ENTERED", "OK", "COMPLETED"}

(* A text that was never written: a zeroed row. *)
NoText == ""

(* The log after storing e, at the capacity the oldest event gives way. *)
Stored(log, e) ==
  IF Len(log) < Capacity THEN Append(log, e) ELSE Append(Tail(log), e)
=============================================================================
