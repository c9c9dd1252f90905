---------------------------- MODULE EvidenceStore ----------------------------
(***************************************************************************)
(* What persisting an event promises (include/loxguard_adapters.h, "non-OK  *)
(* means the event was not durably persisted"): the event is in exactly one *)
(* store and the caller is told so, or it is in none and the caller is told  *)
(* that.  No other event is touched.  Stores lose their contents only by a   *)
(* call that opens, closes or resets them, or by a crash.                    *)
(***************************************************************************)
EXTENDS Naturals

CONSTANTS
  Events,  \* identities of the events handed to lox_adapter_persist_event
  Stores   \* where an event may be kept

VARIABLES
  held,    \* the events each store keeps
  answer   \* the event persisted last and whether the caller was told OK

vars == <<held, answer>>

NoAnswer == [event |-> 0, ok |-> FALSE]

New(e) == \A s \in Stores : e \notin held[s]

Accept(e) ==
  /\ \E s \in Stores : held' = [held EXCEPT ![s] = @ \cup {e}]
  /\ answer' = [event |-> e, ok |-> TRUE]

Refuse(e) ==
  /\ answer' = [event |-> e, ok |-> FALSE]
  /\ UNCHANGED held

Discard ==
  /\ \E lost \in SUBSET Stores :
       held' = [s \in Stores |-> IF s \in lost THEN {} ELSE held[s]]
  /\ UNCHANGED answer

Init == held = [s \in Stores |-> {}] /\ answer = NoAnswer

Next ==
  \/ \E e \in Events : New(e) /\ (Accept(e) \/ Refuse(e))
  \/ Discard

Spec == Init /\ [][Next]_vars
=============================================================================
