--------------------------- MODULE MCAdapterState ---------------------------
(* Instances of AdapterState for TLC. *)
EXTENDS AdapterState

(* "long" stands for a name of more than 63 characters, whose first 63 are the
   name "a" in the second reading. *)
MCText  == [n \in Names |-> IF n = "long" THEN "lon" ELSE n]
MCTextA == [n \in Names |-> IF n = "long" THEN "a" ELSE n]
MCHash  == [n \in Names |-> n]
=============================================================================
