----------------------------- MODULE MCBlackbox -----------------------------
(* Instances of Blackbox for TLC. *)
EXTENDS Blackbox

(* "long" stands for a text of more than 63 characters. *)
MCKept == [s \in Strings |-> IF s = "long" THEN "lon" ELSE s]
=============================================================================
