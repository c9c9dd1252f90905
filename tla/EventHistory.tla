---------------------------- MODULE EventHistory ----------------------------
(***************************************************************************)
(* The black box as its reader sees it: a sequence of the newest events,    *)
(* each with the texts it was stored with.  The call alone decides what the *)
(* reader sees next.                                                        *)
(***************************************************************************)
EXTENDS EventLog

CONSTANTS
  Null,  \* the NULL pointer
  Kept   \* Kept[s]: what a 64-byte row keeps of text s

VARIABLES
  history, \* the events counted, oldest first
  behind,  \* behind[i]: the event that a larger count would show in place i
  called   \* history: the last call and its arguments

Blank == [kind |-> "NONE", block_name |-> NoText, reason |-> NoText]

Init ==
  /\ history = <<>>
  /\ behind = [i \in 1 .. Capacity |-> Blank]
  /\ called.op = "init"

TextOf(name) == IF name = Null THEN Kept["none"] ELSE Kept[name]

EventOf(call) ==
  [kind |-> call.kind, block_name |-> TextOf(call.block_name), reason |-> TextOf(call.reason)]

(* Places Len(history') + 1 .. Capacity keep what they hold. *)
RestBehind(place) == behind' = [i \in Len(history') + 1 .. Capacity |-> place[i]]

Record ==
  /\ called'.op = "store"
  /\ history' = Stored(history, EventOf(called'))
  /\ RestBehind(behind)

Clear ==
  /\ called'.op = "init"
  /\ history' = <<>>
  /\ RestBehind([i \in 1 .. Capacity |-> Blank])

(* The count is part of a caller-owned struct: a caller that overwrites it, as
   the import does, gets to read another number of the same events. *)
Resized ==
  LET shown == IF called'.count > Capacity THEN Capacity ELSE called'.count
      place == [i \in 1 .. Capacity |-> IF i \in DOMAIN history THEN history[i] ELSE behind[i]]
  IN  /\ called'.op = "count"
      /\ history' = [i \in 1 .. shown |-> place[i]]
      /\ RestBehind(place)

Next == called' # called /\ (Record \/ Clear \/ Resized)

Spec == Init /\ [][Next]_<<history, behind, called>>
=============================================================================
