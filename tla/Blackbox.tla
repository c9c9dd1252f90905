------------------------------ MODULE Blackbox ------------------------------
(***************************************************************************)
(* lox_blackbox_t and the operations of loxguard.c on it.  An event's names *)
(* are pointers.  The ones the caller hands in are borrowed; the black box   *)
(* copies the texts into rows of its own, and points the events it keeps at   *)
(* those rows, moving events and rows down when it is full.                  *)
(***************************************************************************)
EXTENDS EventLog

CONSTANTS
  Strings,   \* the texts callers use, "none" among them
  Null,      \* the NULL pointer
  Kept,      \* Kept[s]: what a 64-byte row keeps of text s
  UsedKinds  \* the event kinds stored

ASSUME BlackboxAssumption ==
  /\ Null \notin Strings
  /\ "none" \in Strings
  /\ UsedKinds \subseteq Kinds

VARIABLES
  events,      \* events[i]: kind and two pointers
  block_names, \* block_names[i]: the text in row i
  reasons,     \* reasons[i]: the text in row i
  count,
  called       \* history: the last call and its arguments, and a bit that
               \* every call turns, so that none passes for a stutter

vars == <<events, block_names, reasons, count, called>>

Rows == 0 .. Capacity - 1

(* A stored event's pointer: a row of the black box, or a caller's string. *)
Row(i)      == [row |-> i, borrowed |-> Null]
Borrowed(s) == [row |-> Capacity, borrowed |-> s]

NoEvent == [kind |-> "NONE", block_name |-> Borrowed(Null), reason |-> Borrowed(Null)]

Call(op, kind, block, reason, n, turn) ==
  [op |-> op, kind |-> kind, block_name |-> block, reason |-> reason, count |-> n,
   turn |-> turn]

Calls(op, kind, block, reason, n) ==
  called' = Call(op, kind, block, reason, n, 1 - called.turn)

Init ==
  /\ events = [i \in Rows |-> NoEvent]
  /\ block_names = [i \in Rows |-> NoText]
  /\ reasons = [i \in Rows |-> NoText]
  /\ count = 0
  /\ called = Call("init", "NONE", Null, Null, 0, 0)

BlackboxInit ==
  /\ events' = [i \in Rows |-> NoEvent]
  /\ block_names' = [i \in Rows |-> NoText]
  /\ reasons' = [i \in Rows |-> NoText]
  /\ count' = 0
  /\ Calls("init", "NONE", Null, Null, 0)

Clamped == IF count > Capacity THEN Capacity ELSE count

(* memmove of rows 1 .. Capacity-1 onto 0 .. Capacity-2. *)
Shifted(f) == [i \in Rows |-> IF i = Capacity - 1 THEN f[i] ELSE f[i + 1]]

(* Mutant: the count grows although the black box is full. *)
Incremented_Always(full) == count + 1

(* The count after a store. *)
Incremented(full) == IF full THEN Capacity ELSE Clamped + 1

(* Mutant: events keep the pointers they were stored with. *)
Repointed_Never(f, n) == f

(* Mutant: only the new event is pointed at its row. *)
Repointed_NewestOnly(f, n) ==
  [f EXCEPT ![n - 1].block_name = Row(n - 1), ![n - 1].reason = Row(n - 1)]

(* Every event counted points at its own row again. *)
Repointed(f, n) ==
  [i \in Rows |-> IF i < n THEN [f[i] EXCEPT !.block_name = Row(i), !.reason = Row(i)]
                           ELSE f[i]]

Spelled(s) == IF s = Null THEN "none" ELSE s

(* Mutant: the two names change places. *)
Copied_Swapped(block, reason) ==
  [block_name |-> Kept[Spelled(reason)], reason |-> Kept[Spelled(block)]]

(* What the new event's rows are filled with. *)
Copied(block, reason) ==
  [block_name |-> Kept[Spelled(block)], reason |-> Kept[Spelled(reason)]]

BlackboxStore(kind, block, reason) ==
  LET full == Clamped = Capacity
      idx  == IF full THEN Capacity - 1 ELSE Clamped
      Moved(f) == IF full THEN Shifted(f) ELSE f
      e == [kind |-> kind, block_name |-> Borrowed(block), reason |-> Borrowed(reason)]
  IN  /\ count' = Incremented(full)
      /\ block_names' = [Moved(block_names) EXCEPT ![idx] = Copied(block, reason).block_name]
      /\ reasons' = [Moved(reasons) EXCEPT ![idx] = Copied(block, reason).reason]
      /\ events' = Repointed([Moved(events) EXCEPT ![idx] = e], idx + 1)
      /\ Calls("store", kind, block, reason, 0)

(* lox_blackbox_import_csv empties the black box by its count alone. *)
ImportCsvStart ==
  /\ count' = 0
  /\ Calls("count", "NONE", Null, Null, 0)
  /\ UNCHANGED <<events, block_names, reasons>>

(* The caller owns the struct and writes any count into it. *)
CallerSetsCount(n) ==
  /\ count' = n
  /\ Calls("count", "NONE", Null, Null, n)
  /\ UNCHANGED <<events, block_names, reasons>>

Next ==
  \/ BlackboxInit
  \/ \E kind \in UsedKinds, block, reason \in Strings \cup {Null} :
       BlackboxStore(kind, block, reason)
  \/ ImportCsvStart
  \/ \E n \in 0 .. Capacity + 1 : CallerSetsCount(n)

Spec == Init /\ [][Next]_vars

-----------------------------------------------------------------------------
(* Properties. *)

RowTexts == {Kept[s] : s \in Strings} \cup {NoText}
Pointers == {Row(i) : i \in Rows} \cup {Borrowed(s) : s \in Strings \cup {Null}}
StoredEvent == [kind : Kinds \cup {"NONE"}, block_name : Pointers, reason : Pointers]

(* The arrays keep their shape; only the caller makes the count exceed them. *)
TypeOK ==
  /\ events \in [Rows -> StoredEvent]
  /\ block_names \in [Rows -> RowTexts]
  /\ reasons \in [Rows -> RowTexts]
  /\ count \in 0 .. Capacity + 1

(* Following a pointer of a stored event; an unused row reads as empty. *)
Read(p, rows) ==
  IF p.row \in Rows THEN rows[p.row]
  ELSE IF p.borrowed = Null THEN NoText ELSE p.borrowed

(* What a reader finds in place i. *)
ReadPlace(i) ==
  [kind |-> events[i - 1].kind,
   block_name |-> Read(events[i - 1].block_name, block_names),
   reason |-> Read(events[i - 1].reason, reasons)]

Visible == [i \in 1 .. Clamped |-> ReadPlace(i)]
Behind  == [i \in Clamped + 1 .. Capacity |-> ReadPlace(i)]

History == INSTANCE EventHistory WITH history <- Visible, behind <- Behind

(* Whatever was stored, shifted, emptied or miscounted before, every call of
   lox_blackbox_store puts the very event it is given, with the texts of its two
   names, after the ones the reader saw, the oldest of which gives way only when
   the black box is full. *)
ImplementsHistory == History!Spec

(* A stored event never depends on the emitter's strings, which may be gone. *)
NoBorrowedText ==
  \A i \in Rows : /\ events[i].block_name.borrowed = Null
                  /\ events[i].reason.borrowed = Null
=============================================================================
