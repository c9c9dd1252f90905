--------------------------- MODULE BlackboxProofs ----------------------------
(* What the black box keeps, for any capacity, any texts and any count that    *)
(* callers write into it.                                                       *)
EXTENDS Blackbox, SequenceTheorems, TLAPS

(* Row i is either what event i points at, or empty under an event that was
   never stored: both read as the text in row i. *)
InPlace(p, rows, i) == p = Row(i) \/ (p = Borrowed(Null) /\ rows[i] = NoText)

EventWithNames ==
  [kind : UsedKinds \cup {"NONE"}, block_name : Pointers, reason : Pointers]

IInv ==
  /\ events \in [Rows -> EventWithNames]
  /\ block_names \in [Rows -> RowTexts]
  /\ reasons \in [Rows -> RowTexts]
  /\ count \in 0 .. Capacity + 1
  /\ \A i \in Rows : /\ InPlace(events[i].block_name, block_names, i)
                     /\ InPlace(events[i].reason, reasons, i)
  /\ called.turn \in {0, 1}

-----------------------------------------------------------------------------
(* A store. *)

(* The row stored into, and the row whose contents row i takes over. *)
NewRow  == IF Clamped = Capacity THEN Capacity - 1 ELSE Clamped
From(i) == IF Clamped = Capacity THEN i + 1 ELSE i

LEMMA CountType == 0 \in 0 .. Capacity + 1 /\ ~(0 > Capacity)
  BY CapacityAssumption

LEMMA ClampedType ==
  ASSUME count \in 0 .. Capacity + 1
  PROVE  /\ Clamped \in 0 .. Capacity
         /\ NewRow \in Rows
         /\ \A i \in Rows \ {NewRow} : i < NewRow => From(i) \in Rows
         /\ \A i \in Rows : i # NewRow => From(i) \in Rows
         /\ \A i \in Rows : i > NewRow => From(i) = i /\ i # NewRow /\ ~(i <= NewRow)
  BY CapacityAssumption DEF Clamped, NewRow, From, Rows

(* Rows of texts: moved and one replaced. *)
LEMMA RowsMoved ==
  ASSUME count \in 0 .. Capacity + 1, NEW S, NEW rows \in [Rows -> S], NEW x
  PROVE  [(IF Clamped = Capacity THEN Shifted(rows) ELSE rows) EXCEPT ![NewRow] = x] =
           [i \in Rows |-> IF i = NewRow THEN x ELSE rows[From(i)]]
<1> DEFINE moved == IF Clamped = Capacity THEN Shifted(rows) ELSE rows
<1>1. moved = [i \in Rows |-> moved[i]]
  BY DEF Shifted
<1>2. \A i \in Rows \ {NewRow} : moved[i] = rows[From(i)]
  BY CapacityAssumption, ClampedType DEF Shifted, From, NewRow, Rows
<1> HIDE DEF moved
<1>3. [moved EXCEPT ![NewRow] = x] =
        [i \in Rows |-> IF i = NewRow THEN x ELSE rows[From(i)]]
  BY <1>1, <1>2, ClampedType
<1> QED
  BY <1>3 DEF moved

LEMMA EventRepointed ==
  ASSUME NEW f \in EventWithNames, NEW p
  PROVE  [f EXCEPT !.block_name = p, !.reason = p]
           = [kind |-> f.kind, block_name |-> p, reason |-> p]
<1>1. DOMAIN f = {"kind", "block_name", "reason"}
  BY DEF EventWithNames
<1>2. [f EXCEPT !.block_name = p, !.reason = p]
        = [x \in {"kind", "block_name", "reason"} |->
             IF x = "kind" THEN f.kind ELSE p]
  BY <1>1 DEF EventWithNames
<1> QED
  BY <1>2

LEMMA StoreMoves ==
  ASSUME IInv, NEW kind \in UsedKinds, NEW block \in Strings \cup {Null},
         NEW reason \in Strings \cup {Null}, BlackboxStore(kind, block, reason)
  PROVE  /\ called' = Call("store", kind, block, reason, 0, 1 - called.turn)
         /\ count' = NewRow + 1
         /\ block_names' = [i \in Rows |-> IF i = NewRow THEN Kept[Spelled(block)]
                                                         ELSE block_names[From(i)]]
         /\ reasons' = [i \in Rows |-> IF i = NewRow THEN Kept[Spelled(reason)]
                                                     ELSE reasons[From(i)]]
         /\ events' = [i \in Rows |->
              IF i <= NewRow
              THEN [kind |-> IF i = NewRow THEN kind ELSE events[From(i)].kind,
                    block_name |-> Row(i), reason |-> Row(i)]
              ELSE events[i]]
<1> DEFINE e == [kind |-> kind, block_name |-> Borrowed(block),
                 reason |-> Borrowed(reason)]
           placed == [i \in Rows |-> IF i = NewRow THEN e ELSE events[From(i)]]
<1>1. /\ Kept[Spelled(block)] \in RowTexts /\ Kept[Spelled(reason)] \in RowTexts
      /\ Copied(block, reason).block_name = Kept[Spelled(block)]
      /\ Copied(block, reason).reason = Kept[Spelled(reason)]
  BY BlackboxAssumption DEF Spelled, RowTexts, Copied
<1>2. e \in EventWithNames /\ e.kind = kind
  BY DEF Pointers, EventWithNames
<1> HIDE DEF e
<1>3. events \in [Rows -> EventWithNames] /\ count \in 0 .. Capacity + 1
      /\ block_names \in [Rows -> RowTexts] /\ reasons \in [Rows -> RowTexts]
  BY DEF IInv
<1>4. NewRow \in Rows /\ NewRow \in Nat /\ Rows \subseteq Nat
  BY <1>3, ClampedType, CapacityAssumption DEF Rows
<1>5. count' = NewRow + 1
  BY <1>3, CapacityAssumption, ClampedType DEF BlackboxStore, Incremented, NewRow
<1>6. block_names' = [i \in Rows |-> IF i = NewRow THEN Kept[Spelled(block)]
                                                   ELSE block_names[From(i)]]
  <2>1. block_names' = [(IF Clamped = Capacity THEN Shifted(block_names) ELSE block_names) EXCEPT ![NewRow] = Kept[Spelled(block)]]
    BY <1>1 DEF BlackboxStore, NewRow
  <2> QED
    BY <1>3, <2>1, RowsMoved
<1>7. reasons' = [i \in Rows |-> IF i = NewRow THEN Kept[Spelled(reason)]
                                               ELSE reasons[From(i)]]
  <2>1. reasons' = [(IF Clamped = Capacity THEN Shifted(reasons) ELSE reasons) EXCEPT ![NewRow] = Kept[Spelled(reason)]]
    BY <1>1 DEF BlackboxStore, NewRow
  <2> QED
    BY <1>3, <2>1, RowsMoved
<1>8. events' = Repointed(placed, NewRow + 1)
    <2>1. events' = Repointed([(IF Clamped = Capacity THEN Shifted(events) ELSE events)
                               EXCEPT ![NewRow] = e], NewRow + 1)
    BY DEF BlackboxStore, NewRow, e
  <2>2. [(IF Clamped = Capacity THEN Shifted(events) ELSE events) EXCEPT ![NewRow] = e]
          = placed
    BY <1>3, RowsMoved
  <2> QED
    BY <2>1, <2>2
<1>9. \A i \in Rows :
        /\ i <= NewRow => /\ placed[i] \in EventWithNames
                          /\ placed[i].kind = IF i = NewRow THEN kind
                                                            ELSE events[From(i)].kind
        /\ ~(i <= NewRow) => placed[i] = events[i]
    <2> SUFFICES ASSUME NEW i \in Rows
               PROVE  /\ i <= NewRow => /\ placed[i] \in EventWithNames
                                        /\ placed[i].kind = IF i = NewRow THEN kind
                                              ELSE events[From(i)].kind
                      /\ ~(i <= NewRow) => placed[i] = events[i]
    OBVIOUS
  <2>1. CASE i = NewRow
    BY <1>2, <1>4, <2>1
  <2>2. CASE i < NewRow
    <3>1. From(i) \in Rows
      BY <1>3, <1>4, <2>2, ClampedType
    <3>2. i \in Nat /\ i <= NewRow /\ i # NewRow
      BY <1>4, <2>2
    <3>3. placed[i] = events[From(i)]
      BY <3>2
    <3> QED
      BY <1>3, <3>1, <3>2, <3>3
  <2>3. CASE i > NewRow
    BY <1>3, <1>4, <2>3, ClampedType
  <2> QED
    BY <1>4, <2>1, <2>2, <2>3
<1>10. \A i \in Rows : i < NewRow + 1 <=> i <= NewRow
  BY <1>4
<1> HIDE DEF placed
<1>11. \A i \in Rows : i <= NewRow =>
         [placed[i] EXCEPT !.block_name = Row(i), !.reason = Row(i)]
           = [kind |-> IF i = NewRow THEN kind ELSE events[From(i)].kind,
              block_name |-> Row(i), reason |-> Row(i)]
  <2> SUFFICES ASSUME NEW i \in Rows, i <= NewRow
               PROVE  [placed[i] EXCEPT !.block_name = Row(i), !.reason = Row(i)]
                        = [kind |-> IF i = NewRow THEN kind ELSE events[From(i)].kind,
                           block_name |-> Row(i), reason |-> Row(i)]
    OBVIOUS
  <2>1. placed[i] \in EventWithNames
    BY <1>9
  <2>2. [placed[i] EXCEPT !.block_name = Row(i), !.reason = Row(i)]
          = [kind |-> placed[i].kind, block_name |-> Row(i), reason |-> Row(i)]
    BY <2>1, EventRepointed
  <2> QED
    BY <1>9, <2>2
<1>12. events' = [i \in Rows |->
         IF i <= NewRow
         THEN [kind |-> IF i = NewRow THEN kind ELSE events[From(i)].kind,
               block_name |-> Row(i), reason |-> Row(i)]
         ELSE events[i]]
  BY <1>8, <1>9, <1>10, <1>11 DEF Repointed
<1>13. called' = Call("store", kind, block, reason, 0, 1 - called.turn)
  BY DEF BlackboxStore, Calls
<1> QED
  BY <1>5, <1>6, <1>7, <1>12, <1>13

-----------------------------------------------------------------------------
(* The inductive invariant. *)

Empty ==
  /\ events = [i \in Rows |-> NoEvent]
  /\ block_names = [i \in Rows |-> NoText]
  /\ reasons = [i \in Rows |-> NoText]
  /\ count = 0
  /\ called.turn \in {0, 1}

LEMMA EmptyHolds == Empty => IInv
<1> SUFFICES ASSUME Empty PROVE IInv
  OBVIOUS
<1> USE DEF Empty
<1>1. NoEvent \in EventWithNames
  BY DEF NoEvent, EventWithNames, Pointers
<1>2. count \in 0 .. Capacity + 1
  BY CountType
<1>4. NoText \in RowTexts
  BY DEF RowTexts
<1>3. NoEvent.block_name = Borrowed(Null) /\ NoEvent.reason = Borrowed(Null)
  BY DEF NoEvent
<1> QED
  BY <1>1, <1>2, <1>3, <1>4 DEF IInv, InPlace

LEMMA StoreHolds ==
  ASSUME IInv, NEW kind \in UsedKinds, NEW block \in Strings \cup {Null},
         NEW reason \in Strings \cup {Null}, BlackboxStore(kind, block, reason)
  PROVE  IInv'
<1>1. count \in 0 .. Capacity + 1 /\ events \in [Rows -> EventWithNames]
      /\ block_names \in [Rows -> RowTexts] /\ reasons \in [Rows -> RowTexts]
  BY DEF IInv
<1>2. NewRow \in Rows /\ Rows \subseteq Nat
  BY <1>1, ClampedType, CapacityAssumption DEF Rows
<1>3. Kept[Spelled(block)] \in RowTexts /\ Kept[Spelled(reason)] \in RowTexts
  BY BlackboxAssumption DEF Spelled, RowTexts
<1>4. \A i \in Rows : i # NewRow => From(i) \in Rows
  BY <1>1, ClampedType
<1>5. block_names' \in [Rows -> RowTexts] /\ reasons' \in [Rows -> RowTexts]
  BY <1>1, <1>3, <1>4, StoreMoves
<1>6. count' \in 0 .. Capacity + 1
  BY <1>2, StoreMoves, CapacityAssumption DEF Rows
<1>7. \A i \in Rows : Row(i) \in Pointers
  BY DEF Pointers
<1>8. ASSUME NEW i \in Rows
      PROVE  /\ events'[i] \in EventWithNames
             /\ InPlace(events'[i].block_name, block_names', i)
             /\ InPlace(events'[i].reason, reasons', i)
  <2>1. CASE i <= NewRow
    <3> DEFINE k == IF i = NewRow THEN kind ELSE events[From(i)].kind
    <3>1. k \in UsedKinds \cup {"NONE"}
      BY <1>1, <1>4 DEF EventWithNames
    <3>2. events'[i] = [kind |-> k, block_name |-> Row(i), reason |-> Row(i)]
      BY <2>1, StoreMoves
    <3> HIDE DEF k
    <3> QED
      BY <1>7, <3>1, <3>2 DEF EventWithNames, InPlace
  <2>2. CASE i > NewRow
    <3>0. i # NewRow /\ ~(i <= NewRow) /\ From(i) = i
      BY <1>1, <2>2, ClampedType
    <3>1. events'[i] = events[i] /\ block_names'[i] = block_names[i]
          /\ reasons'[i] = reasons[i]
      BY <3>0, StoreMoves
    <3> QED
      BY <1>1, <3>1 DEF IInv, InPlace
  <2> QED
    BY <1>2, <2>1, <2>2
<1>9. events' = [i \in Rows |-> events'[i]]
  BY StoreMoves
<1>10. called'.turn \in {0, 1}
  <2>1. called'.turn = 1 - called.turn
    BY StoreMoves DEF Call
  <2>2. (1 - called.turn) \in {0, 1}
    BY DEF IInv
  <2> QED
    BY <2>1, <2>2
<1> QED
  BY <1>5, <1>6, <1>8, <1>9, <1>10 DEF IInv

LEMMA InitHolds == Init => IInv
<1>1. Init => called.turn = 0
  BY DEF Init, Call
<1> QED
  BY <1>1, EmptyHolds DEF Init, Empty

(* The other calls turn the bit too. *)
LEMMA TurnHolds ==
  ASSUME IInv, NEW op, NEW n, Calls(op, "NONE", Null, Null, n)
  PROVE  called'.turn \in {0, 1} /\ called'.op = op /\ called'.count = n
<1>1. called'.turn = 1 - called.turn /\ called'.op = op /\ called'.count = n
  BY DEF Calls, Call
<1>2. (1 - called.turn) \in {0, 1}
  BY DEF IInv
<1> QED
  BY <1>1, <1>2

LEMMA NextHolds == IInv /\ [Next]_vars => IInv'
<1> SUFFICES ASSUME IInv, [Next]_vars
             PROVE  IInv'
  OBVIOUS
<1>1. CASE BlackboxInit
  <2>1. NoEvent \in EventWithNames
    BY DEF NoEvent, EventWithNames, Pointers
  <2>2. count' \in 0 .. Capacity + 1
    BY <1>1, CountType DEF BlackboxInit
  <2>4. NoText \in RowTexts
    BY DEF RowTexts
  <2>3. NoEvent.block_name = Borrowed(Null) /\ NoEvent.reason = Borrowed(Null)
    BY DEF NoEvent
  <2> QED
    BY <1>1, <2>1, <2>2, <2>3, <2>4, TurnHolds DEF IInv, InPlace, BlackboxInit
<1>2. ASSUME NEW kind \in UsedKinds, NEW block \in Strings \cup {Null},
             NEW reason \in Strings \cup {Null}, BlackboxStore(kind, block, reason)
      PROVE  IInv'
  BY <1>2, StoreHolds
<1>3. CASE ImportCsvStart
  <2>1. count' \in 0 .. Capacity + 1
    BY <1>3, CountType DEF ImportCsvStart
  <2> QED
    BY <1>3, <2>1, TurnHolds DEF IInv, ImportCsvStart, InPlace
<1>4. ASSUME NEW n \in 0 .. Capacity + 1, CallerSetsCount(n) PROVE IInv'
  BY <1>4, TurnHolds DEF IInv, CallerSetsCount, InPlace
<1>5. CASE UNCHANGED vars
  BY <1>5 DEF IInv, vars, InPlace
<1> QED
  BY <1>1, <1>2, <1>3, <1>4, <1>5 DEF Next

THEOREM IInvHolds == Spec => []IInv
  BY InitHolds, NextHolds, PTL DEF Spec

(* The arrays of the black box keep their shape whatever is stored. *)
THEOREM TypesHold == Spec => []TypeOK
<1>1. IInv => TypeOK
  BY BlackboxAssumption DEF IInv, TypeOK, EventWithNames, StoredEvent
<1> QED
  BY <1>1, IInvHolds, PTL

(* No event of the black box points into a string of the emitter: its names
   can be read after the emitter's are gone. *)
THEOREM NamesAreKept == Spec => []NoBorrowedText
<1>1. ASSUME IInv, NEW i \in Rows
      PROVE  events[i].block_name.borrowed = Null /\ events[i].reason.borrowed = Null
  <2>1. Row(i).borrowed = Null /\ Borrowed(Null).borrowed = Null
    BY DEF Row, Borrowed
  <2>2. /\ events[i].block_name \in {Row(i), Borrowed(Null)}
        /\ events[i].reason \in {Row(i), Borrowed(Null)}
    BY <1>1 DEF IInv, InPlace
  <2> QED
    BY <2>1, <2>2
<1>2. IInv => NoBorrowedText
  BY <1>1 DEF NoBorrowedText
<1> QED
  BY <1>2, IInvHolds, PTL

-----------------------------------------------------------------------------
(* The black box implements EventHistory. *)

(* What row i reads as. *)
Entry(i) == [kind |-> events[i].kind, block_name |-> block_names[i],
             reason |-> reasons[i]]

VisibleEvents == [kind : UsedKinds \cup {"NONE"}, block_name : RowTexts, reason : RowTexts]

LEMMA EntryType ==
  ASSUME IInv, NEW i \in Rows
  PROVE  Entry(i) \in VisibleEvents
<1>1. events[i].kind \in UsedKinds \cup {"NONE"}
  BY DEF IInv, EventWithNames
<1>2. block_names[i] \in RowTexts /\ reasons[i] \in RowTexts
  BY DEF IInv
<1> QED
  BY <1>1, <1>2 DEF Entry, VisibleEvents

LEMMA ReadsRow ==
  ASSUME NEW i \in Rows, NEW rows, NEW p, InPlace(p, rows, i)
  PROVE  Read(p, rows) = rows[i]
<1>1. Row(i).row = i /\ Borrowed(Null).row = Capacity /\ Borrowed(Null).borrowed = Null
  BY DEF Row, Borrowed
<1>2. Capacity \notin Rows
  BY CapacityAssumption DEF Rows
<1> QED
  BY <1>1, <1>2 DEF InPlace, Read

VisibleIsEntries ==
  /\ Visible = [i \in 1 .. Clamped |-> Entry(i - 1)]
  /\ Behind = [i \in Clamped + 1 .. Capacity |-> Entry(i - 1)]
  /\ Clamped \in 0 .. Capacity
  /\ Visible \in [1 .. Clamped -> VisibleEvents]

LEMMA VisibleIs == IInv => VisibleIsEntries
<1> SUFFICES ASSUME IInv PROVE VisibleIsEntries
  OBVIOUS
<1>1. Clamped \in 0 .. Capacity
  BY ClampedType DEF IInv
<1>2. ASSUME NEW i \in 1 .. Capacity
      PROVE  ReadPlace(i) = Entry(i - 1) /\ Entry(i - 1) \in VisibleEvents
  <2>1. i - 1 \in Rows
    BY CapacityAssumption DEF Rows
  <2>2. /\ InPlace(events[i - 1].block_name, block_names, i - 1)
        /\ InPlace(events[i - 1].reason, reasons, i - 1)
    BY <2>1 DEF IInv
  <2>3. /\ Read(events[i - 1].block_name, block_names) = block_names[i - 1]
        /\ Read(events[i - 1].reason, reasons) = reasons[i - 1]
    BY <2>1, <2>2, ReadsRow
  <2> QED
    BY <2>1, <2>3, EntryType DEF ReadPlace, Entry
<1>3. /\ \A i \in 1 .. Clamped : i \in 1 .. Capacity
      /\ \A i \in Clamped + 1 .. Capacity : i \in 1 .. Capacity
  BY <1>1, CapacityAssumption
<1>4. Visible = [i \in 1 .. Clamped |-> Entry(i - 1)]
  BY <1>2, <1>3 DEF Visible
<1>5. Behind = [i \in Clamped + 1 .. Capacity |-> Entry(i - 1)]
  BY <1>2, <1>3 DEF Behind
<1>6. Visible \in [1 .. Clamped -> VisibleEvents]
  BY <1>2, <1>3, <1>4
<1> QED
  BY <1>1, <1>4, <1>5, <1>6 DEF VisibleIsEntries

(* Append and Tail of a sequence given as a function. *)
SequenceOf(S, n, s, e) ==
  /\ Len(s) = n
  /\ Append(s, e) \in [1 .. n + 1 -> S]
  /\ \A i \in 1 .. n : Append(s, e)[i] = s[i]
  /\ Append(s, e)[n + 1] = e
  /\ n > 0 => /\ Tail(s) \in [1 .. n - 1 -> S]
              /\ \A i \in 1 .. n - 1 : Tail(s)[i] = s[i + 1]

LEMMA SequenceOps ==
  ASSUME NEW S, NEW n \in Nat, NEW s \in [1 .. n -> S], NEW e \in S
  PROVE  SequenceOf(S, n, s, e)
<1>1. s \in Seq(S) /\ Len(s) = n
  OBVIOUS
<1>2. /\ Append(s, e) \in Seq(S) /\ Len(Append(s, e)) = n + 1
      /\ Append(s, e)[n + 1] = e /\ \A i \in 1 .. n : Append(s, e)[i] = s[i]
  BY <1>1, AppendProperties
<1>3. Append(s, e) \in [1 .. n + 1 -> S]
  BY <1>2, LenProperties
<1>4. ASSUME n > 0
      PROVE  /\ Tail(s) \in [1 .. n - 1 -> S]
             /\ \A i \in 1 .. n - 1 : Tail(s)[i] = s[i + 1]
  <2>1. s # << >>
    BY <1>1, <1>4
  <2>2. Tail(s) \in Seq(S) /\ Len(Tail(s)) = n - 1
        /\ \A i \in 1 .. Len(Tail(s)) : Tail(s)[i] = s[i + 1]
    BY <1>1, <2>1, HeadTailProperties
  <2> QED
    BY <2>2, LenProperties
<1> QED
  BY <1>1, <1>2, <1>3, <1>4 DEF SequenceOf

(* A store records the event it is given, with the texts of its names, and
   leaves the places past it alone. *)
LEMMA StoreRecords ==
  ASSUME IInv, NEW kind \in UsedKinds, NEW block \in Strings \cup {Null},
         NEW reason \in Strings \cup {Null}, BlackboxStore(kind, block, reason)
  PROVE  History!Record
<1> DEFINE e == [kind |-> kind, block_name |-> Kept[Spelled(block)],
                 reason |-> Kept[Spelled(reason)]]
           V == Visible
           Moved == IF Clamped < Capacity THEN V ELSE Tail(V)
<1>1. VisibleIsEntries /\ VisibleIsEntries'
  <2>1. IInv'
    BY StoreHolds
  <2> QED
    BY <2>1, VisibleIs, PTL
<1>2. Kept[Spelled(block)] \in RowTexts /\ Kept[Spelled(reason)] \in RowTexts
  BY BlackboxAssumption DEF Spelled, RowTexts
<1>3. e \in VisibleEvents
  BY <1>2 DEF VisibleEvents
<1>4. Clamped \in 0 .. Capacity /\ V \in [1 .. Clamped -> VisibleEvents]
      /\ NewRow \in Rows /\ NewRow = IF Clamped < Capacity THEN Clamped ELSE Capacity - 1
  BY <1>1, ClampedType, CapacityAssumption DEF IInv, NewRow, VisibleIsEntries
<1>5. Clamped' = NewRow + 1 /\ NewRow \in Nat
  <2>1. count' = NewRow + 1
    BY StoreMoves
  <2>2. NewRow \in 0 .. Capacity - 1
    BY <1>4 DEF Rows
  <2> HIDE DEF e, V, Moved
  <2>3. NewRow + 1 <= Capacity /\ NewRow \in Nat
    BY <2>2, CapacityAssumption
  <2>4. ~(NewRow + 1 > Capacity)
    BY <2>3, CapacityAssumption
  <2> QED
    BY <2>1, <2>3, <2>4 DEF Clamped
<1>6. Visible' = [i \in 1 .. NewRow + 1 |-> Entry(i - 1)']
  BY <1>1, <1>5 DEF VisibleIsEntries
<1>7. ASSUME NEW i \in Rows, i <= NewRow
      PROVE  Entry(i)' = IF i = NewRow THEN e ELSE Entry(From(i))
  BY <1>7, StoreMoves DEF Entry
<1>8. Len(Moved) = NewRow /\ Moved \in [1 .. NewRow -> VisibleEvents]
      /\ \A i \in 1 .. NewRow : Moved[i] = Entry(From(i - 1))
  <2>1. CASE Clamped < Capacity
    <3>1. SequenceOf(VisibleEvents, Clamped, V, e) /\ Clamped \in Nat
      <4> HIDE DEF e, V
      <4> QED
        BY <1>3, <1>4, SequenceOps, CapacityAssumption
    <3> QED
      BY <1>1, <1>4, <2>1, <3>1, CapacityAssumption
         DEF From, VisibleIsEntries, SequenceOf
  <2>2. CASE ~(Clamped < Capacity)
    <3>1. Clamped = Capacity /\ Clamped \in Nat /\ Clamped > 0 /\ NewRow = Clamped - 1
      BY <1>4, <2>2, CapacityAssumption
    <3>2. /\ Tail(V) \in [1 .. Clamped - 1 -> VisibleEvents]
          /\ \A i \in 1 .. Clamped - 1 : Tail(V)[i] = V[i + 1]
      <4> HIDE DEF e, V
      <4>1. SequenceOf(VisibleEvents, Clamped, V, e)
        BY <1>3, <1>4, <3>1, SequenceOps
      <4> QED
        BY <3>1, <4>1 DEF SequenceOf
    <3>3. \A i \in 1 .. NewRow : Tail(V)[i] = Entry(i)
      BY <1>1, <3>1, <3>2 DEF VisibleIsEntries
    <3>5. Tail(V) \in [1 .. NewRow -> VisibleEvents]
      BY <3>1, <3>2
    <3>6. Len(Tail(V)) = NewRow
      <4>1. SequenceOf(VisibleEvents, NewRow, Tail(V), e)
        BY <1>3, <1>5, <3>5, SequenceOps
      <4> QED
        BY <4>1 DEF SequenceOf
    <3>7. \A i \in 1 .. NewRow : From(i - 1) = i
      BY <1>5, <3>1 DEF From
    <3> QED
      BY <2>2, <3>3, <3>5, <3>6, <3>7
  <2> QED
    BY <2>1, <2>2
<1> HIDE DEF e, Moved, V
<1>9. /\ Append(Moved, e) \in [1 .. NewRow + 1 -> VisibleEvents]
      /\ \A i \in 1 .. NewRow + 1 :
           Append(Moved, e)[i] = IF i = NewRow + 1 THEN e ELSE Moved[i]
  <2>1. Moved \in [1 .. NewRow -> VisibleEvents] /\ NewRow \in Nat /\ e \in VisibleEvents
    BY <1>3, <1>5, <1>8
  <2>2. /\ Append(Moved, e) \in [1 .. NewRow + 1 -> VisibleEvents]
        /\ \A i \in 1 .. NewRow : Append(Moved, e)[i] = Moved[i]
        /\ Append(Moved, e)[NewRow + 1] = e
    <3>1. SequenceOf(VisibleEvents, NewRow, Moved, e)
      BY <2>1, SequenceOps
    <3> QED
      BY <3>1 DEF SequenceOf
  <2>3. \A i \in 1 .. NewRow + 1 : i # NewRow + 1 => i \in 1 .. NewRow
    BY <2>1
  <2> QED
    BY <2>2, <2>3
<1>10. \A i \in 1 .. NewRow + 1 :
         Entry(i - 1)' = IF i = NewRow + 1 THEN e ELSE Moved[i]
  <2> SUFFICES ASSUME NEW i \in 1 .. NewRow + 1
               PROVE  Entry(i - 1)' = IF i = NewRow + 1 THEN e ELSE Moved[i]
    OBVIOUS
  <2>1. i - 1 \in Rows /\ i - 1 <= NewRow /\ (i - 1 = NewRow <=> i = NewRow + 1)
    BY <1>4, <1>5, CapacityAssumption DEF Rows
  <2>2. i # NewRow + 1 => i \in 1 .. NewRow
    BY <1>5
  <2> QED
    BY <1>7, <1>8, <2>1, <2>2
<1>11. Visible' = Append(Moved, e)
  BY <1>6, <1>9, <1>10
<1>12. Len(V) = Clamped
  <2>1. SequenceOf(VisibleEvents, Clamped, V, e)
    BY <1>3, <1>4, SequenceOps, CapacityAssumption
  <2> QED
    BY <2>1 DEF SequenceOf
<1>13. History!Stored(V, e) = Append(Moved, e)
  BY <1>12 DEF History!Stored, Moved
<1>14. called'.op = "store" /\ e = History!EventOf(called')
  BY StoreMoves DEF Call, e, History!EventOf, History!TextOf, Spelled
<1>15. Len(Visible') = NewRow + 1
  <2>1. Visible' \in [1 .. NewRow + 1 -> VisibleEvents]
    BY <1>1, <1>5 DEF VisibleIsEntries
  <2>2. SequenceOf(VisibleEvents, NewRow + 1, Visible', e)
    BY <1>3, <1>5, <2>1, SequenceOps
  <2> QED
    BY <2>2 DEF SequenceOf
<1>16. Behind' = [i \in NewRow + 2 .. Capacity |-> Behind[i]]
  <2>1. Behind' = [i \in NewRow + 2 .. Capacity |-> Entry(i - 1)']
    <3>1. Behind' = [i \in Clamped' + 1 .. Capacity |-> Entry(i - 1)']
      BY <1>1 DEF VisibleIsEntries
    <3>2. Clamped' + 1 = NewRow + 2
      BY <1>5
    <3> QED
      BY <3>1, <3>2
  <2>2. ASSUME NEW i \in NewRow + 2 .. Capacity
        PROVE  Entry(i - 1)' = Behind[i]
    <3>1. i - 1 \in Rows /\ ~(i - 1 <= NewRow) /\ i - 1 # NewRow /\ i - 1 > NewRow
          /\ i \in Clamped + 1 .. Capacity
      BY <1>4, <1>5, CapacityAssumption DEF Rows
    <3>2. From(i - 1) = i - 1
      BY <3>1, ClampedType DEF IInv
    <3>3. Entry(i - 1)' = Entry(i - 1)
      BY <3>1, <3>2, StoreMoves DEF Entry
    <3> QED
      BY <1>1, <3>1, <3>3 DEF VisibleIsEntries
  <2> QED
    BY <2>1, <2>2
<1>17. Len(Visible') + 1 = NewRow + 2
  BY <1>5, <1>15
<1> QED
  BY <1>11, <1>13, <1>14, <1>16, <1>17 DEF V, History!Record, History!RestBehind

(* A count written from outside shows another number of the same events. *)
LEMMA CountResizes ==
  ASSUME IInv, IInv', NEW n \in 0 .. Capacity + 1, count' = n,
         Calls("count", "NONE", Null, Null, n), UNCHANGED <<events, block_names, reasons>>
  PROVE  History!Resized
<1> DEFINE shown == IF n > Capacity THEN Capacity ELSE n
           place == [i \in 1 .. Capacity |-> IF i \in DOMAIN Visible THEN Visible[i]
                                                                    ELSE Behind[i]]
<1>0. VisibleIsEntries /\ VisibleIsEntries'
  BY VisibleIs, PTL
<1>1. \A i : Entry(i)' = Entry(i)
  BY DEF Entry
<1>2. \A i \in 1 .. Capacity : place[i] = Entry(i - 1)
  BY <1>0, CapacityAssumption DEF VisibleIsEntries
<1>3. Clamped' = shown /\ shown \in 0 .. Capacity
  BY CapacityAssumption DEF Clamped
<1>4. called'.op = "count" /\ called'.count = n
  BY TurnHolds
<1> HIDE DEF place, shown
<1>5. /\ Visible' = [i \in 1 .. shown |-> place[i]]
      /\ Behind' = [i \in shown + 1 .. Capacity |-> place[i]]
  <2>1. /\ Visible' = [i \in 1 .. shown |-> Entry(i - 1)']
        /\ Behind' = [i \in shown + 1 .. Capacity |-> Entry(i - 1)']
    BY <1>0, <1>3 DEF VisibleIsEntries
  <2>2. /\ \A i \in 1 .. shown : i \in 1 .. Capacity
        /\ \A i \in shown + 1 .. Capacity : i \in 1 .. Capacity
    BY <1>3, CapacityAssumption
  <2>3. /\ \A i \in 1 .. shown : Entry(i - 1)' = place[i]
        /\ \A i \in shown + 1 .. Capacity : Entry(i - 1)' = place[i]
    BY <1>1, <1>2, <2>2
  <2> QED
    BY <2>1, <2>3
<1>6. Len(Visible') = shown
  BY <1>3, <1>5
<1> QED
  BY <1>4, <1>5, <1>6 DEF History!Resized, History!RestBehind, place, shown

EmptyShown == Visible = << >> /\ Behind = [i \in 1 .. Capacity |-> History!Blank]

LEMMA EmptyIsShown == Empty => EmptyShown
<1> SUFFICES ASSUME Empty PROVE EmptyShown
  OBVIOUS
<1>1. VisibleIsEntries /\ Clamped = 0
  BY EmptyHolds, VisibleIs, CountType DEF Clamped, Empty
<1>2. ASSUME NEW i \in 1 .. Capacity PROVE Entry(i - 1) = History!Blank
  <2>1. i - 1 \in Rows
    BY CapacityAssumption DEF Rows
  <2>2. events[i - 1].kind = "NONE" /\ block_names[i - 1] = NoText /\ reasons[i - 1] = NoText
    BY <2>1 DEF Empty, NoEvent
  <2> QED
    BY <2>2, Zenon DEF Entry, History!Blank, NoText, History!NoText
<1> QED
  BY <1>1, <1>2 DEF VisibleIsEntries, EmptyShown

(* Whatever was stored, shifted, emptied or miscounted before, every call of
   lox_blackbox_store puts the very event it is given, with the texts of its two
   names, cut at the row's length, after the ones the reader saw, the oldest of
   which gives way only when the black box is full; and no other call makes the
   reader see an event that was not in its place before. *)
THEOREM Refinement == Spec => ImplementsHistory
<1>1. Init => Empty
  <2>1. Init => called.turn = 0
    BY DEF Init, Call
  <2> QED
    BY <2>1 DEF Init, Empty
<1>2. Init => History!Init
  BY <1>1, EmptyIsShown DEF EmptyShown, Init, Call, History!Init
<1>3. ASSUME IInv, [Next]_vars
      PROVE  [History!Next]_<<Visible, Behind, called>>
  <2>1. IInv'
    BY <1>3, NextHolds
  <2>2. ASSUME NEW op, NEW kind, NEW block, NEW reason, NEW n,
               Calls(op, kind, block, reason, n)
        PROVE  called' # called
    <3>1. called'.turn = 1 - called.turn /\ called.turn \in {0, 1}
      BY <1>3, <2>2 DEF Calls, Call, IInv
    <3> QED
      BY <3>1
  <2>3. CASE BlackboxInit
    <3>1. Visible' = << >> /\ Behind' = [i \in 1 .. Capacity |-> History!Blank]
      <4>1. Empty'
        BY <1>3, <2>3, TurnHolds DEF BlackboxInit, Empty
      <4>2. EmptyShown'
        BY <4>1, EmptyIsShown, PTL
      <4> QED
        BY <4>2 DEF EmptyShown
    <3>2. called'.op = "init" /\ called' # called
      BY <1>3, <2>2, <2>3, TurnHolds DEF BlackboxInit
    <3>3. Len(<< >>) + 1 = 1
      OBVIOUS
    <3> QED
      BY <3>1, <3>2, <3>3 DEF History!Next, History!Clear, History!RestBehind
  <2>4. ASSUME NEW kind \in UsedKinds, NEW block \in Strings \cup {Null},
               NEW reason \in Strings \cup {Null},
               BlackboxStore(kind, block, reason)
        PROVE  History!Next
    BY <1>3, <2>2, <2>4, StoreRecords DEF BlackboxStore, History!Next
  <2>5. CASE ImportCsvStart
    <3>1. 0 \in 0 .. Capacity + 1
      BY CountType
    <3> QED
      BY <1>3, <2>1, <2>2, <2>5, <3>1, CountResizes DEF ImportCsvStart, History!Next
  <2>6. ASSUME NEW n \in 0 .. Capacity + 1, CallerSetsCount(n)
        PROVE  History!Next
    BY <1>3, <2>1, <2>2, <2>6, CountResizes DEF CallerSetsCount, History!Next
  <2>7. CASE UNCHANGED vars
    BY <2>7 DEF vars, Visible, Behind, ReadPlace, Clamped, Read
  <2> QED
    BY <1>3, <2>3, <2>4, <2>5, <2>6, <2>7 DEF Next
<1> QED
  BY <1>2, <1>3, IInvHolds, PTL DEF Spec, History!Spec, ImplementsHistory
=============================================================================
