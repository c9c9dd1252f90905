------------------------- MODULE AdapterStateProofs --------------------------
(***************************************************************************)
(* The adapter's block states keep their types and their table in order, no  *)
(* block has two slots, and the table implements the registry, for any        *)
(* number of slots, blocks and names that do or do not fit.                  *)
(***************************************************************************)
EXTENDS AdapterState, TableProofs, FiniteSetTheorems

-----------------------------------------------------------------------------
(* Every call leaves one slot of the table in some state. *)

(* What a call does, whatever it was about. *)
Leaves(t, k, s) == blocks' = TableWith(t, k, s) /\ LeftIn(t, k, s)

LEMMA KeyType ==
  ASSUME NEW b \in Blocks
  PROVE  Key(b) \in Names /\ b \in Names \cup {NoName}
BY NamesAssumption DEF Key, Blocks

LEMMA HealthSetLeaves ==
  ASSUME TypeOK, NEW b \in Blocks, NEW level \in Levels, HealthSet(b, level)
  PROVE  /\ Leaves(blocks, Key(b), [Opened(blocks, Key(b)) EXCEPT !.health = level])
         /\ called' = Key(b)
BY SetHealthIs, AdapterAssumption DEF TypeOK, HealthSet, Call, Leaves, Blocks

LEMMA StateGetLeaves ==
  ASSUME TypeOK, NEW b \in Blocks, StateGet(b)
  PROVE  /\ Leaves(blocks, Key(b), Opened(blocks, Key(b)))
         /\ called' = Key(b)
BY GetBlockIs DEF TypeOK, StateGet, Call, Leaves, Blocks

LEMMA ObserveLeaves ==
  ASSUME TypeOK, NEW b \in Blocks, NEW kind, WatchdogObserve(b, kind)
  PROVE  /\ Leaves(blocks, Key(b),
                   [Opened(blocks, Key(b)) EXCEPT !.watchdog = WatchdogAfter(@, kind)])
         /\ called' = Key(b)
BY ObserveEventIs DEF TypeOK, WatchdogObserve, Call, Leaves, Blocks

LEMMA AttemptLeaves ==
  ASSUME TypeOK, NEW b \in Blocks, RecoveryAllowAttempt(b)
  PROVE  /\ Leaves(blocks, Key(b), Synchronised(Opened(blocks, Key(b))))
         /\ called' = Key(b)
BY AttemptCheckedIs DEF TypeOK, RecoveryAllowAttempt, Call, Leaves, Blocks

LEMMA ResultLeaves ==
  ASSUME TypeOK, NEW b \in Blocks, NEW success \in BOOLEAN,
         RecoveryReportResult(b, success)
  PROVE  /\ Leaves(blocks, Key(b),
                   Synchronised([Opened(blocks, Key(b)) EXCEPT
                                   !.breaker = Reported(@, success)]))
         /\ called' = Key(b)
BY ReportResultIs DEF TypeOK, RecoveryReportResult, Call, Leaves, Blocks

(* The operations of Next that are about one block. *)
OneCall(b) ==
  \/ \E level \in Levels : HealthSet(b, level)
  \/ StateGet(b)
  \/ \E kind \in SomeKinds : WatchdogObserve(b, kind)
  \/ RecoveryAllowAttempt(b)
  \/ \E success \in BOOLEAN : RecoveryReportResult(b, success)

LEMMA CallLeaves ==
  ASSUME TypeOK, NEW b \in Blocks, OneCall(b)
  PROVE  \E s : Leaves(blocks, Key(b), s) /\ called' = Key(b)
BY HealthSetLeaves, StateGetLeaves, ObserveLeaves, AttemptLeaves, ResultLeaves
DEF OneCall

-----------------------------------------------------------------------------
(* The table. *)

(* The inductive invariant: types, and a table in order. *)
TableInv == TypeOK /\ InOrder(blocks) /\ OneSlotEach(blocks)

LEMMA InitTable == Init => TableInv
BY NoBlocksIs DEF Init, TableInv, TypeOK, Blocks

LEMMA ResetLeaves ==
  ASSUME TypeOK, WatchdogStateReset \/ RecoveryStateReset \/ Tick
  PROVE  /\ blocks' \in {WatchdogReset(blocks), RecoveryReset(blocks), TimePasses(blocks)}
         /\ blocks' \in BlockTable
         /\ called' = NoName
BY WatchdogResetType, ResetType
DEF TypeOK, WatchdogStateReset, RecoveryStateReset, Tick

LEMMA StepTable == TableInv /\ [Next]_vars => TableInv'
<1> SUFFICES ASSUME TableInv, [Next]_vars PROVE TableInv'
  OBVIOUS
<1>1. blocks \in BlockTable /\ TypeOK
  BY DEF TableInv, TypeOK
<1>2. ASSUME NEW b \in Blocks, OneCall(b) PROVE TableInv'
  <2>1. Key(b) \in Names
    BY KeyType
  <2>2. PICK s : Leaves(blocks, Key(b), s) /\ called' = Key(b)
    BY <1>1, <1>2, CallLeaves
  <2>3. s \in BlockState /\ blocks' = TableWith(blocks, Key(b), s)
        /\ LeftIn(blocks, Key(b), s)
    BY <2>2 DEF Leaves, LeftIn
  <2>4. blocks' \in BlockTable
    BY <1>1, <2>1, <2>3, TableWithType
  <2>5. InOrder(TableWith(blocks, Key(b), s)) /\ OneSlotEach(TableWith(blocks, Key(b), s))
    BY <1>1, <2>1, <2>3, TableWithInOrder, TableWithOneSlot DEF TableInv
  <2> QED
    BY <2>1, <2>2, <2>3, <2>4, <2>5
    DEF TableInv, TypeOK, Blocks, InOrder, OneSlotEach, Found, Holds
<1>3. CASE WatchdogStateReset \/ RecoveryStateReset \/ Tick
  <2>1. /\ blocks' \in {WatchdogReset(blocks), RecoveryReset(blocks), TimePasses(blocks)}
        /\ blocks' \in BlockTable /\ called' = NoName
    BY <1>1, <1>3, ResetLeaves
  <2>2. PICK u \in {WatchdogReset(blocks), RecoveryReset(blocks), TimePasses(blocks)} :
          blocks' = u
    BY <2>1
  <2>3. InOrder(u) /\ OneSlotEach(u)
    BY <1>1, ResetsKeepOwners DEF TableInv
  <2> QED
    BY <2>1, <2>2, <2>3 DEF TableInv, TypeOK, Blocks, InOrder, OneSlotEach, Found, Holds
<1>4. CASE UNCHANGED vars
  BY <1>4 DEF vars, TableInv, TypeOK, InOrder, OneSlotEach, Found, Holds
<1> QED
  BY <1>2, <1>3, <1>4 DEF Next, OneCall

(* The table is in order in every reachable state. *)
THEOREM TableIsInOrder == Spec => []TableInv
<1> QED
  BY InitTable, StepTable, PTL DEF Spec

(* The block states keep their types. *)
THEOREM TypesHold == Spec => []TypeOK
<1>1. TableInv => TypeOK
  BY DEF TableInv
<1> QED
  BY <1>1, TableIsInOrder, PTL

(* lox_block_state_get fills the table from the front and leaves no trace of a
   block in an unused slot. *)
THEOREM SlotsAreInOrder == Spec => []SlotsFillInOrder
<1>1. TableInv => SlotsFillInOrder
  BY DEF TableInv, InOrder, SlotsFillInOrder
<1> QED
  BY <1>1, TableIsInOrder, PTL

(* lox_block_state_get never gives a block a second slot. *)
THEOREM SlotsAreSingle == Spec => []OneSlotPerBlock
<1>1. TableInv => OneSlotPerBlock
  BY DEF TableInv, OneSlotEach, OneSlotPerBlock, Found
<1> QED
  BY <1>1, TableIsInOrder, PTL

-----------------------------------------------------------------------------
(* The table implements the registry. *)

TrackedIn(t) == {n \in Names : Found(t, n) # {}}

StatesIn(t) == [n \in TrackedIn(t) |-> StateIn(t.slot[Min(Found(t, n))])]

RoomIn(t) == Cardinality(Unused(t))

ExtendedIn(t, k, r) ==
  [n \in TrackedIn(t) \cup {k} |-> IF n = k THEN r ELSE StatesIn(t)[n]]

LEMMA RoomType ==
  ASSUME NEW t \in BlockTable
  PROVE  /\ IsFiniteSet(Unused(t))
         /\ RoomIn(t) \in Nat
         /\ RoomIn(t) = 0 <=> Unused(t) = {}
<1>1. IsFiniteSet(0 .. BlockSlots - 1)
  BY FS_Interval, BlockStatesAssumption
<1>2. IsFiniteSet(Unused(t))
  BY <1>1, FS_Subset DEF Unused
<1> QED
  BY <1>2, FS_CardinalityType, FS_EmptySet DEF RoomIn

(* Another block keeps the slot that answers for it, and what is in it. *)
LEMMA OthersKeep ==
  ASSUME NEW t \in BlockTable, NEW k \in Names, NEW s, LeftIn(t, k, s),
         NEW n \in TrackedIn(t), n # k
  PROVE  /\ n \in TrackedIn(TableWith(t, k, s))
         /\ StatesIn(TableWith(t, k, s))[n] = StatesIn(t)[n]
<1> DEFINE u == TableWith(t, k, s)
           i == SlotFor(t, k)
           j == Min(Found(t, n))
<1>1. n \in Names /\ Found(t, n) # {}
  BY DEF TrackedIn
<1>2. Found(u, n) = Found(t, n)
  BY <1>1, OthersFound
<1>3. j \in Found(t, n)
  <2> Found(t, n) \in SUBSET Nat
    BY DEF Found
  <2> QED
    BY <1>1, MinIsLeast
<1>4. j \in 0 .. BlockSlots - 1 /\ t.slot[j].in_use /\ t.slot[j].block_name = n
  BY <1>3 DEF Found, Holds
<1>5. \/ i \in Found(t, k)
      \/ i \in Unused(t)
      \/ i = BlockSlots
  BY SlotForIs
<1>6. j # i
  <2>1. i \in Found(t, k) => t.slot[i].block_name = k
    BY DEF Found, Holds
  <2>2. i \in Unused(t) => ~t.slot[i].in_use
    BY DEF Unused
  <2>3. BlockSlots \notin 0 .. BlockSlots - 1
    BY BlockStatesAssumption
  <2> HIDE DEF i, j
  <2> QED
    BY <1>4, <1>5, <2>1, <2>2, <2>3
<1>7. u.slot[j] = t.slot[j]
  <2>1. j \in 0 .. BlockSlots
    BY <1>4, BlockStatesAssumption
  <2> QED
    BY <1>6, <2>1, TableWithType DEF LeftIn
<1>8. n \in TrackedIn(u)
  BY <1>1, <1>2 DEF TrackedIn
<1>9. StatesIn(u)[n] = StateIn(u.slot[j]) /\ StatesIn(t)[n] = StateIn(t.slot[j])
  <2>1. StatesIn(u)[n] = StateIn(u.slot[Min(Found(u, n))])
    BY <1>8 DEF StatesIn
  <2>2. StatesIn(t)[n] = StateIn(t.slot[Min(Found(t, n))])
    BY DEF StatesIn
  <2> QED
    BY <1>2, <2>1, <2>2
<1> QED
  BY <1>7, <1>8, <1>9

(* The block itself is tracked when it was, or when it fits and there is room;
   what it has then is what the operation left. *)
LEMMA OwnIsLeft ==
  ASSUME NEW t \in BlockTable, NEW k \in Names, NEW s, LeftIn(t, k, s)
  PROVE  /\ k \in TrackedIn(TableWith(t, k, s)) <=>
              k \in TrackedIn(t) \/ (Unused(t) # {} /\ Fits(k))
         /\ k \in TrackedIn(TableWith(t, k, s)) =>
              StatesIn(TableWith(t, k, s))[k] = StateIn(s)
<1> DEFINE u == TableWith(t, k, s)
           i == SlotFor(t, k)
<1>1. Found(u, k) = IF Found(t, k) # {} THEN Found(t, k)
                    ELSE IF Unused(t) # {} /\ Fits(k) THEN {i} ELSE {}
  BY OwnFound
<1>2. k \in TrackedIn(u) <=> k \in TrackedIn(t) \/ (Unused(t) # {} /\ Fits(k))
  <2> HIDE DEF u, i
  <2> QED
    BY <1>1 DEF TrackedIn
<1>3. k \in TrackedIn(u) => Min(Found(u, k)) = i
  <2>1. CASE Found(t, k) # {}
    BY <1>1, <2>1 DEF SlotFor
  <2>2. CASE Found(t, k) = {}
    <3> SUFFICES ASSUME k \in TrackedIn(u) PROVE Min(Found(u, k)) = i
      OBVIOUS
    <3>1. Found(u, k) = {i}
      <4> HIDE DEF u, i
      <4> QED
        BY <1>1, <2>2 DEF TrackedIn
    <3>2. Found(u, k) \in SUBSET Nat
      BY DEF Found
    <3> HIDE DEF u, i
    <3> QED
      BY <3>1, <3>2, MinIsLeast
  <2> QED
    BY <2>1, <2>2
<1>4. u.slot[i] = s
  BY TableWithType DEF LeftIn
<1>5. k \in TrackedIn(u) => StatesIn(u)[k] = StateIn(u.slot[Min(Found(u, k))])
  BY DEF StatesIn
<1> QED
  BY <1>2, <1>3, <1>4, <1>5

(* Together: the three ways in which the registry is used. *)
LEMMA TrackedAfter ==
  ASSUME NEW t \in BlockTable, NEW k \in Names, NEW s, LeftIn(t, k, s),
         NEW u, u = TableWith(t, k, s)
  PROVE  \/ /\ k \in TrackedIn(t)
            /\ StatesIn(u) = ExtendedIn(t, k, StateIn(s))
            /\ RoomIn(u) = RoomIn(t)
         \/ /\ k \notin TrackedIn(t)
            /\ RoomIn(t) > 0
            /\ RoomIn(u) = RoomIn(t) - 1
            /\ StatesIn(u) = IF Fits(k) THEN ExtendedIn(t, k, StateIn(s))
                             ELSE StatesIn(t)
         \/ /\ k \notin TrackedIn(t)
            /\ RoomIn(t) = 0
            /\ RoomIn(u) = RoomIn(t)
            /\ StatesIn(u) = StatesIn(t)
<1> DEFINE i == SlotFor(t, k)
<1>1. \A n \in Names : n # k => Found(u, n) = Found(t, n)
  BY OthersFound
<1>2. \A n \in TrackedIn(t) : n # k => StatesIn(u)[n] = StatesIn(t)[n]
  BY OthersKeep
<1>3. /\ k \in TrackedIn(u) <=> k \in TrackedIn(t) \/ (Unused(t) # {} /\ Fits(k))
      /\ k \in TrackedIn(u) => StatesIn(u)[k] = StateIn(s)
  BY OwnIsLeft
<1>4. Unused(u) = Unused(t) \ {i}
  BY UnusedAfter
<1>5. IsFiniteSet(Unused(t)) /\ RoomIn(t) \in Nat /\ (RoomIn(t) = 0 <=> Unused(t) = {})
  BY RoomType
<1>6. RoomIn(u) = IF i \in Unused(t) THEN RoomIn(t) - 1 ELSE RoomIn(t)
  BY <1>4, <1>5, FS_RemoveElement DEF RoomIn
<1>7. k \in TrackedIn(t) <=> Found(t, k) # {}
  BY DEF TrackedIn
<1>8. k \in TrackedIn(u) => StatesIn(u) = ExtendedIn(t, k, StateIn(s))
  <2> SUFFICES ASSUME k \in TrackedIn(u) PROVE StatesIn(u) = ExtendedIn(t, k, StateIn(s))
    OBVIOUS
  <2>1. TrackedIn(u) = TrackedIn(t) \cup {k}
    BY <1>1 DEF TrackedIn
  <2>2. StatesIn(u) = [n \in TrackedIn(u) |-> StatesIn(u)[n]]
    BY DEF StatesIn
  <2>3. ExtendedIn(t, k, StateIn(s)) =
          [n \in TrackedIn(u) |-> IF n = k THEN StateIn(s) ELSE StatesIn(t)[n]]
    BY <2>1 DEF ExtendedIn
  <2>4. \A n \in TrackedIn(u) :
          StatesIn(u)[n] = IF n = k THEN StateIn(s) ELSE StatesIn(t)[n]
    BY <1>2, <1>3, <2>1
  <2> QED
    BY <2>2, <2>3, <2>4
<1>9. k \notin TrackedIn(u) => StatesIn(u) = StatesIn(t)
  <2> SUFFICES ASSUME k \notin TrackedIn(u) PROVE StatesIn(u) = StatesIn(t)
    OBVIOUS
  <2>1. k \notin TrackedIn(t)
    BY <1>3
  <2>2. TrackedIn(u) = TrackedIn(t)
    BY <1>1, <2>1 DEF TrackedIn
  <2>3. StatesIn(u) = [n \in TrackedIn(u) |-> StatesIn(u)[n]]
        /\ StatesIn(t) = [n \in TrackedIn(t) |-> StatesIn(t)[n]]
    BY DEF StatesIn
  <2>4. \A n \in TrackedIn(u) : StatesIn(u)[n] = StatesIn(t)[n]
    BY <1>2, <2>1, <2>2
  <2> QED
    BY <2>2, <2>3, <2>4
<1>10. CASE k \in TrackedIn(t)
  <2>1. i \notin Unused(t)
    BY <1>7, <1>10, SlotForIs DEF Found, Unused, Holds
  <2> HIDE DEF i
  <2> QED
    BY <1>3, <1>6, <1>8, <1>10, <2>1
<1>11. CASE k \notin TrackedIn(t) /\ Unused(t) # {}
  <2>1. i \in Unused(t)
    BY <1>7, <1>11, SlotForIs
  <2>2. RoomIn(t) > 0
    BY <1>5, <1>11
  <2> HIDE DEF i
  <2> QED
    BY <1>3, <1>6, <1>8, <1>9, <1>11, <2>1, <2>2
<1>12. CASE k \notin TrackedIn(t) /\ Unused(t) = {}
  <2> HIDE DEF i
  <2> QED
    BY <1>3, <1>5, <1>6, <1>9, <1>12
<1> QED
  BY <1>10, <1>11, <1>12

(* What the registry reads of a block is what the lookup opens. *)
LEMMA OpenedState ==
  ASSUME NEW t \in BlockTable, NEW k \in Names
  PROVE  StateIn(Opened(t, k)) =
           IF k \in TrackedIn(t) THEN StatesIn(t)[k] ELSE StateIn(ClaimedFor(k))
BY DEF Opened, SlotFor, TrackedIn, StatesIn

LEMMA Mapping ==
  /\ TrackedStates = StatesIn(blocks) /\ TrackedStates' = StatesIn(blocks')
  /\ DOMAIN TrackedStates = TrackedIn(blocks)
BY DEF TrackedStates, Tracked, StatesIn, TrackedIn

LEMMA UseMaps ==
  ASSUME TypeOK, NEW k \in Names, NEW s, Leaves(blocks, k, s), called' = k
  PROVE  Registry!Use(k, StateIn(s))
<1>1. blocks \in BlockTable /\ LeftIn(blocks, k, s) /\ blocks' = TableWith(blocks, k, s)
  BY DEF TypeOK, Leaves
<1>2. /\ Registry!Extended(k, StateIn(s)) = ExtendedIn(blocks, k, StateIn(s))
      /\ Registry!Fits(k) <=> Fits(k)
  BY Mapping DEF Registry!Extended, ExtendedIn, Registry!Fits, Fits
<1>3. Cardinality(Unused(blocks)) = RoomIn(blocks)
      /\ Cardinality(Unused(blocks))' = RoomIn(blocks')
  BY DEF RoomIn
<1> QED
  BY <1>1, <1>2, <1>3, Mapping, TrackedAfter DEF Registry!Use

LEMMA StateOfIs ==
  ASSUME TypeOK, NEW k \in Names
  PROVE  Registry!StateOf(k) = StateIn(Opened(blocks, k))
<1>1. Registry!FreshState = StateIn(ClaimedFor(k))
  BY DEF Registry!FreshState, Registry!ClosedBreaker, ClosedBreaker, StateIn, ClaimedFor
<1> QED
  BY <1>1, Mapping, OpenedState DEF Registry!StateOf, TypeOK

(* A change of a slot is the same change of the state in it. *)
LEMMA ChangesMap ==
  ASSUME NEW o \in BlockState
  PROVE  /\ \A level : StateIn([o EXCEPT !.health = level])
                         = [StateIn(o) EXCEPT !.health = level]
         /\ \A w : StateIn([o EXCEPT !.watchdog = w]) = [StateIn(o) EXCEPT !.watchdog = w]
         /\ \A c \in Breaker : /\ StateIn([o EXCEPT !.breaker = c])
                                  = [StateIn(o) EXCEPT !.breaker = c]
                              /\ [o EXCEPT !.breaker = c] \in BlockState
         /\ o.watchdog = StateIn(o).watchdog /\ o.breaker = StateIn(o).breaker
         /\ o.breaker \in Breaker
         /\ StateIn(Synchronised(o)) = Registry!Synced(StateIn(o))
<1>1. \A level : StateIn([o EXCEPT !.health = level])
                   = [StateIn(o) EXCEPT !.health = level]
  BY DEF StateIn, BlockState
<1>2. \A w : StateIn([o EXCEPT !.watchdog = w]) = [StateIn(o) EXCEPT !.watchdog = w]
  BY DEF StateIn, BlockState
<1>3. \A c \in Breaker : /\ StateIn([o EXCEPT !.breaker = c])
                             = [StateIn(o) EXCEPT !.breaker = c]
                         /\ [o EXCEPT !.breaker = c] \in BlockState
  BY DEF StateIn, BlockState
<1>4. \A r : StateIn([o EXCEPT !.recovery = r]) = [StateIn(o) EXCEPT !.recovery = r]
  BY DEF StateIn, BlockState
<1>5. o.watchdog = StateIn(o).watchdog /\ o.breaker = StateIn(o).breaker
  BY DEF StateIn
<1>6. StateIn(Synchronised(o)) = Registry!Synced(StateIn(o))
  BY <1>4, <1>5 DEF Synchronised, Registry!Synced
<1>7. o.breaker \in Breaker
  BY DEF BlockState
<1> QED
  BY <1>1, <1>2, <1>3, <1>5, <1>6, <1>7

LEMMA SameOperators ==
  /\ \A level, kind : Registry!WatchdogAfter(level, kind) = WatchdogAfter(level, kind)
  /\ \A c : Registry!Succeeded(c) = Succeeded(c) /\ Registry!Failed(c) = Failed(c)
  /\ \A c : Registry!Aged(c) = Aged(c)
  /\ Registry!ClosedBreaker = ClosedBreaker
BY DEF Registry!WatchdogAfter, WatchdogAfter, Registry!Succeeded, Succeeded,
       Registry!Failed, Failed, Registry!Aged, Aged, Registry!ClosedBreaker, ClosedBreaker

LEMMA CallMaps ==
  ASSUME TypeOK, NEW b \in Blocks, OneCall(b)
  PROVE  Registry!Next
<1> DEFINE k == Key(b)
           o == Opened(blocks, k)
<1>1. k \in Names /\ o \in BlockState /\ Registry!StateOf(k) = StateIn(o)
  BY KeyType, OpenedIs, StateOfIs DEF TypeOK
<1>2. ASSUME NEW level \in Levels, HealthSet(b, level) PROVE Registry!UseHealth(k, level)
  <2> DEFINE s == [o EXCEPT !.health = level]
  <2>1. Leaves(blocks, k, s) /\ called' = k
    BY <1>2, HealthSetLeaves
  <2>2. Registry!Use(k, StateIn(s))
    BY <1>1, <2>1, UseMaps
  <2>3. StateIn(s) = [StateIn(o) EXCEPT !.health = level]
    BY <1>1, ChangesMap
  <2> HIDE DEF o, k
  <2> QED
    BY <1>1, <2>2, <2>3 DEF Registry!UseHealth
<1>3. ASSUME StateGet(b) PROVE Registry!Use(k, Registry!StateOf(k))
  BY <1>1, <1>3, StateGetLeaves, UseMaps
<1>4. ASSUME NEW kind \in SomeKinds, WatchdogObserve(b, kind)
      PROVE  Registry!UseEvent(k, kind)
  <2> DEFINE w == WatchdogAfter(o.watchdog, kind)
             s == [o EXCEPT !.watchdog = w]
  <2>1. Leaves(blocks, k, s) /\ called' = k
    BY <1>4, ObserveLeaves
  <2>2. Registry!Use(k, StateIn(s))
    BY <1>1, <2>1, UseMaps
  <2>3. StateIn(s) = [StateIn(o) EXCEPT !.watchdog = w]
    BY <1>1, ChangesMap
  <2>4. w = Registry!WatchdogAfter(StateIn(o).watchdog, kind)
    BY <1>1, ChangesMap, SameOperators
  <2> HIDE DEF o, k
  <2> QED
    BY <1>1, <2>2, <2>3, <2>4 DEF Registry!UseEvent
<1>5. ASSUME RecoveryAllowAttempt(b) PROVE HaveMicrores /\ Registry!UseAttempt(k)
  BY <1>1, <1>5, AttemptLeaves, UseMaps, ChangesMap
  DEF Registry!UseAttempt, RecoveryAllowAttempt
<1>6. ASSUME NEW success \in BOOLEAN, RecoveryReportResult(b, success)
      PROVE  HaveMicrores /\ Registry!UseResult(k, success)
  <2> DEFINE c == Reported(o.breaker, success)
             s == [o EXCEPT !.breaker = c]
  <2>1. Leaves(blocks, k, Synchronised(s)) /\ called' = k
    BY <1>6, ResultLeaves
  <2>2. Registry!Use(k, StateIn(Synchronised(s)))
    BY <1>1, <2>1, UseMaps
  <2>3. c \in Breaker
    BY <1>1, ChangesMap, BreakerType DEF Reported
  <2>4. StateIn(s) = [StateIn(o) EXCEPT !.breaker = c] /\ s \in BlockState
    <3> HIDE DEF c, o
    <3> QED
      BY <1>1, <2>3, ChangesMap
  <2>5. StateIn(Synchronised(s)) = Registry!Synced(StateIn(s))
    BY <2>4, ChangesMap
  <2>6. c = IF success THEN Registry!Succeeded(StateIn(o).breaker)
            ELSE Registry!Failed(StateIn(o).breaker)
    BY <1>1, ChangesMap, SameOperators DEF Reported
  <2> HIDE DEF o, k, s, c
  <2>7. Registry!UseResult(k, success) =
          Registry!Use(k, Registry!Synced([StateIn(o) EXCEPT !.breaker = c]))
    BY <1>1, <2>6 DEF Registry!UseResult
  <2> QED
    BY <1>6, <2>2, <2>4, <2>5, <2>7 DEF RecoveryReportResult
<1> HIDE DEF k
<1> QED
  BY <1>1, <1>2, <1>3, <1>4, <1>5, <1>6 DEF OneCall, Registry!Next

(* The resets and time change the state of every tracked block alike. *)
LEMMA ResetMaps ==
  ASSUME NEW t \in BlockTable,
         NEW u \in {WatchdogReset(t), RecoveryReset(t), TimePasses(t)}
  PROVE  /\ RoomIn(u) = RoomIn(t) /\ TrackedIn(u) = TrackedIn(t)
         /\ \A n \in TrackedIn(t) :
              \E i \in 0 .. BlockSlots - 1 :
                /\ StatesIn(t)[n] = StateIn(t.slot[i])
                /\ StatesIn(u)[n] = StateIn(u.slot[i])
<1>1. Unused(u) = Unused(t) /\ \A n \in Names : Found(u, n) = Found(t, n)
  BY ResetsKeepOwners
<1>2. RoomIn(u) = RoomIn(t) /\ TrackedIn(u) = TrackedIn(t)
  BY <1>1 DEF RoomIn, TrackedIn
<1>3. ASSUME NEW n \in TrackedIn(t)
      PROVE  \E i \in 0 .. BlockSlots - 1 :
               /\ StatesIn(t)[n] = StateIn(t.slot[i])
               /\ StatesIn(u)[n] = StateIn(u.slot[i])
  <2> DEFINE i == Min(Found(t, n))
  <2>1. n \in Names /\ Found(t, n) # {} /\ Found(t, n) \in SUBSET Nat
    BY DEF TrackedIn, Found
  <2>2. i \in 0 .. BlockSlots - 1
    BY <2>1, MinIsLeast DEF Found
  <2>3. StatesIn(t)[n] = StateIn(t.slot[i])
    BY DEF StatesIn
  <2>4. StatesIn(u)[n] = StateIn(u.slot[Min(Found(u, n))])
    BY <1>2 DEF StatesIn
  <2>5. Min(Found(u, n)) = i
    BY <1>1, <2>1
  <2> QED
    BY <2>2, <2>3, <2>4, <2>5
<1> QED
  BY <1>2, <1>3

LEMMA StateChanges ==
  ASSUME NEW o \in BlockState
  PROVE  /\ StateIn([o EXCEPT !.watchdog = 0]) = [StateIn(o) EXCEPT !.watchdog = 0]
         /\ StateIn([[o EXCEPT !.recovery = 0] EXCEPT !.breaker = ClosedBreaker])
              = [StateIn(o) EXCEPT !.recovery = 0, !.breaker = Registry!ClosedBreaker]
         /\ StateIn([o EXCEPT !.breaker = Aged(@)])
              = [StateIn(o) EXCEPT !.breaker = Registry!Aged(@)]
<1>1. StateIn([o EXCEPT !.watchdog = 0]) = [StateIn(o) EXCEPT !.watchdog = 0]
  BY DEF StateIn, BlockState
<1>2. \A c : StateIn([[o EXCEPT !.recovery = 0] EXCEPT !.breaker = c])
               = [StateIn(o) EXCEPT !.recovery = 0, !.breaker = c]
  <2> SUFFICES ASSUME NEW c
               PROVE  StateIn([[o EXCEPT !.recovery = 0] EXCEPT !.breaker = c])
                        = [StateIn(o) EXCEPT !.recovery = 0, !.breaker = c]
    OBVIOUS
  <2> DEFINE r == StateIn(o)
             p == [[o EXCEPT !.recovery = 0] EXCEPT !.breaker = c]
  <2>1. r \in [health : Int, watchdog : 0 .. 2, recovery : 0 .. 2, breaker : Breaker]
    BY DEF StateIn, BlockState
  <2>2. [r EXCEPT !.recovery = 0, !.breaker = c]
          = [[r EXCEPT !.recovery = 0] EXCEPT !.breaker = c]
    <3> HIDE DEF r
    <3> QED
      BY <2>1
  <2>3. StateIn(p) = [[r EXCEPT !.recovery = 0] EXCEPT !.breaker = c]
    <3> DEFINE q == [o EXCEPT !.recovery = 0]
    <3>1. StateIn(q) = [r EXCEPT !.recovery = 0] /\ q \in BlockState
      BY DEF StateIn, BlockState
    <3> HIDE DEF q
    <3>2. StateIn([q EXCEPT !.breaker = c]) = [StateIn(q) EXCEPT !.breaker = c]
      BY <3>1 DEF StateIn, BlockState
    <3> HIDE DEF r
    <3> QED
      BY <3>1, <3>2 DEF q
  <2> QED
    BY <2>2, <2>3
<1>3. \A c : StateIn([o EXCEPT !.breaker = c]) = [StateIn(o) EXCEPT !.breaker = c]
  BY DEF StateIn, BlockState
<1>4. o.breaker = StateIn(o).breaker
  BY DEF StateIn
<1> QED
  BY <1>1, <1>2, <1>3, <1>4, SameOperators

LEMMA WatchdogResetMaps ==
  ASSUME TypeOK, WatchdogStateReset
  PROVE  Registry!ClearWatchdogs
<1> DEFINE t == blocks
           u == blocks'
<1>1. t \in BlockTable /\ u = WatchdogReset(t) /\ called' = NoName
  BY DEF TypeOK, WatchdogStateReset
<1>2. \A i \in 0 .. BlockSlots - 1 :
        StateIn(u.slot[i]) = [StateIn(t.slot[i]) EXCEPT !.watchdog = 0]
  BY <1>1, ResetSlots, StateChanges
<1>3. \A n \in TrackedIn(t) : StatesIn(u)[n] = [StatesIn(t)[n] EXCEPT !.watchdog = 0]
  BY <1>1, <1>2, ResetMaps
<1>4. RoomIn(u) = RoomIn(t) /\ TrackedIn(u) = TrackedIn(t)
  BY <1>1, ResetMaps
<1>5. StatesIn(u) = [n \in TrackedIn(t) |-> [StatesIn(t)[n] EXCEPT !.watchdog = 0]]
  BY <1>3, <1>4 DEF StatesIn
<1> QED
  BY <1>1, <1>4, <1>5, Mapping DEF Registry!ClearWatchdogs, Registry!ForAll, RoomIn

LEMMA RecoveryResetMaps ==
  ASSUME TypeOK, RecoveryStateReset
  PROVE  Registry!ClearRecoveries
<1> DEFINE t == blocks
           u == blocks'
           Cleared(r) == [r EXCEPT !.recovery = 0, !.breaker = Registry!ClosedBreaker]
<1>1. t \in BlockTable /\ u = RecoveryReset(t) /\ called' = NoName
  BY DEF TypeOK, RecoveryStateReset
<1>2. \A i \in 0 .. BlockSlots - 1 : StateIn(u.slot[i]) = Cleared(StateIn(t.slot[i]))
  <2> SUFFICES ASSUME NEW i \in 0 .. BlockSlots - 1
               PROVE  StateIn(u.slot[i]) = Cleared(StateIn(t.slot[i]))
    OBVIOUS
  <2> DEFINE o == t.slot[i]
  <2>1. /\ o \in BlockState
        /\ u.slot[i] = [[o EXCEPT !.recovery = 0] EXCEPT !.breaker = ClosedBreaker]
    BY <1>1, ResetSlots
  <2> HIDE DEF o
  <2>2. StateIn(u.slot[i])
          = [StateIn(o) EXCEPT !.recovery = 0, !.breaker = Registry!ClosedBreaker]
    BY <2>1, StateChanges
  <2>3. Cleared(StateIn(o)) =
          [StateIn(o) EXCEPT !.recovery = 0, !.breaker = Registry!ClosedBreaker]
    OBVIOUS
  <2> HIDE DEF Cleared
  <2> QED
    BY <2>2, <2>3 DEF o
<1> HIDE DEF Cleared
<1>3. \A n \in TrackedIn(t) : StatesIn(u)[n] = Cleared(StatesIn(t)[n])
  BY <1>1, <1>2, ResetMaps
<1>4. RoomIn(u) = RoomIn(t) /\ TrackedIn(u) = TrackedIn(t)
  BY <1>1, ResetMaps
<1>5. StatesIn(u) = [n \in TrackedIn(t) |-> Cleared(StatesIn(t)[n])]
  BY <1>3, <1>4 DEF StatesIn
<1> QED
  BY <1>1, <1>4, <1>5, Mapping DEF Cleared, Registry!ClearRecoveries, Registry!ForAll, RoomIn

LEMMA TickMaps ==
  ASSUME TypeOK, Tick
  PROVE  Registry!Age
<1> DEFINE t == blocks
           u == blocks'
           Older(r) == [r EXCEPT !.breaker = Registry!Aged(@)]
<1>1. t \in BlockTable /\ u = TimePasses(t) /\ called' = NoName
  BY DEF TypeOK, Tick
<1>2. \A i \in 0 .. BlockSlots - 1 : StateIn(u.slot[i]) = Older(StateIn(t.slot[i]))
  BY <1>1, ResetSlots, StateChanges
<1>3. \A n \in TrackedIn(t) : StatesIn(u)[n] = Older(StatesIn(t)[n])
  BY <1>1, <1>2, ResetMaps
<1>4. RoomIn(u) = RoomIn(t) /\ TrackedIn(u) = TrackedIn(t)
  BY <1>1, ResetMaps
<1>5. StatesIn(u) = [n \in TrackedIn(t) |-> Older(StatesIn(t)[n])]
  BY <1>3, <1>4 DEF StatesIn
<1> QED
  BY <1>1, <1>4, <1>5, Mapping DEF Registry!Age, Registry!ForAll, RoomIn

LEMMA InitMaps == Init => Registry!Init
<1> SUFFICES ASSUME Init PROVE Registry!Init
  OBVIOUS
<1>1. Unused(blocks) = 0 .. BlockSlots - 1 /\ TrackedIn(blocks) = {}
  BY NoBlocksIs DEF Init, TrackedIn
<1>2. Cardinality(0 .. BlockSlots - 1) = BlockSlots
  BY FS_Interval, BlockStatesAssumption
<1>3. StatesIn(blocks) = [n \in {} |-> Registry!FreshState]
  BY <1>1 DEF StatesIn
<1> QED
  BY <1>1, <1>2, <1>3, Mapping DEF Init, Registry!Init

(* Every call, with its scan, claiming and overflow, is an operation of the
   registry: it never changes what another tracked block is told. *)
THEOREM TableImplementsRegistry == Spec => ImplementsRegistry
<1>1. TypeOK /\ [Next]_vars => [Registry!Next]_<<Cardinality(Unused(blocks)), TrackedStates, called>>
  <2> SUFFICES ASSUME TypeOK, [Next]_vars
               PROVE  [Registry!Next]_<<Cardinality(Unused(blocks)), TrackedStates, called>>
    OBVIOUS
  <2>1. CASE \E b \in Blocks : OneCall(b)
    BY <2>1, CallMaps
  <2>2. CASE WatchdogStateReset
    BY <2>2, WatchdogResetMaps DEF Registry!Next
  <2>3. CASE RecoveryStateReset
    BY <2>3, RecoveryResetMaps DEF Registry!Next
  <2>4. CASE Tick
    BY <2>4, TickMaps DEF Registry!Next
  <2>5. CASE UNCHANGED vars
    BY <2>5, Mapping DEF vars, Unused
  <2> QED
    BY <2>1, <2>2, <2>3, <2>4, <2>5 DEF Next, OneCall
<1> QED
  BY <1>1, InitMaps, TypesHold, PTL DEF Spec, Registry!Spec, ImplementsRegistry
=============================================================================
