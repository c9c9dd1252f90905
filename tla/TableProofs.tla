---------------------------- MODULE TableProofs -----------------------------
(***************************************************************************)
(* Lemmas on names and on the operators of the two tables, BlockStates and   *)
(* FailureStreaks: what they return is a table again, which slot a lookup     *)
(* returns, what an operation on one block leaves of the others, and what it *)
(* keeps true of the table.                                                  *)
(***************************************************************************)
EXTENDS FailureStreaks, BlockStates, WellFoundedInduction, TLAPS

-----------------------------------------------------------------------------
(* Least elements. *)

(* A set of naturals that is not empty has a least element, and Min is it. *)
LEMMA MinIsLeast ==
  ASSUME NEW S \in SUBSET Nat, S # {}
  PROVE  Min(S) \in S /\ \A x \in S : Min(S) <= x
<1> DEFINE Below == OpToRel(<, Nat)
<1>1. PICK m \in S : \A y \in S : ~ (<<y, m>> \in Below)
  <2>1. IsWellFoundedOn(Below, Nat)
    BY NatLessThanWellFounded
  <2>2. S \subseteq Nat
    OBVIOUS
  <2> HIDE DEF Below
  <2> QED
    BY <2>1, <2>2, WFMin
<1>2. \A y \in S : m <= y
  <2> SUFFICES ASSUME NEW y \in S PROVE m <= y
    OBVIOUS
  <2>1. ~ (<<y, m>> \in {p \in Nat \X Nat : p[1] < p[2]})
    BY <1>1 DEF OpToRel
  <2> QED
    BY <2>1
<1> QED
  BY <1>2 DEF Min

-----------------------------------------------------------------------------
(* Names. *)

(* A slot kept for one block answers for no other: 63 characters and the hash
   tell the names apart. *)
LEMMA OwnerIsUnique ==
  ASSUME NEW slot, NEW k \in Names, NEW n \in Names,
         slot.block_name = Text[k], slot.name_hash = Hash[k], Holds(slot, n)
  PROVE  n = k
<1>1. Text[k] = n /\ Hash[n] = Hash[k]
  BY DEF Holds
<1>2. Text[n] = n
  BY <1>1, KeptTextsFit
<1> QED
  BY <1>1, <1>2, HashSeparates

(* A used slot kept for a block answers for it when its name fits. *)
LEMMA OwnerIsFound ==
  ASSUME NEW slot, NEW k \in Names, slot.in_use,
         slot.block_name = Text[k], slot.name_hash = Hash[k]
  PROVE  Holds(slot, k) <=> Fits(k)
BY DEF Holds, Fits

-----------------------------------------------------------------------------
(* Block states. *)

(* A slot that is unused, and one just claimed for a name. *)
LEMMA ClaimedType ==
  ASSUME NEW k \in Names
  PROVE  UnusedBlock \in BlockState /\ ClaimedFor(k) \in BlockState
<1>1. ClosedBreaker \in Breaker
  BY BlockStatesAssumption DEF ClosedBreaker, Breaker
<1>2. {Text[k], NoName} \subseteq Texts /\ {Hash[k], NoName} \subseteq Hashes
  BY DEF Texts, Hashes
<1>3. UnusedBlock \in BlockState
  BY <1>1, <1>2 DEF UnusedBlock, BlockState
<1>4. ClaimedFor(k) \in BlockState
  BY <1>1, <1>2 DEF ClaimedFor, BlockState
<1> QED
  BY <1>3, <1>4

(* The slot a lookup in the block table answers with, Key(b) being a name. *)
LEMMA GetBlockType ==
  ASSUME NEW t \in BlockTable, NEW b \in Names \cup {NoName}
  PROVE  /\ GetBlock(t, b) \in BlockTable
         /\ GetBlock(t, b).active \in 0 .. BlockSlots
<1> DEFINE k == Key(b)
           i == IF Found(t, k) # {} THEN Min(Found(t, k))
                ELSE IF Unused(t) # {} THEN Min(Unused(t))
                ELSE BlockSlots
<1>1. k \in Names
  BY NamesAssumption DEF Key
<1>2. i \in 0 .. BlockSlots
  <2>1. Found(t, k) # {} => Min(Found(t, k)) \in Found(t, k)
    <3> Found(t, k) \in SUBSET Nat
      BY DEF Found
    <3> QED
      BY MinIsLeast
  <2>2. Unused(t) # {} => Min(Unused(t)) \in Unused(t)
    <3> Unused(t) \in SUBSET Nat
      BY DEF Unused
    <3> QED
      BY MinIsLeast
  <2>3. Found(t, k) \subseteq 0 .. BlockSlots /\ Unused(t) \subseteq 0 .. BlockSlots
    BY BlockStatesAssumption DEF Found, Unused
  <2> QED
    BY <2>1, <2>2, <2>3, BlockStatesAssumption
<1>3. ClaimedFor(k) \in BlockState
  BY <1>1, ClaimedType
<1> HIDE DEF i
<1>4. [t EXCEPT !.active = i] \in BlockTable
  BY <1>2 DEF BlockTable
<1>5. [slot |-> [t.slot EXCEPT ![i] = ClaimedFor(k)], active |-> i] \in BlockTable
  BY <1>2, <1>3 DEF BlockTable
<1>6. GetBlock(t, b) = IF Found(t, k) # {} THEN [t EXCEPT !.active = i]
        ELSE [slot |-> [t.slot EXCEPT ![i] = ClaimedFor(k)], active |-> i]
  BY DEF GetBlock, i
<1> QED
  BY <1>2, <1>4, <1>5, <1>6 DEF BlockTable

(* lox_adapter_health_set_for_block *)
LEMMA SetHealthType ==
  ASSUME NEW t \in BlockTable, NEW b \in Names \cup {NoName}, NEW level \in Int
  PROVE  SetHealth(t, b, level) \in BlockTable
<1>1. GetBlock(t, b) \in BlockTable
  BY GetBlockType
<1>2. \A s \in BlockState : [s EXCEPT !.health = level] \in BlockState
  BY DEF BlockState
<1> QED
  BY <1>1, <1>2 DEF SetHealth, BlockTable

(* lox_adapter_watchdog_observe_event *)
LEMMA ObserveEventType ==
  ASSUME NEW t \in BlockTable, NEW b \in Names \cup {NoName}, NEW kind
  PROVE  ObserveEvent(t, b, kind) \in BlockTable
<1>1. GetBlock(t, b) \in BlockTable
  BY GetBlockType
<1>2. \A s \in BlockState :
        [s EXCEPT !.watchdog = WatchdogAfter(@, kind)] \in BlockState
  BY DEF BlockState, WatchdogAfter
<1> QED
  BY <1>1, <1>2 DEF ObserveEvent, BlockTable

(* lox_sync_recovery_state *)
LEMMA SyncRecoveryType ==
  ASSUME NEW t \in BlockTable
  PROVE  SyncRecovery(t) \in BlockTable
<1> DEFINE r == IF t.slot[t.active].breaker.open THEN 1 ELSE 0
<1>1. r \in 0 .. 2
  OBVIOUS
<1>2. SyncRecovery(t) = [t EXCEPT !.slot[t.active].recovery = r]
  BY DEF SyncRecovery
<1> HIDE DEF r
<1>3. \A s \in BlockState : [s EXCEPT !.recovery = r] \in BlockState
  BY <1>1 DEF BlockState
<1>4. t.slot \in [0 .. BlockSlots -> BlockState] /\ t.active \in 0 .. BlockSlots
  BY DEF BlockTable
<1>5. [t.slot EXCEPT ![t.active].recovery = r] \in [0 .. BlockSlots -> BlockState]
  BY <1>3, <1>4
<1>6. SyncRecovery(t) = [t EXCEPT !.slot = [t.slot EXCEPT ![t.active].recovery = r]]
  BY <1>2, <1>4 DEF BlockTable
<1> QED
  BY <1>5, <1>6 DEF BlockTable

(* lox_adapter_recovery_allow_attempt_for_block *)
LEMMA AttemptCheckedType ==
  ASSUME NEW t \in BlockTable, NEW b \in Names \cup {NoName}
  PROVE  AttemptChecked(t, b) \in BlockTable
BY GetBlockType, SyncRecoveryType DEF AttemptChecked

(* A breaker stays one whatever is reported to it and however long it waits. *)
LEMMA BreakerType ==
  ASSUME NEW breaker \in Breaker
  PROVE  /\ Succeeded(breaker) \in Breaker
         /\ Failed(breaker) \in Breaker
         /\ Aged(breaker) \in Breaker
BY BlockStatesAssumption DEF Succeeded, Failed, Aged, ClosedBreaker, Breaker

(* lox_adapter_recovery_report_result_for_block *)
LEMMA ReportResultType ==
  ASSUME NEW t \in BlockTable, NEW b \in Names \cup {NoName}, NEW success \in BOOLEAN
  PROVE  ReportResult(t, b, success) \in BlockTable
<1> DEFINE g == GetBlock(t, b)
           h == [g EXCEPT !.slot[g.active].breaker =
                   IF success THEN Succeeded(@) ELSE Failed(@)]
<1>1. g \in BlockTable
  BY GetBlockType
<1>2. \A s \in BlockState :
        [s EXCEPT !.breaker = IF success THEN Succeeded(@) ELSE Failed(@)] \in BlockState
  BY BreakerType DEF BlockState
<1>3. h \in BlockTable
  <2> HIDE DEF g
  <2> QED
    BY <1>1, <1>2 DEF BlockTable
<1>4. SyncRecovery(h) \in BlockTable
  <2> HIDE DEF h
  <2> QED
    BY <1>3, SyncRecoveryType
<1> QED
  BY <1>4 DEF ReportResult

(* lox_adapter_recovery_reset, and the clock of the breakers. *)
LEMMA ResetType ==
  ASSUME NEW t \in BlockTable
  PROVE  RecoveryReset(t) \in BlockTable /\ TimePasses(t) \in BlockTable
<1>1. UnusedBlock \in BlockState
  BY ClaimedType, NamesAssumption
<1>2. \A s \in BlockState :
        /\ [s EXCEPT !.recovery = 0, !.breaker = ClosedBreaker] \in BlockState
        /\ [s EXCEPT !.breaker = Aged(@)] \in BlockState
  <2>1. ClosedBreaker \in Breaker
    BY BlockStatesAssumption DEF ClosedBreaker, Breaker
  <2>2. \A s \in BlockState : [s EXCEPT !.breaker = Aged(@)] \in BlockState
    BY BreakerType DEF BlockState
  <2>3. ASSUME NEW s \in BlockState
        PROVE  [s EXCEPT !.recovery = 0, !.breaker = ClosedBreaker] \in BlockState
    <3>1. [s EXCEPT !.recovery = 0] \in BlockState
      BY DEF BlockState
    <3>2. [s EXCEPT !.recovery = 0, !.breaker = ClosedBreaker]
            = [[s EXCEPT !.recovery = 0] EXCEPT !.breaker = ClosedBreaker]
      BY DEF BlockState
    <3> QED
      BY <2>1, <3>1, <3>2 DEF BlockState
  <2> QED
    BY <2>2, <2>3
<1>3. RecoveryReset(t) \in BlockTable
  <2>1. \A i \in 0 .. BlockSlots : t.slot[i] \in BlockState
    BY DEF BlockTable
  <2>2. [i \in 0 .. BlockSlots |->
           IF i = BlockSlots THEN UnusedBlock
           ELSE [t.slot[i] EXCEPT !.recovery = 0, !.breaker = ClosedBreaker]]
        \in [0 .. BlockSlots -> BlockState]
    BY <1>1, <1>2, <2>1
  <2>3. BlockSlots \in 0 .. BlockSlots
    BY BlockStatesAssumption
  <2> QED
    BY <2>2, <2>3 DEF RecoveryReset, BlockTable
<1>4. TimePasses(t) \in BlockTable
  BY <1>2 DEF TimePasses, BlockTable
<1> QED
  BY <1>3, <1>4

-----------------------------------------------------------------------------
(* Every operation on a block's state is a lookup of its slot and a change of *)
(* what is in it.                                                            *)

(* The slot the lookup returns, and what it holds then. *)
SlotFor(t, k) ==
  IF Found(t, k) # {} THEN Min(Found(t, k))
  ELSE IF Unused(t) # {} THEN Min(Unused(t))
  ELSE BlockSlots

Opened(t, k) == IF Found(t, k) # {} THEN t.slot[SlotFor(t, k)] ELSE ClaimedFor(k)

(* The table when that slot is left in state s. *)
TableWith(t, k, s) ==
  [slot |-> [t.slot EXCEPT ![SlotFor(t, k)] = s], active |-> SlotFor(t, k)]

SameOwner(s, o) ==
  /\ s.in_use = o.in_use
  /\ s.block_name = o.block_name
  /\ s.name_hash = o.name_hash

(* A state a block's slot may be left in: the block's still. *)
LeftIn(t, k, s) == s \in BlockState /\ SameOwner(s, Opened(t, k))

(* Which slot that is, and what it holds. *)
LEMMA SlotForIs ==
  ASSUME NEW t \in BlockTable, NEW k \in Names
  PROVE  /\ SlotFor(t, k) \in 0 .. BlockSlots
         /\ Found(t, k) # {} => SlotFor(t, k) \in Found(t, k)
         /\ Found(t, k) = {} /\ Unused(t) # {} =>
              SlotFor(t, k) \in Unused(t) /\ \A i \in Unused(t) : SlotFor(t, k) <= i
         /\ Found(t, k) = {} /\ Unused(t) = {} => SlotFor(t, k) = BlockSlots
<1>1. Found(t, k) \in SUBSET Nat /\ Unused(t) \in SUBSET Nat
  BY DEF Found, Unused
<1>2. Found(t, k) # {} => Min(Found(t, k)) \in Found(t, k)
  BY <1>1, MinIsLeast
<1>3. Unused(t) # {} =>
        Min(Unused(t)) \in Unused(t) /\ \A i \in Unused(t) : Min(Unused(t)) <= i
  BY <1>1, MinIsLeast
<1>4. Found(t, k) \subseteq 0 .. BlockSlots /\ Unused(t) \subseteq 0 .. BlockSlots
      /\ BlockSlots \in 0 .. BlockSlots
  BY BlockStatesAssumption DEF Found, Unused
<1> QED
  BY <1>2, <1>3, <1>4 DEF SlotFor

LEMMA OpenedIs ==
  ASSUME NEW t \in BlockTable, NEW k \in Names
  PROVE  Opened(t, k) \in BlockState /\ Opened(t, k).in_use
<1>1. CASE Found(t, k) # {}
  <2>1. SlotFor(t, k) \in 0 .. BlockSlots /\ SlotFor(t, k) \in Found(t, k)
    BY <1>1, SlotForIs
  <2> QED
    BY <1>1, <2>1 DEF Opened, BlockTable, Found, Holds
<1>2. CASE Found(t, k) = {}
  BY <1>2, ClaimedType DEF Opened, ClaimedFor
<1> QED
  BY <1>1, <1>2

LEMMA TableWithType ==
  ASSUME NEW t \in BlockTable, NEW k \in Names, NEW s \in BlockState
  PROVE  /\ TableWith(t, k, s) \in BlockTable
         /\ TableWith(t, k, s).active = SlotFor(t, k)
         /\ TableWith(t, k, s).slot[SlotFor(t, k)] = s
         /\ \A i \in 0 .. BlockSlots :
              i # SlotFor(t, k) => TableWith(t, k, s).slot[i] = t.slot[i]
BY SlotForIs DEF TableWith, BlockTable

(* Leaving it in one state and then in another is leaving it in the other. *)
LEMMA TableWithTwice ==
  ASSUME NEW t \in BlockTable, NEW k \in Names, NEW s \in BlockState, NEW s2,
         NEW i, i = SlotFor(t, k)
  PROVE  [TableWith(t, k, s) EXCEPT !.slot[i] = s2] = TableWith(t, k, s2)
BY SlotForIs DEF TableWith, BlockTable

-----------------------------------------------------------------------------
(* What a lookup finds after an operation on block k. *)

(* Other blocks find what they found. *)
LEMMA OthersFound ==
  ASSUME NEW t \in BlockTable, NEW k \in Names, NEW s, LeftIn(t, k, s),
         NEW n \in Names, n # k
  PROVE  Found(TableWith(t, k, s), n) = Found(t, n)
<1> DEFINE i == SlotFor(t, k)
           u == TableWith(t, k, s)
<1>1. i \in 0 .. BlockSlots /\ u.slot[i] = s
      /\ \A j \in 0 .. BlockSlots : j # i => u.slot[j] = t.slot[j]
  BY SlotForIs, TableWithType DEF LeftIn
<1>2. BlockSlots \in Nat /\ 0 .. BlockSlots - 1 \subseteq 0 .. BlockSlots
  BY BlockStatesAssumption
<1>3. CASE Found(t, k) # {}
  <2>1. SameOwner(s, t.slot[i])
    BY <1>3 DEF LeftIn, Opened
  <2>2. Holds(s, n) <=> Holds(t.slot[i], n)
    BY <2>1 DEF SameOwner, Holds
  <2> HIDE DEF i, u
  <2>3. \A j \in 0 .. BlockSlots - 1 : Holds(u.slot[j], n) <=> Holds(t.slot[j], n)
    BY <1>1, <1>2, <2>2
  <2> QED
    BY <2>3 DEF Found, u
<1>4. CASE Found(t, k) = {}
  <2>1. SameOwner(s, ClaimedFor(k))
    BY <1>4 DEF LeftIn, Opened
  <2>2. ~Holds(s, n)
    BY <2>1, OwnerIsUnique DEF SameOwner, ClaimedFor
  <2>3. i \in 0 .. BlockSlots - 1 => ~Holds(t.slot[i], n)
    <3>1. i \in Unused(t) \/ i = BlockSlots
      BY <1>4, SlotForIs
    <3> QED
      BY <3>1, <1>2 DEF Unused, Holds
  <2> HIDE DEF i, u
  <2>4. \A j \in 0 .. BlockSlots - 1 : Holds(u.slot[j], n) <=> Holds(t.slot[j], n)
    BY <1>1, <1>2, <2>2, <2>3
  <2> QED
    BY <2>4 DEF Found, u
<1> QED
  BY <1>3, <1>4

(* The block finds the slot it has, or the one it was given, unless its name
   does not fit. *)
LEMMA OwnFound ==
  ASSUME NEW t \in BlockTable, NEW k \in Names, NEW s, LeftIn(t, k, s)
  PROVE  Found(TableWith(t, k, s), k) =
           IF Found(t, k) # {} THEN Found(t, k)
           ELSE IF Unused(t) # {} /\ Fits(k) THEN {SlotFor(t, k)} ELSE {}
<1> DEFINE i == SlotFor(t, k)
           u == TableWith(t, k, s)
<1>1. i \in 0 .. BlockSlots /\ u.slot[i] = s
      /\ \A j \in 0 .. BlockSlots : j # i => u.slot[j] = t.slot[j]
  BY SlotForIs, TableWithType DEF LeftIn
<1>2. BlockSlots \in Nat /\ 0 .. BlockSlots - 1 \subseteq 0 .. BlockSlots
      /\ BlockSlots \notin 0 .. BlockSlots - 1
  BY BlockStatesAssumption
<1>3. CASE Found(t, k) # {}
  <2>1. SameOwner(s, t.slot[i])
    BY <1>3 DEF LeftIn, Opened
  <2>2. Holds(s, k) <=> Holds(t.slot[i], k)
    BY <2>1 DEF SameOwner, Holds
  <2> HIDE DEF i, u
  <2>3. \A j \in 0 .. BlockSlots - 1 : Holds(u.slot[j], k) <=> Holds(t.slot[j], k)
    BY <1>1, <1>2, <2>2
  <2>4. Found(u, k) = Found(t, k)
    BY <2>3 DEF Found
  <2> QED
    BY <1>3, <2>4 DEF u
<1>4. CASE Found(t, k) = {}
  <2>1. Holds(s, k) <=> Fits(k)
    <3>1. SameOwner(s, ClaimedFor(k))
      BY <1>4 DEF LeftIn, Opened
    <3> QED
      BY <3>1, OwnerIsFound DEF SameOwner, ClaimedFor
  <2>2. \A j \in 0 .. BlockSlots - 1 : ~Holds(t.slot[j], k)
    BY <1>4 DEF Found
  <2>3. IF Unused(t) # {} THEN i \in 0 .. BlockSlots - 1 ELSE i = BlockSlots
    BY <1>4, SlotForIs DEF Unused
  <2> HIDE DEF i, u
  <2>4. \A j \in 0 .. BlockSlots - 1 : Holds(u.slot[j], k) <=> j = i /\ Fits(k)
    BY <1>1, <1>2, <2>1, <2>2
  <2>5. Found(u, k) = IF Unused(t) # {} /\ Fits(k) THEN {i} ELSE {}
    BY <1>2, <2>3, <2>4 DEF Found
  <2> QED
    BY <1>4, <2>5 DEF u, i
<1> QED
  BY <1>3, <1>4

(* Room is used up by blocks that are new. *)
LEMMA UnusedAfter ==
  ASSUME NEW t \in BlockTable, NEW k \in Names, NEW s, LeftIn(t, k, s)
  PROVE  Unused(TableWith(t, k, s)) = Unused(t) \ {SlotFor(t, k)}
<1> DEFINE i == SlotFor(t, k)
           u == TableWith(t, k, s)
<1>1. i \in 0 .. BlockSlots /\ u.slot[i] = s
      /\ \A j \in 0 .. BlockSlots : j # i => u.slot[j] = t.slot[j]
  BY SlotForIs, TableWithType DEF LeftIn
<1>2. s.in_use
  BY OpenedIs DEF LeftIn, SameOwner
<1>3. 0 .. BlockSlots - 1 \subseteq 0 .. BlockSlots
  BY BlockStatesAssumption
<1> HIDE DEF i, u
<1>4. \A j \in 0 .. BlockSlots - 1 : ~u.slot[j].in_use <=> ~t.slot[j].in_use /\ j # i
  BY <1>1, <1>2, <1>3
<1>5. Unused(u) = Unused(t) \ {i}
  BY <1>4 DEF Unused
<1> QED
  BY <1>5 DEF u, i

(* Tables whose slots have the same owners answer alike. *)
LEMMA SameOwnersFound ==
  ASSUME NEW t, NEW u,
         \A i \in 0 .. BlockSlots - 1 : SameOwner(u.slot[i], t.slot[i])
  PROVE  Unused(u) = Unused(t) /\ \A n \in Names : Found(u, n) = Found(t, n)
BY DEF SameOwner, Unused, Found, Holds

-----------------------------------------------------------------------------
(* Each operation, as a lookup and a change. *)

(* lox_block_state_get *)
LEMMA GetBlockIs ==
  ASSUME NEW t \in BlockTable, NEW b \in Names \cup {NoName}
  PROVE  /\ GetBlock(t, b) = TableWith(t, Key(b), Opened(t, Key(b)))
         /\ LeftIn(t, Key(b), Opened(t, Key(b)))
         /\ Key(b) \in Names
<1> DEFINE k == Key(b)
<1>1. k \in Names
  BY NamesAssumption DEF Key
<1>2. LeftIn(t, k, Opened(t, k))
  BY <1>1, OpenedIs DEF LeftIn, SameOwner
<1>3. CASE Found(t, k) # {}
  <2>1. GetBlock(t, b) = [t EXCEPT !.active = SlotFor(t, k)]
    BY <1>3 DEF GetBlock, SlotFor
  <2>2. TableWith(t, k, Opened(t, k)) =
          [slot |-> [t.slot EXCEPT ![SlotFor(t, k)] = t.slot[SlotFor(t, k)]],
           active |-> SlotFor(t, k)]
    BY <1>3 DEF TableWith, Opened
  <2>3. [t.slot EXCEPT ![SlotFor(t, k)] = t.slot[SlotFor(t, k)]] = t.slot
    BY DEF BlockTable
  <2>4. [t EXCEPT !.active = SlotFor(t, k)] = [slot |-> t.slot, active |-> SlotFor(t, k)]
    BY DEF BlockTable
  <2> QED
    BY <1>1, <1>2, <2>1, <2>2, <2>3, <2>4
<1>4. CASE Found(t, k) = {}
  BY <1>1, <1>2, <1>4 DEF GetBlock, TableWith, Opened, SlotFor
<1> QED
  BY <1>3, <1>4

(* lox_adapter_health_set_for_block *)
LEMMA SetHealthIs ==
  ASSUME NEW t \in BlockTable, NEW b \in Names \cup {NoName}, NEW level \in Int
  PROVE  LET s == [Opened(t, Key(b)) EXCEPT !.health = level]
         IN  /\ SetHealth(t, b, level) = TableWith(t, Key(b), s)
             /\ LeftIn(t, Key(b), s)
<1> DEFINE k == Key(b)
           o == Opened(t, k)
           s == [o EXCEPT !.health = level]
<1>1. /\ GetBlock(t, b) = TableWith(t, k, o) /\ LeftIn(t, k, o) /\ k \in Names
  BY GetBlockIs
<1>2. LeftIn(t, k, s)
  <2> o \in BlockState
    BY <1>1 DEF LeftIn
  <2> HIDE DEF o
  <2>1. s \in BlockState /\ SameOwner(s, o)
    BY DEF BlockState, SameOwner
  <2> QED
    BY <2>1 DEF LeftIn, o
<1>3. /\ TableWith(t, k, o).active = SlotFor(t, k)
      /\ TableWith(t, k, o).slot[SlotFor(t, k)] = o
  BY <1>1, TableWithType DEF LeftIn
<1>4. SetHealth(t, b, level) = [TableWith(t, k, o) EXCEPT !.slot[SlotFor(t, k)] = s]
  <2> HIDE DEF o, k
  <2> QED
    BY <1>1, <1>3 DEF SetHealth
<1>5. [TableWith(t, k, o) EXCEPT !.slot[SlotFor(t, k)] = s] = TableWith(t, k, s)
  <2> HIDE DEF o, k, s
  <2> QED
    BY <1>1, TableWithTwice DEF LeftIn
<1> QED
  BY <1>2, <1>4, <1>5

(* lox_adapter_watchdog_observe_event *)
LEMMA ObserveEventIs ==
  ASSUME NEW t \in BlockTable, NEW b \in Names \cup {NoName}, NEW kind
  PROVE  LET s == [Opened(t, Key(b)) EXCEPT !.watchdog = WatchdogAfter(@, kind)]
         IN  /\ ObserveEvent(t, b, kind) = TableWith(t, Key(b), s)
             /\ LeftIn(t, Key(b), s)
<1> DEFINE k == Key(b)
           o == Opened(t, k)
           s == [o EXCEPT !.watchdog = WatchdogAfter(@, kind)]
<1>1. /\ GetBlock(t, b) = TableWith(t, k, o) /\ LeftIn(t, k, o) /\ k \in Names
  BY GetBlockIs
<1>2. LeftIn(t, k, s)
  <2> o \in BlockState
    BY <1>1 DEF LeftIn
  <2> HIDE DEF o
  <2>1. s \in BlockState /\ SameOwner(s, o)
    BY DEF BlockState, SameOwner, WatchdogAfter
  <2> QED
    BY <2>1 DEF LeftIn, o
<1>3. /\ TableWith(t, k, o).active = SlotFor(t, k)
      /\ TableWith(t, k, o).slot[SlotFor(t, k)] = o
  BY <1>1, TableWithType DEF LeftIn
<1>4. ObserveEvent(t, b, kind) = [TableWith(t, k, o) EXCEPT !.slot[SlotFor(t, k)] = s]
  <2> DEFINE g == TableWith(t, k, o)
             i == SlotFor(t, k)
  <2>1. g \in BlockTable /\ i \in 0 .. BlockSlots
    BY <1>1, TableWithType, SlotForIs DEF LeftIn
  <2>2. ObserveEvent(t, b, kind) =
          [g EXCEPT !.slot[i].watchdog = WatchdogAfter(@, kind)]
    <3> HIDE DEF o, k
    <3> QED
      BY <1>1, <1>3 DEF ObserveEvent
  <2>3. [g EXCEPT !.slot[i].watchdog = WatchdogAfter(@, kind)] = [g EXCEPT !.slot[i] = s]
    <3> HIDE DEF o
    <3> QED
      BY <1>3, <2>1 DEF BlockTable, BlockState
  <2> QED
    BY <2>2, <2>3
<1>5. [TableWith(t, k, o) EXCEPT !.slot[SlotFor(t, k)] = s] = TableWith(t, k, s)
  <2> HIDE DEF o, k, s
  <2> QED
    BY <1>1, TableWithTwice DEF LeftIn
<1> QED
  BY <1>2, <1>4, <1>5

(* What lox_sync_recovery_state makes of the active slot. *)
Synchronised(s) == [s EXCEPT !.recovery = IF s.breaker.open THEN 1 ELSE 0]

LEMMA SynchronisedLeftIn ==
  ASSUME NEW t \in BlockTable, NEW k \in Names, NEW s, LeftIn(t, k, s)
  PROVE  /\ LeftIn(t, k, Synchronised(s))
         /\ SyncRecovery(TableWith(t, k, s)) = TableWith(t, k, Synchronised(s))
<1> DEFINE r == IF s.breaker.open THEN 1 ELSE 0
           i == SlotFor(t, k)
           u == TableWith(t, k, s)
<1>1. s \in BlockState /\ r \in 0 .. 2
  BY DEF LeftIn
<1>2. Synchronised(s) \in BlockState /\ SameOwner(Synchronised(s), s)
  <2>1. Synchronised(s) = [s EXCEPT !.recovery = r]
    BY DEF Synchronised
  <2> HIDE DEF r
  <2> QED
    BY <1>1, <2>1 DEF BlockState, SameOwner
<1>3. u \in BlockTable /\ u.active = i /\ u.slot[i] = s /\ i \in 0 .. BlockSlots
  BY <1>1, TableWithType, SlotForIs
<1>4. SyncRecovery(u) = [u EXCEPT !.slot[i] = Synchronised(s)]
  <2> HIDE DEF u, i
  <2>1. SyncRecovery(u) = [u EXCEPT !.slot[i].recovery = r]
    BY <1>3 DEF SyncRecovery
  <2>2. Synchronised(s) = [s EXCEPT !.recovery = r]
    BY DEF Synchronised
  <2> HIDE DEF r
  <2>3. [u.slot EXCEPT ![i].recovery = r] = [u.slot EXCEPT ![i] = [s EXCEPT !.recovery = r]]
    BY <1>3 DEF BlockTable
  <2> QED
    BY <1>3, <2>1, <2>2, <2>3 DEF BlockTable
<1>5. [u EXCEPT !.slot[i] = Synchronised(s)] = TableWith(t, k, Synchronised(s))
  <2> DEFINE s2 == Synchronised(s)
  <2> HIDE DEF s2, i
  <2> QED
    BY <1>1, TableWithTwice DEF i
<1> QED
  BY <1>2, <1>4, <1>5 DEF LeftIn, SameOwner

(* lox_adapter_recovery_allow_attempt_for_block *)
LEMMA AttemptCheckedIs ==
  ASSUME NEW t \in BlockTable, NEW b \in Names \cup {NoName}, HaveMicrores
  PROVE  LET s == Synchronised(Opened(t, Key(b)))
         IN  /\ AttemptChecked(t, b) = TableWith(t, Key(b), s)
             /\ LeftIn(t, Key(b), s)
BY GetBlockIs, SynchronisedLeftIn DEF AttemptChecked

(* lox_adapter_recovery_report_result_for_block *)
Reported(breaker, success) == IF success THEN Succeeded(breaker) ELSE Failed(breaker)

LEMMA ReportResultIs ==
  ASSUME NEW t \in BlockTable, NEW b \in Names \cup {NoName},
         NEW success \in BOOLEAN, HaveMicrores
  PROVE  LET o == Opened(t, Key(b))
             s == Synchronised([o EXCEPT !.breaker = Reported(@, success)])
         IN  /\ ReportResult(t, b, success) = TableWith(t, Key(b), s)
             /\ LeftIn(t, Key(b), s)
<1> DEFINE k == Key(b)
           o == Opened(t, k)
           s == [o EXCEPT !.breaker = Reported(@, success)]
           h == [TableWith(t, k, o) EXCEPT !.slot[SlotFor(t, k)] = s]
<1>1. /\ GetBlock(t, b) = TableWith(t, k, o) /\ LeftIn(t, k, o) /\ k \in Names
  BY GetBlockIs
<1>2. LeftIn(t, k, s)
  <2>1. o \in BlockState
    BY <1>1 DEF LeftIn
  <2> HIDE DEF o
  <2>2. Reported(o.breaker, success) \in Breaker
    BY <2>1, BreakerType DEF Reported, BlockState
  <2>3. s \in BlockState /\ SameOwner(s, o)
    BY <2>1, <2>2 DEF BlockState, SameOwner
  <2> QED
    BY <1>1, <2>3 DEF LeftIn, o, SameOwner
<1>3. /\ TableWith(t, k, o).active = SlotFor(t, k)
      /\ TableWith(t, k, o).slot[SlotFor(t, k)] = o
      /\ TableWith(t, k, o) \in BlockTable /\ SlotFor(t, k) \in 0 .. BlockSlots
  BY <1>1, TableWithType, SlotForIs DEF LeftIn
<1>4. ReportResult(t, b, success) = SyncRecovery(h)
  <2> DEFINE g == TableWith(t, k, o)
             i == SlotFor(t, k)
  <2>1. ReportResult(t, b, success) =
          SyncRecovery([g EXCEPT !.slot[i].breaker =
                          IF success THEN Succeeded(@) ELSE Failed(@)])
    <3> HIDE DEF o, k
    <3> QED
      BY <1>1, <1>3 DEF ReportResult
  <2>2. [g EXCEPT !.slot[i].breaker = IF success THEN Succeeded(@) ELSE Failed(@)] = h
    <3> HIDE DEF g, i, o
    <3> QED
      BY <1>3 DEF BlockTable, BlockState, Reported, g, i
  <2> QED
    BY <2>1, <2>2
<1>5. h = TableWith(t, k, s)
  <2> HIDE DEF o, k, s
  <2> QED
    BY <1>1, TableWithTwice DEF LeftIn
<1> QED
  <2> HIDE DEF s, h
  <2>1. SyncRecovery(TableWith(t, k, s)) = TableWith(t, k, Synchronised(s))
        /\ LeftIn(t, k, Synchronised(s))
    BY <1>1, <1>2, SynchronisedLeftIn
  <2> QED
    BY <1>4, <1>5, <2>1 DEF s

-----------------------------------------------------------------------------
(* What every operation keeps true of the table. *)

(* No block has two slots. *)
OneSlotEach(t) == \A n \in Names : \A i, j \in Found(t, n) : i = j

(* Used slots form a prefix, and an unused one holds nothing. *)
InOrder(t) ==
  \A i \in 0 .. BlockSlots - 1 :
    ~t.slot[i].in_use => \A j \in i .. BlockSlots - 1 : t.slot[j] = UnusedBlock

(* The block has got the slot it will have for good, or will never have one. *)
Settled(t, k) == Found(t, k) # {} \/ Unused(t) = {} \/ ~Fits(k)

LEMMA TableWithOneSlot ==
  ASSUME NEW t \in BlockTable, NEW k \in Names, NEW s, LeftIn(t, k, s), OneSlotEach(t)
  PROVE  OneSlotEach(TableWith(t, k, s))
<1>1. \A n \in Names : n # k => Found(TableWith(t, k, s), n) = Found(t, n)
  BY OthersFound
<1>2. \/ Found(TableWith(t, k, s), k) = Found(t, k)
      \/ Found(TableWith(t, k, s), k) \subseteq {SlotFor(t, k)}
  BY OwnFound
<1> HIDE DEF OneSlotEach
<1>3. \A n \in Names : \A i, j \in Found(TableWith(t, k, s), n) : i = j
  BY <1>1, <1>2 DEF OneSlotEach
<1> QED
  BY <1>3 DEF OneSlotEach

LEMMA TableWithInOrder ==
  ASSUME NEW t \in BlockTable, NEW k \in Names, NEW s, LeftIn(t, k, s), InOrder(t)
  PROVE  InOrder(TableWith(t, k, s))
<1> DEFINE u == TableWith(t, k, s)
           c == SlotFor(t, k)
<1> SUFFICES ASSUME NEW i \in 0 .. BlockSlots - 1, ~u.slot[i].in_use,
                    NEW j \in i .. BlockSlots - 1
             PROVE  u.slot[j] = UnusedBlock
  BY DEF InOrder
<1>1. BlockSlots \in Nat /\ i \in Nat /\ j \in Nat /\ i <= j /\ j < BlockSlots
      /\ i \in 0 .. BlockSlots /\ j \in 0 .. BlockSlots
  BY BlockStatesAssumption
<1>2. c \in 0 .. BlockSlots /\ u.slot[c] = s
      /\ \A m \in 0 .. BlockSlots : m # c => u.slot[m] = t.slot[m]
  BY SlotForIs, TableWithType DEF LeftIn
<1>3. s.in_use
  BY OpenedIs DEF LeftIn, SameOwner
<1>4. ~t.slot[i].in_use /\ i # c
  BY <1>1, <1>2, <1>3
<1>5. t.slot[j] = UnusedBlock
  BY <1>4 DEF InOrder
<1>6. j # c
  <2>1. ~t.slot[j].in_use
    BY <1>5 DEF UnusedBlock
  <2>2. i \in Unused(t) /\ j \in Unused(t)
    BY <1>1, <1>4, <2>1 DEF Unused
  <2>3. CASE Found(t, k) # {}
    BY <2>1, <2>3, SlotForIs DEF Found, Holds
  <2>4. CASE Found(t, k) = {}
    <3>1. c <= i /\ c \in Nat
      BY <1>2, <2>2, <2>4, SlotForIs
    <3> QED
      BY <1>1, <1>4, <3>1
  <2> QED
    BY <2>3, <2>4
<1> QED
  BY <1>1, <1>2, <1>5, <1>6

LEMMA TableWithSettled ==
  ASSUME NEW t \in BlockTable, NEW k \in Names, NEW s, LeftIn(t, k, s)
  PROVE  /\ Settled(TableWith(t, k, s), k)
         /\ \A n \in Names : Settled(t, n) => Settled(TableWith(t, k, s), n)
<1>1. Settled(TableWith(t, k, s), k)
  BY OwnFound, UnusedAfter DEF Settled
<1>2. ASSUME NEW n \in Names, Settled(t, n), n # k
      PROVE  Settled(TableWith(t, k, s), n)
  BY <1>2, OthersFound, UnusedAfter DEF Settled
<1> QED
  BY <1>1, <1>2

LEMMA WatchdogResetType ==
  ASSUME NEW t \in BlockTable
  PROVE  WatchdogReset(t) \in BlockTable
<1>1. UnusedBlock \in BlockState
  BY ClaimedType, NamesAssumption
<1>2. \A s \in BlockState : [s EXCEPT !.watchdog = 0] \in BlockState
  BY DEF BlockState
<1>3. \A i \in 0 .. BlockSlots : t.slot[i] \in BlockState
  BY DEF BlockTable
<1>4. [i \in 0 .. BlockSlots |->
         IF i = BlockSlots THEN UnusedBlock ELSE [t.slot[i] EXCEPT !.watchdog = 0]]
      \in [0 .. BlockSlots -> BlockState]
  BY <1>1, <1>2, <1>3
<1>5. BlockSlots \in 0 .. BlockSlots
  BY BlockStatesAssumption
<1> QED
  BY <1>4, <1>5 DEF WatchdogReset, BlockTable

(* What the resets and time do to a slot of the table. *)
LEMMA ResetSlots ==
  ASSUME NEW t \in BlockTable, NEW i \in 0 .. BlockSlots - 1
  PROVE  /\ t.slot[i] \in BlockState
         /\ WatchdogReset(t).slot[i] = [t.slot[i] EXCEPT !.watchdog = 0]
         /\ RecoveryReset(t).slot[i] =
              [[t.slot[i] EXCEPT !.recovery = 0] EXCEPT !.breaker = ClosedBreaker]
         /\ TimePasses(t).slot[i] = [t.slot[i] EXCEPT !.breaker = Aged(@)]
<1>1. i \in 0 .. BlockSlots /\ i # BlockSlots
  BY BlockStatesAssumption
<1>2. t.slot[i] \in BlockState
  BY <1>1 DEF BlockTable
<1>3. RecoveryReset(t).slot[i] =
        [t.slot[i] EXCEPT !.recovery = 0, !.breaker = ClosedBreaker]
  BY <1>1 DEF RecoveryReset
<1>4. [t.slot[i] EXCEPT !.recovery = 0, !.breaker = ClosedBreaker] =
        [[t.slot[i] EXCEPT !.recovery = 0] EXCEPT !.breaker = ClosedBreaker]
  BY <1>2 DEF BlockState
<1> QED
  BY <1>1, <1>2, <1>3, <1>4 DEF WatchdogReset, TimePasses, BlockTable

LEMMA ResetsKeepOwners ==
  ASSUME NEW t \in BlockTable,
         NEW u \in {WatchdogReset(t), RecoveryReset(t), TimePasses(t)}
  PROVE  /\ Unused(u) = Unused(t)
         /\ \A n \in Names : Found(u, n) = Found(t, n)
         /\ OneSlotEach(t) => OneSlotEach(u)
         /\ InOrder(t) => InOrder(u)
         /\ \A n \in Names : Settled(t, n) => Settled(u, n)
<1>1. ASSUME NEW i \in 0 .. BlockSlots - 1
      PROVE  /\ SameOwner(u.slot[i], t.slot[i])
             /\ t.slot[i] = UnusedBlock => u.slot[i] = UnusedBlock
  <2> DEFINE s == t.slot[i]
  <2>1. /\ s \in BlockState
        /\ \/ u.slot[i] = [s EXCEPT !.watchdog = 0]
           \/ u.slot[i] = [[s EXCEPT !.recovery = 0] EXCEPT !.breaker = ClosedBreaker]
           \/ u.slot[i] = [s EXCEPT !.breaker = Aged(@)]
    <3>1. u = WatchdogReset(t) \/ u = RecoveryReset(t) \/ u = TimePasses(t)
      OBVIOUS
    <3>2. /\ s \in BlockState
          /\ WatchdogReset(t).slot[i] = [s EXCEPT !.watchdog = 0]
          /\ RecoveryReset(t).slot[i] =
               [[s EXCEPT !.recovery = 0] EXCEPT !.breaker = ClosedBreaker]
          /\ TimePasses(t).slot[i] = [s EXCEPT !.breaker = Aged(@)]
      BY ResetSlots
    <3> HIDE DEF s
    <3> QED
      BY <3>1, <3>2
  <2> HIDE DEF s
  <2>2. SameOwner(u.slot[i], s)
    BY <2>1 DEF BlockState, SameOwner
  <2>3. /\ [UnusedBlock EXCEPT !.watchdog = 0] = UnusedBlock
        /\ [UnusedBlock EXCEPT !.recovery = 0] = UnusedBlock
        /\ [UnusedBlock EXCEPT !.breaker = ClosedBreaker] = UnusedBlock
        /\ UnusedBlock.breaker = ClosedBreaker
    <3>1. UnusedBlock.watchdog = 0 /\ UnusedBlock.recovery = 0
          /\ UnusedBlock.breaker = ClosedBreaker
      BY DEF UnusedBlock
    <3>2. UnusedBlock \in BlockState
      BY ClaimedType, NamesAssumption
    <3> QED
      BY <3>1, <3>2 DEF BlockState
  <2>5. Aged(ClosedBreaker) = ClosedBreaker
    BY DEF Aged, ClosedBreaker
  <2>4. s = UnusedBlock => u.slot[i] = UnusedBlock
    BY <2>1, <2>3, <2>5
  <2> QED
    BY <2>2, <2>4 DEF s
<1>2. Unused(u) = Unused(t) /\ \A n \in Names : Found(u, n) = Found(t, n)
  BY <1>1, SameOwnersFound
<1>3. InOrder(t) => InOrder(u)
  <2> SUFFICES ASSUME InOrder(t), NEW i \in 0 .. BlockSlots - 1, ~u.slot[i].in_use,
                      NEW j \in i .. BlockSlots - 1
               PROVE  u.slot[j] = UnusedBlock
    BY DEF InOrder
  <2>1. j \in 0 .. BlockSlots - 1
    BY BlockStatesAssumption
  <2> QED
    BY <1>1, <2>1 DEF InOrder, SameOwner
<1> QED
  BY <1>2, <1>3 DEF OneSlotEach, Settled

LEMMA NoBlocksIs ==
  /\ NoBlocks \in BlockTable
  /\ OneSlotEach(NoBlocks) /\ InOrder(NoBlocks)
  /\ Unused(NoBlocks) = 0 .. BlockSlots - 1
  /\ \A n \in Names : Found(NoBlocks, n) = {}
<1>1. \A i \in 0 .. BlockSlots : NoBlocks.slot[i] = UnusedBlock
  BY DEF NoBlocks
<1>2. BlockSlots \in 0 .. BlockSlots /\ 0 .. BlockSlots - 1 \subseteq 0 .. BlockSlots
  BY BlockStatesAssumption
<1>3. Unused(NoBlocks) = 0 .. BlockSlots - 1
      /\ \A n \in Names : Found(NoBlocks, n) = {}
  BY <1>1, <1>2 DEF Unused, Found, Holds, UnusedBlock
<1>4. InOrder(NoBlocks)
  <2>1. \A i \in 0 .. BlockSlots - 1 : \A j \in i .. BlockSlots - 1 : j \in 0 .. BlockSlots
    BY BlockStatesAssumption
  <2> QED
    BY <1>1, <2>1 DEF InOrder
<1>5. NoBlocks \in BlockTable
  BY <1>2, ClaimedType, NamesAssumption DEF NoBlocks, BlockTable
<1> QED
  BY <1>3, <1>4, <1>5 DEF OneSlotEach

-----------------------------------------------------------------------------
(* The streak table: its types, and why its lookup never gets past slot 0.  *)

(* lox_failure_streak_for_block returns a slot of the table or the overflow. *)
LEMMA StreakAtType ==
  ASSUME NEW t \in StreakTable, NEW k \in Names
  PROVE  StreakAt(t, k) \in 0 .. StreakSlots
<1> DEFINE hits == {i \in 0 .. StreakSlots - 1 : Holds(t[i], k)}
<1>1. hits # {} => Min(hits) \in hits
  <2> hits \in SUBSET Nat
    OBVIOUS
  <2> QED
    BY MinIsLeast
<1>2. PassedOver(t, k) # {} => Min(PassedOver(t, k)) \in PassedOver(t, k)
  <2> PassedOver(t, k) \in SUBSET Nat
    BY DEF PassedOver
  <2> QED
    BY MinIsLeast
<1>3. hits \subseteq 0 .. StreakSlots /\ PassedOver(t, k) \subseteq 0 .. StreakSlots
  BY StreakAssumption DEF PassedOver
<1> QED
  BY <1>1, <1>2, <1>3, StreakAssumption DEF StreakAt

(* The table a lookup leaves behind has the same shape. *)
LEMMA StreakClaimedType ==
  ASSUME NEW t \in StreakTable, NEW k \in Names
  PROVE  StreakClaimed(t, k) \in StreakTable
<1> DEFINE i == StreakAt(t, k)
<1>1. i \in 0 .. StreakSlots
  BY StreakAtType
<1>2. Text[k] \in Texts /\ Hash[k] \in Hashes
  BY DEF Texts, Hashes
<1>3. t[i].streak \in 0 .. StreakMod - 1 /\ 0 \in 0 .. StreakMod - 1
  BY <1>1, StreakAssumption DEF StreakTable, Streak
<1>4. [in_use |-> TRUE, block_name |-> Text[k], name_hash |-> Hash[k],
       streak |-> IF i = StreakSlots THEN t[i].streak ELSE 0] \in Streak
  BY <1>2, <1>3 DEF Streak
<1> HIDE DEF i
<1> QED
  BY <1>1, <1>4 DEF StreakClaimed, StreakTable, i

(* Counting keeps a streak a uint32_t. *)
LEMMA StreakCountedType ==
  ASSUME NEW t \in StreakTable, NEW i \in 0 .. StreakSlots, NEW kind
  PROVE  StreakCounted(t, i, kind) \in StreakTable
<1>1. t[i] \in Streak /\ t[i].streak \in Nat
  BY StreakAssumption DEF StreakTable, Streak
<1>2. (t[i].streak + 1) % StreakMod \in 0 .. StreakMod - 1 /\ 0 \in 0 .. StreakMod - 1
  BY <1>1, StreakAssumption
<1>3. [t[i] EXCEPT !.streak = 0] \in Streak
      /\ [t[i] EXCEPT !.streak = (@ + 1) % StreakMod] \in Streak
  BY <1>1, <1>2 DEF Streak
<1> QED
  BY <1>3 DEF StreakCounted, StreakTable

(* No slot but the first is in use: the scan of the lookup takes it as free
   whenever it holds another block. *)
OnlyFirstSlot(t) == \A i \in 1 .. StreakSlots : ~t[i].in_use

(* The first slot counts at most the incidents of the block it answers for. *)
FirstSlotBounded(t, count) ==
  \A n \in Names : Holds(t[0], n) => t[0].streak <= count[n]

(* The lookup never gets past the first slot. *)
LEMMA FirstSlotAnswers ==
  ASSUME NEW t \in StreakTable, OnlyFirstSlot(t), NEW k \in Names
  PROVE  StreakAt(t, k) = 0
<1> DEFINE hits == {i \in 0 .. StreakSlots - 1 : Holds(t[i], k)}
<1>1. CASE hits # {}
  <2>1. Min(hits) \in hits
    <3> hits \in SUBSET Nat
      OBVIOUS
    <3> QED
      BY <1>1, MinIsLeast
  <2>2. \A i \in hits : i = 0
    BY StreakAssumption DEF OnlyFirstSlot, Holds
  <2> QED
    BY <1>1, <2>1, <2>2 DEF StreakAt
<1>2. CASE hits = {}
  <2>1. 0 \in PassedOver(t, k) /\ PassedOver(t, k) \in SUBSET Nat
    BY <1>2, StreakAssumption DEF PassedOver
  <2>2. Min(PassedOver(t, k)) = 0
    <3>1. Min(PassedOver(t, k)) \in Nat /\ Min(PassedOver(t, k)) <= 0
      BY <2>1, MinIsLeast
    <3> QED
      BY <3>1
  <2> QED
    BY <1>2, <2>1, <2>2 DEF StreakAt
<1> QED
  BY <1>1, <1>2

(* After the lookup the first slot is the block's, whoever had it before, and
   the bounds still hold. *)
LEMMA ClaimedIsOwned ==
  ASSUME NEW t \in StreakTable, OnlyFirstSlot(t), NEW k \in Names
  PROVE  LET s == StreakClaimed(t, k)
         IN  /\ OnlyFirstSlot(s)
             /\ s[0].in_use
             /\ s[0].block_name = Text[k] /\ s[0].name_hash = Hash[k]
             /\ s[0].streak \in Nat
             /\ s[0].streak = IF Holds(t[0], k) THEN t[0].streak ELSE 0
<1>1. StreakAt(t, k) = 0 /\ 0 < StreakSlots /\ 0 \in 0 .. StreakSlots
  BY FirstSlotAnswers, StreakAssumption
<1>2. t[0] \in Streak
  BY <1>1 DEF StreakTable
<1>3. CASE Holds(t[0], k)
  <2>1. StreakClaimed(t, k) = t
    BY <1>1, <1>3 DEF StreakClaimed
  <2>2. t[0].block_name = k /\ t[0].name_hash = Hash[k] /\ k \in Texts
    BY <1>2, <1>3 DEF Holds, Streak
  <2>3. k = Text[k]
    <3>1. PICK m \in Names : k = Text[m]
      BY <2>2, NamesAssumption DEF Texts
    <3> QED
      BY <3>1, KeptTextsFit
  <2>4. StreakClaimed(t, k)[0].in_use
    BY <1>3, <2>1 DEF Holds
  <2> QED
    BY <1>2, <1>3, <2>1, <2>2, <2>3, <2>4, StreakAssumption DEF Streak
<1>4. CASE ~Holds(t[0], k)
  <2>1. StreakClaimed(t, k) =
          [t EXCEPT ![0] = [in_use |-> TRUE, block_name |-> Text[k],
                            name_hash |-> Hash[k], streak |-> 0]]
    <3>1. ~(StreakAt(t, k) < StreakSlots /\ Holds(t[StreakAt(t, k)], k))
      BY <1>1, <1>4
    <3>2. StreakAt(t, k) # StreakSlots
      BY <1>1, StreakAssumption
    <3> QED
      BY <1>1, <3>1, <3>2 DEF StreakClaimed
  <2>2. OnlyFirstSlot(StreakClaimed(t, k))
    BY <2>1, StreakAssumption DEF OnlyFirstSlot, StreakTable
  <2> QED
    BY <1>1, <1>4, <2>1, <2>2 DEF StreakTable
<1> QED
  BY <1>3, <1>4

LEMMA ClaimedIsBounded ==
  ASSUME NEW t \in StreakTable, OnlyFirstSlot(t), NEW k \in Names,
         NEW count \in [Names -> Nat], FirstSlotBounded(t, count)
  PROVE  /\ FirstSlotBounded(StreakClaimed(t, k), count)
         /\ StreakClaimed(t, k)[0].streak <= count[k]
<1>1. StreakClaimed(t, k)[0].streak <= count[k]
  BY ClaimedIsOwned DEF FirstSlotBounded
<1>2. ASSUME NEW n \in Names, Holds(StreakClaimed(t, k)[0], n)
      PROVE  n = k
  BY <1>2, ClaimedIsOwned, OwnerIsUnique
<1> QED
  BY <1>1, <1>2 DEF FirstSlotBounded

(* The count the quarantine test reads. *)
LEMMA StreakOfBounded ==
  ASSUME NEW t \in StreakTable, OnlyFirstSlot(t), NEW k \in Names,
         NEW count \in [Names -> Nat], FirstSlotBounded(t, count)
  PROVE  StreakOf(t, k) <= count[k]
BY FirstSlotAnswers, ClaimedIsBounded DEF StreakOf

-----------------------------------------------------------------------------
(* Breakers that count failed runs.                                         *)

(* A breaker that counted c failures. *)
Counts(breaker, c) ==
  breaker.failures = c /\ (breaker.open <=> c = FailureThreshold)

(* The breakers of the blocks with a slot count their failed runs; a block that
   might still get a slot, with a fresh breaker, has none. *)
BreakersCount(t, failed) ==
  HaveMicrores =>
    \A n \in Names :
      /\ ~Settled(t, n) => failed[n] = 0
      /\ \A j \in Found(t, n) : Counts(t.slot[j].breaker, failed[n])

TablesAgree(t, failed) == OneSlotEach(t) /\ BreakersCount(t, failed)

LEMMA KeyIs == \A n \in Names : Key(n) = n
BY NamesAssumption DEF Key

(* An operation finds the breaker the history says. *)
LEMMA OpenedCounts ==
  ASSUME NEW t \in BlockTable, NEW k \in Names, NEW failed, BreakersCount(t, failed),
         HaveMicrores, Found(t, k) # {} \/ (Unused(t) # {} /\ Fits(k))
  PROVE  Counts(Opened(t, k).breaker, failed[k])
<1>1. CASE Found(t, k) # {}
  BY <1>1, SlotForIs DEF Opened, BreakersCount
<1>2. CASE Found(t, k) = {}
  <2>1. failed[k] = 0
    BY <1>2 DEF BreakersCount, Settled
  <2> QED
    BY <1>2, <2>1, BlockStatesAssumption DEF Opened, ClaimedFor, ClosedBreaker, Counts
<1> QED
  BY <1>1, <1>2

(* The slots of other blocks are left alone, the block's own is in state s. *)
LEMMA SlotsAfter ==
  ASSUME NEW t \in BlockTable, NEW k \in Names, NEW s, LeftIn(t, k, s), OneSlotEach(t)
  PROVE  /\ \A j \in Found(TableWith(t, k, s), k) :
              j = SlotFor(t, k) /\ TableWith(t, k, s).slot[j] = s
         /\ \A n \in Names : \A j \in Found(t, n) :
              n # k => TableWith(t, k, s).slot[j] = t.slot[j]
<1>1. TableWith(t, k, s).slot[SlotFor(t, k)] = s
      /\ \A j \in 0 .. BlockSlots :
           j # SlotFor(t, k) => TableWith(t, k, s).slot[j] = t.slot[j]
  BY TableWithType DEF LeftIn
<1>2. ASSUME NEW j \in Found(TableWith(t, k, s), k) PROVE j = SlotFor(t, k)
  BY OwnFound, SlotForIs DEF OneSlotEach
<1>3. ASSUME NEW n \in Names, NEW j \in Found(t, n), n # k
      PROVE  j \in 0 .. BlockSlots /\ j # SlotFor(t, k)
  <2>1. j \in 0 .. BlockSlots - 1 /\ t.slot[j].in_use /\ t.slot[j].block_name = n
    BY DEF Found, Holds
  <2>2. j \in 0 .. BlockSlots /\ j # BlockSlots /\ j \notin Unused(t)
    BY <2>1, BlockStatesAssumption DEF Unused
  <2>3. j \notin Found(t, k)
    BY <1>3, <2>1 DEF Found, Holds
  <2> QED
    BY <2>2, <2>3, SlotForIs
<1> QED
  BY <1>1, <1>2, <1>3

LEMMA TableWithAgrees ==
  ASSUME NEW t \in BlockTable, NEW k \in Names, NEW s, LeftIn(t, k, s),
         NEW failed, NEW failed2, TablesAgree(t, failed),
         \A n \in Names : n # k => failed2[n] = failed[n],
         HaveMicrores /\ Counts(Opened(t, k).breaker, failed[k])
           => Counts(s.breaker, failed2[k])
  PROVE  TablesAgree(TableWith(t, k, s), failed2)
<1> DEFINE u == TableWith(t, k, s)
<1>1. OneSlotEach(u)
  BY TableWithOneSlot DEF TablesAgree
<1>2. ASSUME HaveMicrores, NEW n \in Names, n # k
      PROVE  /\ ~Settled(u, n) => failed2[n] = 0
             /\ \A j \in Found(u, n) : Counts(u.slot[j].breaker, failed2[n])
  <2>1. failed2[n] = failed[n] /\ Found(u, n) = Found(t, n)
    BY <1>2, OthersFound
  <2>2. \A j \in Found(t, n) : u.slot[j] = t.slot[j]
    BY <1>2, SlotsAfter DEF TablesAgree
  <2>3. ~Settled(u, n) => ~Settled(t, n)
    BY TableWithSettled
  <2> HIDE DEF u
  <2> QED
    BY <1>2, <2>1, <2>2, <2>3 DEF TablesAgree, BreakersCount
<1>3. ASSUME HaveMicrores
      PROVE  /\ Settled(u, k)
             /\ \A j \in Found(u, k) : Counts(u.slot[j].breaker, failed2[k])
  <2>1. Settled(u, k)
    BY TableWithSettled
  <2>2. ASSUME NEW j \in Found(u, k) PROVE Counts(u.slot[j].breaker, failed2[k])
    <3>1. u.slot[j] = s
      BY SlotsAfter DEF TablesAgree
    <3>2. Found(t, k) # {} \/ (Unused(t) # {} /\ Fits(k))
      BY OwnFound
    <3>3. Counts(s.breaker, failed2[k])
      BY <1>3, <3>2, OpenedCounts DEF TablesAgree
    <3> HIDE DEF u
    <3> QED
      BY <3>1, <3>3
  <2> QED
    BY <2>1, <2>2
<1>4. BreakersCount(u, failed2)
  <2> HIDE DEF u
  <2> QED
    BY <1>2, <1>3 DEF BreakersCount
<1> QED
  BY <1>1, <1>4 DEF TablesAgree

(* Looking a block up, and changing anything but its breaker. *)
LEMMA LookupAgrees ==
  ASSUME NEW t \in BlockTable, NEW k \in Names, NEW s, LeftIn(t, k, s),
         NEW failed, TablesAgree(t, failed), s.breaker = Opened(t, k).breaker
  PROVE  TablesAgree(TableWith(t, k, s), failed)
BY TableWithAgrees

LEMMA OperationsAgree ==
  ASSUME NEW t \in BlockTable, NEW b \in Names, NEW failed, TablesAgree(t, failed)
  PROVE  /\ TablesAgree(GetBlock(t, b), failed)
         /\ \A level \in Int : TablesAgree(SetHealth(t, b, level), failed)
         /\ \A kind : TablesAgree(ObserveEvent(t, b, kind), failed)
         /\ TablesAgree(AttemptChecked(t, b), failed)
<1> DEFINE o == Opened(t, b)
<1>1. o \in BlockState /\ Key(b) = b
  BY OpenedIs, KeyIs
<1>2. TablesAgree(GetBlock(t, b), failed)
  BY <1>1, GetBlockIs, LookupAgrees
<1>3. ASSUME NEW level \in Int PROVE TablesAgree(SetHealth(t, b, level), failed)
  <2> DEFINE s == [o EXCEPT !.health = level]
  <2>1. SetHealth(t, b, level) = TableWith(t, b, s) /\ LeftIn(t, b, s)
    BY <1>1, SetHealthIs
  <2>2. s.breaker = o.breaker
    BY <1>1 DEF BlockState
  <2> HIDE DEF s
  <2> QED
    BY <2>1, <2>2, LookupAgrees
<1>4. ASSUME NEW kind PROVE TablesAgree(ObserveEvent(t, b, kind), failed)
  <2> DEFINE s == [o EXCEPT !.watchdog = WatchdogAfter(@, kind)]
  <2>1. ObserveEvent(t, b, kind) = TableWith(t, b, s) /\ LeftIn(t, b, s)
    BY <1>1, ObserveEventIs
  <2>2. s.breaker = o.breaker
    BY <1>1 DEF BlockState
  <2> HIDE DEF s
  <2> QED
    BY <2>1, <2>2, LookupAgrees
<1>5. TablesAgree(AttemptChecked(t, b), failed)
  <2>1. CASE HaveMicrores
    <3> DEFINE s == Synchronised(o)
    <3>1. AttemptChecked(t, b) = TableWith(t, b, s) /\ LeftIn(t, b, s)
      BY <1>1, <2>1, AttemptCheckedIs
    <3>2. s.breaker = o.breaker
      BY <1>1 DEF BlockState, Synchronised
    <3> HIDE DEF s
    <3> QED
      BY <3>1, <3>2, LookupAgrees
  <2>2. CASE ~HaveMicrores
    BY <2>2 DEF AttemptChecked
  <2> QED
    BY <2>1, <2>2
<1> QED
  BY <1>2, <1>3, <1>4, <1>5

(* The history of failed runs after one more run of block b. *)
RunsAfter(failed, b, success) ==
  [failed EXCEPT ![b] =
     IF success THEN 0 ELSE IF @ < FailureThreshold THEN @ + 1 ELSE @]

(* A breaker told of a run counts it. *)
LEMMA ReportedCounts ==
  ASSUME NEW breaker \in Breaker, NEW c \in Nat, Counts(breaker, c),
         NEW success \in BOOLEAN
  PROVE  Counts(Reported(breaker, success),
                IF success THEN 0 ELSE IF c < FailureThreshold THEN c + 1 ELSE c)
<1>1. CASE success
  BY <1>1, BlockStatesAssumption DEF Reported, Succeeded, ClosedBreaker, Counts
<1>2. CASE ~success
  <2>1. breaker.failures \in 0 .. FailureThreshold /\ FailureThreshold \in Nat \ {0}
    BY BlockStatesAssumption DEF Breaker
  <2>2. CASE breaker.open \/ breaker.failures + 1 >= FailureThreshold
    BY <1>2, <2>1, <2>2 DEF Reported, Failed, Counts
  <2>3. CASE ~(breaker.open \/ breaker.failures + 1 >= FailureThreshold)
    <3>1. Reported(breaker, success) = [breaker EXCEPT !.failures = @ + 1]
      BY <1>2, <2>3 DEF Reported, Failed
    <3>2. Reported(breaker, success).failures = breaker.failures + 1
          /\ Reported(breaker, success).open = breaker.open
      BY <3>1 DEF Breaker
    <3> QED
      BY <1>2, <2>1, <2>3, <3>2 DEF Counts
  <2> QED
    BY <2>2, <2>3
<1> QED
  BY <1>1, <1>2

LEMMA ReportAgrees ==
  ASSUME NEW t \in BlockTable, NEW b \in Names, NEW failed \in [Names -> Nat],
         TablesAgree(t, failed), NEW success \in BOOLEAN
  PROVE  TablesAgree(ReportResult(t, b, success), RunsAfter(failed, b, success))
<1> DEFINE o == Opened(t, b)
           br == Reported(o.breaker, success)
           s == Synchronised([o EXCEPT !.breaker = br])
           after == RunsAfter(failed, b, success)
<1>1. o \in BlockState /\ Key(b) = b
  BY OpenedIs, KeyIs
<1>2. /\ \A n \in Names : n # b => after[n] = failed[n]
      /\ after[b] = IF success THEN 0
                    ELSE IF failed[b] < FailureThreshold THEN failed[b] + 1
                    ELSE failed[b]
  BY DEF RunsAfter
<1>3. CASE HaveMicrores
  <2>1. ReportResult(t, b, success) = TableWith(t, b, s) /\ LeftIn(t, b, s)
    BY <1>1, <1>3, ReportResultIs
  <2>2. s.breaker = br
    <3> HIDE DEF o, br
    <3> QED
      BY <1>1 DEF Synchronised, BlockState
  <2>3. Counts(o.breaker, failed[b]) => Counts(br, after[b])
    BY <1>1, <1>2, ReportedCounts DEF BlockState
  <2> HIDE DEF s, br, after
  <2>4. TablesAgree(TableWith(t, b, s), after)
    BY <1>2, <2>1, <2>2, <2>3, TableWithAgrees
  <2> QED
    BY <2>1, <2>4 DEF after
<1>4. CASE ~HaveMicrores
  BY <1>4 DEF ReportResult, TablesAgree, BreakersCount
<1> QED
  BY <1>3, <1>4
=============================================================================
