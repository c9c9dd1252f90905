---------------------------- MODULE AdapterState ----------------------------
(***************************************************************************)
(* The adapter's block states as the application can drive them: one action *)
(* per exported function of loxguard_adapters.c that touches the table,       *)
(* called in any order, on any block.  Getters are actions too: each of them  *)
(* looks the block up and may claim a slot for it.                           *)
(***************************************************************************)
EXTENDS BlockStates, FiniteSets

CONSTANTS
  Levels,    \* health levels the application sets
  SomeKinds  \* event kinds the watchdog is shown

ASSUME AdapterAssumption == Levels \subseteq Int /\ SomeKinds \subseteq Kinds

VARIABLES
  blocks,
  called  \* history: the key of the block the last call was about, if any

vars == <<blocks, called>>

Blocks == Names \cup {NoName}

Init == blocks = NoBlocks /\ called = NoName

Call(b, table) == blocks' = table /\ called' = Key(b)

HealthSet(b, level) == Call(b, SetHealth(blocks, b, level))

(* health_get_for_block, watchdog_state_get_for_block and
   recovery_state_get_for_block do the same to the table. *)
StateGet(b) == Call(b, GetBlock(blocks, b))

WatchdogObserve(b, kind) == Call(b, ObserveEvent(blocks, b, kind))

(* Without microres these two leave the table alone. *)
RecoveryAllowAttempt(b) == HaveMicrores /\ Call(b, AttemptChecked(blocks, b))

RecoveryReportResult(b, success) ==
  HaveMicrores /\ Call(b, ReportResult(blocks, b, success))

WatchdogStateReset == blocks' = WatchdogReset(blocks) /\ called' = NoName

RecoveryStateReset == blocks' = RecoveryReset(blocks) /\ called' = NoName

Tick == HaveMicrores /\ blocks' = TimePasses(blocks) /\ called' = NoName

Next ==
  \/ \E b \in Blocks :
       \/ \E level \in Levels : HealthSet(b, level)
       \/ StateGet(b)
       \/ \E kind \in SomeKinds : WatchdogObserve(b, kind)
       \/ RecoveryAllowAttempt(b)
       \/ \E success \in BOOLEAN : RecoveryReportResult(b, success)
  \/ WatchdogStateReset
  \/ RecoveryStateReset
  \/ Tick

Spec == Init /\ [][Next]_vars

-----------------------------------------------------------------------------
(* Properties. *)

(* The table keeps its type: at most BlockSlots blocks and the overflow. *)
TypeOK == blocks \in BlockTable /\ called \in Blocks

(* The scan of lox_block_state_get relies on it: used slots form a prefix of
   the table and an unused slot holds nothing of an earlier block. *)
SlotsFillInOrder ==
  \A i \in 0 .. BlockSlots - 1 :
    ~blocks.slot[i].in_use =>
      \A j \in i .. BlockSlots - 1 : blocks.slot[j] = UnusedBlock

(* No block has two slots: its state cannot be split between them. *)
OneSlotPerBlock ==
  \A n \in Names, i, j \in 0 .. BlockSlots - 1 :
    Holds(blocks.slot[i], n) /\ Holds(blocks.slot[j], n) => i = j

(* The blocks with a slot that answers for them. *)
Tracked == {n \in Names : Found(blocks, n) # {}}

(* What the slot of a block holds of its state. *)
StateIn(s) == [health |-> s.health, watchdog |-> s.watchdog,
               recovery |-> s.recovery, breaker |-> s.breaker]

TrackedStates == [n \in Tracked |-> StateIn(blocks.slot[Min(Found(blocks, n))])]

Registry == INSTANCE BlockRegistry WITH
  user    <- called,
  room    <- Cardinality(Unused(blocks)),
  tracked <- TrackedStates

(* The table implements the registry: an operation on one block, with its scan,
   claiming and overflow, never changes what another tracked block is told. *)
ImplementsRegistry == Registry!Spec

(* "aggregate state: max over blocks": what watchdog_state_get returns is the
   worst watchdog state of any block. *)
AggregateIsMax ==
  \A i \in 0 .. BlockSlots :
    blocks.slot[i].in_use => blocks.slot[i].watchdog <= Aggregate(blocks).watchdog
=============================================================================
