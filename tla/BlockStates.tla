----------------------------- MODULE BlockStates -----------------------------
(***************************************************************************)
(* The per-block health, watchdog and recovery states of loxguard_adapters.c *)
(* as operators on the table they are kept in.  Index BlockSlots stands for  *)
(* the overflow slot, `active' for g_active_block_slot.  The aggregate       *)
(* globals are refreshed by every getter before they are read, so they are   *)
(* the function Aggregate of the table.  The circuit breaker comes from the  *)
(* external microres library: it is modelled from the calls made on it.      *)
(***************************************************************************)
EXTENDS BlockNames, EventLog, Integers, FiniteSetsExt

CONSTANTS
  BlockSlots,       \* LOX_ADAPTER_BLOCK_SLOTS, 8 in the code
  HaveMicrores,     \* built with LOXGUARD_HAVE_MICRORES and LOXGUARD_USE_MICRORES
  FailureThreshold, \* g_mres_policy: failures that open a breaker (3)
  RecoveryTimeout   \* g_mres_policy: how long it stays closed to attempts (1000 ms)

ASSUME BlockStatesAssumption ==
  /\ BlockSlots \in Nat \ {0}
  /\ HaveMicrores \in BOOLEAN
  /\ FailureThreshold \in Nat \ {0}
  /\ RecoveryTimeout \in Nat \ {0}

(* An external breaker: `remaining' is what mres_breaker_remaining_ms says. *)
Breaker == [open : BOOLEAN, failures : 0 .. FailureThreshold,
            remaining : 0 .. RecoveryTimeout]

ClosedBreaker == [open |-> FALSE, failures |-> 0, remaining |-> 0]

Succeeded(breaker) == ClosedBreaker

Failed(breaker) ==
  IF breaker.open \/ breaker.failures + 1 >= FailureThreshold
  THEN [open |-> TRUE, failures |-> FailureThreshold,
        remaining |-> RecoveryTimeout]
  ELSE [breaker EXCEPT !.failures = @ + 1]

Aged(breaker) ==
  IF breaker.remaining = 0 THEN breaker ELSE [breaker EXCEPT !.remaining = @ - 1]

(* A breaker that mres_breaker_init has not touched is a closed one here:
   every use of a breaker comes after lox_mres_ensure_init. *)
BlockState == [in_use : BOOLEAN, block_name : Texts, name_hash : Hashes,
               health : Int, watchdog : 0 .. 2, recovery : 0 .. 2,
               breaker : Breaker]

BlockTable == [slot : [0 .. BlockSlots -> BlockState], active : 0 .. BlockSlots]

UnusedBlock == [in_use |-> FALSE, block_name |-> NoName, name_hash |-> NoName,
                health |-> 0, watchdog |-> 0, recovery |-> 0,
                breaker |-> ClosedBreaker]

NoBlocks == [slot |-> [i \in 0 .. BlockSlots |-> UnusedBlock],
             active |-> BlockSlots]

ClaimedFor(k) ==
  [in_use |-> TRUE, block_name |-> Text[k], name_hash |-> Hash[k],
   health |-> 0, watchdog |-> 0, recovery |-> 0, breaker |-> ClosedBreaker]

Found(t, k) == {i \in 0 .. BlockSlots - 1 : Holds(t.slot[i], k)}
Unused(t)   == {i \in 0 .. BlockSlots - 1 : ~t.slot[i].in_use}

(* Mutant: the last free slot is taken, not the first. *)
GetBlock_LastFree(t, b) ==
  LET k == Key(b)
      i == IF Unused(t) # {} THEN Max(Unused(t)) ELSE BlockSlots
  IN  IF Found(t, k) # {}
      THEN [t EXCEPT !.active = Min(Found(t, k))]
      ELSE [slot |-> [t.slot EXCEPT ![i] = ClaimedFor(k)], active |-> i]

(* Mutant: only the active slot is searched. *)
GetBlock_ActiveOnly(t, b) ==
  LET k == Key(b)
      i == IF Unused(t) # {} THEN Min(Unused(t)) ELSE BlockSlots
  IN  IF t.active \in Found(t, k) THEN t
      ELSE [slot |-> [t.slot EXCEPT ![i] = ClaimedFor(k)], active |-> i]

(* lox_block_state_get: the slot returned is the one made active.  With the
   table full, every access claims the overflow slot afresh. *)
GetBlock(t, b) ==
  LET k == Key(b)
      i == IF Found(t, k) # {} THEN Min(Found(t, k))
           ELSE IF Unused(t) # {} THEN Min(Unused(t))
           ELSE BlockSlots
  IN  IF Found(t, k) # {}
      THEN [t EXCEPT !.active = i]
      ELSE [slot |-> [t.slot EXCEPT ![i] = ClaimedFor(k)], active |-> i]

Current(t) == t.slot[t.active]

(* The slot whose states the aggregate getters return. *)
Aggregate(t) == IF Current(t).in_use THEN Current(t) ELSE UnusedBlock

SetHealth(t, b, level) ==
  LET g == GetBlock(t, b) IN [g EXCEPT !.slot[g.active].health = level]

(* Mutant: late events are added up. *)
WatchdogAfter_Counts(level, kind) ==
  IF kind \in {"TIMEOUT", "ERROR"} THEN level + 1 ELSE level

(* The watchdog state an event of this kind leaves its block in. *)
WatchdogAfter(level, kind) ==
  IF kind = "TIMEOUT" THEN 1
  ELSE IF kind \in {"ERROR", "OUT_OF_BOUNDS", "ARENA_OVERFLOW", "MEMORY_FAULT"} THEN 2
  ELSE IF kind \in {"ENTERED", "OK"} THEN 0
  ELSE level

(* lox_adapter_watchdog_observe_event *)
ObserveEvent(t, b, kind) ==
  LET g == GetBlock(t, b)
  IN  [g EXCEPT !.slot[g.active].watchdog = WatchdogAfter(@, kind)]

(* lox_sync_recovery_state; nothing here ever asks microres for half-open. *)
SyncRecovery(t) ==
  [t EXCEPT !.slot[t.active].recovery =
     IF t.slot[t.active].breaker.open THEN 1 ELSE 0]

(* lox_adapter_recovery_allow_attempt_for_block: its answer and its effect. *)
AttemptAllowed(t, b) ==
  HaveMicrores => LET breaker == Current(GetBlock(t, b)).breaker
                  IN  ~(breaker.open /\ breaker.remaining > 0)

AttemptChecked(t, b) ==
  IF HaveMicrores THEN SyncRecovery(GetBlock(t, b)) ELSE t

(* Mutant: a success does not clear the breaker. *)
ReportResult_KeepsFailures(t, b, success) ==
  IF ~HaveMicrores THEN t
  ELSE LET g == GetBlock(t, b)
       IN  SyncRecovery([g EXCEPT !.slot[g.active].breaker =
             IF success THEN @ ELSE Failed(@)])

ReportResult(t, b, success) ==
  IF ~HaveMicrores THEN t
  ELSE LET g == GetBlock(t, b)
       IN  SyncRecovery([g EXCEPT !.slot[g.active].breaker =
             IF success THEN Succeeded(@) ELSE Failed(@)])

(* The resets clear one state of the used slots, and all of the overflow. *)
WatchdogReset(t) ==
  [slot |-> [i \in 0 .. BlockSlots |->
               IF i = BlockSlots THEN UnusedBlock
               ELSE [t.slot[i] EXCEPT !.watchdog = 0]],
   active |-> BlockSlots]

RecoveryReset(t) ==
  [slot |-> [i \in 0 .. BlockSlots |->
               IF i = BlockSlots THEN UnusedBlock
               ELSE [t.slot[i] EXCEPT !.recovery = 0, !.breaker = ClosedBreaker]],
   active |-> BlockSlots]

TimePasses(t) ==
  [t EXCEPT !.slot = [i \in 0 .. BlockSlots |-> [t.slot[i] EXCEPT !.breaker = Aged(@)]]]
=============================================================================
