----------------------------- MODULE GuardProofs -----------------------------
(***************************************************************************)
(* What loxguard_run keeps true for any names, clock, table sizes and nesting *)
(* of runs: its types; that only the first streak slot is ever used, and its *)
(* streak never overcounts, so that a quarantine is justified; that breakers  *)
(* count failed runs and health follows the streak; that timeouts are exact.  *)
(* What needs more is proved where it holds: that failed runs leave incidents *)
(* where runs do not nest, that a quarantine is enforced for a block that is  *)
(* alone.                                                                     *)
(*                                                                          *)
(* The demo runs, the ports and the backends keep the types, the streaks, the *)
(* breakers and the health; and the log they all write to is a stack of the  *)
(* runs inside their functions, bracket by bracket.                          *)
(***************************************************************************)
EXTENDS GuardDemos, TableProofs, FiniteSetTheorems, TLAPS

-----------------------------------------------------------------------------
(* Types of what one emission changes. *)

Logs == {s \in Seq(Event) : Len(s) <= Capacity}

Worlds == [streaks : StreakTable, blocks : BlockTable, log : Logs,
           incidents : [Names -> Nat]]

LEMMA StoredType ==
  ASSUME NEW l \in Logs, NEW e \in Event
  PROVE  Stored(l, e) \in Logs
<1>1. CASE Len(l) < Capacity
  BY <1>1, CapacityAssumption DEF Stored, Logs
<1>2. CASE ~(Len(l) < Capacity)
  <2>1. l # <<>>
    BY <1>2, CapacityAssumption DEF Logs
  <2>2. Tail(l) \in Seq(Event) /\ Len(Tail(l)) = Len(l) - 1
    BY <2>1 DEF Logs
  <2> QED
    BY <1>2, <2>2, CapacityAssumption DEF Stored, Logs
<1> QED
  BY <1>1, <1>2

LEMMA HealthType ==
  ASSUME NEW t \in BlockTable, NEW b \in Names, NEW kind, NEW streak
  PROVE  /\ KindHealth(t, b, kind) \in BlockTable
         /\ StreakHealth(t, b, streak) \in BlockTable
BY SetHealthType DEF KindHealth, StreakHealth

LEMMA IncrementedType ==
  ASSUME NEW count \in [Names -> Nat], NEW b \in Names, NEW kind
  PROVE  Incremented(count, b, kind) \in [Names -> Nat]
BY StreakAssumption DEF Incremented

(* An emission changes the tables, the log and the history within their types. *)
LEMMA EmitType ==
  ASSUME NEW w \in Worlds, NEW b \in Names, NEW kind \in Kinds, NEW reason \in Reasons
  PROVE  Emit(w, b, kind, reason) \in Worlds
<1> DEFINE i  == StreakAt(w.streaks, b)
           s  == StreakCounted(StreakClaimed(w.streaks, b), i, kind)
           t1 == ObserveEvent(w.blocks, b, kind)
           t2 == KindHealth(t1, b, kind)
           t3 == StreakHealth(t2, b, s[i].streak)
           e  == [kind |-> kind, block_name |-> b, reason |-> reason]
<1>0. /\ w.streaks \in StreakTable /\ w.blocks \in BlockTable
      /\ w.log \in Logs /\ w.incidents \in [Names -> Nat]
  BY DEF Worlds
<1>1. i \in 0 .. StreakSlots /\ StreakClaimed(w.streaks, b) \in StreakTable
  BY <1>0, StreakAtType, StreakClaimedType
<1>2. s \in StreakTable
  <2> HIDE DEF i
  <2> QED
    BY <1>1, StreakCountedType
<1>3. t1 \in BlockTable
  BY <1>0, ObserveEventType
<1>4. t2 \in BlockTable
  <2> HIDE DEF t1
  <2> QED
    BY <1>3, HealthType
<1>5. t3 \in BlockTable
  <2> HIDE DEF t2, s, i
  <2> QED
    BY <1>4, HealthType
<1>6. Stored(w.log, e) \in Logs
  <2>1. e \in Event
    BY DEF Event
  <2> HIDE DEF e
  <2> QED
    BY <1>0, <2>1, StoredType
<1>7. Incremented(w.incidents, b, kind) \in [Names -> Nat]
  BY <1>0, IncrementedType
<1>8. Emit(w, b, kind, reason) =
        [streaks |-> s, blocks |-> t3, log |-> Stored(w.log, e),
         incidents |-> Incremented(w.incidents, b, kind)]
  BY DEF Emit
<1> HIDE DEF s, t3, e
<1> QED
  BY <1>2, <1>5, <1>6, <1>7, <1>8 DEF Worlds

(* The world of a state, and the state a world becomes. *)
LEMMA WorldType ==
  ASSUME TypeOK
  PROVE  World \in Worlds
BY DEF TypeOK, World, Worlds, Logs

LEMMA BecomesType ==
  ASSUME NEW w \in Worlds, Becomes(w)
  PROVE  /\ streaks' \in StreakTable
         /\ blocks' \in BlockTable
         /\ log' \in Seq(Event) /\ Len(log') <= Capacity
         /\ incidents' \in [Names -> Nat]
BY DEF Becomes, Worlds, Logs

(* The state in which a run that entered is judged. *)
LEMMA LookedUpType ==
  ASSUME TypeOK, NEW b \in Names
  PROVE  LookedUp(b) \in Worlds
<1>1. World \in Worlds
  BY WorldType
<1>2. StreakClaimed(World.streaks, b) \in StreakTable
  BY <1>1, StreakClaimedType DEF Worlds
<1> QED
  BY <1>1, <1>2 DEF LookedUp, Worlds

-----------------------------------------------------------------------------
(* Types of frames and reports. *)

(* end_ticks - start_ticks stays a uint32_t. *)
LEMMA DurationType ==
  ASSUME TypeOK, NEW f \in Frame
  PROVE  Duration(f) \in 0 .. ClockMod - 1
BY GuardRunAssumption DEF TypeOK, Frame, Duration

LEMMA NoReportType == NoReport \in Report
BY GuardRunAssumption DEF NoReport, Report, Reasons, Results

LEMMA NewFrameType ==
  ASSUME TypeOK, NEW b \in Names, NEW max_failures \in Nat, NEW timeout \in Nat
  PROVE  NewFrame(b, max_failures, timeout) \in Frame
BY NoReportType DEF TypeOK, NewFrame, Frame

LEMMA FailureReportType ==
  ASSUME TypeOK, NEW f \in Frame, NEW event \in Event, NEW persisted \in BOOLEAN
  PROVE  LET r == FailureReport(f, event, persisted, Duration(f))
         IN  r \in Report /\ r.last_block \in Names
<1>1. PolicyDecide(event.kind) \in {"NONE", "DROP_INPUT"}
  BY DEF PolicyDecide
<1>2. ResultOf(event.kind) \in Results
  BY DEF ResultOf, Results
<1>3. event.reason \in Reasons
  BY DEF Event
<1>4. f.block_name \in Names /\ f.elapsed \in Nat /\ f.timeout_ms \in Nat
  BY DEF Frame
<1>5. Duration(f) \in 0 .. ClockMod - 1
  BY DurationType
<1> QED
  BY <1>1, <1>2, <1>3, <1>4, <1>5 DEF FailureReport, Report

LEMMA SuccessReportType ==
  ASSUME TypeOK, NEW f \in Frame, NEW persisted \in BOOLEAN
  PROVE  SuccessReport(f, persisted, Duration(f)) \in Report
<1>1. f.block_name \in Names /\ f.elapsed \in Nat /\ f.timeout_ms \in Nat
  BY DEF Frame
<1>2. Duration(f) \in 0 .. ClockMod - 1
  BY DurationType
<1> QED
  BY <1>1, <1>2 DEF SuccessReport, Report, Reasons, Results

(* A failed run returns its report, or leaves it in a recovery frame. *)
LEMMA FailType ==
  ASSUME TypeOK, NEW below \in Seq(Frame), NEW r \in Report,
         r.last_block \in Names, Fail(below, r)
  PROVE  frames' \in Seq(Frame) /\ report' \in Report
<1>1. RecoveryFrame(r) \in Frame
  BY GuardRunAssumption DEF RecoveryFrame, Frame
<1>2. Append(below, RecoveryFrame(r)) \in Seq(Frame)
  BY <1>1
<1> QED
  BY <1>2 DEF Fail, TypeOK

(* The frames the actions inside a callback look at. *)
LEMMA TopType ==
  ASSUME TypeOK, frames # <<>>
  PROVE  Top \in Frame /\ Below \in Seq(Frame)
<1>1. frames \in Seq(Frame) /\ Len(frames) \in 1 .. Len(frames)
  BY DEF TypeOK
<1> QED
  BY <1>1 DEF Top, Below

(* The run the library is judging. *)
LEMMA EnteringTop ==
  ASSUME TypeOK, Entering
  PROVE  /\ frames # <<>> /\ Top \in Frame /\ Below \in Seq(Frame)
         /\ Top.block_name \in Names /\ Top.max_failures \in Nat
         /\ Top.timeout_ms \in Nat /\ Top.phase = "entering"
         /\ LookedUp(Top.block_name) \in Worlds
BY TopType, LookedUpType DEF Entering, Frame

LEMMA ConfigType ==
  ASSUME NEW cfg \in Configs
  PROVE  /\ BlockName(cfg) \in Names
         /\ cfg.timeout_ms \in Nat /\ cfg.max_failures \in Nat
BY GuardRunAssumption DEF BlockName

-----------------------------------------------------------------------------
(* Type correctness. *)

LEMMA RefuseType ==
  ASSUME TypeOK, NEW w \in Worlds, NEW below \in Seq(Frame), NEW f \in Frame,
         NEW reason \in Reasons, Refuse(w, below, f, reason)
  PROVE  TypeOK'
<1> DEFINE b == f.block_name
           refusal == [kind |-> "ERROR", block_name |-> b, reason |-> reason]
           w1 == Emit(w, b, "ERROR", reason)
           w2 == Emit(w1, b, "COMPLETED", "COMPLETED")
<1>0. b \in Names
  BY DEF Frame
<1>1. w1 \in Worlds
  BY <1>0, EmitType DEF Kinds
<1>2. w2 \in Worlds
  <2> HIDE DEF w1, b
  <2> QED
    BY <1>0, <1>1, EmitType DEF Kinds, Reasons
<1>3. Becomes(w2)
  BY DEF Refuse
<1>4. refusal \in Event
  BY <1>0 DEF Event, Kinds
<1>6. frames' \in Seq(Frame) /\ report' \in Report
  <2>1. PICK persisted \in BOOLEAN :
          Fail(below, FailureReport(f, refusal, persisted, Duration(f)))
    BY DEF Refuse
  <2> HIDE DEF refusal
  <2> QED
    BY <2>1, <1>4, FailureReportType, FailType
<1>7. UNCHANGED <<now, callback, failedRuns>>
  BY DEF Refuse
<1> HIDE DEF w2
<1> QED
  BY <1>2, <1>3, <1>6, <1>7, BecomesType DEF TypeOK

(* Completing a run, from any world its last event left. *)
LEMMA CompleteType ==
  ASSUME TypeOK, NEW w \in Worlds, NEW b \in Names, NEW success \in BOOLEAN,
         Complete(w, b, success), frames' \in Seq(Frame), report' \in Report
  PROVE  TypeOK'
<1> DEFINE w1 == [w EXCEPT !.blocks = ReportResult(@, b, success)]
           w2 == Emit(w1, b, "COMPLETED", "COMPLETED")
<1>1. w1 \in Worlds
  BY ReportResultType DEF Worlds
<1>2. w2 \in Worlds
  <2> HIDE DEF w1
  <2> QED
    BY <1>1, EmitType DEF Kinds, Reasons
<1>3. Becomes(w2) /\ UNCHANGED <<now, callback>>
  BY DEF Complete
<1>4. failedRuns' \in [Names -> Nat]
  BY DEF Complete, TypeOK
<1> HIDE DEF w2
<1> QED
  BY <1>2, <1>3, <1>4, BecomesType DEF TypeOK

LEMMA InitType == Init => TypeOK
<1> SUFFICES ASSUME Init PROVE TypeOK
  OBVIOUS
<1>1. streaks \in StreakTable
  BY StreakAssumption
  DEF Init, NoStreaks, UnusedStreak, StreakTable, Streak, Texts, Hashes
<1>2. blocks \in BlockTable
  BY ClaimedType, NamesAssumption, BlockStatesAssumption DEF Init, NoBlocks, BlockTable
<1>3. log \in Seq(Event) /\ Len(log) <= Capacity /\ frames \in Seq(Frame)
  BY CapacityAssumption DEF Init
<1> QED
  BY <1>1, <1>2, <1>3, NoReportType DEF Init, TypeOK

(* The ends of a failed run: the event was emitted, or had been before. *)
LEMMA FailedEndType ==
  ASSUME TypeOK, InFn, NEW w \in Worlds, NEW event \in Event,
         NEW persisted \in BOOLEAN,
         Complete(w, Top.block_name, FALSE),
         Fail(Below, FailureReport(Top, event, persisted, Duration(Top)))
  PROVE  TypeOK'
<1>1. Top \in Frame /\ Below \in Seq(Frame) /\ Top.block_name \in Names
  BY TopType DEF InFn, Frame
<1>2. frames' \in Seq(Frame) /\ report' \in Report
  BY <1>1, FailureReportType, FailType
<1> QED
  BY <1>1, <1>2, CompleteType

(* Every step of loxguard_run and around it keeps the types. *)
LEMMA StepType == TypeOK /\ [Next]_vars => TypeOK'
<1> SUFFICES ASSUME TypeOK, [Next]_vars PROVE TypeOK'
  OBVIOUS
<1>1. CASE RunNull
  <2>1. report' \in Report
    <3>1. [NoReport EXCEPT !.reason = "NULL"] \in Report
      BY NoReportType DEF Report, Reasons
    <3>2. \A r \in Report : [r EXCEPT !.result = "ERROR"] \in Report
      BY DEF Report, Results
    <3>3. report' = [[NoReport EXCEPT !.reason = "NULL"] EXCEPT !.result = "ERROR"]
      BY <1>1, NoReportType DEF RunNull, Report
    <3> QED
      BY <3>1, <3>2, <3>3
  <2> QED
    BY <1>1, <2>1 DEF RunNull, TypeOK
<1>2. CASE RunQuarantined
  BY <1>2, EnteringTop, RefuseType DEF RunQuarantined, Reasons
<1>3. CASE RunBreakerOpen
  <2> DEFINE b == Top.block_name
             w == [LookedUp(b) EXCEPT !.blocks = GetBlock(AttemptChecked(@, b), b)]
  <2>1. b \in Names /\ Top \in Frame /\ Below \in Seq(Frame) /\ LookedUp(b) \in Worlds
    BY <1>3, EnteringTop DEF RunBreakerOpen
  <2>2. w \in Worlds
    <3>1. GetBlock(AttemptChecked(LookedUp(b).blocks, b), b) \in BlockTable
      BY <2>1, AttemptCheckedType, GetBlockType DEF Worlds
    <3> QED
      BY <2>1, <3>1 DEF Worlds
  <2>3. Refuse(w, Below, Top, "BREAKER_OPEN")
    BY <1>3 DEF RunBreakerOpen
  <2> HIDE DEF w
  <2> QED
    BY <2>1, <2>2, <2>3, RefuseType DEF Reasons
<1>4. CASE RunAdmitted
  <2> DEFINE b == Top.block_name
             w == [LookedUp(b) EXCEPT !.blocks = AttemptChecked(@, b)]
             top == [frames[Len(frames)] EXCEPT !.phase = "fn"]
  <2>1. b \in Names /\ frames # <<>> /\ LookedUp(b) \in Worlds
    BY <1>4, EnteringTop DEF RunAdmitted
  <2>2. w \in Worlds
    BY <2>1, AttemptCheckedType DEF Worlds
  <2>3. Becomes(w) /\ frames' = [frames EXCEPT ![Len(frames)] = top]
        /\ UNCHANGED <<now, callback, report, failedRuns>>
    BY <1>4 DEF RunAdmitted
  <2>4. frames' \in Seq(Frame)
    <3>1. Len(frames) \in DOMAIN frames /\ frames[Len(frames)] \in Frame
      BY <2>1 DEF TypeOK
    <3>2. top \in Frame
      BY <3>1 DEF Frame
    <3> HIDE DEF top
    <3> QED
      BY <2>3, <3>1, <3>2 DEF TypeOK
  <2> HIDE DEF w, top
  <2> QED
    BY <2>2, <2>3, <2>4, BecomesType DEF TypeOK
<1>15. ASSUME NEW cfg \in Configs, RunEnters(cfg) PROVE TypeOK'
  <2> DEFINE b == BlockName(cfg)
             w == Emit(World, b, "ENTERED", "ENTERED")
  <2>1. b \in Names /\ cfg.timeout_ms \in Nat /\ cfg.max_failures \in Nat
    BY ConfigType
  <2>2. w \in Worlds
    BY <2>1, WorldType, EmitType DEF Kinds, Reasons
  <2>3. Becomes(w)
        /\ frames' = Append(frames, NewFrame(b, cfg.max_failures, cfg.timeout_ms))
        /\ UNCHANGED <<now, callback, report, failedRuns>>
    BY <1>15 DEF RunEnters
  <2>4. frames' \in Seq(Frame)
    BY <2>1, <2>3, NewFrameType DEF TypeOK
  <2> HIDE DEF w
  <2> QED
    BY <2>2, <2>3, <2>4, BecomesType DEF TypeOK
<1>5. CASE FnEmitBounds
  <2> DEFINE b == Top.block_name
             event == [kind |-> "OUT_OF_BOUNDS", block_name |-> b, reason |-> "BOUNDS"]
             w == Emit(World, b, event.kind, event.reason)
  <2>1. b \in Names
    BY <1>5, TopType DEF FnEmitBounds, InFn, Frame
  <2>2. event \in Event
    BY <2>1 DEF Event, Kinds, Reasons
  <2>3. w \in Worlds
    BY <2>1, WorldType, EmitType DEF Kinds, Reasons
  <2>4. frames' \in Seq(Frame)
    <3> HIDE DEF event
    <3>1. PICK persisted \in BOOLEAN :
            frames' = [frames EXCEPT ![Len(frames)] =
                         [@ EXCEPT !.last_event = event, !.persisted = persisted]]
      BY <1>5 DEF FnEmitBounds, event
    <3>2. Len(frames) \in DOMAIN frames /\ frames[Len(frames)] \in Frame
      BY <1>5 DEF FnEmitBounds, InFn, TypeOK
    <3>3. ASSUME NEW f \in Frame
          PROVE  [[f EXCEPT !.last_event = event] EXCEPT !.persisted = persisted] \in Frame
      BY <2>2 DEF Frame
    <3>4. ASSUME NEW f \in Frame
          PROVE  [f EXCEPT !.last_event = event, !.persisted = persisted] \in Frame
      BY <3>3 DEF Frame
    <3> DEFINE top == [frames[Len(frames)] EXCEPT !.last_event = event,
                                                 !.persisted = persisted]
    <3>5. top \in Frame
      BY <3>2, <3>4
    <3>6. frames' = [frames EXCEPT ![Len(frames)] = top]
      BY <3>1
    <3> HIDE DEF top
    <3> QED
      BY <3>2, <3>5, <3>6 DEF TypeOK
  <2>5. Becomes(w) /\ UNCHANGED <<now, callback, report, failedRuns>>
    BY <1>5 DEF FnEmitBounds
  <2> HIDE DEF w
  <2> QED
    BY <2>3, <2>4, <2>5, BecomesType DEF TypeOK
<1>6. CASE FnTimedOut
  <2> DEFINE event == [kind |-> "TIMEOUT", block_name |-> Top.block_name,
                       reason |-> "TIMEOUT"]
             w == Emit(World, Top.block_name, "TIMEOUT", "TIMEOUT")
  <2>1. Top.block_name \in Names /\ InFn
    BY <1>6, TopType DEF FnTimedOut, InFn, Frame
  <2>2. event \in Event /\ w \in Worlds
    BY <2>1, WorldType, EmitType DEF Event, Kinds, Reasons
  <2>3. PICK persisted \in BOOLEAN :
          Fail(Below, FailureReport(Top, event, persisted, Duration(Top)))
    BY <1>6 DEF FnTimedOut
  <2>4. Complete(w, Top.block_name, FALSE)
    BY <1>6 DEF FnTimedOut
  <2> HIDE DEF event, w
  <2> QED
    BY <2>1, <2>2, <2>3, <2>4, FailedEndType
<1>7. CASE FnReturnOk
  <2> DEFINE w == Emit(World, Top.block_name, "OK", "OK")
  <2>1. Top \in Frame /\ Below \in Seq(Frame) /\ Top.block_name \in Names
    BY <1>7, TopType DEF FnReturnOk, InFn, Frame
  <2>2. w \in Worlds
    BY <2>1, WorldType, EmitType DEF Kinds, Reasons
  <2>3. frames' \in Seq(Frame) /\ report' \in Report
    BY <1>7, <2>1, SuccessReportType DEF FnReturnOk
  <2>4. Complete(w, Top.block_name, TRUE)
    BY <1>7 DEF FnReturnOk
  <2> HIDE DEF w
  <2> QED
    BY <2>1, <2>2, <2>3, <2>4, CompleteType
<1>8. CASE FnReturnError
  <2> DEFINE event == [kind |-> "ERROR", block_name |-> Top.block_name,
                       reason |-> "ERROR"]
             w == Emit(World, Top.block_name, "ERROR", "ERROR")
  <2>1. Top.block_name \in Names /\ InFn
    BY <1>8, TopType DEF FnReturnError, InFn, Frame
  <2>2. event \in Event /\ w \in Worlds
    BY <2>1, WorldType, EmitType DEF Event, Kinds, Reasons
  <2>3. PICK persisted \in BOOLEAN :
          Fail(Below, FailureReport(Top, event, persisted, Duration(Top)))
    BY <1>8 DEF FnReturnError
  <2>4. Complete(w, Top.block_name, FALSE)
    BY <1>8 DEF FnReturnError
  <2> HIDE DEF event, w
  <2> QED
    BY <2>1, <2>2, <2>3, <2>4, FailedEndType
<1>9. CASE FnReturnIncident
  <2>1. InFn /\ Top \in Frame
    BY <1>9, TopType DEF FnReturnIncident, InFn
  <2>2. Top.last_event \in Event /\ Top.persisted \in BOOLEAN
    BY <1>9, <2>1 DEF FnReturnIncident, Frame
  <2> QED
    BY <1>9, <2>1, <2>2, WorldType, FailedEndType DEF FnReturnIncident
<1>10. CASE RecoveryReturn
  <2>1. Top \in Frame /\ Below \in Seq(Frame)
    BY <1>10, TopType DEF RecoveryReturn, InRecovery
  <2> QED
    BY <1>10, <2>1 DEF RecoveryReturn, TypeOK, Frame
<1>11. CASE Tick
  <2>1. now' \in 0 .. ClockMod - 1
    BY <1>11, GuardRunAssumption DEF Tick, TypeOK
  <2>2. frames' \in Seq(Frame)
    <3>1. \A f \in Frame : [f EXCEPT !.elapsed = @ + 1] \in Frame
      BY DEF Frame
    <3>2. \A i \in 1 .. Len(frames) : frames'[i] \in Frame
      BY <1>11, <3>1 DEF Tick, TypeOK
    <3>3. DOMAIN frames' = 1 .. Len(frames)
          /\ frames' = [i \in 1 .. Len(frames) |-> frames'[i]]
      BY <1>11 DEF Tick, TypeOK
    <3>4. Len(frames) \in Nat
      BY DEF TypeOK
    <3> QED
      BY <3>2, <3>3, <3>4
  <2>3. blocks' \in BlockTable
    BY <1>11, ResetType DEF Tick, TypeOK
  <2> QED
    BY <1>11, <2>1, <2>2, <2>3 DEF Tick, TypeOK
<1>12. CASE SetRecoveryCallback
  BY <1>12 DEF SetRecoveryCallback, TypeOK
<1>13. CASE AdapterRecoveryReset
  <2>1. blocks' \in BlockTable
    BY <1>13, ResetType DEF AdapterRecoveryReset, TypeOK
  <2> QED
    BY <1>13, <2>1 DEF AdapterRecoveryReset, TypeOK
<1>14. CASE UNCHANGED vars
  BY <1>14 DEF vars, TypeOK
<1> QED
  BY <1>1, <1>2, <1>3, <1>4, <1>5, <1>6, <1>7, <1>8, <1>9, <1>10, <1>11,
     <1>12, <1>13, <1>14, <1>15 DEF Next

(* Whatever runs, nests, fails or recovers, every variable of loxguard_run
   keeps its type: streaks are below 2^32, indices inside their tables, reports
   made of what the code can put in them. *)
THEOREM TypeCorrect == Spec => []TypeOK
<1> QED
  BY InitType, StepType, PTL DEF Spec

-----------------------------------------------------------------------------
(* Failure streaks: whatever the number of slots and blocks, the lookup only *)
(* ever uses slot 0, and its streak never overcounts.                        *)

(* The inductive invariant behind StreakNeverOvercounts, of a world and of a
   state. *)
StreaksBounded(w) ==
  OnlyFirstSlot(w.streaks) /\ FirstSlotBounded(w.streaks, w.incidents)

StreakInv == StreaksBounded(World)

LEMMA EmitBounded ==
  ASSUME NEW w \in Worlds, StreaksBounded(w), NEW b \in Names, NEW kind, NEW reason
  PROVE  StreaksBounded(Emit(w, b, kind, reason))
<1> DEFINE t == StreakClaimed(w.streaks, b)
           s == StreakCounted(t, 0, kind)
           c == Incremented(w.incidents, b, kind)
<1>0. w.streaks \in StreakTable /\ w.incidents \in [Names -> Nat]
  BY DEF Worlds
<1>1. t \in StreakTable /\ OnlyFirstSlot(t) /\ 0 \in 0 .. StreakSlots
      /\ t[0].block_name = Text[b] /\ t[0].name_hash = Hash[b]
      /\ t[0].streak \in Nat /\ t[0].streak <= w.incidents[b]
  BY <1>0, StreakClaimedType, ClaimedIsOwned, ClaimedIsBounded, StreakAssumption
  DEF StreaksBounded
<1>2. /\ Emit(w, b, kind, reason).streaks = s
      /\ Emit(w, b, kind, reason).incidents = c
  BY <1>0, FirstSlotAnswers DEF Emit, StreaksBounded
<1> HIDE DEF t
<1>3. OnlyFirstSlot(s)
  BY <1>1 DEF OnlyFirstSlot, StreakCounted, StreakTable
<1>4. /\ s[0].block_name = Text[b] /\ s[0].name_hash = Hash[b]
      /\ s[0].streak <= c[b]
  <2>1. t[0] \in Streak
    BY <1>1 DEF StreakTable
  <2>2. CASE kind = "OK"
    BY <1>0, <1>1, <2>1, <2>2 DEF StreakCounted, StreakTable, Streak, Incremented
  <2>3. CASE kind # "OK" /\ kind \in IncidentKinds
    <3>1. (t[0].streak + 1) % StreakMod \in Nat
          /\ (t[0].streak + 1) % StreakMod <= t[0].streak + 1
          /\ (t[0].streak + 1) % StreakMod < StreakMod
      BY <1>1, StreakAssumption
    <3>2. s[0] = [t[0] EXCEPT !.streak = (@ + 1) % StreakMod]
      BY <1>1, <2>3 DEF StreakCounted, StreakTable
    <3>3. s[0].streak = (t[0].streak + 1) % StreakMod
      BY <2>1, <3>2 DEF Streak
    <3>4. s[0].block_name = t[0].block_name /\ s[0].name_hash = t[0].name_hash
      BY <2>1, <3>2 DEF Streak
    <3>5. c[b] = IF w.incidents[b] < StreakMod THEN w.incidents[b] + 1
                                              ELSE w.incidents[b]
      BY <1>0, <2>3 DEF Incremented
    <3>6. w.incidents[b] \in Nat /\ StreakMod \in Nat
      BY <1>0, StreakAssumption
    <3>7. s[0].streak <= c[b]
      BY <1>1, <3>1, <3>3, <3>5, <3>6
    <3> QED
      BY <1>1, <3>4, <3>7
  <2>4. CASE kind # "OK" /\ kind \notin IncidentKinds
    BY <1>1, <2>4 DEF StreakCounted, Incremented
  <2> QED
    BY <2>2, <2>3, <2>4
<1>5. FirstSlotBounded(s, c)
  <2> HIDE DEF s, c
  <2>1. ASSUME NEW n \in Names, Holds(s[0], n) PROVE n = b
    BY <1>4, <2>1, OwnerIsUnique
  <2> QED
    BY <1>4, <2>1 DEF FirstSlotBounded
<1> QED
  BY <1>2, <1>3, <1>5 DEF StreaksBounded

LEMMA LookedUpBounded ==
  ASSUME TypeOK, StreakInv, NEW b \in Names
  PROVE  /\ StreaksBounded(LookedUp(b))
         /\ LookedUp(b).incidents = incidents
         /\ LookedUp(b).blocks = blocks
<1>1. World \in Worlds /\ StreaksBounded(World)
  BY WorldType DEF StreakInv
<1>2. /\ LookedUp(b).streaks = StreakClaimed(World.streaks, b)
      /\ LookedUp(b).incidents = World.incidents
      /\ LookedUp(b).blocks = World.blocks
  BY <1>1 DEF LookedUp, Worlds
<1>3. StreaksBounded(LookedUp(b))
  BY <1>1, <1>2, ClaimedIsOwned, ClaimedIsBounded DEF Worlds, StreaksBounded
<1> QED
  BY <1>2, <1>3 DEF World

-----------------------------------------------------------------------------
(* The steps. *)

LEMMA BecomesBounded ==
  ASSUME NEW w, StreaksBounded(w), Becomes(w)
  PROVE  StreakInv'
BY DEF StreaksBounded, Becomes, StreakInv, World, OnlyFirstSlot, FirstSlotBounded, Holds

LEMMA RefuseBounded ==
  ASSUME TypeOK, NEW w \in Worlds, StreaksBounded(w), NEW below, NEW f \in Frame,
         NEW reason \in Reasons, Refuse(w, below, f, reason)
  PROVE  StreakInv'
<1> DEFINE b  == f.block_name
           w1 == Emit(w, b, "ERROR", reason)
           w2 == Emit(w1, b, "COMPLETED", "COMPLETED")
<1>0. b \in Names
  BY DEF Frame
<1>1. w1 \in Worlds /\ StreaksBounded(w1)
  BY <1>0, EmitType, EmitBounded DEF Kinds
<1>2. StreaksBounded(w2)
  <2> HIDE DEF w1, b
  <2> QED
    BY <1>0, <1>1, EmitBounded
<1>3. Becomes(w2)
  BY DEF Refuse
<1> HIDE DEF w2
<1> QED
  BY <1>2, <1>3, BecomesBounded

LEMMA CompleteBounded ==
  ASSUME TypeOK, NEW w \in Worlds, StreaksBounded(w), NEW b \in Names,
         NEW success \in BOOLEAN, Complete(w, b, success)
  PROVE  StreakInv'
<1> DEFINE w1 == [w EXCEPT !.blocks = ReportResult(@, b, success)]
           w2 == Emit(w1, b, "COMPLETED", "COMPLETED")
<1>1. w1 \in Worlds /\ StreaksBounded(w1)
  BY ReportResultType DEF Worlds, StreaksBounded
<1>2. StreaksBounded(w2)
  <2> HIDE DEF w1
  <2> QED
    BY <1>1, EmitBounded
<1>3. Becomes(w2)
  BY DEF Complete
<1> HIDE DEF w2
<1> QED
  BY <1>2, <1>3, BecomesBounded

LEMMA InitBounded == Init => StreakInv
BY StreakAssumption
DEF Init, NoStreaks, UnusedStreak, StreakInv, StreaksBounded, World,
    OnlyFirstSlot, FirstSlotBounded, Holds

(* A world left by one event of the running block. *)
LEMMA EventBounded ==
  ASSUME TypeOK, StreakInv, InFn, NEW kind \in Kinds, NEW reason \in Reasons
  PROVE  /\ Top.block_name \in Names
         /\ Emit(World, Top.block_name, kind, reason) \in Worlds
         /\ StreaksBounded(Emit(World, Top.block_name, kind, reason))
<1>1. Top.block_name \in Names
  BY TopType DEF InFn, Frame
<1> QED
  BY <1>1, WorldType, EmitType, EmitBounded DEF StreakInv

LEMMA StepBounded == TypeOK /\ StreakInv /\ [Next]_vars => StreakInv'
<1> SUFFICES ASSUME TypeOK, StreakInv, [Next]_vars PROVE StreakInv'
  OBVIOUS
<1>1. CASE RunQuarantined
  BY <1>1, EnteringTop, LookedUpBounded, RefuseBounded DEF RunQuarantined, Reasons
<1>2. CASE RunBreakerOpen
  <2> DEFINE b == Top.block_name
             w == [LookedUp(b) EXCEPT !.blocks = GetBlock(AttemptChecked(@, b), b)]
  <2>1. b \in Names /\ Top \in Frame /\ LookedUp(b) \in Worlds
    BY <1>2, EnteringTop DEF RunBreakerOpen
  <2>2. StreaksBounded(LookedUp(b))
    BY <2>1, LookedUpBounded
  <2>3. GetBlock(AttemptChecked(LookedUp(b).blocks, b), b) \in BlockTable
    BY <2>1, AttemptCheckedType, GetBlockType DEF Worlds
  <2>4. w \in Worlds /\ StreaksBounded(w)
    BY <2>1, <2>2, <2>3 DEF Worlds, StreaksBounded
  <2>5. Refuse(w, Below, Top, "BREAKER_OPEN")
    BY <1>2 DEF RunBreakerOpen
  <2> HIDE DEF w
  <2> QED
    BY <2>1, <2>4, <2>5, RefuseBounded DEF Reasons
<1>3. CASE RunAdmitted
  <2> DEFINE b == Top.block_name
             w == [LookedUp(b) EXCEPT !.blocks = AttemptChecked(@, b)]
  <2>1. LookedUp(b) \in Worlds /\ StreaksBounded(LookedUp(b))
    BY <1>3, EnteringTop, LookedUpBounded DEF RunAdmitted
  <2>2. StreaksBounded(w)
    BY <2>1 DEF Worlds, StreaksBounded
  <2>3. Becomes(w)
    BY <1>3 DEF RunAdmitted
  <2> HIDE DEF w
  <2> QED
    BY <2>2, <2>3, BecomesBounded
<1>11. ASSUME NEW cfg \in Configs, RunEnters(cfg) PROVE StreakInv'
  <2> DEFINE w == Emit(World, BlockName(cfg), "ENTERED", "ENTERED")
  <2>1. StreaksBounded(w)
    BY ConfigType, WorldType, EmitBounded DEF StreakInv
  <2>2. Becomes(w)
    BY <1>11 DEF RunEnters
  <2> HIDE DEF w
  <2> QED
    BY <2>1, <2>2, BecomesBounded
<1>4. CASE FnEmitBounds
  <2> DEFINE w == Emit(World, Top.block_name, "OUT_OF_BOUNDS", "BOUNDS")
  <2>1. StreaksBounded(w) /\ Becomes(w)
    BY <1>4, EventBounded DEF FnEmitBounds, Kinds, Reasons
  <2> HIDE DEF w
  <2> QED
    BY <2>1, BecomesBounded
<1>5. CASE FnTimedOut
  BY <1>5, EventBounded, CompleteBounded DEF FnTimedOut, Kinds, Reasons
<1>6. CASE FnReturnOk
  BY <1>6, EventBounded, CompleteBounded DEF FnReturnOk, Kinds, Reasons
<1>7. CASE FnReturnError
  BY <1>7, EventBounded, CompleteBounded DEF FnReturnError, Kinds, Reasons
<1>8. CASE FnReturnIncident
  <2>1. Top.block_name \in Names
    BY <1>8, TopType DEF FnReturnIncident, InFn, Frame
  <2> QED
    BY <1>8, <2>1, WorldType, CompleteBounded DEF FnReturnIncident, StreakInv
<1>9. CASE UNCHANGED <<streaks, incidents>>
  BY <1>9 DEF StreakInv, StreaksBounded, World, OnlyFirstSlot, FirstSlotBounded, Holds
<1>10. ASSUME \/ RunNull \/ RecoveryReturn \/ Tick \/ SetRecoveryCallback
              \/ AdapterRecoveryReset \/ UNCHANGED vars
       PROVE  UNCHANGED <<streaks, incidents>>
  BY <1>10
  DEF RunNull, RecoveryReturn, Tick, SetRecoveryCallback, AdapterRecoveryReset, vars
<1> QED
  BY <1>1, <1>2, <1>3, <1>4, <1>5, <1>6, <1>7, <1>8, <1>9, <1>10, <1>11 DEF Next

(* The quarantine test reads a streak that is the block's own. *)
LEMMA QuarantineStep ==
  ASSUME TypeOK, StreakInv, RunQuarantined
  PROVE  incidents[Top.block_name] >= Top.max_failures
<1> DEFINE b == Top.block_name
           w == LookedUp(b)
<1>1. b \in Names /\ Top.max_failures \in Nat /\ w \in Worlds
  BY EnteringTop DEF RunQuarantined
<1>2. StreaksBounded(w) /\ w.incidents = incidents
  BY <1>1, LookedUpBounded
<1>3. StreakOf(w.streaks, b) <= incidents[b]
  BY <1>1, <1>2, StreakOfBounded DEF Worlds, StreaksBounded
<1>4. StreakOf(w.streaks, b) >= Top.max_failures
  BY DEF RunQuarantined, Quarantined
<1>5. StreakOf(w.streaks, b) \in Nat /\ w.incidents[b] \in Nat
  <2>1. StreakAt(w.streaks, b) = 0
    BY <1>1, <1>2, FirstSlotAnswers DEF Worlds, StreaksBounded
  <2> QED
    BY <1>1, <1>2, <2>1, ClaimedIsOwned DEF StreakOf, Worlds, StreaksBounded
<1> QED
  BY <1>1, <1>2, <1>3, <1>4, <1>5

(* What the invariant says of every slot. *)
LEMMA BoundedMeansNoOvercount == StreakInv => StreakNeverOvercounts
<1> SUFFICES ASSUME StreakInv, NEW n \in Names, NEW i \in 0 .. StreakSlots,
                    Holds(streaks[i], n)
             PROVE  streaks[i].streak <= incidents[n]
  BY DEF StreakNeverOvercounts
<1>1. i = 0
  BY StreakAssumption DEF StreakInv, StreaksBounded, World, OnlyFirstSlot, Holds
<1> QED
  BY <1>1 DEF StreakInv, StreaksBounded, World, FirstSlotBounded

-----------------------------------------------------------------------------
(* The first theorems. *)

(* What the streak table is in every reachable state: one slot in use, and
   its count bounded. *)
THEOREM StreaksAreBounded == Spec => []StreakInv
<1> QED
  BY TypeCorrect, InitBounded, StepBounded, PTL DEF Spec

(* lox_failure_streak_for_block never charges a block with another's failures,
   in any order and nesting of the runs. *)
THEOREM NeverOvercounts == Spec => []StreakNeverOvercounts
<1> QED
  BY BoundedMeansNoOvercount, StreaksAreBounded, PTL

(* loxguard_run quarantines only a block that had max_failures incidents since
   its last OK. *)
THEOREM QuarantineIsJustified == Spec => QuarantineJustified
<1>1. TypeOK /\ StreakInv =>
        (RunQuarantined => incidents[Top.block_name] >= Top.max_failures)
  BY QuarantineStep
<1> QED
  BY <1>1, TypeCorrect, StreaksAreBounded, PTL DEF QuarantineJustified

-----------------------------------------------------------------------------
(* Four counts of one thing: the breaker's and the health agree with the      *)
(* streaks and the history of failed runs.                                   *)

(* Emission touches no breaker. *)
LEMMA EmitAgrees ==
  ASSUME NEW w \in Worlds, NEW b \in Names, NEW kind, NEW reason,
         NEW failed, TablesAgree(w.blocks, failed)
  PROVE  TablesAgree(Emit(w, b, kind, reason).blocks, failed)
<1> DEFINE t1 == ObserveEvent(w.blocks, b, kind)
           t2 == KindHealth(t1, b, kind)
           streak == StreakCounted(StreakClaimed(w.streaks, b),
                                   StreakAt(w.streaks, b), kind)
                       [StreakAt(w.streaks, b)].streak
           t3 == StreakHealth(t2, b, streak)
<1>1. Emit(w, b, kind, reason).blocks = t3
  BY DEF Emit
<1>2. t1 \in BlockTable /\ TablesAgree(t1, failed)
  BY OperationsAgree, ObserveEventType DEF Worlds
<1> HIDE DEF t1
<1>3. t2 \in BlockTable /\ TablesAgree(t2, failed)
  BY <1>2, OperationsAgree, HealthType DEF KindHealth
<1> HIDE DEF t2, streak
<1>4. TablesAgree(t3, failed)
  BY <1>3, OperationsAgree DEF StreakHealth
<1> QED
  BY <1>1, <1>4

-----------------------------------------------------------------------------
(* Health. *)

(* A block with a slot shows the health that its streak asks for. *)
HealthShown(t, k, streak) ==
  \A j \in Found(t, k) :
    /\ streak >= 5 => t.slot[j].health = 5
    /\ streak \in 3 .. 4 => t.slot[j].health = 4

(* The block in the streak slot shows it; once its streak sets its health, it has
   its slot, if it ever will. *)
WorldHealth(w) ==
  \A n \in Names :
    Holds(w.streaks[0], n) =>
      /\ HealthShown(w.blocks, n, w.streaks[0].streak)
      /\ w.streaks[0].streak >= 3 => Settled(w.blocks, n)

LEMMA StreakHealthShown ==
  ASSUME NEW t \in BlockTable, OneSlotEach(t), NEW b \in Names, NEW streak \in Nat
  PROVE  HealthShown(StreakHealth(t, b, streak), b, streak)
<1>1. ASSUME NEW level \in Int
      PROVE  \A j \in Found(SetHealth(t, b, level), b) :
               SetHealth(t, b, level).slot[j].health = level
  <2> DEFINE s == [Opened(t, b) EXCEPT !.health = level]
  <2>1. SetHealth(t, b, level) = TableWith(t, b, s) /\ LeftIn(t, b, s)
    BY SetHealthIs, KeyIs
  <2>2. s.health = level
    BY OpenedIs DEF BlockState
  <2> HIDE DEF s
  <2> QED
    BY <2>1, <2>2, SlotsAfter
<1> QED
  BY <1>1 DEF StreakHealth, HealthShown

(* The streak slot after an emission is the emitting block's. *)
LEMMA EmitOwned ==
  ASSUME NEW w \in Worlds, StreaksBounded(w), NEW b \in Names, NEW kind, NEW reason
  PROVE  LET t == Emit(w, b, kind, reason).streaks
         IN  /\ t \in StreakTable /\ OnlyFirstSlot(t)
             /\ t[0].block_name = Text[b] /\ t[0].name_hash = Hash[b]
             /\ t[0].streak \in Nat
             /\ t = StreakCounted(StreakClaimed(w.streaks, b), 0, kind)
             /\ StreakAt(w.streaks, b) = 0
<1> DEFINE c == StreakClaimed(w.streaks, b)
           s == StreakCounted(c, 0, kind)
<1>1. w.streaks \in StreakTable /\ OnlyFirstSlot(w.streaks) /\ 0 \in 0 .. StreakSlots
  BY StreakAssumption DEF Worlds, StreaksBounded
<1>2. StreakAt(w.streaks, b) = 0 /\ Emit(w, b, kind, reason).streaks = s
  BY <1>1, FirstSlotAnswers DEF Emit
<1>3. c \in StreakTable /\ c[0].block_name = Text[b] /\ c[0].name_hash = Hash[b]
  BY <1>1, StreakClaimedType, ClaimedIsOwned
<1> HIDE DEF c
<1>4. s \in StreakTable
  BY <1>1, <1>3, StreakCountedType
<1>5. s[0].block_name = Text[b] /\ s[0].name_hash = Hash[b]
  <2>1. c[0] \in Streak
    BY <1>1, <1>3 DEF StreakTable
  <2> QED
    BY <1>1, <1>3, <2>1 DEF StreakCounted, StreakTable, Streak
<1>6. OnlyFirstSlot(s)
  BY <1>2, EmitBounded DEF StreaksBounded
<1>7. s[0].streak \in Nat
  BY <1>1, <1>4, StreakAssumption DEF StreakTable, Streak
<1> HIDE DEF s
<1> QED
  BY <1>2, <1>4, <1>5, <1>6, <1>7 DEF s, c

(* Emission looks its block up, so the block has its slot, if it will ever. *)
LEMMA EmitSettles ==
  ASSUME NEW w \in Worlds, NEW b \in Names, NEW kind, NEW reason
  PROVE  Settled(Emit(w, b, kind, reason).blocks, b)
<1> DEFINE t1 == ObserveEvent(w.blocks, b, kind)
           t2 == KindHealth(t1, b, kind)
           streak == StreakCounted(StreakClaimed(w.streaks, b),
                                   StreakAt(w.streaks, b), kind)
                       [StreakAt(w.streaks, b)].streak
<1>1. Emit(w, b, kind, reason).blocks = StreakHealth(t2, b, streak)
  BY DEF Emit
<1>2. t1 \in BlockTable /\ Settled(t1, b)
  <2> DEFINE s == [Opened(w.blocks, b) EXCEPT !.watchdog = WatchdogAfter(@, kind)]
  <2>1. w.blocks \in BlockTable
    BY DEF Worlds
  <2>2. t1 = TableWith(w.blocks, b, s) /\ LeftIn(w.blocks, b, s)
    BY <2>1, ObserveEventIs, KeyIs
  <2> HIDE DEF s
  <2> QED
    BY <2>1, <2>2, ObserveEventType, TableWithSettled
<1>3. ASSUME NEW t \in BlockTable, NEW level \in Int
      PROVE  Settled(SetHealth(t, b, level), b)
  <2> DEFINE s == [Opened(t, b) EXCEPT !.health = level]
  <2>1. SetHealth(t, b, level) = TableWith(t, b, s) /\ LeftIn(t, b, s)
    BY SetHealthIs, KeyIs
  <2> HIDE DEF s
  <2> QED
    BY <2>1, TableWithSettled
<1> HIDE DEF t1
<1>4. t2 \in BlockTable /\ Settled(t2, b)
  BY <1>2, <1>3, HealthType DEF KindHealth
<1> HIDE DEF t2, streak
<1> QED
  BY <1>1, <1>3, <1>4 DEF StreakHealth

(* The streak has the last word, whatever the kind asked for. *)
LEMMA EmitHealth ==
  ASSUME NEW w \in Worlds, StreaksBounded(w), NEW failed, TablesAgree(w.blocks, failed),
         NEW b \in Names, NEW kind \in Kinds, NEW reason \in Reasons
  PROVE  WorldHealth(Emit(w, b, kind, reason))
<1> DEFINE t1 == ObserveEvent(w.blocks, b, kind)
           t2 == KindHealth(t1, b, kind)
           e  == Emit(w, b, kind, reason)
<1>1. t1 \in BlockTable /\ TablesAgree(t1, failed)
  BY OperationsAgree, ObserveEventType DEF Worlds
<1>2. e.blocks = StreakHealth(t2, b, e.streaks[0].streak)
  <2>1. StreakAt(w.streaks, b) = 0
    BY EmitOwned
  <2> HIDE DEF t2
  <2> QED
    BY <2>1 DEF Emit, t2
<1> HIDE DEF t1
<1>3. t2 \in BlockTable /\ TablesAgree(t2, failed)
  BY <1>1, OperationsAgree, HealthType DEF KindHealth
<1>4. /\ e.streaks[0].block_name = Text[b] /\ e.streaks[0].name_hash = Hash[b]
      /\ e.streaks[0].streak \in Nat
  BY EmitOwned
<1> HIDE DEF t2, e
<1>5. HealthShown(e.blocks, b, e.streaks[0].streak)
  BY <1>2, <1>3, <1>4, StreakHealthShown DEF TablesAgree
<1>6. \A n \in Names : Holds(e.streaks[0], n) => n = b
  BY <1>4, OwnerIsUnique
<1>7. Settled(e.blocks, b)
  BY EmitSettles DEF e
<1> QED
  BY <1>5, <1>6, <1>7 DEF WorldHealth, e

-----------------------------------------------------------------------------
(* The counts through the steps of a run. *)

Agreed(w, failed) == TablesAgree(w.blocks, failed) /\ WorldHealth(w)

(* The inductive invariant behind BreakerCountsFailedRuns and
   HealthFollowsStreak. *)
CountInv == Agreed(World, failedRuns)

LEMMA EmitAgreed ==
  ASSUME NEW w \in Worlds, StreaksBounded(w), NEW failed, TablesAgree(w.blocks, failed),
         NEW b \in Names, NEW kind \in Kinds, NEW reason \in Reasons
  PROVE  Agreed(Emit(w, b, kind, reason), failed)
BY EmitAgrees, EmitHealth DEF Agreed

(* A settled block keeps its health when its state is looked up, and is settled. *)
LEMMA LookupKeepsHealth ==
  ASSUME NEW t \in BlockTable, OneSlotEach(t), NEW b \in Names, Settled(t, b),
         NEW streak, HealthShown(t, b, streak)
  PROVE  /\ HealthShown(AttemptChecked(t, b), b, streak)
         /\ Settled(AttemptChecked(t, b), b)
<1> DEFINE o == Opened(t, b)
           s == Synchronised(o)
           u == TableWith(t, b, s)
<1>1. CASE HaveMicrores
  <2>1. AttemptChecked(t, b) = u /\ LeftIn(t, b, s)
    BY <1>1, AttemptCheckedIs, KeyIs
  <2>2. s.health = o.health
    BY OpenedIs DEF Synchronised, BlockState
  <2> HIDE DEF s
  <2>3. Found(u, b) = Found(t, b)
    BY <2>1, OwnFound DEF Settled
  <2>4. \A j \in Found(u, b) : j \in Found(t, b) /\ j = SlotFor(t, b) /\ u.slot[j] = s
    BY <2>1, <2>3, SlotsAfter
  <2>5. \A j \in Found(u, b) : u.slot[j].health = t.slot[j].health
    BY <2>2, <2>4 DEF Opened
  <2>6. Settled(u, b)
    BY <2>1, TableWithSettled
  <2> HIDE DEF u
  <2> QED
    BY <2>1, <2>3, <2>5, <2>6 DEF HealthShown
<1>2. CASE ~HaveMicrores
  BY <1>2 DEF AttemptChecked
<1> QED
  BY <1>1, <1>2

(* After the lookup the streak slot is the block's and all counts agree. *)
LEMMA LookedUpAgreed ==
  ASSUME TypeOK, StreakInv, CountInv, NEW b \in Names
  PROVE  /\ Agreed(LookedUp(b), failedRuns)
         /\ LookedUp(b).streaks[0].streak \in Nat
         /\ \A n \in Names : Holds(LookedUp(b).streaks[0], n) => n = b
<1> DEFINE c == StreakClaimed(streaks, b)
<1>1. /\ World \in Worlds /\ Agreed(World, failedRuns)
      /\ streaks \in StreakTable /\ OnlyFirstSlot(streaks)
      /\ World.streaks = streaks /\ World.blocks = blocks
  BY WorldType DEF StreakInv, StreaksBounded, CountInv, World, TypeOK
<1>2. LookedUp(b).streaks = c /\ LookedUp(b).blocks = blocks
  BY <1>1 DEF LookedUp, Worlds
<1>3. /\ c[0].block_name = Text[b] /\ c[0].name_hash = Hash[b]
      /\ c[0].streak = IF Holds(streaks[0], b) THEN streaks[0].streak ELSE 0
  BY <1>1, ClaimedIsOwned
<1>4. streaks[0].streak \in Nat
  BY <1>1, StreakAssumption DEF StreakTable, Streak
<1> HIDE DEF c
<1>5. \A n \in Names : Holds(c[0], n) => n = b
  BY <1>3, OwnerIsUnique
<1>6. HealthShown(blocks, b, c[0].streak)
      /\ (c[0].streak >= 3 => Settled(blocks, b))
  BY <1>1, <1>3 DEF Agreed, WorldHealth, HealthShown
<1>7. WorldHealth(LookedUp(b))
  BY <1>2, <1>5, <1>6 DEF WorldHealth
<1> QED
  BY <1>1, <1>2, <1>3, <1>4, <1>5, <1>7 DEF Agreed

LEMMA BecomesAgreed ==
  ASSUME NEW w, Becomes(w), Agreed(w, failedRuns')
  PROVE  CountInv'
BY DEF Becomes, CountInv, Agreed, World, TablesAgree, OneSlotEach, BreakersCount,
       WorldHealth, HealthShown, Settled, Found, Unused, Holds, Counts

LEMMA RefuseAgreed ==
  ASSUME TypeOK, NEW w \in Worlds, StreaksBounded(w), TablesAgree(w.blocks, failedRuns),
         NEW below, NEW f \in Frame, NEW reason \in Reasons,
         Refuse(w, below, f, reason)
  PROVE  CountInv'
<1> DEFINE b  == f.block_name
           w1 == Emit(w, b, "ERROR", reason)
           w2 == Emit(w1, b, "COMPLETED", "COMPLETED")
<1>0. b \in Names
  BY DEF Frame
<1>1. w1 \in Worlds /\ StreaksBounded(w1) /\ TablesAgree(w1.blocks, failedRuns)
  BY <1>0, EmitType, EmitBounded, EmitAgrees DEF Kinds
<1>2. Agreed(w2, failedRuns)
  <2> HIDE DEF w1, b
  <2> QED
    BY <1>0, <1>1, EmitAgreed DEF Kinds, Reasons
<1>3. Becomes(w2) /\ failedRuns' = failedRuns
  BY DEF Refuse
<1> HIDE DEF w2
<1> QED
  BY <1>2, <1>3, BecomesAgreed

LEMMA CompleteAgreed ==
  ASSUME TypeOK, NEW w \in Worlds, StreaksBounded(w), TablesAgree(w.blocks, failedRuns),
         NEW b \in Names, NEW success \in BOOLEAN, Complete(w, b, success)
  PROVE  CountInv'
<1> DEFINE w1 == [w EXCEPT !.blocks = ReportResult(@, b, success)]
           w2 == Emit(w1, b, "COMPLETED", "COMPLETED")
           after == RunsAfter(failedRuns, b, success)
<1>1. w1 \in Worlds /\ StreaksBounded(w1)
  BY ReportResultType DEF Worlds, StreaksBounded
<1>2. TablesAgree(w1.blocks, after)
  <2>1. w1.blocks = ReportResult(w.blocks, b, success)
    BY DEF Worlds
  <2>2. w.blocks \in BlockTable /\ failedRuns \in [Names -> Nat]
    BY DEF Worlds, TypeOK
  <2> HIDE DEF w1, after
  <2> QED
    BY <2>1, <2>2, ReportAgrees DEF after
<1>3. Agreed(w2, after)
  <2> HIDE DEF w1, after
  <2> QED
    BY <1>1, <1>2, EmitAgreed DEF Kinds, Reasons
<1>4. Becomes(w2) /\ failedRuns' = after
  BY DEF Complete, RunsAfter
<1> HIDE DEF w2, after
<1> QED
  BY <1>3, <1>4, BecomesAgreed

LEMMA InitAgreed == Init => CountInv
<1> SUFFICES ASSUME Init PROVE CountInv
  OBVIOUS
<1>1. OneSlotEach(NoBlocks) /\ \A n \in Names : Found(NoBlocks, n) = {}
  BY NoBlocksIs
<1>2. blocks = NoBlocks /\ \A n \in Names : failedRuns[n] = 0
  BY DEF Init
<1>3. streaks[0].streak = 0
  BY StreakAssumption DEF Init, NoStreaks, UnusedStreak
<1> QED
  BY <1>1, <1>2, <1>3 DEF CountInv, Agreed, World, TablesAgree, BreakersCount,
                          WorldHealth, HealthShown

(* The resets and time leave every owner and every health alone. *)
LEMMA ResetAgreed ==
  ASSUME TypeOK, CountInv, NEW t \in {RecoveryReset(blocks), TimePasses(blocks)},
         blocks' = t, streaks' = streaks, BreakersCount(t, failedRuns')
  PROVE  CountInv'
<1>1. blocks \in BlockTable /\ OneSlotEach(blocks) /\ WorldHealth(World)
  BY DEF TypeOK, CountInv, Agreed, TablesAgree, World
<1>2. /\ OneSlotEach(t)
      /\ \A n \in Names : Found(t, n) = Found(blocks, n)
      /\ \A n \in Names : Settled(blocks, n) => Settled(t, n)
  BY <1>1, ResetsKeepOwners
<1>3. ASSUME NEW n \in Names, NEW j \in Found(blocks, n)
      PROVE  t.slot[j].health = blocks.slot[j].health
  <2> DEFINE s == blocks.slot[j]
  <2>1. j \in 0 .. BlockSlots - 1
    BY DEF Found
  <2>2. /\ s \in BlockState
        /\ RecoveryReset(blocks).slot[j] =
             [[s EXCEPT !.recovery = 0] EXCEPT !.breaker = ClosedBreaker]
        /\ TimePasses(blocks).slot[j] = [s EXCEPT !.breaker = Aged(@)]
    BY <1>1, <2>1, ResetSlots
  <2>3. t = RecoveryReset(blocks) \/ t = TimePasses(blocks)
    OBVIOUS
  <2> HIDE DEF s
  <2>4. RecoveryReset(blocks).slot[j].health = s.health
        /\ TimePasses(blocks).slot[j].health = s.health
    BY <2>2 DEF BlockState
  <2> QED
    BY <2>3, <2>4 DEF s
<1>4. WorldHealth([World EXCEPT !.blocks = t])
  BY <1>1, <1>2, <1>3 DEF WorldHealth, HealthShown, World
<1>5. Agreed([World EXCEPT !.blocks = t], failedRuns')
  BY <1>2, <1>4 DEF Agreed, TablesAgree, World
<1> QED
  BY <1>5 DEF World, CountInv, Agreed, TablesAgree, OneSlotEach, BreakersCount,
              WorldHealth, HealthShown, Settled, Found, Unused, Holds, Counts

(* The microres clock runs: breakers count what they counted. *)
LEMMA TimeKeepsCounts ==
  ASSUME TypeOK, CountInv
  PROVE  BreakersCount(TimePasses(blocks), failedRuns)
<1> DEFINE u == TimePasses(blocks)
<1>1. blocks \in BlockTable /\ BreakersCount(blocks, failedRuns)
  BY DEF TypeOK, CountInv, Agreed, TablesAgree, World
<1>2. /\ \A n \in Names : Found(u, n) = Found(blocks, n)
      /\ \A n \in Names : Settled(blocks, n) => Settled(u, n)
  BY <1>1, ResetsKeepOwners
<1>3. ASSUME NEW n \in Names, NEW j \in Found(blocks, n)
      PROVE  /\ u.slot[j].breaker.failures = blocks.slot[j].breaker.failures
             /\ u.slot[j].breaker.open = blocks.slot[j].breaker.open
  <2> DEFINE s == blocks.slot[j]
  <2>1. s \in BlockState /\ u.slot[j] = [s EXCEPT !.breaker = Aged(@)]
    BY <1>1, ResetSlots DEF Found
  <2> HIDE DEF s
  <2>2. u.slot[j].breaker = Aged(s.breaker) /\ s.breaker \in Breaker
    BY <2>1 DEF BlockState
  <2>3. Aged(s.breaker).failures = s.breaker.failures
        /\ Aged(s.breaker).open = s.breaker.open
    BY <2>2 DEF Aged, Breaker
  <2> QED
    BY <2>2, <2>3 DEF s
<1> HIDE DEF u
<1>4. ASSUME HaveMicrores, NEW n \in Names
      PROVE  /\ ~Settled(u, n) => failedRuns[n] = 0
             /\ \A j \in Found(u, n) : Counts(u.slot[j].breaker, failedRuns[n])
  <2>1. /\ ~Settled(blocks, n) => failedRuns[n] = 0
        /\ \A j \in Found(blocks, n) : Counts(blocks.slot[j].breaker, failedRuns[n])
    BY <1>1, <1>4 DEF BreakersCount
  <2>2. ~Settled(u, n) => failedRuns[n] = 0
    BY <1>2, <2>1
  <2>3. ASSUME NEW j \in Found(u, n)
        PROVE  Counts(u.slot[j].breaker, failedRuns[n])
    <3>1. j \in Found(blocks, n)
      BY <1>2, <2>3
    <3> QED
      BY <1>3, <2>1, <3>1 DEF Counts
  <2> QED
    BY <2>2, <2>3
<1>5. BreakersCount(u, failedRuns)
  BY <1>4 DEF BreakersCount
<1> QED
  BY <1>5 DEF u

(* After a reset every breaker is closed and counts nothing. *)
LEMMA ResetClearsCounts ==
  ASSUME TypeOK, CountInv, NEW failed, \A n \in Names : failed[n] = 0
  PROVE  BreakersCount(RecoveryReset(blocks), failed)
<1> DEFINE u == RecoveryReset(blocks)
<1>1. blocks \in BlockTable
  BY DEF TypeOK
<1>2. \A n \in Names : Found(u, n) = Found(blocks, n)
  BY <1>1, ResetsKeepOwners
<1>3. ASSUME NEW n \in Names, NEW j \in Found(u, n)
      PROVE  Counts(u.slot[j].breaker, failed[n])
  <2> DEFINE s == blocks.slot[j]
  <2>1. s \in BlockState
        /\ u.slot[j] = [[s EXCEPT !.recovery = 0] EXCEPT !.breaker = ClosedBreaker]
    BY <1>1, <1>2, ResetSlots DEF Found
  <2> HIDE DEF s
  <2>2. u.slot[j].breaker = ClosedBreaker
    BY <2>1 DEF BlockState
  <2> QED
    BY <2>2, BlockStatesAssumption DEF ClosedBreaker, Counts
<1> HIDE DEF u
<1> QED
  BY <1>3 DEF BreakersCount, u

(* Every step keeps the counts in agreement. *)
LEMMA StepAgreed ==
  TypeOK /\ StreakInv /\ CountInv /\ [Next]_vars => CountInv'
<1> SUFFICES ASSUME TypeOK, StreakInv, CountInv, [Next]_vars PROVE CountInv'
  OBVIOUS
<1>0. World \in Worlds /\ StreaksBounded(World) /\ TablesAgree(World.blocks, failedRuns)
  BY WorldType DEF StreakInv, CountInv, Agreed
<1>1. ASSUME Entering
      PROVE  LET w == LookedUp(Top.block_name)
             IN  /\ Top \in Frame /\ Top.block_name \in Names
                 /\ w \in Worlds /\ StreaksBounded(w) /\ Agreed(w, failedRuns)
                 /\ TablesAgree(w.blocks, failedRuns)
  <2>1. /\ Top \in Frame /\ Top.block_name \in Names
        /\ LookedUp(Top.block_name) \in Worlds
    BY <1>1, EnteringTop
  <2> QED
    BY <2>1, LookedUpBounded, LookedUpAgreed DEF Agreed
<1>2. CASE RunQuarantined
  BY <1>1, <1>2, RefuseAgreed DEF RunQuarantined, Reasons
<1>3. CASE RunBreakerOpen
  <2> DEFINE b == Top.block_name
             w == LookedUp(b)
             t == GetBlock(AttemptChecked(w.blocks, b), b)
             v == [w EXCEPT !.blocks = t]
  <2>1. Entering /\ Top \in Frame /\ b \in Names
    BY <1>1, <1>3 DEF RunBreakerOpen
  <2>2. w \in Worlds /\ StreaksBounded(w) /\ TablesAgree(w.blocks, failedRuns)
    BY <1>1, <2>1
  <2>3. t \in BlockTable /\ TablesAgree(t, failedRuns)
    <3>1. w.blocks \in BlockTable
      BY <2>2 DEF Worlds
    <3> QED
      BY <2>1, <2>2, <3>1, AttemptCheckedType, GetBlockType, OperationsAgree
  <2>4. Refuse(v, Below, Top, "BREAKER_OPEN")
    BY <1>3 DEF RunBreakerOpen
  <2> HIDE DEF w, t
  <2>5. v \in Worlds /\ StreaksBounded(v) /\ v.blocks = t
    BY <2>2, <2>3 DEF Worlds, StreaksBounded
  <2> HIDE DEF v
  <2> QED
    BY <2>1, <2>3, <2>4, <2>5, RefuseAgreed DEF Reasons
<1>4. CASE RunAdmitted
  <2> DEFINE b == Top.block_name
             w == LookedUp(b)
             t == AttemptChecked(w.blocks, b)
             v == [w EXCEPT !.blocks = t]
  <2>1. Entering /\ b \in Names
    BY <1>1, <1>4 DEF RunAdmitted
  <2>2. /\ w \in Worlds /\ Agreed(w, failedRuns)
        /\ w.streaks[0].streak \in Nat
        /\ \A n \in Names : Holds(w.streaks[0], n) => n = b
    BY <1>1, <2>1, LookedUpAgreed
  <2>3. Becomes(v) /\ failedRuns' = failedRuns
    BY <1>4 DEF RunAdmitted
  <2> HIDE DEF w
  <2>4. w.blocks \in BlockTable /\ OneSlotEach(w.blocks)
        /\ TablesAgree(w.blocks, failedRuns)
    BY <2>2 DEF Worlds, Agreed, TablesAgree
  <2>5. TablesAgree(t, failedRuns)
    BY <2>1, <2>4, OperationsAgree
  <2>6. ASSUME Holds(w.streaks[0], b), w.streaks[0].streak >= 3
        PROVE  HealthShown(t, b, w.streaks[0].streak) /\ Settled(t, b)
    <3>1. HealthShown(w.blocks, b, w.streaks[0].streak) /\ Settled(w.blocks, b)
      BY <2>1, <2>2, <2>6 DEF Agreed, WorldHealth
    <3> QED
      BY <2>1, <2>4, <3>1, LookupKeepsHealth
  <2> HIDE DEF t
  <2>7. v.blocks = t /\ v.streaks = w.streaks
    BY <2>2 DEF Worlds
  <2> HIDE DEF v
  <2>8. ASSUME NEW n \in Names, Holds(v.streaks[0], n)
        PROVE  /\ HealthShown(v.blocks, n, v.streaks[0].streak)
               /\ v.streaks[0].streak >= 3 => Settled(v.blocks, n)
    <3>1. n = b /\ Holds(w.streaks[0], b) /\ w.streaks[0].streak \in Nat
      BY <2>2, <2>7, <2>8
    <3>2. CASE w.streaks[0].streak >= 3
      BY <2>6, <2>7, <3>1, <3>2
    <3>3. CASE ~(w.streaks[0].streak >= 3)
      BY <2>7, <3>1, <3>3 DEF HealthShown
    <3> QED
      BY <3>2, <3>3
  <2>9. Agreed(v, failedRuns)
    BY <2>5, <2>7, <2>8 DEF Agreed, WorldHealth
  <2> QED
    BY <2>3, <2>9, BecomesAgreed
<1>15. ASSUME NEW cfg \in Configs, RunEnters(cfg) PROVE CountInv'
  <2> DEFINE w == Emit(World, BlockName(cfg), "ENTERED", "ENTERED")
  <2>1. Agreed(w, failedRuns)
    BY <1>0, ConfigType, EmitAgreed DEF Kinds, Reasons
  <2>2. Becomes(w) /\ failedRuns' = failedRuns
    BY <1>15 DEF RunEnters
  <2> HIDE DEF w
  <2> QED
    BY <2>1, <2>2, BecomesAgreed
<1>5. ASSUME InFn, NEW kind \in Kinds, NEW reason \in Reasons
      PROVE  LET w == Emit(World, Top.block_name, kind, reason)
             IN  /\ Top.block_name \in Names
                 /\ w \in Worlds /\ StreaksBounded(w)
                 /\ Agreed(w, failedRuns) /\ TablesAgree(w.blocks, failedRuns)
  BY <1>0, <1>5, EventBounded, EmitAgreed DEF Agreed
<1>6. CASE FnEmitBounds
  <2> DEFINE w == Emit(World, Top.block_name, "OUT_OF_BOUNDS", "BOUNDS")
  <2>1. Agreed(w, failedRuns) /\ Becomes(w) /\ failedRuns' = failedRuns
    BY <1>5, <1>6 DEF FnEmitBounds, Kinds, Reasons
  <2> HIDE DEF w
  <2> QED
    BY <2>1, BecomesAgreed
<1>7. CASE FnTimedOut
  BY <1>5, <1>7, CompleteAgreed DEF FnTimedOut, Kinds, Reasons
<1>8. CASE FnReturnOk
  BY <1>5, <1>8, CompleteAgreed DEF FnReturnOk, Kinds, Reasons
<1>9. CASE FnReturnError
  BY <1>5, <1>9, CompleteAgreed DEF FnReturnError, Kinds, Reasons
<1>10. CASE FnReturnIncident
  <2>1. Top.block_name \in Names
    BY <1>10, TopType DEF FnReturnIncident, InFn, Frame
  <2> QED
    BY <1>0, <1>10, <2>1, CompleteAgreed DEF FnReturnIncident
<1>11. CASE Tick
  BY <1>11, TimeKeepsCounts, ResetAgreed DEF Tick
<1>12. CASE AdapterRecoveryReset
  <2>1. \A n \in Names : failedRuns'[n] = 0
    BY <1>12 DEF AdapterRecoveryReset
  <2> QED
    BY <1>12, <2>1, ResetClearsCounts, ResetAgreed DEF AdapterRecoveryReset
<1>13. CASE UNCHANGED <<streaks, blocks, failedRuns>>
  BY <1>13 DEF CountInv, Agreed, World, TablesAgree, OneSlotEach, BreakersCount,
               WorldHealth, HealthShown, Settled, Found, Unused, Holds, Counts
<1>14. ASSUME \/ RunNull \/ RecoveryReturn \/ SetRecoveryCallback \/ UNCHANGED vars
       PROVE  UNCHANGED <<streaks, blocks, failedRuns>>
  BY <1>14 DEF RunNull, RecoveryReturn, SetRecoveryCallback, vars
<1> QED
  BY <1>2, <1>3, <1>4, <1>6, <1>7, <1>8, <1>9, <1>10, <1>11, <1>12, <1>13, <1>14, <1>15
  DEF Next

LEMMA AgreedMeansProperties ==
  CountInv => BreakerCountsFailedRuns /\ HealthFollowsStreak
BY DEF CountInv, Agreed, World, TablesAgree, BreakersCount, Counts, WorldHealth,
       HealthShown, BreakerCountsFailedRuns, HealthFollowsStreak

(* Breakers, health and streaks agree with the history in every reachable state. *)
THEOREM CountsAgree == Spec => []CountInv
<1> QED
  BY TypeCorrect, StreaksAreBounded, InitAgreed, StepAgreed, PTL DEF Spec

(* lox_adapter_recovery_report_result_for_block counts each failed run of a
   block once, and no run of another, however runs nest. *)
THEOREM BreakersAreRight == Spec => []BreakerCountsFailedRuns
<1> QED
  BY CountsAgree, AgreedMeansProperties, PTL

(* The health lox_emit_event_ex leaves is the one the streak asks for, in every
   phase of a run and whatever other blocks ran. *)
THEOREM HealthIsRight == Spec => []HealthFollowsStreak
<1> QED
  BY CountsAgree, AgreedMeansProperties, PTL

-----------------------------------------------------------------------------
(* Timeouts: the clock may wrap, the difference does not mislead.            *)

(* A report that tells a run which overran its timeout from one that did not,
   or of a run whose function was not called. *)
Exact(r) ==
  r.took < ClockMod /\ r.reason \notin Refusals =>
    (r.result = "TIMEOUT" <=> r.limit > 0 /\ r.took > r.limit)

(* A run on its way to its function, or inside, entered `elapsed' ticks ago and
   has emitted no TIMEOUT; a run in the recovery callback holds an exact report. *)
OnTime(f) ==
  /\ Exact(f.report)
  /\ f.last_event.kind # "TIMEOUT"
  /\ f.phase # "recovery" => now = (f.start + f.elapsed) % ClockMod

(* The inductive invariant behind TimeoutsExact. *)
ClockInv == Exact(report) /\ \A i \in DOMAIN frames : OnTime(frames[i])

(* Remainders of what is below the modulus, or below twice the modulus. *)
LEMMA Remainders ==
  ASSUME NEW m \in Nat, m > 0, NEW a \in Nat, a < m + m
  PROVE  a % m = IF a < m THEN a ELSE a - m
<1>1. CASE a < m
  BY <1>1
<1>2. CASE a >= m
  BY <1>2
<1> QED
  BY <1>1, <1>2

LEMMA RemainderIs ==
  \A m, q, r, x \in Nat : r < m /\ x = m * q + r => x % m = r
OBVIOUS

LEMMA NextRemainder ==
  ASSUME NEW m \in Nat, m > 0, NEW a \in Nat
  PROVE  (a + 1) % m = ((a % m) + 1) % m
<1> DEFINE q == a \div m
           r == a % m
           x == a + 1
<1>1. q \in Nat /\ r \in Nat /\ r < m /\ x \in Nat
  OBVIOUS
<1>2. x = m * q + (r + 1)
  OBVIOUS
<1>3. SUFFICES x % m = (r + 1) % m
  OBVIOUS
<1> HIDE DEF q, r, x
<1>4. (r + 1) % m = IF r + 1 < m THEN r + 1 ELSE 0
  BY <1>1, Remainders
<1>5. CASE r + 1 < m
  <2> DEFINE y == r + 1
  <2>1. y \in Nat /\ y < m /\ x = m * q + y
    BY <1>1, <1>2, <1>5
  <2> HIDE DEF y
  <2>2. x % m = y
    BY <1>1, <2>1, RemainderIs
  <2> QED
    BY <1>4, <1>5, <2>2 DEF y
<1>6. CASE r + 1 = m
  <2> DEFINE p == q + 1
  <2>1. m * p = m * q + m
    BY <1>1
  <2>2. p \in Nat /\ x = m * p + 0
    BY <1>1, <1>2, <1>6, <2>1
  <2> HIDE DEF p
  <2>3. x % m = 0
    BY <1>1, <2>2, RemainderIs
  <2> QED
    BY <1>1, <1>4, <1>6, <2>3
<1> QED
  BY <1>1, <1>5, <1>6

(* The modular difference is the time spent, up to a full turn of the clock. *)
LEMMA DurationIs ==
  ASSUME TypeOK, NEW f \in Frame, f.phase # "recovery", OnTime(f), f.elapsed < ClockMod
  PROVE  Duration(f) = f.elapsed
<1> DEFINE a == f.start + f.elapsed
           d == now + ClockMod - f.start
<1>1. /\ ClockMod \in Nat /\ ClockMod > 0 /\ f.elapsed \in Nat /\ f.start \in Nat
      /\ f.start < ClockMod /\ f.elapsed < ClockMod
      /\ now \in Nat /\ now < ClockMod
  BY GuardRunAssumption DEF Frame, TypeOK
<1>2. now = a % ClockMod /\ Duration(f) = d % ClockMod
  BY DEF OnTime, Duration
<1>3. a \in Nat /\ a < ClockMod + ClockMod /\ d \in Nat /\ d < ClockMod + ClockMod
  BY <1>1
<1>4. a % ClockMod = (IF a < ClockMod THEN a ELSE a - ClockMod)
      /\ d % ClockMod = (IF d < ClockMod THEN d ELSE d - ClockMod)
  <2> HIDE DEF a, d
  <2> QED
    BY <1>1, <1>3, Remainders
<1>5. now = IF a < ClockMod THEN a ELSE a - ClockMod
  BY <1>2, <1>4
<1>6. (IF d < ClockMod THEN d ELSE d - ClockMod) = f.elapsed
  BY <1>1, <1>5
<1> QED
  BY <1>2, <1>4, <1>6

(* The reports a run ends with. *)
LEMMA FailureReportExact ==
  ASSUME TypeOK, NEW f \in Frame, f.phase # "recovery", OnTime(f), NEW event, NEW persisted,
         event.kind = "TIMEOUT" <=> TimedOut(f)
  PROVE  Exact(FailureReport(f, event, persisted, Duration(f)))
<1> DEFINE r == FailureReport(f, event, persisted, Duration(f))
<1>1. r.took = f.elapsed /\ r.limit = f.timeout_ms /\ r.result = ResultOf(event.kind)
  BY DEF FailureReport
<1>2. ResultOf(event.kind) = "TIMEOUT" <=> event.kind = "TIMEOUT"
  BY DEF ResultOf
<1> HIDE DEF r
<1>3. f.elapsed < ClockMod =>
        (TimedOut(f) <=> f.timeout_ms > 0 /\ f.elapsed > f.timeout_ms)
  BY DurationIs DEF TimedOut
<1> QED
  <2> SUFFICES Exact(r)
    BY DEF r
  <2> QED
    BY <1>1, <1>2, <1>3 DEF Exact

LEMMA SuccessReportExact ==
  ASSUME TypeOK, NEW f \in Frame, f.phase # "recovery", OnTime(f), NEW persisted, ~TimedOut(f)
  PROVE  Exact(SuccessReport(f, persisted, Duration(f)))
<1> DEFINE r == SuccessReport(f, persisted, Duration(f))
<1>1. r.took = f.elapsed /\ r.limit = f.timeout_ms /\ r.result = "OK"
  BY DEF SuccessReport
<1> HIDE DEF r
<1>2. f.elapsed < ClockMod =>
        (TimedOut(f) <=> f.timeout_ms > 0 /\ f.elapsed > f.timeout_ms)
  BY DurationIs DEF TimedOut
<1> QED
  <2> SUFFICES Exact(r)
    BY DEF r
  <2> QED
    BY <1>1, <1>2 DEF Exact

(* A run that has just begun. *)
LEMMA NewFrameOnTime ==
  ASSUME TypeOK, NEW b \in Names, NEW max_failures \in Nat, NEW timeout \in Nat
  PROVE  OnTime(NewFrame(b, max_failures, timeout))
<1> DEFINE f == NewFrame(b, max_failures, timeout)
<1>1. f.report = NoReport /\ f.last_event = NoEvent /\ f.start = now /\ f.elapsed = 0
  BY DEF NewFrame
<1>2. NoEvent.kind # "TIMEOUT"
  BY DEF NoEvent
<1>3. NoReport.result # "TIMEOUT" /\ NoReport.limit = 0
  BY DEF NoReport
<1> HIDE DEF f
<1>4. now = (f.start + f.elapsed) % ClockMod
  <2>1. now \in Nat /\ now < ClockMod /\ ClockMod \in Nat /\ ClockMod > 0
    BY GuardRunAssumption DEF TypeOK
  <2> QED
    BY <1>1, <2>1, Remainders
<1>5. Exact(NoReport)
  BY <1>3 DEF Exact
<1> QED
  BY <1>1, <1>2, <1>4, <1>5 DEF OnTime, f

(* A failed run hands its report over and leaves the runs below it alone. *)
LEMMA FailOnTime ==
  ASSUME ClockInv, NEW below \in Seq(Frame), \A i \in DOMAIN below : OnTime(below[i]),
         NEW r, Exact(r), Fail(below, r), now' = now
  PROVE  ClockInv'
<1> DEFINE g == RecoveryFrame(r)
<1>1. OnTime(g)
  BY DEF RecoveryFrame, OnTime, NoEvent
<1>2. \/ frames' = below /\ report' = r
      \/ frames' = Append(below, g) /\ report' = report
  BY DEF Fail
<1> HIDE DEF g
<1>3. /\ DOMAIN Append(below, g) = 1 .. Len(below) + 1
      /\ \A i \in 1 .. Len(below) : Append(below, g)[i] = below[i]
      /\ Append(below, g)[Len(below) + 1] = g
      /\ DOMAIN below = 1 .. Len(below) /\ Len(below) \in Nat
  OBVIOUS
<1>4. \A i \in DOMAIN frames' : OnTime(frames'[i])
  BY <1>1, <1>2, <1>3
<1>5. \A f : OnTime(f) => OnTime(f)'
  BY DEF OnTime
<1> QED
  BY <1>2, <1>4 DEF ClockInv, OnTime, Exact

LEMMA TopOnTime ==
  ASSUME TypeOK, ClockInv, frames # <<>>
  PROVE  /\ OnTime(Top) /\ Exact(Top.report)
         /\ \A i \in DOMAIN Below : OnTime(Below[i])
<1>1. Len(frames) \in DOMAIN frames /\ Len(frames) \in Nat \ {0}
  BY DEF TypeOK
<1>2. DOMAIN Below = 1 .. Len(frames) - 1
      /\ \A i \in 1 .. Len(frames) - 1 : Below[i] = frames[i]
  BY <1>1 DEF Below, TypeOK
<1> QED
  BY <1>1, <1>2 DEF ClockInv, Top, OnTime, TypeOK

(* A refusal says nothing of a timeout. *)
LEMMA RefuseOnTime ==
  ASSUME TypeOK, ClockInv, frames # <<>>, NEW w, NEW reason \in Refusals,
         Refuse(w, Below, Top, reason)
  PROVE  ClockInv'
<1> DEFINE refusal == [kind |-> "ERROR", block_name |-> Top.block_name, reason |-> reason]
<1>1. PICK persisted \in BOOLEAN :
        Fail(Below, FailureReport(Top, refusal, persisted, Duration(Top)))
  BY DEF Refuse
<1>2. Below \in Seq(Frame) /\ \A i \in DOMAIN Below : OnTime(Below[i])
  BY TopType, TopOnTime
<1>3. now' = now
  BY DEF Refuse
<1>4. refusal.reason \in Refusals
  OBVIOUS
<1> HIDE DEF refusal
<1>5. Exact(FailureReport(Top, refusal, persisted, Duration(Top)))
  BY <1>4 DEF FailureReport, Exact
<1> QED
  BY <1>1, <1>2, <1>3, <1>5, FailOnTime

(* The ends of a failed run. *)
LEMMA FailedEndOnTime ==
  ASSUME TypeOK, ClockInv, InFn, NEW w, NEW event, NEW persisted,
         event.kind = "TIMEOUT" <=> TimedOut(Top),
         Complete(w, Top.block_name, FALSE),
         Fail(Below, FailureReport(Top, event, persisted, Duration(Top)))
  PROVE  ClockInv'
<1>1. Top \in Frame /\ Below \in Seq(Frame) /\ Top.phase = "fn"
  BY TopType DEF InFn
<1>2. OnTime(Top) /\ \A i \in DOMAIN Below : OnTime(Below[i])
  BY TopOnTime DEF InFn
<1>3. Exact(FailureReport(Top, event, persisted, Duration(Top)))
  BY <1>1, <1>2, FailureReportExact
<1> QED
  BY <1>1, <1>2, <1>3, FailOnTime DEF Complete

(* The clock may wrap between two ticks: what a run has spent counts on. *)
LEMMA TickOnTime ==
  ASSUME TypeOK, ClockInv, Tick
  PROVE  ClockInv'
<1>1. ClockMod \in Nat /\ ClockMod > 0
  BY GuardRunAssumption
<1>2. ASSUME NEW i \in DOMAIN frames, frames[i].phase # "recovery"
      PROVE  now' = (frames[i].start + (frames[i].elapsed + 1)) % ClockMod
  <2> DEFINE a == frames[i].start + frames[i].elapsed
  <2>1. a \in Nat /\ frames[i].start \in Nat /\ frames[i].elapsed \in Nat
    <3>1. frames[i] \in Frame
      BY DEF TypeOK
    <3> QED
      BY <1>1, <3>1 DEF Frame
  <2>2. now = a % ClockMod /\ now' = (now + 1) % ClockMod
    BY <1>2 DEF Tick, ClockInv, OnTime
  <2>3. frames[i].start + (frames[i].elapsed + 1) = a + 1
    BY <2>1
  <2> HIDE DEF a
  <2> QED
    BY <1>1, <2>1, <2>2, <2>3, NextRemainder
<1>3. /\ DOMAIN frames' = DOMAIN frames
      /\ report' = report
      /\ \A i \in DOMAIN frames :
           frames'[i] = IF frames[i].phase = "recovery" THEN frames[i]
                        ELSE [frames[i] EXCEPT !.elapsed = @ + 1]
  BY DEF Tick
<1>4. \A i \in DOMAIN frames : frames[i] \in Frame /\ OnTime(frames[i])
  BY DEF TypeOK, ClockInv
<1>5. ASSUME NEW i \in DOMAIN frames
      PROVE  /\ frames'[i].report = frames[i].report
             /\ frames'[i].last_event = frames[i].last_event
             /\ frames'[i].phase = frames[i].phase
             /\ frames'[i].start = frames[i].start
             /\ frames[i].phase # "recovery" => frames'[i].elapsed = frames[i].elapsed + 1
  BY <1>3, <1>4 DEF Frame
<1>6. ASSUME NEW i \in DOMAIN frames'
      PROVE  /\ Exact(frames'[i].report)
             /\ frames'[i].last_event.kind # "TIMEOUT"
             /\ frames'[i].phase # "recovery" =>
                  now' = (frames'[i].start + frames'[i].elapsed) % ClockMod
  BY <1>2, <1>3, <1>4, <1>5 DEF OnTime
<1> QED
  BY <1>3, <1>6 DEF ClockInv, OnTime, Exact

(* Every step keeps the reports exact and the runs in step with the clock. *)
LEMMA StepOnTime == TypeOK /\ ClockInv /\ [Next]_vars => ClockInv'
<1> SUFFICES ASSUME TypeOK, ClockInv, [Next]_vars PROVE ClockInv'
  OBVIOUS
<1>1. CASE RunNull
  <2>1. NoReport \in Report /\ NoReport.limit = 0
    BY NoReportType DEF NoReport
  <2>2. report' = [NoReport EXCEPT !.reason = "NULL", !.result = "ERROR"]
    BY <1>1 DEF RunNull
  <2>3. report'.result = "ERROR" /\ report'.limit = 0
    BY <2>1, <2>2 DEF Report
  <2>4. Exact(report)'
    BY <2>3 DEF Exact
  <2> QED
    BY <1>1, <2>4 DEF RunNull, ClockInv, OnTime, Exact
<1>2. CASE RunQuarantined
  BY <1>2, RefuseOnTime DEF RunQuarantined, Entering, Refusals
<1>3. CASE RunBreakerOpen
  BY <1>3, RefuseOnTime DEF RunBreakerOpen, Entering, Refusals
<1>4. CASE RunAdmitted
  <2>1. /\ frames' = [frames EXCEPT ![Len(frames)] = [@ EXCEPT !.phase = "fn"]]
        /\ now' = now /\ report' = report /\ Top.phase = "entering"
        /\ Len(frames) \in DOMAIN frames
    BY <1>4 DEF RunAdmitted, Entering, TypeOK
  <2>2. ASSUME NEW f \in Frame, OnTime(f), f.phase = "entering"
        PROVE  OnTime([f EXCEPT !.phase = "fn"])
    BY <2>2 DEF OnTime, Frame
  <2>3. \A i \in DOMAIN frames : frames[i] \in Frame /\ OnTime(frames[i])
    BY DEF TypeOK, ClockInv
  <2>4. \A i \in DOMAIN frames' : OnTime(frames'[i])
    BY <2>1, <2>2, <2>3 DEF Top
  <2> QED
    BY <2>1, <2>4 DEF ClockInv, OnTime, Exact
<1>14. ASSUME NEW cfg \in Configs, RunEnters(cfg) PROVE ClockInv'
  <2> DEFINE g == NewFrame(BlockName(cfg), cfg.max_failures, cfg.timeout_ms)
  <2>1. OnTime(g)
    BY ConfigType, NewFrameOnTime
  <2>2. frames' = Append(frames, g) /\ now' = now /\ report' = report
    BY <1>14 DEF RunEnters
  <2> HIDE DEF g
  <2>3. /\ DOMAIN frames' = 1 .. Len(frames) + 1
        /\ \A i \in DOMAIN frames : frames'[i] = frames[i]
        /\ DOMAIN frames = 1 .. Len(frames) /\ Len(frames) \in Nat
        /\ frames'[Len(frames) + 1] = g
    BY <2>2 DEF TypeOK
  <2>4. \A i \in DOMAIN frames' : OnTime(frames'[i])
    BY <2>1, <2>3 DEF ClockInv
  <2> QED
    BY <2>2, <2>4 DEF ClockInv, OnTime, Exact
<1>5. CASE FnEmitBounds
  <2> DEFINE event == [kind |-> "OUT_OF_BOUNDS", block_name |-> Top.block_name,
                       reason |-> "BOUNDS"]
  <2>1. PICK persisted \in BOOLEAN :
          frames' = [frames EXCEPT ![Len(frames)] =
                       [@ EXCEPT !.last_event = event, !.persisted = persisted]]
    BY <1>5 DEF FnEmitBounds
  <2>2. now' = now /\ report' = report /\ Len(frames) \in DOMAIN frames
    BY <1>5 DEF FnEmitBounds, InFn, TypeOK
  <2>3. event.kind # "TIMEOUT"
    OBVIOUS
  <2> HIDE DEF event
  <2>4. ASSUME NEW f \in Frame, OnTime(f)
        PROVE  OnTime([f EXCEPT !.last_event = event, !.persisted = persisted])
    BY <2>3, <2>4 DEF OnTime, Frame
  <2>5. \A i \in DOMAIN frames : frames[i] \in Frame /\ OnTime(frames[i])
    BY DEF TypeOK, ClockInv
  <2>6. \A i \in DOMAIN frames' : OnTime(frames'[i])
    BY <2>1, <2>2, <2>4, <2>5
  <2> QED
    BY <2>2, <2>6 DEF ClockInv, OnTime, Exact
<1>6. CASE FnTimedOut
  <2> DEFINE event == [kind |-> "TIMEOUT", block_name |-> Top.block_name,
                       reason |-> "TIMEOUT"]
             w == Emit(World, Top.block_name, "TIMEOUT", "TIMEOUT")
  <2>1. PICK persisted \in BOOLEAN :
          Fail(Below, FailureReport(Top, event, persisted, Duration(Top)))
    BY <1>6 DEF FnTimedOut
  <2>2. /\ InFn /\ TimedOut(Top) /\ event.kind = "TIMEOUT"
        /\ Complete(w, Top.block_name, FALSE)
    BY <1>6 DEF FnTimedOut
  <2> HIDE DEF event, w
  <2> QED
    BY <2>1, <2>2, FailedEndOnTime
<1>7. CASE FnReturnOk
  <2>1. Top \in Frame /\ Top.phase = "fn" /\ OnTime(Top)
        /\ \A i \in DOMAIN Below : OnTime(Below[i])
    BY <1>7, TopType, TopOnTime DEF FnReturnOk, InFn
  <2>2. PICK persisted \in BOOLEAN :
          report' = SuccessReport(Top, persisted, Duration(Top))
    BY <1>7 DEF FnReturnOk
  <2>3. ~TimedOut(Top) /\ frames' = Below /\ now' = now
    BY <1>7 DEF FnReturnOk, Complete
  <2>4. Exact(report)'
    BY <2>1, <2>2, <2>3, SuccessReportExact DEF Exact
  <2> QED
    BY <2>1, <2>3, <2>4 DEF ClockInv, OnTime, Exact
<1>8. CASE FnReturnError
  <2> DEFINE event == [kind |-> "ERROR", block_name |-> Top.block_name,
                       reason |-> "ERROR"]
             w == Emit(World, Top.block_name, "ERROR", "ERROR")
  <2>1. PICK persisted \in BOOLEAN :
          Fail(Below, FailureReport(Top, event, persisted, Duration(Top)))
    BY <1>8 DEF FnReturnError
  <2>2. /\ InFn /\ ~TimedOut(Top) /\ event.kind # "TIMEOUT"
        /\ Complete(w, Top.block_name, FALSE)
    BY <1>8 DEF FnReturnError
  <2> HIDE DEF event, w
  <2> QED
    BY <2>1, <2>2, FailedEndOnTime
<1>9. CASE FnReturnIncident
  <2>1. Top.last_event.kind # "TIMEOUT"
    BY <1>9, TopOnTime DEF FnReturnIncident, InFn, OnTime
  <2> QED
    BY <1>9, <2>1, FailedEndOnTime DEF FnReturnIncident
<1>10. CASE RecoveryReturn
  <2>1. Exact(Top.report) /\ \A i \in DOMAIN Below : OnTime(Below[i])
    BY <1>10, TopOnTime DEF RecoveryReturn, InRecovery
  <2> QED
    BY <1>10, <2>1 DEF RecoveryReturn, ClockInv, OnTime, Exact
<1>11. CASE Tick
  BY <1>11, TickOnTime
<1>12. CASE UNCHANGED <<now, frames, report>>
  BY <1>12 DEF ClockInv, OnTime, Exact
<1>13. ASSUME SetRecoveryCallback \/ AdapterRecoveryReset \/ UNCHANGED vars
       PROVE  UNCHANGED <<now, frames, report>>
  BY <1>13 DEF SetRecoveryCallback, AdapterRecoveryReset, vars
<1> QED
  BY <1>1, <1>2, <1>3, <1>4, <1>5, <1>6, <1>7, <1>8, <1>9, <1>10, <1>11, <1>12,
     <1>13, <1>14 DEF Next

LEMMA InitOnTime == Init => ClockInv
BY DEF Init, ClockInv, Exact, NoReport

(* Up to a full turn of the uint32_t clock a run whose function was called is
   reported TIMEOUT exactly if it took longer than its limit from its read of
   start_ticks to its read of end_ticks, the emission of ENTERED and whatever ran
   inside it included. *)
THEOREM TimeoutsAreExact == Spec => []TimeoutsExact
<1>1. ClockInv => TimeoutsExact
  BY DEF ClockInv, OnTime, Exact, TimeoutsExact, Reports
<1> QED
  BY <1>1, TypeCorrect, InitOnTime, StepOnTime, PTL DEF Spec

-----------------------------------------------------------------------------
(* Failed runs and incidents, where runs do not nest.                        *)

(* What one more failed run makes of a breaker's count. *)
OneMore(c) == IF c < FailureThreshold THEN c + 1 ELSE c

(* The breaker knows of no more failed runs than the events of the block tell,
   and a run that emitted an incident has its own failure covered already. *)
Covered(failed, counts) ==
  \A n \in Names : failed[n] <= FailureThreshold /\ failed[n] <= counts[n]

CoverInv ==
  /\ Len(frames) <= 1
  /\ Covered(failedRuns, incidents)
  /\ \A i \in DOMAIN frames :
       frames[i].last_event # NoEvent =>
         OneMore(failedRuns[frames[i].block_name]) <= incidents[frames[i].block_name]

(* One incident covers one more failed run, also where the counts stop. *)
LEMMA IncidentCovers ==
  ASSUME FailureThreshold <= StreakMod,
         NEW failed \in [Names -> Nat], NEW counts \in [Names -> Nat],
         Covered(failed, counts), NEW b \in Names, NEW kind \in IncidentKinds
  PROVE  LET after == Incremented(counts, b, kind)
         IN  /\ after \in [Names -> Nat]
             /\ Covered(failed, after)
             /\ OneMore(failed[b]) <= after[b]
<1> DEFINE after == Incremented(counts, b, kind)
<1>1. after = [counts EXCEPT ![b] = IF @ < StreakMod THEN @ + 1 ELSE @]
  BY DEF Incremented, IncidentKinds
<1>2. \A n \in Names : after[n] = IF n = b THEN IF counts[b] < StreakMod THEN counts[b] + 1
                                                                        ELSE counts[b]
                                  ELSE counts[n]
  BY <1>1
<1>3. /\ FailureThreshold \in Nat \ {0} /\ StreakMod \in Nat
      /\ \A n \in Names : failed[n] \in Nat /\ counts[n] \in Nat
  BY BlockStatesAssumption, StreakAssumption
<1>4. after \in [Names -> Nat]
  BY IncrementedType
<1> HIDE DEF after
<1>5. Covered(failed, after)
  <2> SUFFICES ASSUME NEW n \in Names
               PROVE  failed[n] <= FailureThreshold /\ failed[n] <= after[n]
    BY DEF Covered
  <2>1. failed[n] <= FailureThreshold /\ failed[n] <= counts[n]
    BY DEF Covered
  <2>2. after[n] = counts[n] \/ after[n] = counts[n] + 1
    BY <1>2
  <2>3. failed[n] \in Nat /\ counts[n] \in Nat
    BY <1>3
  <2> QED
    BY <2>1, <2>2, <2>3
<1>6. OneMore(failed[b]) <= after[b]
  BY <1>2, <1>3 DEF Covered, OneMore
<1> QED
  BY <1>4, <1>5, <1>6 DEF after

(* COMPLETED and the breaker leave the incidents as the event before did. *)
LEMMA RefuseIncidents ==
  ASSUME NEW w, NEW below, NEW f, NEW reason, Refuse(w, below, f, reason)
  PROVE  incidents' = Incremented(w.incidents, f.block_name, "ERROR")
BY DEF Refuse, Becomes, Emit, Incremented, IncidentKinds

LEMMA CompleteIncidents ==
  ASSUME NEW w \in Worlds, NEW b, NEW success, Complete(w, b, success)
  PROVE  incidents' = w.incidents
<1> DEFINE w1 == [w EXCEPT !.blocks = ReportResult(@, b, success)]
<1>1. w1.incidents = w.incidents
  BY DEF Worlds
<1>2. incidents' = Emit(w1, b, "COMPLETED", "COMPLETED").incidents
  BY DEF Complete, Becomes
<1> HIDE DEF w1
<1> QED
  BY <1>1, <1>2 DEF Emit, Incremented, IncidentKinds

LEMMA LookedUpIncidents ==
  ASSUME TypeOK, NEW b
  PROVE  LookedUp(b).incidents = incidents
BY WorldType DEF LookedUp, World, Worlds

(* The only run. *)
LEMMA OnlyRun ==
  ASSUME TypeOK, CoverInv, frames # <<>>
  PROVE  Len(frames) = 1 /\ Below \in Seq(Frame) /\ Len(Below) = 0
<1> DEFINE k == Len(frames)
<1>1. frames \in Seq(Frame) /\ k \in Nat /\ k # 0 /\ k <= 1
  BY DEF TypeOK, CoverInv
<1>2. k = 1
  <2> HIDE DEF k
  <2> QED
    BY <1>1
<1>3. Below \in Seq(Frame)
  BY TopType
<1> QED
  BY <1>1, <1>2, <1>3 DEF Below

(* A failure with no run below it leaves at most its recovery callback. *)
LEMMA FailCovers ==
  ASSUME NEW below \in Seq(Frame), Len(below) = 0, NEW r, Fail(below, r)
  PROVE  /\ Len(frames') <= 1
         /\ \A i \in DOMAIN frames' : frames'[i].last_event = NoEvent
<1>1. CASE frames' = below
  BY <1>1
<1>2. CASE frames' = Append(below, RecoveryFrame(r))
  <2>1. RecoveryFrame(r).last_event = NoEvent
    BY DEF RecoveryFrame
  <2>2. DOMAIN frames' = 1 .. 1 /\ Len(frames') = 1 /\ frames'[1] = RecoveryFrame(r)
    BY <1>2
  <2> QED
    BY <2>1, <2>2
<1> QED
  BY <1>1, <1>2 DEF Fail

(* A refused run: nothing ran, one incident was emitted. *)
LEMMA RefuseCovers ==
  ASSUME FailureThreshold <= StreakMod, TypeOK, CoverInv, Entering,
         NEW w, w.incidents = incidents, NEW reason, Refuse(w, Below, Top, reason)
  PROVE  CoverInv'
<1>1. /\ incidents' = Incremented(incidents, Top.block_name, "ERROR")
      /\ failedRuns' = failedRuns /\ Top.block_name \in Names
  BY RefuseIncidents, EnteringTop DEF Refuse
<1>2. Covered(failedRuns', incidents')
  BY <1>1, IncidentCovers DEF TypeOK, CoverInv, IncidentKinds, Kinds
<1>3. Len(Below) = 0 /\ Below \in Seq(Frame)
  BY OnlyRun DEF Entering
<1>4. Len(frames') <= 1 /\ \A i \in DOMAIN frames' : frames'[i].last_event = NoEvent
  BY <1>3, FailCovers DEF Refuse
<1> QED
  BY <1>2, <1>4 DEF CoverInv, Covered

(* A failed run: its failure was covered by the event it ends with. *)
LEMMA FailedEndCovers ==
  ASSUME TypeOK, CoverInv, InFn, NEW w \in Worlds, NEW r,
         w.incidents \in [Names -> Nat], Covered(failedRuns, w.incidents),
         OneMore(failedRuns[Top.block_name]) <= w.incidents[Top.block_name],
         Complete(w, Top.block_name, FALSE), Fail(Below, r)
  PROVE  CoverInv'
<1> DEFINE b == Top.block_name
<1>1. b \in Names /\ Below \in Seq(Frame) /\ Len(Below) = 0
  BY TopType, OnlyRun DEF InFn, Frame
<1>2. incidents' = w.incidents
  BY CompleteIncidents
<1>3. failedRuns' = [failedRuns EXCEPT ![b] = OneMore(@)]
  BY DEF Complete, OneMore
<1>4. Covered(failedRuns', incidents')
  <2>1. /\ FailureThreshold \in Nat
        /\ \A n \in Names : failedRuns[n] \in Nat /\ failedRuns[n] <= FailureThreshold
    BY BlockStatesAssumption DEF TypeOK, CoverInv, Covered
  <2>2. OneMore(failedRuns[b]) <= FailureThreshold
    BY <1>1, <2>1 DEF OneMore
  <2>3. \A n \in Names : failedRuns'[n] =
          IF n = b THEN OneMore(failedRuns[b]) ELSE failedRuns[n]
    BY <1>3 DEF TypeOK
  <2> HIDE DEF b
  <2> QED
    BY <1>2, <2>2, <2>3 DEF Covered, b
<1>5. Len(frames') <= 1 /\ \A i \in DOMAIN frames' : frames'[i].last_event = NoEvent
  BY <1>1, FailCovers
<1> QED
  BY <1>4, <1>5 DEF CoverInv, Covered

(* Every step, where runs do not nest. *)
LEMMA StepCovers ==
  ASSUME MaxDepth = 1, FailureThreshold <= StreakMod
  PROVE  TypeOK /\ CoverInv /\ [Next]_vars => CoverInv'
<1> SUFFICES ASSUME TypeOK, CoverInv, [Next]_vars PROVE CoverInv'
  OBVIOUS
<1>0. failedRuns \in [Names -> Nat] /\ incidents \in [Names -> Nat]
      /\ Covered(failedRuns, incidents)
  BY DEF TypeOK, CoverInv
<1>1. CASE RunQuarantined
  BY <1>1, LookedUpIncidents, RefuseCovers DEF RunQuarantined
<1>2. CASE RunBreakerOpen
  <2> DEFINE b == Top.block_name
             w == [LookedUp(b) EXCEPT !.blocks = GetBlock(AttemptChecked(@, b), b)]
  <2>1. LookedUp(b) \in Worlds /\ Entering
    BY <1>2, EnteringTop DEF RunBreakerOpen
  <2>2. w.incidents = incidents
    BY <2>1, LookedUpIncidents DEF Worlds
  <2>3. Refuse(w, Below, Top, "BREAKER_OPEN")
    BY <1>2 DEF RunBreakerOpen
  <2> HIDE DEF w
  <2> QED
    BY <2>1, <2>2, <2>3, RefuseCovers
<1>3. CASE RunAdmitted
  <2> DEFINE b == Top.block_name
             w == [LookedUp(b) EXCEPT !.blocks = AttemptChecked(@, b)]
  <2>1. LookedUp(b) \in Worlds /\ Entering
    BY <1>3, EnteringTop DEF RunAdmitted
  <2>2. w.incidents = incidents
    BY <2>1, LookedUpIncidents DEF Worlds
  <2>3. /\ Becomes(w) /\ failedRuns' = failedRuns
        /\ frames' = [frames EXCEPT ![Len(frames)] = [@ EXCEPT !.phase = "fn"]]
    BY <1>3 DEF RunAdmitted
  <2>4. incidents' = incidents
    BY <2>2, <2>3 DEF Becomes
  <2>5. /\ DOMAIN frames' = DOMAIN frames /\ Len(frames') = Len(frames)
        /\ \A i \in DOMAIN frames : /\ frames'[i].last_event = frames[i].last_event
                                    /\ frames'[i].block_name = frames[i].block_name
    <3>1. Len(frames) \in DOMAIN frames
      BY <2>1 DEF TypeOK, Entering
    <3>2. frames[Len(frames)] \in Frame /\ frames \in Seq(Frame)
      BY <3>1 DEF TypeOK
    <3>3. frames' = [frames EXCEPT ![Len(frames)] = [frames[Len(frames)] EXCEPT !.phase = "fn"]]
      BY <2>3
    <3> DEFINE g == [frames[Len(frames)] EXCEPT !.phase = "fn"]
    <3>4. g.last_event = frames[Len(frames)].last_event
          /\ g.block_name = frames[Len(frames)].block_name
      BY <3>2 DEF Frame
    <3> HIDE DEF g
    <3>5. frames' = [frames EXCEPT ![Len(frames)] = g]
      BY <3>3 DEF g
    <3>6. DOMAIN frames' = DOMAIN frames /\ Len(frames') = Len(frames)
      BY <3>1, <3>2, <3>5
    <3> QED
      BY <3>1, <3>4, <3>5, <3>6
  <2> QED
    BY <1>0, <2>3, <2>4, <2>5 DEF CoverInv
<1>15. ASSUME NEW cfg \in Configs, RunEnters(cfg) PROVE CoverInv'
  <2> DEFINE b == BlockName(cfg)
             w == Emit(World, b, "ENTERED", "ENTERED")
             g == NewFrame(b, cfg.max_failures, cfg.timeout_ms)
  <2>1. w.incidents = incidents
    BY DEF Emit, World, Incremented, IncidentKinds
  <2>2. /\ Becomes(w) /\ failedRuns' = failedRuns /\ frames' = Append(frames, g)
        /\ Len(frames) < 1
    BY <1>15 DEF RunEnters, MayRun
  <2>3. incidents' = incidents
    BY <2>1, <2>2 DEF Becomes
  <2>4. g.last_event = NoEvent
    BY DEF NewFrame
  <2> HIDE DEF g
  <2>5. Len(frames) = 0 /\ frames \in Seq(Frame)
    BY <2>2 DEF TypeOK
  <2>6. Len(frames') = 1 /\ DOMAIN frames' = 1 .. 1 /\ frames'[1] = g
    BY <2>2, <2>5
  <2> QED
    BY <1>0, <2>2, <2>3, <2>4, <2>6 DEF CoverInv
<1>4. ASSUME InFn, NEW kind \in IncidentKinds, NEW reason \in Reasons
      PROVE  LET w == Emit(World, Top.block_name, kind, reason)
             IN  /\ Top.block_name \in Names
                 /\ w \in Worlds
                 /\ w.incidents \in [Names -> Nat] /\ Covered(failedRuns, w.incidents)
                 /\ OneMore(failedRuns[Top.block_name]) <= w.incidents[Top.block_name]
  <2>1. Top.block_name \in Names /\ kind \in Kinds
    BY <1>4, TopType DEF InFn, Frame, IncidentKinds
  <2>2. Emit(World, Top.block_name, kind, reason).incidents =
          Incremented(incidents, Top.block_name, kind)
    BY DEF Emit, World
  <2>3. Emit(World, Top.block_name, kind, reason) \in Worlds
    BY <1>4, <2>1, WorldType, EmitType
  <2> QED
    BY <1>0, <1>4, <2>1, <2>2, <2>3, IncidentCovers
<1>5. CASE FnEmitBounds
  <2> DEFINE b == Top.block_name
             event == [kind |-> "OUT_OF_BOUNDS", block_name |-> b, reason |-> "BOUNDS"]
             w == Emit(World, b, "OUT_OF_BOUNDS", "BOUNDS")
  <2>1. Covered(failedRuns, w.incidents) /\ OneMore(failedRuns[b]) <= w.incidents[b]
    BY <1>4, <1>5 DEF FnEmitBounds, IncidentKinds, Kinds, Reasons
  <2>2. incidents' = w.incidents /\ failedRuns' = failedRuns
    BY <1>5 DEF FnEmitBounds, Becomes
  <2>3. PICK persisted \in BOOLEAN :
          frames' = [frames EXCEPT ![Len(frames)] =
                       [@ EXCEPT !.last_event = event, !.persisted = persisted]]
    BY <1>5 DEF FnEmitBounds
  <2>4. Len(frames) = 1 /\ frames \in Seq(Frame) /\ frames[1] = Top /\ Top \in Frame
    <3> DEFINE k == Len(frames)
    <3>1. frames \in Seq(Frame) /\ k \in Nat /\ k # 0 /\ k <= 1
      BY <1>5 DEF FnEmitBounds, InFn, TypeOK, CoverInv
    <3>2. k = 1
      <4> HIDE DEF k
      <4> QED
        BY <3>1
    <3> QED
      BY <1>5, <3>1, <3>2, TopType DEF Top, FnEmitBounds, InFn
  <2> HIDE DEF event
  <2>5. /\ Len(frames') = 1 /\ DOMAIN frames' = 1 .. 1
        /\ frames'[1].block_name = b
    BY <2>3, <2>4 DEF Frame
  <2> HIDE DEF w
  <2> QED
    BY <2>1, <2>2, <2>5 DEF CoverInv, Covered
<1>6. CASE FnTimedOut
  <2> DEFINE w == Emit(World, Top.block_name, "TIMEOUT", "TIMEOUT")
  <2>1. InFn /\ Complete(w, Top.block_name, FALSE) /\ \E r : Fail(Below, r)
    BY <1>6 DEF FnTimedOut
  <2>2. /\ w \in Worlds /\ w.incidents \in [Names -> Nat]
        /\ Covered(failedRuns, w.incidents)
        /\ OneMore(failedRuns[Top.block_name]) <= w.incidents[Top.block_name]
    BY <1>4, <2>1 DEF IncidentKinds, Kinds, Reasons
  <2> HIDE DEF w
  <2> QED
    BY <2>1, <2>2, FailedEndCovers
<1>7. CASE FnReturnOk
  <2> DEFINE b == Top.block_name
             w == Emit(World, b, "OK", "OK")
  <2>1. b \in Names /\ Below \in Seq(Frame) /\ w \in Worlds
    BY <1>7, TopType, WorldType, EmitType DEF FnReturnOk, InFn, Frame, Kinds, Reasons
  <2>2. incidents' = [incidents EXCEPT ![b] = 0]
    <3>1. Complete(w, b, TRUE)
      BY <1>7 DEF FnReturnOk
    <3>2. w.incidents = [incidents EXCEPT ![b] = 0]
      BY DEF Emit, World, Incremented
    <3> HIDE DEF w
    <3> QED
      BY <2>1, <3>1, <3>2, CompleteIncidents
  <2>3. failedRuns' = [failedRuns EXCEPT ![b] = 0] /\ frames' = Below
    BY <1>7 DEF FnReturnOk, Complete
  <2>4. Covered(failedRuns', incidents')
    BY <1>0, <2>1, <2>2, <2>3, BlockStatesAssumption DEF Covered
  <2>5. Len(frames') = 0 /\ DOMAIN frames' = {}
    BY <1>7, <2>1, <2>3, OnlyRun DEF FnReturnOk, InFn
  <2> QED
    BY <2>4, <2>5 DEF CoverInv, Covered
<1>8. CASE FnReturnError
  <2> DEFINE w == Emit(World, Top.block_name, "ERROR", "ERROR")
  <2>1. InFn /\ Complete(w, Top.block_name, FALSE) /\ \E r : Fail(Below, r)
    BY <1>8 DEF FnReturnError
  <2>2. /\ w \in Worlds /\ w.incidents \in [Names -> Nat]
        /\ Covered(failedRuns, w.incidents)
        /\ OneMore(failedRuns[Top.block_name]) <= w.incidents[Top.block_name]
    BY <1>4, <2>1 DEF IncidentKinds, Kinds, Reasons
  <2> HIDE DEF w
  <2> QED
    BY <2>1, <2>2, FailedEndCovers
<1>9. CASE FnReturnIncident
  <2>1. InFn /\ Complete(World, Top.block_name, FALSE) /\ \E r : Fail(Below, r)
    BY <1>9 DEF FnReturnIncident
  <2>2. World \in Worlds /\ World.incidents = incidents
    BY WorldType DEF World
  <2>3. OneMore(failedRuns[Top.block_name]) <= incidents[Top.block_name]
    <3>1. Len(frames) \in DOMAIN frames
      BY <2>1 DEF InFn, TypeOK
    <3> QED
      BY <1>9, <2>1, <3>1 DEF FnReturnIncident, InFn, Top, CoverInv
  <2> QED
    BY <1>0, <2>1, <2>2, <2>3, FailedEndCovers
<1>10. CASE RecoveryReturn
  <2>1. Len(frames') = 0 /\ DOMAIN frames' = {}
    BY <1>10, OnlyRun DEF RecoveryReturn, InRecovery
  <2> QED
    BY <1>0, <1>10, <2>1 DEF CoverInv, Covered, RecoveryReturn
<1>11. CASE Tick
  <2>1. /\ DOMAIN frames' = DOMAIN frames
        /\ \A i \in DOMAIN frames :
             frames'[i] = IF frames[i].phase = "recovery" THEN frames[i]
                          ELSE [frames[i] EXCEPT !.elapsed = @ + 1]
        /\ failedRuns' = failedRuns /\ incidents' = incidents
    BY <1>11 DEF Tick
  <2>2. Len(frames') = Len(frames)
    <3>1. frames \in Seq(Frame) /\ frames' \in Seq(Frame)
      BY StepType DEF TypeOK
    <3> QED
      BY <2>1, <3>1
  <2>3. \A i \in DOMAIN frames : frames[i] \in Frame
    BY DEF TypeOK
  <2>4. \A i \in DOMAIN frames : /\ frames'[i].last_event = frames[i].last_event
                                 /\ frames'[i].block_name = frames[i].block_name
    BY <2>1, <2>3 DEF Frame
  <2> QED
    BY <1>0, <2>1, <2>2, <2>4 DEF CoverInv, Covered
<1>12. CASE AdapterRecoveryReset
  <2>1. failedRuns' = [n \in Names |-> 0] /\ UNCHANGED <<frames, incidents>>
    BY <1>12 DEF AdapterRecoveryReset
  <2>2. Covered(failedRuns', incidents')
    BY <1>0, <2>1, BlockStatesAssumption DEF Covered
  <2>3. ASSUME NEW i \in DOMAIN frames, frames[i].last_event # NoEvent
        PROVE  OneMore(failedRuns'[frames[i].block_name]) <= incidents[frames[i].block_name]
    <3> DEFINE b == frames[i].block_name
    <3>0. frames[i] \in Frame
      BY DEF TypeOK
    <3>1. b \in Names /\ OneMore(failedRuns[b]) <= incidents[b]
      BY <2>3, <3>0 DEF Frame, CoverInv
    <3>2. /\ failedRuns[b] \in Nat /\ incidents[b] \in Nat /\ failedRuns'[b] = 0
          /\ FailureThreshold \in Nat \ {0} /\ failedRuns[b] <= FailureThreshold
      BY <1>0, <2>1, <3>1, BlockStatesAssumption DEF Covered
    <3> HIDE DEF b
    <3> QED
      BY <3>1, <3>2 DEF OneMore, b
  <2> QED
    BY <2>1, <2>2, <2>3 DEF CoverInv, Covered
<1>13. CASE UNCHANGED <<frames, incidents, failedRuns>>
  BY <1>13 DEF CoverInv, Covered
<1>14. ASSUME RunNull \/ SetRecoveryCallback \/ UNCHANGED vars
       PROVE  UNCHANGED <<frames, incidents, failedRuns>>
  BY <1>14 DEF RunNull, SetRecoveryCallback, vars
<1> QED
  BY <1>1, <1>2, <1>3, <1>5, <1>6, <1>7, <1>8, <1>9, <1>10, <1>11, <1>12, <1>13,
     <1>14, <1>15 DEF Next

LEMMA InitCovers == Init => CoverInv
BY BlockStatesAssumption DEF Init, CoverInv, Covered

(* Where runs do not nest, lox_adapter_recovery_report_result_for_block never
   counts more failed runs of a block than the incidents it emitted since its
   last OK. *)
THEOREM FailedRunsLeaveIncidents ==
  ASSUME MaxDepth = 1, FailureThreshold <= StreakMod
  PROVE  Spec => []FailuresAreIncidents
<1>1. CoverInv => FailuresAreIncidents
  BY DEF CoverInv, Covered, FailuresAreIncidents
<1>2. TypeOK /\ CoverInv /\ [Next]_vars => CoverInv'
  BY StepCovers
<1> QED
  BY <1>1, <1>2, TypeCorrect, InitCovers, PTL DEF Spec

-----------------------------------------------------------------------------
(* Quarantine of an application with one block, whose name fits a slot.      *)

(* The first slot counts the incidents of b exactly, until the count may have
   wrapped. *)
Counted(w, b) ==
  IF Holds(w.streaks[0], b)
  THEN w.streaks[0].streak = w.incidents[b] \/ w.incidents[b] = StreakMod
  ELSE w.incidents[b] = 0

AloneInv(b) ==
  /\ Counted(World, b)
  /\ \A i \in DOMAIN frames :
       frames[i].phase # "recovery" => frames[i].block_name = b

(* Looking up the block's own streak loses nothing. *)
LEMMA ClaimedCounted ==
  ASSUME NEW w \in Worlds, StreaksBounded(w), NEW b \in Names, Fits(b), Counted(w, b)
  PROVE  LET s == StreakClaimed(w.streaks, b)
         IN  /\ Holds(s[0], b)
             /\ s[0].streak = w.incidents[b] \/ w.incidents[b] = StreakMod
BY ClaimedIsOwned, OwnerIsFound DEF Worlds, StreaksBounded, Counted

LEMMA EmitCounted ==
  ASSUME NEW w \in Worlds, StreaksBounded(w), NEW b \in Names, Fits(b), Counted(w, b),
         NEW kind, NEW reason
  PROVE  Counted(Emit(w, b, kind, reason), b)
<1> DEFINE t == StreakClaimed(w.streaks, b)
           s == StreakCounted(t, 0, kind)
           c == Incremented(w.incidents, b, kind)
<1>0. w.streaks \in StreakTable /\ w.incidents \in [Names -> Nat]
  BY DEF Worlds
<1>1. /\ t \in StreakTable /\ 0 \in 0 .. StreakSlots /\ t[0] \in Streak
      /\ Holds(t[0], b)
      /\ t[0].streak = w.incidents[b] \/ w.incidents[b] = StreakMod
  BY <1>0, StreakClaimedType, ClaimedCounted, StreakAssumption DEF StreakTable
<1>2. /\ Emit(w, b, kind, reason).streaks = s
      /\ Emit(w, b, kind, reason).incidents = c
  BY <1>0, FirstSlotAnswers DEF Emit, StreaksBounded
<1> HIDE DEF t
<1>3. Holds(s[0], b) /\ (s[0].streak = c[b] \/ c[b] = StreakMod)
  <2>1. CASE kind = "OK"
    <3>1. s[0] = [t[0] EXCEPT !.streak = 0] /\ c[b] = 0
      BY <1>0, <1>1, <2>1 DEF StreakCounted, StreakTable, Incremented
    <3> HIDE DEF s
    <3> QED
      BY <1>1, <3>1 DEF Streak, Holds
  <2>2. CASE kind # "OK" /\ kind \in IncidentKinds
    <3>1. s[0] = [t[0] EXCEPT !.streak = (@ + 1) % StreakMod]
      BY <1>1, <2>2 DEF StreakCounted, StreakTable
    <3>2. c[b] = IF w.incidents[b] < StreakMod THEN w.incidents[b] + 1
                                              ELSE w.incidents[b]
      BY <1>0, <2>2 DEF Incremented
    <3> HIDE DEF s, c
    <3>3. Holds(s[0], b) /\ s[0].streak = (t[0].streak + 1) % StreakMod
      BY <1>1, <3>1 DEF Streak, Holds
    <3>4. /\ t[0].streak \in Nat /\ t[0].streak < StreakMod
          /\ StreakMod \in Nat /\ w.incidents[b] \in Nat
      BY <1>0, <1>1, StreakAssumption DEF Streak
    <3>5. t[0].streak + 1 < StreakMod =>
            (t[0].streak + 1) % StreakMod = t[0].streak + 1
      BY <3>4
    <3> QED
      BY <1>1, <3>2, <3>3, <3>4, <3>5
  <2>3. CASE kind # "OK" /\ kind \notin IncidentKinds
    BY <1>1, <2>3 DEF StreakCounted, Incremented
  <2> QED
    BY <2>1, <2>2, <2>3
<1> QED
  BY <1>2, <1>3 DEF Counted

LEMMA LookedUpCounted ==
  ASSUME TypeOK, StreakInv, NEW b \in Names, Fits(b), Counted(World, b)
  PROVE  Counted(LookedUp(b), b)
<1>1. World \in Worlds /\ StreaksBounded(World)
  BY WorldType DEF StreakInv
<1>2. LookedUp(b).streaks = StreakClaimed(World.streaks, b)
      /\ LookedUp(b).incidents = World.incidents
  BY <1>1 DEF LookedUp, Worlds
<1> QED
  BY <1>1, <1>2, ClaimedCounted DEF Counted

LEMMA RefuseCounted ==
  ASSUME NEW w \in Worlds, StreaksBounded(w), NEW b \in Names, Fits(b), Counted(w, b),
         NEW below, NEW f, f.block_name = b, NEW reason \in Reasons,
         Refuse(w, below, f, reason)
  PROVE  Counted(World, b)'
<1> DEFINE w1 == Emit(w, b, "ERROR", reason)
           w2 == Emit(w1, b, "COMPLETED", "COMPLETED")
<1>1. w1 \in Worlds /\ StreaksBounded(w1) /\ Counted(w1, b)
  BY EmitType, EmitBounded, EmitCounted DEF Kinds
<1>2. Counted(w2, b)
  <2> HIDE DEF w1
  <2> QED
    BY <1>1, EmitCounted
<1>3. Becomes(w2)
  BY DEF Refuse
<1> HIDE DEF w2
<1> QED
  BY <1>2, <1>3 DEF Becomes, Counted, World, Holds

LEMMA CompleteCounted ==
  ASSUME NEW w \in Worlds, StreaksBounded(w), NEW b \in Names, Fits(b), Counted(w, b),
         NEW success \in BOOLEAN, Complete(w, b, success)
  PROVE  Counted(World, b)'
<1> DEFINE w1 == [w EXCEPT !.blocks = ReportResult(@, b, success)]
           w2 == Emit(w1, b, "COMPLETED", "COMPLETED")
<1>1. w1 \in Worlds /\ StreaksBounded(w1) /\ Counted(w1, b)
  BY ReportResultType DEF Worlds, StreaksBounded, Counted
<1>2. Counted(w2, b)
  <2> HIDE DEF w1
  <2> QED
    BY <1>1, EmitCounted
<1>3. Becomes(w2)
  BY DEF Complete
<1> HIDE DEF w2
<1> QED
  BY <1>2, <1>3 DEF Becomes, Counted, World, Holds

(* A failure adds no run. *)
LEMMA FailAlone ==
  ASSUME NEW b, NEW below \in Seq(Frame), NEW r, Fail(below, r),
         \A i \in DOMAIN below : below[i].phase # "recovery" => below[i].block_name = b
  PROVE  \A i \in DOMAIN frames' :
           frames'[i].phase # "recovery" => frames'[i].block_name = b
<1>1. CASE frames' = below
  BY <1>1
<1>2. CASE frames' = Append(below, RecoveryFrame(r))
  <2> DEFINE g == RecoveryFrame(r)
  <2>1. g.phase = "recovery"
    BY DEF RecoveryFrame
  <2> HIDE DEF g
  <2>2. /\ DOMAIN frames' = 1 .. Len(below) + 1 /\ Len(below) \in Nat
        /\ \A i \in 1 .. Len(below) : frames'[i] = below[i]
        /\ frames'[Len(below) + 1] = g
    BY <1>2 DEF g
  <2> QED
    BY <2>1, <2>2
<1> QED
  BY <1>1, <1>2 DEF Fail

LEMMA TopAlone ==
  ASSUME TypeOK, NEW b, AloneInv(b), frames # <<>>
  PROVE  /\ Top.phase # "recovery" => Top.block_name = b
         /\ \A i \in DOMAIN Below :
              Below[i].phase # "recovery" => Below[i].block_name = b
<1>1. Len(frames) \in DOMAIN frames /\ frames \in Seq(Frame) /\ Len(frames) \in Nat
  BY DEF TypeOK
<1>2. \A i \in DOMAIN Below : i \in DOMAIN frames /\ Below[i] = frames[i]
  BY <1>1 DEF Below
<1> QED
  BY <1>1, <1>2 DEF AloneInv, Top

(* Every step of an application that runs one block only. *)
LEMMA StepAlone ==
  ASSUME NEW b \in Names, Fits(b), \A cfg \in Configs : BlockName(cfg) = b
  PROVE  TypeOK /\ StreakInv /\ AloneInv(b) /\ [Next]_vars => AloneInv(b)'
<1> SUFFICES ASSUME TypeOK, StreakInv, AloneInv(b), [Next]_vars PROVE AloneInv(b)'
  OBVIOUS
<1> DEFINE RunsOf == \A i \in DOMAIN frames : frames[i].phase # "recovery" =>
                                                frames[i].block_name = b
<1>0. Counted(World, b) /\ RunsOf /\ frames \in Seq(Frame)
  BY DEF AloneInv, TypeOK
<1>1. /\ LookedUp(b) \in Worlds /\ StreaksBounded(LookedUp(b))
      /\ Counted(LookedUp(b), b)
  BY <1>0, LookedUpType, LookedUpBounded, LookedUpCounted
<1>16. ASSUME Entering
       PROVE  /\ Top.block_name = b /\ Below \in Seq(Frame)
              /\ \A i \in DOMAIN Below :
                   Below[i].phase # "recovery" => Below[i].block_name = b
  BY <1>16, EnteringTop, TopAlone
<1>2. CASE RunQuarantined
  <2>1. Refuse(LookedUp(b), Below, Top, "QUARANTINED") /\ Entering
    BY <1>2, <1>16 DEF RunQuarantined
  <2>2. Counted(World, b)'
    BY <1>1, <1>16, <2>1, RefuseCounted DEF Reasons
  <2>3. \E r : Fail(Below, r)
    BY <2>1 DEF Refuse
  <2>4. RunsOf'
    BY <1>16, <2>1, <2>3, FailAlone
  <2> QED
    BY <2>2, <2>4 DEF AloneInv
<1>3. CASE RunBreakerOpen
  <2> DEFINE e == LookedUp(b)
             t == GetBlock(AttemptChecked(e.blocks, b), b)
             w == [e EXCEPT !.blocks = t]
  <2>1. Refuse(w, Below, Top, "BREAKER_OPEN") /\ Entering
    BY <1>3, <1>16 DEF RunBreakerOpen
  <2>2. t \in BlockTable
    BY <1>1, AttemptCheckedType, GetBlockType DEF Worlds
  <2>3. w \in Worlds /\ StreaksBounded(w) /\ Counted(w, b)
    <3> HIDE DEF e, t
    <3> QED
      BY <1>1, <2>2 DEF Worlds, StreaksBounded, Counted, e
  <2> HIDE DEF w
  <2>4. Counted(World, b)'
    BY <1>16, <2>1, <2>3, RefuseCounted DEF Reasons
  <2>5. \E r : Fail(Below, r)
    BY <2>1 DEF Refuse
  <2>6. RunsOf'
    BY <1>16, <2>1, <2>5, FailAlone
  <2> QED
    BY <2>4, <2>6 DEF AloneInv
<1>4. CASE RunAdmitted
  <2> DEFINE w == [LookedUp(b) EXCEPT !.blocks = AttemptChecked(@, b)]
  <2>1. /\ Entering /\ Becomes(w)
        /\ frames' = [frames EXCEPT ![Len(frames)] = [@ EXCEPT !.phase = "fn"]]
    BY <1>4, <1>16 DEF RunAdmitted
  <2>2. Counted(w, b)
    BY <1>1 DEF Worlds, Counted
  <2> HIDE DEF w
  <2>3. Counted(World, b)'
    BY <2>1, <2>2 DEF Becomes, Counted, World, Holds
  <2>4. /\ DOMAIN frames' = DOMAIN frames
        /\ \A i \in DOMAIN frames : /\ frames'[i].block_name = frames[i].block_name
                                    /\ i # Len(frames) => frames'[i] = frames[i]
        /\ Len(frames) \in DOMAIN frames /\ frames[Len(frames)] = Top
    BY <1>0, <2>1 DEF Entering, Frame, Top
  <2>5. RunsOf'
    BY <1>0, <1>16, <2>1, <2>4
  <2> QED
    BY <2>3, <2>5 DEF AloneInv
<1>17. ASSUME NEW cfg \in Configs, RunEnters(cfg) PROVE AloneInv(b)'
  <2> DEFINE w == Emit(World, b, "ENTERED", "ENTERED")
             g == NewFrame(b, cfg.max_failures, cfg.timeout_ms)
  <2>1. Becomes(w) /\ frames' = Append(frames, g)
    BY <1>17 DEF RunEnters
  <2>2. Counted(w, b)
    BY <1>0, WorldType, EmitCounted DEF StreakInv
  <2> HIDE DEF w
  <2>3. Counted(World, b)'
    BY <2>1, <2>2 DEF Becomes, Counted, World, Holds
  <2>4. g.block_name = b
    BY DEF NewFrame
  <2> HIDE DEF g
  <2>5. /\ DOMAIN frames' = 1 .. Len(frames) + 1 /\ Len(frames) \in Nat
        /\ DOMAIN frames = 1 .. Len(frames)
        /\ \A i \in 1 .. Len(frames) : frames'[i] = frames[i]
        /\ frames'[Len(frames) + 1] = g
    BY <1>0, <2>1
  <2>6. RunsOf'
    BY <1>0, <2>4, <2>5
  <2> QED
    BY <2>3, <2>6 DEF AloneInv
<1>5. ASSUME InFn, NEW kind \in Kinds, NEW reason \in Reasons
      PROVE  LET w == Emit(World, b, kind, reason)
             IN  /\ Top.block_name = b
                 /\ w \in Worlds /\ StreaksBounded(w) /\ Counted(w, b)
  BY <1>0, <1>5, TopAlone, WorldType, EmitType, EmitBounded, EmitCounted
  DEF InFn, StreakInv
<1>6. ASSUME InFn, NEW w \in Worlds, StreaksBounded(w), Counted(w, b),
             NEW success \in BOOLEAN, Complete(w, b, success),
             frames' = Below \/ \E r : Fail(Below, r)
      PROVE  AloneInv(b)'
  <2>1. Counted(World, b)'
    BY <1>6, CompleteCounted
  <2>2. /\ Below \in Seq(Frame)
        /\ \A i \in DOMAIN Below :
             Below[i].phase # "recovery" => Below[i].block_name = b
    BY <1>6, TopType, TopAlone DEF InFn
  <2>3. RunsOf'
    BY <1>6, <2>2, FailAlone
  <2> QED
    BY <2>1, <2>3 DEF AloneInv
<1>7. CASE FnEmitBounds
  <2> DEFINE w == Emit(World, b, "OUT_OF_BOUNDS", "BOUNDS")
  <2>1. InFn /\ Top.block_name = b /\ Counted(w, b) /\ Becomes(w)
    BY <1>5, <1>7 DEF FnEmitBounds, Kinds, Reasons
  <2> HIDE DEF w
  <2>2. Counted(World, b)'
    BY <2>1 DEF Becomes, Counted, World, Holds
  <2>3. PICK event, persisted :
          frames' = [frames EXCEPT ![Len(frames)] =
                       [@ EXCEPT !.last_event = event, !.persisted = persisted]]
    BY <1>7 DEF FnEmitBounds
  <2>4. \A f \in Frame : LET g == [f EXCEPT !.last_event = event, !.persisted = persisted]
                         IN  g.phase = f.phase /\ g.block_name = f.block_name
    BY DEF Frame
  <2>5. Len(frames) \in DOMAIN frames /\ \A i \in DOMAIN frames : frames[i] \in Frame
    BY <1>0, <2>1 DEF InFn
  <2>6. DOMAIN frames' = DOMAIN frames
        /\ \A i \in DOMAIN frames : /\ frames'[i].phase = frames[i].phase
                                    /\ frames'[i].block_name = frames[i].block_name
    BY <2>3, <2>4, <2>5
  <2> QED
    BY <1>0, <2>2, <2>6 DEF AloneInv
<1>8. CASE FnTimedOut
  <2>1. /\ InFn /\ Complete(Emit(World, Top.block_name, "TIMEOUT", "TIMEOUT"),
                            Top.block_name, FALSE)
        /\ \E r : Fail(Below, r)
    BY <1>8 DEF FnTimedOut
  <2> QED
    BY <1>5, <1>6, <2>1 DEF Kinds, Reasons
<1>9. CASE FnReturnOk
  BY <1>5, <1>6, <1>9 DEF FnReturnOk, Kinds, Reasons
<1>10. CASE FnReturnError
  <2>1. /\ InFn /\ Complete(Emit(World, Top.block_name, "ERROR", "ERROR"),
                            Top.block_name, FALSE)
        /\ \E r : Fail(Below, r)
    BY <1>10 DEF FnReturnError
  <2> QED
    BY <1>5, <1>6, <2>1 DEF Kinds, Reasons
<1>11. CASE FnReturnIncident
  <2>1. InFn /\ Complete(World, Top.block_name, FALSE) /\ \E r : Fail(Below, r)
    BY <1>11 DEF FnReturnIncident
  <2>2. Top.block_name = b
    BY <2>1, TopAlone DEF InFn
  <2> QED
    BY <1>0, <1>6, <2>1, <2>2, WorldType DEF StreakInv
<1>12. CASE RecoveryReturn
  <2>1. RunsOf'
    BY <1>12, TopAlone DEF RecoveryReturn, InRecovery
  <2> QED
    BY <1>0, <1>12, <2>1 DEF AloneInv, RecoveryReturn, Counted, World, Holds
<1>13. CASE Tick
  <2>1. /\ DOMAIN frames' = DOMAIN frames
        /\ \A i \in DOMAIN frames :
             frames'[i] = IF frames[i].phase = "recovery" THEN frames[i]
                          ELSE [frames[i] EXCEPT !.elapsed = @ + 1]
        /\ streaks' = streaks /\ incidents' = incidents
    BY <1>13 DEF Tick
  <2>2. \A i \in DOMAIN frames : frames[i] \in Frame
    BY <1>0
  <2>3. \A i \in DOMAIN frames : /\ frames'[i].phase = frames[i].phase
                                 /\ frames'[i].block_name = frames[i].block_name
    BY <2>1, <2>2 DEF Frame
  <2> QED
    BY <1>0, <2>1, <2>3 DEF AloneInv, Counted, World, Holds
<1>14. CASE UNCHANGED <<streaks, incidents, frames>>
  BY <1>0, <1>14 DEF AloneInv, Counted, World, Holds
<1>15. ASSUME \/ RunNull \/ SetRecoveryCallback \/ AdapterRecoveryReset
              \/ UNCHANGED vars
       PROVE  UNCHANGED <<streaks, incidents, frames>>
  BY <1>15 DEF RunNull, SetRecoveryCallback, AdapterRecoveryReset, vars
<1> QED
  BY <1>2, <1>3, <1>4, <1>7, <1>8, <1>9, <1>10, <1>11, <1>12, <1>13, <1>14, <1>15,
     <1>17 DEF Next

(* A run is admitted on a streak that has counted every incident. *)
LEMMA AdmittedBelow ==
  ASSUME NEW b \in Names, Fits(b), TypeOK, StreakInv, AloneInv(b), RunAdmitted,
         Top.max_failures > 0
  PROVE  \/ incidents[Top.block_name] < Top.max_failures
         \/ incidents[Top.block_name] = StreakMod
<1> DEFINE w == LookedUp(b)
<1>0. Top.block_name = b /\ Top.max_failures \in Nat
  BY EnteringTop, TopAlone DEF RunAdmitted
<1>1. w \in Worlds /\ StreaksBounded(w) /\ Counted(w, b) /\ w.incidents = incidents
  BY LookedUpType, LookedUpBounded, LookedUpCounted DEF AloneInv
<1>2. ~(StreakOf(w.streaks, b) >= Top.max_failures)
  BY <1>0 DEF RunAdmitted, Quarantined
<1> HIDE DEF w
<1>3. StreakOf(w.streaks, b) = StreakClaimed(w.streaks, b)[0].streak
  BY <1>1, FirstSlotAnswers DEF StreakOf, Worlds, StreaksBounded
<1>4. StreakOf(w.streaks, b) = incidents[b] \/ incidents[b] = StreakMod
  BY <1>1, <1>3, ClaimedCounted
<1>5. incidents[b] \in Nat
  BY DEF TypeOK
<1> QED
  BY <1>0, <1>2, <1>4, <1>5

LEMMA InitAlone == ASSUME NEW b \in Names PROVE Init => AloneInv(b)
BY StreakAssumption
DEF Init, NoStreaks, UnusedStreak, AloneInv, Counted, World, Holds

(* After max_failures incidents the next call is blocked and fn is not invoked,
   in an application with one block, however deep its runs nest; with more
   blocks the run guard_quarantine_missed refutes it. *)
THEOREM QuarantineIsEnforced ==
  ASSUME NEW b \in Names, Fits(b), \A cfg \in Configs : BlockName(cfg) = b
  PROVE  Spec => QuarantineEnforced
<1>1. TypeOK /\ StreakInv /\ AloneInv(b) =>
        (RunAdmitted /\ Top.max_failures > 0
           => \/ incidents[Top.block_name] < Top.max_failures
              \/ incidents[Top.block_name] = StreakMod)
  BY AdmittedBelow
<1>2. Init => AloneInv(b)
  BY InitAlone
<1>3. TypeOK /\ StreakInv /\ AloneInv(b) /\ [Next]_vars => AloneInv(b)'
  BY StepAlone
<1> QED
  BY <1>1, <1>2, <1>3, TypeCorrect, StreaksAreBounded, PTL DEF Spec, QuarantineEnforced

-----------------------------------------------------------------------------
(* Runs with demos, ports and backends.                                     *)

(* The inductive invariant of runs and demos. *)
DemoInv == DemoTypeOK /\ StreakInv /\ CountInv

(* A world as good as the one before the step. *)
GoodWorld(w) ==
  w \in Worlds /\ StreaksBounded(w) /\ TablesAgree(w.blocks, failedRuns)

-----------------------------------------------------------------------------
(* Worlds of a demo. *)

LEMMA EmitGood ==
  ASSUME NEW w, GoodWorld(w), NEW b \in Names, NEW kind \in Kinds,
         NEW reason \in Reasons
  PROVE  GoodWorld(Emit(w, b, kind, reason))
BY EmitType, EmitBounded, EmitAgrees DEF GoodWorld

(* Clearing the box and entering. *)
LEMMA DemoEnteredGood ==
  ASSUME DemoInv, NEW b \in Names
  PROVE  GoodWorld(DemoEntered(b))
<1> DEFINE w == [World EXCEPT !.log = <<>>]
<1>1. GoodWorld(World)
  BY WorldType DEF DemoInv, DemoTypeOK, StreakInv, CountInv, Agreed, GoodWorld
<1>2. w \in Worlds
  <2>1. <<>> \in Logs
    BY CapacityAssumption DEF Logs
  <2> QED
    BY <1>1, <2>1 DEF Worlds, GoodWorld
<1>3. GoodWorld(w)
  <2>1. /\ w.streaks = World.streaks /\ w.incidents = World.incidents
        /\ w.blocks = World.blocks
    BY DEF World
  <2> HIDE DEF w
  <2> QED
    BY <1>1, <1>2, <2>1 DEF StreaksBounded, GoodWorld
<1> HIDE DEF w
<1>4. GoodWorld(Emit(w, b, "ENTERED", "ENTERED"))
  BY <1>3, EmitGood DEF Kinds, Reasons
<1> QED
  BY <1>4 DEF DemoEntered, w

(* The block states may be looked up along the way. *)
LEMMA CheckedGood ==
  ASSUME NEW w, GoodWorld(w), NEW b \in Names
  PROVE  GoodWorld([w EXCEPT !.blocks = AttemptChecked(@, b)])
<1> DEFINE t == AttemptChecked(w.blocks, b)
           v == [w EXCEPT !.blocks = t]
<1>1. t \in BlockTable /\ TablesAgree(t, failedRuns)
  BY AttemptCheckedType, OperationsAgree DEF GoodWorld, Worlds
<1> HIDE DEF t
<1>2. v \in Worlds /\ v.blocks = t /\ StreaksBounded(v)
  BY <1>1 DEF GoodWorld, Worlds, StreaksBounded
<1> HIDE DEF v
<1>3. GoodWorld(v)
  BY <1>1, <1>2 DEF GoodWorld
<1> QED
  BY <1>3 DEF v, t

(* The end of a demo that failed: its report, and a history that fits the
   frames it leaves. *)
LEMMA DemoFailsType ==
  ASSUME DemoInv, NEW b \in Names, NEW kind \in Kinds, NEW reason \in Reasons,
         DemoFails(b, kind, reason), wiped' = Len(frames)
  PROVE  /\ frames' \in Seq(Frame) /\ report' \in Report
         /\ wiped' \in 0 .. Len(frames')
<1> DEFINE f == NewFrame(b, 0, 0)
           event == [kind |-> kind, block_name |-> b, reason |-> reason]
<1>1. TypeOK /\ frames \in Seq(Frame)
  BY DEF DemoInv, DemoTypeOK, TypeOK
<1>2. f \in Frame /\ event \in Event
  BY <1>1, NewFrameType DEF Event
<1>3. PICK persisted \in BOOLEAN :
        Fail(frames, FailureReport(f, event, persisted, Duration(f)))
  BY DEF DemoFails
<1> HIDE DEF f, event
<1>4. frames' \in Seq(Frame) /\ report' \in Report
  BY <1>1, <1>2, <1>3, FailureReportType, FailType
<1>5. Len(frames') >= Len(frames)
  BY <1>1, <1>3 DEF Fail
<1> QED
  BY <1>1, <1>4, <1>5

-----------------------------------------------------------------------------
(* The steps. *)

LEMMA DemoStep ==
  ASSUME DemoInv, NEW b \in Names, NEW kind \in Kinds, NEW reason \in Reasons,
         Demo(b, kind, reason)
  PROVE  DemoInv'
<1> DEFINE w1 == Emit(DemoEntered(b), b, kind, reason)
           w2 == Emit(w1, b, "COMPLETED", "COMPLETED")
<1>1. GoodWorld(w1)
  BY DemoEnteredGood, EmitGood
<1>2. GoodWorld(w2) /\ Agreed(w2, failedRuns)
  <2> HIDE DEF w1
  <2> QED
    BY <1>1, EmitGood, EmitAgreed DEF Kinds, Reasons, GoodWorld
<1>3. /\ Becomes(w2) /\ DemoFails(b, kind, reason)
      /\ wiped' = Len(frames) /\ UNCHANGED <<now, callback, failedRuns, port>>
  BY DEF Demo
<1> HIDE DEF w2
<1>4. TypeOK'
  BY <1>2, <1>3, BecomesType, DemoFailsType DEF GoodWorld, DemoInv, DemoTypeOK, TypeOK
<1>5. StreakInv' /\ CountInv'
  BY <1>2, <1>3, BecomesBounded, BecomesAgreed DEF GoodWorld
<1> QED
  BY <1>3, <1>4, <1>5, DemoFailsType DEF DemoInv, DemoTypeOK

LEMMA TaskNameType ==
  ASSUME NEW task \in TaskNames, NEW default \in Names
  PROVE  TaskName(task, default) \in Names
BY GuardDemosAssumption DEF TaskName

LEMMA ParserRefusedStep == DemoInv /\ ParserRefused => DemoInv'
<1> SUFFICES ASSUME DemoInv, ParserRefused PROVE DemoInv'
  OBVIOUS
<1> DEFINE w == [DemoEntered(ParserName) EXCEPT !.blocks = AttemptChecked(@, ParserName)]
           f == NewFrame(ParserName, 0, 0)
<1>1. /\ ParserName \in Names /\ TypeOK
      /\ f \in Frame /\ frames \in Seq(Frame)
  BY GuardDemosAssumption, NewFrameType DEF DemoInv, DemoTypeOK, TypeOK
<1>2. GoodWorld(w)
  BY <1>1, DemoEnteredGood, CheckedGood
<1>3. /\ Refuse(w, frames, f, "BREAKER_OPEN")
      /\ wiped' = Len(frames) /\ UNCHANGED port
  BY DEF ParserRefused
<1> HIDE DEF w, f
<1>4. TypeOK' /\ StreakInv' /\ CountInv'
  BY <1>1, <1>2, <1>3, RefuseType, RefuseBounded, RefuseAgreed DEF GoodWorld, Reasons
<1>5. Len(frames') >= Len(frames)
  BY <1>1, <1>3 DEF Refuse, Fail, TypeOK
<1> QED
  BY <1>1, <1>3, <1>4, <1>5 DEF DemoInv, DemoTypeOK, TypeOK

LEMMA ParserAdmittedGood ==
  ASSUME DemoInv
  PROVE  GoodWorld(ParserAdmitted)
BY DemoEnteredGood, CheckedGood, GuardDemosAssumption DEF ParserAdmitted

LEMMA ParserOkStep == DemoInv /\ ParserOk => DemoInv'
<1> SUFFICES ASSUME DemoInv, ParserOk PROVE DemoInv'
  OBVIOUS
<1> DEFINE w == Emit(ParserAdmitted, ParserName, "OK", "OK")
           f == NewFrame(ParserName, 0, 0)
<1>1. ParserName \in Names /\ TypeOK /\ f \in Frame
  BY GuardDemosAssumption, NewFrameType DEF DemoInv, DemoTypeOK
<1>2. GoodWorld(w)
  BY <1>1, ParserAdmittedGood, EmitGood DEF Kinds, Reasons
<1>3. /\ Complete(w, ParserName, TRUE) /\ UNCHANGED <<frames, port>>
      /\ wiped' = Len(frames)
      /\ \E persisted \in BOOLEAN : report' = SuccessReport(f, persisted, Duration(f))
  BY DEF ParserOk
<1> HIDE DEF w, f
<1>4. frames' \in Seq(Frame) /\ report' \in Report
  BY <1>1, <1>3, SuccessReportType DEF TypeOK
<1>5. TypeOK' /\ StreakInv' /\ CountInv'
  BY <1>1, <1>2, <1>3, <1>4, CompleteType, CompleteBounded, CompleteAgreed DEF GoodWorld
<1> QED
  BY <1>3, <1>4, <1>5 DEF DemoInv, DemoTypeOK

LEMMA ParserFailedStep == DemoInv /\ ParserFailed => DemoInv'
<1> SUFFICES ASSUME DemoInv, NEW incident \in ParserIncidents,
                    Complete(Emit(ParserAdmitted, ParserName, incident[1], incident[2]),
                             ParserName, FALSE),
                    DemoFails(ParserName, incident[1], incident[2]),
                    wiped' = Len(frames), UNCHANGED port
             PROVE  DemoInv'
  BY DEF ParserFailed
<1> DEFINE w == Emit(ParserAdmitted, ParserName, incident[1], incident[2])
<1>1. ParserName \in Names /\ TypeOK
  BY GuardDemosAssumption DEF DemoInv, DemoTypeOK
<1>2. incident[1] \in Kinds /\ incident[2] \in Reasons
  BY DEF ParserIncidents, Kinds, Reasons
<1>3. GoodWorld(w)
  BY <1>1, <1>2, ParserAdmittedGood, EmitGood
<1>4. /\ frames' \in Seq(Frame) /\ report' \in Report
      /\ wiped' \in 0 .. Len(frames')
  BY <1>1, <1>2, DemoFailsType
<1>5. Complete(w, ParserName, FALSE)
  OBVIOUS
<1> HIDE DEF w
<1>6. TypeOK' /\ StreakInv' /\ CountInv'
  BY <1>1, <1>3, <1>4, <1>5, CompleteType, CompleteBounded, CompleteAgreed DEF GoodWorld
<1> QED
  BY <1>4, <1>6 DEF DemoInv, DemoTypeOK

LEMMA BackendStep == DemoInv /\ BackendReport => DemoInv'
<1> SUFFICES ASSUME DemoInv, BackendReport PROVE DemoInv'
  OBVIOUS
<1>1. PICK b \in Names, event \in {<<"TIMEOUT", "RTOS_TIMEOUT">>,
                                   <<"MEMORY_FAULT", "MPU_FAULT">>} :
        log' = Stored(log, [kind |-> event[1], block_name |-> b, reason |-> event[2]])
  BY DEF BackendReport
<1>2. [kind |-> event[1], block_name |-> b, reason |-> event[2]] \in Event
  BY DEF Event, Kinds, Reasons
<1>3. log' \in Logs
  BY <1>1, <1>2, StoredType DEF DemoInv, DemoTypeOK, TypeOK, Logs
<1>4. UNCHANGED <<streaks, blocks, now, callback, frames, report, incidents,
                  failedRuns, port, wiped>>
  BY DEF BackendReport
<1>5. TypeOK'
  BY <1>3, <1>4 DEF DemoInv, DemoTypeOK, TypeOK, Logs
<1>6. StreakInv'
  BY <1>4 DEF DemoInv, StreakInv, StreaksBounded, World, OnlyFirstSlot,
              FirstSlotBounded, Holds
<1>7. CountInv'
  BY <1>4 DEF DemoInv, CountInv, Agreed, World, TablesAgree, OneSlotEach, BreakersCount,
              WorldHealth, HealthShown, Settled, Found, Unused, Holds, Counts
<1> QED
  BY <1>4, <1>5, <1>6, <1>7 DEF DemoInv, DemoTypeOK

LEMMA DemoNextStep == DemoInv /\ [DemoNext]_demoVars => DemoInv'
<1> SUFFICES ASSUME DemoInv, [DemoNext]_demoVars PROVE DemoInv'
  OBVIOUS
<1>1. CASE GuardStep
  <2>1. TypeOK' /\ StreakInv' /\ CountInv'
    BY <1>1, StepType, StepBounded, StepAgreed DEF GuardStep, DemoInv, DemoTypeOK
  <2>2. Len(frames') \in Nat /\ wiped \in Nat
    BY <2>1 DEF TypeOK, DemoInv, DemoTypeOK
  <2>3. wiped' = (IF wiped > Len(frames') THEN Len(frames') ELSE wiped) /\ port' = port
    BY <1>1 DEF GuardStep
  <2>4. wiped' \in 0 .. Len(frames')
    BY <2>2, <2>3
  <2> QED
    BY <2>1, <2>3, <2>4 DEF DemoInv, DemoTypeOK
<1>2. CASE TimeoutDemo \/ PanicDemo \/ FaultDemo
  BY <1>2, DemoStep, GuardDemosAssumption
  DEF TimeoutDemo, PanicDemo, FaultDemo, Kinds, Reasons
<1>3. CASE RtosDemo
  BY <1>3, DemoStep, TaskNameType, GuardDemosAssumption DEF RtosDemo, Kinds, Reasons
<1>4. CASE MpuDemo
  BY <1>4, DemoStep, TaskNameType, GuardDemosAssumption DEF MpuDemo, Kinds, Reasons
<1>5. CASE SetPort \/ UNCHANGED demoVars
  <2>1. UNCHANGED <<vars, wiped>> /\ port' \in Ports
    BY <1>5 DEF SetPort, demoVars, DemoInv, DemoTypeOK
  <2>2. TypeOK' /\ StreakInv' /\ CountInv'
    BY <2>1, StepType, StepBounded, StepAgreed DEF DemoInv, DemoTypeOK
  <2>3. frames' = frames
    BY <2>1 DEF vars
  <2> QED
    BY <2>1, <2>2, <2>3 DEF DemoInv, DemoTypeOK
<1> QED
  BY <1>1, <1>2, <1>3, <1>4, <1>5, ParserRefusedStep, ParserOkStep,
     ParserFailedStep, BackendStep DEF DemoNext

LEMMA DemoInitInv == DemoInit => DemoInv
<1>1. DemoInit => TypeOK /\ StreakInv /\ CountInv
  BY InitType, InitBounded, InitAgreed DEF DemoInit
<1>2. DemoInit => wiped \in 0 .. Len(frames) /\ port \in Ports
  BY DEF DemoInit, Init, Ports
<1> QED
  BY <1>1, <1>2 DEF DemoInv, DemoTypeOK

-----------------------------------------------------------------------------
(* Positions. *)

LEMMA AfterType ==
  ASSUME NEW S \in SUBSET Int, IsFiniteSet(S), NEW p \in Int
  PROVE  IsFiniteSet({q \in S : q > p}) /\ After(S, p) \in Nat
<1>1. IsFiniteSet({q \in S : q > p})
  BY FS_Subset
<1> QED
  BY <1>1, FS_CardinalityType DEF After

LEMMA AfterAdded ==
  ASSUME NEW S \in SUBSET Int, IsFiniteSet(S), NEW top \in Int,
         \A q \in S : q < top
  PROVE  /\ \A p \in S : After(S \cup {top}, p) = After(S, p) + 1
         /\ After(S \cup {top}, top) = 0
<1>1. \A q \in S : q \in Int /\ q < top /\ ~ (q > top)
  OBVIOUS
<1>2. ASSUME NEW p \in S
      PROVE  After(S \cup {top}, p) = After(S, p) + 1
  <2> DEFINE B == {q \in S : q > p}
  <2>1. top > p /\ top \notin B
    BY <1>1
  <2>2. {q \in S \cup {top} : q > p} = B \cup {top}
    BY <2>1
  <2>3. IsFiniteSet(B)
    BY FS_Subset
  <2> HIDE DEF B
  <2>4. Cardinality(B \cup {top}) = Cardinality(B) + 1
    BY <2>1, <2>3, FS_AddElement
  <2> QED
    BY <2>2, <2>4 DEF After, B
<1>3. {q \in S \cup {top} : q > top} = {}
  <2>1. ~ (top > top)
    OBVIOUS
  <2> QED
    BY <1>1, <2>1
<1> QED
  BY <1>2, <1>3, FS_EmptySet DEF After

LEMMA AfterRemoved ==
  ASSUME NEW S \in SUBSET Int, IsFiniteSet(S), NEW top \in S,
         \A q \in S : q <= top
  PROVE  \A p \in S \ {top} : After(S \ {top}, p) = After(S, p) - 1
<1> SUFFICES ASSUME NEW p \in S \ {top}
             PROVE  After(S \ {top}, p) = After(S, p) - 1
  OBVIOUS
<1> DEFINE B == {q \in S : q > p}
<1>1. top > p /\ top \in B
  <2>1. p \in Int /\ top \in Int /\ p <= top /\ p # top
    OBVIOUS
  <2> QED
    BY <2>1
<1>2. {q \in S \ {top} : q > p} = B \ {top}
  OBVIOUS
<1>3. IsFiniteSet(B)
  BY FS_Subset
<1> HIDE DEF B
<1>4. Cardinality(B \ {top}) = Cardinality(B) - 1
  BY <1>1, <1>3, FS_RemoveElement
<1> QED
  BY <1>2, <1>4 DEF After, B

LEMMA AfterNone ==
  ASSUME NEW S \in SUBSET Int, IsFiniteSet(S), NEW top \in S,
         \A q \in S : q <= top
  PROVE  \A p \in S : After(S, p) = 0 <=> p = top
<1> SUFFICES ASSUME NEW p \in S PROVE After(S, p) = 0 <=> p = top
  OBVIOUS
<1> DEFINE B == {q \in S : q > p}
<1>1. p \in Int /\ top \in Int /\ p <= top /\ \A q \in S : q \in Int /\ q <= top
  OBVIOUS
<1>2. p # top => top \in B
  BY <1>1
<1>3. p = top => \A q \in S : ~ (q > p)
  BY <1>1
<1>4. p = top => B = {}
  BY <1>3
<1>5. IsFiniteSet(B)
  BY FS_Subset
<1> HIDE DEF B
<1>6. Cardinality(B) = 0 <=> p = top
  BY <1>2, <1>4, <1>5, FS_EmptySet
<1> QED
  BY <1>6 DEF After, B

LEMMA Greatest ==
  ASSUME NEW n \in Nat, NEW S \in SUBSET (1 .. n), S # {}
  PROVE  \E top \in S : \A q \in S : q <= top
<1> DEFINE T == {m \in Nat : \E q \in S : m = n - q}
<1>1. T # {}
  <2>1. PICK q \in S : q \in 1 .. n
    OBVIOUS
  <2>2. n - q \in Nat
    BY <2>1
  <2> QED
    BY <2>2
<1>2. T \in SUBSET Nat
  OBVIOUS
<1> HIDE DEF T
<1>3. PICK m \in T : \A x \in T : m <= x
  BY <1>1, <1>2, MinIsLeast
<1>4. PICK top \in S : m = n - top
  BY <1>3 DEF T
<1>5. ASSUME NEW q \in S PROVE q <= top
  <2>1. n - q \in T
    BY DEF T
  <2>2. n - top <= n - q
    BY <1>3, <1>4, <2>1
  <2>3. q \in Int /\ top \in Int
    OBVIOUS
  <2> QED
    BY <2>2, <2>3
<1> QED
  BY <1>5

(* Moving all positions down by one. *)
Lowered(S) == {q \in Int : q + 1 \in S}

LEMMA LoweredCardinality ==
  ASSUME NEW S \in SUBSET Int, IsFiniteSet(S)
  PROVE  IsFiniteSet(Lowered(S)) /\ Cardinality(Lowered(S)) = Cardinality(S)
<1> DEFINE f == [q \in S |-> q - 1]
<1>1. f \in Bijection(S, Lowered(S))
  <2>1. f \in [S -> Lowered(S)]
    BY DEF Lowered
  <2>2. \A q \in Lowered(S) : q + 1 \in S /\ f[q + 1] = q
    BY DEF Lowered
  <2>3. \A a, b \in S : f[a] = f[b] => a = b
    <3> SUFFICES ASSUME NEW a \in S, NEW b \in S, a - 1 = b - 1 PROVE a = b
      OBVIOUS
    <3>1. a \in Int /\ b \in Int
      OBVIOUS
    <3> QED
      BY <3>1
  <2>4. f \in Injection(S, Lowered(S))
    <3> HIDE DEF f
    <3> QED
      BY <2>1, <2>3 DEF Injection, IsInjective
  <2>5. f \in Surjection(S, Lowered(S))
    <3>1. \A q \in Lowered(S) : \E a \in S : f[a] = q
      BY <2>2
    <3> HIDE DEF f
    <3> QED
      BY <2>1, <3>1 DEF Surjection
  <2> QED
    BY <2>4, <2>5 DEF Bijection
<1>2. ExistsBijection(S, Lowered(S))
  BY <1>1 DEF ExistsBijection
<1> QED
  BY <1>2, FS_Bijection

LEMMA AfterLowered ==
  ASSUME NEW S \in SUBSET Int, IsFiniteSet(S), NEW p \in Int
  PROVE  After(Lowered(S), p) = After(S, p + 1)
<1> DEFINE R == {q \in S : q > p + 1}
<1>1. {q \in Lowered(S) : q > p} = Lowered(R)
  BY DEF Lowered
<1>2. IsFiniteSet(R) /\ R \in SUBSET Int
  BY FS_Subset
<1> HIDE DEF R
<1>3. Cardinality(Lowered(R)) = Cardinality(R)
  BY <1>2, LoweredCardinality
<1> QED
  BY <1>1, <1>3 DEF After, R

-----------------------------------------------------------------------------
(* Brackets in a log. *)

Balance(l, i, j) == EventsIn(l, i, j, "ENTERED") - EventsIn(l, i, j, "COMPLETED")

LEMMA EventsInType ==
  ASSUME NEW l, NEW i \in Int, NEW j \in Int, NEW kind
  PROVE  /\ IsFiniteSet({k \in i .. j : l[k].kind = kind})
         /\ EventsIn(l, i, j, kind) \in Nat
         /\ EventsIn(l, i, j, kind) > 0 <=> \E k \in i .. j : l[k].kind = kind
<1> DEFINE B == {k \in i .. j : l[k].kind = kind}
<1>1. IsFiniteSet(B)
  BY FS_Interval, FS_Subset
<1>2. B # {} <=> \E k \in i .. j : l[k].kind = kind
  OBVIOUS
<1> HIDE DEF B
<1>3. Cardinality(B) \in Nat /\ (Cardinality(B) = 0 <=> B = {})
  BY <1>1, FS_CardinalityType, FS_EmptySet
<1> QED
  BY <1>1, <1>2, <1>3 DEF EventsIn, B

(* The count up to one more event. *)
LEMMA EventsInNext ==
  ASSUME NEW l, NEW i \in Int, NEW n \in Int, i <= n + 1, NEW kind
  PROVE  EventsIn(l, i, n + 1, kind) =
           EventsIn(l, i, n, kind) + (IF l[n + 1].kind = kind THEN 1 ELSE 0)
<1> DEFINE B == {k \in i .. n : l[k].kind = kind}
           C == {k \in i .. (n + 1) : l[k].kind = kind}
<1>1. \A k : k \in i .. (n + 1) <=> k \in i .. n \/ k = n + 1
  OBVIOUS
<1>2. C = IF l[n + 1].kind = kind THEN B \cup {n + 1} ELSE B
  BY <1>1
<1>3. n + 1 \notin B
  OBVIOUS
<1>4. IsFiniteSet(B) /\ EventsIn(l, i, n, kind) \in Nat
  BY EventsInType
<1>5. EventsIn(l, i, n, kind) = Cardinality(B) /\ EventsIn(l, i, n + 1, kind) = Cardinality(C)
  BY DEF EventsIn
<1> HIDE DEF B, C
<1>6. Cardinality(B \cup {n + 1}) = Cardinality(B) + 1
  BY <1>3, <1>4, FS_AddElement
<1> QED
  BY <1>2, <1>4, <1>5, <1>6

LEMMA OpenEntriesType ==
  ASSUME NEW l \in Seq(Event)
  PROVE  /\ OpenEntries(l) \in SUBSET (1 .. Len(l))
         /\ OpenEntries(l) \in SUBSET Int /\ IsFiniteSet(OpenEntries(l))
         /\ \A i \in OpenEntries(l) : l[i].kind = "ENTERED"
<1>1. Len(l) \in Nat /\ DOMAIN l = 1 .. Len(l)
  OBVIOUS
<1>2. OpenEntries(l) \in SUBSET (1 .. Len(l))
  BY <1>1 DEF OpenEntries
<1>3. IsFiniteSet(OpenEntries(l))
  <2>1. IsFiniteSet(1 .. Len(l))
    BY <1>1, FS_Interval
  <2> QED
    BY <1>2, <2>1, FS_Subset
<1>4. OpenEntries(l) \in SUBSET Int
  BY <1>1, <1>2
<1>5. ASSUME NEW i \in OpenEntries(l)
      PROVE  l[i].kind = "ENTERED"
  <2>1. i \in 1 .. Len(l) /\ i \in i .. Len(l) /\ i \in Int
    BY <1>1, <1>2
  <2>2. EventsIn(l, i, i, "ENTERED") > EventsIn(l, i, i, "COMPLETED")
    BY <2>1 DEF OpenEntries
  <2>3. EventsIn(l, i, i, "ENTERED") \in Nat /\ EventsIn(l, i, i, "COMPLETED") \in Nat
    BY <2>1, EventsInType
  <2>4. EventsIn(l, i, i, "ENTERED") > 0
    BY <2>2, <2>3
  <2>5. \E k \in i .. i : l[k].kind = "ENTERED"
    BY <2>1, <2>4, EventsInType
  <2> QED
    BY <2>1, <2>5
<1> QED
  BY <1>2, <1>3, <1>4, <1>5

(* What one more event does to the balance and to the open entries. *)
Weight(e) == (IF e.kind = "ENTERED" THEN 1 ELSE 0) - (IF e.kind = "COMPLETED" THEN 1 ELSE 0)

LEMMA WeightIs ==
  ASSUME NEW e
  PROVE  /\ Weight(e) \in Int
         /\ e.kind = "ENTERED" => Weight(e) = 1
         /\ e.kind = "COMPLETED" => Weight(e) = -1
         /\ e.kind \notin {"ENTERED", "COMPLETED"} => Weight(e) = 0
BY DEF Weight

LEMMA BalanceType ==
  ASSUME NEW l, NEW i \in Int, NEW j \in Int
  PROVE  /\ Balance(l, i, j) \in Int
         /\ Balance(l, i, j) > 0 <=>
              EventsIn(l, i, j, "ENTERED") > EventsIn(l, i, j, "COMPLETED")
<1>1. EventsIn(l, i, j, "ENTERED") \in Nat /\ EventsIn(l, i, j, "COMPLETED") \in Nat
  BY EventsInType
<1> QED
  BY <1>1 DEF Balance

LEMMA BalanceNext ==
  ASSUME NEW l, NEW i \in Int, NEW n \in Int, i <= n + 1
  PROVE  Balance(l, i, n + 1) = Balance(l, i, n) + Weight(l[n + 1])
<1>1. \A kind : EventsIn(l, i, n + 1, kind) =
                  EventsIn(l, i, n, kind) + (IF l[n + 1].kind = kind THEN 1 ELSE 0)
  BY EventsInNext
<1>2. \A kind : EventsIn(l, i, n, kind) \in Nat
  BY EventsInType
<1> DEFINE a == EventsIn(l, i, n, "ENTERED")
           b == EventsIn(l, i, n, "COMPLETED")
           x == IF l[n + 1].kind = "ENTERED" THEN 1 ELSE 0
           y == IF l[n + 1].kind = "COMPLETED" THEN 1 ELSE 0
<1>3. a \in Nat /\ b \in Nat /\ x \in Nat /\ y \in Nat
  BY <1>2
<1>4. Balance(l, i, n + 1) = (a + x) - (b + y)
  BY <1>1 DEF Balance
<1>5. Balance(l, i, n) = a - b /\ Weight(l[n + 1]) = x - y
  BY DEF Balance, Weight
<1> HIDE DEF a, b, x, y
<1> QED
  BY <1>3, <1>4, <1>5

LEMMA BalanceNone ==
  ASSUME NEW l, NEW n \in Int
  PROVE  Balance(l, n + 1, n) = 0
<1>1. \A k : k \notin (n + 1) .. n
  OBVIOUS
<1>2. \A kind : {k \in (n + 1) .. n : l[k].kind = kind} = {}
  BY <1>1
<1>3. \A kind : EventsIn(l, n + 1, n, kind) = 0
  BY <1>2, FS_EmptySet DEF EventsIn
<1> QED
  BY <1>3 DEF Balance

LEMMA OpenEntriesIs ==
  ASSUME NEW l \in Seq(Event)
  PROVE  \A i : i \in OpenEntries(l) <=> /\ i \in 1 .. Len(l)
                                   /\ \A j \in i .. Len(l) : Balance(l, i, j) > 0
<1>1. DOMAIN l = 1 .. Len(l) /\ Len(l) \in Nat
  OBVIOUS
<1>2. \A i \in 1 .. Len(l) : \A j \in i .. Len(l) :
        Balance(l, i, j) > 0 <=>
          EventsIn(l, i, j, "ENTERED") > EventsIn(l, i, j, "COMPLETED")
  BY <1>1, BalanceType
<1> QED
  BY <1>1, <1>2 DEF OpenEntries
(* m is l, n long, with one event more of this weight. *)
Weighed(l, m, n, weight) ==
  /\ \A i \in 1 .. n :
       i \in OpenEntries(m) <=> i \in OpenEntries(l) /\ Balance(l, i, n) + weight > 0
  /\ n + 1 \in OpenEntries(m) <=> weight > 0
  /\ \A i \in 1 .. n : Balance(m, i, n + 1) = Balance(l, i, n) + weight
  /\ Balance(m, n + 1, n + 1) = weight
  /\ OpenEntries(m) \in SUBSET (1 .. n + 1)

LEMMA OpenAppended ==
  ASSUME NEW l \in Seq(Event), NEW e \in Event, NEW n, n = Len(l),
         NEW m, m = Append(l, e)
  PROVE  Weighed(l, m, n, Weight(e))
<1>1. /\ n \in Nat /\ Len(m) = n + 1 /\ m \in Seq(Event) /\ m[n + 1] = e
      /\ \A k \in 1 .. n : m[k] = l[k]
  OBVIOUS
<1>2. \A i \in 1 .. n : \A j \in i .. n : Balance(m, i, j) = Balance(l, i, j)
  <2> SUFFICES ASSUME NEW i \in 1 .. n, NEW j \in i .. n
               PROVE  Balance(m, i, j) = Balance(l, i, j)
    OBVIOUS
  <2>1. i \in Int /\ j \in Int /\ \A k \in i .. j : m[k] = l[k]
    BY <1>1
  <2>2. \A kind : EventsIn(m, i, j, kind) = EventsIn(l, i, j, kind)
    <3>1. \A kind : {k \in i .. j : m[k].kind = kind} = {k \in i .. j : l[k].kind = kind}
      BY <2>1
    <3> QED
      BY <3>1 DEF EventsIn
  <2> QED
    BY <2>2 DEF Balance
<1>3. \A i \in 1 .. n : Balance(m, i, n + 1) = Balance(l, i, n) + Weight(e)
  <2> SUFFICES ASSUME NEW i \in 1 .. n
               PROVE  Balance(m, i, n + 1) = Balance(l, i, n) + Weight(e)
    OBVIOUS
  <2>1. i \in Int /\ n \in Int /\ i <= n + 1 /\ n \in i .. n
    BY <1>1
  <2>2. Balance(m, i, n) = Balance(l, i, n)
    BY <1>2, <2>1
  <2>3. Balance(m, i, n + 1) = Balance(m, i, n) + Weight(m[n + 1])
    BY <2>1, BalanceNext
  <2> QED
    BY <1>1, <2>2, <2>3
<1>4. Balance(m, n + 1, n + 1) = Weight(e)
  <2>1. Balance(m, n + 1, n) = 0 /\ n \in Int /\ n + 1 \in Int /\ n + 1 <= n + 1
    BY <1>1, BalanceNone
  <2>2. Balance(m, n + 1, n + 1) = Balance(m, n + 1, n) + Weight(m[n + 1])
    BY <2>1, BalanceNext
  <2>3. Weight(e) \in Int
    BY WeightIs
  <2> QED
    BY <1>1, <2>1, <2>2, <2>3
<1>5. \A i : i \in OpenEntries(m) <=> /\ i \in 1 .. Len(m)
                                /\ \A j \in i .. Len(m) : Balance(m, i, j) > 0
  BY <1>1, OpenEntriesIs
<1>6. ASSUME NEW i \in 1 .. n
      PROVE  i \in OpenEntries(m) <=> i \in OpenEntries(l) /\ Balance(l, i, n) + Weight(e) > 0
  <2>1. i \in 1 .. Len(m) /\ i \in 1 .. Len(l)
    BY <1>1
  <2>2. \A j : j \in i .. Len(m) <=> j \in i .. n \/ j = n + 1
    BY <1>1
  <2>3. i \in OpenEntries(m) <=> \A j \in i .. Len(m) : Balance(m, i, j) > 0
    BY <1>1, <1>5, <2>1
  <2>4. i \in OpenEntries(l) <=> \A j \in i .. n : Balance(l, i, j) > 0
    BY <1>1, <2>1, OpenEntriesIs
  <2>5. i \in OpenEntries(m) <=>
          (\A j \in i .. n : Balance(m, i, j) > 0) /\ Balance(m, i, n + 1) > 0
    BY <2>2, <2>3
  <2> QED
    BY <1>2, <1>3, <2>4, <2>5
<1>7. n + 1 \in OpenEntries(m) <=> Weight(e) > 0
  <2>1. \A j : j \in (n + 1) .. Len(m) <=> j = n + 1
    BY <1>1
  <2>2. n + 1 \in 1 .. Len(m)
    BY <1>1
  <2>3. n + 1 \in OpenEntries(m) <=> \A j \in (n + 1) .. Len(m) : Balance(m, n + 1, j) > 0
    BY <1>1, <1>5, <2>2
  <2> QED
    BY <1>4, <2>1, <2>3
<1>8. OpenEntries(m) \in SUBSET (1 .. n + 1)
  BY <1>1, OpenEntriesType
<1> QED
  BY <1>3, <1>4, <1>6, <1>7, <1>8 DEF Weighed

(* The open entries of a log are the newest of the positions in S, in the same
   order and with the names nm gives them. *)
Bracketed(l, S, nm) ==
  /\ S \in SUBSET Int /\ IsFiniteSet(S)
  /\ Cardinality(OpenEntries(l)) <= Cardinality(S)
  /\ \A i \in OpenEntries(l) :
       /\ Balance(l, i, Len(l)) = After(OpenEntries(l), i) + 1
       /\ \E p \in S : After(S, p) = After(OpenEntries(l), i) /\ nm[p] = l[i].block_name

(* None is missing. *)
NoneMissing(l, S) == Cardinality(OpenEntries(l)) = Cardinality(S)

LEMMA OtherKeeps ==
  ASSUME NEW l \in Seq(Event), NEW e \in Event, e.kind \notin {"ENTERED", "COMPLETED"},
         NEW S, NEW nm, Bracketed(l, S, nm), NEW m, m = Append(l, e)
  PROVE  Bracketed(m, S, nm) /\ OpenEntries(m) = OpenEntries(l)
<1> DEFINE n == Len(l)
<1>1. /\ n \in Nat /\ Len(m) = n + 1 /\ \A k \in 1 .. n : m[k] = l[k]
  OBVIOUS
<1>2. Weight(e) = 0
  BY WeightIs
<1>3. OpenEntries(l) \in SUBSET (1 .. n) /\ IsFiniteSet(OpenEntries(l)) /\ OpenEntries(l) \in SUBSET Int
  BY OpenEntriesType
<1>4. \A i \in OpenEntries(l) : /\ After(OpenEntries(l), i) \in Nat
                           /\ Balance(l, i, n) = After(OpenEntries(l), i) + 1
  BY <1>3, AfterType DEF Bracketed
<1>5. /\ \A i \in 1 .. n : i \in OpenEntries(m) <=> i \in OpenEntries(l) /\ Balance(l, i, n) + 0 > 0
      /\ n + 1 \notin OpenEntries(m)
      /\ \A i \in 1 .. n : Balance(m, i, n + 1) = Balance(l, i, n) + 0
      /\ OpenEntries(m) \in SUBSET (1 .. n + 1)
  <2>1. Weighed(l, m, n, Weight(e))
    BY OpenAppended
  <2> HIDE DEF n
  <2>2. Weighed(l, m, n, 0)
    BY <1>2, <2>1
  <2> QED
    BY <2>2 DEF Weighed
<1> HIDE DEF n
<1>6. \A i \in 1 .. n : i \in OpenEntries(m) <=> i \in OpenEntries(l)
  BY <1>4, <1>5
<1>7. OpenEntries(m) = OpenEntries(l)
  <2>1. \A i \in OpenEntries(m) : i \in 1 .. n
    BY <1>1, <1>5
  <2> QED
    BY <1>3, <1>6, <2>1
<1>8. \A i \in OpenEntries(l) : Balance(m, i, Len(m)) = After(OpenEntries(l), i) + 1
  BY <1>1, <1>3, <1>4, <1>5
<1>9. \A i \in OpenEntries(l) : m[i] = l[i]
  BY <1>1, <1>3
<1> QED
  BY <1>7, <1>8, <1>9 DEF Bracketed

LEMMA EnteredPushes ==
  ASSUME NEW l \in Seq(Event), NEW e \in Event, e.kind = "ENTERED",
         NEW S, NEW nm, Bracketed(l, S, nm), NEW m, m = Append(l, e),
         NEW top \in Int, \A p \in S : p < top, nm[top] = e.block_name
  PROVE  /\ Bracketed(m, S \cup {top}, nm)
         /\ NoneMissing(l, S) => NoneMissing(m, S \cup {top})
<1> DEFINE n == Len(l)
           O == OpenEntries(l)
           U == S \cup {top}
<1>1. /\ n \in Nat /\ Len(m) = n + 1 /\ m[n + 1] = e /\ \A k \in 1 .. n : m[k] = l[k]
  OBVIOUS
<1>2. Weight(e) = 1
  BY WeightIs
<1>3. O \in SUBSET (1 .. n) /\ IsFiniteSet(O) /\ O \in SUBSET Int
  BY OpenEntriesType
<1>4. \A i \in O : After(O, i) \in Nat /\ Balance(l, i, n) = After(O, i) + 1
  BY <1>3, AfterType DEF Bracketed
<1>5. /\ \A i \in 1 .. n : i \in OpenEntries(m) <=> i \in O /\ Balance(l, i, n) + 1 > 0
      /\ n + 1 \in OpenEntries(m)
      /\ \A i \in 1 .. n : Balance(m, i, n + 1) = Balance(l, i, n) + 1
      /\ Balance(m, n + 1, n + 1) = 1
      /\ OpenEntries(m) \in SUBSET (1 .. n + 1)
  <2>1. Weighed(l, m, n, Weight(e))
    BY OpenAppended
  <2> HIDE DEF n, O
  <2>2. Weighed(l, m, n, 1)
    BY <1>2, <2>1
  <2> QED
    BY <2>2 DEF Weighed, O
<1>6. /\ S \in SUBSET Int /\ IsFiniteSet(S) /\ Cardinality(O) <= Cardinality(S)
      /\ \A i \in O : \E p \in S : After(S, p) = After(O, i) /\ nm[p] = l[i].block_name
  BY DEF Bracketed
<1> HIDE DEF n, O
<1>7. OpenEntries(m) = O \cup {n + 1}
  <2>1. \A i \in OpenEntries(m) : i \in 1 .. n \/ i = n + 1
    BY <1>1, <1>5
  <2>2. \A i \in 1 .. n : i \in OpenEntries(m) <=> i \in O
    BY <1>4, <1>5
  <2> QED
    BY <1>3, <1>5, <2>1, <2>2
<1>8. n + 1 \in Int /\ \A i \in O : i < n + 1
  BY <1>1, <1>3
<1>9. /\ \A i \in O : After(OpenEntries(m), i) = After(O, i) + 1
      /\ After(OpenEntries(m), n + 1) = 0
  BY <1>3, <1>7, <1>8, AfterAdded
<1>10. /\ \A p \in S : After(U, p) = After(S, p) + 1
       /\ After(U, top) = 0
  BY <1>6, AfterAdded
<1>11. /\ Cardinality(OpenEntries(m)) = Cardinality(O) + 1
       /\ Cardinality(U) = Cardinality(S) + 1 /\ IsFiniteSet(U)
       /\ Cardinality(O) \in Nat /\ Cardinality(S) \in Nat
  <2>1. n + 1 \notin O /\ top \notin S
    BY <1>6, <1>8
  <2>2. Cardinality(O \cup {n + 1}) = Cardinality(O) + 1
    BY <1>3, <2>1, FS_AddElement
  <2>3. Cardinality(U) = Cardinality(S) + 1 /\ IsFiniteSet(U)
    BY <1>6, <2>1, FS_AddElement
  <2> QED
    BY <1>3, <1>6, <1>7, <2>2, <2>3, FS_CardinalityType
<1>12. ASSUME NEW i \in OpenEntries(m)
       PROVE  /\ Balance(m, i, Len(m)) = After(OpenEntries(m), i) + 1
              /\ \E p \in U : After(U, p) = After(OpenEntries(m), i) /\ nm[p] = m[i].block_name
  <2>1. CASE i = n + 1
    BY <1>1, <1>5, <1>9, <1>10, <2>1
  <2>2. CASE i \in O
    <3>1. i \in 1 .. n /\ m[i] = l[i]
      BY <1>1, <1>3, <2>2
    <3>2. Balance(m, i, n + 1) = After(O, i) + 1 + 1
      BY <1>4, <1>5, <2>2, <3>1
    <3>3. PICK p \in S : After(S, p) = After(O, i) /\ nm[p] = l[i].block_name
      BY <1>6, <2>2
    <3>4. p \in U /\ After(U, p) = After(OpenEntries(m), i)
      BY <1>9, <1>10, <2>2, <3>3
    <3>5. Balance(m, i, Len(m)) = After(OpenEntries(m), i) + 1
      BY <1>1, <1>9, <2>2, <3>2
    <3> QED
      BY <3>1, <3>3, <3>4, <3>5
  <2> QED
    BY <1>7, <2>1, <2>2
<1>13. U \in SUBSET Int
  BY <1>6
<1> HIDE DEF U
<1>14. Bracketed(m, U, nm)
  <2>1. Cardinality(OpenEntries(m)) <= Cardinality(U)
    BY <1>6, <1>11
  <2> QED
    BY <1>11, <1>12, <1>13, <2>1 DEF Bracketed
<1>15. NoneMissing(l, S) => NoneMissing(m, U)
  BY <1>11 DEF NoneMissing, O
<1> QED
  BY <1>14, <1>15 DEF U

LEMMA CompletedPops ==
  ASSUME NEW l \in Seq(Event), NEW e \in Event, e.kind = "COMPLETED",
         NEW S, NEW nm, Bracketed(l, S, nm), NEW m, m = Append(l, e),
         NEW top, S # {} => top \in S, \A p \in S : p <= top
  PROVE  /\ Bracketed(m, S \ {top}, nm)
         /\ NoneMissing(l, S) => NoneMissing(m, S \ {top})
<1> DEFINE n == Len(l)
           O == OpenEntries(l)
           U == S \ {top}
<1>1. /\ n \in Nat /\ Len(m) = n + 1 /\ m[n + 1] = e /\ \A k \in 1 .. n : m[k] = l[k]
  OBVIOUS
<1>2. Weight(e) = -1
  BY WeightIs
<1>3. O \in SUBSET (1 .. n) /\ IsFiniteSet(O) /\ O \in SUBSET Int
  BY OpenEntriesType
<1>4. \A i \in O : After(O, i) \in Nat /\ Balance(l, i, n) = After(O, i) + 1
  BY <1>3, AfterType DEF Bracketed
<1>5. /\ \A i \in 1 .. n : i \in OpenEntries(m) <=> i \in O /\ Balance(l, i, n) + -1 > 0
      /\ n + 1 \notin OpenEntries(m)
      /\ \A i \in 1 .. n : Balance(m, i, n + 1) = Balance(l, i, n) + -1
      /\ OpenEntries(m) \in SUBSET (1 .. n + 1)
  <2>1. Weighed(l, m, n, Weight(e))
    BY OpenAppended
  <2> HIDE DEF n, O
  <2>2. Weighed(l, m, n, -1)
    BY <1>2, <2>1
  <2> QED
    BY <2>2 DEF Weighed, O
<1>6. /\ S \in SUBSET Int /\ IsFiniteSet(S) /\ Cardinality(O) <= Cardinality(S)
      /\ \A i \in O : \E p \in S : After(S, p) = After(O, i) /\ nm[p] = l[i].block_name
  BY DEF Bracketed
<1> HIDE DEF n, O
<1>7. OpenEntries(m) = {i \in O : After(O, i) > 0}
  <2>1. \A i \in OpenEntries(m) : i \in 1 .. n
    BY <1>1, <1>5
  <2>2. \A i \in 1 .. n : i \in OpenEntries(m) <=> i \in O /\ After(O, i) > 0
    BY <1>4, <1>5
  <2> QED
    BY <1>3, <2>1, <2>2
<1>8. Cardinality(O) \in Nat /\ Cardinality(S) \in Nat /\ IsFiniteSet(U) /\ U \in SUBSET Int
      /\ Cardinality(U) \in Nat
  <2>1. IsFiniteSet(U)
    BY <1>6, FS_RemoveElement
  <2> QED
    BY <1>3, <1>6, <2>1, FS_CardinalityType
<1>9. CASE O = {}
  <2>1. OpenEntries(m) = {} /\ Cardinality(OpenEntries(m)) = 0 /\ Cardinality(O) = 0
    BY <1>7, <1>9, FS_EmptySet
  <2>2. Bracketed(m, U, nm)
    BY <1>8, <2>1 DEF Bracketed
  <2>3. ASSUME NoneMissing(l, S) PROVE NoneMissing(m, U)
    <3>1. Cardinality(S) = 0
      BY <2>1, <2>3 DEF NoneMissing, O
    <3>2. S = {}
      BY <1>6, <3>1, FS_EmptySet
    <3>3. Cardinality(U) = 0
      BY <3>2, FS_EmptySet
    <3> QED
      BY <2>1, <3>3 DEF NoneMissing
  <2> QED
    BY <2>2, <2>3
<1>10. CASE O # {}
  <2>1. PICK last \in O : \A q \in O : q <= last
    BY <1>1, <1>3, <1>10, Greatest
  <2>2. OpenEntries(m) = O \ {last}
    <3>1. \A i \in O : After(O, i) = 0 <=> i = last
      BY <1>3, <2>1, AfterNone
    <3> QED
      BY <1>4, <1>7, <3>1
  <2>3. \A i \in O \ {last} : After(O \ {last}, i) = After(O, i) - 1
    BY <1>3, <2>1, AfterRemoved
  <2>4. top \in S
    <3>1. S # {}
      BY <1>6, <1>10
    <3> QED
      BY <3>1
  <2>5. /\ \A p \in U : After(U, p) = After(S, p) - 1
        /\ \A p \in S : After(S, p) = 0 <=> p = top
    BY <1>6, <2>4, AfterRemoved, AfterNone
  <2>6. /\ Cardinality(OpenEntries(m)) = Cardinality(O) - 1
        /\ Cardinality(U) = Cardinality(S) - 1
    BY <1>3, <1>6, <2>1, <2>2, <2>4, FS_RemoveElement
  <2>7. ASSUME NEW i \in OpenEntries(m)
        PROVE  /\ Balance(m, i, Len(m)) = After(OpenEntries(m), i) + 1
               /\ \E p \in U : After(U, p) = After(OpenEntries(m), i)
                               /\ nm[p] = m[i].block_name
    <3>1. i \in O /\ i # last /\ i \in 1 .. n /\ m[i] = l[i]
      BY <1>1, <1>3, <2>2
    <3>2. After(O, i) \in Nat /\ After(O, i) > 0 /\ After(OpenEntries(m), i) = After(O, i) - 1
      BY <1>4, <1>7, <2>2, <2>3, <3>1
    <3>3. Balance(m, i, n + 1) = After(O, i) + 1 + -1
      BY <1>4, <1>5, <3>1
    <3>4. PICK p \in S : After(S, p) = After(O, i) /\ nm[p] = l[i].block_name
      BY <1>6, <3>1
    <3>5. p \in U
      BY <2>5, <3>2, <3>4
    <3>6. After(U, p) = After(OpenEntries(m), i)
      BY <2>5, <3>2, <3>4, <3>5
    <3>7. Balance(m, i, Len(m)) = After(OpenEntries(m), i) + 1
      BY <1>1, <3>2, <3>3
    <3> QED
      BY <3>1, <3>4, <3>5, <3>6, <3>7
  <2> HIDE DEF U
  <2>8. Cardinality(OpenEntries(m)) <= Cardinality(U)
    BY <1>6, <1>8, <2>6
  <2>9. Bracketed(m, U, nm)
    BY <1>8, <2>7, <2>8 DEF Bracketed
  <2>10. NoneMissing(l, S) => NoneMissing(m, U)
    BY <2>6 DEF NoneMissing, O
  <2> QED
    BY <2>9, <2>10 DEF U
<1> QED
  BY <1>9, <1>10

LEMMA OldestGone ==
  ASSUME NEW l \in Seq(Event), l # <<>>, NEW S, NEW nm, Bracketed(l, S, nm),
         NEW m, m = Tail(l)
  PROVE  Bracketed(m, S, nm)
<1> DEFINE n == Len(l)
           O == OpenEntries(l)
           P == Lowered(O)
<1>1. /\ n \in Nat /\ n > 0 /\ Len(m) = n - 1 /\ m \in Seq(Event)
      /\ \A k \in 1 .. n - 1 : m[k] = l[k + 1]
  <2>1. Len(l) \in Nat /\ Len(l) > 0
    OBVIOUS
  <2> QED
    BY <2>1
<1>2. O \in SUBSET (1 .. n) /\ IsFiniteSet(O) /\ O \in SUBSET Int
  BY OpenEntriesType
<1>3. \A i, j \in 1 .. n - 1 : Balance(m, i, j) = Balance(l, i + 1, j + 1)
  <2> SUFFICES ASSUME NEW i \in 1 .. n - 1, NEW j \in 1 .. n - 1
               PROVE  Balance(m, i, j) = Balance(l, i + 1, j + 1)
    OBVIOUS
  <2>1. \A kind : EventsIn(m, i, j, kind) = EventsIn(l, i + 1, j + 1, kind)
    <3> SUFFICES ASSUME NEW kind
                 PROVE  EventsIn(m, i, j, kind) = EventsIn(l, i + 1, j + 1, kind)
      OBVIOUS
    <3> DEFINE A == {k \in i .. j : m[k].kind = kind}
               B == {k \in (i + 1) .. (j + 1) : l[k].kind = kind}
    <3>1. i \in Int /\ j \in Int /\ i + 1 \in Int /\ j + 1 \in Int
      BY <1>1
    <3>2. \A k \in i .. j : m[k] = l[k + 1]
      BY <1>1
    <3>3. \A k \in Int : k \in i .. j <=> k + 1 \in (i + 1) .. (j + 1)
      BY <3>1
    <3>4. A \in SUBSET Int /\ B \in SUBSET Int
      <4>1. i .. j \in SUBSET Int /\ (i + 1) .. (j + 1) \in SUBSET Int
        BY <3>1
      <4> QED
        BY <4>1
    <3>5. A = Lowered(B)
      <4>1. \A k \in Int : k \in A <=> k + 1 \in B
        BY <3>2, <3>3
      <4> HIDE DEF A, B
      <4> QED
        BY <3>4, <4>1 DEF Lowered
    <3>6. IsFiniteSet(B)
      <4>1. IsFiniteSet((i + 1) .. (j + 1))
        BY <3>1, FS_Interval
      <4> QED
        BY <4>1, FS_Subset
    <3>7. EventsIn(m, i, j, kind) = Cardinality(A)
          /\ EventsIn(l, i + 1, j + 1, kind) = Cardinality(B)
      BY DEF EventsIn
    <3> HIDE DEF A, B
    <3> QED
      BY <3>4, <3>5, <3>6, <3>7, LoweredCardinality
  <2> QED
    BY <2>1 DEF Balance
<1> HIDE DEF n, O
<1>4. OpenEntries(m) = P \ {0}
  <2>1. ASSUME NEW i \in 1 .. n - 1
        PROVE  i \in OpenEntries(m) <=> i + 1 \in O
    <3>1. i \in OpenEntries(m) <=> \A j \in i .. n - 1 : Balance(m, i, j) > 0
      BY <1>1, OpenEntriesIs
    <3>2. i + 1 \in 1 .. Len(l) /\ n = Len(l)
      BY <1>1 DEF n
    <3>3. i + 1 \in O <=> \A j \in (i + 1) .. n : Balance(l, i + 1, j) > 0
      BY <3>2, OpenEntriesIs DEF O
    <3>4. \A j \in i .. n - 1 : Balance(m, i, j) = Balance(l, i + 1, j + 1)
      BY <1>1, <1>3
    <3>5. /\ \A j \in i .. n - 1 : j + 1 \in (i + 1) .. n
          /\ \A j \in (i + 1) .. n : j - 1 \in i .. n - 1 /\ (j - 1) + 1 = j
      BY <1>1
    <3> QED
      BY <3>1, <3>3, <3>4, <3>5
  <2>2. OpenEntries(m) \in SUBSET (1 .. n - 1)
    BY <1>1, OpenEntriesType
  <2>3. \A i \in P \ {0} : i \in 1 .. n - 1 /\ i + 1 \in O
    BY <1>1, <1>2 DEF Lowered
  <2>4. \A i \in 1 .. n - 1 : i + 1 \in O => i \in P \ {0}
    BY <1>1 DEF Lowered
  <2> HIDE DEF P
  <2> QED
    BY <2>1, <2>2, <2>3, <2>4
<1>5. IsFiniteSet(P) /\ Cardinality(P) = Cardinality(O) /\ P \in SUBSET Int
  BY <1>2, LoweredCardinality DEF Lowered
<1>6. Cardinality(OpenEntries(m)) <= Cardinality(O) /\ Cardinality(OpenEntries(m)) \in Nat
      /\ Cardinality(O) \in Nat
  <2>1. OpenEntries(m) \in SUBSET P
    BY <1>4
  <2> HIDE DEF P
  <2> QED
    BY <1>2, <1>5, <2>1, FS_Subset, FS_CardinalityType
<1>7. ASSUME NEW i \in OpenEntries(m)
      PROVE  /\ i + 1 \in O /\ i \in 1 .. n - 1
             /\ After(OpenEntries(m), i) = After(O, i + 1)
             /\ Balance(m, i, Len(m)) = Balance(l, i + 1, n)
             /\ m[i] = l[i + 1]
  <2>1. i + 1 \in O /\ i \in 1 .. n - 1
    <3>1. i \in 1 .. n - 1
      BY <1>1, OpenEntriesType
    <3> QED
      BY <1>4, <3>1 DEF Lowered
  <2>2. After(P, i) = After(O, i + 1)
    BY <1>2, <2>1, AfterLowered
  <2>3. After(OpenEntries(m), i) = After(P, i)
    <3>1. \A q \in Int : q > i => q # 0
      BY <2>1
    <3> HIDE DEF P
    <3>2. {q \in P \ {0} : q > i} = {q \in P : q > i}
      BY <1>5, <3>1
    <3> QED
      BY <1>4, <3>2 DEF After
  <2>4. Len(m) \in 1 .. n - 1 /\ Len(m) + 1 = n
    BY <1>1, <2>1
  <2>5. Balance(m, i, Len(m)) = Balance(l, i + 1, n)
    BY <1>3, <2>1, <2>4
  <2> QED
    BY <1>1, <2>1, <2>2, <2>3, <2>5
<1>8. /\ S \in SUBSET Int /\ IsFiniteSet(S) /\ Cardinality(O) <= Cardinality(S)
      /\ \A i \in O : /\ Balance(l, i, n) = After(O, i) + 1
                      /\ \E p \in S : After(S, p) = After(O, i) /\ nm[p] = l[i].block_name
  BY DEF Bracketed, O, n
<1>9. Cardinality(OpenEntries(m)) <= Cardinality(S)
  <2>1. Cardinality(S) \in Nat
    BY <1>8, FS_CardinalityType
  <2> QED
    BY <1>6, <1>8, <2>1
<1>10. ASSUME NEW i \in OpenEntries(m)
       PROVE  /\ Balance(m, i, Len(m)) = After(OpenEntries(m), i) + 1
              /\ \E p \in S : After(S, p) = After(OpenEntries(m), i) /\ nm[p] = m[i].block_name
  <2>1. i + 1 \in O
    BY <1>7
  <2>2. PICK p \in S : After(S, p) = After(O, i + 1) /\ nm[p] = l[i + 1].block_name
    BY <1>8, <2>1
  <2> QED
    BY <1>7, <1>8, <2>1, <2>2
<1> QED
  BY <1>8, <1>9, <1>10 DEF Bracketed

-----------------------------------------------------------------------------
(* Storing into a log that holds Capacity events. *)

Stacked(l, S, nm) ==
  /\ l \in Logs
  /\ Bracketed(l, S, nm)
  /\ Len(l) < Capacity => NoneMissing(l, S)

(* What is stored to: the log with room for one more. *)
LEMMA RoomMade ==
  ASSUME NEW l, NEW S, NEW nm, Stacked(l, S, nm), NEW e \in Event
  PROVE  \E r \in Seq(Event) :
           /\ Stored(l, e) = Append(r, e) /\ Bracketed(r, S, nm)
           /\ Len(Stored(l, e)) < Capacity => NoneMissing(r, S)
           /\ Stored(l, e) \in Logs
<1>1. l \in Seq(Event) /\ Len(l) \in Nat /\ Len(l) <= Capacity /\ Capacity \in Nat \ {0}
      /\ Stored(l, e) \in Logs
  BY StoredType, CapacityAssumption DEF Stacked, Logs
<1>2. CASE Len(l) < Capacity
  BY <1>1, <1>2 DEF Stacked, Stored
<1>3. CASE ~ (Len(l) < Capacity)
  <2>1. l # <<>> /\ Tail(l) \in Seq(Event) /\ Len(l) = Capacity
    BY <1>1, <1>3
  <2>2. Bracketed(Tail(l), S, nm)
    BY <1>1, <2>1, OldestGone DEF Stacked
  <2>3. Stored(l, e) = Append(Tail(l), e)
    BY <1>3 DEF Stored
  <2>4. Len(Stored(l, e)) = Capacity
    BY <1>1, <2>1, <2>3
  <2>5. ~ (Len(Stored(l, e)) < Capacity)
    BY <1>1, <2>4
  <2> QED
    BY <1>1, <2>1, <2>2, <2>3, <2>5
<1> QED
  BY <1>2, <1>3

LEMMA OtherStored ==
  ASSUME NEW l, NEW S, NEW nm, Stacked(l, S, nm),
         NEW e \in Event, e.kind \notin {"ENTERED", "COMPLETED"}
  PROVE  Stacked(Stored(l, e), S, nm)
<1>1. PICK r \in Seq(Event) :
        /\ Stored(l, e) = Append(r, e) /\ Bracketed(r, S, nm)
        /\ Len(Stored(l, e)) < Capacity => NoneMissing(r, S)
        /\ Stored(l, e) \in Logs
  BY RoomMade
<1>2. Bracketed(Append(r, e), S, nm) /\ OpenEntries(Append(r, e)) = OpenEntries(r)
  BY <1>1, OtherKeeps
<1> QED
  BY <1>1, <1>2 DEF Stacked, NoneMissing

LEMMA EnteredStored ==
  ASSUME NEW l, NEW S, NEW nm, Stacked(l, S, nm), NEW e \in Event, e.kind = "ENTERED",
         NEW top \in Int, \A p \in S : p < top, nm[top] = e.block_name
  PROVE  Stacked(Stored(l, e), S \cup {top}, nm)
<1>1. PICK r \in Seq(Event) :
        /\ Stored(l, e) = Append(r, e) /\ Bracketed(r, S, nm)
        /\ Len(Stored(l, e)) < Capacity => NoneMissing(r, S)
        /\ Stored(l, e) \in Logs
  BY RoomMade
<1>2. /\ Bracketed(Append(r, e), S \cup {top}, nm)
      /\ NoneMissing(r, S) => NoneMissing(Append(r, e), S \cup {top})
  BY <1>1, EnteredPushes
<1> QED
  BY <1>1, <1>2 DEF Stacked

LEMMA CompletedStored ==
  ASSUME NEW l, NEW S, NEW nm, Stacked(l, S, nm), NEW e \in Event, e.kind = "COMPLETED",
         NEW top, S # {} => top \in S, \A p \in S : p <= top
  PROVE  Stacked(Stored(l, e), S \ {top}, nm)
<1>1. PICK r \in Seq(Event) :
        /\ Stored(l, e) = Append(r, e) /\ Bracketed(r, S, nm)
        /\ Len(Stored(l, e)) < Capacity => NoneMissing(r, S)
        /\ Stored(l, e) \in Logs
  BY RoomMade
<1>2. /\ Bracketed(Append(r, e), S \ {top}, nm)
      /\ NoneMissing(r, S) => NoneMissing(Append(r, e), S \ {top})
  BY <1>1, CompletedPops
<1> QED
  BY <1>1, <1>2 DEF Stacked

(* Only the names of the positions in S matter. *)
LEMMA SameNames ==
  ASSUME NEW l, NEW S, NEW nm, NEW nm2, \A p \in S : nm2[p] = nm[p], Stacked(l, S, nm)
  PROVE  Stacked(l, S, nm2)
BY DEF Stacked, Bracketed

LEMMA NothingStored ==
  ASSUME NEW nm
  PROVE  Stacked(<<>>, {}, nm)
<1>1. OpenEntries(<<>>) = {}
  BY DEF OpenEntries
<1>2. <<>> \in Logs
  BY CapacityAssumption DEF Logs
<1> QED
  BY <1>1, <1>2, FS_EmptySet DEF Stacked, Bracketed, NoneMissing

(* A world's log with the positions of the runs that did not end. *)
LEMMA EmitOther ==
  ASSUME NEW w, NEW S, NEW nm, Stacked(w.log, S, nm), NEW b \in Names,
         NEW kind \in Kinds \ {"ENTERED", "COMPLETED"}, NEW reason \in Reasons
  PROVE  Stacked(Emit(w, b, kind, reason).log, S, nm)
<1> DEFINE e == [kind |-> kind, block_name |-> b, reason |-> reason]
<1>1. e \in Event /\ e.kind \notin {"ENTERED", "COMPLETED"}
  BY DEF Event
<1>2. Emit(w, b, kind, reason).log = Stored(w.log, e)
  BY DEF Emit
<1> HIDE DEF e
<1> QED
  BY <1>1, <1>2, OtherStored

LEMMA EmitEntered ==
  ASSUME NEW w, NEW S, NEW nm, Stacked(w.log, S, nm), NEW b \in Names,
         NEW top \in Int, \A p \in S : p < top, nm[top] = b
  PROVE  Stacked(Emit(w, b, "ENTERED", "ENTERED").log, S \cup {top}, nm)
<1> DEFINE e == [kind |-> "ENTERED", block_name |-> b, reason |-> "ENTERED"]
<1>1. e \in Event /\ e.kind = "ENTERED" /\ e.block_name = b
  BY DEF Event, Kinds, Reasons
<1>2. Emit(w, b, "ENTERED", "ENTERED").log = Stored(w.log, e)
  BY DEF Emit
<1> HIDE DEF e
<1> QED
  BY <1>1, <1>2, EnteredStored

LEMMA EmitCompleted ==
  ASSUME NEW w, NEW S, NEW nm, Stacked(w.log, S, nm), NEW b \in Names,
         NEW top, S # {} => top \in S, \A p \in S : p <= top
  PROVE  Stacked(Emit(w, b, "COMPLETED", "COMPLETED").log, S \ {top}, nm)
<1> DEFINE e == [kind |-> "COMPLETED", block_name |-> b, reason |-> "COMPLETED"]
<1>1. e \in Event /\ e.kind = "COMPLETED"
  BY DEF Event, Kinds, Reasons
<1>2. Emit(w, b, "COMPLETED", "COMPLETED").log = Stored(w.log, e)
  BY DEF Emit
<1> HIDE DEF e
<1> QED
  BY <1>1, <1>2, CompletedStored

-----------------------------------------------------------------------------
(* The positions of the runs that did not end. *)

InsideOf(fs, w) == {p \in w + 1 .. Len(fs) : fs[p].phase # "recovery"}
Named(fs) == [p \in DOMAIN fs |-> fs[p].block_name]

(* The log is a stack of them. *)
BracketInv == Stacked(log, InsideOf(frames, wiped), Named(frames))

LEMMA InsideType ==
  ASSUME NEW fs \in Seq(Frame), NEW w \in 0 .. Len(fs)
  PROVE  /\ InsideOf(fs, w) \in SUBSET (1 .. Len(fs))
         /\ InsideOf(fs, w) \in SUBSET Int /\ IsFiniteSet(InsideOf(fs, w))
         /\ \A p \in InsideOf(fs, w) : Named(fs)[p] = fs[p].block_name
<1> DEFINE n == Len(fs)
<1>1. n \in Nat /\ DOMAIN fs = 1 .. n
  OBVIOUS
<1>2. IsFiniteSet(1 .. n)
  BY <1>1, FS_Interval
<1>3. InsideOf(fs, w) \in SUBSET (1 .. n)
  BY <1>1 DEF InsideOf
<1> HIDE DEF n
<1>4. IsFiniteSet(InsideOf(fs, w))
  BY <1>2, <1>3, FS_Subset
<1>5. InsideOf(fs, w) \in SUBSET Int
  BY <1>1, <1>3
<1> QED
  BY <1>1, <1>3, <1>4, <1>5 DEF Named, n

(* gs is fs, n long, with one frame more. *)
OneLonger(fs, gs, n) ==
  /\ DOMAIN gs = 1 .. n + 1 /\ Len(gs) = n + 1
  /\ \A p \in 1 .. n : gs[p] = fs[p]

(* A frame on top is inside unless it is in the recovery callback. *)
LEMMA InsidePushed ==
  ASSUME NEW fs \in Seq(Frame), NEW n, n = Len(fs), NEW w \in 0 .. n,
         NEW gs, OneLonger(fs, gs, n)
  PROVE  /\ gs[n + 1].phase # "recovery" => InsideOf(gs, w) = InsideOf(fs, w) \cup {n + 1}
         /\ gs[n + 1].phase = "recovery" => InsideOf(gs, w) = InsideOf(fs, w)
         /\ \A p \in 1 .. n : Named(gs)[p] = Named(fs)[p]
         /\ Named(gs)[n + 1] = gs[n + 1].block_name
<1>1. n \in Nat /\ DOMAIN fs = 1 .. n
  OBVIOUS
<1>2. (\A p \in 1 .. n : Named(gs)[p] = Named(fs)[p]) /\ Named(gs)[n + 1] = gs[n + 1].block_name
  BY <1>1 DEF Named, OneLonger
<1>3. \A p : p \in InsideOf(fs, w) <=> p \in w + 1 .. n /\ fs[p].phase # "recovery"
  BY DEF InsideOf
<1>4. \A p : p \in InsideOf(gs, w) <=> p \in w + 1 .. n + 1 /\ gs[p].phase # "recovery"
  BY DEF InsideOf, OneLonger
<1>5. \A p : p \in w + 1 .. n + 1 <=> p \in w + 1 .. n \/ p = n + 1
  BY <1>1
<1>6. \A p \in w + 1 .. n : p \in 1 .. n /\ p # n + 1
  BY <1>1
<1>7. \A p : p \in InsideOf(gs, w) <=> p \in InsideOf(fs, w)
                                      \/ (p = n + 1 /\ gs[n + 1].phase # "recovery")
  BY <1>3, <1>4, <1>5, <1>6 DEF OneLonger
<1>8. /\ gs[n + 1].phase # "recovery" => InsideOf(gs, w) = InsideOf(fs, w) \cup {n + 1}
      /\ gs[n + 1].phase = "recovery" => InsideOf(gs, w) = InsideOf(fs, w)
  BY <1>7
<1> QED
  BY <1>2, <1>8

(* What Append makes of a stack. *)
LEMMA FramePushed ==
  ASSUME NEW fs \in Seq(Frame), NEW f, NEW n, n = Len(fs), NEW gs, gs = Append(fs, f)
  PROVE  OneLonger(fs, gs, n) /\ gs[n + 1] = f
BY DEF OneLonger

(* What a run that ends leaves below, alone or under the recovery callback. *)
LEMMA InsidePopped ==
  ASSUME NEW fs \in Seq(Frame), NEW w \in 0 .. Len(fs), fs # <<>>,
         NEW gs, NEW v, v = (IF w > Len(gs) THEN Len(gs) ELSE w),
         \/ gs = SubSeq(fs, 1, Len(fs) - 1)
         \/ \E r : gs = Append(SubSeq(fs, 1, Len(fs) - 1), RecoveryFrame(r))
  PROVE  /\ InsideOf(gs, v) = InsideOf(fs, w) \ {Len(fs)}
         /\ \A p \in InsideOf(gs, v) : Named(gs)[p] = Named(fs)[p]
<1> DEFINE n == Len(fs)
           below == SubSeq(fs, 1, n - 1)
<1>1. /\ n \in Nat \ {0} /\ w \in 0 .. n
      /\ below \in Seq(Frame) /\ Len(below) = n - 1
      /\ \A p \in 1 .. n - 1 : below[p] = fs[p]
      /\ DOMAIN fs = 1 .. n /\ DOMAIN below = 1 .. n - 1
  <2>1. n \in Nat \ {0} /\ DOMAIN fs = 1 .. n
    OBVIOUS
  <2>2. w \in 0 .. n
    OBVIOUS
  <2>3. /\ below \in Seq(Frame) /\ Len(below) = n - 1
        /\ \A p \in 1 .. n - 1 : below[p] = fs[p]
    BY <2>1
  <2>4. DOMAIN below = 1 .. n - 1
    <3> HIDE DEF below, n
    <3> QED
      BY <2>3
  <2> QED
    BY <2>1, <2>2, <2>3, <2>4
<1>2. gs = below \/ \E r : gs = Append(below, RecoveryFrame(r))
  OBVIOUS
<1> HIDE DEF below
<1>3. /\ Len(gs) \in {n - 1, n} /\ DOMAIN gs = 1 .. Len(gs)
      /\ \A p \in 1 .. n - 1 : gs[p] = fs[p]
      /\ Len(gs) = n => gs[n].phase = "recovery"
  <2>1. CASE gs = below
    <3> HIDE DEF n
    <3>1. Len(gs) = n - 1 /\ n - 1 # n
      BY <1>1, <2>1
    <3>2. DOMAIN gs = 1 .. n - 1 /\ \A p \in 1 .. n - 1 : gs[p] = fs[p]
      BY <1>1, <2>1
    <3> QED
      BY <3>1, <3>2
  <2>2. ASSUME NEW r, gs = Append(below, RecoveryFrame(r))
        PROVE  /\ Len(gs) = n /\ DOMAIN gs = 1 .. n
               /\ \A p \in 1 .. n - 1 : gs[p] = fs[p]
               /\ gs[n].phase = "recovery"
    <3> DEFINE f == RecoveryFrame(r)
    <3>1. f.phase = "recovery"
      BY DEF RecoveryFrame
    <3> HIDE DEF f, n
    <3>2. gs = Append(below, f)
      BY <2>2 DEF f
    <3> QED
      BY <1>1, <3>1, <3>2
  <2> HIDE DEF n
  <2> QED
    BY <1>1, <1>2, <2>1, <2>2
<1>4. \A p : p \in InsideOf(fs, w) <=> p \in w + 1 .. n /\ fs[p].phase # "recovery"
  BY DEF InsideOf
<1>5. \A p : p \in InsideOf(gs, v) <=> p \in v + 1 .. Len(gs) /\ gs[p].phase # "recovery"
  BY DEF InsideOf
<1> HIDE DEF n
<1>6. \A p : p \in v + 1 .. Len(gs) /\ p # n <=> p \in w + 1 .. n /\ p # n
  BY <1>1, <1>3
<1>7. ~ (n \in v + 1 .. Len(gs) /\ gs[n].phase # "recovery")
  <2>1. Len(gs) = n - 1 => n \notin v + 1 .. Len(gs)
    BY <1>1
  <2> QED
    BY <1>3, <2>1
<1>8. \A p \in w + 1 .. n : p # n => p \in 1 .. n - 1
  BY <1>1
<1>9. \A p : p \in InsideOf(gs, v) <=> p \in InsideOf(fs, w) /\ p # n
  BY <1>3, <1>4, <1>5, <1>6, <1>7, <1>8
<1>10. \A p \in InsideOf(gs, v) : p \in 1 .. n - 1 /\ p \in 1 .. Len(gs) /\ p \in 1 .. n
  <2>1. \A p \in InsideOf(gs, v) : p \in 1 .. n - 1
    BY <1>4, <1>8, <1>9
  <2>2. \A p \in 1 .. n - 1 : p \in 1 .. Len(gs) /\ p \in 1 .. n
    <3> DEFINE m == Len(gs)
    <3>1. n \in Nat /\ m \in {n - 1, n}
      BY <1>1, <1>3
    <3> HIDE DEF m
    <3>2. \A p \in 1 .. n - 1 : p \in 1 .. m /\ p \in 1 .. n
      BY <3>1
    <3> QED
      BY <3>2 DEF m
  <2> QED
    BY <2>1, <2>2
<1>11. \A p \in InsideOf(gs, v) : Named(gs)[p] = Named(fs)[p]
  BY <1>1, <1>3, <1>10 DEF Named
<1>12. InsideOf(gs, v) = InsideOf(fs, w) \ {n}
  BY <1>9
<1> QED
  BY <1>11, <1>12 DEF n

(* A failure's report leaves the runs below it as they are. *)
LEMMA InsideUnder ==
  ASSUME NEW fs \in Seq(Frame), NEW w \in 0 .. Len(fs), NEW gs,
         gs = fs \/ \E r : gs = Append(fs, RecoveryFrame(r))
  PROVE  /\ InsideOf(gs, w) = InsideOf(fs, w)
         /\ \A p \in InsideOf(gs, w) : Named(gs)[p] = Named(fs)[p]
         /\ Len(gs) >= Len(fs)
<1>1. CASE gs = fs
  BY <1>1
<1>2. ASSUME NEW r, gs = Append(fs, RecoveryFrame(r))
      PROVE  /\ InsideOf(gs, w) = InsideOf(fs, w)
             /\ \A p \in InsideOf(gs, w) : Named(gs)[p] = Named(fs)[p]
             /\ Len(gs) >= Len(fs)
  <2> DEFINE n == Len(fs)
  <2>1. RecoveryFrame(r).phase = "recovery"
    BY DEF RecoveryFrame
  <2>2. OneLonger(fs, gs, n) /\ gs[n + 1] = RecoveryFrame(r)
    BY <1>2 DEF OneLonger
  <2>3. n \in Nat /\ w \in 0 .. n
    OBVIOUS
  <2>4. InsideOf(fs, w) \in SUBSET (1 .. n)
    BY InsideType
  <2> HIDE DEF n
  <2>5. n = Len(fs) /\ gs[n + 1].phase = "recovery"
    BY <2>1, <2>2 DEF n
  <2>6. InsideOf(gs, w) = InsideOf(fs, w) /\ \A p \in 1 .. n : Named(gs)[p] = Named(fs)[p]
    BY <2>2, <2>3, <2>5, InsidePushed
  <2>7. Len(gs) >= n
    BY <2>2, <2>3 DEF OneLonger
  <2> QED
    BY <2>4, <2>6, <2>7 DEF n
<1> QED
  BY <1>1, <1>2

LEMMA NoneInside ==
  ASSUME NEW fs \in Seq(Frame)
  PROVE  InsideOf(fs, Len(fs)) = {}
<1> DEFINE n == Len(fs)
<1>1. n \in Nat
  OBVIOUS
<1>2. n + 1 .. n = {}
  BY <1>1
<1> QED
  BY <1>2 DEF InsideOf

-----------------------------------------------------------------------------
(* What the steps store. *)

(* ENTERED: the run is on top of those that are inside. *)
NamedWith(S, nm, top, b) == [p \in S \cup {top} |-> IF p = top THEN b ELSE nm[p]]

LEMMA NamedWithIs ==
  ASSUME NEW S, NEW nm, NEW top, NEW b, top \notin S
  PROVE  /\ \A p \in S : NamedWith(S, nm, top, b)[p] = nm[p]
         /\ NamedWith(S, nm, top, b)[top] = b
BY DEF NamedWith

LEMMA EnteredOpens ==
  ASSUME NEW v, NEW b \in Names, NEW S, NEW nm, Stacked(v.log, S, nm),
         NEW top \in Int, \A p \in S : p < top
  PROVE  Stacked(Emit(v, b, "ENTERED", "ENTERED").log, S \cup {top},
                 NamedWith(S, nm, top, b))
<1> DEFINE nm2 == NamedWith(S, nm, top, b)
<1>1. top \notin S
  <2>1. S \in SUBSET Int
    BY DEF Stacked, Bracketed
  <2> QED
    BY <2>1
<1>2. nm2[top] = b /\ \A p \in S : nm2[p] = nm[p]
  BY <1>1, NamedWithIs
<1> HIDE DEF nm2
<1>3. Stacked(v.log, S, nm2)
  BY <1>2, SameNames
<1>4. Stacked(Emit(v, b, "ENTERED", "ENTERED").log, S \cup {top}, nm2)
  BY <1>2, <1>3, EmitEntered
<1> QED
  BY <1>4 DEF nm2

(* A refused run: ERROR, COMPLETED. *)
LEMMA RefuseStacks ==
  ASSUME NEW w, NEW below, NEW f, f.block_name \in Names, NEW reason \in Reasons,
         NEW S, NEW nm, Stacked(w.log, S, nm),
         NEW top, S # {} => top \in S, \A p \in S : p <= top,
         Refuse(w, below, f, reason)
  PROVE  Stacked(log', S \ {top}, nm)
<1> DEFINE b  == f.block_name
           w1 == Emit(w, b, "ERROR", reason)
           w2 == Emit(w1, b, "COMPLETED", "COMPLETED")
<1>1. Stacked(w1.log, S, nm)
  BY EmitOther DEF Kinds
<1>2. log' = w2.log
  BY DEF Refuse, Becomes
<1> HIDE DEF w1
<1>3. Stacked(w2.log, S \ {top}, nm)
  BY <1>1, EmitCompleted
<1> QED
  BY <1>2, <1>3

(* The end of an admitted run: COMPLETED. *)
LEMMA CompleteStacks ==
  ASSUME NEW w, NEW b \in Names, NEW success, NEW S, NEW nm, Stacked(w.log, S, nm),
         NEW top, S # {} => top \in S, \A p \in S : p <= top,
         Complete(w, b, success)
  PROVE  Stacked(log', S \ {top}, nm)
<1> DEFINE v == [w EXCEPT !.blocks = ReportResult(@, b, success)]
<1>1. v.log = w.log
  BY DEF v
<1>2. log' = Emit(v, b, "COMPLETED", "COMPLETED").log
  BY DEF Complete, Becomes
<1> HIDE DEF v
<1>3. Stacked(v.log, S, nm)
  BY <1>1
<1> QED
  BY <1>2, <1>3, EmitCompleted

-----------------------------------------------------------------------------
(* The steps keep the log a stack of the runs that did not end. *)

LEMMA DemoFacts ==
  ASSUME DemoInv
  PROVE  /\ frames \in Seq(Frame) /\ wiped \in 0 .. Len(frames)
         /\ Len(frames) \in Nat /\ wiped \in Nat
BY DEF DemoInv, DemoTypeOK, TypeOK

LEMMA StackedNext ==
  ASSUME NEW S, NEW nm, Stacked(log', S, nm), InsideOf(frames', wiped') = S,
         \A p \in S : Named(frames')[p] = nm[p]
  PROVE  BracketInv'
<1>1. Stacked(log', S, Named(frames'))
  BY SameNames
<1> QED
  BY <1>1 DEF BracketInv

(* Steps that leave the stack of runs alone, but for what else frames say. *)
LEMMA FramesKeptInside ==
  ASSUME NEW fs \in Seq(Frame), NEW n, n = Len(fs), NEW w \in 0 .. n, NEW gs,
         DOMAIN gs = 1 .. n, Len(gs) = n,
         \A p \in 1 .. n : /\ gs[p].phase = "recovery" <=> fs[p].phase = "recovery"
                           /\ gs[p].block_name = fs[p].block_name
  PROVE  /\ InsideOf(gs, w) = InsideOf(fs, w)
         /\ \A p \in InsideOf(gs, w) : Named(gs)[p] = Named(fs)[p]
<1>1. n \in Nat /\ DOMAIN fs = 1 .. n
  OBVIOUS
<1>2. \A p \in w + 1 .. n : p \in 1 .. n
  BY <1>1
<1>3. InsideOf(gs, w) = InsideOf(fs, w) /\ InsideOf(gs, w) \in SUBSET (1 .. n)
  BY <1>2 DEF InsideOf
<1>4. \A p \in 1 .. n : Named(gs)[p] = Named(fs)[p]
  BY <1>1 DEF Named
<1> QED
  BY <1>3, <1>4

(* A guarded run's wiped': no more runs than there are. *)
LEMMA WipedKept ==
  ASSUME DemoInv, Len(frames') \in Nat, Len(frames') >= Len(frames),
         wiped' = IF wiped > Len(frames') THEN Len(frames') ELSE wiped
  PROVE  wiped' = wiped
<1> DEFINE m == Len(frames')
           n == Len(frames)
<1>1. m \in Nat /\ n \in Nat /\ m >= n /\ wiped \in 0 .. n
  BY DemoFacts
<1> HIDE DEF m, n
<1>2. ~ (wiped > m)
  BY <1>1
<1> QED
  BY <1>2 DEF m

LEMMA FailUnder ==
  ASSUME NEW below, NEW r, Fail(below, r)
  PROVE  frames' = below \/ \E q : frames' = Append(below, RecoveryFrame(q))
BY DEF Fail

(* A run that ended, in whatever way, closed its bracket. *)
LEMMA PoppedBrackets ==
  ASSUME DemoInv, frames # <<>>,
         Stacked(log', InsideOf(frames, wiped) \ {Len(frames)}, Named(frames)),
         frames' = Below \/ \E q : frames' = Append(Below, RecoveryFrame(q)),
         wiped' = IF wiped > Len(frames') THEN Len(frames') ELSE wiped
  PROVE  BracketInv'
<1> DEFINE S == InsideOf(frames, wiped)
           nm == Named(frames)
           n == Len(frames)
<1>1. frames \in Seq(Frame) /\ wiped \in 0 .. n /\ n \in Nat
  BY DemoFacts
<1>2. /\ InsideOf(frames', wiped') = S \ {n}
      /\ \A p \in InsideOf(frames', wiped') : Named(frames')[p] = nm[p]
  BY <1>1, InsidePopped DEF Below
<1>3. Stacked(log', S \ {n}, nm)
  OBVIOUS
<1> HIDE DEF S, nm, n
<1> QED
  BY <1>2, <1>3, StackedNext

(* The run on top is the last of those inside, if its ENTERED was not cleared. *)
LEMMA TopInside ==
  ASSUME DemoInv, frames # <<>>, Top.phase # "recovery"
  PROVE  LET S == InsideOf(frames, wiped)
         IN  /\ S # {} => Len(frames) \in S
             /\ \A p \in S : p <= Len(frames)
<1> DEFINE S == InsideOf(frames, wiped)
           n == Len(frames)
<1>1. frames \in Seq(Frame) /\ wiped \in 0 .. n /\ n \in Nat
  BY DemoFacts
<1>2. S \in SUBSET (1 .. n)
  BY <1>1, InsideType
<1>3. S # {} => n \in S
  BY <1>1 DEF InsideOf, Top
<1>4. \A p \in S : p <= n
  BY <1>1, <1>2
<1> QED
  BY <1>3, <1>4

(* A run refused. *)
LEMMA RefuseBrackets ==
  ASSUME DemoInv, BracketInv, Entering, NEW w, w.log = log, NEW reason \in Reasons,
         Refuse(w, Below, Top, reason),
         wiped' = IF wiped > Len(frames') THEN Len(frames') ELSE wiped
  PROVE  BracketInv'
<1> DEFINE S == InsideOf(frames, wiped)
           nm == Named(frames)
           n == Len(frames)
<1>1. frames # <<>> /\ Top.phase # "recovery" /\ Top.block_name \in Names
  BY EnteringTop DEF DemoInv, DemoTypeOK
<1>2. Stacked(w.log, S, nm)
  BY DEF BracketInv
<1>3. (S # {} => n \in S) /\ \A p \in S : p <= n
  BY <1>1, TopInside
<1> HIDE DEF S, nm, n
<1>4. Stacked(log', S \ {n}, nm)
  BY <1>1, <1>2, <1>3, RefuseStacks
<1>5. frames' = Below \/ \E q : frames' = Append(Below, RecoveryFrame(q))
  BY FailUnder DEF Refuse
<1> QED
  BY <1>1, <1>4, <1>5, PoppedBrackets DEF S, nm, n

(* fn is called: no event. *)
LEMMA AdmittedBrackets ==
  ASSUME DemoInv, BracketInv, RunAdmitted,
         wiped' = IF wiped > Len(frames') THEN Len(frames') ELSE wiped
  PROVE  BracketInv'
<1> DEFINE S == InsideOf(frames, wiped)
           nm == Named(frames)
           n == Len(frames)
<1>1. frames \in Seq(Frame) /\ wiped \in 0 .. n /\ n \in Nat
  BY DemoFacts
<1>2. /\ frames' = [frames EXCEPT ![n] = [@ EXCEPT !.phase = "fn"]]
      /\ frames # <<>> /\ frames[n].phase = "entering"
  BY DEF RunAdmitted, Entering, Top
<1>3. log' = log
  BY DEF RunAdmitted, LookedUp, World, Becomes
<1>4. DOMAIN frames = 1 .. n /\ \A p \in 1 .. n : frames[p] \in Frame
  BY <1>1
<1>5. /\ DOMAIN frames' = 1 .. n /\ Len(frames') = n
      /\ \A p \in 1 .. n : /\ frames'[p].phase = "recovery" <=> frames[p].phase = "recovery"
                           /\ frames'[p].block_name = frames[p].block_name
  <2> DEFINE g == [frames[n] EXCEPT !.phase = "fn"]
  <2>1. frames' = [frames EXCEPT ![n] = g]
    BY <1>2
  <2>2. frames[n] \in Frame
    BY <1>1, <1>2, <1>4
  <2>3. g.phase = "fn" /\ g.block_name = frames[n].block_name
    BY <2>2 DEF Frame
  <2>4. DOMAIN frames' = 1 .. n /\ Len(frames') = n
    BY <1>1, <2>1
  <2> HIDE DEF g, n
  <2>5. \A p \in 1 .. n : frames'[p] = IF p = n THEN g ELSE frames[p]
    BY <1>4, <2>1
  <2> QED
    BY <1>2, <2>3, <2>4, <2>5
<1>6. n = Len(frames)
  OBVIOUS
<1> HIDE DEF n
<1>7. wiped' = wiped
  BY <1>1, <1>5
<1>8. /\ InsideOf(frames', wiped) = S
      /\ \A p \in InsideOf(frames', wiped) : Named(frames')[p] = nm[p]
  BY <1>1, <1>5, <1>6, FramesKeptInside
<1>9. Stacked(log', S, nm)
  BY <1>3 DEF BracketInv
<1> HIDE DEF S, nm
<1> QED
  BY <1>7, <1>8, <1>9, StackedNext

(* A run begins: its ENTERED opens a bracket. *)
LEMMA EntersBrackets ==
  ASSUME DemoInv, BracketInv, TypeOK', NEW cfg \in Configs, RunEnters(cfg),
         wiped' = IF wiped > Len(frames') THEN Len(frames') ELSE wiped
  PROVE  BracketInv'
<1> DEFINE S == InsideOf(frames, wiped)
           nm == Named(frames)
           b == BlockName(cfg)
           n == Len(frames)
           top == n + 1
           nm2 == NamedWith(S, nm, top, b)
           f == NewFrame(b, cfg.max_failures, cfg.timeout_ms)
<1>1. frames \in Seq(Frame) /\ wiped \in 0 .. n /\ n \in Nat
  BY DemoFacts
<1>2. b \in Names
  BY GuardRunAssumption DEF BlockName
<1>3. Stacked(World.log, S, nm)
  BY DEF BracketInv, World
<1>4. S \in SUBSET (1 .. n)
  BY <1>1, InsideType
<1>5. frames' = Append(frames, f) /\ log' = Emit(World, b, "ENTERED", "ENTERED").log
  BY DEF RunEnters, Becomes
<1>6. f.phase # "recovery" /\ f.block_name = b
  BY DEF NewFrame
<1> HIDE DEF f, b
<1>7. OneLonger(frames, frames', n) /\ frames'[n + 1] = f
  BY <1>1, <1>5, FramePushed
<1>8. wiped' = wiped
  <2>1. Len(frames') = n + 1
    BY <1>7 DEF OneLonger
  <2> DEFINE m == Len(frames')
  <2>2. m = n + 1
    BY <2>1
  <2> HIDE DEF n, m
  <2>3. m \in Nat /\ m >= n
    BY <1>1, <2>2
  <2> QED
    BY <2>3, WipedKept DEF n, m
<1>9. n = Len(frames)
  OBVIOUS
<1> HIDE DEF S, nm, n
<1>10. /\ InsideOf(frames', wiped) = S \cup {n + 1}
       /\ \A p \in 1 .. n : Named(frames')[p] = nm[p]
       /\ Named(frames')[n + 1] = b
  <2>1. frames'[n + 1].phase # "recovery" /\ frames'[n + 1].block_name = b
    BY <1>6, <1>7
  <2> QED
    BY <1>1, <1>7, <1>9, <2>1, InsidePushed DEF S, nm
<1>11. top \in Int /\ \A p \in S : p < top
  BY <1>1, <1>4
<1>12. top \notin S
  BY <1>11, <1>4, <1>1
<1>13. top = n + 1
  OBVIOUS
<1> HIDE DEF top, nm2
<1>14. Stacked(log', S \cup {top}, nm2)
  BY <1>2, <1>3, <1>5, <1>11, EnteredOpens DEF nm2
<1>15. nm2[top] = b /\ \A p \in S : nm2[p] = nm[p]
  BY <1>12, NamedWithIs DEF nm2
<1>16. \A p \in S \cup {top} : Named(frames')[p] = nm2[p]
  BY <1>4, <1>10, <1>13, <1>15
<1>17. InsideOf(frames', wiped') = S \cup {top}
  BY <1>8, <1>10, <1>13
<1> QED
  BY <1>14, <1>16, <1>17, StackedNext

(* A run that ends: whatever it emitted, then COMPLETED. *)
LEMMA EndBrackets ==
  ASSUME DemoInv, BracketInv, InFn, NEW w, NEW b \in Names, NEW success,
         Stacked(w.log, InsideOf(frames, wiped), Named(frames)),
         Complete(w, b, success),
         frames' = Below \/ \E q : frames' = Append(Below, RecoveryFrame(q)),
         wiped' = IF wiped > Len(frames') THEN Len(frames') ELSE wiped
  PROVE  BracketInv'
<1> DEFINE S == InsideOf(frames, wiped)
           nm == Named(frames)
           n == Len(frames)
<1>1. frames # <<>> /\ Top.phase # "recovery"
  BY DEF InFn
<1>2. (S # {} => n \in S) /\ \A p \in S : p <= n
  BY <1>1, TopInside
<1>3. Stacked(w.log, S, nm)
  OBVIOUS
<1> HIDE DEF S, nm, n
<1>4. Stacked(log', S \ {n}, nm)
  BY <1>2, <1>3, CompleteStacks
<1> QED
  BY <1>1, <1>4, PoppedBrackets DEF S, nm, n

LEMMA EndsBracket ==
  ASSUME DemoInv, BracketInv,
         FnTimedOut \/ FnReturnOk \/ FnReturnError \/ FnReturnIncident,
         wiped' = IF wiped > Len(frames') THEN Len(frames') ELSE wiped
  PROVE  BracketInv'
<1> DEFINE b == Top.block_name
<1>1. InFn
  BY DEF FnTimedOut, FnReturnOk, FnReturnError, FnReturnIncident
<1>2. b \in Names
  <2>1. Top \in Frame
    BY <1>1, TopType DEF DemoInv, DemoTypeOK, InFn
  <2> QED
    BY <2>1 DEF Frame
<1>3. Stacked(World.log, InsideOf(frames, wiped), Named(frames))
  BY DEF BracketInv, World
<1>4. frames' = Below \/ \E q : frames' = Append(Below, RecoveryFrame(q))
  BY FailUnder DEF FnTimedOut, FnReturnOk, FnReturnError, FnReturnIncident
<1>5. \E w, success : /\ Stacked(w.log, InsideOf(frames, wiped), Named(frames))
                      /\ Complete(w, b, success)
  <2>1. CASE FnTimedOut
    <3>1. Complete(Emit(World, b, "TIMEOUT", "TIMEOUT"), b, FALSE)
      BY <2>1 DEF FnTimedOut
    <3>2. Stacked(Emit(World, b, "TIMEOUT", "TIMEOUT").log, InsideOf(frames, wiped), Named(frames))
      BY <1>2, <1>3, EmitOther DEF Kinds, Reasons
    <3> QED
      BY <3>1, <3>2
  <2>2. CASE FnReturnOk
    <3>1. Complete(Emit(World, b, "OK", "OK"), b, TRUE)
      BY <2>2 DEF FnReturnOk
    <3>2. Stacked(Emit(World, b, "OK", "OK").log, InsideOf(frames, wiped), Named(frames))
      BY <1>2, <1>3, EmitOther DEF Kinds, Reasons
    <3> QED
      BY <3>1, <3>2
  <2>3. CASE FnReturnError
    <3>1. Complete(Emit(World, b, "ERROR", "ERROR"), b, FALSE)
      BY <2>3 DEF FnReturnError
    <3>2. Stacked(Emit(World, b, "ERROR", "ERROR").log, InsideOf(frames, wiped), Named(frames))
      BY <1>2, <1>3, EmitOther DEF Kinds, Reasons
    <3> QED
      BY <3>1, <3>2
  <2>4. CASE FnReturnIncident
    <3>1. Complete(World, b, FALSE)
      BY <2>4 DEF FnReturnIncident
    <3> QED
      BY <1>3, <3>1
  <2> QED
    BY <2>1, <2>2, <2>3, <2>4
<1> HIDE DEF b
<1> QED
  BY <1>1, <1>2, <1>4, <1>5, EndBrackets

(* An incident emitted inside the function. *)
LEMMA EmitBoundsBrackets ==
  ASSUME DemoInv, BracketInv, FnEmitBounds,
         wiped' = IF wiped > Len(frames') THEN Len(frames') ELSE wiped
  PROVE  BracketInv'
<1> DEFINE S == InsideOf(frames, wiped)
           nm == Named(frames)
           n == Len(frames)
           b == Top.block_name
<1>1. frames \in Seq(Frame) /\ wiped \in 0 .. n /\ n \in Nat
  BY DemoFacts
<1>2. InFn
  BY DEF FnEmitBounds
<1>3. b \in Names
  <2>1. Top \in Frame
    BY <1>2, TopType DEF DemoInv, DemoTypeOK, InFn
  <2> QED
    BY <2>1 DEF Frame
<1>4. Stacked(World.log, S, nm)
  BY DEF BracketInv, World
<1>5. log' = Emit(World, b, "OUT_OF_BOUNDS", "BOUNDS").log
  BY DEF FnEmitBounds, Becomes
<1>6. PICK event, persisted :
        frames' = [frames EXCEPT ![Len(frames)] =
                     [@ EXCEPT !.last_event = event, !.persisted = persisted]]
  BY DEF FnEmitBounds
<1>7. DOMAIN frames = 1 .. n /\ \A p \in 1 .. n : frames[p] \in Frame
  BY <1>1
<1>8. /\ DOMAIN frames' = 1 .. n /\ Len(frames') = n
      /\ \A p \in 1 .. n : /\ frames'[p].phase = frames[p].phase
                           /\ frames'[p].block_name = frames[p].block_name
  <2> DEFINE g == [frames[n] EXCEPT !.last_event = event, !.persisted = persisted]
  <2>1. frames' = [frames EXCEPT ![n] = g]
    BY <1>6
  <2>2. frames[n] \in Frame
    BY <1>2, <1>1, <1>7 DEF InFn
  <2>3. g.phase = frames[n].phase /\ g.block_name = frames[n].block_name
    BY <2>2 DEF Frame
  <2>4. DOMAIN frames' = 1 .. n /\ Len(frames') = n
    BY <1>1, <2>1
  <2> HIDE DEF g, n
  <2>5. \A p \in 1 .. n : frames'[p] = IF p = n THEN g ELSE frames[p]
    BY <1>7, <2>1
  <2> QED
    BY <2>3, <2>4, <2>5
<1>9. n = Len(frames)
  OBVIOUS
<1> HIDE DEF n, b
<1>10. wiped' = wiped
  BY <1>1, <1>8
<1>11. /\ InsideOf(frames', wiped) = S
       /\ \A p \in InsideOf(frames', wiped) : Named(frames')[p] = nm[p]
  BY <1>1, <1>8, <1>9, FramesKeptInside
<1> HIDE DEF S, nm
<1>12. Stacked(log', S, nm)
  BY <1>3, <1>4, <1>5, EmitOther DEF Kinds, Reasons
<1> QED
  BY <1>10, <1>11, <1>12, StackedNext

(* The other steps of the guard emit nothing. *)
LEMMA QuietBrackets ==
  ASSUME DemoInv, BracketInv,
         \/ RunNull \/ SetRecoveryCallback \/ AdapterRecoveryReset
         \/ RecoveryReturn \/ Tick \/ UNCHANGED vars,
         wiped' = IF wiped > Len(frames') THEN Len(frames') ELSE wiped
  PROVE  BracketInv'
<1> DEFINE S == InsideOf(frames, wiped)
           nm == Named(frames)
           n == Len(frames)
<1>1. frames \in Seq(Frame) /\ wiped \in 0 .. n /\ n \in Nat /\ DOMAIN frames = 1 .. n
  BY DemoFacts
<1>2. log' = log
  BY DEF RunNull, SetRecoveryCallback, AdapterRecoveryReset, RecoveryReturn, Tick, vars
<1>3. Stacked(log', S, nm)
  BY <1>2 DEF BracketInv
<1>4. CASE RecoveryReturn
  <2>1. frames' = Below /\ frames # <<>> /\ frames[n].phase = "recovery"
    BY <1>4 DEF RecoveryReturn, InRecovery, Top
  <2>2. /\ InsideOf(frames', wiped') = S \ {n}
        /\ \A p \in InsideOf(frames', wiped') : Named(frames')[p] = nm[p]
    <3>1. frames' = Below \/ \E q : frames' = Append(Below, RecoveryFrame(q))
      BY <2>1
    <3>2. frames # <<>>
      BY <2>1
    <3> HIDE <1>4, <2>1
    <3> QED
      BY <1>1, <3>1, <3>2, InsidePopped DEF Below
  <2>3. n \notin S
    BY <2>1 DEF InsideOf
  <2>4. InsideOf(frames', wiped') = S
    BY <2>2, <2>3
  <2> QED
    BY <1>3, <2>2, <2>4, StackedNext
<1>5. CASE Tick
  <2>1. frames' = [i \in DOMAIN frames |->
          IF frames[i].phase = "recovery" THEN frames[i]
                                          ELSE [frames[i] EXCEPT !.elapsed = @ + 1]]
    BY <1>5 DEF Tick
  <2>2. \A p \in 1 .. n : frames[p] \in Frame
    BY <1>1
  <2>3. /\ DOMAIN frames' = 1 .. n /\ Len(frames') = n
    BY <1>1, <2>1
  <2>4. n = Len(frames)
    OBVIOUS
  <2> HIDE DEF n
  <2>5. \A p \in 1 .. n : /\ frames'[p].phase = frames[p].phase
                          /\ frames'[p].block_name = frames[p].block_name
    BY <1>1, <2>1, <2>2 DEF Frame
  <2>6. wiped' = wiped
    BY <1>1, <2>3
  <2>7. /\ InsideOf(frames', wiped) = S
        /\ \A p \in InsideOf(frames', wiped) : Named(frames')[p] = nm[p]
    BY <1>1, <2>3, <2>4, <2>5, FramesKeptInside
  <2> HIDE DEF S, nm
  <2> QED
    BY <1>3, <2>6, <2>7, StackedNext
<1>6. CASE RunNull \/ SetRecoveryCallback \/ AdapterRecoveryReset \/ UNCHANGED vars
  <2>1. frames' = frames
    BY <1>6 DEF RunNull, SetRecoveryCallback, AdapterRecoveryReset, vars
  <2>2. wiped' = wiped
    <3>1. Len(frames') = n
      BY <2>1
    <3> HIDE DEF n
    <3> QED
      BY <1>1, <3>1
  <2> QED
    BY <1>3, <2>1, <2>2, StackedNext
<1> QED
  BY <1>4, <1>5, <1>6

LEMMA GuardBrackets ==
  ASSUME DemoInv, BracketInv, TypeOK', [Next]_vars,
         wiped' = IF wiped > Len(frames') THEN Len(frames') ELSE wiped
  PROVE  BracketInv'
<1>1. CASE RunQuarantined
  <2>1. /\ Refuse(LookedUp(Top.block_name), Below, Top, "QUARANTINED") /\ Entering
        /\ "QUARANTINED" \in Reasons
    BY <1>1 DEF RunQuarantined, Reasons
  <2>2. LookedUp(Top.block_name).log = log
    BY DEF LookedUp, World
  <2> QED
    BY <2>1, <2>2, RefuseBrackets
<1>2. CASE RunBreakerOpen
  <2> DEFINE b == Top.block_name
             w == [LookedUp(b) EXCEPT !.blocks = GetBlock(AttemptChecked(@, b), b)]
  <2>1. /\ Refuse(w, Below, Top, "BREAKER_OPEN") /\ Entering
        /\ "BREAKER_OPEN" \in Reasons
    BY <1>2 DEF RunBreakerOpen, Reasons
  <2>2. w.log = log
    BY DEF LookedUp, World
  <2> HIDE DEF w, b
  <2> QED
    BY <2>1, <2>2, RefuseBrackets
<1>3. CASE RunAdmitted
  BY <1>3, AdmittedBrackets
<1>4. ASSUME NEW cfg \in Configs, RunEnters(cfg)
      PROVE  BracketInv'
  BY <1>4, EntersBrackets
<1> QED
  BY <1>1, <1>2, <1>3, <1>4, EndsBracket, EmitBoundsBrackets, QuietBrackets DEF Next

(* A demo leaves nobody inside. *)
LEMMA DemoLeavesNone ==
  ASSUME DemoInv, wiped' = Len(frames), NEW nm, Stacked(log', {}, nm),
         frames' = frames \/ \E q : frames' = Append(frames, RecoveryFrame(q))
  PROVE  BracketInv'
<1>1. frames \in Seq(Frame) /\ Len(frames) \in 0 .. Len(frames)
  BY DemoFacts
<1>2. InsideOf(frames', Len(frames)) = InsideOf(frames, Len(frames))
  BY <1>1, InsideUnder
<1>3. InsideOf(frames', wiped') = {}
  BY <1>1, <1>2, NoneInside
<1> QED
  BY <1>3, StackedNext

(* What a demo stored, up to its COMPLETED: ENTERED, and one event more. *)
LEMMA DemoOpens ==
  ASSUME NEW b \in Names, NEW w, w.log = DemoEntered(b).log
  PROVE  \E nm : Stacked(w.log, {1}, nm)
<1> DEFINE v == [World EXCEPT !.log = <<>>]
           nm == NamedWith({}, <<>>, 1, b)
<1>1. Stacked(<<>>, {}, <<>>)
  BY NothingStored
<1>2. v.log = <<>>
  BY DEF World
<1>3. w.log = Emit(v, b, "ENTERED", "ENTERED").log
  BY DEF DemoEntered
<1> HIDE DEF v, nm
<1>4. Stacked(Emit(v, b, "ENTERED", "ENTERED").log, {} \cup {1}, nm)
  <2> DEFINE S == {}
  <2>1. (\A p \in S : p < 1) /\ 1 \in Int
    OBVIOUS
  <2>2. Stacked(v.log, S, <<>>)
    BY <1>1, <1>2
  <2> HIDE DEF S
  <2>3. Stacked(Emit(v, b, "ENTERED", "ENTERED").log, S \cup {1}, NamedWith(S, <<>>, 1, b))
    BY <2>1, <2>2, EnteredOpens
  <2> QED
    BY <2>3 DEF S, nm
<1>5. Stacked(w.log, {1}, nm)
  BY <1>3, <1>4
<1> QED
  BY <1>5

LEMMA DemoStacks ==
  ASSUME NEW b \in Names, NEW kind \in Kinds \ {"ENTERED", "COMPLETED"}, NEW reason \in Reasons,
         NEW w, w.log = DemoEntered(b).log
  PROVE  \E nm : Stacked(Emit(w, b, kind, reason).log, {1}, nm)
<1>1. PICK nm : Stacked(w.log, {1}, nm)
  BY DemoOpens
<1>2. Stacked(Emit(w, b, kind, reason).log, {1}, nm)
  BY <1>1, EmitOther
<1> QED
  BY <1>2

LEMMA DemoFailsUnder ==
  ASSUME NEW b, NEW kind, NEW reason, DemoFails(b, kind, reason)
  PROVE  frames' = frames \/ \E q : frames' = Append(frames, RecoveryFrame(q))
BY FailUnder DEF DemoFails

LEMMA DemoBrackets ==
  ASSUME DemoInv, NEW b \in Names, NEW kind \in Kinds \ {"ENTERED", "COMPLETED"},
         NEW reason \in Reasons, Demo(b, kind, reason)
  PROVE  BracketInv'
<1> DEFINE w == Emit(DemoEntered(b), b, kind, reason)
<1>1. \E nm : Stacked(w.log, {1}, nm)
  BY DemoStacks
<1>2. PICK nm : Stacked(w.log, {1}, nm)
  BY <1>1
<1>3. log' = Emit(w, b, "COMPLETED", "COMPLETED").log
  BY DEF Demo, Becomes
<1> HIDE DEF w
<1>4. Stacked(Emit(w, b, "COMPLETED", "COMPLETED").log, {1} \ {1}, nm)
  <2> DEFINE S == {1}
  <2>1. 1 \in S /\ \A p \in S : p <= 1
    OBVIOUS
  <2> HIDE DEF S
  <2>2. Stacked(w.log, S, nm)
    BY <1>2 DEF S
  <2>3. Stacked(Emit(w, b, "COMPLETED", "COMPLETED").log, S \ {1}, nm)
    BY <2>1, <2>2, EmitCompleted
  <2> QED
    BY <2>3 DEF S
<1>5. Stacked(log', {}, nm)
  BY <1>3, <1>4
<1>6. DemoFails(b, kind, reason) /\ wiped' = Len(frames)
  BY DEF Demo
<1> QED
  BY <1>5, <1>6, DemoFailsUnder, DemoLeavesNone

LEMMA ParserRefusedBrackets == DemoInv /\ ParserRefused => BracketInv'
<1> SUFFICES ASSUME DemoInv, ParserRefused PROVE BracketInv'
  OBVIOUS
<1> DEFINE w == [DemoEntered(ParserName) EXCEPT !.blocks = AttemptChecked(@, ParserName)]
           f == NewFrame(ParserName, 0, 0)
<1>1. ParserName \in Names /\ "BREAKER_OPEN" \in Reasons /\ f.block_name = ParserName
  BY GuardDemosAssumption DEF Reasons, NewFrame
<1>2. Refuse(w, frames, f, "BREAKER_OPEN") /\ wiped' = Len(frames)
  BY DEF ParserRefused
<1>3. w.log = DemoEntered(ParserName).log
  BY DEF DemoEntered, Emit
<1> HIDE DEF w, f
<1>4. PICK nm : Stacked(w.log, {1}, nm)
  BY <1>1, <1>3, DemoOpens
<1>5. Stacked(log', {}, nm)
  <2> DEFINE S == {1}
  <2>1. 1 \in S /\ \A p \in S : p <= 1
    OBVIOUS
  <2> HIDE DEF S
  <2>2. Stacked(w.log, S, nm)
    BY <1>4 DEF S
  <2>3. Stacked(log', S \ {1}, nm)
    BY <1>1, <1>2, <2>1, <2>2, RefuseStacks
  <2>4. S \ {1} = {}
    BY DEF S
  <2> QED
    BY <2>3, <2>4
<1>6. frames' = frames \/ \E q : frames' = Append(frames, RecoveryFrame(q))
  BY <1>2, FailUnder DEF Refuse
<1> QED
  BY <1>2, <1>5, <1>6, DemoLeavesNone

(* The parser demo, admitted. *)
LEMMA ParserStacks ==
  ASSUME NEW kind \in Kinds \ {"ENTERED", "COMPLETED"}, NEW reason \in Reasons, NEW success,
         Complete(Emit(ParserAdmitted, ParserName, kind, reason), ParserName, success)
  PROVE  \E nm : Stacked(log', {}, nm)
<1> DEFINE w == Emit(ParserAdmitted, ParserName, kind, reason)
<1>1. ParserName \in Names
  BY GuardDemosAssumption
<1>2. ParserAdmitted.log = DemoEntered(ParserName).log
  BY DEF ParserAdmitted, DemoEntered, Emit
<1>3. \E nm : Stacked(w.log, {1}, nm)
  BY <1>1, <1>2, DemoStacks
<1>4. PICK nm : Stacked(w.log, {1}, nm)
  BY <1>3
<1>5. Complete(w, ParserName, success)
  OBVIOUS
<1> HIDE DEF w
<1>6. Stacked(log', {1} \ {1}, nm)
  <2> DEFINE S == {1}
  <2>1. 1 \in S /\ \A p \in S : p <= 1
    OBVIOUS
  <2> HIDE DEF S
  <2>2. Stacked(w.log, S, nm)
    BY <1>4 DEF S
  <2>3. Stacked(log', S \ {1}, nm)
    BY <1>1, <1>5, <2>1, <2>2, CompleteStacks
  <2> QED
    BY <2>3 DEF S
<1>7. Stacked(log', {}, nm)
  BY <1>6
<1> QED
  BY <1>7

LEMMA ParserOkBrackets == DemoInv /\ ParserOk => BracketInv'
<1> SUFFICES ASSUME DemoInv, ParserOk PROVE BracketInv'
  OBVIOUS
<1>1. /\ Complete(Emit(ParserAdmitted, ParserName, "OK", "OK"), ParserName, TRUE)
      /\ wiped' = Len(frames) /\ frames' = frames
  BY DEF ParserOk
<1>2. \E nm : Stacked(log', {}, nm)
  BY <1>1, ParserStacks DEF Kinds, Reasons
<1> QED
  BY <1>1, <1>2, DemoLeavesNone

LEMMA ParserFailedBrackets == DemoInv /\ ParserFailed => BracketInv'
<1> SUFFICES ASSUME DemoInv, ParserFailed PROVE BracketInv'
  OBVIOUS
<1>1. PICK incident \in ParserIncidents :
        /\ Complete(Emit(ParserAdmitted, ParserName, incident[1], incident[2]), ParserName, FALSE)
        /\ DemoFails(ParserName, incident[1], incident[2])
        /\ wiped' = Len(frames)
  BY DEF ParserFailed
<1>2. incident[1] \in Kinds \ {"ENTERED", "COMPLETED"} /\ incident[2] \in Reasons
  BY DEF ParserIncidents, Kinds, Reasons
<1>3. \E nm : Stacked(log', {}, nm)
  BY <1>1, <1>2, ParserStacks
<1> QED
  BY <1>1, <1>3, DemoFailsUnder, DemoLeavesNone

(* A backend's event is no bracket. *)
LEMMA BackendBrackets == DemoInv /\ BracketInv /\ BackendReport => BracketInv'
<1> SUFFICES ASSUME DemoInv, BracketInv, BackendReport PROVE BracketInv'
  OBVIOUS
<1>1. PICK b \in Names, event \in {<<"TIMEOUT", "RTOS_TIMEOUT">>,
                                   <<"MEMORY_FAULT", "MPU_FAULT">>} :
        log' = Stored(log, [kind |-> event[1], block_name |-> b, reason |-> event[2]])
  BY DEF BackendReport
<1> DEFINE e == [kind |-> event[1], block_name |-> b, reason |-> event[2]]
<1>2. e \in Event /\ e.kind \notin {"ENTERED", "COMPLETED"}
  BY DEF Event, Kinds, Reasons
<1>3. log' = Stored(log, e)
  BY <1>1
<1> HIDE DEF e
<1>4. Stacked(log', InsideOf(frames, wiped), Named(frames))
  BY <1>2, <1>3, OtherStored DEF BracketInv
<1>5. frames' = frames /\ wiped' = wiped
  BY DEF BackendReport
<1> QED
  BY <1>4, <1>5, StackedNext

LEMMA BracketNext ==
  DemoInv /\ DemoInv' /\ BracketInv /\ [DemoNext]_demoVars => BracketInv'
<1> SUFFICES ASSUME DemoInv, DemoInv', BracketInv, [DemoNext]_demoVars PROVE BracketInv'
  OBVIOUS
<1>1. TypeOK'
  BY DEF DemoInv, DemoTypeOK
<1>2. CASE GuardStep
  BY <1>1, <1>2, GuardBrackets DEF GuardStep
<1>3. CASE TimeoutDemo \/ PanicDemo \/ FaultDemo
  BY <1>3, DemoBrackets, GuardDemosAssumption
  DEF TimeoutDemo, PanicDemo, FaultDemo, Kinds, Reasons
<1>4. CASE RtosDemo
  BY <1>4, DemoBrackets, TaskNameType, GuardDemosAssumption DEF RtosDemo, Kinds, Reasons
<1>5. CASE MpuDemo
  BY <1>5, DemoBrackets, TaskNameType, GuardDemosAssumption DEF MpuDemo, Kinds, Reasons
<1>6. CASE SetPort \/ UNCHANGED demoVars
  <2>1. log' = log /\ frames' = frames /\ wiped' = wiped
    BY <1>6 DEF SetPort, demoVars, vars
  <2>2. Stacked(log', InsideOf(frames, wiped), Named(frames))
    BY <2>1 DEF BracketInv
  <2> QED
    BY <2>1, <2>2, StackedNext
<1> QED
  BY <1>2, <1>3, <1>4, <1>5, <1>6, ParserRefusedBrackets, ParserOkBrackets,
     ParserFailedBrackets, BackendBrackets DEF DemoNext

LEMMA BracketInit == DemoInit => BracketInv
<1> SUFFICES ASSUME DemoInit PROVE BracketInv
  OBVIOUS
<1>1. log = <<>> /\ frames = <<>> /\ wiped = 0
  BY DEF DemoInit, Init
<1>2. InsideOf(frames, wiped) = {}
  BY <1>1 DEF InsideOf
<1> QED
  BY <1>1, <1>2, NothingStored DEF BracketInv

LEMMA BracketMeans == DemoInv /\ BracketInv => LogIsBracketed
<1> SUFFICES ASSUME DemoInv, BracketInv PROVE LogIsBracketed
  OBVIOUS
<1> DEFINE open == OpenEntries(log)
<1>1. frames \in Seq(Frame) /\ wiped \in 0 .. Len(frames)
  BY DemoFacts
<1>2. Inside = InsideOf(frames, wiped)
  BY DEF Inside, InsideOf
<1>3. Stacked(log, Inside, Named(frames)) /\ log \in Seq(Event) /\ Len(log) <= Capacity
  BY <1>2 DEF BracketInv, Stacked, Logs
<1>4. \A p \in Inside : Named(frames)[p] = frames[p].block_name
  BY <1>1, <1>2, InsideType
<1>5. \A i \in open : log[i].kind = "ENTERED"
  BY <1>3, OpenEntriesType
<1>6. IsFiniteSet(open) /\ IsFiniteSet(Inside)
  BY <1>1, <1>2, <1>3, OpenEntriesType, InsideType
<1>7. Cardinality(open) \in Nat /\ Cardinality(Inside) \in Nat
  BY <1>6, FS_CardinalityType
<1>8. /\ Cardinality(open) <= Cardinality(Inside)
      /\ \A i \in open : \E p \in Inside :
           After(Inside, p) = After(open, i) /\ frames[p].block_name = log[i].block_name
  BY <1>3, <1>4 DEF Stacked, Bracketed
<1>9. Cardinality(open) < Cardinality(Inside) => Len(log) = Capacity
  <2>1. Len(log) < Capacity => Cardinality(open) = Cardinality(Inside)
    BY <1>3 DEF Stacked, NoneMissing
  <2>2. Len(log) \in Nat /\ Capacity \in Nat
    BY <1>3, CapacityAssumption
  <2> DEFINE c == Cardinality(open)
             d == Cardinality(Inside)
             m == Len(log)
  <2>3. m \in Nat /\ m <= Capacity /\ c \in Nat /\ d \in Nat /\ (m < Capacity => c = d)
    BY <1>3, <1>7, <2>1, <2>2
  <2> HIDE DEF c, d, m
  <2>4. c < d => m = Capacity
    BY <2>2, <2>3
  <2> QED
    BY <2>4 DEF c, d, m
<1> HIDE DEF open
<1> QED
  BY <1>5, <1>8, <1>9 DEF LogIsBracketed, open

-----------------------------------------------------------------------------
(* The theorems on runs with demos. *)

(* The inductive invariant holds in every state runs and demos reach. *)
THEOREM DemosKeepInv == DemoSpec => []DemoInv
<1> QED
  BY DemoInitInv, DemoNextStep, PTL DEF DemoSpec

(* lox_failure_streak_for_block never charges a block with another's failures,
   when demos emit for the same blocks too. *)
THEOREM DemosNeverOvercount == DemoSpec => []StreakNeverOvercounts
<1>1. DemoInv => StreakNeverOvercounts
  BY BoundedMeansNoOvercount DEF DemoInv
<1> QED
  BY <1>1, DemosKeepInv, PTL

(* A run is quarantined only for incidents of its own block, those of demos
   included. *)
THEOREM DemosJustifyQuarantine == DemoSpec => QuarantineJustified
<1>1. DemoInv =>
        (RunQuarantined => incidents[Top.block_name] >= Top.max_failures)
  BY QuarantineStep DEF DemoInv, DemoTypeOK
<1> QED
  BY <1>1, DemosKeepInv, PTL DEF QuarantineJustified

(* The breaker of a block counts its failed runs, the parser demo's included;
   the other demos emit incidents and leave it alone. *)
THEOREM DemosKeepBreakers == DemoSpec => []BreakerCountsFailedRuns
<1>1. DemoInv => BreakerCountsFailedRuns
  BY AgreedMeansProperties DEF DemoInv
<1> QED
  BY <1>1, DemosKeepInv, PTL

(* The health lox_emit_event_ex leaves behind follows the streak, whether runs
   or demos emitted. *)
THEOREM DemosKeepHealth == DemoSpec => []HealthFollowsStreak
<1>1. DemoInv => HealthFollowsStreak
  BY AgreedMeansProperties DEF DemoInv
<1> QED
  BY <1>1, DemosKeepInv, PTL

(* The black box tells where the program is: the ENTERED events without
   COMPLETED are the runs that began and did not end, innermost last, at any
   capacity of the log, any nesting and with demos that clear it in between. *)
THEOREM DemosBracketLog == DemoSpec => []LogIsBracketed
<1>1. DemoInit => BracketInv
  BY BracketInit
<1>2. DemoInv /\ DemoInv' /\ BracketInv /\ [DemoNext]_demoVars => BracketInv'
  BY BracketNext
<1>3. DemoInv /\ BracketInv => LogIsBracketed
  BY BracketMeans
<1> QED
  BY <1>1, <1>2, <1>3, DemosKeepInv, PTL DEF DemoSpec
=============================================================================
