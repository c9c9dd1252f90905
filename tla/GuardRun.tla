------------------------------ MODULE GuardRun ------------------------------
(***************************************************************************)
(* loxguard_run with everything it calls in the library: event emission,    *)
(* failure streaks, block states, quarantine, breaker, timeout, policy,     *)
(* report and recovery callback.                                            *)
(*                                                                          *)
(* The library is single threaded, but it calls out twice: into the guarded  *)
(* function and into the recovery callback.  Either may call the library     *)
(* again, so runs nest, in any order of blocks.  `frames' is the stack of    *)
(* runs begun.  A step of this module is what the library does between two   *)
(* such calls, but for the entry of a run, which is two: ENTERED is logged   *)
(* and persisted on the run's time, after start_ticks was read and before    *)
(* the run is refused or its function called.                                *)
(***************************************************************************)
EXTENDS FailureStreaks, BlockStates

CONSTANTS
  DefaultBlock,  \* "guard_block", the name of a run configured without one
  Configs,       \* the block configurations the application uses
  ClockMod,      \* 2^32: now_ms is a uint32_t
  MaxDepth,      \* bound: runs nested at a time
  MaxElapsed     \* bound: ticks from a run's read of start_ticks to its end

ASSUME GuardRunAssumption ==
  /\ DefaultBlock \in Names
  /\ Configs \subseteq [name : Names \cup {NoName},
                        max_failures : Nat, timeout_ms : Nat]
  /\ ClockMod \in Nat \ {0}
  /\ MaxDepth \in Nat /\ MaxElapsed \in Nat

VARIABLES
  streaks,    \* g_failure_streaks and its overflow
  blocks,     \* g_block_states, its overflow, g_active_block_slot
  log,        \* the caller's black box, as EventLog specifies it
  now,        \* the clock behind lox_adapter_now_ms
  callback,   \* g_recovery_cb is set
  frames,     \* the runs begun and not returned, outermost first
  report,     \* the report returned last
  incidents,  \* history: incidents of each block since its last OK, to StreakMod
  failedRuns  \* history: failed runs of each block since its last success

vars == <<streaks, blocks, log, now, callback, frames, report, incidents, failedRuns>>

Reasons == {"NONE", "NULL", "ENTERED", "OK", "COMPLETED", "ERROR", "TIMEOUT",
            "BOUNDS", "QUARANTINED", "BREAKER_OPEN", "ARENA", "PANIC", "FAULT",
            "RTOS_TIMEOUT", "RTOS_UNSUPPORTED", "MPU_FAULT", "MPU_UNSUPPORTED"}

Results == {"NONE", "OK", "ERROR", "TIMEOUT", "BOUNDS", "ARENA",
            "MEMORY_FAULT", "UNSUPPORTED"}

Event == [kind : Kinds, block_name : Names, reason : Reasons]

(* last_event of a fresh context. *)
NoEvent == [kind |-> "NONE", block_name |-> NoName, reason |-> "NONE"]

(* `took' and `limit' are history: the true time from the read of start_ticks
   to that of end_ticks, and the configured timeout. *)
Report == [last_block : Names \cup {NoName}, last_failed_block : Names \cup {NoName},
           reason : Reasons, action : {"NONE", "DROP_INPUT"}, result : Results,
           duration_ticks : 0 .. ClockMod - 1, event_persisted : BOOLEAN,
           took : Nat, limit : Nat]

NoReport == [last_block |-> NoName, last_failed_block |-> NoName,
             reason |-> "NONE", action |-> "NONE", result |-> "NONE",
             duration_ticks |-> 0, event_persisted |-> FALSE,
             took |-> 0, limit |-> 0]

(* A run that has emitted ENTERED, one inside its guarded function, or, once
   `phase' is "recovery", inside the recovery callback with the report it will
   return. *)
Frame == [phase : {"entering", "fn", "recovery"}, block_name : Names,
          max_failures : Nat, timeout_ms : Nat,
          start : 0 .. ClockMod - 1, elapsed : Nat,
          last_event : Event \cup {NoEvent}, persisted : BOOLEAN,
          report : Report]

BlockName(cfg) == IF cfg.name = NoName THEN DefaultBlock ELSE cfg.name

-----------------------------------------------------------------------------
(* Emission of one event: lox_emit_event_ex. *)

(* The state an emission changes, threaded through the emissions of a step. *)
World == [streaks |-> streaks, blocks |-> blocks, log |-> log,
          incidents |-> incidents]

Becomes(w) ==
  /\ streaks' = w.streaks
  /\ blocks' = w.blocks
  /\ log' = w.log
  /\ incidents' = w.incidents

(* The health level the kind alone asks for; COMPLETED asks for none. *)
KindHealth(t, b, kind) ==
  IF kind = "ENTERED" THEN SetHealth(t, b, 1)
  ELSE IF kind = "OK" THEN SetHealth(t, b, 0)
  ELSE IF kind = "TIMEOUT" THEN SetHealth(t, b, 2)
  ELSE IF kind = "UNSUPPORTED" THEN SetHealth(t, b, 4)
  ELSE IF kind \in IncidentKinds THEN SetHealth(t, b, 3)
  ELSE t

(* Mutant: the thresholds are exceeded, not reached. *)
StreakHealth_Exceeded(t, b, streak) ==
  IF streak > 5 THEN SetHealth(t, b, 5)
  ELSE IF streak > 3 THEN SetHealth(t, b, 4)
  ELSE t

(* The streak has the last word. *)
StreakHealth(t, b, streak) ==
  IF streak >= 5 THEN SetHealth(t, b, 5)
  ELSE IF streak >= 3 THEN SetHealth(t, b, 4)
  ELSE t

(* The history stops at StreakMod, where a streak may have wrapped. *)
Incremented(count, b, kind) ==
  IF kind = "OK" THEN [count EXCEPT ![b] = 0]
  ELSE IF kind \in IncidentKinds
       THEN [count EXCEPT ![b] = IF @ < StreakMod THEN @ + 1 ELSE @]
  ELSE count

Emit(w, b, kind, reason) ==
  LET i  == StreakAt(w.streaks, b)
      s  == StreakCounted(StreakClaimed(w.streaks, b), i, kind)
      t1 == ObserveEvent(w.blocks, b, kind)
      t2 == KindHealth(t1, b, kind)
  IN  [streaks   |-> s,
       blocks    |-> StreakHealth(t2, b, s[i].streak),
       log       |-> Stored(w.log, [kind |-> kind, block_name |-> b, reason |-> reason]),
       incidents |-> Incremented(w.incidents, b, kind)]

-----------------------------------------------------------------------------
(* Reports: lox_policy_decide and lox_finalize_report. *)

PolicyDecide(kind) == IF kind \in IncidentKinds THEN "DROP_INPUT" ELSE "NONE"

ResultOf(kind) ==
  IF kind = "TIMEOUT" THEN "TIMEOUT"
  ELSE IF kind = "OUT_OF_BOUNDS" THEN "BOUNDS"
  ELSE IF kind = "ARENA_OVERFLOW" THEN "ARENA"
  ELSE IF kind = "MEMORY_FAULT" THEN "MEMORY_FAULT"
  ELSE IF kind = "UNSUPPORTED" THEN "UNSUPPORTED"
  ELSE "ERROR"

FailureReport(f, event, persisted, duration) ==
  [last_block |-> f.block_name, last_failed_block |-> f.block_name,
   reason |-> event.reason, action |-> PolicyDecide(event.kind),
   result |-> ResultOf(event.kind), duration_ticks |-> duration,
   event_persisted |-> persisted, took |-> f.elapsed, limit |-> f.timeout_ms]

SuccessReport(f, persisted, duration) ==
  [last_block |-> f.block_name, last_failed_block |-> NoName,
   reason |-> "NONE", action |-> "NONE",
   result |-> "OK", duration_ticks |-> duration,
   event_persisted |-> persisted, took |-> f.elapsed, limit |-> f.timeout_ms]

(* Mutant: a clock that went past zero counts as no time. *)
Duration_Clamped(f) == IF now < f.start THEN 0 ELSE now - f.start

(* Mutant: the difference is taken in signed arithmetic. *)
Duration_Signed(f) == now - f.start

(* end_ticks - start_ticks in uint32_t. *)
Duration(f) == (now + ClockMod - f.start) % ClockMod

NewFrame(b, max_failures, timeout) ==
  [phase |-> "entering", block_name |-> b, max_failures |-> max_failures,
   timeout_ms |-> timeout, start |-> now, elapsed |-> 0,
   last_event |-> NoEvent, persisted |-> FALSE, report |-> NoReport]

RecoveryFrame(r) ==
  [phase |-> "recovery", block_name |-> r.last_block, max_failures |-> 0,
   timeout_ms |-> 0, start |-> 0, elapsed |-> 0,
   last_event |-> NoEvent, persisted |-> FALSE, report |-> r]

Top   == frames[Len(frames)]
Below == SubSeq(frames, 1, Len(frames) - 1)

Entering   == frames # <<>> /\ Top.phase = "entering"
InFn       == frames # <<>> /\ Top.phase = "fn"
InRecovery == frames # <<>> /\ Top.phase = "recovery"

(* A failure's report passes through the recovery callback if one is set. *)
Fail(below, r) ==
  \/ /\ ~callback
     /\ frames' = below
     /\ report' = r
  \/ /\ callback
     /\ frames' = Append(below, RecoveryFrame(r))
     /\ UNCHANGED report

-----------------------------------------------------------------------------
(* loxguard_run up to the call of fn. *)

(* The application calls the library between runs, from a guarded function or
   from a recovery callback.  Bound of the model: how deep runs nest. *)
MayRun == ~Entering /\ Len(frames) < MaxDepth

(* cfg, cfg->blackbox or fn is NULL: nothing happens but this report. *)
RunNull ==
  /\ ~Entering
  /\ report' = [NoReport EXCEPT !.reason = "NULL", !.result = "ERROR"]
  /\ UNCHANGED <<streaks, blocks, log, now, callback, frames, incidents, failedRuns>>

(* start_ticks is read before ENTERED is emitted. *)
RunEnters(cfg) ==
  LET b == BlockName(cfg)
  IN  /\ MayRun
      /\ Becomes(Emit(World, b, "ENTERED", "ENTERED"))
      /\ frames' = Append(frames, NewFrame(b, cfg.max_failures, cfg.timeout_ms))
      /\ UNCHANGED <<now, callback, report, failedRuns>>

(* The streak is looked up once more for the quarantine test. *)
LookedUp(b) == [World EXCEPT !.streaks = StreakClaimed(@, b)]

(* Mutant: one failure early. *)
Quarantined_Early(w, b, max_failures) ==
  /\ max_failures > 0
  /\ StreakOf(w.streaks, b) + 1 >= max_failures

(* Mutant: one failure late. *)
Quarantined_Late(w, b, max_failures) ==
  /\ max_failures > 0
  /\ StreakOf(w.streaks, b) > max_failures

Quarantined(w, b, max_failures) ==
  /\ max_failures > 0
  /\ StreakOf(w.streaks, b) >= max_failures

(* Mutant: a refusal is reported to the breaker as one more failure. *)
Refuse_Reported(w, below, f, reason) ==
  LET b == f.block_name
      refusal == [kind |-> "ERROR", block_name |-> b, reason |-> reason]
      w1 == Emit(w, b, "ERROR", reason)
  IN  /\ Becomes(Emit([w1 EXCEPT !.blocks = ReportResult(@, b, FALSE)],
                      b, "COMPLETED", "COMPLETED"))
      /\ \E persisted \in BOOLEAN :
           Fail(below, FailureReport(f, refusal, persisted, Duration(f)))
      /\ UNCHANGED <<now, callback, failedRuns>>

(* A run refused without calling fn: its time is measured, but not held
   against its timeout. *)
Refuse(w, below, f, reason) ==
  LET b == f.block_name
      refusal == [kind |-> "ERROR", block_name |-> b, reason |-> reason]
      w1 == Emit(w, b, "ERROR", reason)
  IN  /\ Becomes(Emit(w1, b, "COMPLETED", "COMPLETED"))
      /\ \E persisted \in BOOLEAN :
           Fail(below, FailureReport(f, refusal, persisted, Duration(f)))
      /\ UNCHANGED <<now, callback, failedRuns>>

RunQuarantined ==
  LET b == Top.block_name
      w == LookedUp(b)
  IN  /\ Entering
      /\ Quarantined(w, b, Top.max_failures)
      /\ Refuse(w, Below, Top, "QUARANTINED")

(* The event's aux code is the recovery state: one more look at the table. *)
RunBreakerOpen ==
  LET b == Top.block_name
      w == LookedUp(b)
  IN  /\ Entering
      /\ ~Quarantined(w, b, Top.max_failures)
      /\ ~AttemptAllowed(w.blocks, b)
      /\ Refuse([w EXCEPT !.blocks = GetBlock(AttemptChecked(@, b), b)],
                Below, Top, "BREAKER_OPEN")

(* Mutant: the time is measured from the call of fn. *)
RunAdmitted_RestartsClock ==
  LET b == Top.block_name
      w == LookedUp(b)
  IN  /\ Entering
      /\ ~Quarantined(w, b, Top.max_failures)
      /\ AttemptAllowed(w.blocks, b)
      /\ Becomes([w EXCEPT !.blocks = AttemptChecked(@, b)])
      /\ frames' = [frames EXCEPT ![Len(frames)] = [@ EXCEPT !.phase = "fn", !.start = now]]
      /\ UNCHANGED <<now, callback, report, failedRuns>>

(* fn is called. *)
RunAdmitted ==
  LET b == Top.block_name
      w == LookedUp(b)
  IN  /\ Entering
      /\ ~Quarantined(w, b, Top.max_failures)
      /\ AttemptAllowed(w.blocks, b)
      /\ Becomes([w EXCEPT !.blocks = AttemptChecked(@, b)])
      /\ frames' = [frames EXCEPT ![Len(frames)] = [@ EXCEPT !.phase = "fn"]]
      /\ UNCHANGED <<now, callback, report, failedRuns>>

-----------------------------------------------------------------------------
(* Inside fn, and loxguard_run after it. *)

(* A checked output write beyond the span, or lox_guard_emit_bounds itself. *)
FnEmitBounds ==
  LET b == Top.block_name
      event == [kind |-> "OUT_OF_BOUNDS", block_name |-> b, reason |-> "BOUNDS"]
  IN  /\ InFn
      /\ Becomes(Emit(World, b, event.kind, event.reason))
      /\ \E persisted \in BOOLEAN :
           frames' = [frames EXCEPT ![Len(frames)] =
                        [@ EXCEPT !.last_event = event, !.persisted = persisted]]
      /\ UNCHANGED <<now, callback, report, failedRuns>>

TimedOut(f) == f.timeout_ms > 0 /\ Duration(f) > f.timeout_ms

(* Every end of an admitted run: the breaker learns the outcome, COMPLETED is
   emitted, the history of failed runs follows. *)
Complete(w, b, success) ==
  /\ Becomes(Emit([w EXCEPT !.blocks = ReportResult(@, b, success)],
                  b, "COMPLETED", "COMPLETED"))
  /\ failedRuns' = [failedRuns EXCEPT ![b] =
       IF success THEN 0 ELSE IF @ < FailureThreshold THEN @ + 1 ELSE @]
  /\ UNCHANGED <<now, callback>>

(* fn returned, with any code, too late. *)
FnTimedOut ==
  LET b == Top.block_name
      event == [kind |-> "TIMEOUT", block_name |-> b, reason |-> "TIMEOUT"]
  IN  /\ InFn
      /\ TimedOut(Top)
      /\ Complete(Emit(World, b, event.kind, event.reason), b, FALSE)
      /\ \E persisted \in BOOLEAN :
           Fail(Below, FailureReport(Top, event, persisted, Duration(Top)))

(* fn returned LOXGUARD_OK, whatever it emitted before. *)
FnReturnOk ==
  LET b == Top.block_name
  IN  /\ InFn
      /\ ~TimedOut(Top)
      /\ Complete(Emit(World, b, "OK", "OK"), b, TRUE)
      /\ frames' = Below
      /\ \E persisted \in BOOLEAN :
           report' = SuccessReport(Top, persisted, Duration(Top))

(* Mutant: the error leaves no event. *)
FnReturnError_Silent ==
  LET event == [kind |-> "ERROR", block_name |-> Top.block_name, reason |-> "ERROR"]
  IN  /\ InFn
      /\ ~TimedOut(Top)
      /\ Top.last_event = NoEvent
      /\ Complete(World, Top.block_name, FALSE)
      /\ Fail(Below, FailureReport(Top, event, FALSE, Duration(Top)))

(* fn returned an error and had emitted no event of its own. *)
FnReturnError ==
  LET b == Top.block_name
      event == [kind |-> "ERROR", block_name |-> b, reason |-> "ERROR"]
  IN  /\ InFn
      /\ ~TimedOut(Top)
      /\ Top.last_event = NoEvent
      /\ Complete(Emit(World, b, event.kind, event.reason), b, FALSE)
      /\ \E persisted \in BOOLEAN :
           Fail(Below, FailureReport(Top, event, persisted, Duration(Top)))

(* fn returned an error after an incident it had emitted. *)
FnReturnIncident ==
  /\ InFn
  /\ ~TimedOut(Top)
  /\ Top.last_event # NoEvent
  /\ Complete(World, Top.block_name, FALSE)
  /\ Fail(Below, FailureReport(Top, Top.last_event, Top.persisted, Duration(Top)))

RecoveryReturn ==
  /\ InRecovery
  /\ frames' = Below
  /\ report' = Top.report
  /\ UNCHANGED <<streaks, blocks, log, now, callback, incidents, failedRuns>>

-----------------------------------------------------------------------------
(* The application around the runs. *)

(* Time passes between runs, inside guarded functions and recovery callbacks,
   and while a run is entered.  It stands still from the read of end_ticks to
   the report.  `MaxElapsed' bounds the time of one run. *)
Tick ==
  /\ \A i \in DOMAIN frames : frames[i].elapsed < MaxElapsed
  /\ now' = (now + 1) % ClockMod
  /\ frames' = [i \in DOMAIN frames |->
       IF frames[i].phase = "recovery" THEN frames[i]
                                       ELSE [frames[i] EXCEPT !.elapsed = @ + 1]]
  /\ blocks' = TimePasses(blocks)
  /\ UNCHANGED <<streaks, log, callback, report, incidents, failedRuns>>

SetRecoveryCallback ==
  /\ ~Entering
  /\ callback' \in BOOLEAN
  /\ UNCHANGED <<streaks, blocks, log, now, frames, report, incidents, failedRuns>>

AdapterRecoveryReset ==
  /\ ~Entering
  /\ blocks' = RecoveryReset(blocks)
  /\ failedRuns' = [n \in Names |-> 0]
  /\ UNCHANGED <<streaks, log, now, callback, frames, report, incidents>>

Init ==
  /\ streaks = NoStreaks
  /\ blocks = NoBlocks
  /\ log = <<>>
  /\ now \in 0 .. ClockMod - 1
  /\ callback = FALSE
  /\ frames = <<>>
  /\ report = NoReport
  /\ incidents = [n \in Names |-> 0]
  /\ failedRuns = [n \in Names |-> 0]

Next ==
  \/ RunNull
  \/ \E cfg \in Configs : RunEnters(cfg)
  \/ RunQuarantined
  \/ RunBreakerOpen
  \/ RunAdmitted
  \/ FnEmitBounds
  \/ FnTimedOut
  \/ FnReturnOk
  \/ FnReturnError
  \/ FnReturnIncident
  \/ RecoveryReturn
  \/ Tick
  \/ SetRecoveryCallback
  \/ AdapterRecoveryReset

Spec == Init /\ [][Next]_vars

RunEntered == RunQuarantined \/ RunBreakerOpen \/ RunAdmitted

(* The configurations of callers without a quarantine. *)
Unlimited == {cfg \in Configs : cfg.max_failures = 0}

FnReturns == FnTimedOut \/ FnReturnOk \/ FnReturnError \/ FnReturnIncident

(* Time goes on, the library goes on with a run it entered, guarded functions
   and recovery callbacks return, and a caller without a quarantine keeps running
   its block.  The three formulas without WF or SF are weak fairness of
   RunEntered and FnReturns and strong fairness of RunEnters(cfg), with the
   condition that enables them written out. *)
Fairness ==
  /\ SF_vars(Tick)
  /\ WF_vars(RecoveryReturn)
  /\ <>[]Entering => []<><<RunEntered>>_vars
  /\ <>[]InFn => []<><<FnReturns>>_vars
  /\ \A cfg \in Unlimited : []<>MayRun => []<><<RunEnters(cfg)>>_vars

FairSpec == Spec /\ Fairness

-----------------------------------------------------------------------------
(* Properties. *)

(* Every variable keeps its type: streaks below 2^32, indices inside their
   tables, events and reports made of what the code can put in them. *)
TypeOK ==
  /\ streaks \in StreakTable
  /\ blocks \in BlockTable
  /\ log \in Seq(Event) /\ Len(log) <= Capacity
  /\ now \in 0 .. ClockMod - 1
  /\ callback \in BOOLEAN
  /\ frames \in Seq(Frame)
  /\ report \in Report
  /\ incidents \in [Names -> Nat]
  /\ failedRuns \in [Names -> Nat]

(* lox_failure_streak_for_block never charges a block with another's failures:
   a slot that answers for a block holds at most the incidents that block had
   since its last OK, whatever blocks ran, nested or took slots in between. *)
StreakNeverOvercounts ==
  \A n \in Names, i \in 0 .. StreakSlots :
    Holds(streaks[i], n) => streaks[i].streak <= incidents[n]

(* loxguard_run quarantines only a block that had max_failures incidents since
   its last OK. *)
QuarantineJustified ==
  [][RunQuarantined => incidents[Top.block_name] >= Top.max_failures]_vars

(* "After N failures, next call is blocked and fn is not invoked": fn of a
   block is not called once the block had max_failures incidents, until they are
   so many that its uint32_t streak may have wrapped. *)
QuarantineEnforced ==
  [][RunAdmitted /\ Top.max_failures > 0
       => \/ incidents[Top.block_name] < Top.max_failures
          \/ incidents[Top.block_name] = StreakMod]_vars

(* The health lox_emit_event_ex leaves behind: a block the streak table still
   counts and that has a block state of its own shows DISABLED (5) from five
   incidents on and DEGRADED (4) from three on, in every phase of a run. *)
HealthFollowsStreak ==
  \A n \in Names :
    Holds(streaks[0], n) =>
      \A j \in Found(blocks, n) :
        /\ streaks[0].streak >= 5 => blocks.slot[j].health = 5
        /\ streaks[0].streak \in 3 .. 4 => blocks.slot[j].health = 4

(* The breaker of a block with a state of its own counts exactly its failed
   runs since its last success or reset, other blocks' runs in between or not. *)
BreakerCountsFailedRuns ==
  HaveMicrores =>
    \A n \in Names : \A j \in Found(blocks, n) :
      /\ blocks.slot[j].breaker.failures = failedRuns[n]
      /\ blocks.slot[j].breaker.open <=> failedRuns[n] = FailureThreshold

(* Every failed run since the last success left an incident of its block: the
   breaker never knows of more failures than the events tell.  Only for runs
   that do not nest: an inner OK of the same block clears the incidents an
   outer run is about to be failed for. *)
FailuresAreIncidents == \A n \in Names : failedRuns[n] <= incidents[n]

BreakerOpen(n) == \E j \in Found(blocks, n) : blocks.slot[j].breaker.open

InFnOf(n) == \E i \in DOMAIN frames :
               frames[i].phase = "fn" /\ frames[i].block_name = n

(* The breaker's refusals end: each emits an ERROR and counts in the streak and
   the watchdog, but none may count in the breaker, or a caller that keeps
   trying would keep it closed to attempts for ever. *)
ReadmittedEventually ==
  \A n \in {BlockName(cfg) : cfg \in Unlimited} :
    BreakerOpen(n) ~> ~BreakerOpen(n) \/ InFnOf(n)

(* Reports returned, or waiting in a recovery callback. *)
Reports == {report} \cup {frames[i].report : i \in DOMAIN frames}

Refusals == {"QUARANTINED", "BREAKER_OPEN"}

(* A run whose function was called is reported TIMEOUT exactly if it took longer
   than its limit from its read of start_ticks, which the emission of ENTERED
   follows, to its read of end_ticks, up to a full turn of the clock: end_ticks -
   start_ticks is modular.  What a slow log, store or recorder takes for ENTERED
   is held against the function. *)
TimeoutsExact ==
  \A r \in Reports :
    r.took < ClockMod /\ r.reason \notin Refusals =>
      (r.result = "TIMEOUT" <=> r.limit > 0 /\ r.took > r.limit)
=============================================================================
