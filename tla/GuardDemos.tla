----------------------------- MODULE GuardDemos ------------------------------
(***************************************************************************)
(* loxguard_run together with the other functions of the library that write *)
(* into the same black box: the ready-made demo runs, which clear the box    *)
(* they are given before they use it, the ports they ask what is supported,  *)
(* and the backends, which store an event without emitting it.  All of them  *)
(* may be called between runs, from a guarded function and from a recovery   *)
(* callback.                                                                 *)
(***************************************************************************)
EXTENDS GuardRun, FiniteSets

CONSTANTS
  ParserName, PanicName, FaultName, \* the names the demos give their blocks
  RtosName, MpuName,                \* the names that stand for a NULL argument
  TaskNames                         \* the task and block names passed to demos

ASSUME GuardDemosAssumption ==
  /\ {ParserName, PanicName, FaultName, RtosName, MpuName} \subseteq Names
  /\ TaskNames \subseteq Names \cup {NoName}

VARIABLES
  port,  \* g_active
  wiped  \* history: how many of the runs in `frames' are older than the box

demoVars == <<vars, port, wiped>>

Ports == {"HOST", "FREERTOS_STUB", "CORTEXM_STUB"}

SupportsRtos == port = "FREERTOS_STUB"
SupportsMpu  == port = "CORTEXM_STUB"

-----------------------------------------------------------------------------
(* The demo runs. *)

(* lox_blackbox_init and ENTERED, with which every demo begins. *)
DemoEntered(b) == Emit([World EXCEPT !.log = <<>>], b, "ENTERED", "ENTERED")

(* A demo that failed.  Its time is not measured: it has no limit. *)
DemoFails(b, kind, reason) ==
  LET f == NewFrame(b, 0, 0)
      event == [kind |-> kind, block_name |-> b, reason |-> reason]
  IN  \E persisted \in BOOLEAN :
        Fail(frames, FailureReport(f, event, persisted, Duration(f)))

(* Mutant: the demo leaves out the COMPLETED of its block. *)
Demo_NotCompleted(b, kind, reason) ==
  /\ MayRun
  /\ Becomes(Emit(DemoEntered(b), b, kind, reason))
  /\ DemoFails(b, kind, reason)
  /\ wiped' = Len(frames)
  /\ UNCHANGED <<now, callback, failedRuns, port>>

(* A demo that emits one incident and completes.  Neither the quarantine nor
   the breaker is asked, and the breaker is not told. *)
Demo(b, kind, reason) ==
  LET w == Emit(DemoEntered(b), b, kind, reason)
  IN  /\ MayRun
      /\ Becomes(Emit(w, b, "COMPLETED", "COMPLETED"))
      /\ DemoFails(b, kind, reason)
      /\ wiped' = Len(frames)
      /\ UNCHANGED <<now, callback, failedRuns, port>>

TimeoutDemo == Demo(ParserName, "TIMEOUT", "TIMEOUT")
PanicDemo   == Demo(PanicName, "PANIC", "PANIC")
FaultDemo   == Demo(FaultName, "FAULT", "FAULT")

TaskName(task, default) == IF task = NoName THEN default ELSE task

RtosDemo ==
  \E task \in TaskNames :
    LET b == TaskName(task, RtosName)
    IN  IF SupportsRtos THEN Demo(b, "TIMEOUT", "RTOS_TIMEOUT")
                        ELSE Demo(b, "UNSUPPORTED", "RTOS_UNSUPPORTED")

MpuDemo ==
  \E block \in TaskNames :
    LET b == TaskName(block, MpuName)
    IN  IF SupportsMpu THEN Demo(b, "MEMORY_FAULT", "MPU_FAULT")
                       ELSE Demo(b, "UNSUPPORTED", "MPU_UNSUPPORTED")

(* What packet_parser_block may emit when it fails: scratch too small, output
   shorter than 18 bytes, no output at all. *)
ParserIncidents == {<<"ARENA_OVERFLOW", "ARENA">>, <<"OUT_OF_BOUNDS", "BOUNDS">>,
                    <<"ERROR", "ERROR">>}

(* The parser demo asks the breaker, like a run without a quarantine. *)
ParserRefused ==
  LET w == DemoEntered(ParserName)
  IN  /\ MayRun
      /\ ~AttemptAllowed(w.blocks, ParserName)
      /\ Refuse([w EXCEPT !.blocks = AttemptChecked(@, ParserName)],
                frames, NewFrame(ParserName, 0, 0), "BREAKER_OPEN")
      /\ wiped' = Len(frames)
      /\ UNCHANGED port

ParserAdmitted == [DemoEntered(ParserName) EXCEPT
                     !.blocks = AttemptChecked(@, ParserName)]

ParserOk ==
  LET f == NewFrame(ParserName, 0, 0)
  IN  /\ MayRun
      /\ AttemptAllowed(DemoEntered(ParserName).blocks, ParserName)
      /\ Complete(Emit(ParserAdmitted, ParserName, "OK", "OK"), ParserName, TRUE)
      /\ \E persisted \in BOOLEAN :
           report' = SuccessReport(f, persisted, Duration(f))
      /\ wiped' = Len(frames)
      /\ UNCHANGED <<frames, port>>

ParserFailed ==
  \E incident \in ParserIncidents :
    LET kind == incident[1]
        reason == incident[2]
    IN  /\ MayRun
        /\ AttemptAllowed(DemoEntered(ParserName).blocks, ParserName)
        /\ Complete(Emit(ParserAdmitted, ParserName, kind, reason), ParserName, FALSE)
        /\ DemoFails(ParserName, kind, reason)
        /\ wiped' = Len(frames)
        /\ UNCHANGED port

-----------------------------------------------------------------------------
(* Ports and backends. *)

(* lox_port_set_active; an unknown id changes nothing. *)
SetPort ==
  /\ ~Entering
  /\ port' \in Ports
  /\ UNCHANGED <<vars, wiped>>

(* lox_rtos_report_timeout, also behind lox_rtos_check_task_budget, and
   lox_mpu_report_fault: the event is stored, and nothing else knows of it. *)
BackendReport ==
  /\ ~Entering
  /\ \E b \in Names, event \in {<<"TIMEOUT", "RTOS_TIMEOUT">>,
                                <<"MEMORY_FAULT", "MPU_FAULT">>} :
       log' = Stored(log, [kind |-> event[1], block_name |-> b, reason |-> event[2]])
  /\ UNCHANGED <<streaks, blocks, now, callback, frames, report, incidents,
                 failedRuns, port, wiped>>

-----------------------------------------------------------------------------
DemoInit == Init /\ port = "HOST" /\ wiped = 0

(* A step of GuardRun: runs that end are no longer older than the box. *)
GuardStep ==
  /\ Next
  /\ wiped' = IF wiped > Len(frames') THEN Len(frames') ELSE wiped
  /\ UNCHANGED port

DemoNext ==
  \/ GuardStep
  \/ TimeoutDemo
  \/ PanicDemo
  \/ FaultDemo
  \/ RtosDemo
  \/ MpuDemo
  \/ ParserRefused
  \/ ParserOk
  \/ ParserFailed
  \/ SetPort
  \/ BackendReport

DemoSpec == DemoInit /\ [][DemoNext]_demoVars

-----------------------------------------------------------------------------
(* Properties. *)

(* GuardRun's types, and a history of wiped runs that exist. *)
DemoTypeOK == TypeOK /\ port \in Ports /\ wiped \in 0 .. Len(frames)

EventsIn(events, i, j, kind) == Cardinality({k \in i .. j : events[k].kind = kind})

(* The ENTERED events not followed by their COMPLETED. *)
OpenEntries(events) ==
  {i \in DOMAIN events :
     \A j \in i .. Len(events) :
       EventsIn(events, i, j, "ENTERED") > EventsIn(events, i, j, "COMPLETED")}

(* The runs that began since a demo last cleared the box and did not end. *)
Inside == {p \in wiped + 1 .. Len(frames) : frames[p].phase # "recovery"}

(* How many of a set of positions come after this one. *)
After(positions, p) == Cardinality({q \in positions : q > p})

(* The black box tells where the program is: read from its newest end, the
   ENTERED events without COMPLETED are exactly the runs that began since a demo
   last cleared the box and did not end, innermost last; one is missing only
   when the log has rolled over. *)
LogIsBracketed ==
  LET open == OpenEntries(log)
  IN  /\ Cardinality(open) <= Cardinality(Inside)
      /\ \A i \in open :
           /\ log[i].kind = "ENTERED"
           /\ \E p \in Inside : /\ After(Inside, p) = After(open, i)
                                /\ frames[p].block_name = log[i].block_name
      /\ Cardinality(open) < Cardinality(Inside) => Len(log) = Capacity
=============================================================================
