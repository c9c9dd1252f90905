----------------------------- MODULE Persistence -----------------------------
(***************************************************************************)
(* The two persistence adapters and the runs that use them.  An event goes   *)
(* to nvlog if that is ready, and to loxdb if it is not or if the append     *)
(* fails; the run remembers of its last incident whether that worked and     *)
(* says so in its report.                                                    *)
(*                                                                           *)
(* The nvlog medium is a RAM region or a file; loxdb lives in a static array. *)
(* A crash loses everything but the file.  An event is its number; one        *)
(* action emits one event, since the library calls nothing else meanwhile.    *)
(***************************************************************************)
EXTENDS Naturals, FiniteSets

CONSTANTS
  HaveNvlog, HaveLoxdb, \* the build has the adapter
  KvMax,                \* records loxdb has room for
  MaxEvents             \* bound: events persisted; loxdb numbers its keys
                        \* modulo 2^32, which the model does not reach

ASSUME PersistenceAssumption ==
  /\ HaveNvlog \in BOOLEAN /\ HaveLoxdb \in BOOLEAN
  /\ KvMax \in Nat /\ MaxEvents \in Nat

VARIABLES
  ready,      \* g_nvlog_ready
  medium,     \* what g_nvlog_hal is open on
  ram,        \* events in the RAM medium
  file,       \* events in the file
  since,      \* history: number of the first event after the last mount
  dbReady,    \* g_loxdb_ready
  seq,        \* g_loxdb_seq
  records,    \* what loxdb has under its keys
  count,      \* g_loxdb_persist_count
  forceFail,  \* g_loxdb_force_fail
  phase,      \* where the run is: see the actions
  ctx,        \* its last_event and last_event_persisted
  report,     \* the last report's event and event_persisted
  next,       \* number of the next event
  answer,     \* status returned for the last event persisted
  stored      \* history: events that ever were in a store

nvVars   == <<ready, medium, ram, file, since>>
dbVars   == <<dbReady, seq, records, count, forceFail>>
runVars  == <<phase, ctx, report>>
evVars   == <<next, answer, stored>>
vars == <<nvVars, dbVars, runVars, evVars>>

Events == 1 .. MaxEvents
NoEvent == [event |-> 0, persisted |-> FALSE]
NoAnswer == [event |-> 0, ok |-> FALSE]

InDb == {r.event : r \in records}
Stores == {"ram", "file", "db"}
Held == [s \in Stores |->
           IF s = "ram" THEN ram ELSE IF s = "file" THEN file ELSE InDb]

-----------------------------------------------------------------------------
(* lox_adapter_loxdb_persist_event *)

(* lox_kv_set: a key set again has the new record only. *)
KvSet(key, e) == {r \in records : r.key # key} \cup {[key |-> key, event |-> e]}

(* Mutant: attempts are counted, not records. *)
LoxdbPersist_CountsAttempts(e, ok) ==
  \/ /\ forceFail \/ ~HaveLoxdb \/ ~dbReady
     /\ ~ok
     /\ UNCHANGED dbVars
  \/ /\ ~forceFail /\ HaveLoxdb
     /\ dbReady' = TRUE
     /\ seq' = seq + 1
     /\ count' = count + 1
     /\ \/ ~ok /\ UNCHANGED records
        \/ ok /\ Cardinality(records) < KvMax /\ records' = KvSet(seq, e)
     /\ UNCHANGED forceFail

(* Refused at once, also if opening the database fails; otherwise a key is used
   up even if the write fails. *)
LoxdbPersist(e, ok) ==
  \/ /\ forceFail \/ ~HaveLoxdb \/ ~dbReady
     /\ ~ok
     /\ UNCHANGED dbVars
  \/ /\ ~forceFail /\ HaveLoxdb
     /\ dbReady' = TRUE
     /\ seq' = seq + 1
     /\ \/ ~ok /\ UNCHANGED <<records, count>>
        \/ /\ ok
           /\ Cardinality(records) < KvMax
           /\ records' = KvSet(seq, e)
           /\ count' = count + 1
     /\ UNCHANGED forceFail

-----------------------------------------------------------------------------
(* lox_adapter_persist_event *)

NvlogAppend(e) ==
  /\ ready
  /\ \/ medium = "ram"  /\ ram' = ram \cup {e}   /\ UNCHANGED file
     \/ medium = "file" /\ file' = file \cup {e} /\ UNCHANGED ram
  /\ UNCHANGED <<ready, medium, since>>

(* Mutant: an event the log took goes to the database as well. *)
PersistEvent_Both(e, ok) ==
  \/ NvlogAppend(e) /\ LoxdbPersist(e, ok)
  \/ UNCHANGED nvVars /\ LoxdbPersist(e, ok)

(* The log is not ready, or the append failed: the database is tried. *)
PersistEvent(e, ok) ==
  \/ NvlogAppend(e) /\ ok /\ UNCHANGED dbVars
  \/ UNCHANGED nvVars /\ LoxdbPersist(e, ok)

(* Mutant: the flag follows every event, the event only incidents. *)
ContextAfter_FlagAlways(track, e, ok) ==
  [event |-> IF track THEN e ELSE ctx.event, persisted |-> ok]

(* ctx after lox_emit_event_ex. *)
ContextAfter(track, e, ok) ==
  IF track THEN [event |-> e, persisted |-> ok] ELSE ctx

(* Persisting the next event with this status. *)
Persist(ok) ==
  /\ next \in Events
  /\ PersistEvent(next, ok)
  /\ answer' = [event |-> next, ok |-> ok]
  /\ next' = next + 1
  /\ stored' = stored \cup ram' \cup file' \cup InDb'

-----------------------------------------------------------------------------
(* A guarded run: ENTERED, a refusal or what fn does, COMPLETED. *)

RunStart ==
  /\ phase = "idle"
  /\ \E ok \in BOOLEAN : Persist(ok)
  /\ phase' \in {"refused", "fn"}
  /\ ctx' = NoEvent
  /\ UNCHANGED report

Refusal ==
  /\ phase = "refused"
  /\ \E ok \in BOOLEAN : Persist(ok) /\ ctx' = ContextAfter(TRUE, next, ok)
  /\ phase' = "completing"
  /\ UNCHANGED report

(* A bounds incident within fn. *)
FnEmit ==
  /\ phase = "fn"
  /\ \E ok \in BOOLEAN : Persist(ok) /\ ctx' = ContextAfter(TRUE, next, ok)
  /\ UNCHANGED <<phase, report>>

(* TIMEOUT, OK, or ERROR if fn emitted nothing itself. *)
FnReturn ==
  /\ phase = "fn"
  /\ \E ok \in BOOLEAN : Persist(ok) /\ ctx' = ContextAfter(TRUE, next, ok)
  /\ phase' = "completing"
  /\ UNCHANGED report

(* fn failed after an incident of its own: its last one is the run's. *)
FnReturnIncident ==
  /\ phase = "fn" /\ ctx # NoEvent
  /\ phase' = "completing"
  /\ UNCHANGED <<ctx, report, nvVars, dbVars, evVars>>

RunComplete ==
  /\ phase = "completing"
  /\ \E ok \in BOOLEAN : Persist(ok) /\ ctx' = ContextAfter(FALSE, next, ok)
  /\ phase' = "idle"
  /\ report' = ctx'

-----------------------------------------------------------------------------
(* What the application calls, outside runs or from within fn. *)

OutsideLibrary == phase \in {"idle", "fn"}

AppPersists ==
  /\ OutsideLibrary
  /\ \E ok \in BOOLEAN : Persist(ok)
  /\ UNCHANGED runVars

(* lox_adapter_loxdb_persist_event, called directly. *)
AppPersistsToLoxdb ==
  /\ OutsideLibrary
  /\ next \in Events
  /\ \E ok \in BOOLEAN :
       LoxdbPersist(next, ok) /\ answer' = [event |-> next, ok |-> ok]
  /\ next' = next + 1
  /\ stored' = stored \cup InDb'
  /\ UNCHANGED <<nvVars, runVars>>

(* Mutant: the ready flag outlives the medium. *)
Closed_StillReady ==
  /\ medium' = "closed" /\ ram' = {}
  /\ UNCHANGED <<ready, file, since>>

(* lox_adapter_nvlog_shutdown *)
Closed ==
  /\ ready' = FALSE
  /\ medium' = "closed" /\ ram' = {}
  /\ UNCHANGED <<file, since>>

(* Open, but the size is too small, or formatting or mounting it failed. *)
NotMounted(m) ==
  /\ ready' = FALSE
  /\ medium' = m /\ ram' = {}
  /\ file' = file \/ (m = "file" /\ file' = {})
  /\ UNCHANGED since

(* Mutant: a log found in the medium is used as it is. *)
Mounted_NotFormatted(m) ==
  /\ ready' = TRUE
  /\ medium' = m /\ ram' = {}
  /\ since' = next
  /\ UNCHANGED file

(* Open, formatted and mounted. *)
Mounted(m) ==
  /\ ready' = TRUE
  /\ medium' = m /\ ram' = {}
  /\ file' = IF m = "file" THEN {} ELSE file
  /\ since' = next

NvlogShutdown ==
  /\ OutsideLibrary
  /\ HaveNvlog
  /\ Closed
  /\ UNCHANGED <<dbVars, runVars, evVars>>

(* lox_adapter_nvlog_init_ram and lox_adapter_nvlog_init_file: both shut down
   first, whatever comes of it. *)
NvlogInit(m) ==
  /\ OutsideLibrary
  /\ HaveNvlog
  /\ Closed \/ NotMounted(m) \/ Mounted(m)
  /\ UNCHANGED <<dbVars, runVars, evVars>>

LoxdbReset ==
  /\ OutsideLibrary
  /\ HaveLoxdb
  /\ dbReady' = FALSE /\ seq' = 0 /\ records' = {} /\ count' = 0 /\ forceFail' = FALSE
  /\ UNCHANGED <<nvVars, runVars, evVars>>

LoxdbInjectFail ==
  /\ OutsideLibrary
  /\ HaveLoxdb
  /\ forceFail' \in BOOLEAN
  /\ UNCHANGED <<dbReady, seq, records, count, nvVars, runVars, evVars>>

(* Power is lost at any point; the program starts again. *)
Crash ==
  /\ ready' = FALSE /\ medium' = "closed" /\ ram' = {}
  /\ dbReady' = FALSE /\ seq' = 0 /\ records' = {} /\ count' = 0 /\ forceFail' = FALSE
  /\ phase' = "idle" /\ ctx' = NoEvent /\ report' = NoEvent
  /\ UNCHANGED <<file, since, evVars>>

-----------------------------------------------------------------------------
Init ==
  /\ ready = FALSE /\ medium = "closed" /\ ram = {} /\ file = {} /\ since = 1
  /\ dbReady = FALSE /\ seq = 0 /\ records = {} /\ count = 0 /\ forceFail = FALSE
  /\ phase = "idle" /\ ctx = NoEvent /\ report = NoEvent
  /\ next = 1 /\ answer = NoAnswer /\ stored = {}

Next ==
  \/ RunStart \/ Refusal \/ FnEmit \/ FnReturn \/ FnReturnIncident \/ RunComplete
  \/ AppPersists \/ AppPersistsToLoxdb
  \/ NvlogShutdown \/ NvlogInit("ram") \/ NvlogInit("file")
  \/ LoxdbReset \/ LoxdbInjectFail
  \/ Crash

Spec == Init /\ [][Next]_vars

-----------------------------------------------------------------------------
(* Properties. *)

(* Types, and that g_nvlog_ready is never left set without an open medium, by
   lox_adapter_nvlog_shutdown or by an init that failed half way. *)
TypeOK ==
  /\ ready \in BOOLEAN /\ medium \in {"closed", "ram", "file"}
  /\ ready => medium # "closed"
  /\ medium # "ram" => ram = {}
  /\ ram \subseteq Events /\ file \subseteq Events /\ since \in 1 .. MaxEvents + 1
  /\ dbReady \in BOOLEAN /\ forceFail \in BOOLEAN /\ seq \in Nat /\ count \in Nat
  /\ records \subseteq [key : Nat, event : Events]
  /\ phase \in {"idle", "refused", "fn", "completing"}
  /\ ctx \in [event : 0 .. MaxEvents, persisted : BOOLEAN]
  /\ report \in [event : 0 .. MaxEvents, persisted : BOOLEAN]
  /\ next \in 1 .. MaxEvents + 1
  /\ answer \in [event : 0 .. MaxEvents, ok : BOOLEAN]
  /\ stored \subseteq Events

(* lox_adapter_loxdb_persist_count is the number of records the database has,
   although failed writes use keys up. *)
CountMatchesRecords == count = Cardinality(records)

(* lox_nvlog_init_common formats before it mounts: a ready log has no event
   from before it was initialised, so evidence of a crashed program is never
   taken for the running one's (and is gone). *)
SessionsDoNotMix ==
  ready => \A e \in IF medium = "ram" THEN ram ELSE file : e >= since

(* event_persisted of a report tells of the very incident it is about, whatever
   became of the events before and after it: "event_persisted=0 means the event
   was not durably stored" (docs/API_STABILITY.md), 1 that it was. *)
Truthful(r) == r.event # 0 => (r.persisted <=> r.event \in stored)
FlagIsTruthful == Truthful(report)

(* Every call of lox_adapter_persist_event keeps the promise of EvidenceStore. *)
Store == INSTANCE EvidenceStore WITH held <- Held
ImplementsStore == Store!Spec
=============================================================================
