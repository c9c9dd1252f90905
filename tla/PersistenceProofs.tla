-------------------------- MODULE PersistenceProofs --------------------------
(* The persistence adapters keep their promise, for any number of events and  *)
(* any room in the database, in every build.                                  *)
EXTENDS Persistence, FiniteSetTheorems, TLAPS

(* What the database is like between two calls: every key in it was handed
   out, and the count is right. *)
DbInv ==
  /\ dbReady \in BOOLEAN /\ forceFail \in BOOLEAN /\ seq \in Nat /\ count \in Nat
  /\ records \subseteq [key : Nat, event : Events]
  /\ \A r \in records : r.key < seq
  /\ IsFiniteSet(records)
  /\ count = Cardinality(records)

NvInv ==
  /\ ready \in BOOLEAN /\ medium \in {"closed", "ram", "file"}
  /\ ready => medium # "closed"
  /\ medium # "ram" => ram = {}
  /\ ram \subseteq Events /\ file \subseteq Events
  /\ since \in 1 .. MaxEvents + 1 /\ since <= next
  /\ ready => \A e \in IF medium = "ram" THEN ram ELSE file : e >= since

(* Events are numbered in the order they are persisted, and each is in one
   store at most. *)
EventsInv ==
  /\ next \in 1 .. MaxEvents + 1
  /\ answer \in [event : 0 .. MaxEvents, ok : BOOLEAN]
  /\ stored \subseteq Events
  /\ \A e \in stored : e < next
  /\ ram \subseteq stored /\ file \subseteq stored /\ InDb \subseteq stored

(* The incident a run remembers, and its flag. *)
RunInv ==
  /\ phase \in {"idle", "refused", "fn", "completing"}
  /\ ctx \in [event : 0 .. MaxEvents, persisted : BOOLEAN]
  /\ report \in [event : 0 .. MaxEvents, persisted : BOOLEAN]
  /\ ctx.event < next /\ report.event < next
  /\ Truthful(ctx) /\ Truthful(report)

IInv == DbInv /\ NvInv /\ EventsInv /\ RunInv

-----------------------------------------------------------------------------
(* What a call of the database's adapter does. *)
LEMMA LoxdbStores ==
  ASSUME DbInv, NEW e \in Events, NEW ok \in BOOLEAN, LoxdbPersist(e, ok)
  PROVE  DbInv' /\ InDb' = IF ok THEN InDb \cup {e} ELSE InDb
<1>1. CASE UNCHANGED dbVars /\ ~ok
  BY <1>1 DEF DbInv, dbVars, InDb
<1>2. CASE /\ dbReady' = TRUE /\ seq' = seq + 1 /\ ~ok
           /\ UNCHANGED <<records, count, forceFail>>
  <2>1. \A r \in records : r.key < seq + 1
    BY DEF DbInv
  <2> QED
    BY <1>2, <2>1 DEF DbInv, InDb
<1>3. CASE /\ dbReady' = TRUE /\ seq' = seq + 1 /\ ok /\ count' = count + 1
           /\ records' = KvSet(seq, e) /\ UNCHANGED forceFail
  <2> DEFINE new == [key |-> seq, event |-> e]
  <2>1. records' = records \cup {new}
    BY <1>3 DEF DbInv, KvSet
  <2>2. new \notin records
    BY DEF DbInv
  <2>3. new \in [key : Nat, event : Events] /\ new.key = seq /\ new.event = e
    BY DEF DbInv
  <2> HIDE DEF new
  <2>4. IsFiniteSet(records') /\ Cardinality(records') = Cardinality(records) + 1
    BY <2>1, <2>2, FS_AddElement DEF DbInv
  <2>5. \A r \in records' : r.key < seq + 1
    BY <2>1, <2>3 DEF DbInv
  <2>6. InDb' = InDb \cup {e}
    BY <2>1, <2>3 DEF InDb
  <2> QED
    BY <1>3, <2>1, <2>3, <2>4, <2>5, <2>6 DEF DbInv
<1> QED
  BY <1>1, <1>2, <1>3 DEF LoxdbPersist

(* What a call of lox_adapter_persist_event does, whichever store takes the
   event. *)
LEMMA EventStored ==
  ASSUME IInv, NEW ok \in BOOLEAN, Persist(ok)
  PROVE  /\ DbInv' /\ NvInv' /\ EventsInv'
         /\ stored' = IF ok THEN stored \cup {next} ELSE stored
<1> USE PersistenceAssumption
<1>1. next \in Events /\ next \notin stored /\ next + 1 \in 1 .. MaxEvents + 1
  BY DEF Persist, IInv, EventsInv, Events
<1>2. /\ answer' \in [event : 0 .. MaxEvents, ok : BOOLEAN]
      /\ next' = next + 1
      /\ stored' = stored \cup ram' \cup file' \cup InDb'
  BY <1>1 DEF Persist, Events
<1>3. CASE NvlogAppend(next) /\ ok /\ UNCHANGED dbVars
  <2>1. DbInv' /\ InDb' = InDb
    BY <1>3 DEF IInv, DbInv, dbVars, InDb
  <2>2. \/ medium = "ram" /\ ram' = ram \cup {next} /\ file' = file
        \/ medium = "file" /\ file' = file \cup {next} /\ ram' = ram
    BY <1>3 DEF NvlogAppend
  <2>3. stored' = stored \cup {next}
    BY <1>2, <2>1, <2>2 DEF IInv, EventsInv
  <2>4. /\ next \in Nat /\ next >= since /\ since \in Nat
        /\ ready /\ ready' = ready /\ medium' = medium /\ since' = since
    BY <1>1, <1>3 DEF IInv, NvInv, NvlogAppend, Events
  <2>5. NvInv'
    <3>1. CASE medium = "ram" /\ ram' = ram \cup {next} /\ file' = file
      BY <1>1, <1>2, <2>4, <3>1 DEF IInv, NvInv
    <3>2. CASE medium = "file" /\ file' = file \cup {next} /\ ram' = ram
      BY <1>1, <1>2, <2>4, <3>2 DEF IInv, NvInv
    <3> QED
      BY <2>2, <3>1, <3>2
  <2>6. EventsInv'
    <3>1. ram' \subseteq stored' /\ file' \subseteq stored' /\ InDb' \subseteq stored'
      BY <1>2
    <3>2. stored \subseteq Events /\ \A e \in stored : e < next
      BY DEF IInv, EventsInv
    <3>3. stored' \subseteq Events /\ \A e \in stored' : e < next'
      <4>1. next' = next + 1 /\ next \in Nat /\ Events \subseteq Nat
        BY <1>1, <1>2 DEF Events
      <4>2. stored' \subseteq Events
        BY <1>1, <2>3, <3>2
      <4>3. ASSUME NEW e \in stored' PROVE e < next'
        BY <2>3, <3>2, <4>1
      <4> QED
        BY <4>2, <4>3
    <3>4. next' \in 1 .. MaxEvents + 1
      BY <1>1, <1>2
    <3> QED
      BY <1>2, <3>1, <3>3, <3>4, Zenon DEF EventsInv
  <2> QED
    BY <1>3, <2>1, <2>3, <2>5, <2>6
<1>4. CASE UNCHANGED nvVars /\ LoxdbPersist(next, ok)
  <2>1. DbInv' /\ InDb' = IF ok THEN InDb \cup {next} ELSE InDb
    BY <1>1, <1>4, LoxdbStores DEF IInv
  <2>2. stored' = IF ok THEN stored \cup {next} ELSE stored
    BY <1>2, <1>4, <2>1 DEF IInv, EventsInv, nvVars
  <2>3. NvInv'
    BY <1>1, <1>2, <1>4 DEF IInv, NvInv, nvVars, EventsInv, Events
  <2>4. EventsInv'
    BY <1>1, <1>2, <1>4, <2>1, <2>2 DEF IInv, EventsInv, nvVars, Events
  <2> QED
    BY <2>1, <2>2, <2>3, <2>4
<1> QED
  BY <1>3, <1>4 DEF Persist, PersistEvent

(* A flag that is right when its event is persisted stays right. *)
LEMMA FlagsStay ==
  ASSUME IInv, NEW ok \in BOOLEAN, Persist(ok),
         NEW r \in [event : 0 .. MaxEvents, persisted : BOOLEAN],
         r.event < next, Truthful(r)
  PROVE  r.event < next' /\ Truthful(r)'
<1>1. next' = next + 1 /\ next \in Nat
  BY PersistenceAssumption DEF Persist, IInv, EventsInv
<1>2. r.event \in Nat /\ r.event # next
  BY <1>1, PersistenceAssumption
<1> QED
  BY <1>1, <1>2, EventStored DEF Truthful

LEMMA FlagRecord ==
  ASSUME NEW e \in 0 .. MaxEvents
  PROVE  /\ [event |-> e, persisted |-> TRUE] \in [event : 0 .. MaxEvents, persisted : BOOLEAN]
         /\ [event |-> e, persisted |-> FALSE] \in [event : 0 .. MaxEvents, persisted : BOOLEAN]
         /\ [event |-> e, persisted |-> TRUE].event = e
         /\ [event |-> e, persisted |-> FALSE].event = e
         /\ [event |-> e, persisted |-> TRUE].persisted
         /\ ~[event |-> e, persisted |-> FALSE].persisted
OBVIOUS

(* The context after an event it follows: its flag is right. *)
LEMMA FlagFollowsEvent ==
  ASSUME IInv, NEW ok \in BOOLEAN, Persist(ok), ctx' = ContextAfter(TRUE, next, ok)
  PROVE  /\ ctx' \in [event : 0 .. MaxEvents, persisted : BOOLEAN]
         /\ ctx'.event < next' /\ Truthful(ctx)'
<1>1. next \in 1 .. MaxEvents /\ next' = next + 1 /\ next \notin stored
  BY PersistenceAssumption DEF Persist, Events, IInv, EventsInv
<1>2. stored' = IF ok THEN stored \cup {next} ELSE stored
  BY EventStored
<1>3. next \in 0 .. MaxEvents /\ next < next'
  BY <1>1, PersistenceAssumption
<1>4. CASE ok
  <2>1. ctx' = [event |-> next, persisted |-> TRUE] /\ next \in stored'
    BY <1>2, <1>4 DEF ContextAfter
  <2> QED
    BY <1>3, <2>1, FlagRecord, Zenon DEF Truthful
<1>5. CASE ~ok
  <2>1. ctx' = [event |-> next, persisted |-> FALSE] /\ next \notin stored'
    BY <1>1, <1>2, <1>5 DEF ContextAfter
  <2> QED
    BY <1>3, <2>1, FlagRecord, Zenon DEF Truthful
<1> QED
  BY <1>4, <1>5

(* A direct call of the database's adapter is one whose event the log did not
   take. *)
LEMMA DirectCall ==
  ASSUME IInv, AppPersistsToLoxdb
  PROVE  \E ok \in BOOLEAN : Persist(ok) /\ UNCHANGED runVars
<1>1. PICK ok \in BOOLEAN :
        LoxdbPersist(next, ok) /\ answer' = [event |-> next, ok |-> ok]
  BY DEF AppPersistsToLoxdb
<1>2. UNCHANGED nvVars /\ PersistEvent(next, ok)
  BY <1>1 DEF AppPersistsToLoxdb, PersistEvent
<1>3. stored' = stored \cup ram' \cup file' \cup InDb'
  BY <1>2 DEF AppPersistsToLoxdb, nvVars, IInv, EventsInv
<1> QED
  BY <1>1, <1>2, <1>3, Zenon DEF AppPersistsToLoxdb, Persist

(* An event that is not the run's incident leaves what the run knows. *)
LEMMA RunStays ==
  ASSUME IInv, NEW ok \in BOOLEAN, Persist(ok), UNCHANGED <<ctx, report>>
  PROVE  /\ ctx'.event < next' /\ report'.event < next'
         /\ Truthful(ctx)' /\ Truthful(report)'
<1>1. /\ ctx \in [event : 0 .. MaxEvents, persisted : BOOLEAN] /\ ctx.event < next /\ Truthful(ctx)
      /\ report \in [event : 0 .. MaxEvents, persisted : BOOLEAN] /\ report.event < next /\ Truthful(report)
  BY DEF IInv, RunInv
<1>2. /\ ctx.event < next' /\ (ctx.event # 0 => (ctx.persisted <=> ctx.event \in stored'))
      /\ report.event < next' /\ (report.event # 0 => (report.persisted <=> report.event \in stored'))
  BY <1>1, FlagsStay DEF Truthful
<1> QED
  BY <1>2 DEF Truthful

(* Steps that persist nothing: opening, closing and resetting stores, and a
   crash. *)
LEMMA StoresLost ==
  ASSUME IInv, UNCHANGED evVars,
         ram' \in {ram, {}}, file' \in {file, {}}, records' \in {records, {}}
  PROVE  EventsInv'
<1>1. ram' \subseteq stored /\ file' \subseteq stored
  BY DEF IInv, EventsInv
<1>2. InDb' \subseteq InDb
  BY DEF InDb
<1> QED
  BY <1>1, <1>2 DEF IInv, EventsInv, evVars

LEMMA DbEmptied ==
  ASSUME dbReady' = FALSE, seq' = 0, records' = {}, count' = 0, forceFail' = FALSE
  PROVE  DbInv'
BY FS_EmptySet DEF DbInv

LEMMA RunUnchanged ==
  ASSUME RunInv, UNCHANGED <<runVars, evVars>>
  PROVE  RunInv'
BY DEF RunInv, Truthful, runVars, evVars

LEMMA NvlogReopened ==
  ASSUME IInv, UNCHANGED evVars, NEW m \in {"ram", "file"},
         Closed \/ NotMounted(m) \/ Mounted(m)
  PROVE  NvInv' /\ ram' = {} /\ file' \in {file, {}}
<1>1. since \in 1 .. MaxEvents + 1 /\ next \in 1 .. MaxEvents + 1 /\ next' = next /\ since <= next
  BY DEF IInv, NvInv, EventsInv, evVars
<1>2. CASE Closed
  BY <1>1, <1>2 DEF Closed, IInv, NvInv
<1>3. CASE NotMounted(m)
  BY <1>1, <1>3 DEF NotMounted, IInv, NvInv
<1>4. CASE Mounted(m)
  BY <1>1, <1>4, PersistenceAssumption DEF Mounted, IInv, NvInv
<1> QED
  BY <1>2, <1>3, <1>4

LEMMA InitHolds == Init => IInv
<1> SUFFICES ASSUME Init PROVE IInv
  OBVIOUS
<1> USE PersistenceAssumption DEF Init
<1>1. DbInv
  BY FS_EmptySet DEF DbInv
<1>2. NvInv
  <2>1. since \in 1 .. MaxEvents + 1 /\ since <= next
    OBVIOUS
  <2>2. ready = FALSE /\ medium = "closed" /\ ram = {} /\ file = {}
    OBVIOUS
  <2> QED
    BY ONLY <2>1, <2>2 DEF NvInv
<1>3. answer \in [event : 0 .. MaxEvents, ok : BOOLEAN] /\ InDb = {}
  BY DEF NoAnswer, InDb
<1>4. EventsInv
  BY <1>3 DEF EventsInv
<1>5. RunInv
  BY DEF RunInv, Truthful, NoEvent
<1> QED
  BY <1>1, <1>2, <1>4, <1>5 DEF IInv

LEMMA NextHolds ==
  ASSUME IInv, [Next]_vars
  PROVE  IInv'
<1> USE PersistenceAssumption
<1>0. /\ ctx \in [event : 0 .. MaxEvents, persisted : BOOLEAN]
      /\ report \in [event : 0 .. MaxEvents, persisted : BOOLEAN]
      /\ phase \in {"idle", "refused", "fn", "completing"}
      /\ report.event < next /\ Truthful(report)
  BY DEF IInv, RunInv
<1>1. CASE RunStart
  <2>1. PICK ok \in BOOLEAN : Persist(ok)
    BY <1>1 DEF RunStart
  <2>2. DbInv' /\ NvInv' /\ EventsInv'
    BY <2>1, EventStored
  <2>3. report.event < next' /\ Truthful(report)'
    BY <1>0, <1>1, <2>1, FlagsStay DEF RunStart, Truthful
  <2>4. ctx' = NoEvent /\ report' = report /\ phase' \in {"refused", "fn"}
    BY <1>1 DEF RunStart
  <2>5. next' \in Nat \ {0}
    BY <2>2 DEF EventsInv
  <2>6. RunInv'
    BY <1>0, <2>3, <2>4, <2>5 DEF RunInv, Truthful, NoEvent
  <2> QED
    BY <2>2, <2>6 DEF IInv
<1>2. CASE Refusal \/ FnEmit \/ FnReturn
  <2>1. PICK ok \in BOOLEAN : Persist(ok) /\ ctx' = ContextAfter(TRUE, next, ok)
    BY <1>2 DEF Refusal, FnEmit, FnReturn
  <2>2. DbInv' /\ NvInv' /\ EventsInv'
    BY <2>1, EventStored
  <2>3. /\ ctx' \in [event : 0 .. MaxEvents, persisted : BOOLEAN]
        /\ ctx'.event < next' /\ Truthful(ctx)'
    BY <2>1, FlagFollowsEvent
  <2>4. report' = report /\ phase' \in {"idle", "refused", "fn", "completing"}
    BY <1>0, <1>2 DEF Refusal, FnEmit, FnReturn
  <2>5. report.event < next' /\ Truthful(report)'
    BY <1>0, <2>1, <2>4, FlagsStay DEF Truthful
  <2>6. RunInv'
    BY <1>0, <2>3, <2>4, <2>5 DEF RunInv
  <2> QED
    BY <2>2, <2>6 DEF IInv
<1>3. CASE FnReturnIncident
  <2>1. UNCHANGED <<ctx, report, nvVars, dbVars, evVars>> /\ phase' = "completing"
    BY <1>3 DEF FnReturnIncident
  <2>2. DbInv' /\ NvInv' /\ EventsInv'
    BY <2>1 DEF IInv, DbInv, NvInv, EventsInv, InDb, dbVars, nvVars, evVars
  <2>3. RunInv'
    BY <2>1 DEF IInv, RunInv, Truthful, evVars
  <2> QED
    BY <2>2, <2>3 DEF IInv
<1>4. CASE RunComplete
  <2>1. PICK ok \in BOOLEAN : Persist(ok) /\ ctx' = ContextAfter(FALSE, next, ok)
    BY <1>4 DEF RunComplete
  <2>2. ctx' = ctx /\ report' = ctx /\ phase' = "idle"
    BY <1>4, <2>1 DEF RunComplete, ContextAfter
  <2>3. DbInv' /\ NvInv' /\ EventsInv'
    BY <2>1, EventStored
  <2>4. ctx.event < next /\ Truthful(ctx)
    BY DEF IInv, RunInv
  <2>5. ctx.event < next' /\ (ctx.event # 0 => (ctx.persisted <=> ctx.event \in stored'))
    BY <1>0, <2>1, <2>4, FlagsStay DEF Truthful
  <2>6. RunInv'
    BY <1>0, <2>2, <2>5 DEF RunInv, Truthful
  <2> QED
    BY <2>3, <2>6 DEF IInv
<1>5. CASE AppPersists \/ AppPersistsToLoxdb
  <2>1. PICK ok \in BOOLEAN : Persist(ok) /\ UNCHANGED runVars
    BY <1>5, DirectCall DEF AppPersists
  <2>2. DbInv' /\ NvInv' /\ EventsInv'
    BY <2>1, EventStored
  <2>3. UNCHANGED <<ctx, report, phase>>
    BY <2>1 DEF runVars
  <2>4. /\ ctx'.event < next' /\ report'.event < next'
        /\ Truthful(ctx)' /\ Truthful(report)'
    BY <2>1, <2>3, RunStays
  <2>5. RunInv'
    BY <1>0, <2>3, <2>4 DEF RunInv
  <2> QED
    BY <2>2, <2>5 DEF IInv
<1>6. CASE NvlogShutdown \/ NvlogInit("ram") \/ NvlogInit("file")
  <2>1. UNCHANGED <<dbVars, runVars, evVars>>
    BY <1>6 DEF NvlogShutdown, NvlogInit
  <2>2. \E m \in {"ram", "file"} : Closed \/ NotMounted(m) \/ Mounted(m)
    BY <1>6 DEF NvlogShutdown, NvlogInit
  <2>3. NvInv' /\ ram' = {} /\ file' \in {file, {}}
    BY <2>1, <2>2, NvlogReopened
  <2>4. DbInv' /\ records' = records
    BY <2>1 DEF IInv, DbInv, dbVars
  <2>5. EventsInv'
    BY <2>1, <2>3, <2>4, StoresLost
  <2>6. RunInv'
    BY <2>1, RunUnchanged DEF IInv
  <2> QED
    BY <2>3, <2>4, <2>5, <2>6 DEF IInv
<1>7. CASE LoxdbReset
  <2>1. UNCHANGED <<nvVars, runVars, evVars>> /\ records' = {} /\ DbInv'
    BY <1>7, DbEmptied DEF LoxdbReset
  <2>2. EventsInv' /\ NvInv'
    BY <2>1, StoresLost DEF nvVars, evVars, IInv, NvInv
  <2>3. RunInv'
    BY <2>1, RunUnchanged DEF IInv
  <2> QED
    BY <2>1, <2>2, <2>3 DEF IInv
<1>8. CASE LoxdbInjectFail
  <2>1. /\ UNCHANGED <<nvVars, runVars, evVars>> /\ UNCHANGED <<dbReady, seq, records, count>>
        /\ forceFail' \in BOOLEAN
    BY <1>8 DEF LoxdbInjectFail
  <2>2. DbInv' /\ EventsInv' /\ NvInv'
    BY <2>1, StoresLost DEF nvVars, evVars, IInv, NvInv, DbInv
  <2>3. RunInv'
    BY <2>1, RunUnchanged DEF IInv
  <2> QED
    BY <2>2, <2>3 DEF IInv
<1>9. CASE Crash
  <2>1. /\ UNCHANGED evVars /\ records' = {} /\ ram' = {} /\ file' = file /\ since' = since
        /\ ready' = FALSE /\ medium' = "closed"
        /\ phase' = "idle" /\ ctx' = NoEvent /\ report' = NoEvent
    BY <1>9 DEF Crash
  <2>2. DbInv'
    BY <1>9, DbEmptied DEF Crash
  <2>3. EventsInv' /\ NvInv'
    BY <2>1, StoresLost DEF evVars, IInv, NvInv
  <2>4. next' \in Nat \ {0}
    BY <2>3 DEF EventsInv
  <2>5. RunInv'
    BY <2>1, <2>4 DEF RunInv, Truthful, NoEvent
  <2> QED
    BY <2>2, <2>3, <2>5 DEF IInv
<1>10. CASE UNCHANGED vars
  <2>1. DbInv' /\ NvInv' /\ EventsInv'
    BY <1>10 DEF IInv, DbInv, NvInv, EventsInv, InDb, dbVars, nvVars, evVars, vars
  <2>2. RunInv'
    BY <1>10, RunUnchanged DEF IInv, vars
  <2> QED
    BY <2>1, <2>2 DEF IInv
<1> QED
  BY <1>1, <1>2, <1>3, <1>4, <1>5, <1>6, <1>7, <1>8, <1>9, <1>10 DEF Next

(* Every reachable state is as the two adapters leave it. *)
THEOREM IInvHolds == Spec => []IInv
BY InitHolds, NextHolds, PTL DEF Spec

(* The adapters keep their types, and g_nvlog_ready is set only while a medium
   is open. *)
THEOREM TypesHold == Spec => []TypeOK
<1>1. IInv => TypeOK
  BY DEF IInv, DbInv, NvInv, EventsInv, RunInv, TypeOK
<1> QED
  BY <1>1, IInvHolds, PTL

(* lox_adapter_loxdb_persist_count counts the records that are there. *)
THEOREM CountIsRight == Spec => []CountMatchesRecords
<1>1. IInv => CountMatchesRecords
  BY DEF IInv, DbInv, CountMatchesRecords
<1> QED
  BY <1>1, IInvHolds, PTL

(* A ready log has only events of the session that mounted it. *)
THEOREM SessionsApart == Spec => []SessionsDoNotMix
<1>1. IInv => SessionsDoNotMix
  BY DEF IInv, NvInv, SessionsDoNotMix
<1> QED
  BY <1>1, IInvHolds, PTL

(* A report's flag is true to what became of its incident. *)
THEOREM FlagIsRight == Spec => []FlagIsTruthful
<1>1. IInv => FlagIsTruthful
  BY DEF IInv, RunInv, FlagIsTruthful
<1> QED
  BY <1>1, IInvHolds, PTL

-----------------------------------------------------------------------------
(* The refinement. *)

LEMMA HeldAt ==
  Held["ram"] = ram /\ Held["file"] = file /\ Held["db"] = InDb
BY DEF Held, Stores

LEMMA PersistIsAtomic ==
  ASSUME IInv, NEW ok \in BOOLEAN, Persist(ok)
  PROVE  Store!Next
<1>1. next \in Events /\ next \notin stored /\ answer' = [event |-> next, ok |-> ok]
  BY DEF Persist, IInv, EventsInv, Events
<1>2. Store!New(next)
  BY <1>1, HeldAt DEF Store!New, Stores, IInv, EventsInv
<1>3. CASE NvlogAppend(next) /\ ok /\ UNCHANGED dbVars
  <2>1. InDb' = InDb
    BY <1>3 DEF InDb, dbVars
  <2>2. CASE medium = "ram" /\ ram' = ram \cup {next} /\ file' = file
    <3>1. Held' = [Held EXCEPT !["ram"] = @ \cup {next}]
      BY <2>1, <2>2 DEF Held, Stores
    <3> QED
      BY <1>1, <1>2, <1>3, <3>1 DEF Store!Next, Store!Accept, Stores
  <2>3. CASE medium = "file" /\ file' = file \cup {next} /\ ram' = ram
    <3>1. Held' = [Held EXCEPT !["file"] = @ \cup {next}]
      BY <2>1, <2>3 DEF Held, Stores
    <3> QED
      BY <1>1, <1>2, <1>3, <3>1 DEF Store!Next, Store!Accept, Stores
  <2> QED
    BY <1>3, <2>2, <2>3 DEF NvlogAppend
<1>4. CASE UNCHANGED nvVars /\ LoxdbPersist(next, ok)
  <2>1. InDb' = (IF ok THEN InDb \cup {next} ELSE InDb) /\ ram' = ram /\ file' = file
    BY <1>1, <1>4, LoxdbStores DEF IInv, nvVars
  <2>2. CASE ok
    <3>1. Held' = [Held EXCEPT !["db"] = @ \cup {next}]
      BY <2>1, <2>2 DEF Held, Stores
    <3> QED
      BY <1>1, <1>2, <2>2, <3>1 DEF Store!Next, Store!Accept, Stores
  <2>3. CASE ~ok
    <3>1. Held' = Held
      BY <2>1, <2>3 DEF Held, Stores
    <3> QED
      BY <1>1, <1>2, <2>3, <3>1 DEF Store!Next, Store!Refuse
  <2> QED
    BY <2>2, <2>3
<1> QED
  BY <1>3, <1>4 DEF Persist, PersistEvent

(* Losing the contents of some stores, none included. *)
LEMMA LosingDiscards ==
  ASSUME UNCHANGED answer,
         ram' \in {ram, {}}, file' \in {file, {}}, records' \in {records, {}}
  PROVE  Store!Next
<1>1. InDb' \in {InDb, {}}
  BY DEF InDb
<1> DEFINE lost == {s \in Stores : Held'[s] = {}}
<1>2. Held' = [s \in Stores |-> IF s \in lost THEN {} ELSE Held[s]]
  BY <1>1 DEF Held, Stores
<1>3. lost \in SUBSET Stores
  OBVIOUS
<1> QED
  BY <1>2, <1>3 DEF Store!Next, Store!Discard

(* lox_adapter_persist_event keeps the promise of its declaration: an OK is for
   an event that is in exactly one store, anything else for one that is in
   none, and no store loses an event to a later one. *)
THEOREM Refinement == Spec => ImplementsStore
<1>1. Init => Store!Init
  BY DEF Init, Store!Init, Held, Stores, InDb, NoAnswer, Store!NoAnswer
<1>2. ASSUME IInv, [Next]_vars PROVE [Store!Next]_Store!vars
  <2>1. CASE \E ok \in BOOLEAN : Persist(ok)
    BY <2>1, <1>2, PersistIsAtomic
  <2>2. CASE RunStart \/ Refusal \/ FnEmit \/ FnReturn \/ RunComplete
             \/ AppPersists \/ AppPersistsToLoxdb
    BY <1>2, <2>1, <2>2, DirectCall
       DEF RunStart, Refusal, FnEmit, FnReturn, RunComplete, AppPersists
  <2>3. CASE FnReturnIncident \/ UNCHANGED vars
    <3>1. UNCHANGED <<nvVars, dbVars, evVars>>
      BY <2>3 DEF FnReturnIncident, vars
    <3> QED
      BY <3>1 DEF nvVars, dbVars, evVars, Store!vars, Held, InDb
  <2>4. CASE NvlogShutdown \/ NvlogInit("ram") \/ NvlogInit("file")
    <3>1. UNCHANGED <<dbVars, evVars>>
      BY <2>4 DEF NvlogShutdown, NvlogInit
    <3>2. \E m \in {"ram", "file"} : Closed \/ NotMounted(m) \/ Mounted(m)
      BY <2>4 DEF NvlogShutdown, NvlogInit
    <3>3. ram' = {} /\ file' \in {file, {}}
      BY <1>2, <3>1, <3>2, NvlogReopened
    <3> QED
      BY <3>1, <3>3, LosingDiscards DEF dbVars, evVars
  <2>5. CASE LoxdbReset \/ LoxdbInjectFail
    BY <2>5, LosingDiscards DEF LoxdbReset, LoxdbInjectFail, nvVars, evVars
  <2>6. CASE Crash
    BY <2>6, LosingDiscards DEF Crash, evVars
  <2> QED
    BY <1>2, <2>2, <2>3, <2>4, <2>5, <2>6 DEF Next
<1> QED
  BY <1>1, <1>2, IInvHolds, PTL DEF Spec, Store!Spec, ImplementsStore
=============================================================================
