# loxguard in TLA+

A formal model of loxguard, a C library that runs guarded blocks of firmware
code: it checks their memory accesses, records what happened in a black box,
counts their failures, refuses blocks that failed too often and reports the
outcome. Paths below are relative to the repository's root; line numbers are
those of the commit modelled.

## 1. Inventory

The library is single threaded and keeps its state in file-scope tables. What
makes it concurrent is that it calls out, into the guarded function, the
recovery callback and the writer of an export, and that all may call the library
again.

| Component | State | Operations | Talks to |
|---|---|---|---|
| guarded run (`src/loxguard.c`, `include/loxguard.h`) | one context per run on the C stack; the recovery callback | `loxguard_run`, `lox_guard_emit_bounds`, `lox_checked_output_write_u8`, `lox_set_recovery_callback`, six demo runs | every component below, the guarded function, the callback |
| failure streaks (`loxguard.c:16-90`) | 8 slots of name, hash, count, and an overflow slot | lookup-or-claim, count, clear | emission (`:104-172`), the quarantine test (`:554`) |
| block states (`loxguard_adapters.c`) | 8 slots of health, watchdog, recovery, breaker, an overflow slot, the slot used last | set/get health, observe event, allow attempt, report result, the two resets, aggregates | emission, `loxguard_run`, the microres breaker |
| black box (`loxguard.c:335-380`) | 16 events, 16 rows of copied text, a count | init, store; callers and the CSV import overwrite the count | emission |
| arena (`loxguard.c:277-333`, `loxguard.h:168-186`) | base, size, mark | init, alloc, array alloc, reset | the guarded function |
| spans (`loxguard.c:174-275`) | none; windows on the caller's memory | checked reads, writes, copies | the guarded function |
| persistence (`adapters/`) | nvlog's ready flag, region or file; loxdb's ready flag, sequence number, count, injected failure | init, shutdown, persist with fallback, reset | emission, nvlog, loxdb |
| export formats (`loxguard_format.c`) | none of its own; the box, buffers and snapshots of the caller | CSV export to a buffer and through a writer callback, import; key=value reports and their two parsers | black box, report, the writer |
| backends, ports, RTOS bridge | the active port | set the port; store a timeout or a fault | black box, the demo runs |
| companion library glue (`loxguard_adapters.c`) | ready flags, bus statistics | log, bus, timer, watchdog and health libraries kept informed | libraries not in the repository |
| shell (`loxguard_shell.c`) | none | commands that print the states above | block states, black box |

Hard behaviour, and what must hold in spite of it:

* **Nesting.** A guarded function may run other blocks, or its own, and the
  recovery callback may too. The black box must still tell which runs were
  entered and did not end (`LogIsBracketed`), and each report must be about its
  own run (`TimeoutsExact`).
* **Bounded tables.** Both tables have eight slots, recognise a block by hash
  and text, and never free a slot. States of different blocks must not mix
  (`StreakNeverOvercounts`, `OneSlotPerBlock`, `ImplementsRegistry`), with more
  blocks than slots and with names of more than 63 characters.
* **Four counts of one thing.** Streak, breaker, health and black box each keep
  their view of a block's failures, updated at different points of one run. They
  must agree (`HealthFollowsStreak`, `BreakerCountsFailedRuns`,
  `FailuresAreIncidents`, `QuarantineJustified`, `QuarantineEnforced`).
* **Boundaries.** The clock and the streak wrap at 2^32, sizes and addresses at
  2^64 (`TimeoutsExact`, `BoundsExact`, `AllocationsInside`, `ArraysFit`), and
  the black box rolls over at 16 events (`ImplementsHistory`).
* **Borrowed pointers.** Events are stored with the emitter's strings, which may
  be gone when the log is read (`NoBorrowedText`).
* **Clearing.** A demo run clears the box it is given, also from within a run
  that is using it (`LogIsBracketed`).
* **Restarts and failing stores.** An append may fail and fall back to the other
  store, an init may stop half way, power may be lost between any two calls. What
  callers and reports are told must be what became of the event
  (`ImplementsStore`, `FlagIsTruthful`, `CountMatchesRecords`), and old evidence
  must not pass for new (`SessionsDoNotMix`).
* **Truncation.** Names are cut to 63 characters, encoded into 64 bytes, lines
  cut to 160 and buffers to what the caller has. What reads back must be what was
  written (`ImportRestores`, `OnlyAuxIsCut`, `ReportsComeBack`).
* **Exporting a moving box.** The writer may store events while the box it is
  handed line by line rolls over (`LinesHandedOnce`, `ExportEnds`).
* **Retrying.** Refusals count as failures in one place and must not in another,
  or trying again would prevent its own success (`ReadmittedEventually`).

`PROJECT.json` lists each hazard at its line.

## 2. Modules

| Module | Models |
|---|---|
| `BlockNames` | how both tables recognise a name: 64-byte text and hash |
| `EventLog` | event kinds, and the log as a bounded sequence |
| `FailureStreaks` | the streak table of `loxguard.c` as operators on a table |
| `BlockStates` | the block-state table of `loxguard_adapters.c`, likewise; the breaker is external |
| `GuardRun` | `loxguard_run` and all it calls, on the two tables and the log |
| `GuardDemos` | `GuardRun` with the demo runs, the ports and the backends |
| `BlockRegistry` | abstract: one independent state for each of a limited number of blocks |
| `AdapterState` | the adapter's functions as actions; implements `BlockRegistry` |
| `EventHistory` | abstract: the newest events, each with the texts it was stored with, as a function of the calls |
| `Blackbox` | arrays, row pointers, count and roll-over; implements `EventHistory` |
| `LineFormat` | percent encoding, tokens, cut lines and their parsers, as operators on sequences of symbols |
| `Export` | export, import and reports as actions on a box, a buffer and a writer |
| `EvidenceStore` | abstract: an event is in one store and its caller told so, or in none and told that |
| `Persistence` | both persistence adapters, the run that uses them, and crashes; implements `EvidenceStore` |
| `Arena` | the bump allocator on machine words |
| `Spans` | checked reads, writes and copies on machine words |
| `MC*` | constants for TLC |
| `TableProofs`, `GuardProofs`, `AdapterStateProofs`, `BlackboxProofs`, `ExportProofs`, `PersistenceProofs`, `ArenaProofs`, `SpansProofs` | theorems |

### How the state corresponds

* **Tables.** `streaks` and `blocks.slot` are functions from `0 .. Slots`; the
  last index is the overflow slot, which in C is a variable of its own.
  `blocks.active` is `g_active_block_slot`. The aggregate globals are not
  variables: every getter refreshes them before it reads them, so they are the
  function `Aggregate` of the table.
* **Names.** A name is a model value; `Text[n]` is what a 64-byte field keeps of
  it, `Hash[n]` its FNV-1a hash. A long name has `Text[n] # n`, so its own slot
  never matches it; `Text[n]` may be the whole name of another block.
* **Steps.** An action of `GuardRun` is what the library does between two
  moments at which foreign code may run, but for the entry of a run, which is two
  steps: `RunEnters` reads `start_ticks` and emits ENTERED; then `RunQuarantined`,
  `RunBreakerOpen` and `RunAdmitted` are the three ways to a refusal or to the call
  of `fn`. Time may pass between the two, since logging and persisting ENTERED
  (`loxguard.c:551`) are on the run's time. No other action of the application
  happens there. `FnTimedOut`, `FnReturnOk`, `FnReturnError` and
  `FnReturnIncident` the four ways on from the return of `fn`; `FnEmitBounds` is
  a checked write that misses; `RecoveryReturn` ends the callback. `frames` is
  the C stack reduced to the runs begun. Several emissions of one step are threaded
  through a record, `World`, in the order of the code.
* **Time.** `Tick` may happen before, between and inside runs and callbacks, and
  between the entry of a run and its refusal or call. The clock stands still only
  from the read of `end_ticks` to the report: it is not read again before that,
  and what the last emissions take is in no duration. In a refusal that covers the
  emission of the ERROR event too (`:555-563`, `:571-579`), whose time is in the
  duration of the refused run; as a refusal is held against no timeout, the time
  before it stands for both.
* **Events.** Index, limit, address and aux code are left out, and so are the
  numbers in `QUARANTINED` and `BREAKER_OPEN` events: nothing reads them back.
* **Persisting** an event succeeds or fails in `GuardRun` by a free choice whose
  result the report carries; `Persistence` says what stands behind the choice. It
  reduces a run to its emissions, and an event to its number.
* **Demos.** A demo calls nothing but the recovery callback, so each is one
  action from its call to its return or to the callback. Its box is the one runs
  use: with another, it touches no state the two share but the tables. The
  configured names are constants, and may coincide with the application's.
* **Text** in `LineFormat` is a sequence of symbols: one for a plain character,
  each reserved one and a digit. `Cut`, `Encoded` and the parsers do to it what the
  code does byte by byte; numbers are written in decimal and read with the
  ranges of their C types scaled down. The loops over characters and tokens are
  recursive functions over the texts on the constant set `Symbols` (or over lists
  of them), which proofs can unfold.
* **Export** through a writer is a step per line, so that the writer can store in
  between; into a buffer it is one step.
* **nvlog and loxdb** are external: the set of events a medium keeps, and
  operations that succeed or fail. A file outlives a crash, and a format that was
  interrupted leaves it as it was or empty.
* **History.** `incidents` (events of a failure kind of a block since its last
  OK, counted to the modulus of the streak), `failedRuns` (failed runs since the
  last success, capped at the breaker's threshold), `took`/`limit` in reports
  (the true time from the read of `start_ticks` to that of `end_ticks`, and the
  timeout configured), `wiped` in `GuardDemos`, `handed`, `disturbed`,
  `imported` and `accepted` in `Export`, `since` and `stored` in `Persistence`,
  `called` in `AdapterState` and `Blackbox`, `live` in `Arena`, `target` and
  `inside` in `Spans` are not state of the program; they say what the program
  should know.

### External code

The microres breaker is not in the repository. It is modelled from its calls
and `g_mres_policy`: it opens at a number of failures without a success between
them, refuses attempts until a timeout has passed, and a failure while it is open
restarts the timeout. The memory primitives and the clock are external too.

## 3. Runs

| Run | Question | Bounds, and why they are enough |
|---|---|---|
| `guard_flat` | Do streak, health, breaker and quarantine agree when blocks run one after another? | Two blocks, since a table mistake is about one block and another; counter modulus 6, one past the last health threshold (5), so that it wraps; breaker threshold 3; max_failures 3 and 0 (off). No clock: durations do not matter here. |
| `guard_one_block` | Are timeouts exact, does the quarantine work when no other block runs, and does a retrying caller get past the breaker? | Clock modulus 4 and runs of up to 4 ticks, spent on entering or in the function in any division: wraps inside a run, and a full turn. Breaker threshold 2, timeout one tick; one caller with max_failures 2 and one without; counter modulus 4, so that enough refusals wrap it. |
| `guard_nested` | Does the log show who is inside, and does the breaker count right, with nested runs and demos? | Two runs deep, functions and callbacks; max_failures 1 and a breaker threshold of 2, so that refusals of both kinds occur at both depths; capacity 4, so that an inner run rolls the outer run's ENTERED out; demos for both blocks, on every port. |
| `guard_quarantine_missed` | Is the quarantine enforced with a second block? | Violation, see below. |
| `adapter_state` | Is the table one independent state per block? | Two slots, three names: one more than slots, one too long to be recognised; every function. |
| `adapter_aggregate` | Is the aggregate the maximum? | Violation, see below. |
| `blackbox` | Do arrays and pointers implement a log? | Capacity 3: roll-over has an oldest, a middle and a newest row; two kinds and two texts, one of them cut when kept, so that events, their two names and NULL are told apart; counts up to one beyond the capacity. |
| `export` | Does what is exported read back? Is every event handed out once while the box moves? | Fields of 4 symbols, lines of 30, boxes of 3; names that are plain, NULL, empty, too long, reserved, or end in an escape that just fits or does not; buffers from nothing to more than two lines, among them every length at which a line is cut inside its last number; a writer that stores up to two events per line. |
| `export_empty_name` | Is every line written parseable? | Violation, see below. |
| `persistence` | Is what callers are told of an event what became of it? | Four events, a database of two records: full, and with a key lost to a failure; every init outcome, both media, a crash anywhere. |
| `arena` | Are allocations inside, aligned, disjoint? | 3-bit words, every region; alignments with no power of two among them; sizes 0, 1, 5 and the largest word: every sum and product wraps somewhere. |
| `spans` | Do accesses stay inside? | 3-bit words, four bytes of memory; windows that overlap, a read-only, an empty and a NULL one; every offset and length. |

Deadlock is checked in every run. Two runs have a VIEW. That of `guard_flat`
leaves out the last report and the log, which no guard of `GuardRun` and none of
the run's properties reads. That of `guard_nested` leaves out what
no guard reads and no property of the run mentions (reports, health, watchdog and
recovery states, the history of incidents, and of log entries other than ENTERED
and COMPLETED all but their place), so that states that differ in nothing else
are one. The port decides only which of two incidents a demo emits, and both do
the same to everything in the view: it is told apart only between runs, where
every demo is then taken on every port.

Fairness is assumed where something must eventually happen:

* `Export!Spec`: the writer returns (weakly fair). It is a callback that gets one
  line; nothing is assumed of how many events it stores but the bound. `ExportEnds`
  says that the export then ends, although the count it runs up to is read again
  after every line.
* `GuardRun!FairSpec`: the clock goes on, a run that was entered goes on to its
  refusal or its function (the library's own code, between two calls that
  return), guarded functions and the callback return, and the caller without
  max_failures keeps calling. `Tick` is strongly fair only because the bound
  `MaxElapsed` stops it while a run is at its limit. `ReadmittedEventually`
  needs all of these. The condition that enables a step is written out instead
  of ENABLED, which TLC would evaluate through every emission of the step.

Bounds in the modules: `MaxDepth` (nested runs), `MaxElapsed` (ticks in a
run), `StoresPerLine` (events a writer stores per line), `MaxEvents` (events
persisted). They limit the application, not the library.

### What the runs found

* **The streak lookup uses one slot only** (`loxguard.c:73`). The scan remembers
  the first slot that does not match as free without asking `in_use`, so it is
  always slot 0 that is claimed, and claiming zeroes the count. With a second
  block in the program the quarantine of the first is missed
  (`guard_quarantine_missed`): the test comment "after N failures, next call is
  blocked and fn is not invoked" (`tests/test_loxguard_run.c:240`) holds only
  while no other block runs (`guard_one_block`). The error is on the permissive
  side: no block is ever quarantined for another's failures
  (`QuarantineJustified`, proved).
* **The aggregate states are those of the last block touched**, not the "max
  over blocks" of the comment (`loxguard_adapters.c:26`): `adapter_aggregate`.

* **An event with an empty name is lost on import.** It is exported as `block=,`
  and the parser refuses a token with nothing after `=` (`loxguard_format.c:132`),
  although the schema says that encoding keeps lines "reversible and parseable"
  (`docs/EVENT_SCHEMA.md:55`): `export_empty_name`. `ImportRestores` is therefore
  stated for the events whose line parses, and says that the others only are
  missing, the rest in order.

`ReadmittedEventually` is about callers without max_failures. With it, the
refusals of an open breaker are counted into the streak and can end in a
quarantine; no refusal ends that before the uint32_t wraps, which is why
`QuarantineEnforced` is silent from a full turn of incidents on.

Two properties are stated with their limits. `HealthFollowsStreak` speaks of
the block slot 0 counts, the only one there is a streak for. `FailuresAreIncidents`
is checked on runs that do not nest: an inner OK of the same block clears the
incidents the outer run is about to be failed for.

## 4. Proofs

Checked by TLAPS for every value of the constants that satisfies the modules'
assumptions: any names, configurations, table sizes, clock and word widths,
depth of nesting.

Guarded runs, in `GuardProofs` on the lemmas of `TableProofs`:

* `TypeCorrect`: `Spec => []TypeOK`. `TypeOK` is inductive; the lemmas say that
  each table operator returns a table and that an emission keeps a `World` in its
  type, and the step lemma takes the actions one by one.
* `StreaksAreBounded`: the inductive invariant `StreakInv`.
  `StreakNeverOvercounts` is not inductive by itself: a slot that answers for a
  block today may have been claimed by another yesterday, and with several slots
  in use a lookup could return one and bound another. What makes it hold is
  `OnlyFirstSlot` (no slot but the first is in use, for every table size, which
  is the finding above as a theorem) together with the bound on the first slot.
  `OwnerIsUnique` is where the assumptions on names enter. `NeverOvercounts` and
  `QuarantineIsJustified` follow; the second is an action property.
* `CountsAgree`: the inductive invariant `CountInv`, from which
  `BreakersAreRight` and `HealthIsRight` follow. Both properties speak of every
  slot that is found for a block; to be inductive they need that there is only
  one (`OneSlotEach`), that a block which may still be given a slot, with a fresh
  breaker, has no failed runs (`BreakersCount`), and that a name which fits is found
  under itself only. For health they also need that
  a block which slot 0 counts at three failures or more has a slot or can get none
  (`Settled`): the run looks its breaker up after ENTERED showed the health, and
  would show it afresh in a slot it claimed only then. A step that
  cannot look a block up changes no slot but the overflow slot, which answers for
  nobody.
* `TimeoutsAreExact`: `ClockInv` says of each run that is entered or in its
  function that the clock is `elapsed` ticks past its `start_ticks`, modulo the
  clock, and that no TIMEOUT was emitted for it, whatever time passed before its
  function was called; `RemainderIs` turns the subtraction of two wrapped ticks
  into the ticks that passed.
* `FailedRunsLeaveIncidents`: `FailuresAreIncidents` for runs that do not nest
  (`MaxDepth = 1`) and a breaker threshold within the counter's range. The
  invariant `CoverInv` adds that a run with an incident of its own has one more
  failure covered than its block has failed runs: this is what completing the run
  uses up. With nesting the property is false (see above).
* `QuarantineIsEnforced`: `QuarantineEnforced` for a program with one block whose
  name fits a field, at any depth. The run `guard_quarantine_missed` refutes it
  for two blocks, so the hypothesis is what the code needs, and `guard_one_block`
  is an instance. `AloneInv` says that slot 0 counts the incidents of the block
  exactly until their count may have wrapped.
* `DemosKeepInv`: types, `StreakInv` and `CountInv` (together `DemoInv`), with the
  demo runs, ports and backends taking steps in between, and from it
  `DemosNeverOvercount`, `DemosJustifyQuarantine`, `DemosKeepBreakers` and
  `DemosKeepHealth`. The lemmas are about a `World` and its emissions, so that a
  demo is proved as one more sequence of them.
* `DemosBracketLog`: `LogIsBracketed`, for runs, callbacks and demos nested in
  any way, logs of any capacity. `BracketInv` adds to the property that each
  entry still open is followed by exactly one more ENTERED than COMPLETED for
  itself and for every open entry after it; without it nothing would say which
  entry a COMPLETED closes. The lemmas say what three things do to the open
  entries of a sequence: appending ENTERED (`EnteredPushes`) adds the last one,
  appending COMPLETED (`CompletedPops`) removes the innermost, and losing the
  oldest event (`OldestGone`) removes at most the outermost. A run that rolled out
  of the log may complete: its COMPLETED then closes nothing, which is why open
  entries are matched with runs by how many come after them.

Block states, in `AdapterStateProofs`:

* `TableIsInOrder`: slots are taken in order and a block has one at most
  (`TableInv`); `TypesHold`, `SlotsAreInOrder` and `SlotsAreSingle` follow.
* `TableImplementsRegistry`: `Spec => ImplementsRegistry`. Every call leaves one
  slot in a new state and the others alone (`Leaves`), which is the step of one
  block in the registry, or of the block without a slot; the resets and time are
  steps of all blocks.

The other components:

* `PersistenceProofs!IInvHolds`, with `TypesHold`, `CountIsRight`,
  `SessionsApart`, `FlagIsRight` and `Refinement` (`Spec => ImplementsStore`), for
  any number of events and any room, in builds with either adapter or both. The
  invariant has four parts: `DbInv` (every key in the database was handed out
  already, so a write never replaces a record and the count is right), `NvInv`
  (a ready log is open and holds events numbered from its mount on), `EventsInv`
  (events in a store are older than the next one, so a new event is in none) and
  `RunInv` (the run's own flag is truthful before its report is). The refinement
  follows: each call's step is `Accept`, `Refuse` or, for opening, closing,
  resetting and crashing, `Discard`.
* `SpansProofs!BoundsAreExact` and `SpansProofs!WritesAreConfined`: the range
  check in modular arithmetic is the one in true arithmetic, so an access is let
  through exactly when its bytes are in the span, and a step changes only bytes
  of its target span.
* `BlackboxProofs!IInvHolds`: event `i` points at row `i`, or was never stored
  and lies over an empty row. `TypesHold` and `NamesAreKept` follow. The second
  half is needed for what a reader sees: a caller may raise the count over rows
  never stored, and the next store then points their events at those rows. With
  the invariant a reader sees exactly what is in the rows (`VisibleIs`), and
  `Refinement` (`Spec => ImplementsHistory`) takes the steps one by one: a store
  appends at the end, moved by one row when full (`StoreMoves`), anything that
  changes only the count is `Resized`. `EventHistory` leaves nothing open: what
  it does next is a function of the call (`called`) and of what the reader saw,
  and every call is one of its steps, so a store that is lost, misnamed or
  misplaced is none. The places beyond the count are part of it (`behind`),
  since a count raised from outside shows them again.
* `ExportProofs!LinesAreHandedOnce`: the writer gets no event twice, and none
  is left out while the box does not move, for any capacity and any number of
  stores. The rows of the box are numbered one after the other (`BoxInv`), and
  the row handed last was stored `d` stores ago for some `d` that the place of
  the export bounds (`HandedBefore`): both move by one when a full box shifts. The
  next row handed is then ahead of it by less than a turn of the index.
* What the formats do to text, in `ExportProofs`, for any set of symbols, any
  sizes of box, field, line and caller's buffer, and any ranges of the numbers:
  `ExportTypes` (`TypeOK`), `ImportAlwaysRestores`, `ExportOnlyAuxIsCut` and
  `ReportsAlwaysComeBack`. The argument goes from symbols to texts:
  - *Recursion.* A recursive function is first shown to exist and to satisfy its
    equation: `RunsExist` for functions of numbers, `FoldsExist` for functions of
    sequences (`FoldSteps`, `FoldsAlong`). Induction is stated without an operator
    parameter: a set that holds the empty sequence and is closed under `Append`
    holds every sequence (`SeqsFollow`), a set closed under successor every number
    (`NatsFollow`, `UpTo`); both from the minimum of a well-founded relation.
  - *Fields.* Decoding undoes encoding on every text a field holds
    (`UnescapedEscaped`, `DecodedEncoded`), an encoded text has no reserved
    character but `%` (`EncodedPlain`), and a numeral reads back as its number; a
    beginning of it reads as a number whose numeral is that beginning
    (`NumberBack`).
  - *Lines.* Splitting undoes joining (`SplitJoined`). A beginning of a line splits
    into the same tokens but for the last, which is a beginning of the token in its
    place (`SplitPrefix`). So a line whose six values are all read has the first
    five whole and at most the digits of aux cut (`ValuesOfPrefix`,
    `EventReadBack`), and a report line gives its report back or is refused
    (`ReportReadBack`); the header and the empty line are no event
    (`HeaderNoEvent`, `EmptyNoEvent`).
  - *Texts.* The lines of a cut text are those of the whole one, but for the last
    (`CutTextParts`), and each gives a row that was exported or none (`PartsRead`).
    When nothing was cut, each row with both names is found at the place its rank
    among them gives (`RestoresNext`, `WholeRead`), which `ImportRestores` says
    with cardinalities.
  - *Steps.* The two properties of import speak of the text in a buffer, the
    rows it was exported of and the rows last restored, and are not inductive:
    the export that made the text is past when it is imported. `TextInv` keeps
    what connects them: the text is that of rows the box held, cut to the
    buffer, and what was restored, once it was imported, is the import of that
    text. `TypeInv` adds the types of the writer's bookkeeping.
    `ReportsComeBack` is inductive once the snapshot is known to be the record
    of its four fields (`SnapshotIs`), so that a refused line, which assigns
    only the kind, leaves the others.
* `ArenaProofs!IInvHolds`: every allocation ends at or before the mark.
  `StaysInside`, `StaysDisjoint` and `HoldsEveryElement` follow, for words of any
  width. The argument is in `RoundedUp`: rounding the mark up either does not wrap,
  and then loses less than the alignment, or wraps to an address below the
  alignment that rounds down to 0, where no arena starts. That a power of two
  divides the word modulus is not even needed for it, only that the alignment is
  not 0.

Assumptions: names that agree in the text kept and in the hash are the same
(`HashSeparates`: 32-bit collisions between names with the same first 63
characters are left out; nothing else is assumed of the hash); a text that a
field kept fits in a field (`KeptTextsFit`); table sizes and moduli are
positive. For the formats: a field has room for one escape (64 bytes in the
code); every key, reserved character and hexadecimal digit is a symbol, and a
NULL pointer is none (`SymbolsAssumption`); the numeral of every number in the
range of its type fits the 32-byte token it is copied to (`NumbersFitTokens`);
what the application stores and formats are values of the C types
(`SamplesAssumption`). TLC evaluates each of them on the instances of section 3.

`TimeoutsExact` leaves refusals out: their time is measured, but compared with
no limit (`loxguard.c:564`, `:580`). It and `FailuresAreIncidents` are claimed
of runs without demos, as they are checked: a demo's report has no limit to
compare with, and its emissions are incidents of no run.

Only model-checked: liveness (`ExportEnds`, `ReadmittedEventually`), which rests on
fairness and ENABLED and is out of the prover's reach. `StreakInv`, `CountInv`,
`ClockInv`, `CoverInv`, `AloneInv`, `BracketInv` and `ExportInv` held in TLC on the
instances of section 3 before they were proved, and so did every property stated
by a theorem.

## 5. Plan

1. *Done:* the core (names, streaks, block states, guarded run), adapter state,
   black box, arena, spans; export formats; persistence with failures, crashes and
   its abstract store; demo runs, ports and backends; liveness of export and
   breaker; the theorems of section 4, among them the round trip of events and
   reports through their text.
2. `GuardRun` and `Persistence` composed, so that the flag in a report is the
   store's answer rather than a free choice; they are checked apart because their
   product is large and the run tells the adapters nothing but events.

### Not modelled

* The glue to mlog, mhealth, mtimer, mwdt and mbus (`loxguard_adapters.c:166-274`,
  `314-388`, `607-640`): the libraries are not in the repository. What comes back
  is the watchdog's callback, which writes an aggregate global that the next getter
  overwrites, and two bus statistics.
* The shell: it prints states modelled elsewhere and keeps none.
* nvlog, its POSIX layer, loxdb and microres beyond their calls. Failure injection
  into appends is the free choice to fail. That key numbers wrap at 2^32 is not
  reached.
* NULL arguments, which all functions but `loxguard_run` (`RunNull`) answer with a
  status or nothing. A demo given no box emits nothing; its report is not
  modelled.
* In formats: lower-case hexadecimal digits, the blanks and signs `strtoumax`
  skips, and the printing of the last event alone (`lox_event_parse_csv_line`
  without a snapshot and `lox_blackbox_last_event_format_csv`), which are cases of
  the operators modelled.
* In the text of a report, the cases of `lox_report_format_kv` for a NULL block,
  reason, report or event (`loxguard_format.c:567-580`).
* A demo's task name that is empty but not NULL, which is kept
  (`loxguard.c:724`, `:754`) where an empty block name of `loxguard_run` is not;
  and the time a demo takes, which is compared with no limit of `loxguard_run`.
* Time between a run's read of `end_ticks` and its report (section 2, Time).
* The READ flag of spans (`loxguard.c:223`, `:262`): both constructors set it.
* Two live runs with one scratch buffer (`loxguard.c:540`): by the code their
  allocations overlap, and no text says whether it is allowed.
* Headers with macros only, the C++ wrapper, examples, benchmark sketch and build
  files.
