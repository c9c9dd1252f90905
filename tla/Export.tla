------------------------------- MODULE Export -------------------------------
(***************************************************************************)
(* Exporting the black box and reports as text and reading them back:       *)
(* lox_blackbox_export_csv_buffer_ex into a caller's buffer,                 *)
(* lox_blackbox_export_csv_lines through a writer callback that may store    *)
(* into the box while it is being exported, lox_blackbox_import_csv_buffer,  *)
(* and lox_report_format_kv with its two parsers.                            *)
(***************************************************************************)
EXTENDS LineFormat, EventLog

CONSTANTS
  Samples,       \* events the application stores, without their index
  RowCounts,     \* values of max_events
  Rooms,         \* buffer sizes less the terminator
  ReportSamples, \* reports the application formats, with the event's kind
  NoneText,      \* "none", what a NULL text is stored and written as
  IndexMod,      \* the samples are numbered in their index field, modulo this
  StoresPerLine  \* bound: events a writer stores while it has one line

ASSUME ExportAssumption ==
  /\ RowCounts \subseteq Nat /\ Rooms \subseteq Nat
  /\ StoresPerLine \in Nat
  /\ IndexMod \in Nat /\ IndexMod >= 2 * Capacity + StoresPerLine

(* What the application stores and formats are values of the C types. *)
ASSUME SamplesAssumption ==
  /\ IndexMod - 1 <= SizeMax
  /\ IsString(NoneText) /\ Len(NoneText) <= FieldMax
  /\ \A e \in Samples :
       /\ e.kind \in 0 .. KindMax /\ e.limit \in 0 .. SizeMax /\ e.aux_code \in 0 .. U32Max
       /\ \A text \in {e.block_name, e.reason} : text = <<"NULL">> \/ IsString(text)
  /\ \A p \in ReportSamples :
       /\ {p.report.result, p.report.action, p.report.duration_ticks, p.event_kind} \subseteq Nat
       /\ p.report.event_persisted \in BOOLEAN
       /\ IsString(p.report.last_block) /\ IsString(p.report.reason)

VARIABLES
  box,       \* the caller's black box
  serial,    \* index of the next event stored
  writing,   \* the row a writer callback has the line of, 0 outside an export
  handed,    \* history: indices of the last two events handed to the writer
  disturbed, \* history: rows moved or were wiped during the export
  stored,    \* events stored since the writer was given its line
  csv,       \* the text exported last, with the rows it was made from
  restored,  \* the black box that text was imported into
  imported,  \* history: the text exported last was imported
  snapshot,  \* the caller's lox_report_snapshot_t of lox_report_parse_kv_ex
  accepted,  \* what lox_report_parse_kv_ex returned last
  parsed     \* the caller's report and kind of lox_report_parse_kv

boxVars    == <<box, serial>>
writerVars == <<writing, handed, disturbed, stored>>
textVars   == <<csv, restored, imported>>
reportVars == <<snapshot, accepted, parsed>>
vars == <<boxVars, writerVars, textVars, reportVars>>

NoCsv == [text |-> <<>>, rows |-> <<>>, whole |-> FALSE]

NoNumbers == [result |-> 0, action |-> 0, duration_ticks |-> 0, event_persisted |-> FALSE]
NoSnapshot == [report |-> NoNumbers, block_name |-> <<>>, reason |-> <<>>, event_kind |-> 0]
NoParsed == [report |-> NoNumbers, event_kind |-> 0]

(* Mutant: an overlong text is kept whole. *)
Kept_Whole(text) == IF text = <<"NULL">> THEN NoneText ELSE text

(* A NULL or overlong text, as lox_blackbox_store keeps it. *)
Kept(text) == IF text = <<"NULL">> THEN NoneText ELSE Cut(text, FieldMax)

Row(e, index) ==
  [kind |-> e.kind, block_name |-> Kept(e.block_name), reason |-> Kept(e.reason),
   index |-> index, limit |-> e.limit, aux_code |-> e.aux_code]

(* The two formats share no state: a behaviour is about one of them. *)
EventsOnly  == reportVars = <<NoSnapshot, FALSE, NoParsed>>
ReportsOnly == box = <<>> /\ csv = NoCsv /\ writing = 0

-----------------------------------------------------------------------------
(* Storing, outside an export and from within a writer.  The text exported is
   the caller's own buffer: the model stores no more until it is read back. *)

Store ==
  /\ EventsOnly
  /\ csv = NoCsv
  /\ writing # 0 => stored < StoresPerLine
  /\ \E e \in Samples : box' = Stored(box, Row(e, serial))
  /\ serial' = (serial + 1) % IndexMod
  /\ stored' = IF writing # 0 THEN stored + 1 ELSE 0
  /\ disturbed' = (writing # 0 /\ (disturbed \/ Len(box) = Capacity))
  /\ UNCHANGED <<writing, handed, textVars, reportVars>>

Wipe ==
  /\ EventsOnly
  /\ csv = NoCsv
  /\ box' = <<>>
  /\ disturbed' = (writing # 0)
  /\ UNCHANGED <<serial, writing, handed, stored, textVars, reportVars>>

-----------------------------------------------------------------------------
(* lox_blackbox_export_csv_lines: the line of a row is made before the writer
   gets it, the number of rows is read again after every line. *)

FirstRow(max) == IF Len(box) > max THEN Len(box) - max + 1 ELSE 1

ExportLines(max) ==
  /\ EventsOnly
  /\ csv = NoCsv
  /\ writing = 0
  /\ box # <<>> /\ max > 0
  /\ writing' = FirstRow(max)
  /\ handed' = <<box[FirstRow(max)].index>>
  /\ disturbed' = FALSE
  /\ stored' = 0
  /\ UNCHANGED <<boxVars, textVars, reportVars>>

(* Mutant: the row is kept when the box is full, because rows may have moved. *)
NextRow_FollowsShift == IF Len(box) = Capacity /\ stored > 0 THEN writing ELSE writing + 1

(* Mutant: the row is counted from the newest event. *)
NextRow_FromNewest == IF disturbed THEN writing ELSE writing + 1

NextRow == writing + 1

WriterReturns ==
  /\ writing # 0
  /\ writing' = IF NextRow <= Len(box) THEN NextRow ELSE 0
  /\ handed' = IF NextRow <= Len(box) THEN <<Last(handed), box[NextRow].index>> ELSE <<>>
  /\ stored' = 0
  /\ disturbed' = (NextRow <= Len(box) /\ disturbed)
  /\ UNCHANGED <<boxVars, textVars, reportVars>>

-----------------------------------------------------------------------------
(* lox_blackbox_export_csv_buffer_ex and lox_blackbox_import_csv_buffer. *)

Newest(max) == SubSeq(box, FirstRow(max), Len(box))

(* The text before the end of the buffer cuts it. *)
FullText(rows, header) ==
  (IF header THEN Header \o <<"NL">> ELSE <<>>)
    \o JoinedBy("NL", [i \in DOMAIN rows |-> EventFormatCsv(rows[i], LineMax)])

(* `whole' is history: neither a line nor the text was cut. *)
ExportBuffer(max, header, room) ==
  LET rows == IF max = 0 THEN <<>> ELSE Newest(max)
      full == FullText(rows, header)
  IN  /\ EventsOnly
      /\ csv = NoCsv
      /\ writing = 0
      /\ csv' = [text |-> Cut(full, room), rows |-> rows,
                 whole |-> /\ Len(full) <= room
                           /\ \A i \in DOMAIN rows : Len(EventLine(rows[i])) <= LineMax]
      /\ UNCHANGED <<boxVars, writerVars, restored, imported, reportVars>>

(* lox_csv_schema_is_compatible, of one line. *)
IsSchema(line) == line = Header

(* Mutant: import ends at the first line that is no event, were it the header. *)
Imported_StopsAtHeader(text) ==
  LET lines == SplitAt(text, {"NL", "CR"})
      upTo[k \in 0 .. Len(lines)] ==
        IF k = 0 THEN <<>>
        ELSE IF \A j \in 1 .. k : IsEventLine(Cut(lines[j], LineMax))
             THEN Stored(upTo[k - 1], EventOfLine(Cut(lines[k], LineMax)))
        ELSE upTo[k - 1]
  IN  upTo[Len(lines)]

(* Lines end at NL or CR and are cut to the line buffer; those that are no
   event line, among them empty ones, are skipped. *)
Imported(text) ==
  LET lines == SplitAt(text, {"NL", "CR"})
      upTo[k \in 0 .. Len(lines)] ==
        IF k = 0 THEN <<>>
        ELSE LET line == Cut(lines[k], LineMax)
             IN  IF ~IsSchema(line) /\ IsEventLine(line)
                 THEN Stored(upTo[k - 1], EventOfLine(line)) ELSE upTo[k - 1]
  IN  upTo[Len(lines)]

ImportBuffer ==
  /\ csv # NoCsv
  /\ restored' = Imported(csv.text)
  /\ imported' = TRUE
  /\ UNCHANGED <<boxVars, writerVars, csv, reportVars>>

(* The caller is done with the text. *)
Discard ==
  /\ csv # NoCsv
  /\ csv' = NoCsv
  /\ restored' = <<>>
  /\ imported' = FALSE
  /\ UNCHANGED <<boxVars, writerVars, reportVars>>

-----------------------------------------------------------------------------
(* Report lines. *)

NumbersOf(r) ==
  [result |-> r.result, action |-> r.action, duration_ticks |-> r.duration_ticks,
   event_persisted |-> r.event_persisted]

(* lox_report_parse_kv_ex: of a line it refuses, the kind may have reached the
   caller's snapshot. *)
ParseReportEx(line) ==
  /\ ReportsOnly
  /\ snapshot' = IF IsReportLine(line)
                 THEN [report |-> NumbersOf(ReportOfLine(line)),
                       block_name |-> ReportOfLine(line).last_block,
                       reason |-> ReportOfLine(line).reason,
                       event_kind |-> KindOfLine(line)]
                 ELSE IF KindReached(line)
                      THEN [snapshot EXCEPT !.event_kind = KindOfLine(line)]
                 ELSE snapshot
  /\ accepted' = IsReportLine(line)
  /\ UNCHANGED <<boxVars, writerVars, textVars, parsed>>

(* Mutant: the kind goes straight to the caller. *)
ParseReport_SharedKind(line) ==
  /\ ReportsOnly
  /\ parsed' = IF IsReportLine(line)
               THEN [report |-> NumbersOf(ReportOfLine(line)), event_kind |-> KindOfLine(line)]
               ELSE IF KindReached(line)
                    THEN [parsed EXCEPT !.event_kind = KindOfLine(line)]
               ELSE parsed
  /\ UNCHANGED <<boxVars, writerVars, textVars, snapshot, accepted>>

(* lox_report_parse_kv: the snapshot is its own, and copied once accepted. *)
ParseReport(line) ==
  /\ ReportsOnly
  /\ parsed' = IF IsReportLine(line)
               THEN [report |-> NumbersOf(ReportOfLine(line)), event_kind |-> KindOfLine(line)]
               ELSE parsed
  /\ UNCHANGED <<boxVars, writerVars, textVars, snapshot, accepted>>

-----------------------------------------------------------------------------
Init ==
  /\ box = <<>> /\ serial = 0
  /\ writing = 0 /\ handed = <<>> /\ disturbed = FALSE /\ stored = 0
  /\ csv = NoCsv /\ restored = <<>> /\ imported = FALSE
  /\ snapshot = NoSnapshot /\ accepted = FALSE /\ parsed = NoParsed

Next ==
  \/ Store
  \/ Wipe
  \/ \E max \in RowCounts :
       \/ ExportLines(max)
       \/ \E header \in BOOLEAN, room \in Rooms : ExportBuffer(max, header, room)
  \/ WriterReturns
  \/ ImportBuffer
  \/ Discard
  \/ \E p \in ReportSamples, room \in Rooms :
       LET line == ReportFormatKv(p.report, p.event_kind, room)
       IN  ParseReportEx(line) \/ ParseReport(line)

(* A writer returns, whatever it does before. *)
Spec == Init /\ [][Next]_vars /\ WF_vars(WriterReturns)

-----------------------------------------------------------------------------
(* Properties. *)

(* A row, stored or imported, has texts that fit its own copies of them, none
   of them NULL, and there are no more rows than places. *)
TypeOK ==
  /\ \A rows \in {box, restored} :
       /\ Len(rows) <= Capacity
       /\ \A i \in DOMAIN rows :
            /\ rows[i].kind \in 0 .. KindMax /\ rows[i].index \in 0 .. IndexMod - 1
            /\ \A text \in {rows[i].block_name, rows[i].reason} :
                 Len(text) <= FieldMax /\ text # <<"NULL">>
  /\ serial \in 0 .. IndexMod - 1
  /\ writing \in 0 .. Capacity
  /\ handed \in Seq(0 .. IndexMod - 1) /\ Len(handed) <= 2
  /\ disturbed \in BOOLEAN /\ stored \in 0 .. StoresPerLine
  /\ imported \in BOOLEAN /\ accepted \in BOOLEAN

(* A name comes back as it was, or, if its escaped form is longer than its
   field, as the beginning of it. *)
ComesBack(text, back) ==
  /\ IsPrefix(back, text)
  /\ Len(Escaped(text)) <= FieldMax => back = text

SameRow(e, r) ==
  /\ r.kind = e.kind /\ r.index = e.index /\ r.limit = e.limit
  /\ ComesBack(e.block_name, r.block_name) /\ ComesBack(e.reason, r.reason)

(* Once lox_blackbox_import_csv_buffer was given a text that was not cut, every
   row exported is there again, in order, escapes, header and line ends
   notwithstanding, but for the rows with an empty name: the parser refuses an
   empty value. *)
ImportRestores ==
  imported /\ csv.whole =>
    LET rows   == csv.rows
        named  == {i \in DOMAIN rows : rows[i].block_name # <<>> /\ rows[i].reason # <<>>}
        place(i) == Cardinality({j \in named : j <= i})
    IN  /\ Len(restored) = Cardinality(named)
        /\ \A i \in named : /\ SameRow(rows[i], restored[place(i)])
                            /\ restored[place(i)].aux_code = rows[i].aux_code

(* A line or text that was cut, at a buffer's end, at 160 bytes, in an escape
   or in a number, never yields a row that was not exported, but for its aux
   code, which may have lost its last digits. *)
OnlyAuxIsCut ==
  \A i \in DOMAIN restored :
    \E e \in ToSet(csv.rows) :
      /\ SameRow(e, restored[i])
      /\ IsPrefix(Decimal(restored[i].aux_code), Decimal(e.aux_code))

(* lox_blackbox_export_csv_lines hands every event on after the ones stored
   before it, none of them twice, and leaves none out unless the writer made
   the rows move. *)
LinesHandedOnce ==
  Len(handed) = 2 =>
    LET ahead == (handed[2] + IndexMod - handed[1]) % IndexMod
    IN  /\ ahead \in 1 .. Capacity + StoresPerLine - 1
        /\ ~disturbed => ahead = 1

(* lox_blackbox_export_csv_lines ends, even when its writer stores an event for
   every line it is given. *)
ExportEnds == writing # 0 ~> writing = 0

(* lox_report_parse_kv never returns the kind of one line with the report of
   another, and neither parser accepts a report that was not formatted so: a
   cut report line never parses.  lox_report_parse_kv_ex may leave the kind of a
   line it refused in the caller's snapshot, but nothing else of it, and the
   kind is right again with the next line it accepts. *)
ReportsComeBack ==
  /\ parsed # NoParsed =>
       \E p \in ReportSamples :
         parsed = [report |-> NumbersOf(p.report), event_kind |-> p.event_kind]
  /\ accepted \/ snapshot.block_name # <<>> =>
       \E p \in ReportSamples :
         /\ snapshot.report = NumbersOf(p.report)
         /\ ComesBack(p.report.last_block, snapshot.block_name)
         /\ ComesBack(p.report.reason, snapshot.reason)
         /\ accepted => snapshot.event_kind = p.event_kind

(* "The export format uses percent-encoding for block and reason to keep lines
   reversible and parseable" (docs/EVENT_SCHEMA.md): every row whose line fits
   the line buffer is written as a line the parser accepts. *)
ExportedLinesParse ==
  \A i \in DOMAIN box :
    Len(EventLine(box[i])) <= LineMax => IsEventLine(EventFormatCsv(box[i], LineMax))
=============================================================================
