------------------------------ MODULE MCExport ------------------------------
(* An instance of Export for TLC: fields of 4 symbols and lines of 30. *)
EXTENDS Export

Sample(kind, block, reason, limit, aux) ==
  [kind |-> kind, block_name |-> block, reason |-> reason, limit |-> limit, aux_code |-> aux]

MCSymbols ==
  {"x", "n", "NUL", "byte"} \cup Reserved \cup HexDigits
    \cup ToSet(EventKeys) \cup ToSet(ReportKeys)

(* Names that are plain, NULL, empty, longer than a field, reserved, look like
   an escape, or end in one that just fits or does not; numbers of one and two
   digits, so that some lines are cut inside one. *)
MCSamples ==
  {Sample(1, <<"x">>, <<"NULL">>, 0, 12),
   Sample(11, <<"%", "2", "C">>, <<",", "x">>, 3, 12),
   Sample(2, <<"x", "x", ",">>, <<"NL">>, 0, 7),
   Sample(2, <<"x", "x", "x", "x", "x">>, <<"=", "x", "x">>, 2, 12),
   Sample(3, <<"x", "CR">>, <<>>, 1, 0)}

ReportSample(block, reason, result, kind, ticks, persisted) ==
  [report |-> [last_block |-> block, reason |-> reason, result |-> result,
               action |-> IF result = 1 THEN 0 ELSE 1, duration_ticks |-> ticks,
               event_persisted |-> persisted],
   event_kind |-> kind]

MCReportSamples ==
  {ReportSample(<<"x">>, <<"n">>, 1, 0, 0, TRUE),
   ReportSample(<<"x", ",">>, <<"%">>, 2, 3, 12, TRUE),
   ReportSample(<<"x", "x", "x", "x", "x">>, <<"x", "=">>, 0, 11, 9, FALSE)}

MCNoneText == <<"n">>
MCRooms == {0, 9, 12} \cup 21 .. 31 \cup {54, 104}
=============================================================================
