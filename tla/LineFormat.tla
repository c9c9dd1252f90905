----------------------------- MODULE LineFormat -----------------------------
(***************************************************************************)
(* The two line formats of loxguard_format.c: event lines and report lines, *)
(* how they are written into fixed buffers and how they are parsed back.    *)
(*                                                                          *)
(* A line is a sequence of symbols.  A key is one symbol; everything else   *)
(* is written out, because what matters here is where a buffer's end cuts   *)
(* an escape or a number.  Buffer sizes count symbols.                      *)
(***************************************************************************)
EXTENDS Integers, FiniteSets, SequencesExt

CONSTANTS
  Symbols,    \* what texts and lines are made of: characters and keys
  FieldMax,   \* 63: a 64-byte name or reason buffer with its terminator
  LineMax,    \* 159: the 160-byte line buffer of export and import
  DigitsMax,  \* 31: a token copied for strtoumax must fit 32 bytes
  FlagMax,    \* 7: the persisted flag is copied into 8 bytes
  SizeMax,    \* largest size_t
  U32Max,     \* largest uint32_t
  KindMax,    \* LOX_EVENT_BLOCK_FAULT, 11
  ActionMax   \* LOX_ACTION_RESET_BLOCK

ASSUME LineFormatAssumption ==
  /\ FieldMax \in Nat /\ FieldMax >= 3 \* an escape fits
  /\ LineMax \in Nat \ {0}
  /\ DigitsMax \in Nat \ {0} /\ FlagMax \in Nat \ {0}
  /\ SizeMax \in Nat /\ U32Max \in Nat /\ KindMax \in Nat /\ ActionMax \in Nat

Digits == <<"0", "1", "2", "3", "4", "5", "6", "7", "8", "9">>
HexDigits == ToSet(Digits) \cup {"A", "B", "C", "D", "E", "F"}

(* The reserved characters and the two hex digits each is escaped to. *)
Reserved == {",", "=", "%", "NL", "CR"}
HexOf(c) ==
  CASE c = "," -> <<"2", "C">> [] c = "=" -> <<"3", "D">> [] c = "%" -> <<"2", "5">>
    [] c = "NL" -> <<"0", "A">> [] c = "CR" -> <<"0", "D">>

(* A string, without the byte that ends it. *)
IsString(text) == text \in Seq(Symbols \ {"NUL"})

Cut(s, n) == IF Len(s) <= n THEN s ELSE SubSeq(s, 1, n)

-----------------------------------------------------------------------------
(* Values. *)

Escape(c) == IF c \in Reserved THEN <<"%">> \o HexOf(c) ELSE <<c>>
Escaped(text) ==
  LET upTo[k \in 0 .. Len(text)] ==
        IF k = 0 THEN <<>> ELSE upTo[k - 1] \o Escape(text[k])
  IN  upTo[Len(text)]

(* Mutant: the buffer may end inside an escape. *)
Encoded_SplitsEscape(text) == Cut(Escaped(text), FieldMax)

(* lox_encode_kv_value into 64 bytes: as many whole characters as fit. *)
Encoded(text) ==
  LET fitting == {k \in 0 .. Len(text) : Len(Escaped(SubSeq(text, 1, k))) <= FieldMax}
  IN  Escaped(SubSeq(text, 1, Max(fitting)))

(* The byte two hex digits stand for; those of no reserved character are
   told apart from no others. *)
ByteOf(hex) ==
  IF hex = <<"0", "0">> THEN "NUL"
  ELSE IF \E c \in Reserved : HexOf(c) = hex THEN CHOOSE c \in Reserved : HexOf(c) = hex
  ELSE "byte"

(* Mutant: an escape that ends the value is taken for plain text. *)
EscapeAt_NotLast(value, i) ==
  /\ value[i] = "%"
  /\ i + 2 < Len(value)
  /\ {value[i + 1], value[i + 2]} \subseteq HexDigits

EscapeAt(value, i) ==
  /\ value[i] = "%"
  /\ i + 2 <= Len(value)
  /\ {value[i + 1], value[i + 2]} \subseteq HexDigits

(* A malformed escape stands for itself. *)
Unescaped(value) ==
  LET from[i \in 1 .. Len(value) + 1] ==
        IF i > Len(value) THEN <<>>
        ELSE IF EscapeAt(value, i)
             THEN <<ByteOf(SubSeq(value, i + 1, i + 2))>> \o from[i + 3]
        ELSE <<value[i]>> \o from[i + 1]
  IN  from[1]

(* lox_decode_kv_value_n *)
Decoded(value) == Cut(Unescaped(value), FieldMax)

IsText(value) == value # <<>> /\ "NUL" \notin ToSet(Decoded(value))

Decimal(n) ==
  LET digitsOf[k \in 0 .. n] ==
        IF k < 10 THEN <<Digits[k + 1]>>
        ELSE Append(digitsOf[k \div 10], Digits[(k % 10) + 1])
  IN  digitsOf[n]

DigitOf(c) == CHOOSE d \in 0 .. 9 : Digits[d + 1] = c

NumberOf(value) ==
  LET upTo[k \in 0 .. Len(value)] ==
        IF k = 0 THEN 0 ELSE 10 * upTo[k - 1] + DigitOf(value[k])
  IN  upTo[Len(value)]

(* The numbers written are short enough to be read. *)
ASSUME NumbersFitTokens ==
  \A max \in {KindMax, SizeMax, U32Max} : \A n \in 0 .. max : Len(Decimal(n)) <= DigitsMax

(* lox_parse_uintmax_strict on a copied token, then the range check. *)
IsNumber(value, max) ==
  /\ value # <<>>
  /\ Len(value) <= DigitsMax
  /\ ToSet(value) \subseteq ToSet(Digits)
  /\ NumberOf(value) <= max

-----------------------------------------------------------------------------
(* Lines. *)

Field(key, value) == <<key, "=">> \o value

(* The parts with a separator between them. *)
JoinedBy(separator, parts) ==
  LET upTo[k \in 0 .. Len(parts)] ==
        IF k = 0 THEN <<>>
        ELSE LET before == upTo[k - 1]
             IN  IF before = <<>> THEN parts[k] ELSE before \o <<separator>> \o parts[k]
  IN  upTo[Len(parts)]

Joined(fields) == JoinedBy(",", fields)

(* What lies between the symbols of a set: n of them separate n + 1 parts. *)
SplitAt(s, separators) ==
  LET upTo[k \in 0 .. Len(s)] ==
        IF k = 0 THEN << <<>> >>
        ELSE LET before == upTo[k - 1]
             IN  IF s[k] \in separators THEN Append(before, <<>>)
                 ELSE [before EXCEPT ![Len(before)] = Append(@, s[k])]
  IN  upTo[Len(s)]

(* lox_token_next until the line's end: there is no token after a last comma,
   but the parsers refuse a line that ends with one. *)
Tokens(line) == IF line = <<>> THEN <<>> ELSE SplitAt(line, {","})

(* lox_token_value: empty unless the token is the key with a value. *)
ValueOf(token, key) ==
  IF Len(token) > 2 /\ token[1] = key /\ token[2] = "=" THEN SubSeq(token, 3, Len(token))
  ELSE <<>>

(* The values under these keys, in this order, as far as the tokens go. *)
Values(line, keys) ==
  LET tokens == Tokens(line)
  IN  [i \in 1 .. Len(keys) |->
         IF i <= Len(tokens) THEN ValueOf(tokens[i], keys[i]) ELSE <<>>]

EventKeys == <<"kind", "block", "reason", "index", "limit", "aux">>
ReportKeys == <<"block", "reason", "result", "action", "event_kind",
                "duration_ticks", "event_persisted">>

(* A NULL pointer is no text. *)
ASSUME SymbolsAssumption ==
  /\ Reserved \cup HexDigits \cup {"NUL", "byte"} \subseteq Symbols
  /\ ToSet(EventKeys) \cup ToSet(ReportKeys) \subseteq Symbols
  /\ "NULL" \notin Symbols

(* k_csv_schema_header *)
Header == Joined([i \in DOMAIN EventKeys |-> <<EventKeys[i]>>])

(* lox_event_format_csv of an event, into a buffer of `room' + 1 bytes. *)
EventLine(e) ==
  Joined(<<Field("kind", Decimal(e.kind)), Field("block", Encoded(e.block_name)),
           Field("reason", Encoded(e.reason)), Field("index", Decimal(e.index)),
           Field("limit", Decimal(e.limit)), Field("aux", Decimal(e.aux_code))>>)

EventFormatCsv(e, room) == Cut(EventLine(e), room)

(* lox_event_parse_csv_line_ex accepts: all keys in order and nothing else. *)
IsEventLine(line) ==
  LET v == Values(line, EventKeys)
  IN  /\ Len(Tokens(line)) = Len(EventKeys)
      /\ IsNumber(v[1], KindMax)
      /\ IsText(v[2]) /\ IsText(v[3])
      /\ IsNumber(v[4], SizeMax) /\ IsNumber(v[5], SizeMax) /\ IsNumber(v[6], U32Max)

EventOfLine(line) ==
  LET v == Values(line, EventKeys)
  IN  [kind |-> NumberOf(v[1]), block_name |-> Decoded(v[2]), reason |-> Decoded(v[3]),
       index |-> NumberOf(v[4]), limit |-> NumberOf(v[5]), aux_code |-> NumberOf(v[6])]

(* lox_report_format_kv *)
ReportFormatKv(r, kind, room) ==
  Cut(Joined(<<Field("block", Encoded(r.last_block)), Field("reason", Encoded(r.reason)),
               Field("result", Decimal(r.result)), Field("action", Decimal(r.action)),
               Field("event_kind", Decimal(kind)),
               Field("duration_ticks", Decimal(r.duration_ticks)),
               Field("event_persisted", Decimal(IF r.event_persisted THEN 1 ELSE 0))>>),
      room)

(* The first five fields are good: lox_report_parse_kv_ex has stored the kind. *)
KindReached(line) ==
  LET v == Values(line, ReportKeys)
  IN  /\ IsText(v[1]) /\ IsText(v[2])
      /\ IsNumber(v[3], U32Max) /\ IsNumber(v[4], ActionMax) /\ IsNumber(v[5], KindMax)

(* lox_report_parse_kv_ex accepts; the result is not checked against its enum. *)
IsReportLine(line) ==
  LET v == Values(line, ReportKeys)
  IN  /\ Len(Tokens(line)) = Len(ReportKeys)
      /\ KindReached(line)
      /\ IsNumber(v[6], U32Max)
      /\ IsNumber(v[7], 1) /\ Len(v[7]) <= FlagMax

KindOfLine(line) == NumberOf(Values(line, ReportKeys)[5])

ReportOfLine(line) ==
  LET v == Values(line, ReportKeys)
  IN  [last_block |-> Decoded(v[1]), reason |-> Decoded(v[2]),
       result |-> NumberOf(v[3]), action |-> NumberOf(v[4]),
       duration_ticks |-> NumberOf(v[6]), event_persisted |-> NumberOf(v[7]) = 1]
=============================================================================
