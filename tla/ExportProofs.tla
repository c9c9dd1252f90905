---------------------------- MODULE ExportProofs ----------------------------
(***************************************************************************)
(* For every capacity and every buffer size:                                *)
(*  - lox_blackbox_export_csv_lines hands every event on once and in order,  *)
(*    whatever its writer stores into the box;                               *)
(*  - a black box exported as text and imported again is the one exported,   *)
(*    and of a text that was cut only rows come back that were exported;     *)
(*  - lox_report_parse_kv gives back the report that was formatted.          *)
(*                                                                          *)
(* The texts are taken symbol by symbol.  What a recursive function of a     *)
(* sequence computes is proved by sets of sequences closed under Append      *)
(* (SeqsFollow), and that the function exists by Runs and FoldsOf.           *)
(***************************************************************************)
EXTENDS Export, WellFoundedInduction, SequenceTheorems, FiniteSetTheorems, TLAPS

-----------------------------------------------------------------------------
(* Indices modulo IndexMod. *)

(* The index given d stores before the index s. *)
Before(s, d) == IF s >= d THEN s - d ELSE s + IndexMod - d

Indices == 0 .. IndexMod - 1

LEMMA IndexModIs ==
  /\ IndexMod \in Nat /\ Capacity \in Nat /\ StoresPerLine \in Nat
  /\ Capacity > 0 /\ IndexMod >= Capacity + Capacity + StoresPerLine
BY ExportAssumption, CapacityAssumption

(* Remainders of what is below twice the modulus. *)
LEMMA ModTwice ==
  ASSUME NEW m \in Nat, m > 0, NEW x \in Nat, x < m + m
  PROVE  x % m = IF x < m THEN x ELSE x - m
OBVIOUS

LEMMA NextIndex ==
  ASSUME NEW s \in Indices
  PROVE  /\ (s + 1) % IndexMod \in Indices
         /\ (s + 1) % IndexMod = IF s + 1 = IndexMod THEN 0 ELSE s + 1
<1> DEFINE m == IndexMod
<1>1. m \in Nat /\ m > 0 /\ s \in Nat /\ s < m
  BY IndexModIs DEF Indices
<1> HIDE DEF m
<1>2. s + 1 \in Nat /\ s + 1 < m + m
  BY <1>1
<1>3. (s + 1) % m = IF s + 1 < m THEN s + 1 ELSE s + 1 - m
  BY <1>1, <1>2, ModTwice
<1>4. /\ (s + 1) % m = IF s + 1 = m THEN 0 ELSE s + 1
      /\ (s + 1) % m \in 0 .. m - 1
  BY <1>1, <1>3
<1> QED
  BY <1>4 DEF m, Indices

(* One store later, an index is one store further back. *)
LEMMA BeforeNext ==
  ASSUME NEW s \in Indices, NEW d \in Nat, d < IndexMod
  PROVE  Before((s + 1) % IndexMod, d + 1) = Before(s, d)
<1>1. s \in Nat /\ s < IndexMod /\ IndexMod \in Nat
  BY IndexModIs DEF Indices
<1> DEFINE t == (s + 1) % IndexMod
<1>2. t = IF s + 1 = IndexMod THEN 0 ELSE s + 1
  BY NextIndex
<1> HIDE DEF t
<1>3. Before(t, d + 1) = Before(s, d)
  BY <1>1, <1>2 DEF Before
<1> QED
  BY <1>3 DEF t

(* How far ahead one index is of another. *)
LEMMA Ahead ==
  ASSUME NEW s \in Indices, NEW d \in Nat, NEW b \in Nat, b < d, d <= IndexMod, 0 < b
  PROVE  (Before(s, b) + IndexMod - Before(s, d)) % IndexMod = d - b
<1> DEFINE x == Before(s, b) + IndexMod - Before(s, d)
           m == IndexMod
<1>1. s \in Nat /\ s < m /\ m \in Nat
  BY IndexModIs DEF Indices
<1>2. x = d - b \/ x = d - b + m
  BY <1>1 DEF Before
<1> HIDE DEF x, m
<1>3. d \in Nat /\ b \in Nat /\ b < d /\ d <= m /\ 0 < b
  BY DEF m
<1>4. x \in Nat /\ x < m + m
  BY <1>1, <1>2, <1>3
<1>5. x % m = IF x < m THEN x ELSE x - m
  BY <1>1, <1>3, <1>4, ModTwice
<1>6. x % m = d - b
  BY <1>1, <1>2, <1>3, <1>5
<1> QED
  BY <1>6 DEF x, m

LEMMA BeforeType ==
  ASSUME NEW s \in Indices, NEW d \in Nat, 0 < d, d <= IndexMod
  PROVE  Before(s, d) \in Indices
<1>1. s \in Nat /\ s < IndexMod /\ IndexMod \in Nat
  BY IndexModIs DEF Indices
<1> QED
  BY <1>1 DEF Before, Indices

-----------------------------------------------------------------------------
(* The rows of the box carry consecutive indices. *)

Rows == {Row(e, i) : e \in Samples, i \in Indices}

Numbered(rows, s) == \A k \in 1 .. Len(rows) : rows[k].index = Before(s, Len(rows) - k + 1)

LEMMA StoredRows ==
  ASSUME NEW rows \in Seq(Rows), Len(rows) <= Capacity, NEW s \in Indices, Numbered(rows, s),
         NEW e \in Samples, NEW m, m = Stored(rows, Row(e, s))
  PROVE  /\ m \in Seq(Rows)
         /\ Len(m) = IF Len(rows) < Capacity THEN Len(rows) + 1 ELSE Len(rows)
         /\ Numbered(m, (s + 1) % IndexMod)
<1> DEFINE n == Len(rows)
           t == (s + 1) % IndexMod
           r == Row(e, s)
<1>1. /\ n \in Nat /\ n <= Capacity /\ Capacity \in Nat /\ Capacity > 0
      /\ IndexMod \in Nat /\ Capacity < IndexMod /\ s \in Nat
  BY IndexModIs DEF Indices
<1>2. r \in Rows /\ r.index = s
  BY DEF Rows, Row
<1>3. \A d \in Nat : d <= n => Before(t, d + 1) = Before(s, d)
  BY <1>1, BeforeNext
<1>4. Before(t, 1) = s
  <2>1. Before(t, 0 + 1) = Before(s, 0)
    BY <1>1, <1>3
  <2>2. Before(s, 0) = s
    BY <1>1 DEF Before
  <2> QED
    BY <2>1, <2>2
<1>5. \A k \in 1 .. n : rows[k].index = Before(s, n - k + 1)
  BY DEF Numbered
<1> HIDE DEF t, r
<1>6. CASE n < Capacity
  <2>1. m = Append(rows, r)
    BY <1>6 DEF Stored, r
  <2>2. m \in Seq(Rows) /\ Len(m) = n + 1 /\ m[n + 1] = r /\ \A k \in 1 .. n : m[k] = rows[k]
    BY <1>2, <2>1
  <2> HIDE DEF n
  <2>3. \A k \in 1 .. n + 1 : m[k].index = Before(t, (n + 1) - k + 1)
    <3> SUFFICES ASSUME NEW k \in 1 .. n + 1 PROVE m[k].index = Before(t, (n + 1) - k + 1)
      OBVIOUS
    <3>1. CASE k = n + 1
      <4>1. (n + 1) - k + 1 = 1
        BY <1>1, <3>1
      <4> QED
        BY <1>2, <1>4, <2>2, <3>1, <4>1
    <3>2. CASE k # n + 1
      <4>1. k \in 1 .. n /\ n - k + 1 \in Nat /\ n - k + 1 <= n
            /\ (n + 1) - k + 1 = (n - k + 1) + 1
        BY <1>1, <3>2
      <4>2. Before(t, (n - k + 1) + 1) = Before(s, n - k + 1)
        BY <1>3, <4>1
      <4> QED
        BY <1>5, <2>2, <4>1, <4>2
    <3> QED
      BY <3>1, <3>2
  <2>4. Numbered(m, t)
    BY <2>2, <2>3 DEF Numbered
  <2> QED
    BY <1>6, <2>2, <2>4 DEF n, t
<1>7. CASE ~ (n < Capacity)
  <2>1. m = Append(Tail(rows), r)
    BY <1>7 DEF Stored, r
  <2>2. n = Capacity /\ rows # <<>>
    BY <1>1, <1>7
  <2>3. /\ Tail(rows) \in Seq(Rows) /\ Len(Tail(rows)) = n - 1
        /\ \A k \in 1 .. n - 1 : Tail(rows)[k] = rows[k + 1]
    BY <2>2
  <2> DEFINE tail == Tail(rows)
  <2>4. tail \in Seq(Rows) /\ Len(tail) = n - 1 /\ \A k \in 1 .. n - 1 : tail[k] = rows[k + 1]
    BY <2>3
  <2>5. m = Append(tail, r)
    BY <2>1
  <2> HIDE DEF tail, n
  <2>6. m \in Seq(Rows) /\ Len(m) = n /\ m[n] = r /\ \A k \in 1 .. n - 1 : m[k] = rows[k + 1]
    BY <1>1, <1>2, <2>2, <2>4, <2>5
  <2>7. \A k \in 1 .. n : m[k].index = Before(t, n - k + 1)
    <3> SUFFICES ASSUME NEW k \in 1 .. n PROVE m[k].index = Before(t, n - k + 1)
      OBVIOUS
    <3>1. CASE k = n
      <4>1. n - k + 1 = 1
        BY <1>1, <3>1
      <4> QED
        BY <1>2, <1>4, <2>6, <3>1, <4>1
    <3>2. CASE k # n
      <4>1. /\ k \in 1 .. n - 1 /\ k + 1 \in 1 .. n /\ n - k \in Nat /\ n - k <= n
            /\ n - (k + 1) + 1 = n - k
        BY <1>1, <3>2
      <4>2. Before(t, (n - k) + 1) = Before(s, n - k)
        BY <1>3, <4>1
      <4>3. rows[k + 1].index = Before(s, n - k)
        BY <1>5, <4>1
      <4> QED
        BY <2>6, <4>1, <4>2, <4>3
    <3> QED
      BY <3>1, <3>2
  <2>8. Numbered(m, t)
    BY <2>6, <2>7 DEF Numbered
  <2> QED
    BY <1>7, <2>6, <2>8 DEF n, t
<1> QED
  BY <1>6, <1>7

-----------------------------------------------------------------------------
(* The inductive invariant. *)

(* The row handed last was stored d stores ago: not before the row the export
   is at, and exactly then while the rows have not moved. *)
HandedBefore(d) ==
  /\ 0 < d /\ d + writing <= Capacity + 1 + stored
  /\ handed # <<>> /\ Last(handed) = Before(serial, d)
  /\ Len(box) + 1 <= d + writing
  /\ ~disturbed => d + writing = Len(box) + 1

BoxInv ==
  /\ serial \in Indices
  /\ box \in Seq(Rows) /\ Len(box) <= Capacity
  /\ Numbered(box, serial)

ExportInv ==
  /\ BoxInv
  /\ writing \in 0 .. Capacity /\ stored \in 0 .. StoresPerLine
  /\ handed \in Seq(Indices)
  /\ writing = 0 => handed = <<>>
  /\ writing # 0 => \E d \in Nat : HandedBefore(d)
  /\ LinesHandedOnce

LEMMA BoxNumbers ==
  ASSUME BoxInv
  PROVE  /\ Len(box) \in Nat /\ Len(box) <= Capacity
         /\ \A k \in 1 .. Len(box) : /\ box[k].index = Before(serial, Len(box) - k + 1)
                                     /\ box[k].index \in Indices
<1> DEFINE n == Len(box)
<1>1. n \in Nat /\ n <= Capacity /\ Capacity \in Nat /\ Capacity < IndexMod /\ IndexMod \in Nat
  BY IndexModIs DEF BoxInv
<1>2. \A k \in 1 .. n : box[k].index = Before(serial, n - k + 1)
  BY DEF BoxInv, Numbered
<1> HIDE DEF n
<1>3. \A k \in 1 .. n : n - k + 1 \in Nat /\ 0 < n - k + 1 /\ n - k + 1 <= IndexMod
  BY <1>1
<1>4. \A k \in 1 .. n : Before(serial, n - k + 1) \in Indices
  BY <1>3, BeforeType DEF BoxInv
<1> QED
  BY <1>1, <1>2, <1>4 DEF n

(* What an export in progress promises does not say how much was disturbed. *)
LEMMA OnceKept ==
  ASSUME LinesHandedOnce, handed' = handed, disturbed => disturbed'
  PROVE  LinesHandedOnce'
BY DEF LinesHandedOnce

LEMMA OnceShort ==
  ASSUME Len(handed') # 2
  PROVE  LinesHandedOnce'
BY DEF LinesHandedOnce

(* Storing, also from within the writer. *)
LEMMA StoreStep == ExportInv /\ Store => ExportInv'
<1> SUFFICES ASSUME ExportInv, Store PROVE ExportInv'
  OBVIOUS
<1> DEFINE n == Len(box)
<1>1. PICK e \in Samples : box' = Stored(box, Row(e, serial))
  BY DEF Store
<1>2. /\ serial' = (serial + 1) % IndexMod /\ writing' = writing /\ handed' = handed
      /\ stored' = (IF writing # 0 THEN stored + 1 ELSE 0)
      /\ disturbed' = (writing # 0 /\ (disturbed \/ n = Capacity))
      /\ writing # 0 => stored < StoresPerLine
  BY DEF Store, writerVars
<1>3. /\ serial \in Indices /\ box \in Seq(Rows) /\ n <= Capacity /\ Numbered(box, serial)
      /\ writing \in 0 .. Capacity /\ stored \in 0 .. StoresPerLine /\ n \in Nat
  BY DEF ExportInv, BoxInv
<1>4. /\ box' \in Seq(Rows) /\ Numbered(box', serial')
      /\ Len(box') = IF n < Capacity THEN n + 1 ELSE n
  BY <1>1, <1>2, <1>3, StoredRows
<1>5. serial' \in Indices
  BY <1>2, <1>3, NextIndex
<1> DEFINE m == Len(box')
<1>6. m = IF n < Capacity THEN n + 1 ELSE n
  BY <1>4
<1> HIDE DEF n, m
<1>7. /\ Capacity \in Nat /\ StoresPerLine \in Nat /\ IndexMod \in Nat
      /\ IndexMod >= Capacity + Capacity + StoresPerLine
  BY IndexModIs
<1>8. m <= Capacity
  BY <1>3, <1>6, <1>7
<1>9. BoxInv'
  BY <1>4, <1>5, <1>8 DEF BoxInv, m
<1>10. writing' \in 0 .. Capacity /\ stored' \in 0 .. StoresPerLine
  BY <1>2, <1>3, <1>7
<1>11. ASSUME writing' # 0 PROVE \E d \in Nat : HandedBefore(d)'
  <2>1. writing # 0
    BY <1>2, <1>11
  <2>2. PICK d \in Nat : HandedBefore(d)
    BY <2>1 DEF ExportInv
  <2>3. /\ 0 < d /\ d + writing <= Capacity + 1 + stored
        /\ n + 1 <= d + writing
        /\ ~disturbed => d + writing = n + 1
    BY <2>2 DEF HandedBefore, n
  <2>4. d < IndexMod
    BY <1>2, <1>3, <1>7, <2>1, <2>3
  <2>5. Last(handed) = Before(serial, d) /\ handed # <<>>
    BY <2>2 DEF HandedBefore
  <2>6. Last(handed') = Before(serial', d + 1) /\ handed' # <<>>
    BY <1>2, <1>3, <2>4, <2>5, BeforeNext
  <2>7. 0 < d + 1 /\ (d + 1) + writing' <= Capacity + 1 + stored'
    BY <1>2, <1>3, <1>7, <2>1, <2>3
  <2> DEFINE w == writing
  <2>8. /\ w \in Nat /\ n \in Nat /\ m \in {n, n + 1} /\ writing' = w
        /\ n < Capacity => m = n + 1
        /\ n + 1 <= d + w
        /\ ~disturbed => d + w = n + 1
    BY <1>2, <1>3, <1>6, <2>3
  <2> HIDE DEF w
  <2>9. ~disturbed' => (d + 1) + writing' = m + 1
    <3>1. ~disturbed' => ~disturbed /\ n # Capacity
      BY <1>2, <2>1
    <3>2. ~disturbed' => d + w = n + 1 /\ m = n + 1
      BY <1>3, <1>7, <2>8, <3>1
    <3> QED
      BY <2>8, <3>2
  <2>10. m + 1 <= (d + 1) + writing'
    BY <2>8
  <2>11. HandedBefore(d + 1)'
    BY <2>6, <2>7, <2>9, <2>10 DEF HandedBefore, m
  <2> QED
    BY <2>11
<1>12. LinesHandedOnce'
  <2>1. CASE writing = 0
    <3>1. handed' = <<>>
      BY <1>2, <2>1 DEF ExportInv
    <3> QED
      BY <3>1, OnceShort
  <2>2. CASE writing # 0
    BY <1>2, <2>2, OnceKept DEF ExportInv
  <2> QED
    BY <2>1, <2>2
<1> QED
  BY <1>2, <1>9, <1>10, <1>11, <1>12 DEF ExportInv

(* Wiping the box leaves the writer where it is. *)
LEMMA WipeStep == ExportInv /\ Wipe => ExportInv'
<1> SUFFICES ASSUME ExportInv, Wipe PROVE ExportInv'
  OBVIOUS
<1>1. /\ box' = <<>> /\ serial' = serial /\ writing' = writing /\ handed' = handed
      /\ stored' = stored /\ disturbed' = (writing # 0)
  BY DEF Wipe
<1>2. BoxInv'
  BY <1>1, IndexModIs DEF ExportInv, BoxInv, Numbered
<1>3. ASSUME writing' # 0 PROVE \E d \in Nat : HandedBefore(d)'
  <2>1. PICK d \in Nat : HandedBefore(d)
    BY <1>1, <1>3 DEF ExportInv
  <2>2. Len(box') = 0 /\ writing \in Nat
    BY <1>1 DEF ExportInv
  <2>3. disturbed'
    BY <1>1, <1>3, Zenon
  <2>4. Len(box') + 1 <= d + writing'
    BY <1>1, <2>1, <2>2 DEF HandedBefore
  <2>5. HandedBefore(d)'
    BY <1>1, <2>1, <2>3, <2>4 DEF HandedBefore
  <2> QED
    BY <2>5
<1>4. LinesHandedOnce'
  <2>1. CASE writing = 0
    <3>1. handed' = <<>>
      BY <1>1, <2>1 DEF ExportInv
    <3> QED
      BY <3>1, OnceShort
  <2>2. CASE writing # 0
    BY <1>1, <2>2, OnceKept DEF ExportInv
  <2> QED
    BY <2>1, <2>2
<1> QED
  BY <1>1, <1>2, <1>3, <1>4 DEF ExportInv

(* An export begins with one of the rows. *)
LEMMA ExportLinesStep ==
  ASSUME ExportInv, NEW max \in RowCounts, ExportLines(max)
  PROVE  ExportInv'
<1> DEFINE n == Len(box)
           w == FirstRow(max)
<1>1. /\ box' = box /\ serial' = serial /\ writing' = w /\ handed' = <<box[w].index>>
      /\ stored' = 0 /\ disturbed' = FALSE /\ box # <<>> /\ max > 0
  BY DEF ExportLines, boxVars
<1>2. BoxInv /\ BoxInv'
  BY <1>1 DEF ExportInv, BoxInv, Numbered
<1>3. n \in Nat /\ n # 0 /\ n <= Capacity /\ Capacity \in Nat /\ StoresPerLine \in Nat
  BY <1>1, <1>2, IndexModIs DEF BoxInv
<1>4. max \in Nat
  BY ExportAssumption
<1>5. w = IF n > max THEN n - max + 1 ELSE 1
  BY DEF FirstRow
<1>6. \A k \in 1 .. n : box[k].index = Before(serial, n - k + 1) /\ box[k].index \in Indices
  BY <1>2, BoxNumbers
<1> HIDE DEF n, w
<1>7. w \in 1 .. n /\ w \in 0 .. Capacity
  BY <1>1, <1>3, <1>4, <1>5
<1>8. PICK d \in Nat : d = n - w + 1 /\ 0 < d /\ d + w = n + 1
  <2>1. n - w + 1 \in Nat /\ 0 < n - w + 1 /\ n - w + 1 + w = n + 1
    BY <1>3, <1>7
  <2> QED
    BY <2>1
<1>9. box[w].index = Before(serial, d) /\ box[w].index \in Indices
  BY <1>6, <1>7, <1>8
<1>10. handed' \in Seq(Indices) /\ Len(handed') = 1 /\ Last(handed') = Before(serial', d)
  BY <1>1, <1>9 DEF Last
<1>11. HandedBefore(d)'
  <2>1. 0 < d /\ d + writing' <= Capacity + 1 + stored'
    BY <1>1, <1>3, <1>8
  <2>2. handed' # <<>>
    BY <1>10
  <2>3. Len(box') + 1 <= d + writing' /\ d + writing' = Len(box') + 1
    BY <1>1, <1>3, <1>8 DEF n
  <2> QED
    BY <1>10, <2>1, <2>2, <2>3 DEF HandedBefore
<1>12. LinesHandedOnce'
  <2>1. Len(handed') # 2
    BY <1>10
  <2> QED
    BY <2>1, OnceShort
<1>13. writing' \in 0 .. Capacity /\ stored' \in 0 .. StoresPerLine /\ writing' # 0
  BY <1>1, <1>3, <1>7
<1> QED
  BY <1>2, <1>8, <1>10, <1>11, <1>12, <1>13 DEF ExportInv

(* The writer has returned: the next row, if there still is one. *)
LEMMA WriterReturnsStep == ExportInv /\ WriterReturns => ExportInv'
<1> SUFFICES ASSUME ExportInv, WriterReturns PROVE ExportInv'
  OBVIOUS
<1> DEFINE n == Len(box)
           w == writing
<1>1. /\ box' = box /\ serial' = serial /\ stored' = 0 /\ w # 0
      /\ writing' = (IF w + 1 <= n THEN w + 1 ELSE 0)
      /\ handed' = (IF w + 1 <= n THEN <<Last(handed), box[w + 1].index>> ELSE <<>>)
      /\ disturbed' = (w + 1 <= n /\ disturbed)
  BY DEF WriterReturns, boxVars, NextRow
<1>2. BoxInv /\ BoxInv'
  BY <1>1 DEF ExportInv, BoxInv, Numbered
<1>3. n \in Nat /\ n <= Capacity /\ w \in Nat /\ w # 0
  BY <1>1, <1>2 DEF ExportInv, BoxInv
<1>4. /\ Capacity \in Nat /\ StoresPerLine \in Nat /\ IndexMod \in Nat
      /\ IndexMod >= Capacity + Capacity + StoresPerLine
      /\ stored \in 0 .. StoresPerLine
  BY IndexModIs DEF ExportInv
<1>5. 0 \in 0 .. StoresPerLine
  BY <1>4
<1>6. CASE ~ (w + 1 <= n)
  <2>1. writing' = 0 /\ handed' = <<>>
    BY <1>1, <1>6
  <2>2. LinesHandedOnce'
    BY <2>1, OnceShort
  <2> QED
    BY <1>1, <1>2, <1>4, <1>5, <2>1, <2>2 DEF ExportInv
<1>7. CASE w + 1 <= n
  <2> DEFINE i == box[w + 1].index
  <2>1. PICK d \in Nat : HandedBefore(d)
    BY <1>1 DEF ExportInv
  <2>2. /\ 0 < d /\ d + w <= Capacity + 1 + stored /\ n + 1 <= d + w
        /\ handed # <<>> /\ Last(handed) = Before(serial, d)
    BY <2>1 DEF HandedBefore
  <2>3. ~disturbed => d + w = n + 1
    BY <2>1 DEF HandedBefore
  <2>4. i = Before(serial, n - (w + 1) + 1) /\ i \in Indices
    <3>1. w + 1 \in 1 .. n
      BY <1>3, <1>7
    <3> QED
      BY <1>2, <3>1, BoxNumbers
  <2>5. Last(handed) \in Indices
    BY <2>2 DEF ExportInv, Last
  <2>6. handed' = <<Last(handed), i>> /\ writing' = w + 1
    BY <1>1, <1>7
  <2>7. disturbed' <=> disturbed
    BY <1>1, <1>7, Zenon
  <2> HIDE DEF i, n, w
  <2>8. PICK b \in Nat :
          /\ b = n - w /\ 0 < b /\ b < d /\ d <= IndexMod /\ n - (w + 1) + 1 = b
          /\ b + (w + 1) = n + 1
    <3>1. /\ n - w \in Nat /\ 0 < n - w /\ n - w < d /\ d <= IndexMod
          /\ n - (w + 1) + 1 = n - w /\ n - w + (w + 1) = n + 1
      BY <1>3, <1>4, <1>7, <2>2
    <3> QED
      BY <3>1
  <2>9. i = Before(serial, b)
    BY <2>4, <2>8
  <2>10. d - b \in 1 .. Capacity + StoresPerLine - 1 /\ (~disturbed => d - b = 1)
    BY <1>3, <1>4, <1>7, <2>2, <2>3, <2>8
  <2>11. (i + IndexMod - Last(handed)) % IndexMod = d - b
    BY <1>2, <2>2, <2>8, <2>9, Ahead DEF BoxInv
  <2>12. /\ handed' \in Seq(Indices) /\ Len(handed') = 2
         /\ handed'[1] = Last(handed) /\ handed'[2] = i
    BY <2>4, <2>5, <2>6
  <2>13. LinesHandedOnce'
    BY <2>7, <2>10, <2>11, <2>12 DEF LinesHandedOnce
  <2>14. HandedBefore(b)'
    <3>1. 0 < b /\ b + writing' <= Capacity + 1 + stored'
      BY <1>1, <1>3, <1>4, <2>6, <2>8
    <3>2. handed' # <<>> /\ Last(handed') = Before(serial', b)
      BY <1>1, <2>9, <2>12 DEF Last
    <3>3. b + writing' = Len(box') + 1 /\ Len(box') + 1 <= b + writing'
      BY <1>1, <1>3, <2>6, <2>8 DEF n
    <3> QED
      BY <3>1, <3>2, <3>3 DEF HandedBefore
  <2>15. writing' \in 0 .. Capacity /\ writing' # 0 /\ stored' \in 0 .. StoresPerLine
    BY <1>1, <1>3, <1>4, <1>5, <1>7, <2>6
  <2> QED
    BY <1>2, <2>8, <2>12, <2>13, <2>14, <2>15 DEF ExportInv
<1> QED
  BY <1>6, <1>7

LEMMA ExportNext == ExportInv /\ [Next]_vars => ExportInv'
<1> SUFFICES ASSUME ExportInv, [Next]_vars PROVE ExportInv'
  OBVIOUS
<1>1. ASSUME UNCHANGED <<boxVars, writerVars>> PROVE ExportInv'
  BY <1>1 DEF boxVars, writerVars, ExportInv, BoxInv, Numbered, HandedBefore, LinesHandedOnce
<1>2. CASE UNCHANGED vars
  BY <1>1, <1>2 DEF vars
<1>3. CASE ImportBuffer \/ Discard
  BY <1>1, <1>3 DEF ImportBuffer, Discard
<1>4. ASSUME NEW max \in RowCounts, NEW header \in BOOLEAN, NEW room \in Rooms,
             ExportBuffer(max, header, room)
      PROVE  ExportInv'
  BY <1>1, <1>4 DEF ExportBuffer
<1>5. ASSUME NEW p \in ReportSamples, NEW room \in Rooms,
             LET line == ReportFormatKv(p.report, p.event_kind, room)
             IN  ParseReportEx(line) \/ ParseReport(line)
      PROVE  ExportInv'
  BY <1>1, <1>5 DEF ParseReportEx, ParseReport
<1> QED
  BY <1>2, <1>3, <1>4, <1>5, StoreStep, WipeStep, ExportLinesStep, WriterReturnsStep DEF Next

LEMMA ExportInit == Init => ExportInv
<1> SUFFICES ASSUME Init PROVE ExportInv
  OBVIOUS
<1>1. /\ box = <<>> /\ serial = 0 /\ writing = 0 /\ handed = <<>> /\ stored = 0
  BY DEF Init
<1>2. 0 \in Indices /\ 0 \in 0 .. Capacity /\ 0 \in 0 .. StoresPerLine
  BY IndexModIs DEF Indices
<1>3. BoxInv
  BY <1>1, <1>2, IndexModIs DEF BoxInv, Numbered
<1>4. LinesHandedOnce
  <2>1. Len(handed) # 2
    BY <1>1
  <2> QED
    BY <2>1 DEF LinesHandedOnce
<1> QED
  BY <1>1, <1>2, <1>3, <1>4 DEF ExportInv

(* What holds of 0 and follows for the next number holds of every number. *)
LEMMA NatsFollow ==
  ASSUME NEW S \in SUBSET Nat, 0 \in S, \A n \in S : n + 1 \in S
  PROVE  S = Nat
<1> DEFINE Below == OpToRel(<, Nat)
           Rest == Nat \ S
<1> SUFFICES ASSUME Rest # {} PROVE FALSE
  OBVIOUS
<1>1. PICK m \in Rest : \A y \in Rest : ~ (<<y, m>> \in Below)
  <2>1. IsWellFoundedOn(Below, Nat)
    BY NatLessThanWellFounded
  <2>2. Rest \subseteq Nat
    OBVIOUS
  <2> HIDE DEF Below, Rest
  <2> QED
    BY <2>1, <2>2, WFMin
<1>2. m \in Nat /\ m # 0 /\ m - 1 \in Nat /\ m - 1 < m
  OBVIOUS
<1>3. m - 1 \notin Rest
  <2>1. ~ (<<m - 1, m>> \in {p \in Nat \X Nat : p[1] < p[2]}) \/ m - 1 \notin Rest
    BY <1>1 DEF OpToRel
  <2> QED
    BY <1>2, <2>1
<1>4. m - 1 \in S
  BY <1>2, <1>3
<1>5. (m - 1) + 1 \in S
  BY <1>4
<1> QED
  BY <1>2, <1>5

(* The same, as far as N. *)
LEMMA UpTo ==
  ASSUME NEW N \in Nat, NEW S, 0 \in S, \A n \in 0 .. N - 1 : n \in S => n + 1 \in S
  PROVE  0 .. N \subseteq S
<1> DEFINE T == {n \in Nat : n <= N => n \in S}
<1>1. 0 \in T
  OBVIOUS
<1>2. \A n \in T : n + 1 \in T
  OBVIOUS
<1>3. T \in SUBSET Nat
  OBVIOUS
<1> HIDE DEF T
<1>4. T = Nat
  BY <1>1, <1>2, <1>3, NatsFollow
<1> QED
  BY <1>4 DEF T

(* The runs along the first n elements of a sequence. *)
Runs(V, v0, act, s, n) ==
  {f \in [0 .. n -> V] : f[0] = v0 /\ \A k \in 1 .. n : f[k] = act[f[k - 1]][s[k]]}

(* A function applied along a sequence has a run. *)
LEMMA RunsExist ==
  ASSUME NEW S, NEW V, NEW v0 \in V, NEW act \in [V -> [S -> V]], NEW s \in Seq(S)
  PROVE  Runs(V, v0, act, s, Len(s)) # {}
<1> DEFINE N == Len(s)
           T == {n \in 0 .. N : Runs(V, v0, act, s, n) # {}}
<1>1. N \in Nat /\ \A k \in 1 .. N : s[k] \in S
  OBVIOUS
<1> HIDE DEF N
<1>2. 0 \in T
  <2> DEFINE z == [k \in 0 .. 0 |-> v0]
  <2>1. z \in Runs(V, v0, act, s, 0)
    BY DEF Runs
  <2>2. Runs(V, v0, act, s, 0) # {}
    BY <2>1
  <2> QED
    BY <1>1, <2>2
<1>3. ASSUME NEW n \in 0 .. N - 1, n \in T
      PROVE  n + 1 \in T
  <2>1. PICK f \in Runs(V, v0, act, s, n) : TRUE
    BY <1>3
  <2>2. f \in [0 .. n -> V] /\ f[0] = v0 /\ \A k \in 1 .. n : f[k] = act[f[k - 1]][s[k]]
    BY <2>1 DEF Runs
  <2> DEFINE w == act[f[n]][s[n + 1]]
             g == [k \in 0 .. n + 1 |-> IF k = n + 1 THEN w ELSE f[k]]
  <2>3. n + 1 \in 1 .. N /\ f[n] \in V /\ n \in Nat
    BY <1>1, <2>2
  <2>4. w \in V
    BY <1>1, <2>3
  <2> HIDE DEF w
  <2>5. g \in [0 .. n + 1 -> V] /\ g[0] = v0
    BY <2>2, <2>3, <2>4
  <2>6. ASSUME NEW k \in 1 .. n + 1
        PROVE  g[k] = act[g[k - 1]][s[k]]
    <3>1. CASE k = n + 1
      <4>1. g[k] = w /\ g[k - 1] = f[n]
        BY <2>3, <3>1
      <4> HIDE DEF g
      <4> QED
        BY <3>1, <4>1 DEF w
    <3>2. CASE k # n + 1
      <4>1. k \in 1 .. n /\ g[k] = f[k] /\ g[k - 1] = f[k - 1]
        BY <2>3, <3>2
      <4> HIDE DEF g
      <4> QED
        BY <2>2, <4>1
    <3> QED
      BY <3>1, <3>2
  <2> HIDE DEF g
  <2>7. g \in Runs(V, v0, act, s, n + 1)
    BY <2>5, <2>6 DEF Runs
  <2>8. Runs(V, v0, act, s, n + 1) # {}
    BY <2>7
  <2> QED
    BY <2>3, <2>8
<1> HIDE DEF T
<1>4. 0 .. N \subseteq T
  BY <1>1, <1>2, <1>3, UpTo
<1>5. N \in T
  BY <1>1, <1>4
<1> QED
  BY <1>5 DEF T, N

(* Two runs of one function along one sequence end alike. *)
LEMMA IteratedOnce ==
  ASSUME NEW N \in Nat, NEW f, NEW g, f[0] = g[0],
         \A k \in 1 .. N : f[k - 1] = g[k - 1] => f[k] = g[k]
  PROVE  f[N] = g[N]
<1> DEFINE T == {k \in 0 .. N : f[k] = g[k]}
<1>1. 0 \in T
  OBVIOUS
<1>2. \A n \in 0 .. N - 1 : n \in T => n + 1 \in T
  <2> SUFFICES ASSUME NEW n \in 0 .. N - 1, f[n] = g[n]
               PROVE  n + 1 \in 0 .. N /\ f[n + 1] = g[n + 1]
    OBVIOUS
  <2>1. n + 1 \in 1 .. N /\ (n + 1) - 1 = n
    OBVIOUS
  <2> QED
    BY <2>1
<1> HIDE DEF T
<1>3. 0 .. N \subseteq T
  BY <1>1, <1>2, UpTo
<1> QED
  BY <1>3 DEF T

(* The first 0 elements are none. *)
LEMMA SubSeqNone ==
  ASSUME NEW s
  PROVE  SubSeq(s, 1, 0) = <<>>
<1>1. 1 \in Int /\ 0 \in Int /\ 0 < 1
  OBVIOUS
<1> QED
  BY <1>1, SubSeqEmpty, Zenon

(* What holds of the empty sequence, and of a sequence with one element more,
   holds of every sequence. *)
LEMMA SeqsFollow ==
  ASSUME NEW S, NEW T, <<>> \in T,
         \A s \in Seq(S) : \A c \in S : s \in T => Append(s, c) \in T
  PROVE  Seq(S) \subseteq T
<1> SUFFICES ASSUME NEW s \in Seq(S)
             PROVE  s \in T
  OBVIOUS
<1> DEFINE n == Len(s)
           U == {k \in 0 .. n : SubSeq(s, 1, k) \in T}
<1>1. n \in Nat
  OBVIOUS
<1>2. 0 \in U
  <2>1. 0 \in 0 .. n
    BY <1>1
  <2>2. SubSeq(s, 1, 0) \in T
    BY SubSeqNone, Zenon
  <2> QED
    BY <2>1, <2>2
<1>3. ASSUME NEW k \in 0 .. n - 1, k \in U
      PROVE  k + 1 \in U
  <2>1. SubSeq(s, 1, k) \in Seq(S) /\ s[k + 1] \in S
    OBVIOUS
  <2>2. SubSeq(s, 1, k + 1) = Append(SubSeq(s, 1, k), s[k + 1])
    OBVIOUS
  <2>3. SubSeq(s, 1, k) \in T
    BY <1>3
  <2>4. SubSeq(s, 1, k + 1) \in T
    BY <2>1, <2>2, <2>3
  <2> QED
    BY <2>4
<1> HIDE DEF U
<1>4. 0 .. n \subseteq U
  BY <1>1, <1>2, <1>3, UpTo
<1>5. SubSeq(s, 1, n) \in T
  BY <1>1, <1>4 DEF U
<1>6. SubSeq(s, 1, n) = s
  BY SubSeqFull
<1> QED
  BY <1>5, <1>6

(* The functions of a sequence that make a value from it element by element. *)
FoldsOf(S, V, v0, act) ==
  {F \in [Seq(S) -> V] :
     /\ F[<<>>] = v0
     /\ \A s \in Seq(S) : \A c \in S : F[Append(s, c)] = act[F[s]][c]}

(* A function of every sequence that is given by what one more element does. *)
LEMMA FoldsExist ==
  ASSUME NEW S, NEW V, NEW v0 \in V, NEW act \in [V -> [S -> V]]
  PROVE  FoldsOf(S, V, v0, act) # {}
<1> DEFINE run(s) == CHOOSE f \in Runs(V, v0, act, s, Len(s)) : TRUE
           F == [s \in Seq(S) |-> run(s)[Len(s)]]
<1>1. ASSUME NEW s \in Seq(S)
      PROVE  run(s) \in Runs(V, v0, act, s, Len(s))
  <2>1. Runs(V, v0, act, s, Len(s)) # {}
    BY RunsExist
  <2> QED
    BY <2>1
<1>2. ASSUME NEW s \in Seq(S)
      PROVE  /\ run(s) \in [0 .. Len(s) -> V] /\ run(s)[0] = v0
             /\ \A k \in 1 .. Len(s) : run(s)[k] = act[run(s)[k - 1]][s[k]]
  <2> HIDE DEF run
  <2> QED
    BY <1>1 DEF Runs
<1> HIDE DEF run
<1>3. F \in [Seq(S) -> V]
  <2>1. \A s \in Seq(S) : Len(s) \in 0 .. Len(s)
    OBVIOUS
  <2> QED
    BY <1>2, <2>1
<1>4. F[<<>>] = v0
  <2>1. <<>> \in Seq(S) /\ Len(<<>>) = 0
    OBVIOUS
  <2> QED
    BY <1>2, <2>1
<1>5. ASSUME NEW s \in Seq(S), NEW c \in S
      PROVE  F[Append(s, c)] = act[F[s]][c]
  <2> DEFINE n == Len(s)
             t == Append(s, c)
             f == run(s)
             g == run(t)
  <2>1. /\ n \in Nat /\ t \in Seq(S) /\ Len(t) = n + 1 /\ t[n + 1] = c
        /\ \A k \in 1 .. n : t[k] = s[k]
    BY AppendProperties
  <2>2. f[0] = v0 /\ \A k \in 1 .. n : f[k] = act[f[k - 1]][s[k]]
    BY <1>2
  <2>3. g[0] = v0 /\ \A k \in 1 .. n + 1 : g[k] = act[g[k - 1]][t[k]]
    BY <1>2, <2>1
  <2>4. F[s] = f[n] /\ F[t] = g[n + 1]
    BY <2>1
  <2> HIDE DEF n, t, f, g, F
  <2>5. ASSUME NEW k \in 1 .. n, f[k - 1] = g[k - 1]
        PROVE  f[k] = g[k]
    <3>1. k \in 1 .. n + 1
      BY <2>1
    <3>2. t[k] = s[k]
      BY <2>1
    <3>3. f[k] = act[f[k - 1]][s[k]] /\ g[k] = act[g[k - 1]][t[k]]
      BY <2>2, <2>3, <3>1, Zenon
    <3> QED
      BY <2>5, <3>2, <3>3, Zenon
  <2>7. f[n] = g[n]
    <3>1. f[0] = g[0]
      BY <2>2, <2>3
    <3>2. \A k \in 1 .. n : f[k - 1] = g[k - 1] => f[k] = g[k]
      BY <2>5
    <3>3. n \in Nat
      BY <2>1
    <3> QED
      BY <3>1, <3>2, <3>3, IteratedOnce, Zenon
  <2>8. g[n + 1] = act[g[n]][c]
    BY <2>1, <2>3
  <2> QED
    BY <2>4, <2>7, <2>8 DEF t
<1> HIDE DEF F
<1>6. F \in FoldsOf(S, V, v0, act)
  BY <1>3, <1>4, <1>5 DEF FoldsOf
<1> QED
  BY <1>6

(* Along one sequence. *)
LEMMA FoldSteps ==
  ASSUME NEW S, NEW V, NEW v0, NEW act, NEW F \in FoldsOf(S, V, v0, act),
         NEW s \in Seq(S)
  PROVE  /\ F[SubSeq(s, 1, 0)] = v0
         /\ \A k \in 1 .. Len(s) :
              /\ F[SubSeq(s, 1, k - 1)] \in V
              /\ F[SubSeq(s, 1, k)] = act[F[SubSeq(s, 1, k - 1)]][s[k]]
<1>1. /\ F \in [Seq(S) -> V] /\ F[<<>>] = v0
      /\ \A t \in Seq(S) : \A c \in S : F[Append(t, c)] = act[F[t]][c]
  BY DEF FoldsOf
<1>2. ASSUME NEW k \in 1 .. Len(s)
      PROVE  /\ F[SubSeq(s, 1, k - 1)] \in V
             /\ F[SubSeq(s, 1, k)] = act[F[SubSeq(s, 1, k - 1)]][s[k]]
  <2>1. /\ SubSeq(s, 1, k - 1) \in Seq(S) /\ s[k] \in S
        /\ SubSeq(s, 1, k) = Append(SubSeq(s, 1, k - 1), s[k])
    OBVIOUS
  <2> QED
    BY <1>1, <2>1, Zenon
<1> QED
  BY <1>1, <1>2, SubSeqNone

(* What is computed along a sequence as the function is made has its value. *)
LEMMA FoldsAlong ==
  ASSUME NEW S, NEW V, NEW v0, NEW act, NEW F \in FoldsOf(S, V, v0, act),
         NEW s \in Seq(S), NEW g, g[0] = v0,
         \A k \in 1 .. Len(s) : g[k - 1] = F[SubSeq(s, 1, k - 1)] => g[k] = act[g[k - 1]][s[k]]
  PROVE  g[Len(s)] = F[s]
<1> DEFINE n == Len(s)
           f == [k \in 0 .. n |-> F[SubSeq(s, 1, k)]]
<1>1. n \in Nat
  OBVIOUS
<1>2. \A k \in 0 .. n : f[k] = F[SubSeq(s, 1, k)]
  OBVIOUS
<1> HIDE DEF f
<1>3. f[0] = g[0]
  <2>1. 0 \in 0 .. n
    BY <1>1
  <2>2. F[SubSeq(s, 1, 0)] = v0
    BY FoldSteps
  <2> QED
    BY <1>2, <2>1, <2>2, Zenon
<1>4. ASSUME NEW k \in 1 .. n, f[k - 1] = g[k - 1]
      PROVE  f[k] = g[k]
  <2>1. F[SubSeq(s, 1, k)] = act[F[SubSeq(s, 1, k - 1)]][s[k]]
    BY FoldSteps
  <2>2. k \in 0 .. n /\ k - 1 \in 0 .. n
    BY <1>1
  <2>3. f[k] = F[SubSeq(s, 1, k)] /\ f[k - 1] = F[SubSeq(s, 1, k - 1)]
    BY <1>2, <2>2, Zenon
  <2> QED
    BY <1>4, <2>1, <2>3, Zenon
<1>5. f[n] = g[n]
  BY <1>1, <1>3, <1>4, IteratedOnce, Zenon
<1>6. n \in 0 .. n
  BY <1>1
<1>7. f[n] = F[SubSeq(s, 1, n)]
  BY <1>2, <1>6, Zenon
<1>8. SubSeq(s, 1, n) = s
  BY SubSeqFull
<1> QED
  BY <1>5, <1>7, <1>8

-----------------------------------------------------------------------------
(* Escaping. *)

(* Texts and lines. *)
Texts == Seq(Symbols)

(* Short tuples, by element. *)
LEMMA TupleIs ==
  /\ \A a : Len(<<a>>) = 1 /\ <<a>>[1] = a
  /\ \A a, b : Len(<<a, b>>) = 2 /\ <<a, b>>[1] = a /\ <<a, b>>[2] = b
  /\ \A a, b, c : /\ Len(<<a, b, c>>) = 3
                  /\ <<a, b, c>>[1] = a /\ <<a, b, c>>[2] = b /\ <<a, b, c>>[3] = c
OBVIOUS

(* The elements of a pair. *)
LEMMA PairIs ==
  \A h, a, b : h = <<a, b>> => h[1] = a /\ h[2] = b
OBVIOUS

(* Short tuples are sequences. *)
LEMMA TupleType ==
  ASSUME NEW S
  PROVE  /\ \A a \in S : <<a>> \in Seq(S)
         /\ \A a, b \in S : <<a, b>> \in Seq(S)
         /\ \A a, b, c \in S : <<a, b, c>> \in Seq(S)
OBVIOUS

(* Each reserved character's escape, as lox_encode_kv_value writes it. *)
LEMMA EscapeOf ==
  /\ Escape(",") = <<"%", "2", "C">> /\ Escape("=") = <<"%", "3", "D">>
  /\ Escape("%") = <<"%", "2", "5">> /\ Escape("NL") = <<"%", "0", "A">>
  /\ Escape("CR") = <<"%", "0", "D">>
  /\ \A c : c \notin Reserved => Escape(c) = <<c>>
<1>1. /\ HexOf(",") = <<"2", "C">> /\ HexOf("=") = <<"3", "D">> /\ HexOf("%") = <<"2", "5">>
      /\ HexOf("NL") = <<"0", "A">> /\ HexOf("CR") = <<"0", "D">>
  BY DEF HexOf
<1>2. {",", "=", "%", "NL", "CR"} = Reserved
  BY DEF Reserved
<1>3. \A c : c \in Reserved => Escape(c) = <<"%">> \o HexOf(c)
  BY DEF Escape
<1>4. \A c : c \notin Reserved => Escape(c) = <<c>>
  BY DEF Escape
<1>5. ASSUME NEW a, NEW b
      PROVE  <<"%">> \o <<a, b>> = <<"%", a, b>>
  <2> DEFINE S == {"%", a, b}
             s == <<"%">>
             t == <<a, b>>
             u == <<"%", a, b>>
  <2>1. s \in Seq(S) /\ t \in Seq(S) /\ u \in Seq(S)
    BY TupleType
  <2>2. Len(s) = 1 /\ Len(t) = 2 /\ Len(u) = 3 /\ s[1] = "%" /\ t[1] = a /\ t[2] = b
        /\ u[1] = "%" /\ u[2] = a /\ u[3] = b
    BY TupleIs
  <2> HIDE DEF s, t, u
  <2>3. /\ s \o t \in Seq(S) /\ Len(s \o t) = 3
        /\ (s \o t)[1] = "%" /\ (s \o t)[2] = a /\ (s \o t)[3] = b
    <3>1. /\ s \o t \in Seq(S) /\ Len(s \o t) = Len(s) + Len(t)
          /\ \A i \in 1 .. Len(s) + Len(t) :
               (s \o t)[i] = IF i <= Len(s) THEN s[i] ELSE t[i - Len(s)]
      BY <2>1, ConcatProperties
    <3> QED
      BY <2>2, <3>1
  <2>4. \A i \in 1 .. 3 : i = 1 \/ i = 2 \/ i = 3
    OBVIOUS
  <2>5. s \o t = u
    BY <2>1, <2>2, <2>3, <2>4, SeqEqual
  <2> QED
    BY <2>5 DEF s, t, u
<1> QED
  BY <1>1, <1>2, <1>3, <1>4, <1>5

(* The ten digits. *)
LEMMA DigitsAre ==
  /\ DOMAIN Digits = 1 .. 10
  /\ Digits[1] = "0" /\ Digits[2] = "1" /\ Digits[3] = "2" /\ Digits[4] = "3" /\ Digits[5] = "4"
  /\ Digits[6] = "5" /\ Digits[7] = "6" /\ Digits[8] = "7" /\ Digits[9] = "8" /\ Digits[10] = "9"
  /\ ToSet(Digits) = {"0", "1", "2", "3", "4", "5", "6", "7", "8", "9"}
<1>1. DOMAIN Digits = 1 .. 10
  BY DEF Digits
<1>2. /\ Digits[1] = "0" /\ Digits[2] = "1" /\ Digits[3] = "2" /\ Digits[4] = "3"
      /\ Digits[5] = "4" /\ Digits[6] = "5" /\ Digits[7] = "6" /\ Digits[8] = "7"
      /\ Digits[9] = "8" /\ Digits[10] = "9"
  BY DEF Digits
<1>3. ToSet(Digits) = {Digits[i] : i \in 1 .. 10}
  BY <1>1 DEF ToSet
<1>4. {Digits[i] : i \in 1 .. 10} = {"0", "1", "2", "3", "4", "5", "6", "7", "8", "9"}
  <2>1. \A i \in 1 .. 10 : \/ i = 1 \/ i = 2 \/ i = 3 \/ i = 4 \/ i = 5
                           \/ i = 6 \/ i = 7 \/ i = 8 \/ i = 9 \/ i = 10
    OBVIOUS
  <2> QED
    BY <1>2, <2>1
<1> QED
  BY <1>1, <1>2, <1>3, <1>4

(* Hex digits are symbols, and none is reserved. *)
LEMMA HexIs ==
  /\ {"0", "2", "3", "5", "A", "C", "D"} \subseteq HexDigits
  /\ HexDigits \subseteq Symbols /\ Reserved \subseteq Symbols
  /\ "%" \notin HexDigits /\ "," \notin HexDigits /\ "NL" \notin HexDigits
  /\ "CR" \notin HexDigits /\ "=" \notin HexDigits
<1>1. ToSet(Digits) = {"0", "1", "2", "3", "4", "5", "6", "7", "8", "9"}
  BY DigitsAre
<1>2. HexDigits = {"0", "1", "2", "3", "4", "5", "6", "7", "8", "9"} \cup {"A", "B", "C", "D", "E", "F"}
  BY <1>1 DEF HexDigits
<1>3. HexDigits \subseteq Symbols /\ Reserved \subseteq Symbols
  BY SymbolsAssumption
<1> QED
  BY <1>2, <1>3

(* What lox_decode_kv_value_n makes of the escapes that are written. *)
LEMMA ByteOfIs ==
  /\ ByteOf(<<"2", "C">>) = "," /\ ByteOf(<<"3", "D">>) = "=" /\ ByteOf(<<"2", "5">>) = "%"
  /\ ByteOf(<<"0", "A">>) = "NL" /\ ByteOf(<<"0", "D">>) = "CR"
<1>1. /\ HexOf(",") = <<"2", "C">> /\ HexOf("=") = <<"3", "D">> /\ HexOf("%") = <<"2", "5">>
      /\ HexOf("NL") = <<"0", "A">> /\ HexOf("CR") = <<"0", "D">>
  BY DEF HexOf
<1>5. /\ HexOf(",")[1] = "2" /\ HexOf(",")[2] = "C" /\ HexOf("=")[1] = "3"
      /\ HexOf("%")[1] = "2" /\ HexOf("%")[2] = "5" /\ HexOf("NL")[1] = "0"
      /\ HexOf("NL")[2] = "A" /\ HexOf("CR")[1] = "0" /\ HexOf("CR")[2] = "D"
  <2>1. HexOf(",")[1] = "2" /\ HexOf(",")[2] = "C"
    BY <1>1, PairIs
  <2>2. HexOf("=")[1] = "3"
    BY <1>1, PairIs
  <2>3. HexOf("%")[1] = "2" /\ HexOf("%")[2] = "5"
    BY <1>1, PairIs
  <2>4. HexOf("NL")[1] = "0" /\ HexOf("NL")[2] = "A"
    BY <1>1, PairIs
  <2>5. HexOf("CR")[1] = "0" /\ HexOf("CR")[2] = "D"
    BY <1>1, PairIs
  <2> QED
    BY <2>1, <2>2, <2>3, <2>4, <2>5
<1>2. \A c \in Reserved : c = "," \/ c = "=" \/ c = "%" \/ c = "NL" \/ c = "CR"
  BY DEF Reserved
<1>3. ASSUME NEW c \in Reserved, NEW d \in Reserved, HexOf(c) = HexOf(d)
      PROVE  c = d
  <2>1. HexOf(c)[1] = HexOf(d)[1] /\ HexOf(c)[2] = HexOf(d)[2]
    BY <1>3
  <2> QED
    BY <1>2, <1>5, <2>1
<1>4. ASSUME NEW c \in Reserved, HexOf(c) = <<"0", "0">>
      PROVE  FALSE
  <2>1. HexOf(c)[1] = "0" /\ HexOf(c)[2] = "0"
    BY <1>4, TupleIs
  <2> QED
    BY <1>2, <1>5, <2>1
<1>6. ASSUME NEW c \in Reserved
      PROVE  ByteOf(HexOf(c)) = c
  <2>1. (CHOOSE d \in Reserved : HexOf(d) = HexOf(c)) = c
    BY <1>3
  <2> QED
    BY <1>4, <2>1, Zenon DEF ByteOf
<1>7. "," \in Reserved /\ "=" \in Reserved /\ "%" \in Reserved /\ "NL" \in Reserved /\ "CR" \in Reserved
  BY DEF Reserved
<1> QED
  BY <1>1, <1>6, <1>7

(* A reserved character becomes three, which stand for it. *)
LEMMA EscapeIs ==
  ASSUME NEW c \in Symbols
  PROVE  \/ c \notin Reserved /\ Escape(c) = <<c>>
         \/ \E a, b \in HexDigits :
              /\ c \in Reserved /\ Escape(c) = <<"%", a, b>> /\ ByteOf(<<a, b>>) = c
<1>1. CASE c \notin Reserved
  BY <1>1, EscapeOf
<1>2. CASE c \in Reserved
  <2>1. CASE c = ","
    <3>1. Escape(c) = <<"%", "2", "C">> /\ ByteOf(<<"2", "C">>) = c /\ {"2", "C"} \subseteq HexDigits
      BY <2>1, EscapeOf, ByteOfIs, HexIs
    <3> QED
      BY <1>2, <3>1
  <2>2. CASE c = "="
    <3>1. Escape(c) = <<"%", "3", "D">> /\ ByteOf(<<"3", "D">>) = c /\ {"3", "D"} \subseteq HexDigits
      BY <2>2, EscapeOf, ByteOfIs, HexIs
    <3> QED
      BY <1>2, <3>1
  <2>3. CASE c = "%"
    <3>1. Escape(c) = <<"%", "2", "5">> /\ ByteOf(<<"2", "5">>) = c /\ {"2", "5"} \subseteq HexDigits
      BY <2>3, EscapeOf, ByteOfIs, HexIs
    <3> QED
      BY <1>2, <3>1
  <2>4. CASE c = "NL"
    <3>1. Escape(c) = <<"%", "0", "A">> /\ ByteOf(<<"0", "A">>) = c /\ {"0", "A"} \subseteq HexDigits
      BY <2>4, EscapeOf, ByteOfIs, HexIs
    <3> QED
      BY <1>2, <3>1
  <2>5. CASE c = "CR"
    <3>1. Escape(c) = <<"%", "0", "D">> /\ ByteOf(<<"0", "D">>) = c /\ {"0", "D"} \subseteq HexDigits
      BY <2>5, EscapeOf, ByteOfIs, HexIs
    <3> QED
      BY <1>2, <3>1
  <2> QED
    BY <1>2, <2>1, <2>2, <2>3, <2>4, <2>5 DEF Reserved
<1> QED
  BY <1>1, <1>2

(* An escape is one symbol or three. *)
LEMMA EscapeType ==
  ASSUME NEW c \in Symbols
  PROVE  Escape(c) \in Texts /\ Len(Escape(c)) \in 1 .. 3
<1>1. CASE c \notin Reserved /\ Escape(c) = <<c>>
  <2>1. <<c>> \in Seq(Symbols) /\ Len(<<c>>) = 1
    BY TupleIs, TupleType
  <2> QED
    BY <1>1, <2>1 DEF Texts
<1>2. ASSUME NEW a \in HexDigits, NEW b \in HexDigits, Escape(c) = <<"%", a, b>>
      PROVE  Escape(c) \in Texts /\ Len(Escape(c)) \in 1 .. 3
  <2>1. a \in Symbols /\ b \in Symbols /\ "%" \in Symbols
    BY HexIs DEF Reserved
  <2>2. <<"%", a, b>> \in Seq(Symbols) /\ Len(<<"%", a, b>>) = 3
    BY <2>1, TupleIs, TupleType
  <2> QED
    BY <1>2, <2>2 DEF Texts
<1> QED
  BY <1>1, <1>2, EscapeIs

EscapedNext(v, c) == v \o Escape(c)

EscapedAlong(text, h) ==
  [k \in 0 .. Len(text) |-> IF k = 0 THEN <<>> ELSE EscapedNext(h[k - 1], text[k])]

(* Escaping goes along the text. *)
LEMMA EscapedFolds ==
  \E F \in [Seq(Symbols) -> Texts] :
           /\ F[<<>>] = <<>>
           /\ \A text \in Seq(Symbols) : \A c \in Symbols :
                 F[Append(text, c)] = EscapedNext(F[text], c)
           /\ \A text \in Seq(Symbols) : Escaped(text) = F[text]
<1> DEFINE act == [v \in Texts |-> [c \in Symbols |-> EscapedNext(v, c)]]
<1>1. act \in [Texts -> [Symbols -> Texts]]
  <2>1. \A v \in Texts : \A c \in Symbols : EscapedNext(v, c) \in Texts
    BY EscapeType, ConcatProperties DEF EscapedNext, Texts
  <2> QED
    BY <2>1
<1>2. \A v \in Texts : \A c \in Symbols : act[v][c] = EscapedNext(v, c)
  OBVIOUS
<1> HIDE DEF act
<1>3. <<>> \in Texts
  BY DEF Texts
<1>4. PICK F \in FoldsOf(Symbols, Texts, <<>>, act) : TRUE
  <2>1. FoldsOf(Symbols, Texts, <<>>, act) # {}
    BY <1>1, <1>3, FoldsExist
  <2> QED
    BY <2>1
<1>5. /\ F \in [Seq(Symbols) -> Texts] /\ F[<<>>] = <<>>
      /\ \A text \in Seq(Symbols) : \A c \in Symbols : F[Append(text, c)] = act[F[text]][c]
  BY <1>4 DEF FoldsOf
<1>6. \A text \in Seq(Symbols) : \A c \in Symbols : F[Append(text, c)] = EscapedNext(F[text], c)
  BY <1>2, <1>5
<1>7. ASSUME NEW text \in Seq(Symbols)
      PROVE  Escaped(text) = F[text]
  <2> DEFINE n == Len(text)
             f == [k \in 0 .. n |-> F[SubSeq(text, 1, k)]]
             g == CHOOSE h : h = EscapedAlong(text, h)
  <2>1. n \in Nat /\ \A k \in 1 .. n : text[k] \in Symbols
    OBVIOUS
  <2>2. /\ F[SubSeq(text, 1, 0)] = <<>>
        /\ \A k \in 1 .. n :
             /\ F[SubSeq(text, 1, k - 1)] \in Texts
             /\ F[SubSeq(text, 1, k)] = EscapedNext(F[SubSeq(text, 1, k - 1)], text[k])
    <3>1. /\ F[SubSeq(text, 1, 0)] = <<>>
          /\ \A k \in 1 .. n :
               /\ F[SubSeq(text, 1, k - 1)] \in Texts
               /\ F[SubSeq(text, 1, k)] = act[F[SubSeq(text, 1, k - 1)]][text[k]]
      BY <1>4, FoldSteps
    <3> QED
      BY <1>2, <2>1, <3>1
  <2> HIDE DEF n
  <2>3. \A k \in 0 .. n : f[k] = IF k = 0 THEN <<>> ELSE EscapedNext(f[k - 1], text[k])
    <3> SUFFICES ASSUME NEW k \in 0 .. n
                 PROVE  f[k] = IF k = 0 THEN <<>> ELSE EscapedNext(f[k - 1], text[k])
      OBVIOUS
    <3>1. CASE k = 0
      <4>1. f[0] = F[SubSeq(text, 1, 0)]
        BY <3>1
      <4> HIDE DEF f
      <4> QED
        BY <2>2, <3>1, <4>1
    <3>2. CASE k # 0
      <4>1. k \in 1 .. n /\ k - 1 \in 0 .. n
        BY <2>1, <3>2
      <4>2. f[k] = F[SubSeq(text, 1, k)] /\ f[k - 1] = F[SubSeq(text, 1, k - 1)]
        BY <4>1, Zenon
      <4>3. F[SubSeq(text, 1, k)] = EscapedNext(F[SubSeq(text, 1, k - 1)], text[k])
        BY <2>2, <4>1, Zenon
      <4> HIDE DEF f
      <4> QED
        BY <3>2, <4>2, <4>3, Zenon
    <3> QED
      BY <3>1, <3>2
  <2>4. f = [k \in 0 .. n |-> f[k]]
    OBVIOUS
  <2> HIDE DEF f
  <2>5. f = EscapedAlong(text, f)
    BY <2>3, <2>4, Zenon DEF EscapedAlong, n
  <2>6. g = EscapedAlong(text, g)
    BY <2>5, Zenon
  <2>7. Escaped(text) = g[n]
    BY Zenon DEF Escaped, EscapedAlong, EscapedNext, n
  <2> HIDE DEF g
  <2>8. \A k \in 0 .. n : g[k] = IF k = 0 THEN <<>> ELSE EscapedNext(g[k - 1], text[k])
    BY <2>6, Zenon DEF EscapedAlong, n
  <2>9. g[0] = <<>>
    <3>1. 0 \in 0 .. n
      BY <2>1
    <3> QED
      BY <2>8, <3>1, Zenon
  <2>10. ASSUME NEW k \in 1 .. n, g[k - 1] = F[SubSeq(text, 1, k - 1)]
         PROVE  g[k] = act[g[k - 1]][text[k]]
    <3>1. k \in 0 .. n /\ k # 0
      BY <2>1
    <3>2. g[k] = EscapedNext(g[k - 1], text[k])
      BY <2>8, <3>1, Zenon
    <3>3. g[k - 1] \in Texts /\ text[k] \in Symbols
      BY <2>1, <2>2, <2>10
    <3> QED
      BY <1>2, <3>2, <3>3
  <2>11. g[n] = F[text]
    BY <1>4, <2>9, <2>10, FoldsAlong DEF n
  <2> QED
    BY <2>7, <2>11
<1> QED
  BY <1>5, <1>6, <1>7

(* Escaping a text with one more character adds that character's escape. *)
LEMMA EscapedIs ==
         /\ Escaped(<<>>) = <<>>
         /\ \A text \in Seq(Symbols) : Escaped(text) \in Texts
         /\ \A text \in Seq(Symbols) : \A c \in Symbols :
              Escaped(Append(text, c)) = Escaped(text) \o Escape(c)
<1>1. PICK F \in [Seq(Symbols) -> Texts] :
        /\ F[<<>>] = <<>>
        /\ \A text \in Seq(Symbols) : \A c \in Symbols :
              F[Append(text, c)] = EscapedNext(F[text], c)
        /\ \A text \in Seq(Symbols) : Escaped(text) = F[text]
  BY EscapedFolds
<1>2. <<>> \in Seq(Symbols)
  OBVIOUS
<1>3. ASSUME NEW text \in Seq(Symbols), NEW c \in Symbols
      PROVE  Escaped(Append(text, c)) = EscapedNext(Escaped(text), c)
  <2>1. Append(text, c) \in Seq(Symbols)
    BY AppendProperties
  <2> QED
    BY <1>1, <2>1, Zenon
<1>4. \A text \in Seq(Symbols) : Escaped(text) \in Texts
  BY <1>1
<1>5. Escaped(<<>>) = <<>>
  BY <1>1, <1>2, Zenon
<1> QED
  BY <1>3, <1>4, <1>5, Zenon DEF EscapedNext

-----------------------------------------------------------------------------
(* Numbers. *)

DigitSymbols == ToSet(Digits)

(* Digits and their values. *)
LEMMA DigitOfIs ==
  /\ \A c \in DigitSymbols : DigitOf(c) \in 0 .. 9
  /\ \A d \in 0 .. 9 : Digits[d + 1] \in DigitSymbols /\ DigitOf(Digits[d + 1]) = d
  /\ \A c \in DigitSymbols : Digits[DigitOf(c) + 1] = c
<1>1. \A d \in 0 .. 9 : Digits[d + 1] \in DigitSymbols
  BY DigitsAre DEF DigitSymbols, ToSet
<1>2. \A d, e \in 0 .. 9 : Digits[d + 1] = Digits[e + 1] => d = e
  <2>1. \A d \in 0 .. 9 : \/ d = 0 \/ d = 1 \/ d = 2 \/ d = 3 \/ d = 4
                          \/ d = 5 \/ d = 6 \/ d = 7 \/ d = 8 \/ d = 9
    OBVIOUS
  <2>2. /\ Digits[0 + 1] = "0" /\ Digits[1 + 1] = "1" /\ Digits[2 + 1] = "2" /\ Digits[3 + 1] = "3"
        /\ Digits[4 + 1] = "4" /\ Digits[5 + 1] = "5" /\ Digits[6 + 1] = "6"
        /\ Digits[7 + 1] = "7" /\ Digits[8 + 1] = "8" /\ Digits[9 + 1] = "9"
    BY DigitsAre
  <2> QED
    BY <2>1, <2>2
<1>3. ASSUME NEW c \in DigitSymbols
      PROVE  \E d \in 0 .. 9 : Digits[d + 1] = c
  <2>1. PICK i \in 1 .. 10 : Digits[i] = c
    BY DigitsAre DEF DigitSymbols, ToSet
  <2>2. i - 1 \in 0 .. 9 /\ (i - 1) + 1 = i
    OBVIOUS
  <2> QED
    BY <2>1, <2>2
<1>4. \A c \in DigitSymbols : DigitOf(c) \in 0 .. 9 /\ Digits[DigitOf(c) + 1] = c
  BY <1>3 DEF DigitOf
<1> QED
  BY <1>1, <1>2, <1>4

NumberOfNext(v, c) == 10 * v + DigitOf(c)

NumberOfAlong(value, h) ==
  [k \in 0 .. Len(value) |-> IF k = 0 THEN 0 ELSE NumberOfNext(h[k - 1], value[k])]

(* Reading a number goes along its digits. *)
LEMMA NumberOfFolds ==
  \E F \in [Seq(DigitSymbols) -> Nat] :
           /\ F[<<>>] = 0
           /\ \A value \in Seq(DigitSymbols) : \A c \in DigitSymbols :
                 F[Append(value, c)] = NumberOfNext(F[value], c)
           /\ \A value \in Seq(DigitSymbols) : NumberOf(value) = F[value]
<1> DEFINE act == [v \in Nat |-> [c \in DigitSymbols |-> NumberOfNext(v, c)]]
<1>1. act \in [Nat -> [DigitSymbols -> Nat]]
  <2>1. \A v \in Nat : \A c \in DigitSymbols : NumberOfNext(v, c) \in Nat
    BY DigitOfIs DEF NumberOfNext
  <2> QED
    BY <2>1
<1>2. \A v \in Nat : \A c \in DigitSymbols : act[v][c] = NumberOfNext(v, c)
  OBVIOUS
<1> HIDE DEF act
<1>3. 0 \in Nat
  OBVIOUS
<1>4. PICK F \in FoldsOf(DigitSymbols, Nat, 0, act) : TRUE
  <2>1. FoldsOf(DigitSymbols, Nat, 0, act) # {}
    BY <1>1, <1>3, FoldsExist
  <2> QED
    BY <2>1
<1>5. /\ F \in [Seq(DigitSymbols) -> Nat] /\ F[<<>>] = 0
      /\ \A value \in Seq(DigitSymbols) : \A c \in DigitSymbols :
            F[Append(value, c)] = act[F[value]][c]
  BY <1>4 DEF FoldsOf
<1>6. \A value \in Seq(DigitSymbols) : \A c \in DigitSymbols :
         F[Append(value, c)] = NumberOfNext(F[value], c)
  BY <1>2, <1>5
<1>7. ASSUME NEW value \in Seq(DigitSymbols)
      PROVE  NumberOf(value) = F[value]
  <2> DEFINE n == Len(value)
             f == [k \in 0 .. n |-> F[SubSeq(value, 1, k)]]
             g == CHOOSE h : h = NumberOfAlong(value, h)
  <2>1. n \in Nat /\ \A k \in 1 .. n : value[k] \in DigitSymbols
    OBVIOUS
  <2>2. /\ F[SubSeq(value, 1, 0)] = 0
        /\ \A k \in 1 .. n :
             /\ F[SubSeq(value, 1, k - 1)] \in Nat
             /\ F[SubSeq(value, 1, k)] = NumberOfNext(F[SubSeq(value, 1, k - 1)], value[k])
    <3>1. /\ F[SubSeq(value, 1, 0)] = 0
          /\ \A k \in 1 .. n :
               /\ F[SubSeq(value, 1, k - 1)] \in Nat
               /\ F[SubSeq(value, 1, k)] = act[F[SubSeq(value, 1, k - 1)]][value[k]]
      BY <1>4, FoldSteps
    <3> QED
      BY <1>2, <2>1, <3>1
  <2> HIDE DEF n
  <2>3. \A k \in 0 .. n : f[k] = IF k = 0 THEN 0 ELSE NumberOfNext(f[k - 1], value[k])
    <3> SUFFICES ASSUME NEW k \in 0 .. n
                 PROVE  f[k] = IF k = 0 THEN 0 ELSE NumberOfNext(f[k - 1], value[k])
      OBVIOUS
    <3>1. CASE k = 0
      <4>1. f[0] = F[SubSeq(value, 1, 0)]
        BY <3>1
      <4> HIDE DEF f
      <4> QED
        BY <2>2, <3>1, <4>1
    <3>2. CASE k # 0
      <4>1. k \in 1 .. n /\ k - 1 \in 0 .. n
        BY <2>1, <3>2
      <4>2. f[k] = F[SubSeq(value, 1, k)] /\ f[k - 1] = F[SubSeq(value, 1, k - 1)]
        BY <4>1, Zenon
      <4>3. F[SubSeq(value, 1, k)] = NumberOfNext(F[SubSeq(value, 1, k - 1)], value[k])
        BY <2>2, <4>1, Zenon
      <4> HIDE DEF f
      <4> QED
        BY <3>2, <4>2, <4>3, Zenon
    <3> QED
      BY <3>1, <3>2
  <2>4. f = [k \in 0 .. n |-> f[k]]
    OBVIOUS
  <2> HIDE DEF f
  <2>5. f = NumberOfAlong(value, f)
    BY <2>3, <2>4, Zenon DEF NumberOfAlong, n
  <2>6. g = NumberOfAlong(value, g)
    BY <2>5, Zenon
  <2>7. NumberOf(value) = g[n]
    BY Zenon DEF NumberOf, NumberOfAlong, NumberOfNext, n
  <2> HIDE DEF g
  <2>8. \A k \in 0 .. n : g[k] = IF k = 0 THEN 0 ELSE NumberOfNext(g[k - 1], value[k])
    BY <2>6, Zenon DEF NumberOfAlong, n
  <2>9. g[0] = 0
    <3>1. 0 \in 0 .. n
      BY <2>1
    <3> QED
      BY <2>8, <3>1, Zenon
  <2>10. ASSUME NEW k \in 1 .. n, g[k - 1] = F[SubSeq(value, 1, k - 1)]
         PROVE  g[k] = act[g[k - 1]][value[k]]
    <3>1. k \in 0 .. n /\ k # 0
      BY <2>1
    <3>2. g[k] = NumberOfNext(g[k - 1], value[k])
      BY <2>8, <3>1, Zenon
    <3>3. g[k - 1] \in Nat /\ value[k] \in DigitSymbols
      BY <2>1, <2>2, <2>10
    <3> QED
      BY <1>2, <3>2, <3>3
  <2>11. g[n] = F[value]
    BY <1>4, <2>9, <2>10, FoldsAlong DEF n
  <2> QED
    BY <2>7, <2>11
<1> QED
  BY <1>5, <1>6, <1>7

(* One more digit, ten times as much and the digit. *)
LEMMA NumberOfIs ==
         /\ NumberOf(<<>>) = 0
         /\ \A value \in Seq(DigitSymbols) : NumberOf(value) \in Nat
         /\ \A value \in Seq(DigitSymbols) : \A c \in DigitSymbols :
              NumberOf(Append(value, c)) = 10 * NumberOf(value) + DigitOf(c)
<1>1. PICK F \in [Seq(DigitSymbols) -> Nat] :
        /\ F[<<>>] = 0
        /\ \A value \in Seq(DigitSymbols) : \A c \in DigitSymbols :
              F[Append(value, c)] = NumberOfNext(F[value], c)
        /\ \A value \in Seq(DigitSymbols) : NumberOf(value) = F[value]
  BY NumberOfFolds
<1>2. <<>> \in Seq(DigitSymbols)
  OBVIOUS
<1>3. ASSUME NEW value \in Seq(DigitSymbols), NEW c \in DigitSymbols
      PROVE  NumberOf(Append(value, c)) = NumberOfNext(NumberOf(value), c)
  <2>1. Append(value, c) \in Seq(DigitSymbols)
    BY AppendProperties
  <2> QED
    BY <1>1, <2>1, Zenon
<1>4. \A value \in Seq(DigitSymbols) : NumberOf(value) \in Nat
  BY <1>1
<1>5. NumberOf(<<>>) = 0
  BY <1>1, <1>2, Zenon
<1> QED
  BY <1>3, <1>4, <1>5, Zenon DEF NumberOfNext

-----------------------------------------------------------------------------
(* Parts of a line. *)

JoinedByNext(separator, v, c) == IF v = <<>> THEN c ELSE v \o <<separator>> \o c

JoinedByAlong(separator, parts, h) ==
  [k \in 0 .. Len(parts) |-> IF k = 0 THEN <<>> ELSE JoinedByNext(separator, h[k - 1], parts[k])]

(* Joining goes along the parts. *)
LEMMA JoinedByFolds ==
  ASSUME NEW separator \in Symbols
  PROVE  \E F \in [Seq(Texts) -> Texts] :
           /\ F[<<>>] = <<>>
           /\ \A parts \in Seq(Texts) : \A c \in Texts :
                 F[Append(parts, c)] = JoinedByNext(separator, F[parts], c)
           /\ \A parts \in Seq(Texts) : JoinedBy(separator, parts) = F[parts]
<1> DEFINE act == [v \in Texts |-> [c \in Texts |-> JoinedByNext(separator, v, c)]]
<1>1. act \in [Texts -> [Texts -> Texts]]
  <2>1. \A v \in Texts : \A c \in Texts : JoinedByNext(separator, v, c) \in Texts
    <3>1. <<separator>> \in Texts
      BY TupleType DEF Texts
    <3>2. ASSUME NEW v \in Texts, NEW c \in Texts
          PROVE  v \o <<separator>> \o c \in Texts
      <4>1. v \o <<separator>> \in Texts
        BY <3>1, <3>2, ConcatProperties DEF Texts
      <4> QED
        BY <3>2, <4>1, ConcatProperties DEF Texts
    <3> QED
      BY <3>2 DEF JoinedByNext
  <2> QED
    BY <2>1
<1>2. \A v \in Texts : \A c \in Texts : act[v][c] = JoinedByNext(separator, v, c)
  OBVIOUS
<1> HIDE DEF act
<1>3. <<>> \in Texts
  BY DEF Texts
<1>4. PICK F \in FoldsOf(Texts, Texts, <<>>, act) : TRUE
  <2>1. FoldsOf(Texts, Texts, <<>>, act) # {}
    BY <1>1, <1>3, FoldsExist
  <2> QED
    BY <2>1
<1>5. /\ F \in [Seq(Texts) -> Texts] /\ F[<<>>] = <<>>
      /\ \A parts \in Seq(Texts) : \A c \in Texts : F[Append(parts, c)] = act[F[parts]][c]
  BY <1>4 DEF FoldsOf
<1>6. \A parts \in Seq(Texts) : \A c \in Texts :
         F[Append(parts, c)] = JoinedByNext(separator, F[parts], c)
  BY <1>2, <1>5
<1>7. ASSUME NEW parts \in Seq(Texts)
      PROVE  JoinedBy(separator, parts) = F[parts]
  <2> DEFINE n == Len(parts)
             f == [k \in 0 .. n |-> F[SubSeq(parts, 1, k)]]
             g == CHOOSE h : h = JoinedByAlong(separator, parts, h)
  <2>1. n \in Nat /\ \A k \in 1 .. n : parts[k] \in Texts
    OBVIOUS
  <2>2. /\ F[SubSeq(parts, 1, 0)] = <<>>
        /\ \A k \in 1 .. n :
             /\ F[SubSeq(parts, 1, k - 1)] \in Texts
             /\ F[SubSeq(parts, 1, k)] = JoinedByNext(separator, F[SubSeq(parts, 1, k - 1)], parts[k])
    <3>1. /\ F[SubSeq(parts, 1, 0)] = <<>>
          /\ \A k \in 1 .. n :
               /\ F[SubSeq(parts, 1, k - 1)] \in Texts
               /\ F[SubSeq(parts, 1, k)] = act[F[SubSeq(parts, 1, k - 1)]][parts[k]]
      BY <1>4, FoldSteps
    <3> QED
      BY <1>2, <2>1, <3>1
  <2> HIDE DEF n
  <2>3. \A k \in 0 .. n : f[k] = IF k = 0 THEN <<>> ELSE JoinedByNext(separator, f[k - 1], parts[k])
    <3> SUFFICES ASSUME NEW k \in 0 .. n
                 PROVE  f[k] = IF k = 0 THEN <<>> ELSE JoinedByNext(separator, f[k - 1], parts[k])
      OBVIOUS
    <3>1. CASE k = 0
      <4>1. f[0] = F[SubSeq(parts, 1, 0)]
        BY <3>1
      <4> HIDE DEF f
      <4> QED
        BY <2>2, <3>1, <4>1
    <3>2. CASE k # 0
      <4>1. k \in 1 .. n /\ k - 1 \in 0 .. n
        BY <2>1, <3>2
      <4>2. f[k] = F[SubSeq(parts, 1, k)] /\ f[k - 1] = F[SubSeq(parts, 1, k - 1)]
        BY <4>1, Zenon
      <4>3. F[SubSeq(parts, 1, k)] = JoinedByNext(separator, F[SubSeq(parts, 1, k - 1)], parts[k])
        BY <2>2, <4>1, Zenon
      <4> HIDE DEF f
      <4> QED
        BY <3>2, <4>2, <4>3, Zenon
    <3> QED
      BY <3>1, <3>2
  <2>4. f = [k \in 0 .. n |-> f[k]]
    OBVIOUS
  <2> HIDE DEF f
  <2>5. f = JoinedByAlong(separator, parts, f)
    BY <2>3, <2>4, Zenon DEF JoinedByAlong, n
  <2>6. g = JoinedByAlong(separator, parts, g)
    BY <2>5, Zenon
  <2>7. JoinedBy(separator, parts) = g[n]
    BY Zenon DEF JoinedBy, JoinedByAlong, JoinedByNext, n
  <2> HIDE DEF g
  <2>8. \A k \in 0 .. n : g[k] = IF k = 0 THEN <<>> ELSE JoinedByNext(separator, g[k - 1], parts[k])
    BY <2>6, Zenon DEF JoinedByAlong, n
  <2>9. g[0] = <<>>
    <3>1. 0 \in 0 .. n
      BY <2>1
    <3> QED
      BY <2>8, <3>1, Zenon
  <2>10. ASSUME NEW k \in 1 .. n, g[k - 1] = F[SubSeq(parts, 1, k - 1)]
         PROVE  g[k] = act[g[k - 1]][parts[k]]
    <3>1. k \in 0 .. n /\ k # 0
      BY <2>1
    <3>2. g[k] = JoinedByNext(separator, g[k - 1], parts[k])
      BY <2>8, <3>1, Zenon
    <3>3. g[k - 1] \in Texts /\ parts[k] \in Texts
      BY <2>1, <2>2, <2>10
    <3> QED
      BY <1>2, <3>2, <3>3
  <2>11. g[n] = F[parts]
    BY <1>4, <2>9, <2>10, FoldsAlong DEF n
  <2> QED
    BY <2>7, <2>11
<1> QED
  BY <1>5, <1>6, <1>7

(* One more part comes after a separator. *)
LEMMA JoinedByIs ==
  ASSUME NEW separator \in Symbols
  PROVE  /\ JoinedBy(separator, <<>>) = <<>>
         /\ \A parts \in Seq(Texts) : JoinedBy(separator, parts) \in Texts
         /\ \A parts \in Seq(Texts) : \A c \in Texts :
              JoinedBy(separator, Append(parts, c))
                = IF JoinedBy(separator, parts) = <<>> THEN c
                  ELSE JoinedBy(separator, parts) \o <<separator>> \o c
<1>1. PICK F \in [Seq(Texts) -> Texts] :
        /\ F[<<>>] = <<>>
        /\ \A parts \in Seq(Texts) : \A c \in Texts :
              F[Append(parts, c)] = JoinedByNext(separator, F[parts], c)
        /\ \A parts \in Seq(Texts) : JoinedBy(separator, parts) = F[parts]
  BY JoinedByFolds
<1>2. <<>> \in Seq(Texts)
  OBVIOUS
<1>3. ASSUME NEW parts \in Seq(Texts), NEW c \in Texts
      PROVE  JoinedBy(separator, Append(parts, c)) = JoinedByNext(separator, JoinedBy(separator, parts), c)
  <2>1. Append(parts, c) \in Seq(Texts)
    BY AppendProperties
  <2> QED
    BY <1>1, <2>1, Zenon
<1>4. \A parts \in Seq(Texts) : JoinedBy(separator, parts) \in Texts
  BY <1>1
<1>5. JoinedBy(separator, <<>>) = <<>>
  BY <1>1, <1>2, Zenon
<1> QED
  BY <1>3, <1>4, <1>5, Zenon DEF JoinedByNext

(* What a line is taken apart to: at least one part. *)
PartLists == Seq(Texts) \ {<<>>}

SplitAtNext(separators, v, c) ==
  IF c \in separators THEN Append(v, <<>>) ELSE [v EXCEPT ![Len(v)] = Append(@, c)]

SplitAtAlong(separators, s, h) ==
  [k \in 0 .. Len(s) |-> IF k = 0 THEN << <<>> >> ELSE SplitAtNext(separators, h[k - 1], s[k])]

(* Splitting goes along the symbols. *)
LEMMA SplitAtFolds ==
  ASSUME NEW separators
  PROVE  \E F \in [Seq(Symbols) -> PartLists] :
           /\ F[<<>>] = << <<>> >>
           /\ \A s \in Seq(Symbols) : \A c \in Symbols :
                 F[Append(s, c)] = SplitAtNext(separators, F[s], c)
           /\ \A s \in Seq(Symbols) : SplitAt(s, separators) = F[s]
<1> DEFINE act == [v \in PartLists |-> [c \in Symbols |-> SplitAtNext(separators, v, c)]]
<1>1. act \in [PartLists -> [Symbols -> PartLists]]
  <2>1. \A v \in PartLists : \A c \in Symbols : SplitAtNext(separators, v, c) \in PartLists
    <3>1. ASSUME NEW v \in PartLists, NEW c \in Symbols
          PROVE  Append(v, <<>>) \in PartLists
      <4>1. <<>> \in Texts
        BY DEF Texts
      <4> QED
        BY <4>1, AppendProperties DEF PartLists
    <3>2. ASSUME NEW v \in PartLists, NEW c \in Symbols
          PROVE  [v EXCEPT ![Len(v)] = Append(v[Len(v)], c)] \in PartLists
      <4>1. v \in Seq(Texts) /\ v # <<>>
        BY DEF PartLists
      <4>2. Len(v) \in 1 .. Len(v)
        BY <4>1, EmptySeq, LenProperties
      <4>3. v[Len(v)] \in Texts
        BY <4>1, <4>2, ElementOfSeq
      <4>4. Append(v[Len(v)], c) \in Texts
        BY <4>3, AppendProperties DEF Texts
      <4> DEFINE m == [v EXCEPT ![Len(v)] = Append(v[Len(v)], c)]
      <4>5. m \in Seq(Texts) /\ Len(m) = Len(v)
        BY <4>1, <4>2, <4>4, ExceptSeq
      <4> HIDE DEF m
      <4>6. m # <<>>
        BY <4>2, <4>5
      <4>7. m \in PartLists
        BY <4>5, <4>6 DEF PartLists
      <4> QED
        BY <4>7 DEF m
    <3> QED
      BY <3>1, <3>2 DEF SplitAtNext
  <2> QED
    BY <2>1
<1>2. \A v \in PartLists : \A c \in Symbols : act[v][c] = SplitAtNext(separators, v, c)
  OBVIOUS
<1> HIDE DEF act
<1>3. << <<>> >> \in PartLists
  <2>1. <<>> \in Texts
    BY DEF Texts
  <2>2. << <<>> >> \in Seq(Texts) /\ Len(<< <<>> >>) = 1
    BY <2>1, TupleType, TupleIs
  <2> QED
    BY <2>2 DEF PartLists
<1>4. PICK F \in FoldsOf(Symbols, PartLists, << <<>> >>, act) : TRUE
  <2>1. FoldsOf(Symbols, PartLists, << <<>> >>, act) # {}
    BY <1>1, <1>3, FoldsExist
  <2> QED
    BY <2>1
<1>5. /\ F \in [Seq(Symbols) -> PartLists] /\ F[<<>>] = << <<>> >>
      /\ \A s \in Seq(Symbols) : \A c \in Symbols : F[Append(s, c)] = act[F[s]][c]
  BY <1>4 DEF FoldsOf
<1>6. \A s \in Seq(Symbols) : \A c \in Symbols : F[Append(s, c)] = SplitAtNext(separators, F[s], c)
  BY <1>2, <1>5
<1>7. ASSUME NEW s \in Seq(Symbols)
      PROVE  SplitAt(s, separators) = F[s]
  <2> DEFINE n == Len(s)
             f == [k \in 0 .. n |-> F[SubSeq(s, 1, k)]]
             g == CHOOSE h : h = SplitAtAlong(separators, s, h)
  <2>1. n \in Nat /\ \A k \in 1 .. n : s[k] \in Symbols
    OBVIOUS
  <2>2. /\ F[SubSeq(s, 1, 0)] = << <<>> >>
        /\ \A k \in 1 .. n :
             /\ F[SubSeq(s, 1, k - 1)] \in PartLists
             /\ F[SubSeq(s, 1, k)] = SplitAtNext(separators, F[SubSeq(s, 1, k - 1)], s[k])
    <3>1. /\ F[SubSeq(s, 1, 0)] = << <<>> >>
          /\ \A k \in 1 .. n :
               /\ F[SubSeq(s, 1, k - 1)] \in PartLists
               /\ F[SubSeq(s, 1, k)] = act[F[SubSeq(s, 1, k - 1)]][s[k]]
      BY <1>4, FoldSteps
    <3> QED
      BY <1>2, <2>1, <3>1
  <2> HIDE DEF n
  <2>3. \A k \in 0 .. n : f[k] = IF k = 0 THEN << <<>> >> ELSE SplitAtNext(separators, f[k - 1], s[k])
    <3> SUFFICES ASSUME NEW k \in 0 .. n
                 PROVE  f[k] = IF k = 0 THEN << <<>> >> ELSE SplitAtNext(separators, f[k - 1], s[k])
      OBVIOUS
    <3>1. CASE k = 0
      <4>1. f[0] = F[SubSeq(s, 1, 0)]
        BY <3>1
      <4> HIDE DEF f
      <4> QED
        BY <2>2, <3>1, <4>1
    <3>2. CASE k # 0
      <4>1. k \in 1 .. n /\ k - 1 \in 0 .. n
        BY <2>1, <3>2
      <4>2. f[k] = F[SubSeq(s, 1, k)] /\ f[k - 1] = F[SubSeq(s, 1, k - 1)]
        BY <4>1, Zenon
      <4>3. F[SubSeq(s, 1, k)] = SplitAtNext(separators, F[SubSeq(s, 1, k - 1)], s[k])
        BY <2>2, <4>1, Zenon
      <4> HIDE DEF f
      <4> QED
        BY <3>2, <4>2, <4>3, Zenon
    <3> QED
      BY <3>1, <3>2
  <2>4. f = [k \in 0 .. n |-> f[k]]
    OBVIOUS
  <2> HIDE DEF f
  <2>5. f = SplitAtAlong(separators, s, f)
    BY <2>3, <2>4, Zenon DEF SplitAtAlong, n
  <2>6. g = SplitAtAlong(separators, s, g)
    BY <2>5, Zenon
  <2>7. SplitAt(s, separators) = g[n]
    BY Zenon DEF SplitAt, SplitAtAlong, SplitAtNext, n
  <2> HIDE DEF g
  <2>8. \A k \in 0 .. n : g[k] = IF k = 0 THEN << <<>> >> ELSE SplitAtNext(separators, g[k - 1], s[k])
    BY <2>6, Zenon DEF SplitAtAlong, n
  <2>9. g[0] = << <<>> >>
    <3>1. 0 \in 0 .. n
      BY <2>1
    <3> QED
      BY <2>8, <3>1, Zenon
  <2>10. ASSUME NEW k \in 1 .. n, g[k - 1] = F[SubSeq(s, 1, k - 1)]
         PROVE  g[k] = act[g[k - 1]][s[k]]
    <3>1. k \in 0 .. n /\ k # 0
      BY <2>1
    <3>2. g[k] = SplitAtNext(separators, g[k - 1], s[k])
      BY <2>8, <3>1, Zenon
    <3>3. g[k - 1] \in PartLists /\ s[k] \in Symbols
      BY <2>1, <2>2, <2>10
    <3> QED
      BY <1>2, <3>2, <3>3
  <2>11. g[n] = F[s]
    BY <1>4, <2>9, <2>10, FoldsAlong DEF n
  <2> QED
    BY <2>7, <2>11
<1> QED
  BY <1>5, <1>6, <1>7

(* A separator begins a part, any other symbol is added to the last. *)
LEMMA SplitAtIs ==
  ASSUME NEW separators
  PROVE  /\ SplitAt(<<>>, separators) = << <<>> >>
         /\ \A s \in Seq(Symbols) : SplitAt(s, separators) \in PartLists
         /\ \A s \in Seq(Symbols) : \A c \in Symbols :
              SplitAt(Append(s, c), separators)
                = IF c \in separators THEN Append(SplitAt(s, separators), <<>>)
                  ELSE [SplitAt(s, separators) EXCEPT ![Len(SplitAt(s, separators))] = Append(@, c)]
<1>1. PICK F \in [Seq(Symbols) -> PartLists] :
        /\ F[<<>>] = << <<>> >>
        /\ \A s \in Seq(Symbols) : \A c \in Symbols :
              F[Append(s, c)] = SplitAtNext(separators, F[s], c)
        /\ \A s \in Seq(Symbols) : SplitAt(s, separators) = F[s]
  BY SplitAtFolds
<1>2. <<>> \in Seq(Symbols)
  OBVIOUS
<1>3. ASSUME NEW s \in Seq(Symbols), NEW c \in Symbols
      PROVE  SplitAt(Append(s, c), separators) = SplitAtNext(separators, SplitAt(s, separators), c)
  <2>1. Append(s, c) \in Seq(Symbols)
    BY AppendProperties
  <2> QED
    BY <1>1, <2>1, Zenon
<1>4. \A s \in Seq(Symbols) : SplitAt(s, separators) \in PartLists
  BY <1>1
<1>5. SplitAt(<<>>, separators) = << <<>> >>
  BY <1>1, <1>2, Zenon
<1> QED
  BY <1>3, <1>4, <1>5, Zenon DEF SplitAtNext

-----------------------------------------------------------------------------
(* Unescaping what was escaped. *)

(* Appending to the second of two sequences. *)
LEMMA ConcatAppend ==
  ASSUME NEW S, NEW s \in Seq(S), NEW t \in Seq(S), NEW c \in S
  PROVE  s \o Append(t, c) = Append(s \o t, c)
<1>1. <<c>> \in Seq(S) /\ s \o t \in Seq(S)
  BY TupleType, ConcatProperties
<1>2. Append(t, c) = t \o <<c>>
  BY AppendIsConcat
<1>3. Append(s \o t, c) = (s \o t) \o <<c>>
  BY <1>1, AppendIsConcat
<1>4. (s \o t) \o <<c>> = s \o (t \o <<c>>)
  BY <1>1, ConcatAssociative
<1> QED
  BY <1>2, <1>3, <1>4

(* Escapes of a text are those of its beginning and then of its rest. *)
LEMMA EscapedConcat ==
  ASSUME NEW s \in Texts, NEW t \in Texts
  PROVE  Escaped(s \o t) = Escaped(s) \o Escaped(t)
<1> DEFINE T == {u \in Texts : Escaped(s \o u) = Escaped(s) \o Escaped(u)}
<1>1. <<>> \in T
  <2>1. s \o <<>> = s /\ Escaped(s) \o <<>> = Escaped(s)
    BY ConcatEmptySeq, EscapedIs DEF Texts
  <2> QED
    BY <2>1, EscapedIs DEF Texts
<1>2. ASSUME NEW u \in Seq(Symbols), NEW c \in Symbols, u \in T
      PROVE  Append(u, c) \in T
  <2>1. s \o Append(u, c) = Append(s \o u, c)
    BY ConcatAppend DEF Texts
  <2>2. s \o u \in Texts /\ Append(u, c) \in Texts
    BY ConcatProperties, AppendProperties DEF Texts
  <2>3. Escaped(Append(s \o u, c)) = Escaped(s \o u) \o Escape(c)
    BY <2>2, EscapedIs DEF Texts
  <2>4. Escaped(s \o u) = Escaped(s) \o Escaped(u)
    BY <1>2
  <2>5. Escaped(Append(u, c)) = Escaped(u) \o Escape(c)
    BY EscapedIs
  <2>6. Escaped(s) \in Seq(Symbols) /\ Escaped(u) \in Seq(Symbols) /\ Escape(c) \in Seq(Symbols)
    BY EscapedIs, EscapeType DEF Texts
  <2>7. (Escaped(s) \o Escaped(u)) \o Escape(c) = Escaped(s) \o (Escaped(u) \o Escape(c))
    BY <2>6, ConcatAssociative
  <2>8. Escaped(s \o Append(u, c)) = Escaped(s) \o Escaped(Append(u, c))
    BY <2>1, <2>3, <2>4, <2>5, <2>7
  <2> QED
    BY <2>2, <2>8
<1> HIDE DEF T
<1>3. Seq(Symbols) \subseteq T
  BY <1>1, <1>2, SeqsFollow
<1> QED
  BY <1>3 DEF T, Texts

UnescapedBody(value, f, i) ==
  IF i > Len(value) THEN <<>>
  ELSE IF EscapeAt(value, i) THEN <<ByteOf(SubSeq(value, i + 1, i + 2))>> \o f[i + 3]
  ELSE <<value[i]>> \o f[i + 1]

(* Every step of the decoder yields a text. *)
LEMMA UnescapedBodyType ==
  ASSUME NEW value \in Texts, NEW f \in [1 .. Len(value) + 1 -> Texts],
         NEW i \in 1 .. Len(value) + 1
  PROVE  UnescapedBody(value, f, i) \in Texts
<1> DEFINE n == Len(value)
<1>1. n \in Nat /\ \A k \in 1 .. n : value[k] \in Symbols
  BY DEF Texts
<1>2. CASE i > n
  <2>1. UnescapedBody(value, f, i) = <<>>
    BY <1>2 DEF UnescapedBody
  <2> QED
    BY <2>1 DEF Texts
<1>3. CASE ~ i > n /\ EscapeAt(value, i)
  <2>1. i + 3 \in 1 .. n + 1
    BY <1>1, <1>3 DEF EscapeAt
  <2>2. \A hex : ByteOf(hex) \in Symbols
    <3>1. \A hex : ByteOf(hex) \in Reserved \cup {"NUL", "byte"}
      BY DEF ByteOf
    <3> QED
      BY <3>1, SymbolsAssumption
  <2>3. UnescapedBody(value, f, i) = <<ByteOf(SubSeq(value, i + 1, i + 2))>> \o f[i + 3]
    BY <1>3 DEF UnescapedBody
  <2>4. <<ByteOf(SubSeq(value, i + 1, i + 2))>> \in Texts
    BY <2>2, TupleType DEF Texts
  <2>5. f[i + 3] \in Texts
    BY <2>1
  <2> QED
    BY <2>3, <2>4, <2>5, ConcatProperties DEF Texts
<1>4. CASE ~ i > n /\ ~ EscapeAt(value, i)
  <2>1. i + 1 \in 1 .. n + 1 /\ i \in 1 .. n
    BY <1>1, <1>4
  <2>2. UnescapedBody(value, f, i) = <<value[i]>> \o f[i + 1]
    BY <1>4 DEF UnescapedBody
  <2>3. <<value[i]>> \in Texts
    BY <1>1, <2>1, TupleType DEF Texts
  <2>4. f[i + 1] \in Texts
    BY <2>1
  <2> QED
    BY <2>2, <2>3, <2>4, ConcatProperties DEF Texts
<1> QED
  BY <1>2, <1>3, <1>4

(* The scan is made from the end of the value. *)
LEMMA UnescapedExists ==
  ASSUME NEW value \in Texts
  PROVE  \E f \in [1 .. Len(value) + 1 -> Texts] :
           f = [i \in 1 .. Len(value) + 1 |-> UnescapedBody(value, f, i)]
<1> DEFINE n == Len(value)
           Good(f, m) == \A i \in n + 1 - m .. n + 1 : f[i] = UnescapedBody(value, f, i)
           T == {m \in 0 .. n : \E f : f \in [1 .. n + 1 -> Texts] /\ Good(f, m)}
<1>1. n \in Nat
  BY DEF Texts
<1>2. 0 \in T
  <2> DEFINE f == [i \in 1 .. n + 1 |-> <<>>]
  <2>1. f \in [1 .. n + 1 -> Texts]
    BY DEF Texts
  <2>2. Good(f, 0)
    <3> SUFFICES ASSUME NEW i \in n + 1 - 0 .. n + 1 PROVE f[i] = UnescapedBody(value, f, i)
      OBVIOUS
    <3>1. i = n + 1
      BY <1>1
    <3> QED
      BY <1>1, <3>1 DEF UnescapedBody
  <2> QED
    BY <1>1, <2>1, <2>2
<1>3. ASSUME NEW m \in 0 .. n - 1, m \in T
      PROVE  m + 1 \in T
  <2>1. PICK f : f \in [1 .. n + 1 -> Texts] /\ Good(f, m)
    BY <1>3
  <2> DEFINE j == n - m
             w == UnescapedBody(value, f, j)
             g == [f EXCEPT ![j] = w]
  <2>2. j \in 1 .. n /\ j \in 1 .. n + 1
    BY <1>1
  <2>3. w \in Texts
    BY <2>1, <2>2, UnescapedBodyType
  <2> HIDE DEF w
  <2>4. /\ g \in [1 .. n + 1 -> Texts] /\ g[j] = w
        /\ \A i \in 1 .. n + 1 : i # j => g[i] = f[i]
    BY <2>1, <2>2, <2>3
  <2> HIDE DEF g
  <2>5. ASSUME NEW i \in j .. n + 1
        PROVE  UnescapedBody(value, g, i) = UnescapedBody(value, f, i)
    <3>1. CASE i > n
      BY <3>1 DEF UnescapedBody
    <3>2. CASE ~ i > n /\ EscapeAt(value, i)
      <4>1. i + 3 \in 1 .. n + 1 /\ i + 3 # j
        BY <1>1, <2>2, <3>2 DEF EscapeAt
      <4>2. g[i + 3] = f[i + 3]
        BY <2>4, <4>1
      <4> QED
        BY <3>2, <4>2 DEF UnescapedBody
    <3>3. CASE ~ i > n /\ ~ EscapeAt(value, i)
      <4>1. i + 1 \in 1 .. n + 1 /\ i + 1 # j
        BY <1>1, <2>2, <3>3
      <4>2. g[i + 1] = f[i + 1]
        BY <2>4, <4>1
      <4> QED
        BY <3>3, <4>2 DEF UnescapedBody
    <3> QED
      BY <3>1, <3>2, <3>3
  <2>6. Good(g, m + 1)
    <3> SUFFICES ASSUME NEW i \in n + 1 - (m + 1) .. n + 1 PROVE g[i] = UnescapedBody(value, g, i)
      OBVIOUS
    <3>1. i \in j .. n + 1 /\ i \in 1 .. n + 1
      BY <1>1, <2>2
    <3>2. UnescapedBody(value, g, i) = UnescapedBody(value, f, i)
      BY <2>5, <3>1
    <3>3. CASE i = j
      BY <2>4, <3>2, <3>3 DEF w
    <3>4. CASE i # j
      <4>1. i \in n + 1 - m .. n + 1
        BY <1>1, <3>1, <3>4
      <4>2. f[i] = UnescapedBody(value, f, i)
        BY <2>1, <4>1
      <4> QED
        BY <2>4, <3>1, <3>2, <3>4, <4>2
    <3> QED
      BY <3>3, <3>4
  <2>7. m + 1 \in 0 .. n
    BY <1>1
  <2> HIDE DEF Good
  <2> QED
    BY <2>4, <2>6, <2>7
<1> HIDE DEF T
<1>4. 0 .. n \subseteq T
  BY <1>1, <1>2, <1>3, UpTo
<1>5. n \in T
  BY <1>1, <1>4
<1>6. PICK f : f \in [1 .. n + 1 -> Texts] /\ Good(f, n)
  BY <1>5 DEF T
<1>7. \A i \in 1 .. n + 1 : f[i] = UnescapedBody(value, f, i)
  BY <1>1, <1>6
<1>8. f = [i \in 1 .. n + 1 |-> f[i]]
  BY <1>6
<1>9. f = [i \in 1 .. n + 1 |-> UnescapedBody(value, f, i)]
  BY <1>7, <1>8, Zenon
<1> QED
  BY <1>6, <1>9, Zenon

(* What lox_decode_kv_value_n reads is what its steps say. *)
LEMMA UnescapedSteps ==
  ASSUME NEW value \in Texts
  PROVE  \E f : /\ \A i \in 1 .. Len(value) + 1 : f[i] = UnescapedBody(value, f, i)
                /\ Unescaped(value) = f[1]
<1> DEFINE From(h) == [i \in 1 .. Len(value) + 1 |-> UnescapedBody(value, h, i)]
           g == CHOOSE h : h = From(h)
<1>1. g = From(g)
  BY UnescapedExists, Zenon
<1>2. Unescaped(value) = g[1]
  BY Zenon DEF Unescaped, UnescapedBody
<1> HIDE DEF g
<1>3. \A i \in 1 .. Len(value) + 1 : g[i] = UnescapedBody(value, g, i)
  BY <1>1, Zenon
<1> QED
  BY <1>2, <1>3, Zenon

(* Where the k-th character of a text is in its escaped form. *)
LEMMA EscapedAt ==
  ASSUME NEW text \in Texts, NEW k \in 0 .. Len(text) - 1
  PROVE  LET p == Len(Escaped(SubSeq(text, 1, k)))
             c == text[k + 1]
         IN  /\ p \in Nat /\ p + Len(Escape(c)) <= Len(Escaped(text))
             /\ Len(Escaped(SubSeq(text, 1, k + 1))) = p + Len(Escape(c))
             /\ \A j \in 1 .. Len(Escape(c)) : Escaped(text)[p + j] = Escape(c)[j]
<1> DEFINE n == Len(text)
           s == SubSeq(text, 1, k)
           t == SubSeq(text, 1, k + 1)
           r == SubSeq(text, k + 2, n)
           c == text[k + 1]
<1>1. n \in Nat /\ k \in 0 .. n - 1 /\ text \in Seq(Symbols)
  BY DEF Texts
<1>2. s \in Seq(Symbols) /\ t \in Seq(Symbols) /\ r \in Seq(Symbols) /\ c \in Symbols
  BY <1>1
<1>3. t = Append(s, c)
  BY <1>1
<1>4. text = t \o r
  <2>1. SubSeq(text, 1, k + 1) \o SubSeq(text, (k + 1) + 1, n) = SubSeq(text, 1, n)
    <3>1. 1 \in 1 .. Len(text) + 1 /\ k + 1 \in 1 - 1 .. Len(text) /\ n \in k + 1 .. Len(text)
      BY <1>1
    <3> QED
      BY <1>1, <3>1, ConcatAdjacentSubSeq
  <2>2. (k + 1) + 1 = k + 2
    BY <1>1
  <2>3. SubSeq(text, 1, n) = text
    BY <1>1, SubSeqFull
  <2> QED
    BY <2>1, <2>2, <2>3
<1> HIDE DEF s, t, r, c
<1>5. Escaped(text) = Escaped(t) \o Escaped(r)
  BY <1>2, <1>4, EscapedConcat DEF Texts
<1>6. Escaped(t) = Escaped(s) \o Escape(c)
  BY <1>2, <1>3, EscapedIs
<1>7. /\ Escaped(s) \in Seq(Symbols) /\ Escape(c) \in Seq(Symbols)
      /\ Escaped(t) \in Seq(Symbols) /\ Escaped(r) \in Seq(Symbols)
  BY <1>2, EscapedIs, EscapeType DEF Texts
<1> DEFINE a == Escaped(s)
           b == Escape(c)
           d == Escaped(r)
<1>8. /\ Len(a) \in Nat /\ Len(b) \in Nat /\ Len(d) \in Nat
      /\ Len(a \o b) = Len(a) + Len(b)
      /\ \A i \in 1 .. Len(a) + Len(b) : (a \o b)[i] = IF i <= Len(a) THEN a[i] ELSE b[i - Len(a)]
  BY <1>7, ConcatProperties, LenProperties
<1>9. /\ Len((a \o b) \o d) = Len(a \o b) + Len(d)
      /\ \A i \in 1 .. Len(a \o b) + Len(d) :
           ((a \o b) \o d)[i] = IF i <= Len(a \o b) THEN (a \o b)[i] ELSE d[i - Len(a \o b)]
  BY <1>6, <1>7, ConcatProperties
<1>10. Escaped(text) = (a \o b) \o d /\ Escaped(t) = a \o b
  BY <1>5, <1>6
<1> HIDE DEF a, b, d
<1>11. ASSUME NEW j \in 1 .. Len(b)
       PROVE  ((a \o b) \o d)[Len(a) + j] = b[j]
  <2>1. /\ Len(a) + j \in 1 .. Len(a) + Len(b) /\ ~ (Len(a) + j <= Len(a))
        /\ (Len(a) + j) - Len(a) = j /\ Len(a) + j \in 1 .. Len(a \o b) + Len(d)
        /\ Len(a) + j <= Len(a \o b)
    BY <1>8
  <2>2. ((a \o b) \o d)[Len(a) + j] = (a \o b)[Len(a) + j]
    BY <1>9, <2>1
  <2>3. (a \o b)[Len(a) + j] = b[j]
    BY <1>8, <2>1
  <2> QED
    BY <2>2, <2>3
<1>12. Len(a) + Len(b) <= Len(Escaped(text))
  BY <1>8, <1>9, <1>10
<1>13. Len(Escaped(t)) = Len(a) + Len(b)
  BY <1>8, <1>10
<1> QED
  BY <1>8, <1>10, <1>11, <1>12, <1>13 DEF a, b, s, t, c

(* lox_decode_kv_value_n takes back every escape of lox_encode_kv_value. *)
LEMMA UnescapedEscaped ==
  ASSUME NEW text \in Texts
  PROVE  Unescaped(Escaped(text)) = text
<1> DEFINE n == Len(text)
           e == Escaped(text)
           p(k) == Len(Escaped(SubSeq(text, 1, k)))
<1>1. n \in Nat /\ text \in Seq(Symbols) /\ e \in Texts /\ Len(e) \in Nat
  BY EscapedIs DEF Texts
<1>2. PICK f : /\ \A i \in 1 .. Len(e) + 1 : f[i] = UnescapedBody(e, f, i)
               /\ Unescaped(e) = f[1]
  BY <1>1, UnescapedSteps
<1>3. \A k \in 0 .. n - 1 :
        /\ p(k) \in Nat /\ p(k) + Len(Escape(text[k + 1])) <= Len(e)
        /\ p(k + 1) = p(k) + Len(Escape(text[k + 1]))
        /\ \A j \in 1 .. Len(Escape(text[k + 1])) : e[p(k) + j] = Escape(text[k + 1])[j]
  BY EscapedAt
<1>4. p(n) = Len(e)
  BY <1>1, SubSeqFull
<1>5. p(0) = 0
  BY SubSeqNone, EscapedIs, EmptySeq
<1> HIDE DEF e, p
<1> DEFINE T == {m \in 0 .. n : f[p(n - m) + 1] = SubSeq(text, n - m + 1, n)}
<1>6. 0 \in T
  <2>1. SubSeq(text, n + 1, n) = <<>>
    BY <1>1, SubSeqEmpty
  <2>2. f[Len(e) + 1] = UnescapedBody(e, f, Len(e) + 1)
    BY <1>1, <1>2
  <2>3. UnescapedBody(e, f, Len(e) + 1) = <<>>
    BY <1>1 DEF UnescapedBody
  <2>4. n - 0 = n /\ 0 \in 0 .. n
    BY <1>1
  <2> QED
    BY <1>4, <2>1, <2>2, <2>3, <2>4
<1>7. ASSUME NEW m \in 0 .. n - 1, m \in T
      PROVE  m + 1 \in T
  <2> DEFINE k == n - (m + 1)
             c == text[k + 1]
             q == p(k)
  <2>1. k \in 0 .. n - 1 /\ k + 1 = n - m /\ m + 1 \in 0 .. n /\ k + 1 \in 1 .. n
    BY <1>1
  <2>2. c \in Symbols
    BY <1>1, <2>1
  <2>3. /\ q \in Nat /\ q + Len(Escape(c)) <= Len(e)
        /\ p(k + 1) = q + Len(Escape(c))
        /\ \A j \in 1 .. Len(Escape(c)) : e[q + j] = Escape(c)[j]
    BY <1>3, <2>1
  <2>4. f[p(k + 1) + 1] = SubSeq(text, k + 2, n)
    <3>1. f[p(n - m) + 1] = SubSeq(text, n - m + 1, n)
      BY <1>7
    <3>2. n - m + 1 = k + 2
      BY <1>1
    <3> QED
      BY <2>1, <3>1, <3>2
  <2>5. SubSeq(text, k + 1, n) = <<c>> \o SubSeq(text, k + 2, n)
    <3>1. SubSeq(text, k + 1, n) = <<text[k + 1]>> \o SubSeq(text, (k + 1) + 1, n)
      <4>1. k + 1 \in 1 .. Len(text) /\ n \in k + 1 .. Len(text)
        BY <1>1, <2>1
      <4> QED
        BY <1>1, <4>1, SubSeqRecursiveFirst
    <3>2. (k + 1) + 1 = k + 2
      BY <2>1
    <3> QED
      BY <3>1, <3>2
  <2> HIDE DEF k, c, q
  <2>6. Len(Escape(c)) \in 1 .. 3
    BY <2>2, EscapeType
  <2>7. q + 1 \in 1 .. Len(e) /\ q + 1 \in 1 .. Len(e) + 1
    <3>1. q \in Nat /\ q + Len(Escape(c)) <= Len(e) /\ Len(e) \in Nat
      BY <1>1, <2>3
    <3> DEFINE l == Len(Escape(c))
               m1 == Len(e)
    <3>2. l \in 1 .. 3 /\ q + l <= m1 /\ q \in Nat /\ m1 \in Nat
      BY <2>6, <3>1
    <3> HIDE DEF l, m1
    <3>3. q + 1 \in 1 .. m1 /\ q + 1 \in 1 .. m1 + 1
      BY <3>2
    <3> QED
      BY <3>3 DEF m1
  <2>8. f[q + 1] = UnescapedBody(e, f, q + 1)
    BY <1>2, <2>7
  <2>9. f[q + 1] = <<c>> \o f[p(k + 1) + 1]
    <3>1. CASE c \notin Reserved /\ Escape(c) = <<c>>
      <4>1. Len(Escape(c)) = 1 /\ Escape(c)[1] = c
        BY <3>1, TupleIs
      <4>2. e[q + 1] = c /\ p(k + 1) = q + 1
        BY <2>3, <4>1
      <4>3. c # "%"
        BY <3>1 DEF Reserved
      <4>4. ~ EscapeAt(e, q + 1)
        BY <4>2, <4>3 DEF EscapeAt
      <4>5. ~ (q + 1 > Len(e)) /\ (q + 1) + 1 = p(k + 1) + 1
        BY <1>1, <2>3, <2>7, <4>2
      <4>6. UnescapedBody(e, f, q + 1) = <<e[q + 1]>> \o f[(q + 1) + 1]
        BY <4>4, <4>5 DEF UnescapedBody
      <4> QED
        BY <2>8, <4>2, <4>5, <4>6
    <3>2. ASSUME NEW a \in HexDigits, NEW b \in HexDigits,
                 Escape(c) = <<"%", a, b>>, ByteOf(<<a, b>>) = c
          PROVE  f[q + 1] = <<c>> \o f[p(k + 1) + 1]
      <4>1. Len(Escape(c)) = 3 /\ Escape(c)[1] = "%" /\ Escape(c)[2] = a /\ Escape(c)[3] = b
        BY <3>2, TupleIs
      <4>2. e[q + 1] = "%" /\ e[q + 2] = a /\ e[q + 3] = b /\ p(k + 1) = q + 3 /\ q + 3 <= Len(e)
        BY <2>3, <4>1
      <4>3. (q + 1) + 1 = q + 2 /\ (q + 1) + 2 = q + 3 /\ (q + 1) + 3 = p(k + 1) + 1
        BY <2>3, <4>2
      <4>4. EscapeAt(e, q + 1)
        BY <4>2, <4>3 DEF EscapeAt
      <4>5. SubSeq(e, (q + 1) + 1, (q + 1) + 2) = <<a, b>>
        <5>1. SubSeq(e, q + 2, q + 3) \in Seq(Symbols) /\ Len(SubSeq(e, q + 2, q + 3)) = 2
              /\ SubSeq(e, q + 2, q + 3)[1] = e[q + 2] /\ SubSeq(e, q + 2, q + 3)[2] = e[q + 3]
          <6>1. e \in Seq(Symbols) /\ q \in Nat /\ q + 3 <= Len(e)
            BY <1>1, <2>3, <4>2 DEF Texts
          <6>2. \A i \in q + 2 .. q + 3 : e[i] \in Symbols
            <7>1. \A i \in q + 2 .. q + 3 : i \in 1 .. Len(e)
              BY <6>1
            <7> QED
              BY <6>1, <7>1, ElementOfSeq
          <6>3. q + 2 \in Int /\ q + 3 \in Int /\ q + 2 <= q + 3 /\ (q + 3) - (q + 2) + 1 = 2
                /\ (q + 2) + 1 - 1 = q + 2 /\ (q + 2) + 2 - 1 = q + 3
            BY <6>1
          <6>4. /\ SubSeq(e, q + 2, q + 3) \in Seq(Symbols)
                /\ Len(SubSeq(e, q + 2, q + 3)) = (q + 3) - (q + 2) + 1
                /\ \A i \in 1 .. (q + 3) - (q + 2) + 1 :
                     SubSeq(e, q + 2, q + 3)[i] = e[(q + 2) + i - 1]
            BY <6>2, <6>3, SubSeqProperties
          <6>5. 1 \in 1 .. (q + 3) - (q + 2) + 1 /\ 2 \in 1 .. (q + 3) - (q + 2) + 1
            BY <6>3
          <6>6. SubSeq(e, q + 2, q + 3)[1] = e[(q + 2) + 1 - 1] /\ SubSeq(e, q + 2, q + 3)[2] = e[(q + 2) + 2 - 1]
            BY <6>4, <6>5
          <6> QED
            BY <6>3, <6>4, <6>6
        <5>2. <<a, b>> \in Seq(Symbols) /\ Len(<<a, b>>) = 2 /\ <<a, b>>[1] = a /\ <<a, b>>[2] = b
          BY HexIs, TupleIs, TupleType
        <5>3. \A i \in 1 .. 2 : i = 1 \/ i = 2
          OBVIOUS
        <5>4. SubSeq(e, q + 2, q + 3) = <<a, b>>
          BY <4>2, <5>1, <5>2, <5>3, SeqEqual
        <5> QED
          BY <4>3, <5>4
      <4>6. ~ (q + 1 > Len(e))
        BY <1>1, <2>3, <4>2
      <4>7. UnescapedBody(e, f, q + 1) = <<ByteOf(SubSeq(e, (q + 1) + 1, (q + 1) + 2))>> \o f[(q + 1) + 3]
        BY <4>4, <4>6 DEF UnescapedBody
      <4> QED
        BY <2>8, <3>2, <4>3, <4>5, <4>7
    <3> QED
      BY <2>2, <3>1, <3>2, EscapeIs
  <2>10. f[p(k) + 1] = SubSeq(text, k + 1, n)
    BY <2>4, <2>5, <2>9 DEF q
  <2> QED
    BY <2>1, <2>10 DEF k
<1> HIDE DEF T
<1>8. 0 .. n \subseteq T
  BY <1>1, <1>6, <1>7, UpTo
<1>9. f[p(0) + 1] = SubSeq(text, 1, n)
  <2>1. n \in T /\ n - n = 0 /\ n - n + 1 = 1
    BY <1>1, <1>8
  <2> QED
    BY <2>1 DEF T
<1> QED
  BY <1>1, <1>2, <1>5, <1>9, SubSeqFull DEF e

-----------------------------------------------------------------------------
(* Names in a field. *)

(* What never separates anything. *)
Plain == Symbols \ {",", "NL", "CR"}

(* An escaped text has no separator in it. *)
LEMMA EscapedPlain ==
  ASSUME NEW text \in Texts
  PROVE  Escaped(text) \in Seq(Plain) /\ Len(text) <= Len(Escaped(text))
<1> DEFINE T == {t \in Texts : Escaped(t) \in Seq(Plain) /\ Len(t) <= Len(Escaped(t))}
<1>1. <<>> \in T
  <2>1. <<>> \in Seq(Symbols) /\ <<>> \in Seq(Plain) /\ Len(<<>>) <= Len(<<>>)
    BY EmptySeq
  <2> QED
    BY <2>1, EscapedIs DEF Texts
<1>2. ASSUME NEW t \in Seq(Symbols), NEW c \in Symbols, t \in T
      PROVE  Append(t, c) \in T
  <2>1. Escape(c) \in Seq(Plain) /\ Len(Escape(c)) \in 1 .. 3
    <3>1. CASE c \notin Reserved /\ Escape(c) = <<c>>
      <4>1. c \in Plain
        BY <3>1 DEF Plain, Reserved
      <4> QED
        BY <3>1, <4>1, TupleType, EscapeType
    <3>2. ASSUME NEW a \in HexDigits, NEW b \in HexDigits, Escape(c) = <<"%", a, b>>
          PROVE  Escape(c) \in Seq(Plain) /\ Len(Escape(c)) \in 1 .. 3
      <4>1. a \in Plain /\ b \in Plain
        BY HexIs DEF Plain
      <4>2. "%" \in Plain
        BY HexIs DEF Plain, Reserved
      <4> QED
        BY <3>2, <4>1, <4>2, TupleType, EscapeType
    <3> QED
      BY <3>1, <3>2, EscapeIs
  <2>2. Escaped(Append(t, c)) = Escaped(t) \o Escape(c)
    BY EscapedIs
  <2>3. Escaped(t) \in Seq(Plain) /\ Len(t) <= Len(Escaped(t)) /\ Len(t) \in Nat
    BY <1>2
  <2> DEFINE a == Escaped(t)
             b == Escape(c)
  <2> HIDE DEF a, b
  <2>4. a \in Seq(Plain) /\ b \in Seq(Plain) /\ Len(b) \in 1 .. 3 /\ Len(t) <= Len(a) /\ Len(t) \in Nat
    BY <2>1, <2>3 DEF a, b
  <2>5. a \o b \in Seq(Plain) /\ Len(a \o b) = Len(a) + Len(b) /\ Len(a) \in Nat
    BY <2>4, ConcatProperties, LenProperties
  <2>6. Len(Append(t, c)) = Len(t) + 1 /\ Append(t, c) \in Texts
    BY AppendProperties DEF Texts
  <2>7. Len(t) + 1 <= Len(a \o b)
    <3> DEFINE x == Len(t)
               y == Len(a)
               z == Len(b)
    <3>1. x \in Nat /\ y \in Nat /\ z \in 1 .. 3 /\ x <= y /\ Len(a \o b) = y + z
      BY <2>4, <2>5
    <3> HIDE DEF x, y, z
    <3> QED
      BY <3>1 DEF x
  <2> QED
    BY <2>2, <2>5, <2>6, <2>7 DEF a, b
<1> HIDE DEF T
<1>3. Seq(Symbols) \subseteq T
  BY <1>1, <1>2, SeqsFollow
<1> QED
  BY <1>3 DEF T, Texts

(* The largest of a bounded set of numbers. *)
LEMMA MaxIs ==
  ASSUME NEW n \in Nat, NEW S \in SUBSET (0 .. n), S # {}
  PROVE  Max(S) \in S /\ \A y \in S : Max(S) >= y
<1> DEFINE Has(R) == \E x \in R : \A y \in R : x >= y
           T == {m \in 0 .. n : \A R \in SUBSET (0 .. m) : R # {} => Has(R)}
<1>1. 0 \in T
  <2>1. ASSUME NEW R \in SUBSET (0 .. 0), R # {}
        PROVE  Has(R)
    <3>1. \A y \in R : y = 0
      OBVIOUS
    <3>2. 0 \in R
      BY <2>1, <3>1
    <3>3. \A y \in R : 0 >= y
      BY <3>1
    <3> QED
      BY <3>2, <3>3
  <2> QED
    BY <2>1
<1>2. ASSUME NEW m \in 0 .. n - 1, m \in T
      PROVE  m + 1 \in T
  <2> SUFFICES ASSUME NEW R \in SUBSET (0 .. m + 1), R # {}
               PROVE  Has(R)
    OBVIOUS
  <2>1. CASE m + 1 \in R
    <3>1. \A y \in R : m + 1 >= y
      OBVIOUS
    <3> QED
      BY <2>1, <3>1
  <2>2. CASE m + 1 \notin R
    <3>1. R \in SUBSET (0 .. m)
      BY <2>2
    <3> QED
      BY <1>2, <3>1
  <2> QED
    BY <2>1, <2>2
<1> HIDE DEF T
<1>3. 0 .. n \subseteq T
  BY <1>1, <1>2, UpTo
<1>4. n \in T
  BY <1>3
<1>5. Has(S)
  BY <1>4 DEF T
<1> QED
  BY <1>5 DEF Max

(* As many whole characters as fit, one at least. *)
LEMMA EncodedIs ==
  ASSUME NEW text \in Texts
  PROVE  \E k \in 0 .. Len(text) :
           /\ Encoded(text) = Escaped(SubSeq(text, 1, k))
           /\ Len(Encoded(text)) <= FieldMax
           /\ Len(Escaped(text)) <= FieldMax => k = Len(text)
           /\ text # <<>> => k > 0
<1> DEFINE n == Len(text)
           fitting == {k \in 0 .. n : Len(Escaped(SubSeq(text, 1, k))) <= FieldMax}
           k == Max(fitting)
<1>1. n \in Nat /\ text \in Seq(Symbols)
  BY DEF Texts
<1>2. 0 \in fitting
  <2>1. Len(Escaped(SubSeq(text, 1, 0))) = 0
    BY SubSeqNone, EscapedIs, EmptySeq
  <2> QED
    BY <1>1, <2>1, LineFormatAssumption
<1>3. fitting \in SUBSET (0 .. n)
  OBVIOUS
<1>4. k \in fitting /\ \A y \in fitting : k >= y
  <2>1. fitting # {}
    BY <1>2
  <2> HIDE DEF fitting
  <2> QED
    BY <1>1, <1>3, <2>1, MaxIs
<1>5. Encoded(text) = Escaped(SubSeq(text, 1, k))
  BY DEF Encoded
<1> HIDE DEF k
<1>6. k \in 0 .. n /\ Len(Escaped(SubSeq(text, 1, k))) <= FieldMax
  BY <1>4
<1>7. Len(Escaped(text)) <= FieldMax => k = n
  <2> SUFFICES ASSUME Len(Escaped(text)) <= FieldMax PROVE k = n
    OBVIOUS
  <2>1. SubSeq(text, 1, n) = text
    BY <1>1, SubSeqFull
  <2>2. n \in fitting
    <3>1. n \in 0 .. n
      BY <1>1
    <3>2. Len(Escaped(SubSeq(text, 1, n))) <= FieldMax
      BY <2>1
    <3> QED
      BY <3>1, <3>2
  <2>3. k >= n
    BY <1>4, <2>2
  <2> QED
    BY <1>1, <1>6, <2>3
<1>8. text # <<>> => k > 0
  <2> SUFFICES ASSUME text # <<>> PROVE k > 0
    OBVIOUS
  <2>1. n >= 1 /\ text[1] \in Symbols
    <3>1. n # 0
      BY <1>1, EmptySeq
    <3> QED
      BY <1>1, <3>1
  <2>2. SubSeq(text, 1, 1) = Append(<<>>, text[1])
    <3>1. SubSeq(text, 1, 1) = Append(SubSeq(text, 1, 0), text[1])
      BY <1>1, <2>1
    <3> QED
      BY <3>1, SubSeqNone
  <2>3. Escaped(SubSeq(text, 1, 1)) = <<>> \o Escape(text[1])
    <3>1. <<>> \in Seq(Symbols)
      BY EmptySeq
    <3> QED
      BY <2>1, <2>2, <3>1, EscapedIs
  <2>4. <<>> \o Escape(text[1]) = Escape(text[1])
    BY <2>1, EscapeType, ConcatEmptySeq DEF Texts
  <2>5. Len(Escape(text[1])) \in 1 .. 3
    BY <2>1, EscapeType
  <2>6. 1 \in fitting
    <3>1. Len(Escaped(SubSeq(text, 1, 1))) \in 1 .. 3
      BY <2>3, <2>4, <2>5
    <3>2. 1 \in 0 .. n
      BY <1>1, <2>1
    <3>3. FieldMax \in Nat /\ FieldMax >= 3
      BY LineFormatAssumption
    <3> DEFINE l == Len(Escaped(SubSeq(text, 1, 1)))
    <3>4. l <= FieldMax
      <4> HIDE DEF l
      <4>1. l \in 1 .. 3
        BY <3>1 DEF l
      <4> QED
        BY <3>3, <4>1
    <3> QED
      BY <3>2, <3>4
  <2>7. k >= 1
    BY <1>4, <2>6
  <2> QED
    BY <1>6, <2>7
<1> QED
  BY <1>5, <1>6, <1>7, <1>8

(* A beginning, by element. *)
LEMMA PrefixIs ==
  ASSUME NEW S, NEW s \in Seq(S), NEW t \in Seq(S)
  PROVE  IsPrefix(s, t) <=> Len(s) <= Len(t) /\ \A i \in 1 .. Len(s) : s[i] = t[i]
<1>1. Len(s) \in Nat /\ Len(t) \in Nat /\ SubSeq(s, 1, Len(s)) = s
  BY LenProperties, SubSeqFull
<1>2. ASSUME Len(s) <= Len(t)
      PROVE  /\ SubSeq(t, 1, Len(s)) \in Seq(S)
             /\ Len(SubSeq(t, 1, Len(s))) = Len(s)
             /\ \A i \in 1 .. Len(s) : SubSeq(t, 1, Len(s))[i] = t[i]
  BY <1>1, <1>2
<1>3. ASSUME Len(s) <= Len(t), \A i \in 1 .. Len(s) : s[i] = t[i]
      PROVE  s = SubSeq(t, 1, Len(s))
  <2> DEFINE u == SubSeq(t, 1, Len(s))
  <2>1. u \in Seq(S) /\ Len(u) = Len(s) /\ \A i \in 1 .. Len(s) : u[i] = s[i]
    BY <1>2, <1>3
  <2> HIDE DEF u
  <2>2. u = s
    BY <2>1, SeqEqual
  <2> QED
    BY <2>2 DEF u
<1>4. ASSUME IsPrefix(s, t)
      PROVE  Len(s) <= Len(t) /\ \A i \in 1 .. Len(s) : s[i] = t[i]
  <2>1. Len(s) <= Len(t) /\ s = SubSeq(t, 1, Len(s))
    BY <1>1, <1>4 DEF IsPrefix
  <2> QED
    BY <1>2, <2>1
<1> QED
  BY <1>1, <1>3, <1>4 DEF IsPrefix

(* The first k elements are a beginning. *)
LEMMA SubSeqPrefix ==
  ASSUME NEW S, NEW t \in Seq(S), NEW k \in 0 .. Len(t)
  PROVE  /\ SubSeq(t, 1, k) \in Seq(S) /\ Len(SubSeq(t, 1, k)) = k
         /\ IsPrefix(SubSeq(t, 1, k), t)
<1>1. SubSeq(t, 1, k) \in Seq(S) /\ Len(SubSeq(t, 1, k)) = k
      /\ \A i \in 1 .. k : SubSeq(t, 1, k)[i] = t[i]
  OBVIOUS
<1> DEFINE s == SubSeq(t, 1, k)
<1>2. s \in Seq(S) /\ Len(s) <= Len(t) /\ \A i \in 1 .. Len(s) : s[i] = t[i]
  BY <1>1
<1> HIDE DEF s
<1>3. IsPrefix(s, t)
  BY <1>2, PrefixIs
<1> QED
  BY <1>1, <1>3 DEF s

Strings == Seq(Symbols \ {"NUL"})

(* A string is a text. *)
LEMMA StringsAreTexts == Strings \subseteq Texts
<1>1. Symbols \ {"NUL"} \subseteq Symbols
  OBVIOUS
<1> QED
  BY <1>1, SeqMonotonic DEF Strings, Texts

(* What is decoded of what was encoded: the beginning that fitted. *)
LEMMA DecodedEncoded ==
  ASSUME NEW text \in Strings
  PROVE  LET back == Decoded(Encoded(text)) IN
         /\ back \in Strings /\ IsPrefix(back, text) /\ Len(back) <= FieldMax
         /\ Len(Escaped(text)) <= FieldMax => back = text
         /\ IsText(Encoded(text)) <=> text # <<>>
<1> DEFINE value == Encoded(text)
           back == Decoded(value)
<1>1. text \in Texts /\ text \in Seq(Symbols \ {"NUL"})
  BY StringsAreTexts DEF Strings
<1>2. PICK k \in 0 .. Len(text) :
         /\ value = Escaped(SubSeq(text, 1, k))
         /\ Len(value) <= FieldMax
         /\ Len(Escaped(text)) <= FieldMax => k = Len(text)
         /\ text # <<>> => k > 0
  BY <1>1, EncodedIs
<1> DEFINE s == SubSeq(text, 1, k)
<1>3. s \in Strings /\ Len(s) = k /\ IsPrefix(s, text)
  BY <1>1, SubSeqPrefix DEF Strings
<1>4. s \in Texts
  BY <1>3, StringsAreTexts
<1>5. Unescaped(value) = s
  BY <1>2, <1>4, UnescapedEscaped
<1>6. Len(s) <= Len(value)
  BY <1>2, <1>4, EscapedPlain
<1>7. value \in Texts /\ Len(value) \in Nat /\ k \in Nat
  <2>1. value \in Texts
    BY <1>2, <1>4, EscapedIs DEF Texts
  <2>2. Len(value) \in Nat
    BY <2>1, LenProperties DEF Texts
  <2>3. k \in Nat
    BY <1>1, LenProperties
  <2> QED
    BY <2>1, <2>2, <2>3
<1> HIDE DEF value, s
<1>8. Len(s) <= FieldMax
  <2> DEFINE x == Len(s)
             y == Len(value)
  <2>1. x \in Nat /\ y \in Nat /\ x <= y /\ y <= FieldMax /\ FieldMax \in Nat
    BY <1>2, <1>3, <1>6, <1>7, LineFormatAssumption
  <2> HIDE DEF x, y
  <2>2. x <= FieldMax
    BY <2>1
  <2> QED
    BY <2>2 DEF x
<1>9. back = s
  BY <1>5, <1>8 DEF Decoded, Cut
<1>10. Len(Escaped(text)) <= FieldMax => back = text
  <2>1. SubSeq(text, 1, Len(text)) = text
    BY <1>1, SubSeqFull
  <2> QED
    BY <1>2, <1>9, <2>1 DEF s
<1>11. "NUL" \notin ToSet(back)
  <2>1. \A i \in DOMAIN s : s[i] # "NUL"
    BY <1>3 DEF Strings
  <2> QED
    BY <1>9, <2>1 DEF ToSet
<1>12. text # <<>> => value # <<>>
  <2> SUFFICES ASSUME text # <<>> PROVE value # <<>>
    OBVIOUS
  <2>1. Len(s) > 0
    BY <1>2, <1>3
  <2>2. Len(value) > 0
    <3> DEFINE x == Len(s)
               y == Len(value)
    <3>1. x \in Nat /\ y \in Nat /\ x <= y /\ x > 0
      BY <1>3, <1>6, <1>7, <2>1
    <3> HIDE DEF x, y
    <3>2. y > 0
      BY <3>1
    <3> QED
      BY <3>2 DEF y
  <2> QED
    BY <2>2, EmptySeq
<1>13. text = <<>> => value = <<>>
  <2> SUFFICES ASSUME text = <<>> PROVE value = <<>>
    OBVIOUS
  <2>1. Len(text) = 0
    BY EmptySeq
  <2>2. k = 0
    BY <1>2, <2>1
  <2>3. s = <<>>
    BY <2>2, SubSeqNone DEF s
  <2> QED
    BY <1>2, <2>3, EscapedIs DEF s
<1>14. IsText(value) <=> text # <<>>
  BY <1>11, <1>12, <1>13 DEF IsText
<1> QED
  BY <1>3, <1>8, <1>9, <1>10, <1>14 DEF value

(* A field's value has no separator in it. *)
LEMMA EncodedPlain ==
  ASSUME NEW text \in Texts
  PROVE  Encoded(text) \in Seq(Plain)
<1>1. PICK k \in 0 .. Len(text) : Encoded(text) = Escaped(SubSeq(text, 1, k))
  BY EncodedIs
<1>2. SubSeq(text, 1, k) \in Texts
  BY SubSeqPrefix DEF Texts
<1> QED
  BY <1>1, <1>2, EscapedPlain

-----------------------------------------------------------------------------
(* Decimal numbers. *)

DecimalBody(f, k) ==
  IF k < 10 THEN <<Digits[k + 1]>> ELSE Append(f[k \div 10], Digits[(k % 10) + 1])

Numerals == Seq(DigitSymbols)

(* A number is ten times its other digits, and its last. *)
LEMMA TenTimes ==
  ASSUME NEW k \in Nat
  PROVE  /\ k \div 10 \in Nat /\ k % 10 \in 0 .. 9
         /\ k = 10 * (k \div 10) + (k % 10)
         /\ k >= 10 => k \div 10 < k /\ k \div 10 > 0
OBVIOUS

(* There is a function that writes numbers digit by digit. *)
LEMMA DecimalExists ==
  ASSUME NEW n \in Nat
  PROVE  \E f \in [0 .. n -> Numerals] : \A k \in 0 .. n : f[k] = DecimalBody(f, k)
<1> DEFINE Good(f, m) == \A k \in 0 .. m : f[k] = DecimalBody(f, k)
           T == {m \in 0 .. n : \E f : f \in [0 .. n -> Numerals] /\ Good(f, m)}
<1>1. \A d \in 0 .. 9 : Digits[d + 1] \in DigitSymbols
  BY DigitOfIs
<1>2. 0 \in T
  <2> DEFINE f == [i \in 0 .. n |-> <<Digits[0 + 1]>>]
  <2>1. <<Digits[0 + 1]>> \in Numerals
    BY <1>1, TupleType DEF Numerals
  <2>2. f \in [0 .. n -> Numerals]
    BY <2>1
  <2>3. Good(f, 0)
    BY DEF DecimalBody
  <2> HIDE DEF f, Good
  <2> QED
    BY <2>2, <2>3
<1>3. ASSUME NEW m \in 0 .. n - 1, m \in T
      PROVE  m + 1 \in T
  <2>1. PICK f : f \in [0 .. n -> Numerals] /\ Good(f, m)
    BY <1>3
  <2> DEFINE j == m + 1
             w == DecimalBody(f, j)
             g == [f EXCEPT ![j] = w]
  <2>2. j \in 0 .. n /\ j \in Nat
    OBVIOUS
  <2>3. w \in Numerals
    <3>1. CASE j < 10
      <4>1. j \in 0 .. 9
        BY <2>2, <3>1
      <4>2. w = <<Digits[j + 1]>>
        BY <3>1 DEF DecimalBody
      <4>3. Digits[j + 1] \in DigitSymbols
        BY <1>1, <4>1
      <4> QED
        BY <4>2, <4>3, TupleType DEF Numerals
    <3>2. CASE ~ (j < 10)
      <4>1. j \div 10 \in 0 .. n /\ j % 10 \in 0 .. 9
        BY <2>2, <3>2, TenTimes
      <4>2. f[j \div 10] \in Numerals /\ Digits[(j % 10) + 1] \in DigitSymbols
        BY <1>1, <2>1, <4>1
      <4>3. w = Append(f[j \div 10], Digits[(j % 10) + 1])
        BY <3>2 DEF DecimalBody
      <4> QED
        BY <4>2, <4>3, AppendProperties DEF Numerals
    <3> QED
      BY <3>1, <3>2
  <2> HIDE DEF w
  <2>4. /\ g \in [0 .. n -> Numerals] /\ g[j] = w
        /\ \A i \in 0 .. n : i # j => g[i] = f[i]
    BY <2>1, <2>2, <2>3
  <2> HIDE DEF g
  <2>5. ASSUME NEW i \in 0 .. j
        PROVE  DecimalBody(g, i) = DecimalBody(f, i)
    <3>1. CASE i < 10
      BY <3>1 DEF DecimalBody
    <3>2. CASE ~ (i < 10)
      <4>1. i \div 10 \in 0 .. n /\ i \div 10 # j
        BY <2>2, <3>2, TenTimes
      <4>2. g[i \div 10] = f[i \div 10]
        BY <2>4, <4>1
      <4> QED
        BY <3>2, <4>2 DEF DecimalBody
    <3> QED
      BY <3>1, <3>2
  <2>6. ASSUME NEW i \in 0 .. j
        PROVE  g[i] = DecimalBody(g, i)
    <3>1. DecimalBody(g, i) = DecimalBody(f, i)
      BY <2>5
    <3>2. CASE i = j
      BY <2>4, <3>1, <3>2 DEF w
    <3>3. CASE i # j
      <4>1. i \in 0 .. m /\ i \in 0 .. n
        BY <2>2, <3>3
      <4>2. f[i] = DecimalBody(f, i)
        BY <2>1, <4>1
      <4> QED
        BY <2>4, <3>1, <3>3, <4>1, <4>2
    <3> QED
      BY <3>2, <3>3
  <2>7. Good(g, m + 1)
    BY <2>6
  <2> HIDE DEF Good
  <2> QED
    BY <2>2, <2>4, <2>7
<1> HIDE DEF T
<1>4. 0 .. n \subseteq T
  BY <1>2, <1>3, UpTo
<1>5. n \in T
  BY <1>4
<1> QED
  BY <1>5 DEF T

(* Any two computations of it agree. *)
LEMMA DecimalOnce ==
  ASSUME NEW n \in Nat, NEW f, NEW g,
         \A k \in 0 .. n : f[k] = DecimalBody(f, k), \A k \in 0 .. n : g[k] = DecimalBody(g, k)
  PROVE  f[n] = g[n]
<1> DEFINE T == {m \in 0 .. n : \A k \in 0 .. m : f[k] = g[k]}
<1>1. 0 \in T
  <2>1. f[0] = g[0]
    <3>1. 0 \in 0 .. n /\ 0 < 10
      OBVIOUS
    <3>2. DecimalBody(f, 0) = <<Digits[0 + 1]>> /\ DecimalBody(g, 0) = <<Digits[0 + 1]>>
      BY <3>1, Zenon DEF DecimalBody
    <3> QED
      BY <3>1, <3>2, Zenon
  <2> QED
    BY <2>1
<1>2. ASSUME NEW m \in 0 .. n - 1, m \in T
      PROVE  m + 1 \in T
  <2>1. m + 1 \in 0 .. n /\ m + 1 \in Nat
    OBVIOUS
  <2>2. f[m + 1] = DecimalBody(f, m + 1) /\ g[m + 1] = DecimalBody(g, m + 1)
    BY <2>1
  <2>3. DecimalBody(f, m + 1) = DecimalBody(g, m + 1)
    <3>1. CASE m + 1 < 10
      BY <3>1 DEF DecimalBody
    <3>2. CASE ~ (m + 1 < 10)
      <4>1. (m + 1) \div 10 \in 0 .. m
        BY <2>1, <3>2, TenTimes
      <4>2. f[(m + 1) \div 10] = g[(m + 1) \div 10]
        BY <1>2, <4>1
      <4> QED
        BY <3>2, <4>2 DEF DecimalBody
    <3> QED
      BY <3>1, <3>2
  <2>4. \A k \in 0 .. m + 1 : k \in 0 .. m \/ k = m + 1
    OBVIOUS
  <2>5. \A k \in 0 .. m : f[k] = g[k]
    BY <1>2
  <2>6. \A k \in 0 .. m + 1 : f[k] = g[k]
    BY <2>2, <2>3, <2>4, <2>5
  <2> QED
    BY <2>1, <2>6
<1> HIDE DEF T
<1>3. 0 .. n \subseteq T
  BY <1>1, <1>2, UpTo
<1>4. n \in T /\ n \in 0 .. n
  BY <1>3
<1> QED
  BY <1>4 DEF T

(* Decimal is such a function. *)
LEMMA DecimalRuns ==
  ASSUME NEW n \in Nat
  PROVE  \E g : Decimal(n) = g[n] /\ \A k \in 0 .. n : g[k] = DecimalBody(g, k)
<1> DEFINE Of(h) == [k \in 0 .. n |-> DecimalBody(h, k)]
           g == CHOOSE h : h = Of(h)
<1>1. \E h : h = Of(h)
  <2>1. PICK f \in [0 .. n -> Numerals] : \A k \in 0 .. n : f[k] = DecimalBody(f, k)
    BY DecimalExists
  <2>2. f = [k \in 0 .. n |-> f[k]]
    OBVIOUS
  <2>3. f = Of(f)
    BY <2>1, <2>2, Zenon
  <2> QED
    BY <2>3, Zenon
<1>2. g = Of(g)
  BY <1>1, Zenon
<1>3. Decimal(n) = g[n]
  BY Zenon DEF Decimal, DecimalBody
<1> HIDE DEF g
<1>4. \A k \in 0 .. n : g[k] = DecimalBody(g, k)
  BY <1>2, Zenon
<1> QED
  BY <1>3, <1>4, Zenon

(* The numeral of a number is that of its tenth with one digit more. *)
LEMMA DecimalIs ==
  ASSUME NEW n \in Nat
  PROVE  /\ n < 10 => Decimal(n) = <<Digits[n + 1]>>
         /\ n >= 10 => Decimal(n) = Append(Decimal(n \div 10), Digits[(n % 10) + 1])
         /\ Decimal(n) \in Numerals
<1>1. PICK g : Decimal(n) = g[n] /\ \A k \in 0 .. n : g[k] = DecimalBody(g, k)
  BY DecimalRuns
<1>2. n \in 0 .. n
  OBVIOUS
<1>3. n < 10 => Decimal(n) = <<Digits[n + 1]>>
  BY <1>1, <1>2 DEF DecimalBody
<1>4. ASSUME n >= 10
      PROVE  Decimal(n) = Append(Decimal(n \div 10), Digits[(n % 10) + 1])
  <2> DEFINE m == n \div 10
  <2>1. m \in Nat /\ m \in 0 .. n /\ \A k \in 0 .. m : k \in 0 .. n
    BY <1>4, TenTimes
  <2>2. g[n] = Append(g[m], Digits[(n % 10) + 1])
    <3>1. ~ (n < 10)
      BY <1>4
    <3>2. g[n] = DecimalBody(g, n)
      BY <1>1, <1>2, Zenon
    <3> QED
      BY <3>1, <3>2, Zenon DEF DecimalBody
  <2> HIDE DEF m
  <2>3. PICK h : Decimal(m) = h[m] /\ \A k \in 0 .. m : h[k] = DecimalBody(h, k)
    BY <2>1, DecimalRuns
  <2>4. \A k \in 0 .. m : g[k] = DecimalBody(g, k)
    BY <1>1, <2>1
  <2>5. g[m] = h[m]
    BY <2>1, <2>3, <2>4, DecimalOnce
  <2> QED
    BY <1>1, <2>2, <2>3, <2>5 DEF m
<1>5. Decimal(n) \in Numerals
  <2>1. PICK f \in [0 .. n -> Numerals] : \A k \in 0 .. n : f[k] = DecimalBody(f, k)
    BY DecimalExists
  <2>2. f[n] = g[n]
    BY <1>1, <2>1, DecimalOnce
  <2> QED
    BY <1>1, <1>2, <2>1, <2>2
<1> QED
  BY <1>3, <1>4, <1>5

(* The beginnings of a longer sequence. *)
LEMMA PrefixOfAppend ==
  ASSUME NEW S, NEW p \in Seq(S), NEW s \in Seq(S), NEW c \in S
  PROVE  IsPrefix(p, Append(s, c)) <=> IsPrefix(p, s) \/ p = Append(s, c)
<1> DEFINE t == Append(s, c)
<1>1. /\ t \in Seq(S) /\ Len(t) = Len(s) + 1 /\ t[Len(s) + 1] = c
      /\ \A i \in 1 .. Len(s) : t[i] = s[i]
  BY AppendProperties
<1>2. Len(p) \in Nat /\ Len(s) \in Nat
  BY LenProperties
<1> HIDE DEF t
<1>3. ASSUME IsPrefix(p, t), Len(p) # Len(s) + 1
      PROVE  IsPrefix(p, s)
  <2>1. Len(p) <= Len(s) + 1 /\ \A i \in 1 .. Len(p) : p[i] = t[i]
    BY <1>1, <1>3, PrefixIs
  <2>2. Len(p) <= Len(s)
    BY <1>2, <1>3, <2>1
  <2>3. \A i \in 1 .. Len(p) : p[i] = s[i]
    BY <1>1, <1>2, <2>1, <2>2
  <2> QED
    BY <2>2, <2>3, PrefixIs
<1>4. ASSUME IsPrefix(p, t), Len(p) = Len(s) + 1
      PROVE  p = t
  <2>1. \A i \in 1 .. Len(p) : p[i] = t[i]
    BY <1>1, <1>4, PrefixIs
  <2> QED
    BY <1>1, <1>4, <2>1, SeqEqual
<1>5. ASSUME IsPrefix(p, s)
      PROVE  IsPrefix(p, t)
  <2>1. Len(p) <= Len(s) /\ \A i \in 1 .. Len(p) : p[i] = s[i]
    BY <1>5, PrefixIs
  <2>2. Len(p) <= Len(t) /\ \A i \in 1 .. Len(p) : p[i] = t[i]
    BY <1>1, <1>2, <2>1
  <2> QED
    BY <1>1, <2>2, PrefixIs
<1>6. IsPrefix(t, t)
  BY <1>1, PrefixIs
<1> QED
  BY <1>3, <1>4, <1>5, <1>6 DEF t

(* What a numeral, and what the beginning of one, is read as. *)
ReadBack(n) ==
  /\ Decimal(n) # <<>> /\ NumberOf(Decimal(n)) = n
  /\ \A p \in Numerals : p # <<>> /\ IsPrefix(p, Decimal(n)) => Decimal(NumberOf(p)) = p

(* A digit is read back. *)
LEMMA DigitBack ==
  ASSUME NEW n \in 0 .. 9
  PROVE  ReadBack(n)
<1> DEFINE c == Digits[n + 1]
<1>1. c \in DigitSymbols /\ DigitOf(c) = n
  BY DigitOfIs
<1>2. Decimal(n) = <<c>>
  <2>1. n \in Nat /\ n < 10
    OBVIOUS
  <2> QED
    BY <2>1, DecimalIs
<1> HIDE DEF c
<1>3. <<>> \in Numerals /\ Append(<<>>, c) = <<c>> /\ <<c>> # <<>>
  <2>1. <<>> \in Numerals
    BY EmptySeq DEF Numerals
  <2>2. Append(<<>>, c) = <<c>>
    OBVIOUS
  <2>3. <<c>> # <<>>
    BY TupleIs, EmptySeq
  <2> QED
    BY <2>1, <2>2, <2>3
<1>4. NumberOf(<<c>>) = n
  <2>1. NumberOf(Append(<<>>, c)) = 10 * NumberOf(<<>>) + DigitOf(c)
    BY <1>1, <1>3, NumberOfIs DEF Numerals
  <2>2. NumberOf(<<>>) = 0
    BY NumberOfIs
  <2> QED
    BY <1>1, <1>3, <2>1, <2>2
<1>5. ASSUME NEW p \in Numerals, p # <<>>, IsPrefix(p, <<c>>)
      PROVE  p = <<c>>
  <2>1. IsPrefix(p, <<>>) \/ p = <<c>>
    BY <1>1, <1>3, <1>5, PrefixOfAppend DEF Numerals
  <2>2. ASSUME IsPrefix(p, <<>>)
        PROVE  FALSE
    <3>1. Len(p) <= 0
      BY <2>2, EmptySeq DEF IsPrefix
    <3> QED
      BY <1>5, <3>1, EmptySeq DEF Numerals
  <2> QED
    BY <2>1, <2>2
<1> QED
  BY <1>2, <1>3, <1>4, <1>5 DEF ReadBack

(* Every number is read back from its numeral, and every part of a numeral is
   the numeral of what it reads as. *)
LEMMA NumberBack ==
  ASSUME NEW n \in Nat
  PROVE  ReadBack(n)
<1> DEFINE T == {m \in Nat : \A k \in 0 .. m : ReadBack(k)}
<1>1. 0 \in T
  <2>1. \A k \in 0 .. 0 : k \in 0 .. 9
    OBVIOUS
  <2> QED
    BY <2>1, DigitBack
<1>2. ASSUME NEW j \in T
      PROVE  j + 1 \in T
  <2> DEFINE k == j + 1
  <2>1. k \in Nat /\ \A i \in 0 .. k : i = k \/ i \in 0 .. j
    OBVIOUS
  <2> HIDE DEF k
  <2>2. CASE k < 10
    <3>1. ReadBack(k)
      <4>1. k \in 0 .. 9
        BY <2>1, <2>2
      <4> QED
        BY <4>1, DigitBack
    <3> QED
      BY <2>1, <3>1 DEF k
  <2>3. CASE ~ (k < 10)
    <3> DEFINE m == k \div 10
               d == k % 10
               c == Digits[d + 1]
               s == Decimal(m)
    <3>1. m \in Nat /\ d \in 0 .. 9 /\ k = 10 * m + d /\ m < k /\ m \in 0 .. j
      <4>1. k \in Nat /\ k >= 10
        BY <2>1, <2>3
      <4>2. m \in Nat /\ d \in 0 .. 9 /\ k = 10 * m + d /\ m < k
        BY <4>1, TenTimes
      <4> HIDE DEF m
      <4>3. m \in 0 .. j
        BY <4>2 DEF k
      <4> QED
        BY <4>2, <4>3
    <3>2. c \in DigitSymbols /\ DigitOf(c) = d
      BY <3>1, DigitOfIs
    <3>3. Decimal(k) = Append(s, c)
      <4>1. k \in Nat /\ k >= 10
        BY <2>1, <2>3
      <4> QED
        BY <4>1, DecimalIs
    <3>4. s \in Seq(DigitSymbols)
      BY <3>1, DecimalIs DEF Numerals
    <3>5. ReadBack(m)
      BY <1>2, <3>1
    <3> HIDE DEF m, d, c
    <3>6. NumberOf(s) = m /\ \A p \in Numerals : p # <<>> /\ IsPrefix(p, s) => Decimal(NumberOf(p)) = p
      BY <3>5 DEF ReadBack
    <3> HIDE DEF s
    <3>7. NumberOf(Append(s, c)) = k
      <4>1. NumberOf(Append(s, c)) = 10 * NumberOf(s) + DigitOf(c)
        BY <3>2, <3>4, NumberOfIs
      <4> QED
        BY <3>1, <3>2, <3>6, <4>1
    <3>8. Append(s, c) # <<>>
      BY <3>2, <3>4, AppendProperties
    <3>9. ASSUME NEW p \in Numerals, p # <<>>, IsPrefix(p, Append(s, c))
          PROVE  Decimal(NumberOf(p)) = p
      <4>1. IsPrefix(p, s) \/ p = Append(s, c)
        BY <3>2, <3>4, <3>9, PrefixOfAppend DEF Numerals
      <4>2. CASE IsPrefix(p, s)
        BY <3>6, <3>9, <4>2
      <4>3. CASE p = Append(s, c)
        BY <3>3, <3>7, <4>3
      <4> QED
        BY <4>1, <4>2, <4>3
    <3>10. ReadBack(k)
      BY <3>3, <3>7, <3>8, <3>9 DEF ReadBack
    <3> QED
      BY <1>2, <2>1, <3>10 DEF k
  <2> QED
    BY <2>2, <2>3
<1>3. T \in SUBSET Nat
  OBVIOUS
<1> HIDE DEF T
<1>4. T = Nat
  BY <1>1, <1>2, <1>3, NatsFollow
<1>5. n \in T /\ n \in 0 .. n
  BY <1>4
<1> QED
  BY <1>5 DEF T

(* Digits are no separators. *)
LEMMA DigitsArePlain == DigitSymbols \subseteq Plain
<1>1. DigitSymbols \subseteq Symbols
  BY HexIs DEF DigitSymbols, HexDigits
<1> QED
  BY <1>1, HexIs DEF Plain, DigitSymbols, HexDigits

(* The numeral of a number in range is read, and is the number. *)
LEMMA DecimalRead ==
  ASSUME NEW max \in {KindMax, SizeMax, U32Max}, NEW n \in 0 .. max
  PROVE  IsNumber(Decimal(n), max)
<1>1. max \in Nat
  BY LineFormatAssumption
<1>2. n \in Nat /\ n <= max
  BY <1>1
<1>3. Len(Decimal(n)) <= DigitsMax
  BY NumbersFitTokens
<1>4. Decimal(n) \in Seq(DigitSymbols) /\ ReadBack(n)
  BY <1>2, DecimalIs, NumberBack DEF Numerals
<1>5. ToSet(Decimal(n)) \subseteq DigitSymbols
  <2> DEFINE s == Decimal(n)
  <2>1. s \in Seq(DigitSymbols)
    BY <1>4
  <2> HIDE DEF s
  <2>2. ToSet(s) \subseteq DigitSymbols
    BY <2>1 DEF ToSet
  <2> QED
    BY <2>2 DEF s
<1> QED
  BY <1>2, <1>3, <1>4, <1>5 DEF IsNumber, ReadBack, DigitSymbols

-----------------------------------------------------------------------------
(* Taking a line apart. *)

(* There is always a last part. *)
LEMMA PartListIs ==
  ASSUME NEW v \in PartLists
  PROVE  v \in Seq(Texts) /\ Len(v) \in Nat /\ Len(v) >= 1 /\ v[Len(v)] \in Texts
<1>1. v \in Seq(Texts) /\ v # <<>>
  BY DEF PartLists
<1>2. Len(v) \in Nat \ {0}
  BY <1>1, EmptySeq
<1>3. Len(v) \in 1 .. Len(v)
  BY <1>2
<1>4. v[Len(v)] \in Texts
  BY <1>1, <1>3, ElementOfSeq
<1> QED
  BY <1>1, <1>2, <1>4

(* The last part grows by one symbol. *)
Grown(v, c) == [v EXCEPT ![Len(v)] = Append(v[Len(v)], c)]

(* A symbol is added to the last part and to no other. *)
LEMMA GrownIs ==
  ASSUME NEW v \in PartLists, NEW c \in Symbols
  PROVE  /\ Grown(v, c) \in Seq(Texts) /\ Len(Grown(v, c)) = Len(v)
         /\ Grown(v, c)[Len(v)] = Append(v[Len(v)], c)
         /\ \A i \in 1 .. Len(v) - 1 : Grown(v, c)[i] = v[i]
<1>1. v \in Seq(Texts) /\ Len(v) \in Nat /\ Len(v) >= 1 /\ v[Len(v)] \in Texts
  BY PartListIs
<1>2. Len(v) \in 1 .. Len(v) /\ Append(v[Len(v)], c) \in Texts
  BY <1>1, AppendProperties DEF Texts
<1> DEFINE w == Append(v[Len(v)], c)
           g == [v EXCEPT ![Len(v)] = w]
<1> HIDE DEF w
<1>3. g \in Seq(Texts) /\ Len(g) = Len(v)
      /\ \A j \in 1 .. Len(v) : g[j] = IF j = Len(v) THEN w ELSE v[j]
  BY <1>1, <1>2, ExceptSeq DEF w
<1> HIDE DEF g
<1>4. g[Len(v)] = w /\ \A j \in 1 .. Len(v) - 1 : g[j] = v[j]
  BY <1>1, <1>2, <1>3
<1> QED
  BY <1>3, <1>4 DEF g, w, Grown

(* Splitting, one symbol further. *)
LEMMA SplitNext ==
  ASSUME NEW separators, NEW s \in Texts, NEW c \in Symbols
  PROVE  /\ SplitAt(s, separators) \in PartLists
         /\ c \in separators =>
              SplitAt(Append(s, c), separators) = Append(SplitAt(s, separators), <<>>)
         /\ c \notin separators =>
              SplitAt(Append(s, c), separators) = Grown(SplitAt(s, separators), c)
<1>1. SplitAt(Append(s, c), separators)
        = IF c \in separators THEN Append(SplitAt(s, separators), <<>>)
          ELSE [SplitAt(s, separators) EXCEPT ![Len(SplitAt(s, separators))] = Append(@, c)]
  BY SplitAtIs DEF Texts
<1>2. SplitAt(s, separators) \in PartLists
  BY SplitAtIs DEF Texts
<1> QED
  BY <1>1, <1>2, Zenon DEF Grown

(* A part without separators is all there is. *)
LEMMA SplitOnePart ==
  ASSUME NEW separators, NEW s \in Seq(Symbols \ separators)
  PROVE  SplitAt(s, separators) = <<s>>
<1> DEFINE R == Symbols \ separators
           T == {t \in Seq(R) : SplitAt(t, separators) = <<t>>}
<1>1. Seq(R) \subseteq Texts
  <2>1. R \subseteq Symbols
    OBVIOUS
  <2> QED
    BY <2>1, SeqMonotonic DEF Texts
<1>2. <<>> \in T
  <2>1. <<>> \in Seq(R)
    BY EmptySeq
  <2> QED
    BY <2>1, SplitAtIs
<1>3. ASSUME NEW t \in Seq(R), NEW c \in R, t \in T
      PROVE  Append(t, c) \in T
  <2>1. t \in Texts /\ c \in Symbols /\ c \notin separators /\ SplitAt(t, separators) = <<t>>
    BY <1>1, <1>3
  <2>2. Append(t, c) \in Seq(R) /\ Append(t, c) \in Texts
    BY <1>1, AppendProperties
  <2>3. SplitAt(Append(t, c), separators) = Grown(<<t>>, c)
    BY <2>1, SplitNext
  <2>4. <<t>> \in PartLists /\ Len(<<t>>) = 1 /\ <<t>>[1] = t
    BY <2>1, SplitNext, TupleIs
  <2> DEFINE u == Append(t, c)
             g == Grown(<<t>>, c)
  <2>5. g \in Seq(Texts) /\ Len(g) = 1 /\ g[1] = u
    BY <2>1, <2>4, GrownIs
  <2>6. <<u>> \in Seq(Texts) /\ Len(<<u>>) = 1 /\ <<u>>[1] = u
    BY <2>2, TupleIs, TupleType
  <2> HIDE DEF u, g
  <2>7. \A i \in 1 .. 1 : i = 1
    OBVIOUS
  <2>8. g = <<u>>
    BY <2>5, <2>6, <2>7, SeqEqual
  <2> QED
    BY <2>2, <2>3, <2>8 DEF u, g
<1> HIDE DEF T
<1>4. Seq(R) \subseteq T
  BY <1>2, <1>3, SeqsFollow
<1> QED
  BY <1>4 DEF T

(* The last part of two lists is the second one's. *)
LEMMA GrownConcat ==
  ASSUME NEW v \in PartLists, NEW w \in PartLists, NEW c \in Symbols
  PROVE  Grown(v \o w, c) = v \o Grown(w, c)
<1> DEFINE m == Len(v)
           n == Len(w)
           x == v \o w
           g == Grown(w, c)
           l == Grown(x, c)
           r == v \o g
<1>1. v \in Seq(Texts) /\ w \in Seq(Texts) /\ m \in Nat /\ n \in Nat /\ m >= 1 /\ n >= 1
  BY PartListIs
<1>2. /\ x \in Seq(Texts) /\ Len(x) = m + n
      /\ \A i \in 1 .. m + n : x[i] = IF i <= m THEN v[i] ELSE w[i - m]
  BY <1>1, ConcatProperties
<1>3. x \in PartLists
  <2> HIDE DEF x
  <2>1. x # <<>>
    BY <1>1, <1>2, EmptySeq
  <2> QED
    BY <1>2, <2>1 DEF PartLists
<1>4. /\ g \in Seq(Texts) /\ Len(g) = n /\ g[n] = Append(w[n], c)
      /\ \A i \in 1 .. n - 1 : g[i] = w[i]
  BY GrownIs
<1>5. /\ l \in Seq(Texts) /\ Len(l) = Len(x) /\ l[Len(x)] = Append(x[Len(x)], c)
      /\ \A i \in 1 .. Len(x) - 1 : l[i] = x[i]
  <2> HIDE DEF x
  <2> QED
    BY <1>3, GrownIs
<1>6. /\ r \in Seq(Texts) /\ Len(r) = m + n
      /\ \A i \in 1 .. m + n : r[i] = IF i <= m THEN v[i] ELSE g[i - m]
  <2>1. g \in Seq(Texts) /\ Len(g) = n
    BY <1>4
  <2> HIDE DEF g
  <2>2. /\ v \o g \in Seq(Texts) /\ Len(v \o g) = Len(v) + Len(g)
        /\ \A i \in 1 .. Len(v) + Len(g) :
             (v \o g)[i] = IF i <= Len(v) THEN v[i] ELSE g[i - Len(v)]
    BY <1>1, <2>1, ConcatProperties
  <2> QED
    BY <2>1, <2>2
<1> HIDE DEF m, n, x, g, l, r
<1>7. ASSUME NEW i \in 1 .. m + n
      PROVE  l[i] = r[i]
  <2>1. CASE i = m + n
    <3>1. ~ (i <= m) /\ i - m = n
      BY <1>1, <2>1
    <3>2. x[i] = w[n] /\ r[i] = g[n]
      BY <1>2, <1>6, <3>1
    <3> QED
      BY <1>2, <1>4, <1>5, <2>1, <3>2
  <2>2. CASE i # m + n /\ i <= m
    <3>1. i \in 1 .. (m + n) - 1
      BY <1>1, <2>2
    <3>2. l[i] = x[i]
      BY <1>2, <1>5, <3>1
    <3> QED
      BY <1>2, <1>6, <2>2, <3>2
  <2>3. CASE i # m + n /\ ~ (i <= m)
    <3>1. i \in 1 .. (m + n) - 1 /\ i - m \in 1 .. n - 1
      BY <1>1, <2>3
    <3>2. l[i] = x[i] /\ x[i] = w[i - m] /\ r[i] = g[i - m]
      BY <1>2, <1>5, <1>6, <2>3, <3>1
    <3> QED
      BY <1>4, <3>1, <3>2
  <2> QED
    BY <2>1, <2>2, <2>3
<1>8. l = r
  BY <1>2, <1>5, <1>6, <1>7, SeqEqual
<1> QED
  BY <1>8 DEF l, r, x, g

(* Apart at a separator are the parts before it and the parts after it. *)
LEMMA SplitBoth ==
  ASSUME NEW separators, NEW s \in Texts, NEW c \in Symbols, c \in separators, NEW t \in Texts
  PROVE  SplitAt((s \o <<c>>) \o t, separators) = SplitAt(s, separators) \o SplitAt(t, separators)
<1> DEFINE b == s \o <<c>>
           Parts(u) == SplitAt(u, separators)
           T == {u \in Texts : Parts(b \o u) = Parts(s) \o Parts(u)}
<1>1. b = Append(s, c) /\ b \in Texts
  BY AppendIsConcat, AppendProperties DEF Texts
<1>2. \A u \in Texts : Parts(u) \in PartLists /\ Parts(u) \in Seq(Texts)
  BY SplitAtIs DEF Texts, PartLists
<1>3. <<>> \in T
  <2>1. b \o <<>> = b
    BY <1>1, ConcatEmptySeq DEF Texts
  <2>2. Parts(b) = Append(Parts(s), <<>>)
    BY <1>1, SplitNext
  <2>3. <<>> \in Texts
    BY EmptySeq DEF Texts
  <2>4. Append(Parts(s), <<>>) = Parts(s) \o << <<>> >>
    BY <1>2, <2>3, AppendIsConcat
  <2>5. Parts(<<>>) = << <<>> >>
    BY SplitAtIs
  <2> QED
    BY <2>1, <2>2, <2>3, <2>4, <2>5
<1> HIDE DEF b
<1>4. ASSUME NEW u \in Seq(Symbols), NEW d \in Symbols, u \in T
      PROVE  Append(u, d) \in T
  <2>1. b \o Append(u, d) = Append(b \o u, d)
    BY <1>1, ConcatAppend DEF Texts
  <2>2. b \o u \in Texts /\ Append(u, d) \in Texts /\ u \in Texts
    BY <1>1, ConcatProperties, AppendProperties DEF Texts
  <2>3. Parts(b \o u) = Parts(s) \o Parts(u)
    BY <1>4
  <2> DEFINE v == Parts(s)
             w == Parts(u)
  <2>4. v \in PartLists /\ w \in PartLists /\ v \in Seq(Texts) /\ w \in Seq(Texts)
    BY <1>2, <2>2
  <2>5. CASE d \in separators
    <3>1. Parts(Append(b \o u, d)) = Append(v \o w, <<>>)
      BY <2>2, <2>3, <2>5, SplitNext
    <3>2. Parts(Append(u, d)) = Append(w, <<>>)
      BY <2>2, <2>5, SplitNext
    <3>3. <<>> \in Texts
      BY EmptySeq DEF Texts
    <3> HIDE DEF v, w
    <3>4. v \o Append(w, <<>>) = Append(v \o w, <<>>)
      BY <2>4, <3>3, ConcatAppend
    <3> QED
      BY <2>1, <2>2, <3>1, <3>2, <3>4 DEF v
  <2>6. CASE d \notin separators
    <3>1. Parts(Append(b \o u, d)) = Grown(v \o w, d)
      BY <2>2, <2>3, <2>6, SplitNext
    <3>2. Parts(Append(u, d)) = Grown(w, d)
      BY <2>2, <2>6, SplitNext
    <3> HIDE DEF v, w
    <3>3. Grown(v \o w, d) = v \o Grown(w, d)
      BY <2>4, GrownConcat
    <3> QED
      BY <2>1, <2>2, <3>1, <3>2, <3>3 DEF v
  <2> QED
    BY <2>5, <2>6
<1> HIDE DEF T
<1>5. Seq(Symbols) \subseteq T
  BY <1>3, <1>4, SeqsFollow
<1> QED
  BY <1>5 DEF T, b, Texts

(* A beginning of a beginning is a beginning. *)
LEMMA PrefixTransitive ==
  ASSUME NEW S, NEW s \in Seq(S), NEW t \in Seq(S), NEW u \in Seq(S),
         IsPrefix(s, t), IsPrefix(t, u)
  PROVE  IsPrefix(s, u)
<1>1. Len(s) \in Nat /\ Len(t) \in Nat /\ Len(u) \in Nat
  BY LenProperties
<1>2. Len(s) <= Len(t) /\ \A i \in 1 .. Len(s) : s[i] = t[i]
  BY PrefixIs
<1>3. Len(t) <= Len(u) /\ \A i \in 1 .. Len(t) : t[i] = u[i]
  BY PrefixIs
<1>4. Len(s) <= Len(u) /\ \A i \in 1 .. Len(s) : s[i] = u[i]
  BY <1>1, <1>2, <1>3
<1> QED
  BY <1>4, PrefixIs

(* A sequence begins itself. *)
LEMMA PrefixItself ==
  ASSUME NEW S, NEW s \in Seq(S)
  PROVE  IsPrefix(s, s)
BY PrefixIs, LenProperties

(* A list of parts goes on in another: the last part may grow. *)
GoesOn(v, w) ==
  /\ Len(v) <= Len(w)
  /\ \A i \in 1 .. Len(v) - 1 : v[i] = w[i]
  /\ IsPrefix(v[Len(v)], w[Len(v)])

(* Parts that go on, twice. *)
LEMMA GoesOnTransitive ==
  ASSUME NEW u \in PartLists, NEW v \in PartLists, NEW w \in PartLists, GoesOn(u, v), GoesOn(v, w)
  PROVE  GoesOn(u, w)
<1> DEFINE l == Len(u)
           m == Len(v)
           n == Len(w)
<1>1. /\ l \in Nat /\ m \in Nat /\ n \in Nat /\ l >= 1 /\ m >= 1 /\ n >= 1
      /\ u \in Seq(Texts) /\ v \in Seq(Texts) /\ w \in Seq(Texts)
  BY PartListIs
<1>2. l <= m /\ (\A i \in 1 .. l - 1 : u[i] = v[i]) /\ IsPrefix(u[l], v[l])
  BY DEF GoesOn
<1>3. m <= n /\ (\A i \in 1 .. m - 1 : v[i] = w[i]) /\ IsPrefix(v[m], w[m])
  BY DEF GoesOn
<1>4. u[l] \in Seq(Symbols) /\ v[l] \in Seq(Symbols) /\ w[l] \in Seq(Symbols)
  <2>1. l \in 1 .. l /\ l \in 1 .. m /\ l \in 1 .. n
    BY <1>1, <1>2, <1>3
  <2> QED
    BY <1>1, <2>1, ElementOfSeq DEF Texts
<1> HIDE DEF l, m, n
<1>5. l <= n
  BY <1>1, <1>2, <1>3
<1>6. \A i \in 1 .. l - 1 : u[i] = w[i]
  <2>1. \A i \in 1 .. l - 1 : i \in 1 .. m - 1
    BY <1>1, <1>2
  <2> QED
    BY <1>2, <1>3, <2>1
<1>7. IsPrefix(u[l], w[l])
  <2>1. CASE l = m
    <3>1. IsPrefix(v[l], w[l])
      BY <1>3, <2>1
    <3> QED
      BY <1>2, <1>4, <3>1, PrefixTransitive
  <2>2. CASE l # m
    <3>1. l \in 1 .. m - 1
      BY <1>1, <1>2, <2>2
    <3>2. v[l] = w[l]
      BY <1>3, <3>1
    <3> QED
      BY <1>2, <3>2
  <2> QED
    BY <2>1, <2>2
<1> QED
  BY <1>5, <1>6, <1>7 DEF GoesOn, l, n

(* Parts go on in themselves. *)
LEMMA GoesOnItself ==
  ASSUME NEW v \in PartLists
  PROVE  GoesOn(v, v)
<1>1. Len(v) \in Nat /\ v[Len(v)] \in Seq(Symbols)
  BY PartListIs DEF Texts
<1>2. IsPrefix(v[Len(v)], v[Len(v)])
  BY <1>1, PrefixItself
<1> QED
  BY <1>1, <1>2 DEF GoesOn

(* With one more symbol, the parts go on. *)
LEMMA GoesOnNext ==
  ASSUME NEW separators, NEW s \in Texts, NEW c \in Symbols
  PROVE  GoesOn(SplitAt(s, separators), SplitAt(Append(s, c), separators))
<1> DEFINE v == SplitAt(s, separators)
           w == SplitAt(Append(s, c), separators)
           n == Len(v)
<1>1. v \in PartLists
  BY SplitNext
<1>2. v \in Seq(Texts) /\ n \in Nat /\ n >= 1 /\ v[n] \in Texts
  BY <1>1, PartListIs
<1>3. CASE c \in separators
  <2>1. w = Append(v, <<>>)
    BY <1>3, SplitNext
  <2>2. <<>> \in Texts
    BY EmptySeq DEF Texts
  <2> HIDE DEF v, w
  <2>3. Len(w) = n + 1 /\ \A i \in 1 .. n : w[i] = v[i]
    BY <1>2, <2>1, <2>2, AppendProperties
  <2>4. n <= Len(w) /\ w[n] = v[n] /\ \A i \in 1 .. n - 1 : v[i] = w[i]
    BY <1>2, <2>3
  <2>5. IsPrefix(v[n], w[n])
    BY <1>2, <2>4, PrefixItself DEF Texts
  <2> QED
    BY <2>4, <2>5 DEF GoesOn, v, w
<1>4. CASE c \notin separators
  <2>1. w = Grown(v, c)
    BY <1>4, SplitNext
  <2> HIDE DEF v, w
  <2>2. Len(w) = n /\ w[n] = Append(v[n], c) /\ \A i \in 1 .. n - 1 : w[i] = v[i]
    BY <1>1, <2>1, GrownIs
  <2>3. IsPrefix(v[n], v[n])
    BY <1>2, PrefixItself DEF Texts
  <2>4. IsPrefix(v[n], w[n])
    BY <1>2, <2>2, <2>3, PrefixOfAppend DEF Texts
  <2> QED
    BY <1>2, <2>2, <2>4 DEF GoesOn, v, w
<1> QED
  BY <1>3, <1>4

(* What is cut off a line leaves all parts but the last as they were. *)
LEMMA SplitPrefix ==
  ASSUME NEW separators, NEW s \in Texts, NEW p \in Texts, IsPrefix(p, s)
  PROVE  GoesOn(SplitAt(p, separators), SplitAt(s, separators))
<1> DEFINE Parts(u) == SplitAt(u, separators)
           T == {u \in Texts : IsPrefix(p, u) => GoesOn(Parts(p), Parts(u))}
<1>1. \A u \in Texts : Parts(u) \in PartLists
  BY SplitAtIs DEF Texts
<1>2. GoesOn(Parts(p), Parts(p))
  BY <1>1, GoesOnItself
<1>3. <<>> \in T
  <2>1. <<>> \in Texts
    BY EmptySeq DEF Texts
  <2>2. ASSUME IsPrefix(p, <<>>) PROVE p = <<>>
    <3>1. Len(p) <= 0 /\ Len(p) \in Nat
      BY <2>2, EmptySeq DEF IsPrefix, Texts
    <3> QED
      BY <3>1, EmptySeq DEF Texts
  <2> QED
    BY <1>2, <2>1, <2>2
<1>4. ASSUME NEW u \in Seq(Symbols), NEW c \in Symbols, u \in T
      PROVE  Append(u, c) \in T
  <2>1. Append(u, c) \in Texts /\ u \in Texts
    BY AppendProperties DEF Texts
  <2>2. ASSUME IsPrefix(p, u)
        PROVE  GoesOn(Parts(p), Parts(Append(u, c)))
    <3>1. GoesOn(Parts(p), Parts(u))
      BY <1>4, <2>2
    <3>2. GoesOn(Parts(u), Parts(Append(u, c)))
      BY <2>1, GoesOnNext
    <3> QED
      BY <1>1, <2>1, <3>1, <3>2, GoesOnTransitive
  <2>3. IsPrefix(p, Append(u, c)) <=> IsPrefix(p, u) \/ p = Append(u, c)
    BY PrefixOfAppend DEF Texts
  <2> QED
    BY <1>2, <2>1, <2>2, <2>3
<1> HIDE DEF T
<1>5. Seq(Symbols) \subseteq T
  BY <1>3, <1>4, SeqsFollow
<1> QED
  BY <1>5 DEF T, Texts

-----------------------------------------------------------------------------
(* Parts put together. *)

(* Joined parts are made of what the parts and the separator are made of. *)
LEMMA JoinedType ==
  ASSUME NEW R \in SUBSET Symbols, NEW separator \in R, NEW parts \in Seq(Seq(R))
  PROVE  JoinedBy(separator, parts) \in Seq(R)
<1> DEFINE T == {l \in Seq(Seq(R)) : JoinedBy(separator, l) \in Seq(R)}
<1>1. separator \in Symbols /\ Seq(R) \subseteq Texts
  BY SeqMonotonic DEF Texts
<1>2. Seq(Seq(R)) \subseteq Seq(Texts)
  BY <1>1, SeqMonotonic
<1>3. <<>> \in T
  BY <1>1, JoinedByIs, EmptySeq
<1>4. ASSUME NEW l \in Seq(Seq(R)), NEW p \in Seq(R), l \in T
      PROVE  Append(l, p) \in T
  <2>1. JoinedBy(separator, Append(l, p))
          = IF JoinedBy(separator, l) = <<>> THEN p ELSE JoinedBy(separator, l) \o <<separator>> \o p
    BY <1>1, <1>2, JoinedByIs
  <2> DEFINE j == JoinedBy(separator, l)
  <2>2. j \in Seq(R) /\ <<separator>> \in Seq(R)
    BY <1>4, TupleType
  <2> HIDE DEF j
  <2>3. j \o <<separator>> \in Seq(R)
    BY <2>2, ConcatProperties
  <2>4. j \o <<separator>> \o p \in Seq(R)
    BY <2>3, ConcatProperties
  <2>5. Append(l, p) \in Seq(Seq(R))
    BY AppendProperties
  <2> QED
    BY <2>1, <2>4, <2>5 DEF j
<1> HIDE DEF T
<1>5. Seq(Seq(R)) \subseteq T
  BY <1>3, <1>4, SeqsFollow
<1> QED
  BY <1>5 DEF T

(* Parts that are not empty and hold no separator are taken apart again. *)
LEMMA SplitJoined ==
  ASSUME NEW separators, NEW c \in Symbols, c \in separators,
         NEW parts \in Seq(Seq(Symbols \ separators) \ {<<>>}), parts # <<>>
  PROVE  JoinedBy(c, parts) # <<>> /\ SplitAt(JoinedBy(c, parts), separators) = parts
<1> DEFINE R == Symbols \ separators
           P == Seq(R) \ {<<>>}
           T == {l \in Seq(P) : l # <<>> => /\ JoinedBy(c, l) # <<>>
                                            /\ SplitAt(JoinedBy(c, l), separators) = l}
<1>1. P \subseteq Texts
  <2>1. R \subseteq Symbols
    OBVIOUS
  <2> QED
    BY <2>1, SeqMonotonic DEF Texts
<1>2. Seq(P) \subseteq Seq(Texts)
  BY <1>1, SeqMonotonic
<1>3. <<>> \in T
  BY EmptySeq
<1>4. ASSUME NEW l \in Seq(P), NEW p \in P, l \in T
      PROVE  Append(l, p) \in T
  <2> DEFINE j == JoinedBy(c, l)
             k == JoinedBy(c, Append(l, p))
  <2>1. k = IF j = <<>> THEN p ELSE j \o <<c>> \o p
    BY <1>1, <1>2, JoinedByIs
  <2>2. j \in Texts /\ p \in Texts /\ l \in Seq(Texts)
    BY <1>1, <1>2, JoinedByIs
  <2>3. SplitAt(p, separators) = <<p>> /\ p # <<>>
    <3>1. p \in Seq(Symbols \ separators) /\ p # <<>>
      OBVIOUS
    <3> QED
      BY <3>1, SplitOnePart
  <2>4. Append(l, p) = l \o <<p>>
    BY <2>2, AppendIsConcat
  <2>5. Append(l, p) \in Seq(P)
    BY AppendProperties
  <2>6. CASE l = <<>>
    <3>1. j = <<>>
      BY <2>6, JoinedByIs
    <3>2. <<>> \o <<p>> = <<p>>
      <4>1. <<p>> \in Seq(Texts)
        BY <2>2, TupleType
      <4> QED
        BY <4>1, ConcatEmptySeq
    <3> QED
      BY <2>1, <2>3, <2>4, <2>5, <2>6, <3>1, <3>2
  <2>7. CASE l # <<>>
    <3>1. j # <<>> /\ SplitAt(j, separators) = l
      BY <1>4, <2>7
    <3>2. k = (j \o <<c>>) \o p
      BY <2>1, <3>1
    <3>3. SplitAt(k, separators) = l \o <<p>>
      <4> HIDE DEF j, k
      <4>1. SplitAt((j \o <<c>>) \o p, separators) = SplitAt(j, separators) \o SplitAt(p, separators)
        BY <2>2, SplitBoth
      <4> QED
        BY <2>3, <3>1, <3>2, <4>1
    <3>4. k # <<>>
      <4>1. <<c>> \in Texts
        BY TupleType DEF Texts
      <4>2. j \o <<c>> \in Texts
        BY <2>2, <4>1, ConcatProperties DEF Texts
      <4> QED
        BY <2>2, <2>3, <3>2, <4>2, ConcatEqualIffEmpty DEF Texts
    <3> QED
      BY <2>4, <2>5, <3>3, <3>4
  <2> QED
    BY <2>6, <2>7
<1> HIDE DEF T
<1>5. Seq(P) \subseteq T
  BY <1>3, <1>4, SeqsFollow
<1> QED
  BY <1>5 DEF T

-----------------------------------------------------------------------------
(* Fields and lines. *)

Fields == Seq(Plain) \ {<<>>}

(* Plain sequences are texts. *)
LEMMA PlainTexts == Seq(Plain) \subseteq Texts
<1>1. Plain \subseteq Symbols
  BY DEF Plain
<1> QED
  BY <1>1, SeqMonotonic DEF Texts

(* A field is its key, an equals sign and the value. *)
LEMMA FieldIs ==
  ASSUME NEW key \in Plain, NEW value \in Seq(Plain)
  PROVE  /\ Field(key, value) \in Fields
         /\ Len(Field(key, value)) = Len(value) + 2
         /\ Field(key, value)[1] = key /\ Field(key, value)[2] = "="
         /\ \A i \in 1 .. Len(value) : Field(key, value)[i + 2] = value[i]
<1> DEFINE h == <<key, "=">>
           f == h \o value
<1>1. "=" \in Plain
  BY HexIs DEF Plain, Reserved
<1>2. h \in Seq(Plain) /\ Len(h) = 2 /\ h[1] = key /\ h[2] = "="
  BY <1>1, TupleIs, TupleType
<1> HIDE DEF h
<1>3. /\ f \in Seq(Plain) /\ Len(f) = Len(h) + Len(value)
      /\ \A i \in 1 .. Len(h) + Len(value) : f[i] = IF i <= Len(h) THEN h[i] ELSE value[i - Len(h)]
  BY <1>2, ConcatProperties
<1>4. Len(value) \in Nat
  BY LenProperties
<1> HIDE DEF f
<1>5. Len(f) = Len(value) + 2 /\ f # <<>>
  BY <1>2, <1>3, <1>4, EmptySeq
<1>6. f[1] = key /\ f[2] = "="
  BY <1>2, <1>3, <1>4
<1>7. \A i \in 1 .. Len(value) : f[i + 2] = value[i]
  <2> SUFFICES ASSUME NEW i \in 1 .. Len(value) PROVE f[i + 2] = value[i]
    OBVIOUS
  <2>1. i + 2 \in 1 .. Len(h) + Len(value) /\ ~ (i + 2 <= Len(h)) /\ (i + 2) - Len(h) = i
    BY <1>2, <1>4
  <2> QED
    BY <1>3, <2>1
<1>8. f = Field(key, value)
  BY DEF f, h, Field
<1> QED
  BY <1>3, <1>5, <1>6, <1>7, <1>8 DEF Fields

(* The value of a field, and of the beginning of one. *)
LEMMA ValueOfPrefix ==
  ASSUME NEW key \in Plain, NEW value \in Seq(Plain), NEW p \in Texts,
         IsPrefix(p, Field(key, value))
  PROVE  /\ ValueOf(p, key) \in Texts /\ IsPrefix(ValueOf(p, key), value)
         /\ p = Field(key, value) => ValueOf(p, key) = value
         /\ Len(ValueOf(p, key)) = IF Len(p) > 2 THEN Len(p) - 2 ELSE 0
<1> DEFINE f == Field(key, value)
           m == Len(p)
           n == Len(value)
           s == SubSeq(p, 3, m)
<1>1. /\ f \in Texts /\ Len(f) = n + 2 /\ f[1] = key /\ f[2] = "="
      /\ \A i \in 1 .. n : f[i + 2] = value[i]
  BY FieldIs, PlainTexts DEF Fields
<1> HIDE DEF f
<1>2. m \in Nat /\ n \in Nat /\ value \in Seq(Symbols) /\ p \in Seq(Symbols)
  BY PlainTexts, LenProperties DEF Texts
<1>3. m <= n + 2 /\ \A i \in 1 .. m : p[i] = f[i]
  BY <1>1, PrefixIs DEF Texts, f
<1>4. CASE m > 2
  <2>1. p[1] = key /\ p[2] = "="
    BY <1>1, <1>2, <1>3, <1>4
  <2>2. ValueOf(p, key) = s
    BY <1>4, <2>1 DEF ValueOf
  <2>3. s \in Seq(Symbols) /\ Len(s) = m - 2 /\ \A i \in 1 .. m - 2 : s[i] = p[i + 2]
    <3>1. \A i \in 3 .. m : p[i] \in Symbols
      BY <1>2, ElementOfSeq
    <3>2. 3 \in Int /\ m \in Int /\ 3 <= m /\ m - 3 + 1 = m - 2
      BY <1>2, <1>4
    <3> HIDE DEF m
    <3>3. /\ SubSeq(p, 3, m) \in Seq(Symbols)
          /\ Len(SubSeq(p, 3, m)) = m - 3 + 1
          /\ \A i \in 1 .. m - 3 + 1 : SubSeq(p, 3, m)[i] = p[3 + i - 1]
      BY <3>1, <3>2, SubSeqProperties
    <3>4. \A i \in 1 .. m - 2 : 3 + i - 1 = i + 2
      BY <3>2
    <3> QED
      BY <3>2, <3>3, <3>4
  <2> HIDE DEF s, m, n
  <2>4. \A i \in 1 .. m - 2 : s[i] = value[i]
    <3> SUFFICES ASSUME NEW i \in 1 .. m - 2 PROVE s[i] = value[i]
      OBVIOUS
    <3>1. i \in 1 .. n /\ i + 2 \in 1 .. m
      BY <1>2, <1>3
    <3> QED
      BY <1>1, <1>3, <2>3, <3>1
  <2>5. Len(s) <= Len(value)
    BY <1>2, <1>3, <2>3 DEF n
  <2>6. IsPrefix(s, value)
    BY <1>2, <2>3, <2>4, <2>5, PrefixIs
  <2>7. p = f => s = value
    <3> SUFFICES ASSUME p = f PROVE s = value
      OBVIOUS
    <3>1. Len(s) = Len(value)
      BY <1>1, <1>2, <2>3 DEF m, n
    <3> QED
      BY <1>2, <2>3, <2>4, <3>1, SeqEqual
  <2> QED
    BY <1>4, <2>2, <2>3, <2>6, <2>7 DEF Texts, f, m
<1>5. CASE ~ (m > 2)
  <2>1. ValueOf(p, key) = <<>>
    BY <1>5 DEF ValueOf
  <2>2. <<>> \in Seq(Symbols) /\ Len(<<>>) = 0
    BY EmptySeq
  <2>3. IsPrefix(<<>>, value)
    <3>1. value \in Seq(Symbols) /\ n \in Nat
      BY <1>2
    <3>2. \A i \in 1 .. Len(<<>>) : <<>>[i] = value[i]
      BY <2>2
    <3>3. Len(<<>>) <= Len(value)
      BY <2>2, <3>1 DEF n
    <3> QED
      BY <2>2, <3>1, <3>2, <3>3, PrefixIs
  <2>4. p = f => value = <<>>
    <3> SUFFICES ASSUME p = f PROVE value = <<>>
      OBVIOUS
    <3>1. m = n + 2
      BY <1>1
    <3>2. n = 0
      BY <1>2, <1>5, <3>1
    <3> QED
      BY <3>2, EmptySeq
  <2> QED
    BY <1>5, <2>1, <2>2, <2>3, <2>4 DEF Texts, f
<1> QED
  BY <1>4, <1>5

(* A line of fields. *)
IsLineOf(fields, keys, values) ==
  /\ fields \in Seq(Fields) /\ keys \in Seq(Plain) /\ values \in Seq(Seq(Plain))
  /\ Len(fields) = Len(keys) /\ Len(values) = Len(keys) /\ keys # <<>>
  /\ \A i \in 1 .. Len(keys) : fields[i] = Field(keys[i], values[i])

(* lox_token_next finds the fields that were joined. *)
LEMMA TokensJoined ==
  ASSUME NEW fields \in Seq(Fields), fields # <<>>
  PROVE  /\ Joined(fields) \in Texts /\ Joined(fields) # <<>>
         /\ Joined(fields) \in Seq(Symbols \ {"NL", "CR"})
         /\ Tokens(Joined(fields)) = fields
         /\ SplitAt(Joined(fields), {","}) = fields
<1>1. "," \in Symbols
  BY HexIs DEF Reserved
<1>2. fields \in Seq(Seq(Symbols \ {","}) \ {<<>>})
  <2>1. Plain \subseteq Symbols \ {","}
    BY DEF Plain
  <2>2. Seq(Plain) \subseteq Seq(Symbols \ {","})
    BY <2>1, SeqMonotonic
  <2>3. Fields \subseteq Seq(Symbols \ {","}) \ {<<>>}
    BY <2>2 DEF Fields
  <2> QED
    BY <2>3, SeqMonotonic
<1>3. Joined(fields) # <<>> /\ SplitAt(Joined(fields), {","}) = fields
  BY <1>1, <1>2, SplitJoined DEF Joined
<1>4. Joined(fields) \in Seq(Symbols \ {"NL", "CR"})
  <2> DEFINE R == Symbols \ {"NL", "CR"}
  <2>1. "," \in R /\ R \in SUBSET Symbols
    BY <1>1
  <2>2. Plain \subseteq R
    BY DEF Plain
  <2>3. Seq(Plain) \subseteq Seq(R)
    BY <2>2, SeqMonotonic
  <2>4. Fields \subseteq Seq(R)
    BY <2>3 DEF Fields
  <2>5. fields \in Seq(Seq(R))
    BY <2>4, SeqMonotonic
  <2> HIDE DEF R
  <2>6. Joined(fields) \in Seq(R)
    BY <2>1, <2>5, JoinedType DEF Joined
  <2> QED
    BY <2>6 DEF R
<1>5. Joined(fields) \in Texts
  <2>1. Symbols \ {"NL", "CR"} \subseteq Symbols
    OBVIOUS
  <2> QED
    BY <1>4, <2>1, SeqMonotonic DEF Texts
<1> QED
  BY <1>3, <1>4, <1>5 DEF Tokens

(* A line that was cut but has all its tokens has all its values but the last,
   and the beginning of the last. *)
ReadsBack(p, fields, keys, values) ==
  /\ \A i \in 1 .. Len(keys) - 1 : Values(p, keys)[i] = values[i]
  /\ Values(p, keys)[Len(keys)] \in Texts
  /\ IsPrefix(Values(p, keys)[Len(keys)], values[Len(keys)])
  /\ p = Joined(fields) => Values(p, keys)[Len(keys)] = values[Len(keys)]
  /\ \E q \in Texts : /\ IsPrefix(q, fields[Len(keys)])
                      /\ Values(p, keys)[Len(keys)] = ValueOf(q, keys[Len(keys)])

LEMMA ValuesOfPrefix ==
  ASSUME NEW fields, NEW keys, NEW values, IsLineOf(fields, keys, values),
         NEW p \in Texts, IsPrefix(p, Joined(fields)), Len(Tokens(p)) = Len(keys)
  PROVE  ReadsBack(p, fields, keys, values)
<1> DEFINE n == Len(keys)
           tokens == Tokens(p)
           back == Values(p, keys)
<1>1. /\ fields \in Seq(Fields) /\ keys \in Seq(Plain) /\ values \in Seq(Seq(Plain))
      /\ Len(fields) = n /\ Len(values) = n /\ n \in Nat /\ n >= 1
      /\ \A i \in 1 .. n : fields[i] = Field(keys[i], values[i])
  BY EmptySeq, LenProperties DEF IsLineOf
<1>2. /\ Joined(fields) \in Texts /\ SplitAt(Joined(fields), {","}) = fields
      /\ Tokens(Joined(fields)) = fields
  <2>1. fields # <<>>
    BY <1>1, EmptySeq
  <2>2. fields \in Seq(Fields)
    BY <1>1
  <2> QED
    BY <2>1, <2>2, TokensJoined
<1>3. tokens = SplitAt(p, {","}) /\ tokens \in PartLists
  <2>1. p # <<>>
    <3>1. p = <<>> => Len(tokens) = 0
      BY EmptySeq DEF Tokens
    <3> QED
      BY <1>1, <3>1
  <2>2. tokens = SplitAt(p, {","})
    BY <2>1 DEF Tokens
  <2>3. SplitAt(p, {","}) \in PartLists
    BY SplitAtIs DEF Texts
  <2> HIDE DEF tokens
  <2> QED
    BY <2>2, <2>3
<1>4. GoesOn(tokens, fields)
  BY <1>2, <1>3, SplitPrefix
<1>5. Len(tokens) = n
  OBVIOUS
<1>6. p = Joined(fields) => tokens = fields
  BY <1>2
<1>7. \A i \in 1 .. n : back[i] = ValueOf(tokens[i], keys[i])
  BY <1>1, <1>5 DEF Values
<1> HIDE DEF tokens, back, n
<1>8. (\A i \in 1 .. n - 1 : tokens[i] = fields[i]) /\ IsPrefix(tokens[n], fields[n])
  BY <1>4, <1>5 DEF GoesOn
<1>9. \A i \in 1 .. n : keys[i] \in Plain /\ values[i] \in Seq(Plain) /\ tokens[i] \in Texts
  BY <1>1, <1>3, <1>5, PartListIs, ElementOfSeq DEF n
<1>10. ASSUME NEW i \in 1 .. n - 1
       PROVE  back[i] = values[i]
  <2>1. i \in 1 .. n
    BY <1>1
  <2>2. tokens[i] = Field(keys[i], values[i])
    BY <1>1, <1>8, <2>1
  <2>3. keys[i] \in Plain /\ values[i] \in Seq(Plain) /\ tokens[i] \in Texts
    BY <1>9, <2>1
  <2>4. IsPrefix(tokens[i], Field(keys[i], values[i]))
    BY <2>2, <2>3, PrefixItself DEF Texts
  <2>5. ValueOf(tokens[i], keys[i]) = values[i]
    BY <2>2, <2>3, <2>4, ValueOfPrefix
  <2> QED
    BY <1>7, <2>1, <2>5
<1>11. /\ back[n] \in Texts /\ IsPrefix(back[n], values[n])
       /\ p = Joined(fields) => back[n] = values[n]
       /\ tokens[n] \in Texts /\ back[n] = ValueOf(tokens[n], keys[n])
       /\ p = Joined(fields) => tokens[n] = fields[n]
  <2>1. n \in 1 .. n
    BY <1>1
  <2>2. keys[n] \in Plain /\ values[n] \in Seq(Plain) /\ tokens[n] \in Texts
        /\ fields[n] = Field(keys[n], values[n]) /\ back[n] = ValueOf(tokens[n], keys[n])
    BY <1>1, <1>7, <1>9, <2>1
  <2>3. IsPrefix(tokens[n], Field(keys[n], values[n]))
    BY <1>8, <2>2
  <2>4. /\ ValueOf(tokens[n], keys[n]) \in Texts
        /\ IsPrefix(ValueOf(tokens[n], keys[n]), values[n])
        /\ tokens[n] = Field(keys[n], values[n]) => ValueOf(tokens[n], keys[n]) = values[n]
    BY <2>2, <2>3, ValueOfPrefix
  <2> QED
    BY <1>6, <2>2, <2>4
<1>12. \E q \in Texts : IsPrefix(q, fields[n]) /\ back[n] = ValueOf(q, keys[n])
  BY <1>8, <1>11
<1> QED
  BY <1>10, <1>11, <1>12 DEF n, back, ReadsBack

-----------------------------------------------------------------------------
(* Event lines. *)

(* An event line's six fields. *)
LEMMA SixIs ==
  \A a, b, c, d, e, f :
    LET t == <<a, b, c, d, e, f>>
    IN  /\ Len(t) = 6 /\ t[1] = a /\ t[2] = b /\ t[3] = c /\ t[4] = d /\ t[5] = e /\ t[6] = f
        /\ \A S : (a \in S /\ b \in S /\ c \in S /\ d \in S /\ e \in S /\ f \in S) => t \in Seq(S)
OBVIOUS

(* A report line's seven fields. *)
LEMMA SevenIs ==
  \A a, b, c, d, e, f, g :
    LET t == <<a, b, c, d, e, f, g>>
    IN  /\ Len(t) = 7 /\ t[1] = a /\ t[2] = b /\ t[3] = c /\ t[4] = d /\ t[5] = e /\ t[6] = f
        /\ t[7] = g
        /\ \A S : (a \in S /\ b \in S /\ c \in S /\ d \in S /\ e \in S /\ f \in S /\ g \in S)
                    => t \in Seq(S)
OBVIOUS

(* The keys of an event line. *)
LEMMA EventKeysAre ==
  /\ EventKeys \in Seq(Plain) /\ Len(EventKeys) = 6
  /\ EventKeys[1] = "kind" /\ EventKeys[2] = "block" /\ EventKeys[3] = "reason"
  /\ EventKeys[4] = "index" /\ EventKeys[5] = "limit" /\ EventKeys[6] = "aux"
<1>1. /\ Len(EventKeys) = 6
      /\ EventKeys[1] = "kind" /\ EventKeys[2] = "block" /\ EventKeys[3] = "reason"
      /\ EventKeys[4] = "index" /\ EventKeys[5] = "limit" /\ EventKeys[6] = "aux"
  BY SixIs DEF EventKeys
<1>2. {"kind", "block", "reason", "index", "limit", "aux"} \subseteq Symbols
  <2>1. DOMAIN EventKeys = 1 .. 6
    BY DEF EventKeys
  <2>2. \A i \in 1 .. 6 : EventKeys[i] \in Symbols
    BY <2>1, SymbolsAssumption DEF ToSet
  <2>3. 1 \in 1 .. 6 /\ 2 \in 1 .. 6 /\ 3 \in 1 .. 6 /\ 4 \in 1 .. 6 /\ 5 \in 1 .. 6 /\ 6 \in 1 .. 6
    OBVIOUS
  <2> QED
    BY <1>1, <2>2, <2>3
<1>3. {"kind", "block", "reason", "index", "limit", "aux"} \subseteq Plain
  BY <1>2 DEF Plain
<1>4. EventKeys \in Seq(Plain)
  BY <1>3, SixIs DEF EventKeys
<1> QED
  BY <1>1, <1>4

(* The keys of a report line. *)
LEMMA ReportKeysAre ==
  /\ ReportKeys \in Seq(Plain) /\ Len(ReportKeys) = 7
  /\ ReportKeys[1] = "block" /\ ReportKeys[2] = "reason" /\ ReportKeys[3] = "result"
  /\ ReportKeys[4] = "action" /\ ReportKeys[5] = "event_kind"
  /\ ReportKeys[6] = "duration_ticks" /\ ReportKeys[7] = "event_persisted"
<1>1. /\ Len(ReportKeys) = 7
      /\ ReportKeys[1] = "block" /\ ReportKeys[2] = "reason" /\ ReportKeys[3] = "result"
      /\ ReportKeys[4] = "action" /\ ReportKeys[5] = "event_kind"
      /\ ReportKeys[6] = "duration_ticks" /\ ReportKeys[7] = "event_persisted"
  BY SevenIs DEF ReportKeys
<1> DEFINE keys == {"block", "reason", "result", "action", "event_kind", "duration_ticks",
                    "event_persisted"}
<1>2. keys \subseteq Symbols
  <2>1. DOMAIN ReportKeys = 1 .. 7
    BY DEF ReportKeys
  <2>2. \A i \in 1 .. 7 : ReportKeys[i] \in Symbols
    BY <2>1, SymbolsAssumption DEF ToSet
  <2>3. 1 \in 1 .. 7 /\ 2 \in 1 .. 7 /\ 3 \in 1 .. 7 /\ 4 \in 1 .. 7 /\ 5 \in 1 .. 7 /\ 6 \in 1 .. 7
        /\ 7 \in 1 .. 7
    OBVIOUS
  <2> QED
    BY <1>1, <2>2, <2>3
<1>3. keys \subseteq Plain
  BY <1>2 DEF Plain
<1>4. ReportKeys \in Seq(Plain)
  BY <1>3, SevenIs DEF ReportKeys
<1> QED
  BY <1>1, <1>4

(* What the event line of an event is made of. *)
IsEvent(e) ==
  /\ e.kind \in 0 .. KindMax /\ e.index \in 0 .. SizeMax /\ e.limit \in 0 .. SizeMax
  /\ e.aux_code \in 0 .. U32Max
  /\ e.block_name \in Strings /\ e.reason \in Strings

EventFields(e) ==
  <<Field("kind", Decimal(e.kind)), Field("block", Encoded(e.block_name)),
    Field("reason", Encoded(e.reason)), Field("index", Decimal(e.index)),
    Field("limit", Decimal(e.limit)), Field("aux", Decimal(e.aux_code))>>

EventValues(e) ==
  <<Decimal(e.kind), Encoded(e.block_name), Encoded(e.reason), Decimal(e.index),
    Decimal(e.limit), Decimal(e.aux_code)>>

(* A numeral has no separator in it. *)
LEMMA NumeralsArePlain ==
  ASSUME NEW n \in Nat
  PROVE  Decimal(n) \in Seq(Plain)
<1>1. Decimal(n) \in Seq(DigitSymbols)
  BY DecimalIs DEF Numerals
<1> QED
  BY <1>1, DigitsArePlain, SeqMonotonic

(* lox_event_format_csv joins these fields. *)
LEMMA EventLineIs ==
  ASSUME NEW e, IsEvent(e)
  PROVE  /\ IsLineOf(EventFields(e), EventKeys, EventValues(e))
         /\ EventLine(e) = Joined(EventFields(e))
<1> DEFINE v == EventValues(e)
           f == EventFields(e)
<1>1. e.kind \in Nat /\ e.index \in Nat /\ e.limit \in Nat /\ e.aux_code \in Nat
  BY LineFormatAssumption DEF IsEvent
<1>2. e.block_name \in Texts /\ e.reason \in Texts
  BY StringsAreTexts DEF IsEvent
<1>3. /\ Decimal(e.kind) \in Seq(Plain) /\ Encoded(e.block_name) \in Seq(Plain)
      /\ Encoded(e.reason) \in Seq(Plain) /\ Decimal(e.index) \in Seq(Plain)
      /\ Decimal(e.limit) \in Seq(Plain) /\ Decimal(e.aux_code) \in Seq(Plain)
  BY <1>1, <1>2, NumeralsArePlain, EncodedPlain
<1>4. v \in Seq(Seq(Plain)) /\ Len(v) = 6
  BY <1>3, SixIs DEF EventValues
<1>5. /\ v[1] = Decimal(e.kind) /\ v[2] = Encoded(e.block_name) /\ v[3] = Encoded(e.reason)
      /\ v[4] = Decimal(e.index) /\ v[5] = Decimal(e.limit) /\ v[6] = Decimal(e.aux_code)
  BY SixIs DEF EventValues
<1>6. /\ "kind" \in Plain /\ "block" \in Plain /\ "reason" \in Plain
      /\ "index" \in Plain /\ "limit" \in Plain /\ "aux" \in Plain
  <2>1. \A i \in 1 .. 6 : EventKeys[i] \in Plain
    BY EventKeysAre, ElementOfSeq
  <2> QED
    BY <2>1, EventKeysAre
<1>7. f \in Seq(Fields) /\ Len(f) = 6
  <2>1. /\ Field("kind", Decimal(e.kind)) \in Fields
        /\ Field("block", Encoded(e.block_name)) \in Fields
        /\ Field("reason", Encoded(e.reason)) \in Fields
        /\ Field("index", Decimal(e.index)) \in Fields
        /\ Field("limit", Decimal(e.limit)) \in Fields
        /\ Field("aux", Decimal(e.aux_code)) \in Fields
    BY <1>3, <1>6, FieldIs
  <2> QED
    BY <2>1, SixIs DEF EventFields
<1>8. /\ f[1] = Field("kind", v[1]) /\ f[2] = Field("block", v[2])
      /\ f[3] = Field("reason", v[3]) /\ f[4] = Field("index", v[4])
      /\ f[5] = Field("limit", v[5]) /\ f[6] = Field("aux", v[6])
  BY <1>5, SixIs DEF EventFields
<1> HIDE DEF f, v
<1>9. \A i \in 1 .. 6 : f[i] = Field(EventKeys[i], v[i])
  <2>1. \A i \in 1 .. 6 : i = 1 \/ i = 2 \/ i = 3 \/ i = 4 \/ i = 5 \/ i = 6
    OBVIOUS
  <2> QED
    BY <1>8, <2>1, EventKeysAre
<1>10. EventKeys # <<>>
  BY EventKeysAre, EmptySeq
<1>11. IsLineOf(f, EventKeys, v)
  BY <1>4, <1>7, <1>9, <1>10, EventKeysAre DEF IsLineOf
<1>12. EventLine(e) = Joined(f)
  BY DEF EventLine, f, EventFields
<1> QED
  BY <1>11, <1>12 DEF f, v

(* The beginning of a numeral is a numeral, and of a number. *)
LEMMA NumeralPart ==
  ASSUME NEW n \in Nat, NEW p \in Texts, IsPrefix(p, Decimal(n)), p # <<>>
  PROVE  Decimal(NumberOf(p)) = p
<1> DEFINE t == Decimal(n)
<1>1. t \in Numerals /\ t \in Texts /\ DigitSymbols \subseteq Symbols
  <2>1. t \in Numerals
    BY DecimalIs
  <2>2. DigitSymbols \subseteq Symbols
    BY DigitsArePlain DEF Plain
  <2> QED
    BY <2>1, <2>2, SeqMonotonic DEF Numerals, Texts
<1> HIDE DEF t
<1>2. Len(p) \in Nat /\ Len(t) \in Nat /\ p = [i \in 1 .. Len(p) |-> p[i]]
  BY <1>1 DEF Texts
<1>3. Len(p) <= Len(t) /\ \A i \in 1 .. Len(p) : p[i] = t[i]
  BY <1>1, PrefixIs DEF Texts, t
<1>4. \A i \in 1 .. Len(p) : p[i] \in DigitSymbols
  <2> SUFFICES ASSUME NEW i \in 1 .. Len(p) PROVE p[i] \in DigitSymbols
    OBVIOUS
  <2>1. i \in 1 .. Len(t)
    BY <1>2, <1>3
  <2>2. t[i] \in DigitSymbols
    BY <1>1, <2>1, ElementOfSeq DEF Numerals
  <2> QED
    BY <1>3, <2>2
<1>5. p \in Numerals
  BY <1>2, <1>4 DEF Numerals
<1>6. ReadBack(n)
  BY NumberBack
<1> QED
  BY <1>5, <1>6 DEF ReadBack, t

(* lox_parse_uintmax_strict reads the number that was written. *)
LEMMA NumberRead ==
  ASSUME NEW n \in Nat
  PROVE  NumberOf(Decimal(n)) = n
BY NumberBack DEF ReadBack

(* What the parser sees of an event line that was cut. *)
LEMMA EventValuesBack ==
  ASSUME NEW e, IsEvent(e), NEW p \in Texts, IsPrefix(p, EventLine(e)), Len(Tokens(p)) = 6
  PROVE  LET v == Values(p, EventKeys)
         IN  /\ v[1] = Decimal(e.kind) /\ v[2] = Encoded(e.block_name) /\ v[3] = Encoded(e.reason)
             /\ v[4] = Decimal(e.index) /\ v[5] = Decimal(e.limit)
             /\ v[6] \in Texts /\ IsPrefix(v[6], Decimal(e.aux_code))
             /\ p = EventLine(e) => v[6] = Decimal(e.aux_code)
<1> DEFINE v == Values(p, EventKeys)
           w == EventValues(e)
           f == EventFields(e)
<1>1. IsLineOf(f, EventKeys, w) /\ EventLine(e) = Joined(f) /\ Len(EventKeys) = 6
  BY EventLineIs, EventKeysAre
<1>2. /\ w[1] = Decimal(e.kind) /\ w[2] = Encoded(e.block_name) /\ w[3] = Encoded(e.reason)
      /\ w[4] = Decimal(e.index) /\ w[5] = Decimal(e.limit) /\ w[6] = Decimal(e.aux_code)
  BY SixIs DEF EventValues
<1> HIDE DEF w, f
<1>3. /\ \A i \in 1 .. Len(EventKeys) - 1 : v[i] = w[i]
      /\ v[Len(EventKeys)] \in Texts /\ IsPrefix(v[Len(EventKeys)], w[Len(EventKeys)])
      /\ p = Joined(f) => v[Len(EventKeys)] = w[Len(EventKeys)]
  <2>1. IsPrefix(p, Joined(f)) /\ Len(Tokens(p)) = Len(EventKeys)
    BY <1>1
  <2>2. ReadsBack(p, f, EventKeys, w)
    BY <1>1, <2>1, ValuesOfPrefix
  <2> QED
    BY <2>2 DEF ReadsBack
<1> HIDE DEF v
<1>4. 1 \in 1 .. 5 /\ 2 \in 1 .. 5 /\ 3 \in 1 .. 5 /\ 4 \in 1 .. 5 /\ 5 \in 1 .. 5 /\ 6 - 1 = 5
  OBVIOUS
<1>5. \A i \in 1 .. 5 : v[i] = w[i]
  BY <1>1, <1>3, <1>4
<1>6. v[6] \in Texts /\ IsPrefix(v[6], w[6]) /\ (p = EventLine(e) => v[6] = w[6])
  BY <1>1, <1>3
<1>7. v[1] = w[1] /\ v[2] = w[2] /\ v[3] = w[3] /\ v[4] = w[4] /\ v[5] = w[5]
  BY <1>4, <1>5
<1> QED
  BY <1>2, <1>6, <1>7 DEF v

(* A row as lox_blackbox_import_csv_buffer may store it for an event. *)
IsRowFor(e, r) ==
  /\ SameRow(e, r)
  /\ IsPrefix(Decimal(r.aux_code), Decimal(e.aux_code))
  /\ r.block_name \in Strings /\ Len(r.block_name) <= FieldMax
  /\ r.reason \in Strings /\ Len(r.reason) <= FieldMax

(* Of an event line cut anywhere, lox_event_parse_csv_line_ex accepts only what
   still has all fields, and only its aux code may have lost digits. *)
LEMMA EventReadBack ==
  ASSUME NEW e, IsEvent(e), NEW p \in Texts, IsPrefix(p, EventLine(e)), IsEventLine(p)
  PROVE  /\ IsRowFor(e, EventOfLine(p))
         /\ p = EventLine(e) => EventOfLine(p).aux_code = e.aux_code
<1> DEFINE v == Values(p, EventKeys)
           r == EventOfLine(p)
<1>1. Len(Tokens(p)) = 6 /\ v[6] # <<>>
  BY EventKeysAre DEF IsEventLine, IsNumber
<1>2. /\ v[1] = Decimal(e.kind) /\ v[2] = Encoded(e.block_name) /\ v[3] = Encoded(e.reason)
      /\ v[4] = Decimal(e.index) /\ v[5] = Decimal(e.limit)
      /\ v[6] \in Texts /\ IsPrefix(v[6], Decimal(e.aux_code))
      /\ p = EventLine(e) => v[6] = Decimal(e.aux_code)
  BY <1>1, EventValuesBack
<1>3. /\ r.kind = NumberOf(v[1]) /\ r.block_name = Decoded(v[2]) /\ r.reason = Decoded(v[3])
      /\ r.index = NumberOf(v[4]) /\ r.limit = NumberOf(v[5]) /\ r.aux_code = NumberOf(v[6])
  BY DEF EventOfLine
<1> HIDE DEF v, r
<1>4. e.kind \in Nat /\ e.index \in Nat /\ e.limit \in Nat /\ e.aux_code \in Nat
  BY LineFormatAssumption DEF IsEvent
<1>5. r.kind = e.kind /\ r.index = e.index /\ r.limit = e.limit
  BY <1>2, <1>3, <1>4, NumberRead
<1>6. /\ r.block_name \in Strings /\ Len(r.block_name) <= FieldMax
      /\ ComesBack(e.block_name, r.block_name)
  <2>1. e.block_name \in Strings
    BY DEF IsEvent
  <2>2. r.block_name = Decoded(Encoded(e.block_name))
    BY <1>2, <1>3
  <2> QED
    BY <2>1, <2>2, DecodedEncoded DEF ComesBack
<1>7. /\ r.reason \in Strings /\ Len(r.reason) <= FieldMax
      /\ ComesBack(e.reason, r.reason)
  <2>1. e.reason \in Strings
    BY DEF IsEvent
  <2>2. r.reason = Decoded(Encoded(e.reason))
    BY <1>2, <1>3
  <2> QED
    BY <2>1, <2>2, DecodedEncoded DEF ComesBack
<1>8. Decimal(r.aux_code) = v[6]
  BY <1>1, <1>2, <1>3, <1>4, NumeralPart
<1>9. p = EventLine(e) => r.aux_code = e.aux_code
  BY <1>2, <1>3, <1>4, NumberRead
<1>10. IsPrefix(Decimal(r.aux_code), Decimal(e.aux_code))
  BY <1>2, <1>8
<1> QED
  BY <1>5, <1>6, <1>7, <1>9, <1>10 DEF IsRowFor, SameRow, r

(* A whole event line is accepted unless a name is empty. *)
LEMMA EventLineAccepted ==
  ASSUME NEW e, IsEvent(e)
  PROVE  /\ EventLine(e) \in Texts /\ EventLine(e) # <<>>
         /\ EventLine(e) \in Seq(Symbols \ {"NL", "CR"})
         /\ IsEventLine(EventLine(e)) <=> e.block_name # <<>> /\ e.reason # <<>>
<1> DEFINE f == EventFields(e)
           p == EventLine(e)
           v == Values(p, EventKeys)
<1>1. /\ f \in Seq(Fields) /\ Len(f) = 6 /\ p = Joined(f)
  BY EventLineIs, EventKeysAre DEF IsLineOf
<1>2. f # <<>>
  BY <1>1, EmptySeq
<1> HIDE DEF f, p
<1>3. /\ p \in Texts /\ p # <<>> /\ p \in Seq(Symbols \ {"NL", "CR"}) /\ Tokens(p) = f
  BY <1>1, <1>2, TokensJoined
<1>4. IsPrefix(p, EventLine(e)) /\ Len(Tokens(p)) = 6
  BY <1>1, <1>3, PrefixItself DEF p, Texts
<1>5. /\ v[1] = Decimal(e.kind) /\ v[2] = Encoded(e.block_name) /\ v[3] = Encoded(e.reason)
      /\ v[4] = Decimal(e.index) /\ v[5] = Decimal(e.limit) /\ v[6] = Decimal(e.aux_code)
  BY <1>3, <1>4, EventValuesBack DEF p
<1> HIDE DEF v
<1>6. /\ IsNumber(v[1], KindMax) /\ IsNumber(v[4], SizeMax) /\ IsNumber(v[5], SizeMax)
      /\ IsNumber(v[6], U32Max)
  <2>1. /\ e.kind \in 0 .. KindMax /\ e.index \in 0 .. SizeMax /\ e.limit \in 0 .. SizeMax
        /\ e.aux_code \in 0 .. U32Max
    BY DEF IsEvent
  <2>2. /\ KindMax \in {KindMax, SizeMax, U32Max} /\ SizeMax \in {KindMax, SizeMax, U32Max}
        /\ U32Max \in {KindMax, SizeMax, U32Max}
    OBVIOUS
  <2>3. IsNumber(Decimal(e.kind), KindMax)
    BY <2>1, <2>2, DecimalRead
  <2>4. IsNumber(Decimal(e.index), SizeMax) /\ IsNumber(Decimal(e.limit), SizeMax)
    BY <2>1, <2>2, DecimalRead
  <2>5. IsNumber(Decimal(e.aux_code), U32Max)
    BY <2>1, <2>2, DecimalRead
  <2> QED
    BY <1>5, <2>3, <2>4, <2>5
<1>7. (IsText(v[2]) <=> e.block_name # <<>>) /\ (IsText(v[3]) <=> e.reason # <<>>)
  <2>1. e.block_name \in Strings /\ e.reason \in Strings
    BY DEF IsEvent
  <2> QED
    BY <1>5, <2>1, DecodedEncoded
<1>8. Len(Tokens(p)) = Len(EventKeys)
  BY <1>1, <1>3, EventKeysAre
<1>9. IsEventLine(p) <=> e.block_name # <<>> /\ e.reason # <<>>
  BY <1>6, <1>7, <1>8 DEF IsEventLine, v
<1> QED
  BY <1>3, <1>9 DEF p

(* A buffer's end leaves a beginning. *)
LEMMA CutIs ==
  ASSUME NEW S, NEW s \in Seq(S), NEW n \in Nat
  PROVE  /\ Cut(s, n) \in Seq(S) /\ IsPrefix(Cut(s, n), s) /\ Len(Cut(s, n)) <= n
         /\ Len(s) <= n => Cut(s, n) = s
<1>1. Len(s) \in Nat
  BY LenProperties
<1>2. CASE Len(s) <= n
  BY <1>2, PrefixItself DEF Cut
<1>3. CASE ~ (Len(s) <= n)
  <2>1. n \in 0 .. Len(s)
    BY <1>1, <1>3
  <2>2. Cut(s, n) = SubSeq(s, 1, n)
    BY <1>3 DEF Cut
  <2>3. /\ SubSeq(s, 1, n) \in Seq(S) /\ Len(SubSeq(s, 1, n)) = n
        /\ IsPrefix(SubSeq(s, 1, n), s)
    BY <2>1, SubSeqPrefix
  <2> QED
    BY <1>3, <2>2, <2>3
<1> QED
  BY <1>2, <1>3

-----------------------------------------------------------------------------
(* Report lines. *)

Flag(b) == IF b THEN 1 ELSE 0

ReportFields(r, kind) ==
  <<Field("block", Encoded(r.last_block)), Field("reason", Encoded(r.reason)),
    Field("result", Decimal(r.result)), Field("action", Decimal(r.action)),
    Field("event_kind", Decimal(kind)), Field("duration_ticks", Decimal(r.duration_ticks)),
    Field("event_persisted", Decimal(Flag(r.event_persisted)))>>

ReportValues(r, kind) ==
  <<Encoded(r.last_block), Encoded(r.reason), Decimal(r.result), Decimal(r.action),
    Decimal(kind), Decimal(r.duration_ticks), Decimal(Flag(r.event_persisted))>>

IsReport(r) ==
  /\ r.result \in Nat /\ r.action \in Nat /\ r.duration_ticks \in Nat
  /\ r.event_persisted \in BOOLEAN
  /\ r.last_block \in Strings /\ r.reason \in Strings

(* lox_report_format_kv joins these fields. *)
LEMMA ReportLineIs ==
  ASSUME NEW r, IsReport(r), NEW kind \in Nat
  PROVE  IsLineOf(ReportFields(r, kind), ReportKeys, ReportValues(r, kind))
<1> DEFINE v == ReportValues(r, kind)
           f == ReportFields(r, kind)
           n == Flag(r.event_persisted)
<1>1. r.result \in Nat /\ r.action \in Nat /\ r.duration_ticks \in Nat /\ n \in Nat
  BY DEF IsReport, Flag
<1>2. r.last_block \in Texts /\ r.reason \in Texts
  BY StringsAreTexts DEF IsReport
<1>3. /\ Encoded(r.last_block) \in Seq(Plain) /\ Encoded(r.reason) \in Seq(Plain)
      /\ Decimal(r.result) \in Seq(Plain) /\ Decimal(r.action) \in Seq(Plain)
      /\ Decimal(kind) \in Seq(Plain) /\ Decimal(r.duration_ticks) \in Seq(Plain)
      /\ Decimal(n) \in Seq(Plain)
  BY <1>1, <1>2, NumeralsArePlain, EncodedPlain
<1> HIDE DEF n
<1>4. v \in Seq(Seq(Plain)) /\ Len(v) = 7
  BY <1>3, SevenIs DEF ReportValues, n
<1>5. /\ v[1] = Encoded(r.last_block) /\ v[2] = Encoded(r.reason)
      /\ v[3] = Decimal(r.result) /\ v[4] = Decimal(r.action) /\ v[5] = Decimal(kind)
      /\ v[6] = Decimal(r.duration_ticks) /\ v[7] = Decimal(n)
  BY SevenIs DEF ReportValues, n
<1>6. /\ "block" \in Plain /\ "reason" \in Plain /\ "result" \in Plain /\ "action" \in Plain
      /\ "event_kind" \in Plain /\ "duration_ticks" \in Plain /\ "event_persisted" \in Plain
  <2>1. \A i \in 1 .. 7 : ReportKeys[i] \in Plain
    BY ReportKeysAre, ElementOfSeq
  <2> QED
    BY <2>1, ReportKeysAre
<1>7. f \in Seq(Fields) /\ Len(f) = 7
  <2>1. /\ Field("block", Encoded(r.last_block)) \in Fields
        /\ Field("reason", Encoded(r.reason)) \in Fields
        /\ Field("result", Decimal(r.result)) \in Fields
        /\ Field("action", Decimal(r.action)) \in Fields
        /\ Field("event_kind", Decimal(kind)) \in Fields
        /\ Field("duration_ticks", Decimal(r.duration_ticks)) \in Fields
        /\ Field("event_persisted", Decimal(n)) \in Fields
    BY <1>3, <1>6, FieldIs
  <2> QED
    BY <2>1, SevenIs DEF ReportFields, n
<1>8. /\ f[1] = Field("block", v[1]) /\ f[2] = Field("reason", v[2])
      /\ f[3] = Field("result", v[3]) /\ f[4] = Field("action", v[4])
      /\ f[5] = Field("event_kind", v[5]) /\ f[6] = Field("duration_ticks", v[6])
      /\ f[7] = Field("event_persisted", v[7])
  BY <1>5, SevenIs DEF ReportFields, n
<1> HIDE DEF f, v
<1>9. \A i \in 1 .. 7 : f[i] = Field(ReportKeys[i], v[i])
  <2>1. \A i \in 1 .. 7 : i = 1 \/ i = 2 \/ i = 3 \/ i = 4 \/ i = 5 \/ i = 6 \/ i = 7
    OBVIOUS
  <2> QED
    BY <1>8, <2>1, ReportKeysAre
<1>10. ReportKeys # <<>>
  BY ReportKeysAre, EmptySeq
<1>11. IsLineOf(f, ReportKeys, v)
  BY <1>4, <1>7, <1>9, <1>10, ReportKeysAre DEF IsLineOf
<1> QED
  BY <1>11 DEF f, v

(* A report line in a buffer is the beginning of it. *)
LEMMA ReportLineCut ==
  ASSUME NEW r, IsReport(r), NEW kind \in Nat, NEW room \in Nat
  PROVE  /\ ReportFormatKv(r, kind, room) \in Texts
         /\ IsPrefix(ReportFormatKv(r, kind, room), Joined(ReportFields(r, kind)))
<1> DEFINE f == ReportFields(r, kind)
<1>1. f \in Seq(Fields) /\ Len(f) = 7
  BY ReportLineIs, ReportKeysAre DEF IsLineOf
<1>2. ReportFormatKv(r, kind, room) = Cut(Joined(f), room)
  BY DEF ReportFormatKv, ReportFields, Flag
<1> HIDE DEF f
<1>3. Joined(f) \in Texts
  <2>1. f # <<>>
    BY <1>1, EmptySeq
  <2> QED
    BY <1>1, <2>1, TokensJoined
<1>4. Cut(Joined(f), room) \in Texts /\ IsPrefix(Cut(Joined(f), room), Joined(f))
  BY <1>3, CutIs DEF Texts
<1> QED
  BY <1>2, <1>4 DEF f

(* The beginning of a digit that is not empty is the digit. *)
LEMMA DigitPart ==
  ASSUME NEW b \in 0 .. 1, NEW p \in Texts, IsPrefix(p, Decimal(b)), p # <<>>
  PROVE  NumberOf(p) = b
<1> DEFINE c == Digits[b + 1]
           t == <<c>>
<1>1. Decimal(b) = t /\ b \in Nat
  <2>1. b \in Nat /\ b < 10
    OBVIOUS
  <2> QED
    BY <2>1, DecimalIs
<1>2. c \in Symbols
  <2>1. b \in 0 .. 9
    OBVIOUS
  <2>2. c \in DigitSymbols
    BY <2>1, DigitOfIs
  <2> HIDE DEF c
  <2> QED
    BY <2>2, DigitsArePlain DEF Plain
<1>3. t \in Seq(Symbols) /\ Len(t) = 1 /\ t[1] = c
  BY <1>2, TupleIs, TupleType
<1> HIDE DEF t
<1>4. p \in Seq(Symbols) /\ Len(p) \in Nat /\ Len(p) # 0
  BY EmptySeq DEF Texts
<1>5. Len(p) <= Len(t) /\ \A i \in 1 .. Len(p) : p[i] = t[i]
  BY <1>1, <1>3, <1>4, PrefixIs
<1>6. p = t
  BY <1>3, <1>4, <1>5, SeqEqual
<1> QED
  BY <1>1, <1>6, NumberRead

(* Of a report line cut anywhere, lox_report_parse_kv_ex accepts only the whole
   line, and gives back what was formatted. *)
LEMMA ReportReadBack ==
  ASSUME NEW r, IsReport(r), NEW kind \in Nat, NEW room \in Nat,
         IsReportLine(ReportFormatKv(r, kind, room))
  PROVE  LET line == ReportFormatKv(r, kind, room)
         IN  /\ NumbersOf(ReportOfLine(line)) = NumbersOf(r)
             /\ KindOfLine(line) = kind
             /\ ComesBack(r.last_block, ReportOfLine(line).last_block)
             /\ ComesBack(r.reason, ReportOfLine(line).reason)
<1> DEFINE p == ReportFormatKv(r, kind, room)
           v == Values(p, ReportKeys)
           w == ReportValues(r, kind)
           f == ReportFields(r, kind)
           n == Flag(r.event_persisted)
           o == ReportOfLine(p)
<1>1. IsLineOf(f, ReportKeys, w) /\ p \in Texts /\ IsPrefix(p, Joined(f))
  BY ReportLineIs, ReportLineCut
<1>2. /\ w[1] = Encoded(r.last_block) /\ w[2] = Encoded(r.reason)
      /\ w[3] = Decimal(r.result) /\ w[4] = Decimal(r.action) /\ w[5] = Decimal(kind)
      /\ w[6] = Decimal(r.duration_ticks) /\ w[7] = Decimal(n)
  BY SevenIs DEF ReportValues
<1>3. IsReportLine(p)
  OBVIOUS
<1> HIDE DEF p, w, f, n
<1>4. Len(Tokens(p)) = Len(ReportKeys) /\ Len(ReportKeys) = 7 /\ v[7] # <<>>
  BY <1>3, ReportKeysAre DEF IsReportLine, IsNumber
<1>5. ReadsBack(p, f, ReportKeys, w)
  BY <1>1, <1>4, ValuesOfPrefix
<1>6. /\ \A i \in 1 .. 6 : v[i] = w[i]
      /\ v[7] \in Texts /\ IsPrefix(v[7], w[7])
  <2>1. Len(ReportKeys) - 1 = 6
    BY <1>4
  <2> QED
    BY <1>4, <1>5, <2>1 DEF ReadsBack
<1>7. /\ o.last_block = Decoded(v[1]) /\ o.reason = Decoded(v[2]) /\ o.result = NumberOf(v[3])
      /\ o.action = NumberOf(v[4]) /\ o.duration_ticks = NumberOf(v[6])
      /\ o.event_persisted = (NumberOf(v[7]) = 1)
  BY DEF ReportOfLine
<1>8. KindOfLine(p) = NumberOf(v[5])
  BY DEF KindOfLine
<1> HIDE DEF v, o
<1>9. /\ v[1] = w[1] /\ v[2] = w[2] /\ v[3] = w[3] /\ v[4] = w[4] /\ v[5] = w[5] /\ v[6] = w[6]
  <2>1. 1 \in 1 .. 6 /\ 2 \in 1 .. 6 /\ 3 \in 1 .. 6 /\ 4 \in 1 .. 6 /\ 5 \in 1 .. 6 /\ 6 \in 1 .. 6
    OBVIOUS
  <2> QED
    BY <1>6, <2>1
<1>10. o.result = r.result /\ o.action = r.action /\ o.duration_ticks = r.duration_ticks
  BY <1>2, <1>7, <1>9, NumberRead DEF IsReport
<1>11. KindOfLine(p) = kind
  BY <1>2, <1>8, <1>9, NumberRead
<1>12. n \in 0 .. 1 /\ (n = 1 <=> r.event_persisted)
  BY DEF n, Flag, IsReport
<1>13. NumberOf(v[7]) = n
  BY <1>2, <1>4, <1>6, <1>12, DigitPart
<1>14. o.event_persisted = r.event_persisted
  <2>1. CASE r.event_persisted = TRUE
    <3>1. n = 1
      BY <1>12, <2>1
    <3>2. (NumberOf(v[7]) = 1) = TRUE
      BY <1>13, <3>1
    <3> QED
      BY <1>7, <2>1, <3>2
  <2>2. CASE r.event_persisted = FALSE
    <3>1. n # 1
      BY <1>12, <2>2
    <3>2. (NumberOf(v[7]) = 1) = FALSE
      BY <1>13, <3>1
    <3> QED
      BY <1>7, <2>2, <3>2
  <2>3. r.event_persisted \in BOOLEAN
    BY DEF IsReport
  <2> QED
    BY <2>1, <2>2, <2>3
<1>15. NumbersOf(o) = NumbersOf(r)
  BY <1>10, <1>14 DEF NumbersOf
<1>16. ComesBack(r.last_block, o.last_block) /\ ComesBack(r.reason, o.reason)
  <2>1. r.last_block \in Strings /\ r.reason \in Strings
    BY DEF IsReport
  <2>2. ComesBack(r.last_block, Decoded(Encoded(r.last_block)))
    BY <2>1, DecodedEncoded DEF ComesBack
  <2>3. ComesBack(r.reason, Decoded(Encoded(r.reason)))
    BY <2>1, DecodedEncoded DEF ComesBack
  <2> QED
    BY <1>2, <1>7, <1>9, <2>2, <2>3
<1> QED
  BY <1>11, <1>15, <1>16 DEF p, o

-----------------------------------------------------------------------------
(* The text of an export, and its lines. *)

(* What lox_blackbox_store keeps of a name fits its field. *)
LEMMA KeptIs ==
  ASSUME NEW text, text = <<"NULL">> \/ IsString(text)
  PROVE  Kept(text) \in Strings /\ Len(Kept(text)) <= FieldMax
<1>1. NoneText \in Strings /\ Len(NoneText) <= FieldMax
  BY SamplesAssumption DEF IsString, Strings
<1>2. CASE text = <<"NULL">>
  BY <1>1, <1>2 DEF Kept
<1>3. CASE text # <<"NULL">>
  <2>1. text \in Seq(Symbols \ {"NUL"}) /\ FieldMax \in Nat
    BY <1>3, LineFormatAssumption DEF IsString
  <2>2. Kept(text) = Cut(text, FieldMax)
    BY <1>3 DEF Kept
  <2> QED
    BY <2>1, <2>2, CutIs DEF Strings
<1> QED
  BY <1>2, <1>3

(* Every row a box can hold is an event that can be written. *)
LEMMA RowsAreEvents ==
  ASSUME NEW e \in Rows
  PROVE  /\ IsEvent(e)
         /\ e.index \in Indices
         /\ Len(e.block_name) <= FieldMax /\ Len(e.reason) <= FieldMax
<1>1. PICK x \in Samples, i \in Indices : e = Row(x, i)
  BY DEF Rows
<1>2. /\ x.kind \in 0 .. KindMax /\ x.limit \in 0 .. SizeMax /\ x.aux_code \in 0 .. U32Max
      /\ x.block_name = <<"NULL">> \/ IsString(x.block_name)
      /\ x.reason = <<"NULL">> \/ IsString(x.reason)
  BY SamplesAssumption
<1>3. /\ e.kind = x.kind /\ e.block_name = Kept(x.block_name) /\ e.reason = Kept(x.reason)
      /\ e.index = i /\ e.limit = x.limit /\ e.aux_code = x.aux_code
  BY <1>1 DEF Row
<1>4. i \in 0 .. SizeMax
  BY SamplesAssumption, LineFormatAssumption, ExportAssumption DEF Indices
<1>5. /\ e.block_name \in Strings /\ Len(e.block_name) <= FieldMax
      /\ e.reason \in Strings /\ Len(e.reason) <= FieldMax
  BY <1>2, <1>3, KeptIs
<1> QED
  BY <1>2, <1>3, <1>4, <1>5 DEF IsEvent

HeaderFields == [i \in 1 .. 6 |-> <<EventKeys[i]>>]

(* k_csv_schema_header is a line of tokens that are keys alone. *)
LEMMA HeaderIs ==
  /\ Header \in Seq(Symbols \ {"NL", "CR"}) /\ Header \in Texts /\ Header # <<>>
  /\ SplitAt(Header, {","}) = HeaderFields
  /\ Len(HeaderFields) = 6 /\ HeaderFields[1] = <<EventKeys[1]>>
<1>1. \A i \in 1 .. 6 : EventKeys[i] \in Plain
  BY EventKeysAre, ElementOfSeq
<1>2. \A i \in 1 .. 6 : <<EventKeys[i]>> \in Fields
  <2> SUFFICES ASSUME NEW i \in 1 .. 6 PROVE <<EventKeys[i]>> \in Fields
    OBVIOUS
  <2> DEFINE k == EventKeys[i]
  <2>1. k \in Plain
    BY <1>1
  <2> HIDE DEF k
  <2>2. <<k>> \in Seq(Plain) /\ Len(<<k>>) = 1
    BY <2>1, TupleIs, TupleType
  <2>3. <<k>> # <<>>
    BY <2>2, EmptySeq
  <2> QED
    BY <2>2, <2>3 DEF Fields, k
<1>3. HeaderFields \in Seq(Fields) /\ Len(HeaderFields) = 6
  BY <1>2 DEF HeaderFields
<1>4. HeaderFields # <<>>
  BY <1>3, EmptySeq
<1>5. Header = Joined(HeaderFields)
  <2>1. DOMAIN EventKeys = 1 .. 6
    BY DEF EventKeys
  <2> QED
    BY <2>1, Zenon DEF Header, HeaderFields
<1>6. HeaderFields[1] = <<EventKeys[1]>>
  BY DEF HeaderFields
<1>7. /\ Joined(HeaderFields) \in Texts /\ Joined(HeaderFields) # <<>>
      /\ Joined(HeaderFields) \in Seq(Symbols \ {"NL", "CR"})
      /\ SplitAt(Joined(HeaderFields), {","}) = HeaderFields
  BY <1>3, <1>4, TokensJoined
<1> QED
  BY <1>3, <1>5, <1>6, <1>7

(* The header, or what is left of it, is no event line. *)
LEMMA HeaderNoEvent ==
  ASSUME NEW p \in Texts, IsPrefix(p, Header)
  PROVE  ~ IsEventLine(p)
<1> SUFFICES ASSUME IsEventLine(p)
             PROVE  FALSE
  OBVIOUS
<1> DEFINE tokens == Tokens(p)
           v == Values(p, EventKeys)
<1>1. Len(tokens) = 6 /\ v[1] # <<>>
  BY EventKeysAre DEF IsEventLine, IsNumber
<1>2. v[1] = ValueOf(tokens[1], EventKeys[1])
  <2>1. 1 \in 1 .. Len(EventKeys) /\ 1 <= Len(tokens)
    BY <1>1, EventKeysAre
  <2> QED
    BY <2>1 DEF Values
<1>3. p # <<>>
  <2>1. p = <<>> => Len(tokens) = 0
    BY EmptySeq DEF Tokens
  <2> QED
    BY <1>1, <2>1
<1>4. tokens = SplitAt(p, {","})
  BY <1>3 DEF Tokens
<1>5. GoesOn(SplitAt(p, {","}), SplitAt(Header, {","}))
  BY HeaderIs, SplitPrefix
<1> HIDE DEF tokens, v
<1>6. tokens[1] = HeaderFields[1]
  <2>1. 1 \in 1 .. Len(tokens) - 1
    BY <1>1
  <2> QED
    BY <1>4, <1>5, <2>1, HeaderIs DEF GoesOn
<1>7. Len(tokens[1]) = 1
  <2> DEFINE k == EventKeys[1]
  <2>1. tokens[1] = <<k>>
    BY <1>6, HeaderIs
  <2> HIDE DEF k
  <2>2. Len(<<k>>) = 1
    BY TupleIs
  <2> QED
    BY <2>1, <2>2
<1>8. ValueOf(tokens[1], EventKeys[1]) = <<>>
  BY <1>7 DEF ValueOf
<1> QED
  BY <1>1, <1>2, <1>8

(* An empty line is no event line. *)
LEMMA EmptyNoEvent == ~ IsEventLine(<<>>)
<1>1. Len(Tokens(<<>>)) = 0
  BY EmptySeq DEF Tokens
<1>2. ASSUME IsEventLine(<<>>)
      PROVE  Len(Tokens(<<>>)) = Len(EventKeys)
  BY <1>2 DEF IsEventLine
<1> QED
  BY <1>1, <1>2, EventKeysAre

Ends == {"NL", "CR"}

RowLines(rows) == [i \in 1 .. Len(rows) |-> EventFormatCsv(rows[i], LineMax)]

(* A row's line, cut to the line buffer, is not empty and has no end in it. *)
LEMMA RowLineIs ==
  ASSUME NEW e \in Rows
  PROVE  /\ EventFormatCsv(e, LineMax) \in Seq(Symbols \ Ends) \ {<<>>}
         /\ EventFormatCsv(e, LineMax) \in Texts
         /\ IsPrefix(EventFormatCsv(e, LineMax), EventLine(e))
         /\ Len(EventLine(e)) <= LineMax => EventFormatCsv(e, LineMax) = EventLine(e)
<1> DEFINE l == EventLine(e)
           c == Cut(l, LineMax)
<1>1. l \in Texts /\ l # <<>> /\ l \in Seq(Symbols \ Ends)
  BY RowsAreEvents, EventLineAccepted DEF Ends
<1>2. EventFormatCsv(e, LineMax) = c /\ LineMax \in Nat /\ LineMax > 0
  BY LineFormatAssumption DEF EventFormatCsv
<1> HIDE DEF l
<1>3. /\ c \in Seq(Symbols \ Ends) /\ IsPrefix(c, l) /\ (Len(l) <= LineMax => c = l)
  BY <1>1, <1>2, CutIs
<1>4. c \in Texts
  BY <1>1, <1>2, CutIs DEF Texts
<1>5. c # <<>>
  <2>1. CASE Len(l) <= LineMax
    BY <1>1, <1>3, <2>1
  <2>2. CASE ~ (Len(l) <= LineMax)
    <3>1. Len(l) \in Nat /\ LineMax \in 0 .. Len(l)
      BY <1>1, <1>2, <2>2, LenProperties
    <3>2. c = SubSeq(l, 1, LineMax)
      BY <2>2 DEF Cut
    <3>3. Len(c) = LineMax
      BY <1>1, <3>1, <3>2, SubSeqPrefix
    <3> HIDE DEF c
    <3> QED
      BY <1>2, <3>3, EmptySeq
  <2> QED
    BY <2>1, <2>2
<1> QED
  BY <1>2, <1>3, <1>4, <1>5 DEF l

(* The lines of an export. *)
LEMMA RowLinesAre ==
  ASSUME NEW rows \in Seq(Rows)
  PROVE  /\ RowLines(rows) \in Seq(Seq(Symbols \ Ends) \ {<<>>})
         /\ RowLines(rows) \in Seq(Texts) /\ Len(RowLines(rows)) = Len(rows)
         /\ [i \in DOMAIN rows |-> EventFormatCsv(rows[i], LineMax)] = RowLines(rows)
<1> DEFINE P == Seq(Symbols \ Ends) \ {<<>>}
           n == Len(rows)
           L(e) == EventFormatCsv(e, LineMax)
<1>1. n \in Nat /\ DOMAIN rows = 1 .. n /\ \A i \in 1 .. n : rows[i] \in Rows
  BY LenProperties, ElementOfSeq
<1>2. \A i \in 1 .. n : L(rows[i]) \in P /\ L(rows[i]) \in Texts
  BY <1>1, RowLineIs
<1> HIDE DEF P, L, n
<1>3. /\ [i \in 1 .. n |-> L(rows[i])] \in Seq(P)
      /\ [i \in 1 .. n |-> L(rows[i])] \in Seq(Texts)
      /\ Len([i \in 1 .. n |-> L(rows[i])]) = n
  BY <1>1, <1>2
<1>4. [i \in DOMAIN rows |-> L(rows[i])] = [i \in 1 .. n |-> L(rows[i])]
  BY <1>1
<1>5. RowLines(rows) = [i \in 1 .. n |-> L(rows[i])]
  BY DEF RowLines, L, n
<1> QED
  BY <1>3, <1>4, <1>5 DEF P, L, n

Body(rows) == JoinedBy("NL", RowLines(rows))
Heading(header) == IF header THEN <<Header>> ELSE <<>>
BodyLines(rows) == IF rows = <<>> THEN << <<>> >> ELSE RowLines(rows)

(* Splitting the rows' text at line ends gives their lines. *)
LEMMA BodyIs ==
  ASSUME NEW rows \in Seq(Rows)
  PROVE  Body(rows) \in Texts /\ SplitAt(Body(rows), Ends) = BodyLines(rows)
<1>1. "NL" \in Symbols /\ "NL" \in Ends
  BY HexIs DEF Reserved, Ends
<1>2. RowLines(rows) \in Seq(Texts) /\ RowLines(rows) \in Seq(Seq(Symbols \ Ends) \ {<<>>})
      /\ Len(RowLines(rows)) = Len(rows)
  BY RowLinesAre
<1>3. Body(rows) \in Texts
  BY <1>1, <1>2, JoinedByIs DEF Body
<1>4. CASE rows = <<>>
  <2>1. RowLines(rows) = <<>>
    BY <1>2, <1>4, EmptySeq
  <2>2. Body(rows) = <<>>
    BY <1>1, <2>1, JoinedByIs DEF Body
  <2>3. SplitAt(<<>>, Ends) = << <<>> >>
    BY SplitAtIs
  <2> QED
    BY <1>3, <1>4, <2>2, <2>3 DEF BodyLines
<1>5. CASE rows # <<>>
  <2>1. RowLines(rows) # <<>>
    BY <1>2, <1>5, EmptySeq
  <2>2. SplitAt(JoinedBy("NL", RowLines(rows)), Ends) = RowLines(rows)
    BY <1>1, <1>2, <2>1, SplitJoined
  <2> QED
    BY <1>3, <1>5, <2>2 DEF Body, BodyLines
<1> QED
  BY <1>4, <1>5

(* Splitting the whole text gives the header and the rows' lines. *)
LEMMA FullTextIs ==
  ASSUME NEW rows \in Seq(Rows), NEW header \in BOOLEAN
  PROVE  /\ FullText(rows, header) \in Texts
         /\ SplitAt(FullText(rows, header), Ends) = Heading(header) \o BodyLines(rows)
<1> DEFINE b == Body(rows)
<1>1. b \in Texts /\ SplitAt(b, Ends) = BodyLines(rows)
  BY BodyIs
<1>2. [i \in DOMAIN rows |-> EventFormatCsv(rows[i], LineMax)] = RowLines(rows)
  BY RowLinesAre
<1>3. FullText(rows, header) = (IF header THEN Header \o <<"NL">> ELSE <<>>) \o b
  BY <1>2 DEF FullText, Body
<1> HIDE DEF b
<1>4. CASE header = TRUE
  <2> DEFINE h == Header \o <<"NL">>
  <2>1. "NL" \in Symbols /\ "NL" \in Ends
    BY HexIs DEF Reserved, Ends
  <2>2. Header \in Texts /\ Header \in Seq(Symbols \ Ends)
    BY HeaderIs DEF Ends
  <2>3. <<"NL">> \in Texts
    BY <2>1, TupleType DEF Texts
  <2>4. h \in Texts
    BY <2>2, <2>3, ConcatProperties DEF Texts
  <2>5. SplitAt(h \o b, Ends) = SplitAt(Header, Ends) \o SplitAt(b, Ends)
    BY <1>1, <2>1, <2>2, SplitBoth
  <2>6. SplitAt(Header, Ends) = <<Header>>
    BY <2>2, SplitOnePart
  <2>7. FullText(rows, header) = h \o b
    BY <1>3, <1>4
  <2>8. h \o b \in Texts
    <3> HIDE DEF h
    <3> QED
      BY <1>1, <2>4, ConcatProperties DEF Texts
  <2> HIDE DEF h
  <2>9. Heading(header) = <<Header>>
    BY <1>4 DEF Heading
  <2> QED
    BY <1>1, <2>5, <2>6, <2>7, <2>8, <2>9
<1>5. CASE header = FALSE
  <2>1. FullText(rows, header) = <<>> \o b
    BY <1>3, <1>5
  <2>2. <<>> \o b = b
    BY <1>1, ConcatEmptySeq DEF Texts
  <2>3. BodyLines(rows) \in Seq(Texts)
    <3>1. SplitAt(b, Ends) \in PartLists
      BY <1>1, SplitAtIs DEF Texts
    <3> QED
      BY <1>1, <3>1, PartListIs
  <2>4. Heading(header) = <<>>
    BY <1>5 DEF Heading
  <2>5. <<>> \o BodyLines(rows) = BodyLines(rows)
    BY <2>3, ConcatEmptySeq
  <2> QED
    BY <1>1, <2>1, <2>2, <2>4, <2>5
<1> QED
  BY <1>4, <1>5

(* What a line of a text of these rows may be, however the text was cut. *)
PartsOf(rows) ==
  {c \in Texts : c = <<>> \/ IsPrefix(c, Header)
                 \/ \E i \in 1 .. Len(rows) : IsPrefix(c, EventLine(rows[i]))}

(* A beginning of such a line is such a line. *)
LEMMA PartsOfPrefix ==
  ASSUME NEW rows \in Seq(Rows), NEW c \in PartsOf(rows), NEW p \in Texts, IsPrefix(p, c)
  PROVE  p \in PartsOf(rows)
<1>1. c \in Texts /\ Texts = Seq(Symbols)
  BY DEF PartsOf, Texts
<1>2. CASE c = <<>>
  <2>1. Len(p) <= Len(<<>>)
    BY <1>1, <1>2, PrefixIs
  <2>2. p = <<>>
    BY <1>1, <2>1, EmptySeq
  <2> QED
    BY <2>2 DEF PartsOf
<1>3. CASE IsPrefix(c, Header)
  <2>1. IsPrefix(p, Header)
    BY <1>1, <1>3, HeaderIs, PrefixTransitive
  <2> QED
    BY <2>1 DEF PartsOf
<1>4. CASE \E i \in 1 .. Len(rows) : IsPrefix(c, EventLine(rows[i]))
  <2>1. PICK i \in 1 .. Len(rows) : IsPrefix(c, EventLine(rows[i]))
    BY <1>4
  <2>2. rows[i] \in Rows
    BY <2>1, ElementOfSeq
  <2>3. EventLine(rows[i]) \in Texts
    BY <2>2, RowsAreEvents, EventLineAccepted
  <2>4. IsPrefix(p, EventLine(rows[i]))
    BY <1>1, <2>1, <2>3, PrefixTransitive
  <2> QED
    BY <2>4 DEF PartsOf
<1> QED
  BY <1>2, <1>3, <1>4 DEF PartsOf

(* The whole text has such lines only. *)
LEMMA FullTextParts ==
  ASSUME NEW rows \in Seq(Rows), NEW header \in BOOLEAN
  PROVE  Heading(header) \o BodyLines(rows) \in Seq(PartsOf(rows))
<1>1. <<>> \in Texts /\ Header \in Texts /\ IsPrefix(Header, Header)
  BY HeaderIs, EmptySeq, PrefixItself DEF Texts
<1>2. <<>> \in PartsOf(rows) /\ Header \in PartsOf(rows)
  BY <1>1 DEF PartsOf
<1>3. Heading(header) \in Seq(PartsOf(rows))
  BY <1>2, EmptySeq, TupleType DEF Heading
<1>4. RowLines(rows) \in Seq(PartsOf(rows))
  <2> DEFINE n == Len(rows)
  <2>1. ASSUME NEW i \in 1 .. n
        PROVE  EventFormatCsv(rows[i], LineMax) \in PartsOf(rows)
    <3>1. rows[i] \in Rows
      BY ElementOfSeq
    <3>2. /\ EventFormatCsv(rows[i], LineMax) \in Texts
          /\ IsPrefix(EventFormatCsv(rows[i], LineMax), EventLine(rows[i]))
      BY <3>1, RowLineIs
    <3> QED
      BY <3>2 DEF PartsOf
  <2>2. n \in Nat
    BY LenProperties
  <2> QED
    BY <2>1, <2>2 DEF RowLines
<1>5. BodyLines(rows) \in Seq(PartsOf(rows))
  BY <1>2, <1>4, TupleType DEF BodyLines
<1> QED
  BY <1>3, <1>5, ConcatProperties

(* So has a text cut anywhere. *)
LEMMA CutTextParts ==
  ASSUME NEW rows \in Seq(Rows), NEW header \in BOOLEAN, NEW room \in Nat
  PROVE  /\ Cut(FullText(rows, header), room) \in Texts
         /\ SplitAt(Cut(FullText(rows, header), room), Ends) \in Seq(PartsOf(rows))
<1> DEFINE full == FullText(rows, header)
           p == Cut(full, room)
           u == SplitAt(full, Ends)
           v == SplitAt(p, Ends)
<1>1. full \in Texts /\ u \in Seq(PartsOf(rows))
  BY FullTextIs, FullTextParts
<1> HIDE DEF full
<1>2. p \in Texts /\ IsPrefix(p, full)
  BY <1>1, CutIs DEF Texts
<1> HIDE DEF p
<1>3. v \in PartLists /\ u \in PartLists /\ GoesOn(v, u)
  BY <1>1, <1>2, SplitAtIs, SplitPrefix DEF Texts
<1> HIDE DEF u, v
<1>4. v \in Seq(Texts) /\ Len(v) \in Nat /\ Len(v) >= 1 /\ Len(u) \in Nat
  BY <1>3, PartListIs
<1>5. Len(v) <= Len(u) /\ (\A i \in 1 .. Len(v) - 1 : v[i] = u[i]) /\ IsPrefix(v[Len(v)], u[Len(v)])
  BY <1>3 DEF GoesOn
<1>6. \A i \in 1 .. Len(v) : v[i] \in PartsOf(rows)
  <2> SUFFICES ASSUME NEW i \in 1 .. Len(v) PROVE v[i] \in PartsOf(rows)
    OBVIOUS
  <2>1. i \in 1 .. Len(u)
    BY <1>4, <1>5
  <2>2. u[i] \in PartsOf(rows) /\ v[i] \in Texts
    BY <1>1, <1>4, <2>1, ElementOfSeq
  <2>3. CASE i = Len(v)
    <3>1. IsPrefix(v[i], u[i])
      BY <1>5, <2>3
    <3> QED
      BY <2>2, <3>1, PartsOfPrefix
  <2>4. CASE i # Len(v)
    <3>1. i \in 1 .. Len(v) - 1
      BY <1>4, <2>4
    <3> QED
      BY <1>5, <2>2, <3>1
  <2> QED
    BY <2>3, <2>4
<1>7. v \in Seq(PartsOf(rows))
  BY <1>4, <1>6
<1> QED
  BY <1>2, <1>7 DEF p, v, full

-----------------------------------------------------------------------------
(* The import, line by line. *)

ReadEvents == {EventOfLine(l) : l \in Texts}
ReadRows == Seq(ReadEvents)

(* What lines are imported into. *)
ImportOf(lines) ==
  LET upTo[k \in 0 .. Len(lines)] ==
        IF k = 0 THEN <<>>
        ELSE LET line == Cut(lines[k], LineMax)
             IN  IF ~IsSchema(line) /\ IsEventLine(line)
                 THEN Stored(upTo[k - 1], EventOfLine(line)) ELSE upTo[k - 1]
  IN  upTo[Len(lines)]

(* Storing keeps the type of a log. *)
LEMMA StoredType ==
  ASSUME NEW S, NEW v \in Seq(S), NEW e \in S
  PROVE  Stored(v, e) \in Seq(S)
<1>1. CASE Len(v) < Capacity
  BY <1>1, AppendProperties DEF Stored
<1>2. CASE ~ (Len(v) < Capacity)
  <2>1. v # <<>>
    BY <1>2, CapacityAssumption, EmptySeq
  <2>2. Tail(v) \in Seq(S)
    BY <2>1, HeadTailProperties
  <2> QED
    BY <1>2, <2>2, AppendProperties DEF Stored
<1> QED
  BY <1>1, <1>2

ImportOfNext(v, c) == 
  LET line == Cut(c, LineMax)
  IN  IF ~IsSchema(line) /\ IsEventLine(line) THEN Stored(v, EventOfLine(line)) ELSE v

ImportOfAlong(lines, h) ==
  [k \in 0 .. Len(lines) |-> IF k = 0 THEN <<>> ELSE ImportOfNext(h[k - 1], lines[k])]

(* Importing goes along the lines. *)
LEMMA ImportOfFolds ==
  \E F \in [Seq(Texts) -> ReadRows] :
           /\ F[<<>>] = <<>>
           /\ \A lines \in Seq(Texts) : \A c \in Texts :
                 F[Append(lines, c)] = ImportOfNext(F[lines], c)
           /\ \A lines \in Seq(Texts) : ImportOf(lines) = F[lines]
<1> DEFINE act == [v \in ReadRows |-> [c \in Texts |-> ImportOfNext(v, c)]]
<1>1. act \in [ReadRows -> [Texts -> ReadRows]]
  <2>1. \A v \in ReadRows : \A c \in Texts : ImportOfNext(v, c) \in ReadRows
    <3> SUFFICES ASSUME NEW v \in ReadRows, NEW c \in Texts
                 PROVE  ImportOfNext(v, c) \in ReadRows
      OBVIOUS
    <3>1. Cut(c, LineMax) \in Texts
      BY CutIs, LineFormatAssumption DEF Texts
    <3>2. EventOfLine(Cut(c, LineMax)) \in ReadEvents
      BY <3>1 DEF ReadEvents
    <3>3. Stored(v, EventOfLine(Cut(c, LineMax))) \in ReadRows
      BY <3>2, StoredType DEF ReadRows
    <3> QED
      BY <3>3 DEF ImportOfNext
  <2> QED
    BY <2>1
<1>2. \A v \in ReadRows : \A c \in Texts : act[v][c] = ImportOfNext(v, c)
  OBVIOUS
<1> HIDE DEF act
<1>3. <<>> \in ReadRows
  BY EmptySeq DEF ReadRows
<1>4. PICK F \in FoldsOf(Texts, ReadRows, <<>>, act) : TRUE
  <2>1. FoldsOf(Texts, ReadRows, <<>>, act) # {}
    BY <1>1, <1>3, FoldsExist
  <2> QED
    BY <2>1
<1>5. /\ F \in [Seq(Texts) -> ReadRows] /\ F[<<>>] = <<>>
      /\ \A lines \in Seq(Texts) : \A c \in Texts : F[Append(lines, c)] = act[F[lines]][c]
  BY <1>4 DEF FoldsOf
<1>6. \A lines \in Seq(Texts) : \A c \in Texts : F[Append(lines, c)] = ImportOfNext(F[lines], c)
  BY <1>2, <1>5
<1>7. ASSUME NEW lines \in Seq(Texts)
      PROVE  ImportOf(lines) = F[lines]
  <2> DEFINE n == Len(lines)
             f == [k \in 0 .. n |-> F[SubSeq(lines, 1, k)]]
             g == CHOOSE h : h = ImportOfAlong(lines, h)
  <2>1. n \in Nat /\ \A k \in 1 .. n : lines[k] \in Texts
    OBVIOUS
  <2>2. /\ F[SubSeq(lines, 1, 0)] = <<>>
        /\ \A k \in 1 .. n :
             /\ F[SubSeq(lines, 1, k - 1)] \in ReadRows
             /\ F[SubSeq(lines, 1, k)] = ImportOfNext(F[SubSeq(lines, 1, k - 1)], lines[k])
    <3>1. /\ F[SubSeq(lines, 1, 0)] = <<>>
          /\ \A k \in 1 .. n :
               /\ F[SubSeq(lines, 1, k - 1)] \in ReadRows
               /\ F[SubSeq(lines, 1, k)] = act[F[SubSeq(lines, 1, k - 1)]][lines[k]]
      BY <1>4, FoldSteps
    <3> QED
      BY <1>2, <2>1, <3>1
  <2> HIDE DEF n
  <2>3. \A k \in 0 .. n : f[k] = IF k = 0 THEN <<>> ELSE ImportOfNext(f[k - 1], lines[k])
    <3> SUFFICES ASSUME NEW k \in 0 .. n
                 PROVE  f[k] = IF k = 0 THEN <<>> ELSE ImportOfNext(f[k - 1], lines[k])
      OBVIOUS
    <3>1. CASE k = 0
      <4>1. f[0] = F[SubSeq(lines, 1, 0)]
        BY <3>1
      <4> HIDE DEF f
      <4> QED
        BY <2>2, <3>1, <4>1
    <3>2. CASE k # 0
      <4>1. k \in 1 .. n /\ k - 1 \in 0 .. n
        BY <2>1, <3>2
      <4>2. f[k] = F[SubSeq(lines, 1, k)] /\ f[k - 1] = F[SubSeq(lines, 1, k - 1)]
        BY <4>1, Zenon
      <4>3. F[SubSeq(lines, 1, k)] = ImportOfNext(F[SubSeq(lines, 1, k - 1)], lines[k])
        BY <2>2, <4>1, Zenon
      <4> HIDE DEF f
      <4> QED
        BY <3>2, <4>2, <4>3, Zenon
    <3> QED
      BY <3>1, <3>2
  <2>4. f = [k \in 0 .. n |-> f[k]]
    OBVIOUS
  <2> HIDE DEF f
  <2>5. f = ImportOfAlong(lines, f)
    BY <2>3, <2>4, Zenon DEF ImportOfAlong, n
  <2>6. g = ImportOfAlong(lines, g)
    BY <2>5, Zenon
  <2>7. ImportOf(lines) = g[n]
    BY Zenon DEF ImportOf, ImportOfAlong, ImportOfNext, n
  <2> HIDE DEF g
  <2>8. \A k \in 0 .. n : g[k] = IF k = 0 THEN <<>> ELSE ImportOfNext(g[k - 1], lines[k])
    BY <2>6, Zenon DEF ImportOfAlong, n
  <2>9. g[0] = <<>>
    <3>1. 0 \in 0 .. n
      BY <2>1
    <3> QED
      BY <2>8, <3>1, Zenon
  <2>10. ASSUME NEW k \in 1 .. n, g[k - 1] = F[SubSeq(lines, 1, k - 1)]
         PROVE  g[k] = act[g[k - 1]][lines[k]]
    <3>1. k \in 0 .. n /\ k # 0
      BY <2>1
    <3>2. g[k] = ImportOfNext(g[k - 1], lines[k])
      BY <2>8, <3>1, Zenon
    <3>3. g[k - 1] \in ReadRows /\ lines[k] \in Texts
      BY <2>1, <2>2, <2>10
    <3> QED
      BY <1>2, <3>2, <3>3
  <2>11. g[n] = F[lines]
    BY <1>4, <2>9, <2>10, FoldsAlong DEF n
  <2> QED
    BY <2>7, <2>11
<1> QED
  BY <1>5, <1>6, <1>7

(* lox_blackbox_import_csv_buffer imports the lines of its text. *)
LEMMA ImportedIs ==
  ASSUME NEW text
  PROVE  Imported(text) = ImportOf(SplitAt(text, Ends))
BY Zenon DEF Imported, ImportOf, Ends

(* One more line, one more step of the import. *)
LEMMA ImportOfIs ==
  /\ ImportOf(<<>>) = <<>>
  /\ \A lines \in Seq(Texts) : ImportOf(lines) \in ReadRows
  /\ \A lines \in Seq(Texts) : \A c \in Texts :
       ImportOf(Append(lines, c)) = ImportOfNext(ImportOf(lines), c)
<1>1. PICK F \in [Seq(Texts) -> ReadRows] :
        /\ F[<<>>] = <<>>
        /\ \A lines \in Seq(Texts) : \A c \in Texts :
              F[Append(lines, c)] = ImportOfNext(F[lines], c)
        /\ \A lines \in Seq(Texts) : ImportOf(lines) = F[lines]
  BY ImportOfFolds
<1>2. <<>> \in Seq(Texts)
  BY EmptySeq
<1>3. ASSUME NEW lines \in Seq(Texts), NEW c \in Texts
      PROVE  ImportOf(Append(lines, c)) = ImportOfNext(ImportOf(lines), c)
  <2>1. Append(lines, c) \in Seq(Texts)
    BY AppendProperties
  <2> QED
    BY <1>1, <2>1
<1> QED
  BY <1>1, <1>2, <1>3

(* Storing keeps a log within its capacity. *)
LEMMA StoredLength ==
  ASSUME NEW S, NEW v \in Seq(S), NEW e \in S, Len(v) <= Capacity
  PROVE  Len(Stored(v, e)) <= Capacity
<1>1. Len(v) \in Nat /\ Capacity \in Nat /\ Capacity > 0
  BY CapacityAssumption, LenProperties
<1>2. CASE Len(v) < Capacity
  <2>1. Len(Append(v, e)) = Len(v) + 1
    BY AppendProperties
  <2> QED
    BY <1>1, <1>2, <2>1 DEF Stored
<1>3. CASE ~ (Len(v) < Capacity)
  <2>1. v # <<>>
    BY <1>1, <1>3, EmptySeq
  <2>2. Tail(v) \in Seq(S) /\ Len(Tail(v)) = Len(v) - 1
    BY <2>1, HeadTailProperties
  <2>3. Len(Append(Tail(v), e)) = Len(Tail(v)) + 1
    BY <2>2, AppendProperties
  <2>4. Stored(v, e) = Append(Tail(v), e)
    BY <1>3 DEF Stored
  <2> QED
    BY <1>1, <2>2, <2>3, <2>4
<1> QED
  BY <1>2, <1>3

(* The rows lox_blackbox_import_csv_buffer may make of these. *)
RowsFor(rows) == {r \in ReadEvents : \E k \in 1 .. Len(rows) : IsRowFor(rows[k], r)}

(* A line of a cut text that is accepted stands for a row exported. *)
LEMMA PartRead ==
  ASSUME NEW rows \in Seq(Rows), NEW c \in PartsOf(rows), IsEventLine(Cut(c, LineMax))
  PROVE  EventOfLine(Cut(c, LineMax)) \in RowsFor(rows)
<1> DEFINE p == Cut(c, LineMax)
<1>1. c \in Texts
  BY DEF PartsOf
<1>2. p \in Texts /\ IsPrefix(p, c)
  BY <1>1, CutIs, LineFormatAssumption DEF Texts
<1>3. IsEventLine(p)
  OBVIOUS
<1> HIDE DEF p
<1>4. p \in PartsOf(rows)
  BY <1>2, PartsOfPrefix
<1>5. p # <<>> /\ ~ IsPrefix(p, Header)
  BY <1>2, <1>3, EmptyNoEvent, HeaderNoEvent
<1>6. PICK k \in 1 .. Len(rows) : IsPrefix(p, EventLine(rows[k]))
  BY <1>4, <1>5 DEF PartsOf
<1>7. rows[k] \in Rows
  BY <1>6, ElementOfSeq
<1>8. IsRowFor(rows[k], EventOfLine(p))
  BY <1>2, <1>3, <1>6, <1>7, RowsAreEvents, EventReadBack
<1>9. EventOfLine(p) \in ReadEvents
  BY <1>2 DEF ReadEvents
<1> QED
  BY <1>8, <1>9 DEF RowsFor, p

(* So do all rows imported. *)
LEMMA PartsRead ==
  ASSUME NEW rows \in Seq(Rows), NEW lines \in Seq(PartsOf(rows))
  PROVE  ImportOf(lines) \in Seq(RowsFor(rows)) /\ Len(ImportOf(lines)) <= Capacity
<1> DEFINE P == PartsOf(rows)
           G == RowsFor(rows)
           T == {l \in Seq(P) : ImportOf(l) \in Seq(G) /\ Len(ImportOf(l)) <= Capacity}
<1>1. P \subseteq Texts
  BY DEF PartsOf
<1>2. <<>> \in T
  <2>1. <<>> \in Seq(P) /\ <<>> \in Seq(G) /\ Len(<<>>) = 0
    BY EmptySeq
  <2>2. 0 <= Capacity
    BY CapacityAssumption
  <2> QED
    BY <2>1, <2>2, ImportOfIs
<1>3. ASSUME NEW l \in Seq(P), NEW c \in P, l \in T
      PROVE  Append(l, c) \in T
  <2> DEFINE v == ImportOf(l)
             p == Cut(c, LineMax)
  <2>1. l \in Seq(Texts) /\ c \in Texts
    BY <1>1, SeqMonotonic
  <2>2. ImportOf(Append(l, c)) = ImportOfNext(v, c)
    BY <2>1, ImportOfIs
  <2>3. v \in Seq(G) /\ Len(v) <= Capacity
    BY <1>3
  <2>4. Append(l, c) \in Seq(P)
    BY AppendProperties
  <2> HIDE DEF v, P, G
  <2>5. CASE ~IsSchema(p) /\ IsEventLine(p)
    <3>1. EventOfLine(p) \in G
      BY <2>5, PartRead DEF G, P
    <3>2. ImportOfNext(v, c) = Stored(v, EventOfLine(p))
      BY <2>5 DEF ImportOfNext
    <3> HIDE DEF p
    <3>3. Stored(v, EventOfLine(p)) \in Seq(G) /\ Len(Stored(v, EventOfLine(p))) <= Capacity
      BY <2>3, <3>1, StoredType, StoredLength
    <3> QED
      BY <2>2, <2>4, <3>2, <3>3
  <2>6. CASE ~ (~IsSchema(p) /\ IsEventLine(p))
    <3>1. ImportOfNext(v, c) = v
      BY <2>6 DEF ImportOfNext
    <3> QED
      BY <2>2, <2>3, <2>4, <3>1
  <2> QED
    BY <2>5, <2>6
<1> HIDE DEF T, P
<1>4. Seq(P) \subseteq T
  BY <1>2, <1>3, SeqsFollow
<1> QED
  BY <1>4 DEF T, P

(* A text exported of these rows, cut anywhere, is imported as rows of theirs. *)
LEMMA CutTextRead ==
  ASSUME NEW rows \in Seq(Rows), NEW header \in BOOLEAN, NEW room \in Nat
  PROVE  /\ Imported(Cut(FullText(rows, header), room)) \in Seq(RowsFor(rows))
         /\ Len(Imported(Cut(FullText(rows, header), room))) <= Capacity
<1>1. SplitAt(Cut(FullText(rows, header), room), Ends) \in Seq(PartsOf(rows))
  BY CutTextParts
<1> QED
  BY <1>1, PartsRead, ImportedIs

-----------------------------------------------------------------------------
(* What is imported of a text that was not cut. *)

IsNamed(e) == e.block_name # <<>> /\ e.reason # <<>>

(* The rows with both names, and the place each has among them. *)
Named(rows) == {i \in DOMAIN rows : rows[i].block_name # <<>> /\ rows[i].reason # <<>>}
NamedUpTo(rows, i) == {j \in Named(rows) : j <= i}
Place(rows, i) == Cardinality(NamedUpTo(rows, i))

Restores(rows, back) ==
  /\ Len(back) = Cardinality(Named(rows))
  /\ \A i \in Named(rows) : /\ SameRow(rows[i], back[Place(rows, i)])
                            /\ back[Place(rows, i)].aux_code = rows[i].aux_code

(* There are no more named rows than rows, and each has its place. *)
LEMMA NamedIs ==
  ASSUME NEW rows \in Seq(Rows)
  PROVE  /\ Named(rows) \in SUBSET (1 .. Len(rows)) /\ IsFiniteSet(Named(rows))
         /\ Cardinality(Named(rows)) \in Nat /\ Cardinality(Named(rows)) <= Len(rows)
         /\ \A i \in Named(rows) : Place(rows, i) \in 1 .. Cardinality(Named(rows))
<1> DEFINE n == Len(rows)
           N == Named(rows)
<1>1. n \in Nat /\ DOMAIN rows = 1 .. n
  BY LenProperties
<1>2. N \in SUBSET (1 .. n)
  BY <1>1 DEF Named
<1> HIDE DEF n, N
<1>3. IsFiniteSet(1 .. n) /\ Cardinality(1 .. n) = n
  <2>1. 1 \in Int /\ n \in Int
    BY <1>1
  <2>2. IsFiniteSet(1 .. n) /\ Cardinality(1 .. n) = IF 1 > n THEN 0 ELSE n - 1 + 1
    BY <2>1, FS_Interval
  <2> QED
    BY <1>1, <2>2
<1>4. IsFiniteSet(N) /\ Cardinality(N) <= n
  BY <1>2, <1>3, FS_Subset
<1>5. Cardinality(N) \in Nat
  BY <1>4, FS_CardinalityType
<1>6. ASSUME NEW i \in N
      PROVE  Cardinality(NamedUpTo(rows, i)) \in 1 .. Cardinality(N)
  <2> DEFINE U == NamedUpTo(rows, i)
  <2>1. U \in SUBSET N
    BY DEF NamedUpTo, N
  <2>2. i \in U
    <3>1. i <= i
      BY <1>2
    <3> QED
      BY <3>1 DEF NamedUpTo, N
  <2> HIDE DEF U
  <2>3. IsFiniteSet(U) /\ Cardinality(U) <= Cardinality(N)
    BY <1>4, <2>1, FS_Subset
  <2>4. Cardinality(U) \in Nat
    BY <2>3, FS_CardinalityType
  <2>5. Cardinality(U) # 0
    BY <2>2, <2>3, FS_EmptySet
  <2> QED
    BY <1>5, <2>3, <2>4, <2>5 DEF U
<1> QED
  BY <1>2, <1>4, <1>5, <1>6 DEF n, N, Place

(* One more row takes the next place, if it has both names. *)
LEMMA NamedNext ==
  ASSUME NEW rows \in Seq(Rows), NEW e \in Rows
  PROVE  LET next == Append(rows, e)
             n == Len(rows)
         IN  /\ Named(next) = IF IsNamed(e) THEN Named(rows) \cup {n + 1} ELSE Named(rows)
             /\ \A i \in Named(rows) : Place(next, i) = Place(rows, i)
             /\ IsNamed(e) => /\ Place(next, n + 1) = Cardinality(Named(rows)) + 1
                              /\ Cardinality(Named(next)) = Cardinality(Named(rows)) + 1
<1> DEFINE next == Append(rows, e)
           n == Len(rows)
           N == Named(rows)
<1>1. /\ n \in Nat /\ DOMAIN rows = 1 .. n /\ DOMAIN next = 1 .. n + 1 /\ next[n + 1] = e
      /\ \A i \in 1 .. n : next[i] = rows[i]
  BY AppendProperties, LenProperties
<1>2. N \in SUBSET (1 .. n) /\ IsFiniteSet(N)
  BY NamedIs
<1>3. n + 1 \notin N /\ \A i \in 1 .. n + 1 : i = n + 1 \/ i \in 1 .. n
  BY <1>1, <1>2
<1>4. \A i \in N : i <= n /\ ~ (n + 1 <= i) /\ i <= n + 1
  BY <1>1, <1>2
<1>5. n + 1 <= n + 1 /\ n + 1 \in 1 .. n + 1 /\ \A i \in 1 .. n : i \in 1 .. n + 1
  BY <1>1
<1> HIDE DEF next, n
<1>6. \A i \in 1 .. n : i \in N <=> IsNamed(rows[i])
  BY <1>1 DEF Named, IsNamed
<1>7. \A i : i \in Named(next) <=> i \in 1 .. n + 1 /\ IsNamed(next[i])
  BY <1>1 DEF Named, IsNamed
<1> HIDE DEF N
<1>8. Named(next) = IF IsNamed(e) THEN N \cup {n + 1} ELSE N
  <2>1. \A i : i \in Named(next) <=> i \in N \/ (i = n + 1 /\ IsNamed(e))
    <3>1. ASSUME NEW i \in 1 .. n
          PROVE  i \in Named(next) <=> i \in N \/ (i = n + 1 /\ IsNamed(e))
      <4>1. i \in 1 .. n + 1 /\ i # n + 1 /\ next[i] = rows[i]
        BY <1>1, <1>5
      <4> QED
        BY <1>6, <1>7, <4>1
    <3>2. ASSUME NEW i, i = n + 1
          PROVE  i \in Named(next) <=> i \in N \/ (i = n + 1 /\ IsNamed(e))
      BY <1>1, <1>3, <1>5, <1>7, <3>2
    <3>3. ASSUME NEW i, i \notin 1 .. n, i # n + 1
          PROVE  i \notin Named(next) /\ i \notin N
      BY <1>2, <1>3, <1>7, <3>3
    <3> QED
      BY <3>1, <3>2, <3>3
  <2> QED
    BY <2>1
<1>9. ASSUME NEW i \in N
      PROVE  NamedUpTo(next, i) = NamedUpTo(rows, i)
  <2>1. \A j : j \in Named(next) /\ j <= i <=> j \in N /\ j <= i
    BY <1>4, <1>8
  <2> QED
    BY <2>1 DEF NamedUpTo, N
<1>10. ASSUME IsNamed(e)
       PROVE  /\ NamedUpTo(next, n + 1) = N \cup {n + 1}
              /\ Cardinality(N \cup {n + 1}) = Cardinality(N) + 1
  <2>1. Named(next) = N \cup {n + 1}
    BY <1>8, <1>10
  <2>2. \A j \in Named(next) : j <= n + 1
    BY <1>4, <1>5, <2>1
  <2>3. NamedUpTo(next, n + 1) = Named(next)
    BY <2>2 DEF NamedUpTo
  <2>4. Cardinality(N \cup {n + 1}) = Cardinality(N) + 1
    BY <1>2, <1>3, FS_AddElement
  <2> QED
    BY <2>1, <2>3, <2>4
<1> QED
  BY <1>8, <1>9, <1>10 DEF Place, next, n, N

(* The import of one more whole line restores its row, in its place. *)
LEMMA RestoresNext ==
  ASSUME NEW rows \in Seq(Rows), Len(rows) < Capacity,
         NEW e \in Rows, Len(EventLine(e)) <= LineMax,
         NEW back \in ReadRows, Restores(rows, back)
  PROVE  Restores(Append(rows, e), ImportOfNext(back, EventLine(e)))
<1> DEFINE next == Append(rows, e)
           c == EventLine(e)
           n == Len(rows)
           N == Named(rows)
           k == Cardinality(N)
           r == EventOfLine(c)
<1>1. /\ IsEvent(e) /\ c \in Texts /\ (IsEventLine(c) <=> IsNamed(e))
  BY RowsAreEvents, EventLineAccepted DEF IsNamed
<1>2. Cut(c, LineMax) = c
  BY <1>1, CutIs, LineFormatAssumption DEF Texts
<1>3. IsEventLine(c) => ~IsSchema(c)
  <2>1. IsPrefix(Header, Header) /\ Header \in Texts
    BY HeaderIs, PrefixItself DEF Texts
  <2> QED
    BY <2>1, HeaderNoEvent DEF IsSchema
<1>4. ImportOfNext(back, c) = IF IsNamed(e) THEN Stored(back, r) ELSE back
  BY <1>1, <1>2, <1>3 DEF ImportOfNext
<1>5. /\ k \in Nat /\ k <= n /\ n \in Nat /\ N \in SUBSET (1 .. n)
      /\ \A i \in N : Place(rows, i) \in 1 .. k
  BY NamedIs, LenProperties
<1>6. /\ Len(back) = k
      /\ \A i \in N : /\ SameRow(rows[i], back[Place(rows, i)])
                      /\ back[Place(rows, i)].aux_code = rows[i].aux_code
  BY DEF Restores
<1>7. \A i \in 1 .. n : next[i] = rows[i]
  BY AppendProperties
<1>8. next[n + 1] = e
  BY AppendProperties
<1>9. /\ Named(next) = IF IsNamed(e) THEN N \cup {n + 1} ELSE N
      /\ \A i \in N : Place(next, i) = Place(rows, i)
      /\ IsNamed(e) => Place(next, n + 1) = k + 1 /\ Cardinality(Named(next)) = k + 1
  BY NamedNext
<1>10. IsEventLine(c) => SameRow(e, r) /\ r.aux_code = e.aux_code
  <2>1. IsPrefix(c, EventLine(e))
    BY <1>1, PrefixItself DEF Texts
  <2> QED
    BY <1>1, <2>1, EventReadBack DEF IsRowFor
<1>11. r \in ReadEvents
  BY <1>1 DEF ReadEvents
<1> HIDE DEF next, c, n, k, r
<1>12. CASE ~ IsNamed(e)
  <2>1. Named(next) = N /\ ImportOfNext(back, c) = back
    BY <1>4, <1>9, <1>12
  <2> HIDE DEF N
  <2>2. \A i \in Named(next) : /\ SameRow(next[i], back[Place(next, i)])
                               /\ back[Place(next, i)].aux_code = next[i].aux_code
    <3> SUFFICES ASSUME NEW i \in N
                 PROVE  /\ SameRow(next[i], back[Place(next, i)])
                        /\ back[Place(next, i)].aux_code = next[i].aux_code
      BY <2>1
    <3>1. Place(next, i) = Place(rows, i) /\ next[i] = rows[i]
      BY <1>5, <1>7, <1>9
    <3> QED
      BY <1>6, <3>1
  <2>3. Len(back) = Cardinality(Named(next))
    BY <1>6, <2>1 DEF k
  <2>4. Restores(next, back)
    BY <2>2, <2>3 DEF Restores
  <2> QED
    BY <2>1, <2>4 DEF next, c
<1>13. CASE IsNamed(e)
  <2> DEFINE b == Append(back, r)
  <2>1. Len(back) < Capacity
    BY <1>5, <1>6, CapacityAssumption DEF n
  <2>2. ImportOfNext(back, c) = b
    BY <1>4, <1>13, <2>1 DEF Stored
  <2>3. /\ Len(b) = k + 1 /\ b[k + 1] = r /\ \A i \in 1 .. k : b[i] = back[i]
    BY <1>6, <1>11, AppendProperties DEF ReadRows
  <2> HIDE DEF b, N
  <2>4. ASSUME NEW i \in N
        PROVE  /\ SameRow(next[i], b[Place(next, i)])
               /\ b[Place(next, i)].aux_code = next[i].aux_code
    <3>1. Place(next, i) = Place(rows, i) /\ next[i] = rows[i]
      BY <1>5, <1>7, <1>9
    <3>2. b[Place(rows, i)] = back[Place(rows, i)]
      BY <1>5, <2>3
    <3> QED
      BY <1>6, <3>1, <3>2
  <2>5. /\ SameRow(next[n + 1], b[Place(next, n + 1)])
        /\ b[Place(next, n + 1)].aux_code = next[n + 1].aux_code
    <3>1. next[n + 1] = e /\ b[Place(next, n + 1)] = r
      BY <1>8, <1>9, <1>13, <2>3
    <3> QED
      BY <1>1, <1>10, <1>13, <3>1
  <2>6. Named(next) = N \cup {n + 1} /\ Cardinality(Named(next)) = k + 1
    BY <1>9, <1>13
  <2>7. Restores(next, b)
    BY <2>3, <2>4, <2>5, <2>6 DEF Restores
  <2> QED
    BY <2>2, <2>7 DEF next, c
<1> QED
  BY <1>12, <1>13

(* No line of these rows is longer than the line buffer. *)
Fit(rows) == \A i \in 1 .. Len(rows) : Len(EventLine(rows[i])) <= LineMax

(* The header line is skipped. *)
LEMMA HeadingRead ==
  ASSUME NEW header \in BOOLEAN
  PROVE  Heading(header) \in Seq(Texts) /\ ImportOf(Heading(header)) = <<>>
<1>1. CASE header = FALSE
  BY <1>1, ImportOfIs, EmptySeq DEF Heading
<1>2. CASE header = TRUE
  <2> DEFINE h == Header
             p == Cut(h, LineMax)
  <2>1. h \in Texts
    BY HeaderIs
  <2> HIDE DEF h
  <2>2. p \in Texts /\ IsPrefix(p, h)
    BY <2>1, CutIs, LineFormatAssumption DEF Texts
  <2> HIDE DEF p
  <2>3. ~ IsEventLine(p)
    BY <2>2, HeaderNoEvent DEF h
  <2>4. ImportOfNext(<<>>, h) = <<>>
    BY <2>3 DEF ImportOfNext, p
  <2>5. <<>> \in Seq(Texts) /\ <<h>> = Append(<<>>, h) /\ <<h>> \in Seq(Texts)
    BY <2>1, EmptySeq, TupleType
  <2>6. ImportOf(<<h>>) = <<>>
    BY <2>1, <2>4, <2>5, ImportOfIs
  <2> QED
    BY <1>2, <2>5, <2>6 DEF Heading, h
<1> QED
  BY <1>1, <1>2

(* One more row, one more line. *)
LEMMA RowLinesNext ==
  ASSUME NEW rows \in Seq(Rows), NEW e \in Rows
  PROVE  RowLines(Append(rows, e)) = Append(RowLines(rows), EventFormatCsv(e, LineMax))
<1> DEFINE n == Len(rows)
           next == Append(rows, e)
           L(x) == EventFormatCsv(x, LineMax)
           a == RowLines(next)
           l == RowLines(rows)
           b == Append(l, L(e))
<1>1. /\ next \in Seq(Rows) /\ Len(next) = n + 1 /\ n \in Nat /\ next[n + 1] = e
      /\ \A i \in 1 .. n : next[i] = rows[i]
  BY AppendProperties, LenProperties
<1>2. l \in Seq(Texts) /\ Len(l) = n /\ L(e) \in Texts
  BY RowLinesAre, RowLineIs
<1>3. a \in Seq(Texts) /\ Len(a) = n + 1
  BY <1>1, RowLinesAre
<1> HIDE DEF L
<1>4. \A i \in 1 .. n : l[i] = L(rows[i])
  BY DEF RowLines, L
<1>5. \A i \in 1 .. n + 1 : a[i] = L(next[i])
  <2>1. a = [i \in 1 .. n + 1 |-> L(next[i])]
    BY <1>1, Zenon DEF RowLines, L
  <2> HIDE DEF a
  <2> QED
    BY <2>1
<1> HIDE DEF next, a, l, n
<1>6. /\ b \in Seq(Texts) /\ Len(b) = n + 1 /\ b[n + 1] = L(e)
      /\ \A i \in 1 .. n : b[i] = l[i]
  BY <1>2, AppendProperties
<1> HIDE DEF b
<1>7. \A i \in 1 .. n + 1 : a[i] = b[i]
  <2> SUFFICES ASSUME NEW i \in 1 .. n + 1 PROVE a[i] = b[i]
    OBVIOUS
  <2>1. CASE i = n + 1
    BY <1>1, <1>5, <1>6, <2>1
  <2>2. CASE i # n + 1
    <3>1. i \in 1 .. n
      BY <1>1, <2>2
    <3> QED
      BY <1>1, <1>4, <1>5, <1>6, <3>1
  <2> QED
    BY <2>1, <2>2
<1>8. a = b
  BY <1>1, <1>3, <1>6, <1>7, SeqEqual
<1> QED
  BY <1>8 DEF a, b, l, next, L

(* Whole lines restore all rows with both names, in order. *)
LEMMA WholeRead ==
  ASSUME NEW rows \in Seq(Rows), Len(rows) <= Capacity, Fit(rows), NEW header \in BOOLEAN
  PROVE  Restores(rows, ImportOf(Heading(header) \o RowLines(rows)))
<1> DEFINE h == Heading(header)
           Back(s) == ImportOf(h \o RowLines(s))
           T == {s \in Seq(Rows) : Len(s) <= Capacity /\ Fit(s) => Restores(s, Back(s))}
<1>1. h \in Seq(Texts) /\ ImportOf(h) = <<>>
  BY HeadingRead
<1> HIDE DEF h
<1>2. <<>> \in T
  <2>1. <<>> \in Seq(Rows) /\ Len(<<>>) = 0
    BY EmptySeq
  <2>2. RowLines(<<>>) = <<>>
    <3>1. RowLines(<<>>) \in Seq(Texts) /\ Len(RowLines(<<>>)) = 0
      BY <2>1, RowLinesAre
    <3> QED
      BY <3>1, EmptySeq
  <2>3. h \o <<>> = h
    BY <1>1, ConcatEmptySeq
  <2>4. Back(<<>>) = <<>>
    BY <1>1, <2>2, <2>3
  <2>5. Named(<<>>) = {}
    <3>1. Named(<<>>) \in SUBSET (1 .. 0)
      BY <2>1, NamedIs
    <3> QED
      BY <3>1
  <2>6. Restores(<<>>, <<>>)
    BY <2>1, <2>5, FS_EmptySet DEF Restores
  <2> QED
    BY <2>1, <2>4, <2>6
<1>3. ASSUME NEW s \in Seq(Rows), NEW e \in Rows, s \in T
      PROVE  Append(s, e) \in T
  <2> DEFINE next == Append(s, e)
             n == Len(s)
  <2>1. next \in Seq(Rows)
    BY AppendProperties
  <2>2. ASSUME Len(next) <= Capacity, Fit(next)
        PROVE  Restores(next, Back(next))
    <3>1. n \in Nat /\ Len(next) = n + 1 /\ next[n + 1] = e /\ \A i \in 1 .. n : next[i] = s[i]
      BY AppendProperties, LenProperties
    <3>2. n < Capacity /\ n <= Capacity
      BY <2>2, <3>1, CapacityAssumption
    <3> HIDE DEF next
    <3>3. Len(EventLine(e)) <= LineMax
      <4>1. n + 1 \in 1 .. Len(next)
        BY <3>1
      <4> QED
        BY <2>2, <3>1, <4>1 DEF Fit
    <3>4. Fit(s)
      <4> SUFFICES ASSUME NEW i \in 1 .. n PROVE Len(EventLine(s[i])) <= LineMax
        BY DEF Fit
      <4>1. i \in 1 .. Len(next) /\ next[i] = s[i]
        BY <3>1
      <4>2. Len(EventLine(next[i])) <= LineMax
        BY <2>2, <4>1 DEF Fit
      <4> QED
        BY <4>1, <4>2
    <3>5. Restores(s, Back(s))
      BY <1>3, <3>2, <3>4
    <3>6. RowLines(next) = Append(RowLines(s), EventLine(e))
      <4>1. EventFormatCsv(e, LineMax) = EventLine(e)
        BY <3>3, RowLineIs
      <4> QED
        BY <4>1, RowLinesNext DEF next
    <3>7. RowLines(s) \in Seq(Texts) /\ EventLine(e) \in Texts
      BY RowLinesAre, RowsAreEvents, EventLineAccepted
    <3>8. h \o RowLines(next) = Append(h \o RowLines(s), EventLine(e))
      BY <1>1, <3>6, <3>7, ConcatAppend
    <3>9. h \o RowLines(s) \in Seq(Texts)
      BY <1>1, <3>7, ConcatProperties
    <3>10. Back(next) = ImportOfNext(Back(s), EventLine(e))
      BY <3>7, <3>8, <3>9, ImportOfIs
    <3>11. Back(s) \in ReadRows
      BY <3>9, ImportOfIs
    <3> HIDE DEF Back
    <3>12. Restores(Append(s, e), ImportOfNext(Back(s), EventLine(e)))
      BY <3>2, <3>3, <3>5, <3>11, RestoresNext
    <3> QED
      BY <3>10, <3>12 DEF next
  <2> QED
    BY <2>1, <2>2
<1> HIDE DEF T
<1>4. Seq(Rows) \subseteq T
  BY <1>2, <1>3, SeqsFollow
<1>5. rows \in T
  BY <1>4
<1> QED
  BY <1>5 DEF T, h

(* What lox_blackbox_import_csv_buffer makes of a whole text. *)
LEMMA WholeTextRead ==
  ASSUME NEW rows \in Seq(Rows), Len(rows) <= Capacity, Fit(rows), NEW header \in BOOLEAN
  PROVE  Restores(rows, Imported(FullText(rows, header)))
<1> DEFINE h == Heading(header)
<1>1. Imported(FullText(rows, header)) = ImportOf(h \o BodyLines(rows))
  BY FullTextIs, ImportedIs
<1>2. h \in Seq(Texts) /\ ImportOf(h) = <<>>
  BY HeadingRead
<1>3. CASE rows = <<>>
  <2>1. h \o << <<>> >> = Append(h, <<>>) /\ <<>> \in Texts
    <3>1. <<>> \in Texts
      BY EmptySeq DEF Texts
    <3> QED
      BY <1>2, <3>1, AppendIsConcat
  <2>2. Cut(<<>>, LineMax) = <<>>
    BY LineFormatAssumption, EmptySeq DEF Cut
  <2>3. ImportOfNext(<<>>, <<>>) = <<>>
    BY <2>2, EmptyNoEvent DEF ImportOfNext
  <2>4. ImportOf(Append(h, <<>>)) = <<>>
    BY <1>2, <2>1, <2>3, ImportOfIs
  <2>5. Imported(FullText(rows, header)) = <<>>
    BY <1>1, <1>3, <2>1, <2>4 DEF BodyLines
  <2>6. Named(rows) = {} /\ Len(<<>>) = 0
    BY <1>3 DEF Named
  <2> QED
    BY <2>5, <2>6, FS_EmptySet DEF Restores
<1>4. CASE rows # <<>>
  <2>1. BodyLines(rows) = RowLines(rows)
    BY <1>4 DEF BodyLines
  <2> QED
    BY <1>1, <2>1, WholeRead
<1> QED
  BY <1>3, <1>4

-----------------------------------------------------------------------------
(* The text and what is imported of it. *)

(* The text was exported of these rows, with or without a header, and cut. *)
ExportedOf(rows, header, room) ==
  [text |-> Cut(FullText(rows, header), room), rows |-> rows,
   whole |-> /\ Len(FullText(rows, header)) <= room
             /\ \A i \in DOMAIN rows : Len(EventLine(rows[i])) <= LineMax]

CsvInv ==
  csv # NoCsv =>
    \E rows \in Seq(Rows), header \in BOOLEAN, room \in Nat :
      Len(rows) <= Capacity /\ csv = ExportedOf(rows, header, room)

TextInv ==
  /\ CsvInv
  /\ IF imported THEN csv # NoCsv /\ restored = Imported(csv.text) ELSE restored = <<>>

(* The rows exported are rows of the box. *)
LEMMA NewestType ==
  ASSUME BoxInv, NEW max \in Nat
  PROVE  Newest(max) \in Seq(Rows) /\ Len(Newest(max)) <= Capacity
<1> DEFINE n == Len(box)
           f == FirstRow(max)
<1>1. box \in Seq(Rows) /\ n \in Nat /\ n <= Capacity /\ Capacity \in Nat
  BY CapacityAssumption, LenProperties DEF BoxInv
<1>2. f \in Nat /\ f >= 1
  BY <1>1 DEF FirstRow
<1>3. \A i \in 1 .. n : box[i] \in Rows
  BY <1>1, ElementOfSeq
<1> HIDE DEF f, n
<1>4. \A i \in f .. n : box[i] \in Rows
  BY <1>1, <1>2, <1>3
<1>5. /\ SubSeq(box, f, n) \in Seq(Rows)
      /\ Len(SubSeq(box, f, n)) = IF f <= n THEN n - f + 1 ELSE 0
  <2>1. f \in Int /\ n \in Int
    BY <1>1, <1>2
  <2> QED
    BY <1>4, <2>1, SubSeqProperties
<1>6. Len(SubSeq(box, f, n)) <= Capacity
  BY <1>1, <1>2, <1>5
<1> QED
  BY <1>5, <1>6 DEF Newest, f, n

(* Every action keeps it. *)
LEMMA TextNext == ExportInv /\ TextInv /\ [Next]_vars => TextInv'
<1> SUFFICES ASSUME ExportInv, TextInv, [Next]_vars PROVE TextInv'
  OBVIOUS
<1>1. ASSUME UNCHANGED textVars PROVE TextInv'
  BY <1>1 DEF textVars, TextInv, CsvInv
<1>2. CASE UNCHANGED vars \/ Store \/ Wipe \/ WriterReturns
  BY <1>1, <1>2 DEF vars, Store, Wipe, WriterReturns
<1>3. ASSUME NEW max \in RowCounts, ExportLines(max) PROVE TextInv'
  BY <1>1, <1>3 DEF ExportLines
<1>4. ASSUME NEW p \in ReportSamples, NEW room \in Rooms,
             LET line == ReportFormatKv(p.report, p.event_kind, room)
             IN  ParseReportEx(line) \/ ParseReport(line)
      PROVE  TextInv'
  BY <1>1, <1>4 DEF ParseReportEx, ParseReport
<1>5. ASSUME NEW max \in RowCounts, NEW header \in BOOLEAN, NEW room \in Rooms,
             ExportBuffer(max, header, room)
      PROVE  TextInv'
  <2> DEFINE rows == IF max = 0 THEN <<>> ELSE Newest(max)
  <2>1. csv = NoCsv /\ csv' = ExportedOf(rows, header, room)
        /\ restored' = restored /\ imported' = imported
    BY <1>5 DEF ExportBuffer, ExportedOf
  <2>2. max \in Nat /\ room \in Nat
    BY ExportAssumption
  <2>3. rows \in Seq(Rows) /\ Len(rows) <= Capacity
    <3>1. Newest(max) \in Seq(Rows) /\ Len(Newest(max)) <= Capacity
      BY <2>2, NewestType DEF ExportInv
    <3>2. <<>> \in Seq(Rows) /\ Len(<<>>) <= Capacity
      BY EmptySeq, CapacityAssumption
    <3> QED
      BY <3>1, <3>2
  <2>4. ~ imported /\ restored = <<>>
    BY <2>1 DEF TextInv
  <2> HIDE DEF rows
  <2> QED
    BY <2>1, <2>2, <2>3, <2>4 DEF TextInv, CsvInv
<1>6. CASE ImportBuffer
  <2>1. csv # NoCsv /\ csv' = csv /\ restored' = Imported(csv.text) /\ imported' = TRUE
    BY <1>6 DEF ImportBuffer
  <2> QED
    BY <2>1 DEF TextInv, CsvInv
<1>7. CASE Discard
  BY <1>7 DEF Discard, TextInv, CsvInv
<1> QED
  BY <1>2, <1>3, <1>4, <1>5, <1>6, <1>7 DEF Next

(* It holds at first. *)
LEMMA TextInit == Init => TextInv
BY DEF Init, TextInv, CsvInv

(* What was restored are rows for rows that were exported. *)
LEMMA RestoredRows ==
  ASSUME TextInv
  PROVE  /\ Len(restored) <= Capacity
         /\ \A i \in DOMAIN restored :
              \E e \in ToSet(csv.rows) : e \in Rows /\ IsRowFor(e, restored[i])
<1>1. CASE ~ imported
  BY <1>1, CapacityAssumption, EmptySeq DEF TextInv
<1>2. CASE imported
  <2>1. csv # NoCsv /\ restored = Imported(csv.text)
    BY <1>2 DEF TextInv
  <2>2. PICK rows \in Seq(Rows), header \in BOOLEAN, room \in Nat :
          csv = ExportedOf(rows, header, room)
    BY <2>1 DEF TextInv, CsvInv
  <2>3. csv.text = Cut(FullText(rows, header), room) /\ csv.rows = rows
    BY <2>2 DEF ExportedOf
  <2>4. restored \in Seq(RowsFor(rows)) /\ Len(restored) <= Capacity
    BY <2>1, <2>3, CutTextRead
  <2>5. ASSUME NEW i \in DOMAIN restored
        PROVE  \E e \in ToSet(rows) : e \in Rows /\ IsRowFor(e, restored[i])
    <3>1. restored[i] \in RowsFor(rows)
      BY <2>4, LenProperties, ElementOfSeq
    <3>2. PICK k \in 1 .. Len(rows) : IsRowFor(rows[k], restored[i])
      BY <3>1 DEF RowsFor
    <3>3. rows[k] \in Rows /\ k \in DOMAIN rows
      BY <3>2, LenProperties, ElementOfSeq
    <3>4. rows[k] \in ToSet(rows)
      BY <3>3 DEF ToSet
    <3> QED
      BY <3>2, <3>3, <3>4
  <2> QED
    BY <2>3, <2>4, <2>5
<1> QED
  BY <1>1, <1>2

(* So only an aux code is ever cut. *)
LEMMA OnlyAuxFromText == TextInv => OnlyAuxIsCut
<1> SUFFICES ASSUME TextInv, NEW i \in DOMAIN restored
             PROVE  \E e \in ToSet(csv.rows) :
                      /\ SameRow(e, restored[i])
                      /\ IsPrefix(Decimal(restored[i].aux_code), Decimal(e.aux_code))
  BY DEF OnlyAuxIsCut
<1>1. PICK e \in ToSet(csv.rows) : IsRowFor(e, restored[i])
  BY RestoredRows
<1> QED
  BY <1>1 DEF IsRowFor

(* So a whole text is restored. *)
LEMMA RestoresFromText == TextInv => ImportRestores
<1> SUFFICES ASSUME TextInv, imported, csv.whole
             PROVE  Restores(csv.rows, restored)
  BY Zenon DEF ImportRestores, Restores, Named, NamedUpTo, Place
<1>1. csv # NoCsv /\ restored = Imported(csv.text)
  BY DEF TextInv
<1>2. PICK rows \in Seq(Rows), header \in BOOLEAN, room \in Nat :
        Len(rows) <= Capacity /\ csv = ExportedOf(rows, header, room)
  BY <1>1 DEF TextInv, CsvInv
<1>3. /\ csv.text = Cut(FullText(rows, header), room) /\ csv.rows = rows
      /\ Len(FullText(rows, header)) <= room
      /\ \A i \in DOMAIN rows : Len(EventLine(rows[i])) <= LineMax
  BY <1>2 DEF ExportedOf
<1>4. Fit(rows)
  BY <1>3, LenProperties DEF Fit
<1>5. csv.text = FullText(rows, header)
  <2>1. FullText(rows, header) \in Seq(Symbols)
    BY FullTextIs DEF Texts
  <2> QED
    BY <1>3, <2>1, CutIs
<1>6. Restores(rows, Imported(FullText(rows, header)))
  BY <1>1, <1>2, <1>4, <1>5, WholeTextRead
<1> QED
  BY <1>1, <1>3, <1>5, <1>6

-----------------------------------------------------------------------------
(* The types of rows and indices. *)

TypeInv ==
  disturbed \in BOOLEAN /\ Len(handed) <= 2

FlagsInv ==
  imported \in BOOLEAN /\ accepted \in BOOLEAN

(* Every action keeps the flags. *)
LEMMA FlagsNext == FlagsInv /\ [Next]_vars => FlagsInv'
<1> SUFFICES ASSUME FlagsInv, [Next]_vars PROVE FlagsInv'
  OBVIOUS
<1>1. CASE \/ UNCHANGED vars \/ Store \/ Wipe \/ WriterReturns \/ ImportBuffer \/ Discard
           \/ \E max \in RowCounts :
                \/ ExportLines(max)
                \/ \E header \in BOOLEAN, room \in Rooms : ExportBuffer(max, header, room)
  BY <1>1 DEF vars, textVars, reportVars, Store, Wipe, WriterReturns, ImportBuffer, Discard,
              ExportLines, ExportBuffer, FlagsInv
<1>2. ASSUME NEW line, ParseReportEx(line) \/ ParseReport(line) PROVE FlagsInv'
  <2>1. imported' = imported /\ (accepted' = accepted \/ accepted' = IsReportLine(line))
    BY <1>2 DEF ParseReportEx, ParseReport, textVars
  <2>2. IsReportLine(line) \in BOOLEAN
    BY Zenon DEF IsReportLine
  <2> QED
    BY <2>1, <2>2 DEF FlagsInv
<1> QED
  BY <1>1, <1>2 DEF Next

(* Every action keeps it. *)
LEMMA TypeNext == ExportInv /\ TypeInv /\ [Next]_vars => TypeInv'
<1> SUFFICES ASSUME ExportInv, TypeInv, [Next]_vars PROVE TypeInv'
  OBVIOUS
<1>1. ASSUME UNCHANGED writerVars PROVE TypeInv'
  BY <1>1 DEF writerVars, TypeInv
<1>2. CASE UNCHANGED vars \/ ImportBuffer \/ Discard
  BY <1>1, <1>2 DEF vars, ImportBuffer, Discard
<1>3. CASE Store
  BY <1>3 DEF Store, TypeInv
<1>4. CASE Wipe
  BY <1>4 DEF Wipe, TypeInv
<1>5. ASSUME NEW max \in RowCounts, ExportLines(max) PROVE TypeInv'
  <2> DEFINE x == box[FirstRow(max)].index
  <2>1. handed' = <<x>> /\ disturbed' = FALSE
    BY <1>5 DEF ExportLines
  <2> HIDE DEF x
  <2>2. Len(<<x>>) = 1
    BY TupleIs
  <2>3. Len(handed') = 1
    BY <2>1, <2>2
  <2>4. disturbed' \in BOOLEAN
    BY <2>1, Zenon
  <2>5. Len(handed') <= 2
    BY <2>3
  <2> QED
    BY <2>4, <2>5 DEF TypeInv
<1>6. CASE WriterReturns
  <2>1. handed' = <<Last(handed), box[NextRow].index>> \/ handed' = <<>>
    BY <1>6 DEF WriterReturns
  <2>2. disturbed' = (NextRow <= Len(box) /\ disturbed)
    BY <1>6 DEF WriterReturns
  <2>3. Len(handed') <= 2
    BY <2>1, TupleIs, EmptySeq
  <2>4. disturbed' \in BOOLEAN
    BY <2>2
  <2> QED
    BY <2>3, <2>4 DEF TypeInv
<1>7. ASSUME NEW max \in RowCounts, NEW header \in BOOLEAN, NEW room \in Rooms,
             ExportBuffer(max, header, room)
      PROVE  TypeInv'
  BY <1>1, <1>7 DEF ExportBuffer
<1>8. ASSUME NEW p \in ReportSamples, NEW room \in Rooms,
             LET line == ReportFormatKv(p.report, p.event_kind, room)
             IN  ParseReportEx(line) \/ ParseReport(line)
      PROVE  TypeInv'
  BY <1>1, <1>8 DEF ParseReportEx, ParseReport
<1> QED
  BY <1>2, <1>3, <1>4, <1>5, <1>6, <1>7, <1>8 DEF Next

(* It holds at first. *)
LEMMA TypeInit == Init => TypeInv
<1> SUFFICES ASSUME Init PROVE TypeInv
  OBVIOUS
<1>1. Len(handed) = 0
  BY EmptySeq DEF Init
<1>2. disturbed \in BOOLEAN
  BY Zenon DEF Init
<1>3. Len(handed) <= 2
  BY <1>1
<1> QED
  BY <1>2, <1>3 DEF TypeInv

(* A kept or decoded text is no NULL pointer. *)
LEMMA NotNull ==
  ASSUME NEW text \in Strings
  PROVE  text # <<"NULL">>
<1> SUFFICES ASSUME text = <<"NULL">>
             PROVE  FALSE
  OBVIOUS
<1>1. text \in Seq(Symbols) /\ Len(text) = 1 /\ text[1] = "NULL"
  BY StringsAreTexts, TupleIs DEF Texts
<1>2. text[1] \in Symbols
  BY <1>1, ElementOfSeq
<1> QED
  BY <1>1, <1>2, SymbolsAssumption

(* The invariants give every variable its type. *)
LEMMA TypeFromInvs == ExportInv /\ TypeInv /\ FlagsInv /\ TextInv => TypeOK
<1> SUFFICES ASSUME ExportInv, TypeInv, FlagsInv, TextInv PROVE TypeOK
  OBVIOUS
<1> DEFINE IsRow(r) ==
             /\ r.kind \in 0 .. KindMax /\ r.index \in 0 .. IndexMod - 1
             /\ \A text \in {r.block_name, r.reason} :
                  Len(text) <= FieldMax /\ text # <<"NULL">>
<1>1. ASSUME NEW e \in Rows PROVE IsRow(e)
  <2>1. IsEvent(e) /\ e.index \in Indices /\ Len(e.block_name) <= FieldMax /\ Len(e.reason) <= FieldMax
    BY RowsAreEvents
  <2>2. e.block_name # <<"NULL">> /\ e.reason # <<"NULL">>
    BY <2>1, NotNull DEF IsEvent
  <2> QED
    BY <2>1, <2>2 DEF IsEvent, Indices
<1>2. Len(box) <= Capacity /\ \A i \in DOMAIN box : IsRow(box[i])
  <2>1. box \in Seq(Rows) /\ Len(box) <= Capacity
    BY DEF ExportInv, BoxInv
  <2>2. \A i \in DOMAIN box : box[i] \in Rows
    BY <2>1
  <2> HIDE DEF IsRow
  <2> QED
    BY <1>1, <2>1, <2>2
<1>3. Len(restored) <= Capacity /\ \A i \in DOMAIN restored : IsRow(restored[i])
  <2>1. Len(restored) <= Capacity
    BY RestoredRows
  <2>2. ASSUME NEW i \in DOMAIN restored PROVE IsRow(restored[i])
    <3> DEFINE r == restored[i]
    <3>1. PICK e \in ToSet(csv.rows) : e \in Rows /\ IsRowFor(e, r)
      BY RestoredRows
    <3>2. r.kind \in 0 .. KindMax /\ r.index \in 0 .. IndexMod - 1
      BY <1>1, <3>1 DEF IsRowFor, SameRow
    <3>3. /\ r.block_name \in Strings /\ Len(r.block_name) <= FieldMax
          /\ r.reason \in Strings /\ Len(r.reason) <= FieldMax
      BY <3>1 DEF IsRowFor
    <3>4. r.block_name # <<"NULL">> /\ r.reason # <<"NULL">>
      BY <3>3, NotNull
    <3> QED
      BY <3>2, <3>3, <3>4
  <2> HIDE DEF IsRow
  <2> QED
    BY <2>1, <2>2
<1>4. \A rows \in {box, restored} : Len(rows) <= Capacity /\ \A i \in DOMAIN rows : IsRow(rows[i])
  <2> HIDE DEF IsRow
  <2> QED
    BY <1>2, <1>3
<1>5. /\ serial \in 0 .. IndexMod - 1 /\ writing \in 0 .. Capacity
      /\ handed \in Seq(0 .. IndexMod - 1) /\ Len(handed) <= 2
      /\ disturbed \in BOOLEAN /\ stored \in 0 .. StoresPerLine
  BY DEF ExportInv, BoxInv, Indices, TypeInv
<1> QED
  BY <1>4, <1>5, Zenon DEF TypeOK, FlagsInv

-----------------------------------------------------------------------------
(* The reports parsed. *)

(* A refused line leaves nothing but its kind in the snapshot. *)
SnapshotIs ==
  snapshot = [report |-> snapshot.report, block_name |-> snapshot.block_name,
              reason |-> snapshot.reason, event_kind |-> snapshot.event_kind]

(* The reports the application formats can be written. *)
LEMMA SampleIs ==
  ASSUME NEW p \in ReportSamples
  PROVE  IsReport(p.report) /\ p.event_kind \in Nat
BY SamplesAssumption DEF IsReport, IsString, Strings

(* The parsers keep what they gave back what was formatted. *)
LEMMA ReportsNext == ReportsComeBack /\ SnapshotIs /\ [Next]_vars => ReportsComeBack' /\ SnapshotIs'
<1> SUFFICES ASSUME ReportsComeBack, SnapshotIs, [Next]_vars
             PROVE  ReportsComeBack' /\ SnapshotIs'
  OBVIOUS
<1>1. ASSUME UNCHANGED snapshot PROVE SnapshotIs'
  BY <1>1 DEF SnapshotIs
<1>2. ASSUME UNCHANGED reportVars PROVE ReportsComeBack' /\ SnapshotIs'
  BY <1>2 DEF reportVars, ReportsComeBack, SnapshotIs
<1>3. CASE UNCHANGED vars \/ Store \/ Wipe \/ WriterReturns \/ ImportBuffer \/ Discard
  BY <1>2, <1>3 DEF vars, Store, Wipe, WriterReturns, ImportBuffer, Discard
<1>4. ASSUME NEW max \in RowCounts,
             \/ ExportLines(max)
             \/ \E header \in BOOLEAN, room \in Rooms : ExportBuffer(max, header, room)
      PROVE  ReportsComeBack' /\ SnapshotIs'
  BY <1>2, <1>4 DEF ExportLines, ExportBuffer
<1>5. ASSUME NEW p \in ReportSamples, NEW room \in Rooms
      PROVE  LET line == ReportFormatKv(p.report, p.event_kind, room)
             IN  IsReportLine(line) =>
                   /\ NumbersOf(ReportOfLine(line)) = NumbersOf(p.report)
                   /\ KindOfLine(line) = p.event_kind
                   /\ ComesBack(p.report.last_block, ReportOfLine(line).last_block)
                   /\ ComesBack(p.report.reason, ReportOfLine(line).reason)
  <2>1. room \in Nat
    BY ExportAssumption
  <2> QED
    BY <2>1, SampleIs, ReportReadBack
<1>6. ASSUME NEW p \in ReportSamples, NEW room \in Rooms,
             ParseReportEx(ReportFormatKv(p.report, p.event_kind, room))
      PROVE  ReportsComeBack' /\ SnapshotIs'
  <2> DEFINE line == ReportFormatKv(p.report, p.event_kind, room)
             o == ReportOfLine(line)
             whole == [report |-> NumbersOf(o), block_name |-> o.last_block,
                       reason |-> o.reason, event_kind |-> KindOfLine(line)]
             refused == [snapshot EXCEPT !.event_kind = KindOfLine(line)]
  <2>1. /\ parsed' = parsed
        /\ snapshot' = IF IsReportLine(line) THEN whole
                       ELSE IF KindReached(line) THEN refused ELSE snapshot
        /\ accepted' = IsReportLine(line)
    BY <1>6 DEF ParseReportEx
  <2>2. IsReportLine(line) =>
          /\ NumbersOf(o) = NumbersOf(p.report) /\ KindOfLine(line) = p.event_kind
          /\ ComesBack(p.report.last_block, o.last_block) /\ ComesBack(p.report.reason, o.reason)
    BY <1>5
  <2> HIDE DEF line, o
  <2>3. CASE IsReportLine(line)
    <3>1. snapshot' = whole
      BY <2>1, <2>3
    <3>2. SnapshotIs'
      BY <3>1 DEF SnapshotIs
    <3>3. /\ snapshot'.report = NumbersOf(o) /\ snapshot'.block_name = o.last_block
          /\ snapshot'.reason = o.reason /\ snapshot'.event_kind = KindOfLine(line)
      BY <3>1
    <3> HIDE DEF whole
    <3>4. ReportsComeBack'
      BY <2>1, <2>2, <2>3, <3>3 DEF ReportsComeBack
    <3> QED
      BY <3>2, <3>4
  <2>4. CASE ~ IsReportLine(line) /\ KindReached(line)
    <3>1. snapshot' = refused
      BY <2>1, <2>4
    <3>2. /\ refused.report = snapshot.report /\ refused.block_name = snapshot.block_name
          /\ refused.reason = snapshot.reason
          /\ refused = [report |-> snapshot.report, block_name |-> snapshot.block_name,
                        reason |-> snapshot.reason, event_kind |-> KindOfLine(line)]
      BY DEF SnapshotIs
    <3>3. SnapshotIs'
      BY <3>1, <3>2 DEF SnapshotIs
    <3> HIDE DEF refused
    <3>4. ReportsComeBack'
      BY <2>1, <2>4, <3>1, <3>2 DEF ReportsComeBack
    <3> QED
      BY <3>3, <3>4
  <2>5. CASE ~ IsReportLine(line) /\ ~ KindReached(line)
    <3>1. parsed' = parsed /\ snapshot' = snapshot /\ ~ accepted'
      BY <2>1, <2>5
    <3> QED
      BY <1>1, <3>1 DEF ReportsComeBack
  <2> QED
    BY <2>3, <2>4, <2>5
<1>7. ASSUME NEW p \in ReportSamples, NEW room \in Rooms,
             ParseReport(ReportFormatKv(p.report, p.event_kind, room))
      PROVE  ReportsComeBack' /\ SnapshotIs'
  <2> DEFINE line == ReportFormatKv(p.report, p.event_kind, room)
             o == ReportOfLine(line)
  <2>1. /\ snapshot' = snapshot /\ accepted' = accepted
        /\ parsed' = IF IsReportLine(line)
                     THEN [report |-> NumbersOf(o), event_kind |-> KindOfLine(line)]
                     ELSE parsed
    BY <1>7 DEF ParseReport
  <2>2. IsReportLine(line) =>
          NumbersOf(o) = NumbersOf(p.report) /\ KindOfLine(line) = p.event_kind
    BY <1>5
  <2> HIDE DEF line, o
  <2>3. parsed' = parsed \/ parsed' = [report |-> NumbersOf(p.report), event_kind |-> p.event_kind]
    BY <2>1, <2>2
  <2>4. ReportsComeBack'
    BY <2>1, <2>3 DEF ReportsComeBack
  <2> QED
    BY <1>1, <2>1, <2>4
<1> QED
  BY <1>3, <1>4, <1>6, <1>7 DEF Next

(* It holds at first. *)
LEMMA ReportsInit == Init => ReportsComeBack /\ SnapshotIs
BY DEF Init, ReportsComeBack, SnapshotIs, NoSnapshot, NoParsed

-----------------------------------------------------------------------------
(* The theorems. *)

(* Whatever its writer stores, and however often the box rolls over or is wiped
   under it, an export by lines hands every event on after the ones stored
   before it, none twice, and none is left out unless the rows moved. *)
THEOREM LinesAreHandedOnce == Spec => []LinesHandedOnce
<1>1. Init => ExportInv
  BY ExportInit
<1>2. ExportInv /\ [Next]_vars => ExportInv'
  BY ExportNext
<1>3. ExportInv => LinesHandedOnce
  BY DEF ExportInv
<1> QED
  BY <1>1, <1>2, <1>3, PTL DEF Spec

(* The inductive invariant of the text round trip. *)
LEMMA TextAlways == Spec => [](ExportInv /\ TypeInv /\ FlagsInv /\ TextInv)
<1>1. Init => ExportInv /\ TypeInv /\ FlagsInv /\ TextInv
  BY ExportInit, TypeInit, TextInit, Zenon DEF Init, FlagsInv
<1>2. (ExportInv /\ TypeInv /\ FlagsInv /\ TextInv) /\ [Next]_vars
        => (ExportInv /\ TypeInv /\ FlagsInv /\ TextInv)'
  BY ExportNext, TypeNext, FlagsNext, TextNext
<1> QED
  BY <1>1, <1>2, PTL DEF Spec

(* Rows stored or imported fit the box, its fields and the kinds there are, and
   no name of theirs is a NULL pointer, however a text was cut in between. *)
THEOREM ExportTypes == Spec => []TypeOK
BY TextAlways, TypeFromInvs, PTL

(* lox_blackbox_import_csv_buffer of a text cut anywhere, by the caller's buffer
   or by the line buffer, in an escape, a number or the header, yields no row
   that lox_blackbox_export_csv_buffer_ex did not export; its names are the
   beginnings that fit, and only its aux code may have lost its last digits. *)
THEOREM ExportOnlyAuxIsCut == Spec => []OnlyAuxIsCut
BY TextAlways, OnlyAuxFromText, PTL

(* lox_blackbox_import_csv_buffer of a text that was not cut restores every row
   with both names, in order and with all its numbers. *)
THEOREM ImportAlwaysRestores == Spec => []ImportRestores
BY TextAlways, RestoresFromText, PTL

(* lox_report_parse_kv and lox_report_parse_kv_ex give back a report that was
   formatted, its kind with it, or leave all but the snapshot's kind alone. *)
THEOREM ReportsAlwaysComeBack == Spec => []ReportsComeBack
<1>1. Init => ReportsComeBack /\ SnapshotIs
  BY ReportsInit
<1>2. (ReportsComeBack /\ SnapshotIs) /\ [Next]_vars => (ReportsComeBack /\ SnapshotIs)'
  BY ReportsNext
<1> QED
  BY <1>1, <1>2, PTL DEF Spec
=============================================================================
