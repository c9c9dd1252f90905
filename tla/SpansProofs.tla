----------------------------- MODULE SpansProofs -----------------------------
(* Checked access is exact and confined, for words and memory of any size. *)
EXTENDS Spans, Integers, TLAPS

LEMMA SpanType ==
  ASSUME NEW s \in Spans
  PROVE  s.base \in Nat /\ s.len \in Words /\ s.writable \in BOOLEAN
<1>1. PICK w \in Windows : s = ReadonlySpan(w) \/ s = WritableSpan(w)
  BY DEF Spans
<1>2. w[1] \in 0 .. MemorySize /\ w[2] \in Words
  BY DEF Windows
<1>3. s.base = w[1] /\ s.len = w[2] /\ s.writable \in BOOLEAN
  <2>1. CASE s = ReadonlySpan(w)
    BY <2>1 DEF ReadonlySpan
  <2>2. CASE s = WritableSpan(w)
    BY <2>2 DEF WritableSpan
  <2> QED
    BY <1>1, <2>1, <2>2
<1> QED
  BY <1>2, <1>3, SpansAssumption

(* lox_span_read, lox_span_write and lox_span_memcpy accept exactly the ranges
   whose bytes are all in the span, sums that overflow a size_t included. *)
LEMMA InRangeIsSum ==
  ASSUME NEW s \in Spans, NEW offset \in Words, NEW n \in Words
  PROVE  InRange(s, offset, n) <=> offset + n <= s.len
<1>1. /\ WordMod \in Nat \ {0}
      /\ s.len \in 0 .. WordMod - 1 /\ offset \in 0 .. WordMod - 1
      /\ n \in 0 .. WordMod - 1
  BY SpanType, SpansAssumption DEF Words
<1>2. CASE offset + n <= WordMod - 1
  <2>1. (offset + n) % WordMod = offset + n
    BY <1>1, <1>2
  <2>2. SafeAdd(offset, n)
    BY <1>1, <1>2 DEF SafeAdd
  <2> QED
    BY <1>1, <2>1, <2>2 DEF InRange
<1>3. CASE ~(offset + n <= WordMod - 1)
  <2>1. ~SafeAdd(offset, n)
    BY <1>1, <1>3 DEF SafeAdd
  <2> QED
    BY <1>1, <1>3, <2>1 DEF InRange
<1> QED
  BY <1>2, <1>3

(* Single bytes are tested without a sum. *)
LEMMA IndexIsSum ==
  ASSUME NEW s \in Spans, NEW index \in Words
  PROVE  index < s.len <=> index + 1 <= s.len
BY SpanType, SpansAssumption DEF Words

(* A step taken apart, once for both theorems. *)
LEMMA Steps ==
  ASSUME Next
  PROVE  \E s \in Spans, offset \in Words, n \in Words :
           \/ ReadU8(s, offset)
           \/ Read(s, offset, n)
           \/ \E value \in Bytes : WriteU8(s, offset, value)
           \/ \E value \in Bytes : Write(s, offset, n, value)
           \/ \E src \in Spans, srcOff \in Words : Memcpy(s, offset, src, srcOff, n)
BY SpansAssumption DEF Next

(* No access, however close to the largest word its offset and length are, is
   let through unless its bytes are in the span, or refused although they are. *)
THEOREM BoundsAreExact == Spec => []BoundsExact
<1>1. Init => BoundsExact
  BY DEF Init, BoundsExact
<1>2. ASSUME Next PROVE BoundsExact'
  <2>1. PICK s \in Spans, offset \in Words, n \in Words :
           \/ ReadU8(s, offset)
           \/ Read(s, offset, n)
           \/ \E value \in Bytes : WriteU8(s, offset, value)
           \/ \E value \in Bytes : Write(s, offset, n, value)
           \/ \E src \in Spans, srcOff \in Words : Memcpy(s, offset, src, srcOff, n)
    BY <1>2, Steps
  <2>2. CASE ReadU8(s, offset)
    BY <2>2, IndexIsSum DEF ReadU8, ReadStatus, BoundsExact
  <2>3. CASE Read(s, offset, n)
    BY <2>3, InRangeIsSum DEF Read, ReadStatus, BoundsExact
  <2>4. CASE \E value \in Bytes : WriteU8(s, offset, value)
    BY <2>4, IndexIsSum DEF WriteU8, WriteStatus, BoundsExact
  <2>5. CASE \E value \in Bytes : Write(s, offset, n, value)
    BY <2>5, InRangeIsSum DEF Write, WriteStatus, BoundsExact
  <2>6. CASE \E src \in Spans, srcOff \in Words : Memcpy(s, offset, src, srcOff, n)
    BY <2>6, InRangeIsSum DEF Memcpy, CopyStatus, BoundsExact
  <2> QED
    BY <2>1, <2>2, <2>3, <2>4, <2>5, <2>6
<1>3. BoundsExact /\ UNCHANGED vars => BoundsExact'
  BY DEF BoundsExact, vars
<1> QED
  BY <1>1, <1>2, <1>3, PTL DEF Spec

-----------------------------------------------------------------------------
(* What a step may do to a byte of memory. *)

Confined ==
  \A x \in Addresses :
    memory'[x] # memory[x] =>
      /\ status' = "OK"
      /\ target'.writable
      /\ x \in target'.base .. target'.base + target'.len - 1

LEMMA WriteU8Confined ==
  ASSUME NEW s \in Spans, NEW offset \in Words, NEW value, WriteU8(s, offset, value)
  PROVE  Confined
<1> SUFFICES ASSUME NEW x \in Addresses, memory'[x] # memory[x]
             PROVE  /\ status' = "OK" /\ s.writable
                    /\ x \in s.base .. s.base + s.len - 1
  BY DEF Confined, WriteU8
<1>1. status' = "OK"
  BY DEF WriteU8
<1>2. s.writable /\ offset < s.len
  BY <1>1 DEF WriteU8, WriteStatus
<1>3. x \in s.base + offset .. s.base + offset + 1 - 1
  BY <1>1 DEF WriteU8, Filled
<1>4. s.base \in Nat /\ s.len \in Nat /\ offset \in Nat /\ x \in Int
  BY SpanType, SpansAssumption DEF Words, Addresses
<1> QED
  BY <1>1, <1>2, <1>3, <1>4

LEMMA WriteConfined ==
  ASSUME NEW s \in Spans, NEW offset \in Words, NEW n \in Words, NEW value,
         Write(s, offset, n, value)
  PROVE  Confined
<1> SUFFICES ASSUME NEW x \in Addresses, memory'[x] # memory[x]
             PROVE  /\ status' = "OK" /\ s.writable
                    /\ x \in s.base .. s.base + s.len - 1
  BY DEF Confined, Write
<1>1. status' = "OK"
  BY DEF Write
<1>2. s.writable /\ InRange(s, offset, n)
  BY <1>1 DEF Write, WriteStatus
<1>3. offset + n <= s.len
  BY <1>2, InRangeIsSum
<1>4. x \in s.base + offset .. s.base + offset + n - 1
  BY <1>1 DEF Write, Filled
<1>5. s.base \in Nat /\ s.len \in Nat /\ offset \in Nat /\ n \in Nat /\ x \in Int
  BY SpanType, SpansAssumption DEF Words, Addresses
<1> QED
  BY <1>1, <1>2, <1>3, <1>4, <1>5

LEMMA MemcpyConfined ==
  ASSUME NEW dst \in Spans, NEW dstOff \in Words, NEW src \in Spans,
         NEW srcOff \in Words, NEW n \in Words, Memcpy(dst, dstOff, src, srcOff, n)
  PROVE  Confined
<1> SUFFICES ASSUME NEW x \in Addresses, memory'[x] # memory[x]
             PROVE  /\ status' = "OK" /\ dst.writable
                    /\ x \in dst.base .. dst.base + dst.len - 1
  BY DEF Confined, Memcpy
<1>1. status' = "OK"
  BY DEF Memcpy
<1>2. dst.writable /\ InRange(dst, dstOff, n)
  BY <1>1 DEF Memcpy, CopyStatus
<1>3. dstOff + n <= dst.len
  BY <1>2, InRangeIsSum
<1>4. x \in dst.base + dstOff .. dst.base + dstOff + n - 1
  BY <1>1 DEF Memcpy, Filled
<1>5. /\ dst.base \in Nat /\ dst.len \in Nat /\ dstOff \in Nat
      /\ n \in Nat /\ x \in Int
  BY SpanType, SpansAssumption DEF Words, Addresses
<1> QED
  BY <1>1, <1>2, <1>3, <1>4, <1>5

(* A write through a span, of any offset and length, changes bytes of that
   writable span only, and an operation that fails changes none. *)
THEOREM WritesAreConfined == Spec => WritesStayInside
<1>1. ASSUME Next PROVE Confined
  <2>1. PICK s \in Spans, offset \in Words, n \in Words :
           \/ ReadU8(s, offset)
           \/ Read(s, offset, n)
           \/ \E value \in Bytes : WriteU8(s, offset, value)
           \/ \E value \in Bytes : Write(s, offset, n, value)
           \/ \E src \in Spans, srcOff \in Words : Memcpy(s, offset, src, srcOff, n)
    BY <1>1, Steps
  <2>2. CASE ReadU8(s, offset) \/ Read(s, offset, n)
    BY <2>2 DEF ReadU8, Read, Confined
  <2>3. CASE \E value \in Bytes : WriteU8(s, offset, value)
    BY <2>3, WriteU8Confined
  <2>4. CASE \E value \in Bytes : Write(s, offset, n, value)
    BY <2>4, WriteConfined
  <2>5. CASE \E src \in Spans, srcOff \in Words : Memcpy(s, offset, src, srcOff, n)
    BY <2>5, MemcpyConfined
  <2> QED
    BY <2>1, <2>2, <2>3, <2>4, <2>5
<1>2. [Next]_vars => [Confined]_vars
  BY <1>1
<1> QED
  BY <1>2, PTL DEF Spec, WritesStayInside, Confined
=============================================================================
