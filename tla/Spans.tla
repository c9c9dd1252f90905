-------------------------------- MODULE Spans --------------------------------
(***************************************************************************)
(* Checked access through spans, loxguard.c.  Memory is one array of bytes;  *)
(* a span is a window on it, readable or writable, and spans may overlap.    *)
(***************************************************************************)
EXTENDS Naturals

CONSTANTS
  WordMod,     \* values of a size_t
  MemorySize,  \* bytes of memory, at addresses 1 .. MemorySize; 0 is NULL
  Bytes,       \* byte values
  SpansInUse   \* the spans the program works with

Words     == 0 .. WordMod - 1
Addresses == 1 .. MemorySize

(* The windows the program owns, and the ones with a NULL base. *)
Windows == {w \in (0 .. MemorySize) \X Words : w[1] # 0 => w[1] + w[2] <= MemorySize + 1}

ReadonlySpan(w) == [base |-> w[1], len |-> w[2], writable |-> FALSE]
WritableSpan(w) == [base |-> w[1], len |-> w[2], writable |-> TRUE]

Spans == {ReadonlySpan(w) : w \in Windows} \cup {WritableSpan(w) : w \in Windows}

ASSUME SpansAssumption ==
  /\ WordMod \in Nat \ {0}
  /\ MemorySize \in Nat
  /\ MemorySize < WordMod
  /\ SpansInUse \subseteq Spans

VARIABLES
  memory,  \* the bytes
  status,  \* what the last operation returned
  target,  \* history: the span the last operation was to write, if any
  inside   \* history: all bytes the last operation asked for are in its spans

vars == <<memory, status, target, inside>>

(* A read writes no span at all. *)
NoTarget == WritableSpan(<<0, 0>>)

Init ==
  /\ memory \in [Addresses -> Bytes]
  /\ status = "OK"
  /\ target = NoTarget
  /\ inside = TRUE

-----------------------------------------------------------------------------
(* The checks, in the order of the early returns. *)

(* Mutant: the sum may wrap. *)
SafeAdd_Wraps(a, b) == TRUE

(* lox_safe_add_size refuses a sum that does not fit in a word. *)
SafeAdd(a, b) == a <= WordMod - 1 - b

(* Mutant: offset and length are tested one by one. *)
InRange_Apart(s, offset, n) == offset <= s.len /\ n <= s.len

InRange(s, offset, n) ==
  /\ offset <= s.len
  /\ SafeAdd(offset, n)
  /\ (offset + n) % WordMod <= s.len

ReadStatus(s, fits) ==
  IF s.base = 0 THEN "ERR_NULL"
  ELSE IF ~fits THEN "ERR_BOUNDS"
  ELSE "OK"

WriteStatus(s, fits) ==
  IF s.base = 0 THEN "ERR_NULL"
  ELSE IF ~s.writable THEN "ERR_READONLY"
  ELSE IF ~fits THEN "ERR_BOUNDS"
  ELSE "OK"

CopyStatus(dst, src, fits) ==
  IF dst.base = 0 \/ src.base = 0 THEN "ERR_NULL"
  ELSE IF ~dst.writable THEN "ERR_READONLY"
  ELSE IF ~fits THEN "ERR_BOUNDS"
  ELSE "OK"

(* The store that follows an OK: n bytes, numbered from 0, at address `at'. *)
Filled(at, n, bytes) ==
  [x \in Addresses |-> IF x \in at .. at + n - 1 THEN bytes[x - at] ELSE memory[x]]

-----------------------------------------------------------------------------
(* The operations; a whole span is written with one byte value per call. *)

ReadU8(s, index) ==
  /\ status' = ReadStatus(s, index < s.len)
  /\ inside' = (index + 1 <= s.len)
  /\ target' = NoTarget
  /\ UNCHANGED memory

Read(s, offset, n) ==
  /\ status' = ReadStatus(s, InRange(s, offset, n))
  /\ inside' = (offset + n <= s.len)
  /\ target' = NoTarget
  /\ UNCHANGED memory

WriteU8(s, index, value) ==
  /\ status' = WriteStatus(s, index < s.len)
  /\ inside' = (index + 1 <= s.len)
  /\ target' = s
  /\ memory' = IF status' = "OK" THEN Filled(s.base + index, 1, [i \in {0} |-> value])
               ELSE memory

Write(s, offset, n, value) ==
  /\ status' = WriteStatus(s, InRange(s, offset, n))
  /\ inside' = (offset + n <= s.len)
  /\ target' = s
  /\ memory' = IF status' = "OK" THEN Filled(s.base + offset, n, [i \in 0 .. n - 1 |-> value])
               ELSE memory

Memcpy(dst, dstOff, src, srcOff, n) ==
  /\ status' = CopyStatus(dst, src, InRange(src, srcOff, n) /\ InRange(dst, dstOff, n))
  /\ inside' = (srcOff + n <= src.len /\ dstOff + n <= dst.len)
  /\ target' = dst
  /\ memory' = IF status' = "OK"
               THEN Filled(dst.base + dstOff, n,
                           [i \in 0 .. n - 1 |-> memory[src.base + srcOff + i]])
               ELSE memory

Next ==
  \E s \in SpansInUse, offset, n \in Words :
    \/ ReadU8(s, offset)
    \/ Read(s, offset, n)
    \/ \E value \in Bytes :
         \/ WriteU8(s, offset, value)
         \/ Write(s, offset, n, value)
    \/ \E src \in SpansInUse, srcOff \in Words : Memcpy(s, offset, src, srcOff, n)

Spec == Init /\ [][Next]_vars

-----------------------------------------------------------------------------
(* Properties. *)

(* An access is let through only when all its bytes are in the spans it names,
   and refused for its bounds only when one is not: near the largest word, where
   offset and length add up to less than either, as anywhere else. *)
BoundsExact ==
  /\ status = "OK" => inside
  /\ status = "ERR_BOUNDS" => ~inside

(* Whatever offsets and lengths are asked for, a write changes bytes of its own
   writable span only, and an operation that fails changes none. *)
WritesStayInside ==
  [][\A x \in Addresses :
       memory'[x] # memory[x] =>
         /\ status' = "OK"
         /\ target'.writable
         /\ x \in target'.base .. target'.base + target'.len - 1]_vars
=============================================================================
