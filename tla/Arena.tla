-------------------------------- MODULE Arena --------------------------------
(***************************************************************************)
(* The bump allocator of loxguard.c, on addresses and sizes that are both    *)
(* machine words, so that every sum is checked or wraps as in the code.      *)
(***************************************************************************)
EXTENDS Naturals

CONSTANTS
  WordMod,  \* 2^64 or 2^32: values of a size_t and of a uintptr_t
  Aligns,   \* alignments asked for, also ones that are no power of two
  Sizes     \* sizes, element sizes and counts asked for

Words == 0 .. WordMod - 1

ASSUME ArenaAssumption ==
  /\ WordMod \in Nat \ {0}
  /\ Aligns \subseteq Words
  /\ Sizes \subseteq Words

VARIABLES
  base,  \* where the scratch memory starts; 0 is NULL
  size,
  used,
  live   \* history: the allocations since the last init or reset

vars == <<base, size, used, live>>

(* Powers of two are the divisors of the word modulus. *)
PowerOfTwo(a) == a # 0 /\ WordMod % a = 0

Plus(x, y)   == (x + y) % WordMod
AlignDown(x, a) == x - (x % a)

(* Memory handed to lox_arena_init does not run past the address space. *)
Regions == {r \in Words \X Words : r[1] + r[2] <= WordMod - 1}

ArenaInit ==
  \E r \in Regions :
    /\ base' = r[1]
    /\ size' = r[2]
    /\ used' = 0
    /\ live' = {}

Init == \E r \in Regions : base = r[1] /\ size = r[2] /\ used = 0 /\ live = {}

Cur            == base + used
(* Mutant: rounds down to the alignment instead of up. *)
AlignedAddr_Down(a) == AlignDown(Cur, a)

AlignedAddr(a) == AlignDown(Plus(Cur, a - 1), a)
Aligned(a)     == AlignedAddr(a) - base

(* Mutant: an address that wrapped around is not noticed. *)
CanAlloc_Wraps(n, a) ==
  /\ base # 0
  /\ PowerOfTwo(a)
  /\ Aligned(a) <= size
  /\ Aligned(a) + n <= size

(* Mutant: only the start of the allocation is tested. *)
CanAlloc_StartOnly(n, a) ==
  /\ base # 0
  /\ PowerOfTwo(a)
  /\ AlignedAddr(a) >= base
  /\ Aligned(a) <= size

(* The early returns of lox_arena_alloc, in order. *)
CanAlloc(n, a) ==
  /\ base # 0
  /\ PowerOfTwo(a)
  /\ used <= size
  /\ base <= WordMod - 1 - used
  /\ AlignedAddr(a) >= base
  /\ Aligned(a) <= size
  /\ Aligned(a) <= WordMod - 1 - n
  /\ Aligned(a) + n <= size

(* `asked' is history: the bytes the caller counts on, in true arithmetic. *)
Alloc(n, a, asked) ==
  \/ /\ CanAlloc(n, a)
     /\ used' = Aligned(a) + n
     /\ live' = live \cup {[at |-> base + Aligned(a), len |-> n, align |-> a,
                          asked |-> asked]}
     /\ UNCHANGED <<base, size>>
  \/ /\ ~CanAlloc(n, a)
     /\ UNCHANGED vars

(* loxguard_arena_alloc_array: the product is checked first. *)
(* Mutant: the product is not checked. *)
CheckedMul_Skipped(m, n) == TRUE

CheckedMul(m, n) == m # 0 => n <= (WordMod - 1) \div m

AllocArray(m, n, a) ==
  IF CheckedMul(m, n) THEN Alloc((m * n) % WordMod, a, m * n)
  ELSE UNCHANGED vars

ArenaReset ==
  /\ used' = 0
  /\ live' = {}
  /\ UNCHANGED <<base, size>>

Next ==
  \/ ArenaInit
  \/ \E n \in Sizes, a \in Aligns : Alloc(n, a, n)
  \/ \E m, n \in Sizes, a \in Aligns : AllocArray(m, n, a)
  \/ ArenaReset

Spec == Init /\ [][Next]_vars

-----------------------------------------------------------------------------
(* Properties. *)

(* The arena is a region of memory and a mark inside it. *)
TypeOK ==
  /\ <<base, size>> \in Regions
  /\ used \in 0 .. size
  /\ \A c \in live : c.at \in Words /\ c.len \in Words

(* What lox_arena_alloc hands out lies inside the scratch memory, where it was
   asked to be aligned, whatever the sizes and alignments asked for, those that
   overflow a word included. *)
AllocationsInside ==
  \A c \in live :
    /\ c.at >= base
    /\ c.at + c.len <= base + size
    /\ c.at % c.align = 0

(* No byte is handed out twice. *)
AllocationsDisjoint ==
  \A c, d \in live :
    c # d /\ c.len > 0 /\ d.len > 0
      => c.at + c.len <= d.at \/ d.at + d.len <= c.at

(* An array has room for all of its elements: no element count wraps around
   to a small allocation. *)
ArraysFit == \A c \in live : c.asked = c.len
=============================================================================
