----------------------------- MODULE ArenaProofs -----------------------------
(* The bump allocator keeps its allocations inside and apart, for words of any *)
(* width and whatever sizes, counts and alignments are asked for.               *)
EXTENDS Arena, TLAPS

(* Allocations end at or before the mark, so the next one starts after them. *)
IInv ==
  /\ base \in Nat /\ size \in Nat /\ base + size <= WordMod - 1
  /\ used \in 0 .. size
  /\ \A c \in live : /\ c.at \in Nat /\ c.len \in Nat
                     /\ base <= c.at /\ c.at + c.len <= base + used
                     /\ c.at % c.align = 0
                     /\ c.asked = c.len
  /\ AllocationsDisjoint

-----------------------------------------------------------------------------
(* Arithmetic. *)

LEMMA DivMod ==
  ASSUME NEW x \in Nat, NEW a \in Nat \ {0}
  PROVE  /\ x \div a \in Nat
         /\ x % a \in 0 .. a - 1
         /\ x = a * (x \div a) + (x % a)
<1>1. x \div a \in Nat
  OBVIOUS
<1>2. x % a \in 0 .. a - 1
  OBVIOUS
<1>3. x = a * (x \div a) + (x % a)
  OBVIOUS
<1> QED
  BY <1>1, <1>2, <1>3

LEMMA MultipleMod ==
  ASSUME NEW q \in Nat, NEW a \in Nat \ {0}
  PROVE  (a * q) % a = 0
<1> DEFINE y == a * q
<1>1. y \in Nat
  OBVIOUS
<1>2. y % a \in 0 .. a - 1 /\ y \div a \in Nat
  BY <1>1, DivMod
<1>3. a * q = a * (y \div a) + (y % a)
  BY <1>1, DivMod
<1>4. y % a = a * (q - (y \div a))
  BY <1>1, <1>2, <1>3
<1> QED
  BY <1>2, <1>4

(* Rounding down loses less than the alignment, and what is left is aligned. *)
LEMMA AlignDownIs ==
  ASSUME NEW x \in Nat, NEW a \in Nat \ {0}
  PROVE  /\ AlignDown(x, a) \in Nat
         /\ AlignDown(x, a) > x - a
         /\ AlignDown(x, a) % a = 0
         /\ x < a => AlignDown(x, a) = 0
<1>1. x \div a \in Nat /\ x % a \in 0 .. a - 1 /\ x = a * (x \div a) + (x % a)
  BY DivMod
<1>2. AlignDown(x, a) = a * (x \div a) /\ a * (x \div a) \in Nat
  BY <1>1 DEF AlignDown
<1>3. AlignDown(x, a) > x - a
  BY <1>1 DEF AlignDown
<1>4. x < a => x % a = x
  OBVIOUS
<1> QED
  BY <1>1, <1>2, <1>3, <1>4, MultipleMod DEF AlignDown

(* An element count that passes CheckedMul has a product that is a word. *)
LEMMA ProductFits ==
  ASSUME NEW k \in Nat, NEW m \in Nat \ {0}, NEW n \in Nat, n <= k \div m
  PROVE  m * n \in 0 .. k
<1>1. k \div m \in Nat /\ m * (k \div m) <= k
  OBVIOUS
<1>2. m * n <= m * (k \div m)
  BY <1>1
<1> QED
  BY <1>1, <1>2

(* Rounding the mark up: an address that wrapped around is 0, and no arena
   starts there. *)
LEMMA RoundedUp ==
  ASSUME IInv, NEW a \in Words, NEW n \in Words, CanAlloc(n, a)
  PROVE  /\ AlignedAddr(a) \in Nat
         /\ Cur <= AlignedAddr(a)
         /\ AlignedAddr(a) % a = 0
<1>1. base \in Nat /\ base # 0 /\ used \in Nat /\ Cur \in 0 .. WordMod - 1
      /\ a \in Nat \ {0} /\ WordMod \in Nat /\ AlignedAddr(a) >= base
  BY ArenaAssumption DEF IInv, CanAlloc, PowerOfTwo, Cur, Words
<1> DEFINE x == Plus(Cur, a - 1)
<1>2. a < WordMod
  BY ArenaAssumption DEF Words
<1>3. x \in Nat /\ (x = Cur + a - 1 \/ x < a)
  <2>1. CASE Cur + (a - 1) < WordMod
    BY <1>1, <2>1 DEF Plus
  <2>2. CASE Cur + (a - 1) >= WordMod
    <3>1. (Cur + (a - 1)) % WordMod = Cur + (a - 1) - WordMod
      BY <1>1, <1>2, <2>2
    <3> QED
      BY <1>1, <1>2, <2>2, <3>1 DEF Plus
  <2> QED
    BY <1>1, <2>1, <2>2
<1> HIDE DEF x
<1>4. /\ AlignDown(x, a) \in Nat /\ AlignDown(x, a) > x - a
      /\ AlignDown(x, a) % a = 0 /\ (x < a => AlignDown(x, a) = 0)
  BY <1>1, <1>3, AlignDownIs
<1>5. AlignedAddr(a) = AlignDown(x, a)
  BY DEF AlignedAddr, x
<1> QED
  BY <1>1, <1>3, <1>4, <1>5

-----------------------------------------------------------------------------
(* The inductive invariant. *)

LEMMA AllocHolds ==
  ASSUME IInv, NEW n \in Words, NEW a \in Words, Alloc(n, a, n)
  PROVE  IInv'
<1>1. CASE UNCHANGED vars
  BY <1>1 DEF IInv, vars, AllocationsDisjoint
<1>2. CASE /\ CanAlloc(n, a)
           /\ used' = Aligned(a) + n
           /\ live' = live \cup {[at |-> base + Aligned(a), len |-> n, align |-> a,
                                 asked |-> n]}
           /\ UNCHANGED <<base, size>>
  <2> DEFINE c0 == [at |-> base + Aligned(a), len |-> n, align |-> a, asked |-> n]
             A == AlignedAddr(a)
  <2>1. A \in Nat /\ Cur <= A /\ A % a = 0
    BY <1>2, RoundedUp
  <2>2. base \in Nat /\ size \in Nat /\ used \in 0 .. size /\ n \in Nat
        /\ base + size <= WordMod - 1
    BY ArenaAssumption DEF IInv, Words
  <2> HIDE DEF A
  <2>3. Aligned(a) = A - base /\ base + Aligned(a) = A /\ Aligned(a) + n <= size
    BY <1>2, <2>1, <2>2 DEF Aligned, A, CanAlloc
  <2>4. used' \in 0 .. size /\ base + used' = A + n /\ used <= used'
    BY <1>2, <2>1, <2>2, <2>3 DEF Cur
  <2>5. c0.at = A /\ c0.len = n /\ c0.align = a /\ c0.asked = n
    BY <2>3
  <2>6. live' = live \cup {c0} /\ base' = base /\ size' = size
    BY <1>2
  <2> HIDE DEF c0
  <2>7. \A c \in live : /\ c.at \in Nat /\ c.len \in Nat
                        /\ base <= c.at /\ c.at + c.len <= base + used
                        /\ c.at % c.align = 0
                        /\ c.asked = c.len
    BY DEF IInv
  <2>8. \A c \in live : c.at + c.len <= base + used' /\ c.at + c.len <= c0.at
    BY <2>1, <2>2, <2>4, <2>5, <2>7 DEF Cur
  <2>9. \A c \in live' : /\ c.at \in Nat /\ c.len \in Nat
                         /\ base' <= c.at /\ c.at + c.len <= base' + used'
                         /\ c.at % c.align = 0
                         /\ c.asked = c.len
    <3>1. /\ c0.at \in Nat /\ c0.len \in Nat
          /\ base <= c0.at /\ c0.at + c0.len <= base + used'
      <4>1. base <= A /\ A + n <= base + used'
        <5>1. used \in Nat /\ A \in Nat /\ base + used <= A
          BY <2>1, <2>2 DEF Cur
        <5>2. base <= A
          BY <2>2, <5>1
        <5>3. A + n \in Nat
          BY <2>2, <5>1
        <5>4. A + n <= base + used'
          BY <2>4, <5>3
        <5> QED
          BY <5>2, <5>4
      <4> QED
        BY <2>1, <2>2, <2>5, <4>1
    <3>2. c0.at % c0.align = 0 /\ c0.asked = c0.len
      BY <2>1, <2>5
    <3> QED
      BY <2>6, <2>7, <2>8, <3>1, <3>2
  <2>10. AllocationsDisjoint'
    BY <2>6, <2>8 DEF IInv, AllocationsDisjoint
  <2> QED
    BY <2>2, <2>4, <2>6, <2>9, <2>10 DEF IInv
<1> QED
  BY <1>1, <1>2 DEF Alloc

LEMMA InitHolds == Init => IInv
<1> SUFFICES ASSUME Init PROVE IInv
  OBVIOUS
<1>1. PICK r \in Regions : base = r[1] /\ size = r[2] /\ used = 0 /\ live = {}
  BY DEF Init
<1>2. r[1] \in Nat /\ r[2] \in Nat /\ r[1] + r[2] <= WordMod - 1
  BY ArenaAssumption DEF Regions, Words
<1> QED
  BY <1>1, <1>2 DEF IInv, AllocationsDisjoint

LEMMA NextHolds == IInv /\ [Next]_vars => IInv'
<1> SUFFICES ASSUME IInv, [Next]_vars PROVE IInv'
  OBVIOUS
<1>1. CASE ArenaInit
  <2>1. PICK r \in Regions : base' = r[1] /\ size' = r[2] /\ used' = 0 /\ live' = {}
    BY <1>1 DEF ArenaInit
  <2>2. r[1] \in Nat /\ r[2] \in Nat /\ r[1] + r[2] <= WordMod - 1
    BY ArenaAssumption DEF Regions, Words
  <2> QED
    BY <2>1, <2>2 DEF IInv, AllocationsDisjoint
<1>2. ASSUME NEW n \in Sizes, NEW a \in Aligns, Alloc(n, a, n)
      PROVE  IInv'
  BY <1>2, AllocHolds, ArenaAssumption
<1>3. ASSUME NEW m \in Sizes, NEW n \in Sizes, NEW a \in Aligns, AllocArray(m, n, a)
      PROVE  IInv'
  <2>1. m \in Words /\ n \in Words /\ a \in Words
    BY ArenaAssumption
  <2>2. CASE CheckedMul(m, n)
    <3>1. m \in Nat /\ n \in Nat /\ WordMod - 1 \in Nat
      BY <2>1, ArenaAssumption DEF Words
    <3>2. m * n \in 0 .. WordMod - 1
      <4>1. CASE m = 0
        BY <3>1, <4>1
      <4>2. CASE m # 0
        BY <2>2, <3>1, <4>2, ProductFits DEF CheckedMul
      <4> QED
        BY <4>1, <4>2
    <3> DEFINE p == m * n
    <3>3. p % WordMod = p
      <4> HIDE DEF p
      <4> QED
        BY <3>1, <3>2, ArenaAssumption DEF p
    <3>4. p \in Words /\ Alloc(p, a, p)
      BY <1>3, <2>2, <3>2, <3>3 DEF AllocArray, Words
    <3> HIDE DEF p
    <3> QED
      BY <2>1, <3>4, AllocHolds
  <2>3. CASE ~CheckedMul(m, n)
    BY <1>3, <2>3 DEF AllocArray, IInv, vars, AllocationsDisjoint
  <2> QED
    BY <2>2, <2>3
<1>4. CASE ArenaReset
  BY <1>4 DEF ArenaReset, IInv, AllocationsDisjoint
<1>5. CASE UNCHANGED vars
  BY <1>5 DEF IInv, vars, AllocationsDisjoint
<1> QED
  BY <1>1, <1>2, <1>3, <1>4, <1>5 DEF Next

THEOREM IInvHolds == Spec => []IInv
  BY InitHolds, NextHolds, PTL DEF Spec

(* The arena stays a region of memory that does not run past the address space,
   and its mark stays inside. *)
THEOREM TypesHold == Spec => []TypeOK
<1>1. IInv => TypeOK
  <2> SUFFICES ASSUME IInv PROVE TypeOK
    OBVIOUS
  <2>1. <<base, size>> \in Regions
    BY ArenaAssumption DEF IInv, Regions, Words
  <2>2. \A c \in live : c.at \in Words /\ c.len \in Words
    BY ArenaAssumption DEF IInv, Words
  <2> QED
    BY <2>1, <2>2 DEF IInv, TypeOK
<1> QED
  BY <1>1, IInvHolds, PTL

(* What lox_arena_alloc returns is inside the scratch memory and aligned as
   asked, whatever overflows on the way. *)
THEOREM StaysInside == Spec => []AllocationsInside
<1>1. IInv => AllocationsInside
  BY ArenaAssumption DEF IInv, AllocationsInside
<1> QED
  BY <1>1, IInvHolds, PTL

(* Between two resets lox_arena_alloc hands out no byte twice. *)
THEOREM StaysDisjoint == Spec => []AllocationsDisjoint
<1>1. IInv => AllocationsDisjoint
  BY DEF IInv
<1> QED
  BY <1>1, IInvHolds, PTL

(* An array that loxguard_arena_alloc_array returns holds every element that
   was asked for: the product never wrapped. *)
THEOREM HoldsEveryElement == Spec => []ArraysFit
<1>1. IInv => ArraysFit
  BY DEF IInv, ArraysFit
<1> QED
  BY <1>1, IInvHolds, PTL
=============================================================================
