------------------------------ MODULE Product ------------------------------
(***************************************************************************)
(* The product of two words that every fast hash of the program mixes with *)
(* (t1ha, rapidhash and wyhash): its low and its high word.  A compiler    *)
(* with 128-bit integers, or Microsoft's with an intrinsic, has it as one  *)
(* operation; elsewhere it is put together from the products of half words.*)
(* A file has one digest only if both give the same.                       *)
(***************************************************************************)
EXTENDS Naturals

CONSTANT H          \* the base of a half word, 2^32 in the code

ASSUME HalfAssumption == H \in Nat \ {0}

\* The number of words, 2^64 in the code.
W == H * H

Word == 0 .. W - 1

High(x) == x \div H
Low(x) == x % H
ShiftUp(x) == (x * H) % W

Bit(condition) == IF condition THEN 1 ELSE 0

\* The product in one operation: __uint128_t, _umul128, __umulh.
WideProduct(a, b) == <<(a * b) % W, (a * b) \div W>>

-----------------------------------------------------------------------------
(* rapid_mum and _wymum: the carries are found by comparing a sum with its *)
(* first operand.                                                          *)

SecondCarryLost(t, lo) == 0                         \* mutant: c+=lo<t is missing
SecondCarry(t, lo) == Bit(lo < t)

HalvesProduct(a, b) ==
    LET rh == High(a) * High(b)
        rm0 == High(a) * Low(b)
        rm1 == High(b) * Low(a)
        rl == Low(a) * Low(b)
        t == (rl + ShiftUp(rm0)) % W
        lo == (t + ShiftUp(rm1)) % W
    IN <<lo, (rh + High(rm0) + High(rm1) + Bit(t < rl) + SecondCarry(t, lo)) % W>>

rapid_mum(wide, a, b) == IF wide THEN WideProduct(a, b) ELSE HalvesProduct(a, b)

_wymum(wide, a, b) == IF wide THEN WideProduct(a, b) ELSE HalvesProduct(a, b)

-----------------------------------------------------------------------------
(* mul_64x64_128 of t1ha: the carries are found by comparing a sum with    *)
(* its second operand.                                                     *)

add64carry_first(base, addend) ==
    LET sum == (base + addend) % W IN [sum |-> sum, carry |-> Bit(sum < addend)]

add64carry_last(carry, base, addend) == (base + addend + carry) % W

CarriesProduct(a, b) ==
    LET lh == High(a) * Low(b)
        hl == Low(a) * High(b)
        first == add64carry_first(Low(a) * Low(b), ShiftUp(lh))
        middle == add64carry_last(first.carry, High(a) * High(b), High(lh))
        second == add64carry_first(first.sum, ShiftUp(hl))
    IN <<second.sum, add64carry_last(second.carry, middle, High(hl))>>

mul_64x64_128(wide, a, b) == IF wide THEN WideProduct(a, b) ELSE CarriesProduct(a, b)
=============================================================================
