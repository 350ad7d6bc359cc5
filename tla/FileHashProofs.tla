--------------------------- MODULE FileHashProofs ---------------------------
(***************************************************************************)
(* What is proved of FileHash, for every file, machine and address.        *)
(***************************************************************************)
EXTENDS FileHash, WordsProofs

Whole1 == T1ha1 \cup T1ha2

\* Where a call is: what is known of the pointer at each of its labels.
Where ==
    /\ pc \in {"open", "start"} => at = 0 /\ words = <<>> /\ memory = {}
    /\ pc = "loop" => kernel \in Whole1 \cup T1ha2Stream \cup Folded
    /\ pc = "loop" /\ kernel \in Whole1 => rest >= 32 /\ at % 32 = 0
    /\ pc = "loop" /\ kernel \in T1ha2Stream => mixed = at
    /\ pc = "loop" /\ kernel \in Folded => len > 16 /\ at % 16 = 0
    /\ pc = "tail" => kernel \in Whole1 /\ rest <= 32 /\ at % 8 = 0

Inv == TypeOK /\ Where

-----------------------------------------------------------------------------
LEMMA CallTyped ==
    ASSUME call \in Calls
    PROVE /\ len \in Nat /\ addr \in Nat
          /\ machine \in Machine
BY CallsAssumption DEF len, addr, machine

LEMMA CallKept ==
    ASSUME call' = call
    PROVE /\ len' = len /\ addr' = addr /\ machine' = machine /\ kernel' = kernel
BY DEF len, addr, machine, kernel, RapidSum64, WySum64, T1haSum64, T1haSum128

\* What holds of every step of the call holds of its end, which changes nothing.
LEMMA StepOnly == [Next]_vars => [Step]_vars
BY DEF Next, Returned

LEMMA CallNeverChanges ==
    ASSUME Step
    PROVE call' = call
BY DEF Step, T1haNext, RapidWyNext, Open, Fail, Elsewhere, UnknownAlgorithm, StandIn, Return,
       t1ha1_le, t1ha1_be, Begin, T1HA1_Loop, Loop, T1HA1_Tail, Finish, t1ha2_atonce,
       t1ha2_atonce128, T1HA2_LOOP, T1HA2_Tail, t1ha2_init, t1ha2_update, t1ha2_final,
       Long, RapidShort, UnrolledRound, rapidhashRound, Round, rapidhashRest, Rest,
       rapidhashMicroRound, rapidhashMicroRest, rapidhashNanoRound, rapidhashNanoRest,
       wyhashShort, wyhashRound, wyhashPair, wyhashLast, goShort, goRound, goRest, Goto

\* The kernels are apart.
LEMMA Apart ==
    /\ Whole1 \cap Folded = {} /\ Whole1 \cap T1ha2Stream = {} /\ T1ha2Stream \cap Folded = {}
BY DEF Whole1, Folded, Rapid, T1ha1, T1ha2, T1ha2Stream

-----------------------------------------------------------------------------
(* The pointer never leaves the file.                                      *)

\* The steps that only move the control.
LEMMA InvMoves ==
    ASSUME Inv, Open \/ Fail \/ Elsewhere \/ UnknownAlgorithm \/ StandIn
                \/ (\E a, b \in Operands : Return(a, b))
    PROVE Inv'
<1>1. len \in Nat /\ call' = call
  BY CallTyped DEF Inv, TypeOK, Open, Fail, Elsewhere, UnknownAlgorithm, StandIn, Return, Goto
<1>2. len' = len /\ kernel' = kernel
  BY <1>1, CallKept
<1>3. CASE Open
  BY <1>1, <1>2, <1>3 DEF Inv, TypeOK, Where, Reading, Open, Goto, file, input, context
<1>4. CASE Fail \/ Elsewhere \/ UnknownAlgorithm
  BY <1>1, <1>2, <1>4 DEF Inv, TypeOK, Where, Reading, Fail, Elsewhere, UnknownAlgorithm, Goto,
                          file, input, context
<1>5. CASE StandIn
  BY <1>1, <1>2, <1>5 DEF Inv, TypeOK, Where, Reading, StandIn, Goto, file, context
<1>6. ASSUME NEW a \in Operands, NEW b \in Operands, Return(a, b)
      PROVE Inv'
  BY <1>1, <1>2, <1>6 DEF Inv, TypeOK, Where, Reading, Return, Goto, file, context
<1>7. QED
  BY <1>3, <1>4, <1>5, <1>6

LEMMA InvBegin ==
    ASSUME Inv, Begin, kernel \in Whole1
    PROVE Inv'
<1>1. len \in Nat /\ call' = call
  BY CallTyped DEF Inv, TypeOK, Begin, Goto
<1>2. len' = len /\ kernel' = kernel
  BY <1>1, CallKept
<1>3. kernel \notin T1ha2Stream /\ kernel \notin Folded
  BY Apart
<1>4. at' = 0 /\ rest' = len /\ mixed' = len /\ partial' = partial
      /\ pc' = (IF len > 32 THEN "loop" ELSE "tail")
  BY DEF Inv, TypeOK, Where, Reading, Begin, Goto, file, context
<1>5. QED
  BY <1>1, <1>2, <1>3, <1>4 DEF Inv, TypeOK, Where, Reading

LEMMA InvLoop ==
    ASSUME Inv, NEW order, Loop(order), kernel \in Whole1
    PROVE Inv'
<1>1. len \in Nat /\ call' = call
  BY CallTyped DEF Inv, TypeOK, Loop, Goto
<1>2. len' = len /\ kernel' = kernel
  BY <1>1, CallKept
<1>3. kernel \notin T1ha2Stream /\ kernel \notin Folded
  BY Apart
<1>4. /\ at \in Nat /\ rest \in Nat /\ at + rest = len /\ rest >= 32 /\ at % 32 = 0
      /\ mixed \in 0 .. len /\ partial \in 0 .. 31
  BY <1>1 DEF Inv, TypeOK, Where, Reading, Loop
<1>5. /\ at' = at + 32 /\ mixed' = mixed /\ partial' = partial
      /\ \/ at + 32 < len - 31 /\ pc' = "loop" /\ rest' = rest - 32
         \/ ~(at + 32 < len - 31) /\ pc' = "tail" /\ rest' = len % 32
  BY <1>1, <1>4 DEF Loop, BlockFollows, Goto, context
<1>6. (at + 32) % 32 = 0 /\ (at + 32) % 8 = 0
  BY <1>4
<1>7. at + 32 < len - 31 => rest - 32 >= 32
  BY <1>1, <1>4
<1>8. ~(at + 32 < len - 31) => len % 32 = rest - 32
  BY <1>1, <1>4
<1>9. QED
  BY <1>1, <1>2, <1>3, <1>4, <1>5, <1>6, <1>7, <1>8 DEF Inv, TypeOK, Where, Reading

LEMMA InvFinish ==
    ASSUME Inv, NEW order, NEW lanes, Finish(order, lanes)
    PROVE Inv'
<1>1. len \in Nat /\ call' = call
  BY CallTyped DEF Inv, TypeOK, Finish, Goto
<1>2. len' = len /\ kernel' = kernel
  BY <1>1, CallKept
<1>3. QED
  BY <1>1, <1>2 DEF Inv, TypeOK, Where, Reading, Finish, Goto, file, context

LEMMA InvStream ==
    ASSUME Inv, t1ha2_init \/ (\E n \in Pieces : t1ha2_update(n)) \/ t1ha2_final
    PROVE Inv'
<1>1. len \in Nat /\ call' = call
  BY CallTyped DEF Inv, TypeOK, t1ha2_init, t1ha2_update, t1ha2_final, Goto
<1>2. len' = len /\ kernel' = kernel
  BY <1>1, CallKept
<1>3. kernel \in T1ha2Stream /\ kernel \notin Whole1 /\ kernel \notin Folded
  BY Apart DEF t1ha2_init, t1ha2_update, t1ha2_final
<1>4. CASE t1ha2_init
  BY <1>1, <1>2, <1>3, <1>4 DEF Inv, TypeOK, Where, Reading, t1ha2_init, Goto, file, input
<1>5. ASSUME partial \in 0 .. 31, NEW p, NEW n \in Nat
      PROVE t1ha2_absorb(p, n).partial \in 0 .. 31
  <2> DEFINE chunk == IF partial = 0 THEN 0 ELSE IF n >= 32 - partial THEN 32 - partial ELSE n
  <2>1. chunk \in 0 .. n
    BY <1>5
  <2>2. t1ha2_absorb(p, n).partial = IF partial > 0 /\ partial + chunk < 32
                                     THEN partial + chunk ELSE (n - chunk) % 32
    BY DEF t1ha2_absorb
  <2> HIDE DEF chunk
  <2>3. (n - chunk) % 32 \in 0 .. 31
    BY <2>1, <1>5
  <2>4. QED
    BY <2>1, <2>2, <2>3, <1>5
<1>6. ASSUME NEW n \in Pieces, t1ha2_update(n)
      PROVE Inv'
  <2>1. n \in Nat /\ n \in 1 .. rest
    BY <1>6, SizesAssumption DEF t1ha2_update
  <2>2. partial' \in 0 .. 31
    BY <1>5, <1>6, <2>1 DEF Inv, TypeOK, t1ha2_update
  <2>3. /\ at' = at + n /\ rest' = rest - n /\ mixed' = mixed + n /\ pc' = "loop"
        /\ at + rest = len /\ mixed = at /\ at \in Nat /\ rest \in Nat
    BY <1>1, <1>3, <1>6 DEF Inv, TypeOK, Where, Reading, t1ha2_update, Goto
  <2>4. QED
    BY <1>1, <1>2, <1>3, <2>1, <2>2, <2>3 DEF Inv, TypeOK, Where, Reading
<1>7. CASE t1ha2_final
  <2>1. partial' \in 0 .. 31
    BY <1>5, <1>7 DEF Inv, TypeOK, t1ha2_final
  <2>2. QED
    BY <1>1, <1>2, <1>3, <1>7, <2>1 DEF Inv, TypeOK, Where, Reading, t1ha2_final, Goto, file
<1>8. QED
  BY <1>4, <1>6, <1>7

\* A step over some bytes of the file that leaves the loop's head.
LEMMA InvAdvance ==
    ASSUME Inv, NEW bytes \in Nat, pc = "loop", kernel \in Folded, bytes <= rest, bytes % 16 = 0,
           pc' = "loop", call' = call, Advance(bytes)
    PROVE Inv'
<1>1. len \in Nat
  BY CallTyped DEF Inv, TypeOK
<1>2. len' = len /\ kernel' = kernel
  BY CallKept
<1>3. kernel \notin T1ha2Stream /\ kernel \notin Whole1
  BY Apart
<1>4. /\ at \in Nat /\ rest \in Nat /\ at + rest = len /\ len > 16 /\ at % 16 = 0
      /\ at' = at + bytes /\ rest' = rest - bytes /\ mixed' = mixed /\ partial' = partial
  BY <1>1 DEF Inv, TypeOK, Where, Reading, Advance, context
<1>5. (at + bytes) % 16 = 0
  BY <1>4
<1>6. QED
  BY <1>1, <1>2, <1>3, <1>4, <1>5 DEF Inv, TypeOK, Where, Reading

\* A step that has taken the last bytes.
LEMMA InvLast ==
    ASSUME Inv, call' = call, pc' = "mix", mixed' \in 0 .. len, UNCHANGED <<file, context>>
    PROVE Inv'
<1>1. len' = len
  BY CallKept
<1>2. QED
  BY <1>1 DEF Inv, TypeOK, Where, Reading, file, context

LEMMA InvLong ==
    ASSUME Inv, Long
    PROVE Inv'
<1>1. len \in Nat /\ call' = call
  BY CallTyped DEF Inv, TypeOK, Long, Goto
<1>2. len' = len /\ kernel' = kernel
  BY <1>1, CallKept
<1>3. kernel \notin T1ha2Stream /\ kernel \notin Whole1
  BY Apart DEF Long
<1>4. QED
  BY <1>1, <1>2, <1>3 DEF Inv, TypeOK, Where, Reading, Long, Short, Goto, file, context

LEMMA InvRapidWy ==
    ASSUME Inv, RapidWyNext
    PROVE Inv'
<1>1. len \in Nat /\ at \in Nat /\ rest \in Nat /\ rest <= len
  BY CallTyped DEF Inv, TypeOK
<1>2. CASE Long
  BY <1>2, InvLong
<1>3. CASE RapidShort \/ wyhashShort \/ goShort
  <2>1. call' = call /\ pc' = "mix" /\ mixed' = len /\ UNCHANGED <<file, context>>
    BY <1>3 DEF RapidShort, wyhashShort, goShort, Goto
  <2>2. mixed' \in 0 .. len
    BY <1>1, <2>1
  <2>3. QED
    BY <2>1, <2>2, InvLast
<1>4. CASE UnrolledRound
  <2>1. /\ pc = "loop" /\ kernel \in Folded /\ 224 <= rest
        /\ pc' = "loop" /\ call' = call /\ Advance(224)
    BY <1>1, <1>4 DEF UnrolledRound, Unrolled, Goto, Folded, Rapid
  <2>2. QED
    BY <2>1, InvAdvance
<1>5. ASSUME NEW lanes \in Nat, kernel \in Folded, Round(lanes)
      PROVE Inv'
  <2>1. /\ pc = "loop" /\ 16 * lanes <= rest
        /\ pc' = "loop" /\ call' = call /\ Advance(16 * lanes)
    BY <1>1, <1>5 DEF Round, Goto
  <2>2. 16 * lanes \in Nat /\ (16 * lanes) % 16 = 0
    BY <1>5
  <2>3. QED
    BY <1>5, <2>1, <2>2, InvAdvance
<1>6. CASE rapidhashRound \/ rapidhashMicroRound \/ rapidhashNanoRound \/ goRound
  BY <1>5, <1>6 DEF rapidhashRound, rapidhashMicroRound, rapidhashNanoRound, goRound, Folded, Rapid
<1>7. CASE wyhashRound
  <2>1. /\ pc = "loop" /\ kernel \in Folded /\ 48 <= rest
        /\ pc' = "loop" /\ call' = call /\ Advance(48)
    BY <1>1, <1>7 DEF wyhashRound, Goto, Folded
  <2>2. QED
    BY <2>1, InvAdvance
<1>8. CASE wyhashPair
  <2>1. /\ pc = "loop" /\ kernel \in Folded /\ 16 <= rest
        /\ pc' = "loop" /\ call' = call /\ Advance(16)
    BY <1>1, <1>8 DEF wyhashPair, Goto, Folded
  <2>2. QED
    BY <2>1, InvAdvance
<1>9. CASE rapidhashRest \/ rapidhashMicroRest \/ rapidhashNanoRest
  <2>1. call' = call /\ pc' = "mix" /\ mixed' = rest /\ UNCHANGED <<file, context>>
    BY <1>9 DEF rapidhashRest, rapidhashMicroRest, rapidhashNanoRest, Rest, RapidLength, Goto
  <2>2. mixed' \in 0 .. len
    BY <1>1, <2>1
  <2>3. QED
    BY <2>1, <2>2, InvLast
<1>10. CASE wyhashLast \/ goRest
  <2>1. call' = call /\ pc' = "mix" /\ mixed' = len /\ UNCHANGED <<file, context>>
    BY <1>10 DEF wyhashLast, goRest, Goto
  <2>2. mixed' \in 0 .. len
    BY <1>1, <2>1
  <2>3. QED
    BY <2>1, <2>2, InvLast
<1>11. QED
  BY <1>2, <1>3, <1>4, <1>6, <1>7, <1>8, <1>9, <1>10 DEF RapidWyNext

LEMMA InvT1ha ==
    ASSUME Inv, T1haNext
    PROVE Inv'
<1>1. CASE t1ha1_le \/ t1ha1_be \/ t1ha2_atonce \/ t1ha2_atonce128
  <2>1. Begin /\ kernel \in Whole1
    BY <1>1 DEF t1ha1_le, t1ha1_be, t1ha2_atonce, t1ha2_atonce128, Whole1, T1ha1, T1ha2
  <2>2. QED
    BY <2>1, InvBegin
<1>2. CASE T1HA1_Loop \/ T1HA2_LOOP
  BY <1>2, InvLoop DEF T1HA1_Loop, T1HA2_LOOP, Whole1
<1>3. CASE T1HA1_Tail \/ T1HA2_Tail
  BY <1>3, InvFinish DEF T1HA1_Tail, T1HA2_Tail
<1>4. CASE t1ha2_init \/ (\E n \in Pieces : t1ha2_update(n)) \/ t1ha2_final
  BY <1>4, InvStream
<1>5. QED
  BY <1>1, <1>2, <1>3, <1>4 DEF T1haNext

LEMMA InvInit == Init => Inv
<1> SUFFICES ASSUME Init PROVE Inv
  OBVIOUS
<1>1. len \in Nat
  BY CallTyped DEF Init
<1>2. QED
  BY <1>1 DEF Init, Inv, TypeOK, Where, Reading

LEMMA InvNext == Inv /\ [Step]_vars => Inv'
<1> SUFFICES ASSUME Inv, [Step]_vars PROVE Inv'
  OBVIOUS
<1>1. CASE Open \/ Fail \/ Elsewhere \/ UnknownAlgorithm \/ StandIn
           \/ (\E a, b \in Operands : Return(a, b))
  BY <1>1, InvMoves
<1>2. CASE T1haNext
  BY <1>2, InvT1ha
<1>3. CASE RapidWyNext
  BY <1>3, InvRapidWy
<1>4. CASE UNCHANGED vars
  <2>1. call' = call
    BY <1>4 DEF vars
  <2>2. len' = len /\ kernel' = kernel
    BY <2>1, CallKept
  <2>3. QED
    BY <1>4, <2>1, <2>2 DEF Inv, TypeOK, Where, Reading, vars, file, input, context
<1>5. QED
  BY <1>1, <1>2, <1>3, <1>4 DEF Step

LEMMA InvAlways == Spec => []Inv
BY InvInit, InvNext, StepOnly, PTL DEF Spec

(* For files of every length: the pointer never leaves the file, the rest  *)
(* is never counted below zero, and the two always make up the length.     *)
THEOREM TypeCorrect == Spec => []TypeOK
<1>1. Inv => TypeOK
  BY DEF Inv
<1>2. QED
  BY <1>1, InvAlways, PTL

-----------------------------------------------------------------------------
(* The products.                                                           *)

Exact == product # <<>> => \E a, b \in Word : product = <<a, b, WideProduct(a, b)>>

LEMMA WideExact ==
    ASSUME NEW a \in Word, NEW b \in Word
    PROVE  LET p == WideProduct(a, b)
           IN p[1] + W * p[2] = a * b /\ p[1] \in Word
<1>1. a * b \in Nat /\ W \in Nat \ {0}
  BY WordsPositive DEF Word
<1> DEFINE x == a * b
<1>2. (x % W) + W * (x \div W) = x /\ x % W \in 0 .. W - 1
  <2> HIDE DEF x
  <2>1. x \in Nat
    BY <1>1 DEF x
  <2>2. QED
    BY <1>1, <2>1
<1>3. QED
  BY <1>2 DEF WideProduct, Word

LEMMA ProductKept ==
    ASSUME Step, ~\E a, b \in Operands : Return(a, b)
    PROVE product' = product
BY DEF Step, T1haNext, RapidWyNext, Open, Fail, Elsewhere, UnknownAlgorithm, StandIn,
       t1ha1_le, t1ha1_be, Begin, T1HA1_Loop, Loop, T1HA1_Tail, Finish, t1ha2_atonce,
       t1ha2_atonce128, T1HA2_LOOP, T1HA2_Tail, t1ha2_init, t1ha2_update, t1ha2_final,
       Long, RapidShort, UnrolledRound, rapidhashRound, Round, rapidhashRest, Rest,
       rapidhashMicroRound, rapidhashMicroRest, rapidhashNanoRound, rapidhashNanoRest,
       wyhashShort, wyhashRound, wyhashPair, wyhashLast, goShort, goRound, goRest, Advance

LEMMA ExactNext == Exact /\ [Step]_vars => Exact'
<1> SUFFICES ASSUME Exact, [Step]_vars PROVE Exact'
  OBVIOUS
<1>1. ASSUME NEW a \in Operands, NEW b \in Operands, Return(a, b)
      PROVE Exact'
  <2>1. a \in Word /\ b \in Word
    BY SizesAssumption
  <2>2. /\ mul_64x64_128(machine.wide, a, b) = WideProduct(a, b)
        /\ rapid_mum(machine.wide, a, b) = WideProduct(a, b)
        /\ _wymum(machine.wide, a, b) = WideProduct(a, b)
    BY <2>1, HalvesProductExact, CarriesProductExact, Zenon DEF mul_64x64_128, rapid_mum, _wymum
  <2>3. product' = <<a, b, WideProduct(a, b)>>
    BY <1>1, <2>2 DEF Return, MixT1ha, MixRapid, MixWy, MixGo
  <2>4. QED
    BY <2>1, <2>3 DEF Exact
<1>2. CASE product' = product
  BY <1>2 DEF Exact
<1>3. CASE UNCHANGED vars
  BY <1>2, <1>3 DEF vars
<1>4. QED
  BY <1>1, <1>2, <1>3, ProductKept

(* Whatever two words are multiplied, on whatever build, the two words of  *)
(* the result are the product, as rapidhash.h, wyhash.h and t1ha_bits.h    *)
(* take it to be.                                                          *)
THEOREM ProductAlwaysExact == Spec => []ProductExact
<1>1. Init => Exact
  BY DEF Init, Exact
<1>2. Exact => ProductExact
  <2>1. ASSUME NEW a \in Word, NEW b \in Word, product = <<a, b, WideProduct(a, b)>>
        PROVE ProductExact
    BY <2>1, WideExact DEF ProductExact
  <2>2. QED
    BY <2>1 DEF Exact, ProductExact
<1>3. QED
  BY <1>1, <1>2, ExactNext, StepOnly, PTL DEF Spec

-----------------------------------------------------------------------------
(* What rapidhash and wyhash load.                                         *)

\* At the head of the loop they have loaded what the pointer has passed.
Loaded ==
    kernel \in Folded =>
        /\ pc = "loop" => memory = 0 .. at - 1
        /\ pc = "loop" /\ kernel # "wyhash" => rest > 0
        /\ pc = "mix" => memory = 0 .. len - 1
        /\ pc \in {"done", "failed"} => memory = {}

\* What is known at the head of their loop.
LEMMA AtLoop ==
    ASSUME Inv, Loaded, pc = "loop", kernel \in Folded
    PROVE /\ len \in Nat /\ at \in Nat /\ rest \in Nat /\ at + rest = len /\ len > 16
          /\ at % 16 = 0 /\ memory = 0 .. at - 1
          /\ kernel # "wyhash" => rest > 0
BY CallTyped DEF Inv, TypeOK, Where, Reading, Loaded

\* The nested ifs take as many pairs as there are 16 bytes before the last.
LEMMA NestedPairs ==
    ASSUME NEW secrets \in Seq(Nat), rest \in 1 .. 16 * (Len(secrets) + 1)
    PROVE /\ Nested(secrets) \in Seq(Nat)
          /\ Len(Nested(secrets)) = (rest - 1) \div 16
<1>1. CASE rest > 16 * Len(secrets)
  <2>1. Nested(secrets) = secrets
    BY <1>1 DEF Nested
  <2>2. (rest - 1) \div 16 = Len(secrets)
    BY <1>1
  <2>3. QED
    BY <2>1, <2>2
<1>2. CASE ~(rest > 16 * Len(secrets))
  <2>1. Nested(secrets) = SubSeq(secrets, 1, (rest - 1) \div 16)
    BY <1>2 DEF Nested
  <2>2. (rest - 1) \div 16 \in 0 .. Len(secrets)
    BY <1>2
  <2>3. QED
    BY <2>1, <2>2
<1>3. QED
  BY <1>1, <1>2

\* Two half words from each end, d further in.
LEMMA FourHalves ==
    ASSUME NEW n \in 4 .. 16, NEW d \in Nat,
           \/ d = 0 /\ n < 8
           \/ d = 4 /\ n >= 8
           \/ d = 8 /\ n = 16
    PROVE 0 .. 3 \cup d .. d + 3 \cup n - 4 .. n - 1 \cup n - 4 - d .. n - 1 - d = 0 .. n - 1
<1>1. CASE d = 0 /\ n < 8
  <2>1. 0 .. 3 \cup n - 4 .. n - 1 = 0 .. n - 1
    BY <1>1
  <2>2. d + 3 = 3 /\ n - 4 - d = n - 4 /\ n - 1 - d = n - 1
    BY <1>1
  <2>3. QED
    BY <1>1, <2>1, <2>2
<1>2. CASE d = 4 /\ n >= 8
  <2>1. 0 .. 3 \cup 4 .. 7 \cup n - 4 .. n - 1 \cup n - 8 .. n - 5 = 0 .. n - 1
    BY <1>2
  <2>2. d + 3 = 7 /\ n - 4 - d = n - 8 /\ n - 1 - d = n - 5
    BY <1>2
  <2>3. QED
    BY <1>2, <2>1, <2>2
<1>3. CASE d = 8 /\ n = 16
  <2>1. 0 .. 3 \cup 8 .. 11 \cup 12 .. 15 \cup 4 .. 7 = 0 .. 15
    OBVIOUS
  <2>2. d + 3 = 11 /\ n - 4 - d = 4 /\ n - 1 - d = 7 /\ n - 4 = 12 /\ n - 1 = 15
    BY <1>3
  <2>3. QED
    BY <1>3, <2>1, <2>2
<1>4. QED
  BY <1>1, <1>2, <1>3

LEMMA LoadedShort ==
    ASSUME Inv, RapidShort \/ wyhashShort \/ goShort
    PROVE memory' = 0 .. len - 1 /\ pc' = "mix"
<1>1. len \in Nat /\ len <= 16 /\ memory = {}
  BY CallTyped DEF Inv, TypeOK, Where, RapidShort, wyhashShort, goShort, Short
<1>2. pc' = "mix"
  BY DEF RapidShort, wyhashShort, goShort, Goto
<1>3. len \in 1 .. 3 => {0, len \div 2, len - 1} = 0 .. len - 1
  BY <1>1
<1>4. len = 0 => 0 .. len - 1 = {}
  OBVIOUS
<1>5. CASE RapidShort
  <2>1. \/ len >= 8 /\ memory' = memory \cup (0 .. 7 \cup len - 8 .. len - 1)
        \/ len \in 4 .. 7 /\ memory' = memory \cup (0 .. 3 \cup len - 4 .. len - 1)
        \/ len \in 1 .. 3 /\ memory' = memory \cup {0, len \div 2, len - 1}
        \/ len = 0 /\ memory' = memory
    BY <1>5 DEF RapidShort, Take, input
  <2>2. /\ len >= 8 => 0 .. 7 \cup len - 8 .. len - 1 = 0 .. len - 1
        /\ len \in 4 .. 7 => 0 .. 3 \cup len - 4 .. len - 1 = 0 .. len - 1
    BY <1>1
  <2>3. QED
    BY <1>1, <1>2, <1>3, <1>4, <2>1, <2>2
<1>6. ASSUME NEW d \in Nat, (d = 0 /\ len < 8) \/ (d = 4 /\ len >= 8) \/ (d = 8 /\ len = 16),
             \/ /\ len >= 4
                /\ memory' = memory \cup (0 .. 3 \cup d .. d + 3 \cup len - 4 .. len - 1
                                            \cup len - 4 - d .. len - 1 - d)
             \/ len \in 1 .. 3 /\ memory' = memory \cup {0, len \div 2, len - 1}
             \/ len = 0 /\ memory' = memory
      PROVE memory' = 0 .. len - 1
  <2>1. CASE len >= 4
    <3>1. len \in 4 .. 16
      BY <1>1, <2>1
    <3>2. 0 .. 3 \cup d .. d + 3 \cup len - 4 .. len - 1 \cup len - 4 - d .. len - 1 - d
              = 0 .. len - 1
      BY <1>6, <3>1, FourHalves
    <3>3. memory' = memory \cup (0 .. 3 \cup d .. d + 3 \cup len - 4 .. len - 1
                                            \cup len - 4 - d .. len - 1 - d)
      BY <1>1, <1>6, <2>1
    <3>4. QED
      BY <1>1, <3>2, <3>3, Zenon
  <2>2. CASE ~(len >= 4)
    BY <1>1, <1>3, <1>4, <1>6, <2>2
  <2>3. QED
    BY <2>1, <2>2
<1>7. CASE wyhashShort
  <2> DEFINE d == 4 * (len \div 8)
  <2>1. d \in Nat /\ ((d = 0 /\ len < 8) \/ (d = 4 /\ len >= 8) \/ (d = 8 /\ len = 16))
    BY <1>1
  <2>2. \/ /\ len >= 4
           /\ memory' = memory \cup (0 .. 3 \cup d .. d + 3 \cup len - 4 .. len - 1
                                       \cup len - 4 - d .. len - 1 - d)
        \/ len \in 1 .. 3 /\ memory' = memory \cup {0, len \div 2, len - 1}
        \/ len = 0 /\ memory' = memory
    BY <1>7 DEF wyhashShort, Take, input
  <2> HIDE DEF d
  <2>3. QED
    BY <1>2, <1>6, <2>1, <2>2
<1>8. CASE goShort
  <2> DEFINE d == IF len < 8 THEN 0 ELSE 4
  <2>1. d \in Nat /\ ((d = 0 /\ len < 8) \/ (d = 4 /\ len >= 8))
    BY <1>1
  <2>2. \/ /\ len >= 4
           /\ memory' = memory \cup (0 .. 3 \cup d .. d + 3 \cup len - 4 .. len - 1
                                       \cup len - 4 - d .. len - 1 - d)
        \/ len \in 1 .. 3 /\ memory' = memory \cup {0, len \div 2, len - 1}
        \/ len = 0 /\ memory' = memory
    BY <1>8 DEF goShort, Take, input
  <2> HIDE DEF d
  <2>3. QED
    BY <1>2, <1>6, <2>1, <2>2
<1>9. QED
  BY <1>5, <1>7, <1>8

LEMMA LoadedRound ==
    ASSUME Inv, Loaded,
           \/ UnrolledRound \/ wyhashRound \/ wyhashPair
           \/ rapidhashRound \/ rapidhashMicroRound \/ rapidhashNanoRound \/ goRound
    PROVE Loaded'
<1>1. pc = "loop" /\ kernel \in Folded /\ call' = call /\ pc' = "loop"
  BY DEF UnrolledRound, wyhashRound, wyhashPair, rapidhashRound, rapidhashMicroRound,
         rapidhashNanoRound, goRound, Round, Goto, Folded, Rapid
<1>2. /\ len \in Nat /\ at \in Nat /\ rest \in Nat /\ memory = 0 .. at - 1
      /\ kernel # "wyhash" => rest > 0
  BY <1>1, AtLoop
<1>3. ASSUME NEW n \in Nat, memory' = memory \cup at .. at + n - 1, Advance(n),
             kernel # "wyhash" => rest > n
      PROVE Loaded'
  <2>1. memory' = 0 .. at' - 1
    BY <1>2, <1>3 DEF Advance
  <2>2. kernel # "wyhash" => rest' > 0
    BY <1>2, <1>3 DEF Advance
  <2>3. kernel' = kernel
    BY <1>1, CallKept
  <2>4. QED
    BY <1>1, <2>1, <2>2, <2>3 DEF Loaded
<1>4. CASE UnrolledRound
  BY <1>2, <1>3, <1>4 DEF UnrolledRound, Unrolled, Take
<1>5. CASE wyhashRound
  BY <1>2, <1>3, <1>5 DEF wyhashRound, Take
<1>6. CASE wyhashPair
  BY <1>2, <1>3, <1>6 DEF wyhashPair, Take
<1>7. CASE rapidhashRound \/ rapidhashMicroRound \/ rapidhashNanoRound \/ goRound
  <2>1. ASSUME NEW lanes \in Nat, Round(lanes) PROVE Loaded'
    BY <1>2, <1>3, <2>1 DEF Round, Take
  <2>2. QED
    BY <1>7, <2>1 DEF rapidhashRound, rapidhashMicroRound, rapidhashNanoRound, goRound
<1>8. QED
  BY <1>4, <1>5, <1>6, <1>7

\* The last 16 bytes begin before what is left, and not before the file.
LEMMA LoadedRest ==
    ASSUME Inv, Loaded,
           rapidhashRest \/ rapidhashMicroRest \/ rapidhashNanoRest \/ wyhashLast \/ goRest
    PROVE memory' = 0 .. len - 1 /\ pc' = "mix"
<1>1. pc = "loop" /\ kernel \in Folded /\ pc' = "mix"
  BY DEF rapidhashRest, rapidhashMicroRest, rapidhashNanoRest, Rest, wyhashLast, goRest, Goto,
         Folded, Rapid
<1>2. /\ len \in Nat /\ at \in Nat /\ rest \in Nat /\ at + rest = len /\ len > 16
      /\ memory = 0 .. at - 1
      /\ kernel # "wyhash" => rest > 0
  BY <1>1, AtLoop
<1>3. ASSUME NEW n \in Nat, 16 * n <= rest, rest - 16 <= 16 * n,
             memory' = memory \cup (at .. at + 16 * n - 1 \cup len - 16 .. len - 1)
      PROVE memory' = 0 .. len - 1
  BY <1>2, <1>3
<1>4. CASE wyhashLast
  <2>1. rest <= 16 /\ memory' = memory \cup (at + rest - 16 .. at + rest - 1)
    BY <1>2, <1>4 DEF wyhashLast, NoMorePairs, Take
  <2>2. QED
    BY <1>1, <1>2, <2>1
<1>5. ASSUME NEW secrets \in Seq(Nat), kernel # "wyhash", rest <= 16 * (Len(secrets) + 1)
      PROVE LET n == Len(Nested(secrets)) IN n \in Nat /\ 16 * n <= rest /\ rest - 16 <= 16 * n
  BY <1>2, <1>5, NestedPairs
<1>6. CASE goRest
  <2> DEFINE n == Len(Nested(<<2, 2>>))
  <2>1. memory' = memory \cup (at .. at + 16 * n - 1 \cup len - 16 .. len - 1)
    BY <1>6 DEF goRest, Take
  <2>2. n \in Nat /\ 16 * n <= rest /\ rest - 16 <= 16 * n
    <3>1. <<2, 2>> \in Seq(Nat) /\ Len(<<2, 2>>) = 2 /\ rest <= 48 /\ kernel # "wyhash"
      BY <1>6 DEF goRest
    <3>2. rest <= 16 * (Len(<<2, 2>>) + 1)
      BY <3>1, <1>2
    <3>3. QED
      BY <1>5, <3>1, <3>2
  <2> HIDE DEF n
  <2>3. QED
    BY <1>1, <1>3, <2>1, <2>2
<1>7. ASSUME NEW secrets \in Seq(Nat), kernel # "wyhash", Rest(Len(secrets) + 1, secrets)
      PROVE memory' = 0 .. len - 1
  <2> DEFINE n == Len(Nested(secrets))
  <2>1. /\ rest <= 16 * (Len(secrets) + 1)
        /\ memory' = memory \cup (at .. at + 16 * n - 1 \cup at + rest - 16 .. at + rest - 16 + 15)
    BY <1>7 DEF Rest, Take
  <2>2. n \in Nat /\ 16 * n <= rest /\ rest - 16 <= 16 * n
    BY <1>5, <1>7, <2>1
  <2> HIDE DEF n
  <2>3. at + rest - 16 = len - 16 /\ at + rest - 16 + 15 = len - 1
    BY <1>2
  <2>4. QED
    BY <1>3, <2>1, <2>2, <2>3
<1>8. CASE rapidhashRest \/ rapidhashMicroRest \/ rapidhashNanoRest
  <2>1. kernel # "wyhash"
    BY <1>8 DEF rapidhashRest, rapidhashMicroRest, rapidhashNanoRest
  <2>2. CASE rapidhashRest
    <3>1. <<2, 2, 1, 1, 2, 1>> \in Seq(Nat) /\ Len(<<2, 2, 1, 1, 2, 1>>) + 1 = 7
      OBVIOUS
    <3>2. Rest(Len(<<2, 2, 1, 1, 2, 1>>) + 1, <<2, 2, 1, 1, 2, 1>>)
      BY <2>2, <3>1, Zenon DEF rapidhashRest
    <3>3. QED
      BY <1>1, <1>7, <2>1, <3>1, <3>2
  <2>3. CASE rapidhashMicroRest
    <3>1. <<2, 2, 1, 1>> \in Seq(Nat) /\ Len(<<2, 2, 1, 1>>) + 1 = 5
      OBVIOUS
    <3>2. Rest(Len(<<2, 2, 1, 1>>) + 1, <<2, 2, 1, 1>>)
      BY <2>3, <3>1, Zenon DEF rapidhashMicroRest
    <3>3. QED
      BY <1>1, <1>7, <2>1, <3>1, <3>2
  <2>4. CASE rapidhashNanoRest
    <3>1. <<2, 2>> \in Seq(Nat) /\ Len(<<2, 2>>) + 1 = 3
      OBVIOUS
    <3>2. Rest(Len(<<2, 2>>) + 1, <<2, 2>>)
      BY <2>4, <3>1, Zenon DEF rapidhashNanoRest
    <3>3. QED
      BY <1>1, <1>7, <2>1, <3>1, <3>2
  <2>5. QED
    BY <1>8, <2>2, <2>3, <2>4
<1>9. QED
  BY <1>1, <1>4, <1>6, <1>8

LEMMA LoadedNext == Inv /\ Loaded /\ [Step]_vars => Loaded'
<1> SUFFICES ASSUME Inv, Loaded, [Step]_vars PROVE Loaded'
  OBVIOUS
<1>1. call' = call
  BY CallNeverChanges DEF vars
<1>2. len' = len /\ kernel' = kernel
  BY <1>1, CallKept
<1>3. CASE kernel \notin Folded
  BY <1>2, <1>3 DEF Loaded
<1>4. CASE UNCHANGED vars
  BY <1>2, <1>4 DEF Loaded, vars, file, input
<1>5. ASSUME kernel \in Folded, T1haNext \/ StandIn PROVE FALSE
  BY <1>5 DEF T1haNext, StandIn, t1ha1_le, t1ha1_be, T1HA1_Loop, T1HA1_Tail, t1ha2_atonce,
         t1ha2_atonce128, T1HA2_LOOP, T1HA2_Tail, t1ha2_init, t1ha2_update, t1ha2_final,
         StandIns, T1ha1, T1ha2, T1ha2Stream, Folded, Rapid
<1>6. CASE Open \/ Fail \/ Elsewhere \/ UnknownAlgorithm
  BY <1>2, <1>6 DEF Loaded, Inv, Where, Open, Fail, Elsewhere, UnknownAlgorithm, Goto, input
<1>7. ASSUME NEW a, NEW b, Return(a, b) PROVE Loaded'
  BY <1>2, <1>7 DEF Loaded, Return, Goto
<1>8. CASE Long
  <2>1. len \in Nat /\ at = 0 /\ rest = len /\ memory = {}
    BY CallTyped, <1>8 DEF Inv, TypeOK, Where, Reading, Long
  <2>2. QED
    BY <1>2, <1>8, <2>1 DEF Loaded, Long, Short, Goto, file, input
<1>9. CASE RapidShort \/ wyhashShort \/ goShort
  BY <1>2, <1>9, LoadedShort DEF Loaded
<1>10. CASE rapidhashRest \/ rapidhashMicroRest \/ rapidhashNanoRest \/ wyhashLast \/ goRest
  BY <1>2, <1>10, LoadedRest DEF Loaded
<1>11. QED
  BY <1>3, <1>4, <1>5, <1>6, <1>7, <1>8, <1>9, <1>10, LoadedRound DEF Step, RapidWyNext

LEMMA LoadedAlways == Spec => [](Inv /\ Loaded)
<1>1. Init => Loaded
  BY DEF Init, Loaded
<1>2. QED
  BY <1>1, InvInit, InvNext, LoadedNext, StepOnly, PTL DEF Spec

LEMMA LoadedInside == Inv /\ Loaded => ReadsInside
<1> SUFFICES ASSUME Inv, Loaded, kernel \in Folded PROVE ReadsInside
  BY DEF ReadsInside
<1>1. len \in Nat /\ at \in Nat /\ at <= len
  BY CallTyped DEF Inv, TypeOK
<1>2. pc \in {"open", "start", "loop", "mix", "done", "failed"}
  BY Apart DEF Inv, TypeOK, Where
<1>3. CASE pc = "loop"
  BY <1>1, <1>3 DEF Loaded, ReadsInside
<1>4. QED
  BY <1>2, <1>3 DEF Inv, Where, Loaded, ReadsInside

(* For files of every length: rapidhash, its variants and wyhash load      *)
(* every byte of the file, and none before or after it.                    *)
THEOREM ReadsAlwaysInside == Spec => []ReadsInside
BY LoadedAlways, LoadedInside, PTL

-----------------------------------------------------------------------------
(* The pages t1ha loads from.                                              *)

LEMMA PagePositive == Page \in Nat \ {0} /\ Page % 8 = 0 /\ Page > 42
<1>1. PICK k \in 1 .. Page : Page = 8 * k
  BY SizesAssumption
<1>2. Page > 42
  BY SizesAssumption
<1>3. QED
  BY <1>1, <1>2

LEMMA PageOrder ==
    ASSUME NEW x \in Nat, NEW y \in Nat, x <= y
    PROVE x \div Page <= y \div Page
<1> DEFINE q == x \div Page  r == y \div Page
<1>1. /\ q \in Nat /\ r \in Nat
      /\ q * Page <= x /\ y < (r + 1) * Page
  BY PagePositive
<1> HIDE DEF q, r
<1>2. ASSUME q >= r + 1 PROVE FALSE
  <2>1. q * Page >= (r + 1) * Page
    BY <1>1, <1>2, PagePositive
  <2>2. QED
    BY <1>1, <2>1, PagePositive
<1>3. QED
  BY <1>1, <1>2 DEF q, r

\* Where a load of eight bytes stays in the page of one of them.
LEMMA OnePage ==
    ASSUME NEW x \in Nat, NEW y \in Nat,
           \/ x % 8 = 0 /\ x <= y /\ y <= x + 7
           \/ x % Page < 8 /\ x <= y /\ y <= x + 7
           \/ x % Page >= 8 /\ x - 8 <= y /\ y <= x
    PROVE x \div Page = y \div Page
<1> DEFINE q == x \div Page  r == x % Page
<1>1. q \in Nat /\ r \in 0 .. Page - 1 /\ x = q * Page + r
  BY PagePositive
<1> HIDE DEF q, r
<1>2. r + (y - x) \in 0 .. Page - 1
  <2>1. CASE x % 8 = 0 /\ x <= y /\ y <= x + 7
    <3>1. PICK k \in Nat : Page = 8 * k
      BY PagePositive
    <3>2. (q * Page) % 8 = 0
      <4>1. q * Page = 8 * (q * k) /\ q * k \in Nat
        BY <1>1, <3>1
      <4>2. QED
        BY <4>1
    <3>3. q * Page \in Nat
      BY <1>1, PagePositive
    <3> DEFINE z == q * Page
    <3> HIDE DEF z
    <3>4. r % 8 = 0
      <4>1. z \in Nat /\ z % 8 = 0 /\ x = z + r /\ x % 8 = 0 /\ r \in Nat
        BY <1>1, <2>1, <3>2, <3>3 DEF z
      <4>2. QED
        BY <4>1
    <3>5. QED
      BY <1>1, <2>1, <3>4, PagePositive
  <2>2. CASE x % Page < 8 /\ x <= y /\ y <= x + 7
    BY <1>1, <2>2, PagePositive DEF r
  <2>3. CASE x % Page >= 8 /\ x - 8 <= y /\ y <= x
    BY <1>1, <2>3, PagePositive DEF r
  <2>4. QED
    BY <2>1, <2>2, <2>3
<1> DEFINE s == r + (y - x)
<1>3. s \in 0 .. Page - 1
  BY <1>2
<1>4. y = q * Page + s
  BY <1>1, PagePositive
<1> HIDE DEF s
<1>5. y \div Page = q
  BY <1>1, <1>3, <1>4, PagePositive, DivisionUnique
<1>6. QED
  BY <1>5 DEF q

\* A byte may be loaded if its page has some of the file.
MayLoad(p) ==
    /\ addr \div Page <= (addr + p) \div Page
    /\ (addr + p) \div Page <= (addr + (len - 1)) \div Page

LEMMA MayLoadFile ==
    ASSUME call \in Calls, NEW p \in 0 .. len - 1
    PROVE MayLoad(p)
<1>1. addr \in Nat /\ len \in Nat
  BY CallTyped
<1>2. addr + p \in Nat /\ addr + (len - 1) \in Nat /\ addr <= addr + p /\ addr + p <= addr + (len - 1)
  BY <1>1
<1>3. QED
  BY <1>1, <1>2, PageOrder DEF MayLoad

\* Nor does the load of a tail leave the pages of the file.
LEMMA MayLoadTail ==
    ASSUME call \in Calls, NEW q \in 0 .. len - 1, NEW tail \in Nat, NEW aligned \in BOOLEAN,
           aligned => (addr + q) % 8 = 0, q + TailSize(tail) = len,
           NEW p \in TailLoads(aligned, q, tail)
    PROVE MayLoad(p)
<1> DEFINE n == TailSize(tail)  x == addr + q
<1>1. addr \in Nat /\ len \in Nat /\ n \in 1 .. 8 /\ q + n = len /\ x \in Nat
  BY CallTyped DEF TailSize
<1>2. MayLoad(q)
  BY MayLoadFile
<1>3. \/ p \in q .. q + n - 1
      \/ aligned /\ p \in q .. q + 7
      \/ x % Page >= 8 /\ p \in q - (8 - n) .. q + n - 1
      \/ ~(x % Page >= 8) /\ p \in q .. q + 7
  BY DEF TailLoads, can_read_underside
<1> HIDE DEF n, x
<1>4. CASE p \in 0 .. len - 1
  BY <1>4, MayLoadFile
<1>5. ASSUME p \notin 0 .. len - 1
      PROVE addr + p \in Nat /\ x \div Page = (addr + p) \div Page
  <2>1. x \in Nat /\ x = addr + q /\ x % Page \in Nat /\ x % Page <= x
    BY <1>1, PagePositive DEF x
  <2>2. \/ x % 8 = 0 /\ p \in q .. q + 7
        \/ x % Page >= 8 /\ p \in q - (8 - n) .. q + n - 1
        \/ x % Page < 8 /\ p \in q .. q + 7
    BY <1>1, <1>3, <1>5, <2>1 DEF x
  <2>3. p \in Int
    BY <1>1, <2>2
  <2>4. \/ x % 8 = 0 /\ x <= addr + p /\ addr + p <= x + 7
        \/ x % Page >= 8 /\ x - 8 <= addr + p /\ addr + p <= x
        \/ x % Page < 8 /\ x <= addr + p /\ addr + p <= x + 7
    BY <1>1, <1>5, <2>1, <2>2, <2>3
  <2>5. addr + p \in Nat
    BY <1>1, <2>1, <2>3, <2>4
  <2>6. QED
    BY <2>1, <2>4, <2>5, OnePage
<1>6. CASE p \notin 0 .. len - 1
  BY <1>2, <1>5, <1>6 DEF MayLoad, x
<1>7. QED
  BY <1>4, <1>6

Allowed ==
    /\ \A p \in memory : MayLoad(p)
    /\ kernel \in Whole1 => at % 8 = 0

LEMMA AllowedFile ==
    ASSUME Inv, call' = call, \A p \in memory : MayLoad(p), memory' \subseteq memory \cup 0 .. len - 1
    PROVE \A p \in memory' : MayLoad(p)'
<1>1. len' = len /\ addr' = addr /\ call \in Calls
  BY CallKept DEF Inv, TypeOK
<1>2. \A p \in 0 .. len - 1 : MayLoad(p)
  BY <1>1, MayLoadFile
<1>3. QED
  BY <1>1, <1>2 DEF MayLoad

LEMMA AllowedLoop ==
    ASSUME Inv, Allowed, NEW order, Loop(order), kernel \in Whole1
    PROVE Allowed'
<1>1. len \in Nat /\ call' = call
  BY CallTyped DEF Inv, TypeOK, Loop, Goto
<1>2. /\ at \in Nat /\ at + 31 <= len - 1 /\ at % 32 = 0
  BY <1>1 DEF Inv, TypeOK, Where, Reading, Loop
<1>3. memory' \subseteq memory \cup 0 .. len - 1
  <2>1. memory' = memory \cup at .. at + 31
    BY DEF Loop, Take
  <2>2. at .. at + 31 \subseteq 0 .. len - 1
    BY <1>1, <1>2
  <2>3. QED
    BY <2>1, <2>2
<1>4. at' % 8 = 0
  <2>1. (at + 32) % 8 = 0
    BY <1>2
  <2>2. QED
    BY <2>1 DEF Loop
<1>5. QED
  BY <1>1, <1>3, <1>4, AllowedFile, CallKept DEF Allowed

\* How the words of the remainder divide it.
LEMMA LastWord ==
    ASSUME NEW tail \in 1 .. 32
    PROVE /\ TailWords(tail) \in 1 .. 4
          /\ 8 * (TailWords(tail) - 1) + TailSize(tail) = tail
          /\ TailSize(tail) \in 1 .. 8
BY DEF TailWords, TailSize

LEMMA AllowedFinish ==
    ASSUME Inv, Allowed, NEW order, NEW lanes, Finish(order, lanes)
    PROVE Allowed'
<1>1. len \in Nat /\ addr \in Nat /\ call' = call /\ call \in Calls
  BY CallTyped DEF Inv, TypeOK, Finish, Goto
<1>2. len' = len /\ addr' = addr /\ kernel' = kernel /\ at' = at
  BY <1>1, CallKept DEF Finish, file
<1>3. at \in Nat /\ rest \in 0 .. 32 /\ at + rest = len /\ at % 8 = 0
  BY <1>1 DEF Inv, TypeOK, Where, Reading, Finish
<1> DEFINE last == at + 8 * (TailWords(rest) - 1)
<1>4. memory' = memory \cup IF rest = 0 THEN {}
                            ELSE at .. last - 1 \cup TailLoads(ReadAligned(0), last, rest)
  BY DEF Finish, Take
<1>5. ASSUME rest # 0
      PROVE /\ last \in 0 .. len - 1 /\ last + TailSize(rest) = len
            /\ last % 8 = at % 8 /\ (addr + last) % 8 = (addr + at) % 8
  <2>1. PICK k \in Nat : last = at + 8 * k
    <3>1. TailWords(rest) - 1 \in Nat
      BY <1>3, <1>5, LastWord
    <3>2. QED
      BY <3>1
  <2>2. last + TailSize(rest) = len /\ TailSize(rest) \in 1 .. 8
    BY <1>3, <1>5, LastWord
  <2> HIDE DEF last
  <2>3. QED
    BY <1>1, <1>3, <2>1, <2>2
<1>6. ReadAligned(0) => addr % 8 = 0
  BY <1>1 DEF ReadAligned
<1>7. ReadAligned(0) \in BOOLEAN
  BY DEF ReadAligned
<1> HIDE DEF last
<1>8. ASSUME rest # 0, ReadAligned(0)
      PROVE (addr + last) % 8 = 0
  BY <1>1, <1>3, <1>5, <1>6, <1>8
<1>9. ASSUME rest # 0, NEW p \in TailLoads(ReadAligned(0), last, rest)
      PROVE MayLoad(p)
  <2>1. rest \in Nat
    BY <1>3
  <2>2. QED
    BY <1>1, <1>5, <1>7, <1>8, <1>9, <2>1, MayLoadTail
<1>10. ASSUME rest # 0, NEW p \in at .. last - 1
       PROVE MayLoad(p)
  <2>1. p \in 0 .. len - 1
    BY <1>1, <1>3, <1>5, <1>10
  <2>2. QED
    BY <1>1, <2>1, MayLoadFile
<1>11. \A p \in memory' : MayLoad(p)
  BY <1>4, <1>9, <1>10 DEF Allowed
<1>12. QED
  BY <1>2, <1>3, <1>11 DEF Allowed, MayLoad

LEMMA AllowedNext == Inv /\ Allowed /\ ReadsInside' /\ [Step]_vars => Allowed'
<1> SUFFICES ASSUME Inv, Allowed, ReadsInside', [Step]_vars PROVE Allowed'
  OBVIOUS
<1>1. call' = call /\ len \in Nat /\ call \in Calls
  BY CallNeverChanges, CallTyped DEF vars, Inv, TypeOK
<1>2. len' = len /\ kernel' = kernel /\ addr' = addr
  BY <1>1, CallKept
<1>3. ASSUME memory' \subseteq memory \cup 0 .. len - 1, kernel \in Whole1 => at' = at
      PROVE Allowed'
  BY <1>1, <1>2, <1>3, AllowedFile DEF Allowed
<1>4. CASE kernel \in Folded
  <2>1. memory' \subseteq 0 .. len - 1
    BY <1>2, <1>4 DEF ReadsInside
  <2>2. QED
    BY <1>3, <1>4, <2>1, Apart
<1>5. CASE UNCHANGED vars \/ Open \/ Fail \/ Elsewhere \/ UnknownAlgorithm
  BY <1>3, <1>5 DEF vars, file, input, Open, Fail, Elsewhere, UnknownAlgorithm
<1>6. CASE StandIn
  BY <1>3, <1>6 DEF StandIn, Take, file
<1>7. ASSUME NEW a, NEW b, Return(a, b) PROVE Allowed'
  BY <1>3, <1>7 DEF Return, file
<1>8. CASE t1ha1_le \/ t1ha1_be \/ t1ha2_atonce \/ t1ha2_atonce128
  BY <1>3, <1>8 DEF t1ha1_le, t1ha1_be, t1ha2_atonce, t1ha2_atonce128, Begin, file, input
<1>9. CASE T1HA1_Loop \/ T1HA2_LOOP
  BY <1>9, AllowedLoop DEF T1HA1_Loop, T1HA2_LOOP, Whole1
<1>10. CASE T1HA1_Tail \/ T1HA2_Tail
  BY <1>10, AllowedFinish DEF T1HA1_Tail, T1HA2_Tail
<1>11. CASE t1ha2_init \/ t1ha2_final
  BY <1>3, <1>11 DEF t1ha2_init, t1ha2_final, Take, file, input
<1>12. ASSUME NEW n \in Pieces, t1ha2_update(n)
       PROVE Allowed'
  <2>1. kernel \in T1ha2Stream /\ kernel \notin Whole1
    BY <1>12, Apart DEF t1ha2_update
  <2>2. at \in Nat /\ at + n - 1 <= len - 1
    BY <1>1, <1>12 DEF Inv, TypeOK, Reading, t1ha2_update
  <2>3. memory' = memory \cup at .. at + n - 1
    BY <1>12 DEF t1ha2_update, Take
  <2>4. n \in Nat
    BY SizesAssumption
  <2>5. QED
    BY <1>1, <1>3, <2>1, <2>2, <2>3, <2>4
<1>13. ASSUME RapidWyNext PROVE kernel \in Folded
  BY <1>13 DEF RapidWyNext, Long, RapidShort, UnrolledRound, rapidhashRound, rapidhashRest,
               rapidhashMicroRound, rapidhashMicroRest, rapidhashNanoRound, rapidhashNanoRest,
               wyhashShort, wyhashRound, wyhashPair, wyhashLast, goShort, goRound, goRest,
               Folded, Rapid
<1>14. QED
  BY <1>4, <1>5, <1>6, <1>7, <1>8, <1>9, <1>10, <1>11, <1>12, <1>13 DEF Step, T1haNext

(* For files of every length at every address, on every machine: a load    *)
(* that reaches beyond the file stays in a page that has some of it, as    *)
(* can_read_underside has it, and what is taken to be aligned is.          *)
THEOREM ReadsAlwaysAllowed == Spec => []ReadsAllowed
<1>1. Init => Allowed
  BY DEF Init, Allowed
<1>2. Inv /\ Allowed => ReadsAllowed
  <2> SUFFICES ASSUME Inv, Allowed PROVE ReadsAllowed
    OBVIOUS
  <2>1. addr \in Nat /\ len \in Nat /\ at \in Nat
    BY CallTyped DEF Inv, TypeOK
  <2>2. addr + 0 = addr
    BY <2>1
  <2>3. kernel \in T1ha1 \cup T1ha2 /\ ReadAligned(0) => (addr + at) % 8 = 0
    BY <2>1 DEF Allowed, ReadAligned, Whole1
  <2>4. QED
    BY <2>2, <2>3 DEF Allowed, MayLoad, ReadsAllowed
<1>3. QED
  BY <1>1, <1>2, InvAlways, ReadsAlwaysInside, AllowedNext, StepOnly, PTL DEF Spec

-----------------------------------------------------------------------------
(* What is mixed in of the length.                                         *)

\* s is a sequence of n words, of whatever kind.
Counts(s, n) == n \in Nat /\ Len(s) = n /\ \E S : s \in Seq(S)

LEMMA CountsBoth ==
    ASSUME NEW s, NEW t, NEW n, NEW m, Counts(s, n), Counts(t, m)
    PROVE Counts(s \o t, n + m)
<1>1. PICK S : s \in Seq(S)
  BY DEF Counts
<1>2. PICK T : t \in Seq(T)
  BY DEF Counts
<1>3. s \in Seq(S \cup T) /\ t \in Seq(S \cup T)
  BY <1>1, <1>2
<1>4. s \o t \in Seq(S \cup T) /\ Len(s \o t) = n + m
  BY <1>3 DEF Counts
<1>5. n + m \in Nat
  BY DEF Counts
<1>6. QED
  BY <1>4, <1>5 DEF Counts

LEMMA CountsFunction ==
    ASSUME NEW n \in Nat, NEW f, f = [j \in 1 .. n |-> f[j]]
    PROVE Counts(f, n)
<1>1. f \in [1 .. n -> {f[j] : j \in 1 .. n}]
  OBVIOUS
<1>2. f \in Seq({f[j] : j \in 1 .. n}) /\ Len(f) = n
  BY <1>1
<1>3. QED
  BY <1>2 DEF Counts

LEMMA CountsEnds ==
    ASSUME NEW p, NEW q
    PROVE Counts(Ends(p, q), 2)
<1> DEFINE a == Into(p, <<"a", 0>>)  b == Into(q, <<"b", 0>>)
<1>1. <<a, b>> \in Seq({a, b}) /\ Len(<<a, b>>) = 2
  OBVIOUS
<1>2. QED
  BY <1>1 DEF Counts, Ends

LEMMA CountsPairs ==
    ASSUME NEW secrets \in Seq(Nat)
    PROVE Counts(Pairs(secrets), 2 * Len(secrets))
<1>1. 2 * Len(secrets) \in Nat
  OBVIOUS
<1>2. Pairs(secrets) = [j \in 1 .. 2 * Len(secrets) |-> Pairs(secrets)[j]]
  BY DEF Pairs
<1>3. QED
  BY <1>1, <1>2, CountsFunction

LEMMA CountsLanes ==
    ASSUME NEW n \in Nat
    PROVE Counts(LanePairs(n), 2 * n)
<1>1. 2 * n \in Nat
  OBVIOUS
<1>2. LanePairs(n) = [j \in 1 .. 2 * n |-> LanePairs(n)[j]]
  BY DEF LanePairs
<1>3. QED
  BY <1>1, <1>2, CountsFunction

\* At the head of its loop rapidhash has taken a word for each eight bytes; the
\* others, but for the stream, have mixed in the length before they leave theirs.
LengthInv ==
    /\ pc = "loop" /\ kernel \in Rapid =>
           rest > 0 /\ \E m \in Nat : at = 16 * m /\ Counts(words, 2 * m)
    /\ pc \in {"loop", "tail"} /\ kernel \in Whole1 => mixed = len
    /\ LengthKept

\* Steps that leave a kernel with the length mixed in.
LEMMA LengthWhole ==
    ASSUME call' = call, pc' = "mix", mixed' = len,
           kernel \notin Rapid \/ Len(words') <= 2
    PROVE LengthInv'
<1>1. len' = len /\ kernel' = kernel
  BY CallKept
<1>2. QED
  BY <1>1 DEF LengthInv, LengthKept

\* Steps that do not end a kernel and are no round of rapidhash.
LEMMA LengthElsewhere ==
    ASSUME call' = call, pc' # "mix", pc' = "loop" => kernel \notin Rapid,
           pc' \in {"loop", "tail"} /\ kernel \in Whole1 => mixed' = len
    PROVE LengthInv'
<1>1. len' = len /\ kernel' = kernel
  BY CallKept
<1>2. QED
  BY <1>1 DEF LengthInv, LengthKept

LEMMA LengthRapidShort ==
    ASSUME Inv, RapidShort
    PROVE LengthInv'
<1>1. /\ call' = call /\ pc' = "mix" /\ mixed' = len /\ words = <<>>
  BY DEF RapidShort, Goto, Inv, Where
<1>2. Counts(words, 0)
  BY <1>1, CountsFunction DEF Counts
<1>3. words' = words \/ \E p, q : words' = words \o Ends(p, q)
  BY DEF RapidShort, Take, input
<1>4. ASSUME NEW p, NEW q, words' = words \o Ends(p, q) PROVE Len(words') = 2
  <2>1. Counts(words', 0 + 2)
    BY <1>2, <1>4, CountsEnds, CountsBoth
  <2>2. QED
    BY <2>1 DEF Counts
<1>5. words' = words => Len(words') = 0
  BY <1>2 DEF Counts
<1>6. Len(words') <= 2
  <2>1. CASE words' = words
    BY <1>5, <2>1
  <2>2. CASE \E p, q : words' = words \o Ends(p, q)
    <3>1. PICK p, q : words' = words \o Ends(p, q)
      BY <2>2
    <3>2. Len(words') = 2
      BY <1>4, <3>1
    <3>3. QED
      BY <3>2
  <2>3. QED
    BY <1>3, <2>1, <2>2
<1>7. QED
  BY <1>1, <1>6, LengthWhole

\* A round takes two words for each 16 bytes the pointer passes.
LEMMA LengthRound ==
    ASSUME Inv, LengthInv, kernel \in Rapid, NEW lanes \in Nat, NEW new,
           Counts(new, 2 * lanes), words' = words \o new,
           pc = "loop", Goto("loop"), Advance(16 * lanes), rest > 16 * lanes
    PROVE LengthInv'
<1>1. len' = len /\ kernel' = kernel
  BY CallKept DEF Goto
<1>2. PICK m \in Nat : at = 16 * m /\ Counts(words, 2 * m)
  BY DEF LengthInv
<1>3. Counts(words', 2 * m + 2 * lanes)
  BY <1>2, CountsBoth
<1>4. rest \in Nat
  BY CallTyped DEF Inv, TypeOK
<1>5. m + lanes \in Nat /\ at' = 16 * (m + lanes) /\ 2 * (m + lanes) = 2 * m + 2 * lanes
      /\ rest' > 0
  BY <1>2, <1>4 DEF Advance
<1>6. Counts(words', 2 * (m + lanes))
  BY <1>3, <1>5
<1>7. pc' = "loop" /\ kernel' \notin Whole1
  BY <1>1, Apart DEF Goto, Folded
<1>8. QED
  BY <1>5, <1>6, <1>7 DEF LengthInv, LengthKept

\* The rest taken: the pairs that the words count and what was left of the
\* length give back the length.
LEMMA LengthRest ==
    ASSUME Inv, LengthInv, kernel \in Rapid, NEW secrets \in Seq(Nat),
           Rest(Len(secrets) + 1, secrets)
    PROVE LengthInv'
<1>1. call' = call /\ pc = "loop" /\ pc' = "mix" /\ mixed' = rest
      /\ rest <= 16 * (Len(secrets) + 1)
  BY DEF Rest, Goto, RapidLength
<1>2. len' = len /\ kernel' = kernel
  BY <1>1, CallKept
<1>3. len \in Nat /\ rest \in Nat /\ rest > 0 /\ at \in Nat /\ at + rest = len
  BY <1>1, CallTyped DEF Inv, TypeOK, Reading, LengthInv
<1>4. PICK m \in Nat : at = 16 * m /\ Counts(words, 2 * m)
  BY <1>1 DEF LengthInv
<1> DEFINE k == (rest - 1) \div 16
<1>5. Nested(secrets) \in Seq(Nat) /\ Len(Nested(secrets)) = k
  BY <1>1, <1>3, NestedPairs
<1>6. k \in Nat /\ rest - 1 = (16 * k) + ((rest - 1) % 16) /\ (rest - 1) % 16 \in Nat
  BY <1>3
<1> HIDE DEF k
<1>7. PICK p, q : words' = words \o (Pairs(Nested(secrets)) \o Ends(p, q))
  BY DEF Rest, Take
<1>8. Counts(Pairs(Nested(secrets)), 2 * k)
  BY <1>5, CountsPairs
<1>9. Counts(Pairs(Nested(secrets)) \o Ends(p, q), (2 * k) + 2)
  BY <1>8, CountsEnds, CountsBoth
<1>10. Counts(words', (2 * m) + ((2 * k) + 2))
  BY <1>4, <1>7, <1>9, CountsBoth
<1>11. Len(words') = (2 * (m + k)) + 2
  BY <1>4, <1>6, <1>10 DEF Counts
<1>12. (Len(words') - 2) \div 2 = m + k
  BY <1>4, <1>6, <1>11
<1>13. len = (16 * (m + k)) + ((mixed' - 1) % 16) + 1
  BY <1>1, <1>3, <1>4, <1>6
<1>14. Len(words') <= 2 => len = mixed'
  BY <1>1, <1>3, <1>4, <1>6, <1>11
<1>15. LengthKept'
  BY <1>2, <1>12, <1>13, <1>14 DEF LengthKept
<1>16. QED
  BY <1>1, <1>15 DEF LengthInv

LEMMA LengthRapid ==
    ASSUME Inv, LengthInv,
           \/ UnrolledRound \/ rapidhashRound \/ rapidhashMicroRound \/ rapidhashNanoRound
           \/ rapidhashRest \/ rapidhashMicroRest \/ rapidhashNanoRest
    PROVE LengthInv'
<1>1. rest \in Nat
  BY CallTyped DEF Inv, TypeOK
<1>2. CASE UnrolledRound
  <2> DEFINE new == [j \in 1 .. 28 |-> Into(Read(at + 8 * (j - 1), 8), <<"see", (j - 1) % 14>>)]
  <2>1. new = [j \in 1 .. 28 |-> new[j]] /\ words' = words \o new
    BY <1>2 DEF UnrolledRound, Take
  <2> HIDE DEF new
  <2>2. Counts(new, 28) /\ 28 = 2 * 14 /\ 224 = 16 * 14
    <3>1. 28 \in Nat /\ 28 = 2 * 14 /\ 224 = 16 * 14
      OBVIOUS
    <3>2. Counts(new, 28)
      BY <2>1, <3>1, CountsFunction, Zenon
    <3>3. QED
      BY <3>1, <3>2
  <2>3. /\ kernel \in Rapid /\ pc = "loop" /\ Goto("loop") /\ Advance(16 * 14)
        /\ rest > 16 * 14
    BY <1>2, <2>2 DEF UnrolledRound, Unrolled, Rapid
  <2>4. Counts(new, 2 * 14)
    BY <2>2
  <2>5. QED
    BY <2>1, <2>3, <2>4, LengthRound
<1>3. ASSUME NEW lanes \in Nat, kernel \in Rapid, Round(lanes) PROVE LengthInv'
  BY <1>3, CountsLanes, LengthRound DEF Round, Take
<1>4. CASE rapidhashRound \/ rapidhashMicroRound \/ rapidhashNanoRound
  BY <1>3, <1>4 DEF rapidhashRound, rapidhashMicroRound, rapidhashNanoRound, Rapid
<1>5. CASE rapidhashRest
  <2>1. <<2, 2, 1, 1, 2, 1>> \in Seq(Nat) /\ Len(<<2, 2, 1, 1, 2, 1>>) + 1 = 7
    OBVIOUS
  <2>2. Rest(Len(<<2, 2, 1, 1, 2, 1>>) + 1, <<2, 2, 1, 1, 2, 1>>) /\ kernel \in Rapid
    BY <1>5, <2>1, Zenon DEF rapidhashRest, Rapid
  <2>3. QED
    BY <2>1, <2>2, LengthRest
<1>6. CASE rapidhashMicroRest
  <2>1. <<2, 2, 1, 1>> \in Seq(Nat) /\ Len(<<2, 2, 1, 1>>) + 1 = 5
    OBVIOUS
  <2>2. Rest(Len(<<2, 2, 1, 1>>) + 1, <<2, 2, 1, 1>>) /\ kernel \in Rapid
    BY <1>6, <2>1, Zenon DEF rapidhashMicroRest, Rapid
  <2>3. QED
    BY <2>1, <2>2, LengthRest
<1>7. CASE rapidhashNanoRest
  <2>1. <<2, 2>> \in Seq(Nat) /\ Len(<<2, 2>>) + 1 = 3
    OBVIOUS
  <2>2. Rest(Len(<<2, 2>>) + 1, <<2, 2>>) /\ kernel \in Rapid
    BY <1>7, <2>1, Zenon DEF rapidhashNanoRest, Rapid
  <2>3. QED
    BY <2>1, <2>2, LengthRest
<1>8. QED
  BY <1>2, <1>4, <1>5, <1>6, <1>7

LEMMA LengthNext == Inv /\ LengthInv /\ [Step]_vars => LengthInv'
<1> SUFFICES ASSUME Inv, LengthInv, [Step]_vars PROVE LengthInv'
  OBVIOUS
<1>1. call' = call
  BY CallNeverChanges DEF vars
<1>2. len' = len /\ kernel' = kernel
  BY <1>1, CallKept
<1>3. CASE UNCHANGED vars
  BY <1>2, <1>3 DEF LengthInv, LengthKept, vars, file, input
<1>4. CASE Open \/ Fail \/ Elsewhere \/ UnknownAlgorithm \/ \E a, b \in Operands : Return(a, b)
  <2>1. pc' \in {"start", "failed", "done"}
    BY <1>4 DEF Open, Fail, Elsewhere, UnknownAlgorithm, Return, Goto
  <2>2. QED
    BY <1>1, <2>1, LengthElsewhere
<1>5. CASE Long
  <2>1. at = 0 /\ rest = len /\ words = <<>> /\ len > 16
    BY <1>5, CallTyped DEF Inv, TypeOK, Where, Reading, Long, Short
  <2>2. at = 16 * 0 /\ Counts(words, 2 * 0)
    BY <2>1, CountsFunction DEF Counts
  <2>3. kernel \notin Whole1 /\ pc' = "loop" /\ UNCHANGED <<file, input>>
    BY <1>5, Apart DEF Long, Goto
  <2>4. rest' > 0 /\ at' = 16 * 0 /\ Counts(words', 2 * 0)
    BY <2>1, <2>2, <2>3, CallTyped DEF file, input, Inv, TypeOK
  <2>5. QED
    BY <1>2, <2>3, <2>4 DEF LengthInv, LengthKept
<1>6. CASE \/ UnrolledRound \/ rapidhashRound \/ rapidhashMicroRound \/ rapidhashNanoRound
           \/ rapidhashRest \/ rapidhashMicroRest \/ rapidhashNanoRest
  BY <1>6, LengthRapid
<1>7. CASE RapidShort
  BY <1>7, LengthRapidShort
<1>8. CASE StandIn \/ wyhashShort \/ wyhashLast \/ goShort \/ goRest
  <2>1. kernel \notin Rapid /\ pc' = "mix" /\ mixed' = len
    BY <1>8 DEF StandIn, wyhashShort, wyhashLast, goShort, goRest, Goto, StandIns, Rapid
  <2>2. QED
    BY <1>1, <2>1, LengthWhole
<1>9. CASE wyhashRound \/ wyhashPair \/ goRound
  <2>1. kernel \notin Rapid /\ kernel \notin Whole1 /\ pc' = "loop"
    BY <1>9 DEF wyhashRound, wyhashPair, goRound, Round, Goto, Rapid, Whole1, T1ha1, T1ha2
  <2>2. QED
    BY <1>1, <2>1, LengthElsewhere
<1>10. CASE t1ha1_le \/ t1ha1_be \/ t1ha2_atonce \/ t1ha2_atonce128
  <2>1. Begin /\ kernel \notin Rapid
    BY <1>10 DEF t1ha1_le, t1ha1_be, t1ha2_atonce, t1ha2_atonce128, Rapid
  <2>2. pc' # "mix" /\ mixed' = len
    BY <2>1 DEF Begin, Goto
  <2>3. QED
    BY <1>1, <2>1, <2>2, LengthElsewhere
<1>11. CASE T1HA1_Loop \/ T1HA2_LOOP
  <2>1. /\ kernel \in Whole1 /\ kernel \notin Rapid /\ pc = "loop" /\ pc' # "mix"
        /\ mixed' = mixed
    BY <1>11 DEF T1HA1_Loop, T1HA2_LOOP, Loop, Goto, Whole1, T1ha1, T1ha2, Rapid
  <2>2. mixed' = len
    BY <2>1 DEF LengthInv
  <2>3. QED
    BY <1>1, <2>1, <2>2, LengthElsewhere
<1>12. CASE T1HA1_Tail \/ T1HA2_Tail
  <2>1. /\ kernel \in Whole1 /\ kernel \notin Rapid /\ pc = "tail" /\ pc' = "mix"
        /\ mixed' = mixed
    BY <1>12 DEF T1HA1_Tail, T1HA2_Tail, Finish, Goto, Whole1, T1ha1, T1ha2, Rapid
  <2>2. mixed' = len
    BY <2>1 DEF LengthInv
  <2>3. QED
    BY <1>1, <2>1, <2>2, LengthWhole
<1>13. CASE t1ha2_init \/ \E n \in Pieces : t1ha2_update(n)
  <2>1. kernel \notin Rapid /\ kernel \notin Whole1 /\ pc' = "loop"
    BY <1>13 DEF t1ha2_init, t1ha2_update, Goto, T1ha2Stream, Whole1, T1ha1, T1ha2, Rapid
  <2>2. QED
    BY <1>1, <2>1, LengthElsewhere
<1>14. CASE t1ha2_final
  <2>1. /\ kernel \in T1ha2Stream /\ kernel \notin Rapid /\ pc = "loop" /\ pc' = "mix"
        /\ mixed' = mixed /\ rest = 0
    BY <1>14 DEF t1ha2_final, Goto, T1ha2Stream, Rapid
  <2>2. mixed' = len
    BY <2>1, CallTyped DEF Inv, TypeOK, Where, Reading
  <2>3. QED
    BY <1>1, <2>1, <2>2, LengthWhole
<1>15. QED
  BY <1>3, <1>4, <1>5, <1>6, <1>7, <1>8, <1>9, <1>10, <1>11, <1>12, <1>13, <1>14
     DEF Step, T1haNext, RapidWyNext

(* For files of every length: what a kernel mixes in tells its length, by  *)
(* itself or, for rapidhash, with the number of words.                     *)
THEOREM LengthAlwaysKept == Spec => []LengthKept
<1>1. Init => LengthInv
  BY DEF Init, LengthInv, LengthKept
<1>2. LengthInv => LengthKept
  BY DEF LengthInv
<1>3. QED
  BY <1>1, <1>2, InvInit, InvNext, LengthNext, StepOnly, PTL DEF Spec

-----------------------------------------------------------------------------
(* The words in their lanes: what two rows of words together are.          *)

\* w is s, of n words, and then t, of m.
Glues(w, s, t, n, m) ==
    /\ Counts(w, n + m)
    /\ \A j \in 1 .. n : w[j] = s[j]
    /\ \A i \in 1 .. m : w[n + i] = t[i]

LEMMA Glued ==
    ASSUME NEW s, NEW t, NEW n, NEW m, Counts(s, n), Counts(t, m)
    PROVE Glues(s \o t, s, t, n, m)
<1>1. PICK S : s \in Seq(S)
  BY DEF Counts
<1>2. PICK T : t \in Seq(T)
  BY DEF Counts
<1>3. s \in Seq(S \cup T) /\ t \in Seq(S \cup T) /\ Len(s) = n /\ Len(t) = m /\ n \in Nat /\ m \in Nat
  BY <1>1, <1>2 DEF Counts
<1>4. \A j \in 1 .. n : (s \o t)[j] = s[j]
  BY <1>3
<1>5. \A i \in 1 .. m : (s \o t)[n + i] = t[i]
  BY <1>3
<1>6. QED
  BY <1>4, <1>5, CountsBoth DEF Glues

LEMMA Same ==
    ASSUME NEW s, NEW t, NEW n, Counts(s, n), Counts(t, n), \A j \in 1 .. n : s[j] = t[j]
    PROVE s = t
<1>1. PICK S : s \in Seq(S)
  BY DEF Counts
<1>2. PICK T : t \in Seq(T)
  BY DEF Counts
<1>3. /\ s = [j \in 1 .. n |-> s[j]]
      /\ t = [j \in 1 .. n |-> t[j]]
  BY <1>1, <1>2 DEF Counts
<1>4. QED
  BY <1>3

-----------------------------------------------------------------------------
(* What the readers of t1ha give.                                          *)

LEMMA NumberIs ==
    ASSUME NEW p, NEW n \in Nat
    PROVE Number(p, n) = IF kernel = "t1ha1_be" THEN Big(p, n) ELSE Little(p, n)
<1>1. \A k \in Places : (k >= n) <=> ~(k < n)
  BY DEF Places
<1>2. QED
  BY <1>1 DEF Number, Big, Little

LEMMA MachineTyped ==
    ASSUME call \in Calls
    PROVE machine.order \in {"little", "big"} /\ machine.oneshot \in BOOLEAN
  BY CallTyped DEF Machine

\* The byte order of the kernel.
OrderOf == IF kernel = "t1ha1_be" THEN "big" ELSE "little"

LEMMA FetchNumber ==
    ASSUME call \in Calls, NEW aligned \in BOOLEAN, NEW p \in Int
    PROVE Fetch64(OrderOf, aligned, p) = Number(p, 8)
<1>1. /\ fetch_le(machine, aligned, p, 8) = Little(p, 8)
      /\ fetch_be(machine, aligned, p, 8) = Big(p, 8)
  BY MachineTyped, FetchRight
<1>2. QED
  BY <1>1, NumberIs DEF Fetch64, OrderOf

LEMMA TailNumber ==
    ASSUME call \in Calls, NEW aligned \in BOOLEAN, NEW p \in Nat, NEW tail \in Nat
    PROVE Tail64(OrderOf, aligned, p, tail) = Number(p, TailSize(tail))
<1> DEFINE page == (addr + p) % Page  n == TailSize(tail)
<1>1. page \in Nat
  <2>1. addr + p \in Nat
    BY CallTyped
  <2>2. QED
    BY <2>1, PagePositive
<1> HIDE DEF page
<1>2. /\ tail64_le_aligned(machine, p, tail) = Little(p, n)
      /\ tail64_be_aligned(machine, p, tail) = Big(p, n)
      /\ tail64_le_unaligned(machine, p, page, tail) = Little(p, n)
      /\ tail64_be_unaligned(machine, p, page, tail) = Big(p, n)
  BY <1>1, MachineTyped, TailRight
<1>3. n \in Nat
  BY DEF TailSize
<1>4. Number(p, n) = IF kernel = "t1ha1_be" THEN Big(p, n) ELSE Little(p, n)
  BY <1>3, NumberIs
<1>5. QED
  BY <1>2, <1>4, Zenon DEF Tail64, OrderOf, page

-----------------------------------------------------------------------------
(* The words of t1ha: those in blocks, then the rest.                      *)

InBlock(j) == Into(Number(8 * (j - 1), 8), <<"w", (j - 1) % 4>>)

\* s is the words of the first n blocks.
Blocked(s, n) == Counts(s, 4 * n) /\ \A j \in 1 .. 4 * n : s[j] = InBlock(j)

\* What WordsExpected has at j.
FoldedPairs(rounds, lanes) ==
    IF rounds * 16 * lanes = len THEN len \div 16 ELSE (len - 1) \div 16

FoldedAt(rounds, lanes, secrets, j) ==
    Into(Number(8 * (j - 1), 8),
         IF j <= 2 * lanes * rounds THEN <<"see", (j - 1) % (2 * lanes)>>
         ELSE IF j % 2 = 1 THEN <<"secret", secrets[(j + 1) \div 2 - lanes * rounds]>>
         ELSE <<"seed", 0>>)

LEMMA FoldedIs ==
    ASSUME NEW rounds, NEW lanes, NEW secrets
    PROVE FoldedWords(rounds, lanes, secrets)
              = [j \in 1 .. 2 * FoldedPairs(rounds, lanes) |-> FoldedAt(rounds, lanes, secrets, j)]
                \o Ends(Number(len - 16, 8), Number(len - 8, 8))
  BY Zenon DEF FoldedWords, FoldedPairs, FoldedAt

T1haAt(size, inBlocks, lanes, all, j) ==
    Into(Number(8 * (j - 1), IF j < all THEN 8 ELSE size - 8 * (all - 1)),
         IF j <= 4 * inBlocks THEN <<"w", (j - 1) % 4>>
                              ELSE <<lanes[all - j + 1], all - j + 1>>)

\* t is the words of n blocks from p on, or those of a tail from p on.
InBlocks(t, p, n) ==
    /\ Counts(t, 4 * n)
    /\ \A i \in 1 .. 4 * n : t[i] = Into(Number(p + (8 * (i - 1)), 8), <<"w", (i - 1) % 4>>)

InTail(t, p, tail, lanes) ==
    LET n == TailWords(tail)
    IN /\ Counts(t, n)
       /\ \A i \in 1 .. n :
            t[i] = Into(Number(p + (8 * (i - 1)), IF i < n THEN 8 ELSE TailSize(tail)),
                        <<lanes[n - i + 1], n - i + 1>>)

LEMMA MoreBlocks ==
    ASSUME NEW b \in Nat, NEW n \in Nat, NEW s, NEW t, NEW p, p = 32 * b,
           Blocked(s, b), InBlocks(t, p, n)
    PROVE Blocked(s \o t, b + n)
<1> DEFINE k == 4 * b  m == 4 * n
<1>1. k \in Nat /\ m \in Nat /\ 4 * (b + n) = k + m
  OBVIOUS
<1>2. /\ Counts(s, k) /\ \A j \in 1 .. k : s[j] = InBlock(j)
  BY DEF Blocked
<1>3. ASSUME NEW i \in 1 .. m PROVE t[i] = InBlock(k + i)
  <2>1. (32 * b) + (8 * (i - 1)) = 8 * ((k + i) - 1) /\ (i - 1) % 4 = ((k + i) - 1) % 4
    OBVIOUS
  <2>2. t[i] = Into(Number((32 * b) + (8 * (i - 1)), 8), <<"w", (i - 1) % 4>>)
    BY DEF InBlocks
  <2>3. QED
    BY <2>1, <2>2 DEF InBlock
<1>4. Counts(t, m)
  BY DEF InBlocks
<1> HIDE DEF k, m
<1>5. /\ Counts(s \o t, k + m)
      /\ \A j \in 1 .. k : (s \o t)[j] = s[j]
      /\ \A i \in 1 .. m : (s \o t)[k + i] = t[i]
  <2>1. Glues(s \o t, s, t, k, m)
    BY <1>2, <1>4, Glued
  <2>2. QED
    BY <2>1 DEF Glues
<1>6. ASSUME NEW j \in 1 .. k + m PROVE (s \o t)[j] = InBlock(j)
  <2>1. CASE j <= k
    <3>1. j \in 1 .. k
      BY <1>1, <2>1
    <3>2. QED
      BY <1>2, <1>5, <3>1
  <2>2. CASE ~(j <= k)
    <3> DEFINE i == j - k
    <3>1. i \in 1 .. m /\ j = k + i
      BY <1>1, <2>2
    <3> HIDE DEF i
    <3>2. QED
      BY <1>3, <1>5, <3>1
  <2>3. QED
    BY <2>1, <2>2
<1>7. QED
  BY <1>1, <1>5, <1>6 DEF Blocked

LEMMA BlocksRow ==
    ASSUME call \in Calls, NEW aligned \in BOOLEAN, NEW p \in Int, NEW n \in Nat, NEW t,
           t = Blocks(OrderOf, aligned, p, n)
    PROVE InBlocks(t, p, n)
<1>1. 4 * n \in Nat
  OBVIOUS
<1>2. t = [i \in 1 .. 4 * n |-> t[i]]
  BY DEF Blocks
<1>3. ASSUME NEW i \in 1 .. 4 * n
      PROVE t[i] = Into(Number(p + (8 * (i - 1)), 8), <<"w", (i - 1) % 4>>)
  <2>1. p + (8 * (i - 1)) \in Int
    OBVIOUS
  <2>2. Fetch64(OrderOf, aligned, p + (8 * (i - 1))) = Number(p + (8 * (i - 1)), 8)
    BY <2>1, FetchNumber
  <2>3. t[i] = Into(Fetch64(OrderOf, aligned, p + (8 * (i - 1))), <<"w", (i - 1) % 4>>)
    BY DEF Blocks
  <2>4. QED
    BY <2>2, <2>3
<1>4. QED
  BY <1>1, <1>2, <1>3, CountsFunction DEF InBlocks

LEMMA TailCounts ==
    ASSUME NEW tail \in 0 .. 32
    PROVE /\ TailWords(tail) \in 0 .. 4 /\ TailWords(tail) = (tail + 7) \div 8
          /\ TailSize(tail) \in 1 .. 8
          /\ tail # 0 => TailWords(tail) >= 1 /\ tail = (8 * (TailWords(tail) - 1)) + TailSize(tail)
          /\ tail = 0 => TailWords(tail) = 0
BY DEF TailWords, TailSize

\* The blocks and a word for each eight bytes of what they leave make up what
\* is expected.
IsT1ha(w, size, b, lanes) == w = T1haWords(size, b, lanes)

LEMMA WithRemainder ==
    ASSUME NEW b \in Nat, NEW tail \in 0 .. 32, NEW lanes, NEW s, NEW t, NEW p \in Nat, NEW sum \in Nat,
           p = 32 * b, sum = p + tail, Blocked(s, b), InTail(t, p, tail, lanes)
    PROVE IsT1ha(s \o t, sum, b, lanes)
<1>0. PICK n : n = TailWords(tail)
  OBVIOUS
<1> DEFINE size == (32 * b) + tail  k == 4 * b  all == k + n
           u == T1haWords(size, b, lanes)  last == TailSize(tail)
<1>1. n \in 0 .. 4 /\ k \in Nat /\ all \in Nat /\ size \in Nat /\ last \in 1 .. 8
  BY <1>0, TailCounts
<1>2. (size + 7) \div 8 = all
  <2>1. n = (tail + 7) \div 8
    BY <1>0, TailCounts
  <2>2. QED
    BY <2>1
<1>3. n # 0 => size - (8 * (all - 1)) = last
  <2>1. n # 0 => tail = (8 * (n - 1)) + last
    BY <1>0, TailCounts
  <2>2. QED
    BY <1>1, <2>1
<1>4. n = 0 => size - (8 * (all - 1)) = 8
  <2>1. n = 0 => tail = 0
    <3>1. tail # 0 => TailWords(tail) >= 1
      BY TailCounts
    <3>2. QED
      BY <1>0, <3>1
  <2>2. QED
    BY <2>1
<1>5. u = [j \in 1 .. all |-> T1haAt(size, b, lanes, all, j)]
  <2> HIDE DEF size, all
  <2>1. QED
    BY <1>2, Zenon DEF T1haWords, T1haAt
<1>6. /\ Counts(s, k) /\ Counts(t, n) /\ \A j \in 1 .. k : s[j] = InBlock(j)
      /\ \A i \in 1 .. n :
            t[i] = Into(Number((32 * b) + (8 * (i - 1)), IF i < n THEN 8 ELSE last),
                        <<lanes[n - i + 1], n - i + 1>>)
  BY <1>0 DEF Blocked, InTail
<1>7. ASSUME NEW j \in 1 .. k PROVE T1haAt(size, b, lanes, all, j) = InBlock(j)
  <2>1. j <= 4 * b /\ (IF j < all THEN 8 ELSE size - (8 * (all - 1))) = 8
    BY <1>1, <1>4
  <2>2. QED
    BY <2>1 DEF T1haAt, InBlock
<1>8. ASSUME NEW i \in 1 .. n PROVE T1haAt(size, b, lanes, all, k + i) = t[i]
  <2>1. /\ ~(k + i <= 4 * b)
        /\ (k + i < all) <=> (i < n)
        /\ 8 * ((k + i) - 1) = (32 * b) + (8 * (i - 1))
        /\ all - (k + i) + 1 = n - i + 1
        /\ n # 0
    BY <1>1
  <2>2. (IF k + i < all THEN 8 ELSE size - (8 * (all - 1))) = (IF i < n THEN 8 ELSE last)
    BY <1>3, <2>1
  <2>3. t[i] = Into(Number((32 * b) + (8 * (i - 1)), IF i < n THEN 8 ELSE last),
                    <<lanes[n - i + 1], n - i + 1>>)
    BY <1>6
  <2> HIDE DEF size, all, k, last
  <2>4. QED
    BY <2>1, <2>2, <2>3 DEF T1haAt
<1> HIDE DEF size, all, last
<1>9. Counts(u, all) /\ \A j \in 1 .. all : u[j] = T1haAt(size, b, lanes, all, j)
  BY <1>1, <1>5, CountsFunction
<1> HIDE DEF u, k
<1>10. /\ Counts(s \o t, k + n)
       /\ \A j \in 1 .. k : (s \o t)[j] = s[j]
       /\ \A i \in 1 .. n : (s \o t)[k + i] = t[i]
  <2>1. Glues(s \o t, s, t, k, n)
    BY <1>6, Glued
  <2>2. QED
    BY <2>1 DEF Glues
<1>11. ASSUME NEW j \in 1 .. all PROVE (s \o t)[j] = u[j]
  <2>1. CASE j <= k
    <3>1. j \in 1 .. k
      BY <1>1, <2>1 DEF all
    <3>2. QED
      BY <1>6, <1>7, <1>9, <1>10, <3>1
  <2>2. CASE ~(j <= k)
    <3> DEFINE i == j - k
    <3>1. i \in 1 .. n /\ j = k + i
      BY <1>1, <2>2 DEF all
    <3> HIDE DEF i
    <3>2. QED
      BY <1>8, <1>9, <1>10, <3>1
  <2>3. QED
    BY <2>1, <2>2
<1>12. Counts(s \o t, all)
  BY <1>10 DEF all
<1>13. QED
  BY <1>9, <1>11, <1>12, Same DEF u, size, IsT1ha

LEMMA RemainderRow ==
    ASSUME call \in Calls, NEW aligned \in BOOLEAN, NEW p \in Nat, NEW tail \in 0 .. 32, NEW lanes,
           NEW t, t = Remainder(OrderOf, aligned, p, tail, lanes)
    PROVE InTail(t, p, tail, lanes)
<1>0. PICK n : n = TailWords(tail)
  OBVIOUS
<1>1. n \in 0 .. 4
  BY <1>0, TailCounts
<1>2. t = [i \in 1 .. n |-> t[i]]
  BY <1>0 DEF Remainder
<1>3. ASSUME NEW i \in 1 .. n
      PROVE t[i] = Into(Number(p + (8 * (i - 1)), IF i < n THEN 8 ELSE TailSize(tail)),
                        <<lanes[n - i + 1], n - i + 1>>)
  <2> DEFINE q == p + 8 * (i - 1)
  <2>1. q \in Nat /\ q \in Int /\ tail \in Nat
    BY <1>1
  <2>2. t[i] = Into(IF i < n THEN Fetch64(OrderOf, aligned, q) ELSE Tail64(OrderOf, aligned, q, tail),
                    <<lanes[n - i + 1], n - i + 1>>)
    BY <1>0 DEF Remainder
  <2> HIDE DEF q
  <2>3. /\ Fetch64(OrderOf, aligned, q) = Number(q, 8)
        /\ Tail64(OrderOf, aligned, q, tail) = Number(q, TailSize(tail))
    BY <2>1, FetchNumber, TailNumber
  <2>4. QED
    BY <2>2, <2>3 DEF q
<1>4. QED
  BY <1>0, <1>1, <1>2, <1>3, CountsFunction DEF InTail

-----------------------------------------------------------------------------
(* t1ha over a file that is in memory.                                     *)

LEMMA BlockedNext ==
    ASSUME call' = call, NEW b, NEW s, Blocked(s, b), words' = s
    PROVE Blocked(words, b)'
<1>1. kernel' = kernel
  BY CallKept
<1>2. QED
  BY <1>1 DEF Blocked, InBlock, Into, Number, Counts

LEMMA ExpectedKept ==
    ASSUME call' = call
    PROVE WordsExpected' = WordsExpected
<1>1. kernel' = kernel /\ len' = len
  BY CallKept
<1>2. \A p, n : Number(p, n)' = Number(p, n)
  BY <1>1 DEF Number
<1>3. LanesOf' = LanesOf
  BY <1>1 DEF LanesOf
<1>4. \A size, b, lanes : T1haWords(size, b, lanes)' = T1haWords(size, b, lanes)
  BY <1>2 DEF T1haWords
<1>5. \A rounds, lanes, secrets :
        FoldedWords(rounds, lanes, secrets)' = FoldedWords(rounds, lanes, secrets)
  <2> TAKE rounds, lanes, secrets
  <2>1. FoldedPairs(rounds, lanes)' = FoldedPairs(rounds, lanes)
    BY <1>1 DEF FoldedPairs
  <2>2. \A j : FoldedAt(rounds, lanes, secrets, j)' = FoldedAt(rounds, lanes, secrets, j)
    BY <1>2 DEF FoldedAt
  <2>3. Number(len - 16, 8)' = Number(len - 16, 8) /\ Number(len - 8, 8)' = Number(len - 8, 8)
    BY <1>1 DEF Number
  <2>4. /\ FoldedWords(rounds, lanes, secrets)
              = [j \in 1 .. 2 * FoldedPairs(rounds, lanes) |-> FoldedAt(rounds, lanes, secrets, j)]
                \o Ends(Number(len - 16, 8), Number(len - 8, 8))
        /\ FoldedWords(rounds, lanes, secrets)'
              = [j \in 1 .. 2 * FoldedPairs(rounds, lanes)' |-> FoldedAt(rounds, lanes, secrets, j)']
                \o Ends(Number(len - 16, 8)', Number(len - 8, 8)')
    BY Zenon DEF FoldedWords, FoldedPairs, FoldedAt
  <2>5. QED
    BY <2>1, <2>2, <2>3, <2>4, Zenon
<1>6. QED
  BY <1>1, <1>3, <1>4, <1>5 DEF WordsExpected

LEMMA NoneBlocked ==
    ASSUME NEW s, s = <<>>
    PROVE Blocked(s, 0) /\ Counts(s, 0)
<1>1. Counts(s, 0)
  BY CountsFunction DEF Counts
<1>2. QED
  BY <1>1 DEF Blocked

\* The blocks of a file that are taken as such.
WholeBlocks == IF len > 32 THEN len \div 32 ELSE 0

\* Where a file in memory is read: a pointer at b blocks has given their words.
InMemory ==
    /\ pc = "loop" /\ kernel \in Whole1 =>
           len > 32 /\ \E b \in Nat : at = 32 * b /\ Blocked(words, b)
    /\ pc = "tail" => at = 32 * WholeBlocks /\ Blocked(words, WholeBlocks)

LEMMA MemoryBegin ==
    ASSUME Inv, kernel \in Whole1, Begin
    PROVE InMemory' /\ pc' # "mix"
<1>1. len \in Nat /\ at = 0 /\ words = <<>>
  BY CallTyped DEF Inv, TypeOK, Where, Begin
<1>2. call' = call /\ at' = at /\ words' = words /\ pc' = (IF len > 32 THEN "loop" ELSE "tail")
  BY DEF Begin, Goto, file, input
<1>3. len' = len
  BY <1>2, CallKept
<1>4. Blocked(words, 0)'
  BY <1>1, <1>2, NoneBlocked, BlockedNext
<1>5. at' = 32 * 0
  BY <1>1, <1>2
<1>6. CASE len > 32
  BY <1>2, <1>3, <1>4, <1>5, <1>6 DEF InMemory
<1>7. CASE ~(len > 32)
  <2>1. WholeBlocks' = 0 /\ pc' = "tail"
    BY <1>2, <1>3, <1>7 DEF WholeBlocks
  <2>2. Blocked(words, WholeBlocks)'
    BY <1>4, <2>1 DEF Blocked
  <2>3. QED
    BY <1>5, <2>1, <2>2 DEF InMemory
<1>8. QED
  BY <1>6, <1>7, <1>2

LEMMA MemoryLoop ==
    ASSUME Inv, InMemory, kernel \in Whole1, Loop(OrderOf)
    PROVE InMemory' /\ pc' # "mix"
<1>1. call \in Calls /\ len \in Nat /\ pc = "loop" /\ call' = call
  BY CallTyped DEF Inv, TypeOK, Loop, Goto
<1>2. len' = len /\ kernel' = kernel
  BY <1>1, CallKept
<1>3. len > 32 /\ rest \in Nat /\ rest >= 32 /\ at + rest = len
  BY <1>1 DEF InMemory, Inv, TypeOK, Where, Reading
<1>4. PICK b \in Nat : at = 32 * b /\ Blocked(words, b)
  BY <1>1 DEF InMemory
<1> DEFINE t == Blocks(OrderOf, ReadAligned(0), at, 1)
<1>5. words' = words \o t
  BY DEF Loop, Take
<1>6. ReadAligned(0) \in BOOLEAN /\ at \in Int /\ 1 \in Nat
  BY <1>4 DEF ReadAligned
<1>7. InBlocks(t, at, 1)
  BY <1>1, <1>6, BlocksRow
<1> HIDE DEF t
<1>8. Blocked(words \o t, b + 1)
  BY <1>4, <1>6, <1>7, MoreBlocks
<1>9. Blocked(words, b + 1)'
  BY <1>1, <1>5, <1>8, BlockedNext
<1>10. at' = 32 * (b + 1) /\ b + 1 \in Nat
  BY <1>4 DEF Loop
<1>11. \/ pc' = "loop"
       \/ pc' = "tail" /\ ~(at + 32 < len - 31)
  BY DEF Loop, BlockFollows, Goto
<1>12. CASE pc' = "loop"
  BY <1>2, <1>3, <1>9, <1>10, <1>12 DEF InMemory
<1>13. CASE pc' = "tail" /\ ~(at + 32 < len - 31)
  <2>1. len \div 32 = b + 1
    BY <1>1, <1>3, <1>4, <1>13
  <2>2. WholeBlocks' = b + 1
    BY <1>2, <1>3, <2>1 DEF WholeBlocks
  <2>3. Blocked(words, WholeBlocks)'
    BY <1>9, <2>2 DEF Blocked
  <2>4. QED
    BY <1>10, <1>13, <2>2, <2>3 DEF InMemory
<1>14. QED
  BY <1>11, <1>12, <1>13

LEMMA MemoryFinish ==
    ASSUME Inv, InMemory, NEW lanes, Finish(OrderOf, lanes)
    PROVE words' = T1haWords(len, WholeBlocks, lanes) /\ pc' = "mix" /\ call' = call
<1>1. call \in Calls /\ len \in Nat /\ pc = "tail" /\ call' = call /\ pc' = "mix"
  BY CallTyped DEF Inv, TypeOK, Finish, Goto
<1>2. rest \in 0 .. 32 /\ at \in Nat /\ at + rest = len
  BY <1>1 DEF Inv, TypeOK, Where, Reading
<1> DEFINE b == WholeBlocks 
           t == Remainder(OrderOf, ReadAligned(0), at, rest, lanes)
<1>3. b \in Nat /\ at = 32 * b /\ Blocked(words, b)
  BY <1>1 DEF InMemory, WholeBlocks
<1>4. words' = words \o t
  BY DEF Finish, Take
<1>5. ReadAligned(0) \in BOOLEAN
  BY DEF ReadAligned
<1>6. InTail(t, at, rest, lanes)
  <2> HIDE DEF t
  <2>1. QED
    BY <1>1, <1>2, <1>5, RemainderRow DEF t
<1> HIDE DEF t, b
<1>7. words \o t = T1haWords(len, b, lanes)
  <2>1. PICK c \in Nat : c = b
    BY <1>3
  <2>2. PICK tail \in 0 .. 32 : tail = rest
    BY <1>2
  <2>3. PICK p \in Nat, sum \in Nat : p = at /\ sum = len
    BY <1>1, <1>2
  <2>4. Blocked(words, c) /\ InTail(t, p, tail, lanes) /\ p = 32 * c /\ sum = p + tail
    BY <1>2, <1>3, <1>6, <2>1, <2>2, <2>3
  <2>5. IsT1ha(words \o t, sum, c, lanes)
    BY <2>4, WithRemainder
  <2>6. QED
    BY <2>1, <2>3, <2>5, Zenon DEF IsT1ha
<1>8. QED
  BY <1>1, <1>2, <1>4, <1>7 DEF b

LEMMA StandInWords ==
    ASSUME Inv, StandIn
    PROVE words' = T1haWords(len, WholeBlocks, T1HA1_Lanes) /\ pc' = "mix" /\ call' = call
<1>1. /\ call \in Calls /\ len \in Nat /\ call' = call /\ pc' = "mix" /\ words = <<>>
      /\ kernel # "t1ha1_be"
  BY CallTyped DEF Inv, TypeOK, Where, StandIn, StandIns, Goto
<1> DEFINE b == WholeBlocks  tail == len - (32 * b)  n == TailWords(tail)
           s == Blocks(OrderOf, TRUE, 0, b)
           t == [j \in 1 .. n |->
                     LET p == 32 * b + 8 * (j - 1)
                     IN Into(IF j < n THEN fetch_le(machine, TRUE, p, 8)
                                      ELSE RestLe(p, 0, TailSize(len)),
                             <<T1HA1_Lanes[n - j + 1], n - j + 1>>)]
<1>2. b \in Nat /\ tail \in 0 .. 32 /\ TailSize(len) = TailSize(tail)
  BY <1>1 DEF WholeBlocks, TailSize
<1>3. words' = words \o (s \o t)
  BY <1>1 DEF StandIn, Take, OrderOf, WholeBlocks
<1>4. n \in 0 .. 4 /\ TailSize(tail) \in 1 .. 8
  <2> HIDE DEF tail
  <2>1. QED
    BY <1>2, TailCounts
<1> HIDE DEF b, tail, n
<1>5. InBlocks(s, 0, b)
  <2>1. 0 \in Int /\ TRUE \in BOOLEAN
    OBVIOUS
  <2> HIDE DEF s, t
  <2>2. QED
    BY <1>1, <1>2, <2>1, BlocksRow DEF s
<1>6. InTail(t, 32 * b, tail, T1HA1_Lanes)
  <2>1. \A i \in 1 .. n :
          t[i] = Into(IF i < n THEN fetch_le(machine, TRUE, (32 * b) + (8 * (i - 1)), 8)
                      ELSE RestLe((32 * b) + (8 * (i - 1)), 0, TailSize(tail)),
                      <<T1HA1_Lanes[n - i + 1], n - i + 1>>)
    BY <1>2
  <2>2. t = [i \in 1 .. n |-> t[i]]
    OBVIOUS
  <2> HIDE DEF t
  <2>3. ASSUME NEW i \in 1 .. n
        PROVE /\ fetch_le(machine, TRUE, (32 * b) + (8 * (i - 1)), 8)
                     = Number((32 * b) + (8 * (i - 1)), 8)
              /\ RestLe((32 * b) + (8 * (i - 1)), 0, TailSize(tail))
                     = Number((32 * b) + (8 * (i - 1)), TailSize(tail))
    <3> DEFINE p == (32 * b) + (8 * (i - 1))  m == TailSize(tail)
    <3>1. p \in Int /\ m \in 1 .. 8 /\ m \in Nat
      BY <1>2, <1>4
    <3> HIDE DEF p, m
    <3>2. fetch_le(machine, TRUE, p, 8) = Little(p, 8)
      <4>1. fetch_le(machine, TRUE, p, 8) = Ordered(machine, "little", p, 8)
        BY DEF fetch_le
      <4>2. 8 \in 1 .. 8 /\ machine.order \in {"little", "big"}
        BY <1>1, MachineTyped
      <4>3. PICK q \in Int : q = p
        BY <3>1
      <4>4. Ordered(machine, "little", q, 8) = Little(q, 8)
        BY <4>2, OrderedBytes
      <4>5. QED
        BY <4>1, <4>3, <4>4
    <3>3. RestLe(p, 0, m) = Little(p, m)
      BY <3>1 DEF RestLe, Little, Places
    <3>4. Number(p, 8) = Little(p, 8) /\ Number(p, m) = Little(p, m)
      BY <1>1, <3>1, NumberIs
    <3>5. QED
      BY <3>2, <3>3, <3>4 DEF p, m
  <2>4. Counts(t, n)
    BY <1>4, <2>2, CountsFunction
  <2>5. QED
    BY <2>1, <2>3, <2>4 DEF InTail, n
<1> HIDE DEF s, t
<1>7. Blocked(words \o s, 0 + b)
  <2>1. Blocked(words, 0) /\ 32 * 0 = 0
    BY <1>1, NoneBlocked
  <2>2. QED
    BY <1>2, <1>5, <2>1, MoreBlocks
<1>8. Blocked(s, b)
  <2>1. ASSUME NEW i \in 1 .. 4 * b PROVE s[i] = InBlock(i)
    <3>1. s[i] = Into(Number(0 + (8 * (i - 1)), 8), <<"w", (i - 1) % 4>>)
      BY <1>5 DEF InBlocks
    <3>2. 0 + (8 * (i - 1)) = 8 * (i - 1)
      BY <1>2
    <3>3. QED
      BY <3>1, <3>2, Zenon DEF InBlock
  <2>2. QED
    BY <1>5, <2>1 DEF Blocked, InBlocks
<1>10. (32 * b) + tail = len
  BY <1>1, <1>2 DEF tail
<1>11. s \o t = T1haWords(len, b, T1HA1_Lanes)
  <2>1. PICK c \in Nat : c = b
    BY <1>2
  <2>2. PICK r \in 0 .. 32 : r = tail
    BY <1>2
  <2>3. PICK p \in Nat, sum \in Nat : p = 32 * b /\ sum = len
    BY <1>1, <1>2
  <2>4. Blocked(s, c) /\ InTail(t, p, r, T1HA1_Lanes) /\ p = 32 * c /\ sum = p + r
    BY <1>6, <1>8, <1>10, <2>1, <2>2, <2>3
  <2>5. IsT1ha(s \o t, sum, c, T1HA1_Lanes)
    BY <2>4, WithRemainder
  <2>6. QED
    BY <2>1, <2>3, <2>5, Zenon DEF IsT1ha
<1>12. words \o (s \o t) = s \o t
  <2>1. Counts(s \o t, (4 * b) + n)
    BY <1>5, <1>6, CountsBoth DEF InBlocks, InTail, n
  <2>2. PICK S : s \o t \in Seq(S)
    BY <2>1 DEF Counts
  <2>3. QED
    BY <1>1, <2>2
<1>13. QED
  BY <1>1, <1>3, <1>11, <1>12 DEF b

-----------------------------------------------------------------------------
(* The streaming t1ha2.                                                    *)

\* Two runs of blocks are one.
LEMMA BlocksBoth ==
    ASSUME NEW p \in Int, NEW n \in Nat, NEW m \in Nat, NEW q \in Int, q = p + (32 * n),
           NEW s, NEW t, InBlocks(s, p, n), InBlocks(t, q, m)
    PROVE InBlocks(s \o t, p, n + m)
<1> DEFINE k == 4 * n  l == 4 * m
<1>1. k \in Nat /\ l \in Nat /\ 4 * (n + m) = k + l
  OBVIOUS
<1>2. /\ Counts(s, k) /\ Counts(t, l)
      /\ \A i \in 1 .. k : s[i] = Into(Number(p + (8 * (i - 1)), 8), <<"w", (i - 1) % 4>>)
      /\ \A i \in 1 .. l : t[i] = Into(Number(q + (8 * (i - 1)), 8), <<"w", (i - 1) % 4>>)
  BY DEF InBlocks
<1>3. ASSUME NEW i \in 1 .. l
      PROVE t[i] = Into(Number(p + (8 * ((k + i) - 1)), 8), <<"w", ((k + i) - 1) % 4>>)
  <2>1. q + (8 * (i - 1)) = p + (8 * ((k + i) - 1)) /\ (i - 1) % 4 = ((k + i) - 1) % 4
    OBVIOUS
  <2>2. QED
    BY <1>2, <2>1
<1> HIDE DEF k, l
<1>4. Glues(s \o t, s, t, k, l)
  BY <1>2, Glued
<1>5. ASSUME NEW j \in 1 .. k + l
      PROVE (s \o t)[j] = Into(Number(p + (8 * (j - 1)), 8), <<"w", (j - 1) % 4>>)
  <2>1. CASE j <= k
    <3>1. j \in 1 .. k
      BY <1>1, <2>1
    <3>2. QED
      BY <1>2, <1>4, <3>1 DEF Glues
  <2>2. CASE ~(j <= k)
    <3>1. PICK i \in 1 .. l : j = k + i
      <4>1. j - k \in 1 .. l /\ j = k + (j - k)
        BY <1>1, <2>2
      <4>2. QED
        BY <4>1
    <3>2. QED
      BY <1>3, <1>4, <3>1 DEF Glues
  <2>3. QED
    BY <2>1, <2>2
<1>6. QED
  BY <1>1, <1>4, <1>5 DEF InBlocks, Glues

\* The first n bytes of a buffer are those of the file from p on.
Fills(b, p, n) == \A i \in 0 .. 31 : i < n => b[i] = {p + i}

\* What a word of the buffer b is, and that w is the bytes from p on.
Buffered(b, w) == [k \in Places |-> UNION {b[i] : i \in w[k]}]
IsNumber(w, p, size) == w = Number(p, size)

LEMMA BufferedWord ==
    ASSUME kernel # "t1ha1_be", NEW b, NEW from \in Int, NEW n \in 0 .. 32, Fills(b, from, n),
           NEW p \in Nat, NEW size \in 0 .. 8, p + size <= n
    PROVE IsNumber(Buffered(b, Number(p, size)), from + p, size)
<1>1. ASSUME NEW k \in Places
      PROVE UNION {b[i] : i \in Number(p, size)[k]} = Number(from + p, size)[k]
  <2>1. CASE k >= size
    BY <2>1 DEF Number
  <2>2. CASE ~(k >= size)
    <3>1. p + k \in 0 .. 31 /\ p + k < n
      BY <2>2 DEF Places
    <3>2. b[p + k] = {from + (p + k)}
      BY <3>1 DEF Fills
    <3>3. from + (p + k) = from + p + k
      BY DEF Places
    <3>4. Number(p, size)[k] = {p + k} /\ Number(from + p, size)[k] = {from + p + k}
      BY <2>2 DEF Number
    <3>5. QED
      BY <3>2, <3>3, <3>4
  <2>3. QED
    BY <2>1, <2>2
<1>2. Number(from + p, size) = [k \in Places |-> Number(from + p, size)[k]]
  BY DEF Number
<1>3. QED
  BY <1>1, <1>2 DEF IsNumber, Buffered

\* The j-th of the words ws, read from the buffer b, is the bytes from p on.
Buffers(b, ws, j, p, size, lane) == FromBuffer(b, ws)[j] = Into(Number(p, size), lane)

LEMMA BufferedInto ==
    ASSUME kernel # "t1ha1_be", NEW b, NEW from \in Int, NEW n \in 0 .. 32, Fills(b, from, n),
           NEW p \in Nat, NEW size \in 0 .. 8, p + size <= n, NEW lane, NEW q, q = from + p,
           NEW ws, NEW m, Counts(ws, m), NEW j \in 1 .. m, ws[j] = Into(Number(p, size), lane)
    PROVE Buffers(b, ws, j, q, size, lane)
<1>1. j \in DOMAIN ws
  BY DEF Counts
<1>2. FromBuffer(b, ws)[j] = [ws[j] EXCEPT !.word = Buffered(b, ws[j].word)]
  BY <1>1, Zenon DEF FromBuffer, Buffered
<1>3. ws[j].word = Number(p, size)
  BY DEF Into
<1>4. IsNumber(Buffered(b, Number(p, size)), from + p, size)
  BY BufferedWord
<1> DEFINE new == Buffered(b, Number(p, size))
<1>5. FromBuffer(b, ws)[j] = [Into(Number(p, size), lane) EXCEPT !.word = new]
  BY <1>2, <1>3, Zenon
<1> HIDE DEF new
<1>6. [Into(Number(p, size), lane) EXCEPT !.word = new] = Into(new, lane)
  BY DEF Into
<1>7. new = Number(q, size)
  BY <1>4, Zenon DEF IsNumber, new
<1>8. QED
  BY <1>5, <1>6, <1>7, Zenon DEF Buffers

LEMMA BufferedCounts ==
    ASSUME NEW b, NEW ws, NEW m, Counts(ws, m)
    PROVE Counts(FromBuffer(b, ws), m)
<1>1. m \in Nat /\ DOMAIN ws = 1 .. m
  BY DEF Counts
<1>2. PICK f : f = FromBuffer(b, ws)
  OBVIOUS
<1>3. f = [j \in 1 .. m |-> f[j]]
  BY <1>1, <1>2 DEF FromBuffer
<1>4. QED
  BY <1>1, <1>2, <1>3, CountsFunction

\* A full buffer gives a block.
LEMMA BufferedBlock ==
    ASSUME kernel # "t1ha1_be", NEW b, NEW from \in Int, Fills(b, from, 32),
           NEW ws, InBlocks(ws, 0, 1)
    PROVE InBlocks(FromBuffer(b, ws), from, 1)
<1>1. Counts(ws, 4)
  BY DEF InBlocks
<1>2. ASSUME NEW i \in 1 .. 4
      PROVE FromBuffer(b, ws)[i] = Into(Number(from + (8 * (i - 1)), 8), <<"w", (i - 1) % 4>>)
  <2>1. PICK p \in Nat : p = 8 * (i - 1)
    OBVIOUS
  <2>2. ws[i] = Into(Number(p, 8), <<"w", (i - 1) % 4>>)
    BY <2>1 DEF InBlocks
  <2>3. p + 8 <= 32 /\ 8 \in 0 .. 8 /\ 32 \in 0 .. 32
    BY <2>1
  <2>4. PICK q : q = from + p
    OBVIOUS
  <2>5. Buffers(b, ws, i, q, 8, <<"w", (i - 1) % 4>>)
    BY <1>1, <2>2, <2>3, <2>4, BufferedInto
  <2>6. QED
    BY <2>1, <2>4, <2>5 DEF Buffers
<1>3. Counts(FromBuffer(b, ws), 4)
  BY <1>1, BufferedCounts
<1>4. QED
  BY <1>2, <1>3 DEF InBlocks

\* One that is filled in part gives the words of a tail.
LEMMA BufferedTail ==
    ASSUME kernel # "t1ha1_be", NEW b, NEW from \in Int, NEW tail \in 0 .. 31, Fills(b, from, tail),
           NEW lanes, NEW ws, InTail(ws, 0, tail, lanes)
    PROVE InTail(FromBuffer(b, ws), from, tail, lanes)
<1>1. PICK n : n = TailWords(tail)
  OBVIOUS
<1>2. Counts(ws, n)
  BY <1>1 DEF InTail
<1>3. n \in 0 .. 4 /\ TailSize(tail) \in 1 .. 8 /\ tail \in 0 .. 32
  BY <1>1, TailCounts
<1>4. n # 0 => tail = (8 * (n - 1)) + TailSize(tail)
  BY <1>1, <1>3, TailCounts
<1>5. ASSUME NEW i \in 1 .. n
      PROVE FromBuffer(b, ws)[i]
                = Into(Number(from + (8 * (i - 1)), IF i < n THEN 8 ELSE TailSize(tail)),
                       <<lanes[n - i + 1], n - i + 1>>)
  <2>1. PICK p \in Nat : p = 8 * (i - 1)
    BY <1>3
  <2>2. PICK size \in 0 .. 8 : size = IF i < n THEN 8 ELSE TailSize(tail)
    BY <1>3
  <2>3. ws[i] = Into(Number(p, size), <<lanes[n - i + 1], n - i + 1>>)
    BY <1>1, <2>1, <2>2 DEF InTail
  <2>4. p + size <= tail
    BY <1>3, <1>4, <2>1, <2>2
  <2>5. PICK q : q = from + p
    OBVIOUS
  <2>6. Buffers(b, ws, i, q, size, <<lanes[n - i + 1], n - i + 1>>)
    BY <1>2, <1>3, <2>3, <2>4, <2>5, BufferedInto
  <2>7. QED
    BY <2>1, <2>2, <2>5, <2>6 DEF Buffers
<1>6. Counts(FromBuffer(b, ws), n)
  BY <1>2, BufferedCounts
<1>7. QED
  BY <1>1, <1>5, <1>6 DEF InTail

\* An update that ends at total bytes, of a stream that has given c blocks, gives
\* the words of the blocks that are whole by then and keeps the bytes after them.
Absorbs(s, c, total) ==
    /\ s.partial \in 0 .. 31
    /\ \E d \in Nat : /\ total = (32 * (c + d)) + s.partial
                      /\ InBlocks(s.words, 32 * c, d)
                      /\ Fills(s.buffer, 32 * (c + d), s.partial)

LEMMA StreamOrder ==
    ASSUME kernel \in T1ha2Stream
    PROVE OrderOf = "little" /\ kernel # "t1ha1_be"
  BY DEF OrderOf, T1ha2Stream

LEMMA NoBlocks ==
    ASSUME NEW p
    PROVE InBlocks(<<>>, p, 0)
<1>1. Counts(<<>>, 0)
  BY NoneBlocked
<1>2. QED
  BY <1>1 DEF InBlocks

LEMMA AbsorbedKept ==
    ASSUME partial \in 1 .. 31, NEW c \in Nat, NEW n \in Nat, partial + n < 32, NEW p \in Nat,
           p = (32 * c) + partial, Fills(buffer, 32 * c, partial), NEW s, s = t1ha2_absorb(p, n)
    PROVE Absorbs(s, c, p + n)
<1>1. s = [buffer |-> Chunk(p, n), partial |-> partial + n, words |-> <<>>]
  <2>1. /\ (IF partial = 0 THEN 0 ELSE IF n >= 32 - partial THEN 32 - partial ELSE n) = n
        /\ partial > 0 /\ partial + n < 32
    OBVIOUS
  <2>2. (IF partial = 0 THEN buffer ELSE Chunk(p, n)) = Chunk(p, n)
    BY <2>1
  <2>3. QED
    BY <2>1, <2>2, Zenon DEF t1ha2_absorb
<1>2. s.partial = partial + n /\ s.words = <<>> /\ s.buffer = Chunk(p, n)
  BY <1>1
<1>3. PICK k \in 0 .. 31 : k = partial + n /\ s.partial = k
  <2>1. partial + n \in 0 .. 31
    OBVIOUS
  <2>2. QED
    BY <1>2, <2>1
<1>4. InBlocks(s.words, 32 * c, 0)
  BY <1>2, NoBlocks
<1>5. ASSUME NEW i \in 0 .. 31, i < k PROVE Chunk(p, n)[i] = {(32 * c) + i}
  <2>1. CASE partial <= i
    <3>1. Chunk(p, n)[i] = {p + i - partial}
      BY <1>3, <1>5, <2>1 DEF Chunk
    <3>2. p + i - partial = (32 * c) + i
      OBVIOUS
    <3>3. QED
      BY <3>1, <3>2
  <2>2. CASE ~(partial <= i)
    BY <2>2 DEF Chunk, Fills
  <2>3. QED
    BY <2>1, <2>2
<1>6. Fills(s.buffer, 32 * (c + 0), k)
  <2>1. 32 * (c + 0) = 32 * c
    OBVIOUS
  <2>2. QED
    BY <1>2, <1>5, <2>1 DEF Fills
<1>7. 0 \in Nat /\ p + n = (32 * (c + 0)) + k
  BY <1>3
<1>8. QED
  BY <1>3, <1>4, <1>6, <1>7 DEF Absorbs

LEMMA AbsorbedWhole ==
    ASSUME call \in Calls, kernel \in T1ha2Stream, partial \in 0 .. 31, NEW c \in Nat, NEW n \in Nat,
           partial = 0 \/ partial + n >= 32, NEW p \in Nat,
           p = (32 * c) + partial, Fills(buffer, 32 * c, partial), NEW s, s = t1ha2_absorb(p, n)
    PROVE Absorbs(s, c, p + n)
<1>1. PICK chunk \in 0 .. n : chunk = IF partial = 0 THEN 0 ELSE 32 - partial
  OBVIOUS
<1>2. PICK e \in {0, 1} : e = IF partial = 0 THEN 0 ELSE 1
  OBVIOUS
<1>3. PICK q \in Nat : q = p + chunk
  OBVIOUS
<1>4. q = 32 * (c + e)
  BY <1>1, <1>2, <1>3
<1>5. PICK blocks \in Nat, left \in 0 .. 31 :
        blocks = (n - chunk) \div 32 /\ left = (n - chunk) % 32
  OBVIOUS
<1>6. n - chunk = (32 * blocks) + left
  BY <1>5
<1>7. PICK filled : filled = IF partial = 0 THEN buffer ELSE Chunk(p, n)
  OBVIOUS
<1>8. PICK first : first = IF partial > 0 THEN FromBuffer(filled, Blocks("little", TRUE, 0, 1)) ELSE <<>>
  OBVIOUS
<1>9. PICK more : more = Blocks("little", ReadAligned(q), q, blocks)
  OBVIOUS
<1>10. /\ s.partial = left
       /\ s.words = first \o more
       /\ s.buffer = [i \in 0 .. 31 |-> IF i < left THEN {q + 32 * blocks + i} ELSE filled[i]]
  <2>1. chunk = IF partial = 0 THEN 0 ELSE IF n >= 32 - partial THEN 32 - partial ELSE n
    BY <1>1
  <2>2. ~(partial > 0 /\ partial + chunk < 32)
    BY <1>1
  <2>3. PICK b, w : /\ b = [i \in 0 .. 31 |-> IF i < left THEN {q + 32 * blocks + i} ELSE filled[i]]
                    /\ w = first \o more
    OBVIOUS
  <2>4. s = [buffer |-> b, partial |-> left, words |-> w]
    BY <1>3, <1>5, <1>7, <1>8, <1>9, <2>1, <2>2, <2>3, Zenon DEF t1ha2_absorb
  <2>5. s.partial = left /\ s.words = w /\ s.buffer = b
    BY <2>4
  <2>6. QED
    BY <2>3, <2>5, Zenon
<1>11. InBlocks(more, q, blocks)
  <2>1. ReadAligned(q) \in BOOLEAN /\ more = Blocks(OrderOf, ReadAligned(q), q, blocks) /\ q \in Int
    BY <1>9, StreamOrder DEF ReadAligned
  <2>2. QED
    BY <2>1, BlocksRow
<1>12. InBlocks(first, 32 * c, e)
  <2>1. CASE partial = 0
    BY <1>2, <1>8, <2>1, NoBlocks
  <2>2. CASE partial # 0
    <3>1. PICK read : read = Blocks(OrderOf, TRUE, 0, 1)
      OBVIOUS
    <3>2. 0 \in Int /\ 1 \in Nat /\ TRUE \in BOOLEAN
      OBVIOUS
    <3>3. InBlocks(read, 0, 1)
      BY <3>1, <3>2, BlocksRow
    <3>4. filled = Chunk(p, n)
      BY <1>7, <2>2
    <3>5. ASSUME NEW i \in 0 .. 31 PROVE filled[i] = {(32 * c) + i}
      <4>1. CASE partial <= i
        <5>1. Chunk(p, n)[i] = {p + i - partial}
          BY <2>2, <4>1 DEF Chunk
        <5>2. p + i - partial = (32 * c) + i
          OBVIOUS
        <5>3. QED
          BY <3>4, <5>1, <5>2
      <4>2. CASE ~(partial <= i)
        BY <3>4, <4>2 DEF Chunk, Fills
      <4>3. QED
        BY <4>1, <4>2
    <3>6. Fills(filled, 32 * c, 32)
      BY <3>5 DEF Fills
    <3>7. PICK from \in Int : from = 32 * c
      OBVIOUS
    <3>8. InBlocks(FromBuffer(filled, read), from, 1)
      BY <3>3, <3>6, <3>7, StreamOrder, BufferedBlock
    <3>9. first = FromBuffer(filled, read) /\ e = 1
      <4>1. partial > 0 /\ e = 1
        BY <1>2, <2>2
      <4>2. first = FromBuffer(filled, Blocks("little", TRUE, 0, 1))
        BY <1>8, <4>1, Zenon
      <4>3. read = Blocks("little", TRUE, 0, 1)
        BY <3>1, StreamOrder, Zenon
      <4>4. QED
        BY <4>1, <4>2, <4>3, Zenon
    <3>10. QED
      BY <3>7, <3>8, <3>9
  <2>3. QED
    BY <2>1, <2>2
<1>13. InBlocks(s.words, 32 * c, e + blocks)
  <2>1. PICK from \in Int, r \in Int : from = 32 * c /\ r = q
    OBVIOUS
  <2>2. PICK k \in Nat : k = e
    OBVIOUS
  <2>3. InBlocks(first, from, k) /\ InBlocks(more, r, blocks) /\ r = from + (32 * k)
    BY <1>4, <1>11, <1>12, <2>1, <2>2
  <2>4. InBlocks(first \o more, from, k + blocks)
    BY <2>3, BlocksBoth
  <2>5. QED
    BY <1>10, <2>1, <2>2, <2>4
<1>14. q + 32 * blocks = 32 * (c + (e + blocks)) /\ p + n = (q + (32 * blocks)) + left
  BY <1>3, <1>4, <1>6
<1>15. Fills(s.buffer, 32 * (c + (e + blocks)), s.partial)
  BY <1>10, <1>14 DEF Fills
<1>16. e + blocks \in Nat /\ p + n = (32 * (c + (e + blocks))) + left
  BY <1>14
<1>17. QED
  BY <1>10, <1>13, <1>15, <1>16 DEF Absorbs

LEMMA Absorbed ==
    ASSUME call \in Calls, kernel \in T1ha2Stream, partial \in 0 .. 31, NEW c \in Nat, NEW n \in Nat,
           NEW p \in Nat, p = (32 * c) + partial, Fills(buffer, 32 * c, partial),
           NEW s, s = t1ha2_absorb(p, n)
    PROVE Absorbs(s, c, p + n)
<1>1. CASE partial # 0 /\ partial + n < 32
  BY <1>1, AbsorbedKept
<1>2. CASE partial = 0 \/ partial + n >= 32
  BY <1>2, AbsorbedWhole
<1>3. QED
  BY <1>1, <1>2

\* Between two pieces a stream has given the blocks of what it was given, and has
\* the rest in its buffer.
InStream ==
    pc = "loop" /\ kernel \in T1ha2Stream =>
        /\ partial \in 0 .. 31
        /\ \E c \in Nat : /\ at = (32 * c) + partial
                          /\ Blocked(words, c)
                          /\ Fills(buffer, 32 * c, partial)

LEMMA StreamBegin ==
    ASSUME Inv, t1ha2_init
    PROVE InStream'
<1>1. at = 0 /\ words = <<>> /\ call' = call
  BY DEF Inv, Where, t1ha2_init, Goto
<1>2. at' = 0 /\ words' = words /\ partial' = 0
  BY <1>1 DEF t1ha2_init, file, input
<1>3. Blocked(words, 0)'
  BY <1>1, <1>2, NoneBlocked, BlockedNext
<1>4. \A i \in 0 .. 31 : ~(i < 0)
  OBVIOUS
<1>5. 0 \in Nat /\ at' = (32 * 0) + partial'
  BY <1>2
<1>6. Fills(buffer, 32 * 0, partial)'
  BY <1>2, <1>4 DEF Fills
<1>7. partial' \in 0 .. 31
  BY <1>2
<1>8. QED
  BY <1>3, <1>5, <1>6, <1>7 DEF InStream

LEMMA StreamUpdate ==
    ASSUME Inv, InStream, NEW n \in Pieces, t1ha2_update(n)
    PROVE InStream'
<1>1. call \in Calls /\ n \in Nat /\ at \in Nat /\ call' = call /\ pc = "loop"
      /\ kernel \in T1ha2Stream
  BY SizesAssumption, CallTyped DEF Inv, TypeOK, t1ha2_update, Goto
<1>2. partial \in 0 .. 31
  BY <1>1 DEF InStream
<1>3. PICK c \in Nat : /\ at = (32 * c) + partial
                       /\ Blocked(words, c)
                       /\ Fills(buffer, 32 * c, partial)
  BY <1>1 DEF InStream
<1>4. PICK p \in Nat : p = at
  BY <1>1
<1>5. PICK s : s = t1ha2_absorb(p, n)
  OBVIOUS
<1>6. Absorbs(s, c, p + n)
  BY <1>1, <1>2, <1>3, <1>4, <1>5, Absorbed
<1>7. PICK d \in Nat : /\ p + n = (32 * (c + d)) + s.partial
                       /\ InBlocks(s.words, 32 * c, d)
                       /\ Fills(s.buffer, 32 * (c + d), s.partial)
  BY <1>6 DEF Absorbs
<1>8. words' = words \o s.words /\ buffer' = s.buffer /\ partial' = s.partial /\ at' = p + n
  BY <1>4, <1>5 DEF t1ha2_update, Take
<1>9. Blocked(words \o s.words, c + d)
  BY <1>3, <1>7, MoreBlocks
<1>10. Blocked(words, c + d)'
  BY <1>1, <1>8, <1>9, BlockedNext
<1>11. Fills(buffer, 32 * (c + d), partial)'
  BY <1>7, <1>8 DEF Fills
<1>12. partial' \in 0 .. 31
  BY <1>6, <1>8 DEF Absorbs
<1>13. c + d \in Nat /\ at' = (32 * (c + d)) + partial'
  BY <1>7, <1>8
<1>14. QED
  BY <1>10, <1>11, <1>12, <1>13 DEF InStream

Regroups(r, s, t) == r \o (s \o t) = (r \o s) \o t

LEMMA Associates ==
    ASSUME NEW r, NEW s, NEW t, NEW k, NEW n, NEW m, Counts(r, k), Counts(s, n), Counts(t, m)
    PROVE Regroups(r, s, t)
<1>1. PICK R, S, T : r \in Seq(R) /\ s \in Seq(S) /\ t \in Seq(T)
  BY DEF Counts
<1>2. r \in Seq(R \cup (S \cup T)) /\ s \in Seq(R \cup (S \cup T)) /\ t \in Seq(R \cup (S \cup T))
  BY <1>1
<1>3. QED
  BY <1>2 DEF Regroups

LEMMA StreamFinish ==
    ASSUME Inv, InStream, t1ha2_final
    PROVE words' = T1haWords(len + 8, (len + 8) \div 32, Lanes2) /\ pc' = "mix" /\ call' = call
<1>1. /\ call \in Calls /\ at \in Nat /\ len \in Nat /\ call' = call /\ pc = "loop" /\ pc' = "mix"
      /\ kernel \in T1ha2Stream /\ at = len
  BY CallTyped DEF Inv, TypeOK, Reading, t1ha2_final, Goto
<1>2. partial \in 0 .. 31
  BY <1>1 DEF InStream
<1>3. PICK c \in Nat : /\ at = (32 * c) + partial
                       /\ Blocked(words, c)
                       /\ Fills(buffer, 32 * c, partial)
  BY <1>1 DEF InStream
<1>4. PICK p \in Nat : p = len
  BY <1>1
<1>5. PICK s : s = t1ha2_absorb(p, 8)
  OBVIOUS
<1>6. Absorbs(s, c, p + 8)
  <2>1. 8 \in Nat /\ p = (32 * c) + partial
    BY <1>1, <1>3, <1>4
  <2>2. QED
    BY <1>1, <1>2, <1>3, <1>5, <2>1, Absorbed
<1>7. PICK d \in Nat : /\ p + 8 = (32 * (c + d)) + s.partial
                       /\ InBlocks(s.words, 32 * c, d)
                       /\ Fills(s.buffer, 32 * (c + d), s.partial)
  BY <1>6 DEF Absorbs
<1>8. PICK tail \in 0 .. 31 : tail = s.partial
  BY <1>6 DEF Absorbs
<1>9. PICK read : read = Remainder("little", TRUE, 0, s.partial, Lanes2)
  OBVIOUS
<1>10. words' = words \o (s.words \o FromBuffer(s.buffer, read))
  BY <1>4, <1>5, <1>9 DEF t1ha2_final, Take
<1>11. PICK b \in Nat, from \in Int, start \in Nat : b = c + d /\ from = 32 * b /\ start = from
  OBVIOUS
<1>12. PICK lanes : lanes = Lanes2
  OBVIOUS
<1>13. InTail(read, 0, tail, lanes)
  <2>1. 0 \in Nat /\ TRUE \in BOOLEAN /\ tail \in 0 .. 32
    OBVIOUS
  <2>2. read = Remainder(OrderOf, TRUE, 0, tail, lanes)
    BY <1>1, <1>8, <1>9, <1>12, StreamOrder
  <2>3. QED
    BY <1>1, <2>1, <2>2, RemainderRow
<1>14. InTail(FromBuffer(s.buffer, read), from, tail, lanes)
  <2>1. Fills(s.buffer, from, tail)
    BY <1>7, <1>8, <1>11
  <2>2. QED
    BY <1>1, <1>13, <2>1, StreamOrder, BufferedTail
<1>15. Blocked(words \o s.words, b)
  BY <1>3, <1>7, <1>11, MoreBlocks
<1>16. PICK sum \in Nat : sum = len + 8
  BY <1>1
<1>17. IsT1ha((words \o s.words) \o FromBuffer(s.buffer, read), sum, b, lanes)
  <2>1. tail \in 0 .. 32 /\ start = 32 * b /\ sum = start + tail
    BY <1>4, <1>7, <1>8, <1>11, <1>16
  <2>2. InTail(FromBuffer(s.buffer, read), start, tail, lanes)
    BY <1>11, <1>14
  <2>3. QED
    BY <1>15, <2>1, <2>2, WithRemainder
<1>18. Regroups(words, s.words, FromBuffer(s.buffer, read))
  <2>1. Counts(words, 4 * c) /\ Counts(s.words, 4 * d)
    BY <1>3, <1>7 DEF Blocked, InBlocks
  <2>2. Counts(FromBuffer(s.buffer, read), TailWords(tail))
    BY <1>14 DEF InTail
  <2>3. QED
    BY <2>1, <2>2, Associates
<1>19. b = (len + 8) \div 32
  BY <1>4, <1>7, <1>8, <1>11
<1>20. QED
  BY <1>1, <1>10, <1>12, <1>16, <1>17, <1>18, <1>19, Zenon DEF IsT1ha, Regroups

-----------------------------------------------------------------------------
(* rapidhash and wyhash over files of 17 bytes or more.                    *)

\* The lanes of a kernel, its secrets and the rounds it has to go.
FoldLanes ==
    CASE kernel = "rapidhash" -> 7
      [] kernel = "rapidhashMicro" -> 5
      [] kernel \in {"rapidhashNano", "rapidhash_go", "wyhash"} -> 3
FoldSecrets ==
    CASE kernel = "rapidhash" -> <<2, 2, 1, 1, 2, 1>>
      [] kernel = "rapidhashMicro" -> <<2, 2, 1, 1>>
      [] kernel \in {"rapidhashNano", "rapidhash_go"} -> <<2, 2>>
      [] kernel = "wyhash" -> <<1, 1>>
FoldRounds == IF kernel = "wyhash" THEN len \div 48 ELSE (len - 1) \div (16 * FoldLanes)

LEMMA FoldedCases ==
    ASSUME kernel \in Folded
    PROVE /\ FoldLanes \in {3, 5, 7}
          /\ kernel = "wyhash" => FoldLanes = 3 /\ FoldSecrets = <<1, 1>> /\ FoldRounds = len \div 48
          /\ kernel # "wyhash" => /\ FoldSecrets \in Seq(Nat) /\ Len(FoldSecrets) + 1 = FoldLanes
                                  /\ FoldRounds = (len - 1) \div (16 * FoldLanes)
          /\ WordsExpected = FoldedWords(FoldRounds, FoldLanes, FoldSecrets)
<1>1. kernel \notin T1ha1 \cup T1ha2 \cup StandIns /\ kernel \notin T1ha2Stream
  BY DEF Folded, Rapid, T1ha1, T1ha2, StandIns, T1ha2Stream
<1>2. CASE kernel = "rapidhash"
  <2>1. FoldLanes = 7 /\ FoldSecrets = <<2, 2, 1, 1, 2, 1>>
    BY <1>2 DEF FoldLanes, FoldSecrets
  <2>2. FoldRounds = (len - 1) \div (16 * 7) /\ 16 * 7 = 112
    BY <1>2, <2>1 DEF FoldRounds
  <2>3. WordsExpected = FoldedWords((len - 1) \div 112, 7, <<2, 2, 1, 1, 2, 1>>)
    BY <1>1, <1>2 DEF WordsExpected
  <2>4. <<2, 2, 1, 1, 2, 1>> \in Seq(Nat) /\ Len(<<2, 2, 1, 1, 2, 1>>) + 1 = 7
    OBVIOUS
  <2>5. QED
    BY <1>2, <2>1, <2>2, <2>3, <2>4
<1>3. CASE kernel = "rapidhashMicro"
  <2>1. FoldLanes = 5 /\ FoldSecrets = <<2, 2, 1, 1>>
    BY <1>3 DEF FoldLanes, FoldSecrets
  <2>2. FoldRounds = (len - 1) \div (16 * 5) /\ 16 * 5 = 80
    BY <1>3, <2>1 DEF FoldRounds
  <2>3. WordsExpected = FoldedWords((len - 1) \div 80, 5, <<2, 2, 1, 1>>)
    BY <1>1, <1>3 DEF WordsExpected
  <2>4. <<2, 2, 1, 1>> \in Seq(Nat) /\ Len(<<2, 2, 1, 1>>) + 1 = 5
    OBVIOUS
  <2>5. QED
    BY <1>3, <2>1, <2>2, <2>3, <2>4
<1>4. CASE kernel \in {"rapidhashNano", "rapidhash_go"}
  <2>1. FoldLanes = 3 /\ FoldSecrets = <<2, 2>>
    BY <1>4 DEF FoldLanes, FoldSecrets
  <2>2. FoldRounds = (len - 1) \div (16 * 3) /\ 16 * 3 = 48
    BY <1>4, <2>1 DEF FoldRounds
  <2>3. WordsExpected = FoldedWords((len - 1) \div 48, 3, <<2, 2>>)
    BY <1>1, <1>4 DEF WordsExpected
  <2>4. <<2, 2>> \in Seq(Nat) /\ Len(<<2, 2>>) + 1 = 3
    OBVIOUS
  <2>5. QED
    BY <1>4, <2>1, <2>2, <2>3, <2>4
<1>5. CASE kernel = "wyhash"
  <2>1. FoldLanes = 3 /\ FoldSecrets = <<1, 1>> /\ FoldRounds = len \div 48
    BY <1>5 DEF FoldLanes, FoldSecrets, FoldRounds
  <2>2. WordsExpected = FoldedWords(len \div 48, 3, <<1, 1>>)
    BY <1>1, <1>5 DEF WordsExpected
  <2>3. QED
    BY <1>5, <2>1, <2>2
<1>6. QED
  BY <1>2, <1>3, <1>4, <1>5 DEF Folded, Rapid

\* s is the words of the first m pairs.
Paired(s, m, rounds, lanes, secrets) ==
    Counts(s, 2 * m) /\ \A j \in 1 .. 2 * m : s[j] = FoldedAt(rounds, lanes, secrets, j)

\* t is those of the n after them.
PairedFrom(t, m, n, rounds, lanes, secrets) ==
    Counts(t, 2 * n) /\ \A i \in 1 .. 2 * n : t[i] = FoldedAt(rounds, lanes, secrets, (2 * m) + i)

LEMMA MorePairs ==
    ASSUME NEW m \in Nat, NEW n \in Nat, NEW rounds, NEW lanes, NEW secrets, NEW s, NEW t,
           Paired(s, m, rounds, lanes, secrets), PairedFrom(t, m, n, rounds, lanes, secrets)
    PROVE Paired(s \o t, m + n, rounds, lanes, secrets)
<1>1. PICK k \in Nat, l \in Nat : k = 2 * m /\ l = 2 * n /\ 2 * (m + n) = k + l
  OBVIOUS
<1>2. /\ Counts(s, k) /\ Counts(t, l)
      /\ \A j \in 1 .. k : s[j] = FoldedAt(rounds, lanes, secrets, j)
      /\ \A i \in 1 .. l : t[i] = FoldedAt(rounds, lanes, secrets, k + i)
  BY <1>1 DEF Paired, PairedFrom
<1>3. Glues(s \o t, s, t, k, l)
  BY <1>2, Glued
<1>4. ASSUME NEW j \in 1 .. k + l PROVE (s \o t)[j] = FoldedAt(rounds, lanes, secrets, j)
  <2>1. CASE j <= k
    <3>1. j \in 1 .. k
      BY <2>1
    <3>2. QED
      BY <1>2, <1>3, <3>1 DEF Glues
  <2>2. CASE ~(j <= k)
    <3>1. PICK i \in 1 .. l : j = k + i
      <4>1. j - k \in 1 .. l /\ j = k + (j - k)
        BY <2>2
      <4>2. QED
        BY <4>1
    <3>2. QED
      BY <1>2, <1>3, <3>1 DEF Glues
  <2>3. QED
    BY <2>1, <2>2
<1>5. QED
  BY <1>1, <1>3, <1>4 DEF Paired, Glues

\* All pairs and the last 16 bytes are what is expected.
IsFolded(w, rounds, lanes, secrets) == w = FoldedWords(rounds, lanes, secrets)

LEMMA WithEnds ==
    ASSUME NEW rounds, NEW lanes, NEW secrets, NEW s, NEW m \in Nat, m = FoldedPairs(rounds, lanes),
           Paired(s, m, rounds, lanes, secrets)
    PROVE IsFolded(s \o Ends(Number(len - 16, 8), Number(len - 8, 8)), rounds, lanes, secrets)
<1>1. PICK k \in Nat : k = 2 * m
  OBVIOUS
<1>2. PICK u : u = [j \in 1 .. k |-> FoldedAt(rounds, lanes, secrets, j)]
  OBVIOUS
<1>3. Counts(u, k) /\ \A j \in 1 .. k : u[j] = FoldedAt(rounds, lanes, secrets, j)
  BY <1>2, CountsFunction
<1>4. Counts(s, k) /\ \A j \in 1 .. k : s[j] = u[j]
  BY <1>1, <1>3 DEF Paired
<1>5. s = u
  BY <1>3, <1>4, Same
<1>6. FoldedWords(rounds, lanes, secrets) = u \o Ends(Number(len - 16, 8), Number(len - 8, 8))
  BY <1>1, <1>2, FoldedIs, Zenon
<1>7. QED
  BY <1>5, <1>6 DEF IsFolded

\* What is expected at j: the word at p, in a lane or for a secret.
SeesAt(rounds, lanes, secrets, j, p, lane) ==
    FoldedAt(rounds, lanes, secrets, j) = Into(Number(p, 8), <<"see", lane>>)
PairAt(rounds, lanes, secrets, j, p, i, x) ==
    FoldedAt(rounds, lanes, secrets, j)
        = Into(Number(p, 8), IF i % 2 = 1 THEN <<"secret", secrets[x]>> ELSE <<"seed", 0>>)

\* In the rounds the lanes take turns.
LEMMA InRounds ==
    ASSUME NEW lanes \in {3, 5, 7}, NEW secrets, NEW rounds \in Nat, NEW r \in Nat, NEW k \in {1, 2},
           r + k <= rounds, NEW i \in Nat, 1 <= i, i <= 2 * (lanes * k),
           NEW j \in Nat, j = (2 * (lanes * r)) + i, NEW p \in Nat, p = (16 * (lanes * r)) + (8 * (i - 1)),
           NEW lane \in Nat, lane = (i - 1) % (2 * lanes)
    PROVE SeesAt(rounds, lanes, secrets, j, p, lane)
<1>1. /\ j <= 2 * lanes * rounds
      /\ (j - 1) % (2 * lanes) = lane
      /\ 8 * (j - 1) = p
  <2>1. CASE lanes = 3
    BY <2>1
  <2>2. CASE lanes = 5
    BY <2>2
  <2>3. CASE lanes = 7
    BY <2>3
  <2>4. QED
    BY <2>1, <2>2, <2>3
<1>2. FoldedAt(rounds, lanes, secrets, j)
          = Into(Number(8 * (j - 1), 8), <<"see", (j - 1) % (2 * lanes)>>)
  BY <1>1 DEF FoldedAt
<1>3. QED
  BY <1>1, <1>2, Zenon DEF SeesAt

\* After them each pair has a secret.
LEMMA InPairs ==
    ASSUME NEW lanes \in {3, 5, 7}, NEW secrets, NEW rounds \in Nat, NEW extra \in Nat, NEW m \in Nat,
           m = (lanes * rounds) + extra, NEW i \in Nat, 1 <= i,
           NEW j \in Nat, j = (2 * m) + i, NEW p \in Nat, p = (16 * m) + (8 * (i - 1)),
           NEW y \in Nat, y = extra + ((i + 1) \div 2)
    PROVE PairAt(rounds, lanes, secrets, j, p, i, y)
<1>2. PICK x \in Nat : x = lanes * rounds
  <2>1. lanes * rounds \in Nat
    OBVIOUS
  <2>2. QED
    BY <2>1
<1>3. 2 * lanes * rounds = 2 * x
  <2>1. CASE lanes = 3
    BY <1>2, <2>1
  <2>2. CASE lanes = 5
    BY <1>2, <2>2
  <2>3. CASE lanes = 7
    BY <1>2, <2>3
  <2>4. QED
    BY <2>1, <2>2, <2>3
<1>4. m = x + extra
  BY <1>2
<1>5. /\ ~(j <= 2 * x)
      /\ (j % 2 = 1) <=> (i % 2 = 1)
      /\ 8 * (j - 1) = p
      /\ ((j + 1) \div 2) - x = y
  BY <1>4
<1>6. FoldedAt(rounds, lanes, secrets, j)
          = Into(Number(8 * (j - 1), 8),
                 IF j <= 2 * x THEN <<"see", (j - 1) % (2 * lanes)>>
                 ELSE IF j % 2 = 1 THEN <<"secret", secrets[((j + 1) \div 2) - x]>> ELSE <<"seed", 0>>)
  BY <1>2, <1>3, Zenon DEF FoldedAt
<1>7. QED
  BY <1>5, <1>6 DEF PairAt

LEMMA ReadNumber ==
    ASSUME call \in Calls, kernel \in Folded, NEW p \in Int
    PROVE Read(p, 8) = Number(p, 8)
<1>1. kernel # "t1ha1_be"
  BY DEF Folded, Rapid
<1>2. Number(p, 8) = Little(p, 8)
  BY <1>1, NumberIs
<1>3. rapid_read(machine, p, 8) = Little(p, 8) /\ _wyr(machine, p, 8) = Little(p, 8)
  BY MachineTyped, ReadRight
<1>4. QED
  BY <1>2, <1>3 DEF Read

\* Where a long file is read: the pairs that the pointer has passed are taken, in
\* whole rounds as long as there are rounds to go, and only wyhash may have taken
\* all there is.
InFold ==
    pc = "loop" /\ kernel \in Folded =>
        \E m \in Nat :
            /\ at = 16 * m
            /\ Paired(words, m, FoldRounds, FoldLanes, FoldSecrets)
            /\ kernel # "wyhash" => \E r \in Nat : m = FoldLanes * r /\ 16 * m < len
            /\ kernel = "wyhash" => /\ m >= 3 * FoldRounds \/ m % 3 = 0
                                    /\ 16 * m < len \/ (16 * m = len /\ m = 3 * FoldRounds)

LEMMA FoldKept ==
    ASSUME call' = call
    PROVE /\ FoldRounds' = FoldRounds /\ FoldLanes' = FoldLanes /\ FoldSecrets' = FoldSecrets
          /\ kernel' = kernel /\ len' = len
<1>1. kernel' = kernel /\ len' = len
  BY CallKept
<1>2. FoldLanes' = FoldLanes /\ FoldSecrets' = FoldSecrets
  BY <1>1 DEF FoldLanes, FoldSecrets
<1>3. FoldRounds' = FoldRounds
  BY <1>1, <1>2 DEF FoldRounds
<1>4. QED
  BY <1>1, <1>2, <1>3

LEMMA PairedNext ==
    ASSUME call' = call, NEW m, NEW s, Paired(s, m, FoldRounds, FoldLanes, FoldSecrets), words' = s
    PROVE Paired(words, m, FoldRounds, FoldLanes, FoldSecrets)'
<1>1. /\ FoldRounds' = FoldRounds /\ FoldLanes' = FoldLanes /\ FoldSecrets' = FoldSecrets
      /\ kernel' = kernel
  BY FoldKept
<1>2. \A rounds, lanes, secrets, j :
        FoldedAt(rounds, lanes, secrets, j)' = FoldedAt(rounds, lanes, secrets, j)
  BY <1>1 DEF FoldedAt, Number
<1>3. QED
  BY <1>1, <1>2 DEF Paired, Counts

LEMMA AtFold ==
    ASSUME Inv, pc = "loop", kernel \in Folded
    PROVE /\ call \in Calls /\ len \in Nat /\ at \in Nat /\ rest \in Nat /\ at + rest = len /\ len > 16
          /\ FoldRounds \in Nat
<1>1. call \in Calls /\ len \in Nat /\ at \in Nat /\ rest \in Nat /\ at + rest = len /\ len > 16
  BY CallTyped DEF Inv, TypeOK, Where, Reading
<1>2. FoldLanes \in {3, 5, 7}
  BY FoldedCases
<1>3. FoldRounds = (len \div 48) \/ \E lanes \in {3, 5, 7} : FoldRounds = (len - 1) \div (16 * lanes)
  BY <1>2 DEF FoldRounds
<1>4. FoldRounds \in Nat
  BY <1>1, <1>3
<1>5. QED
  BY <1>1, <1>4

LEMMA FoldBegin ==
    ASSUME Inv, Long
    PROVE InFold'
<1>1. call \in Calls /\ len \in Nat /\ at = 0 /\ words = <<>> /\ call' = call /\ pc' = "loop"
      /\ kernel \in Folded /\ len > 16
  BY CallTyped DEF Inv, TypeOK, Where, Long, Short, Goto
<1>2. at' = 0 /\ words' = words
  BY <1>1 DEF Long, file, input
<1>3. Paired(words, 0, FoldRounds, FoldLanes, FoldSecrets)
  BY <1>1, NoneBlocked DEF Paired
<1>4. Paired(words, 0, FoldRounds, FoldLanes, FoldSecrets)'
  BY <1>1, <1>2, <1>3, PairedNext
<1>5. FoldLanes \in {3, 5, 7} /\ FoldLanes' = FoldLanes /\ len' = len
  BY <1>1, FoldedCases, FoldKept
<1>6. 0 = FoldLanes' * 0 /\ 0 \in Nat /\ at' = 16 * 0 /\ 16 * 0 < len' /\ 0 % 3 = 0
  BY <1>1, <1>2, <1>5
<1>7. QED
  BY <1>4, <1>6 DEF InFold

\* One round or two of rapidhash.
LEMMA FoldRound ==
    ASSUME Inv, InFold, pc = "loop", kernel \in Folded, kernel # "wyhash", call' = call,
           NEW lanes \in {3, 5, 7}, lanes = FoldLanes, NEW k \in {1, 2}, NEW n \in Nat, n = lanes * k,
           rest > 16 * n, at' = at + (16 * n), NEW t, Counts(t, 2 * n), words' = words \o t,
           \A i \in 1 .. 2 * n : t[i] = Into(Read(at + 8 * (i - 1), 8), <<"see", (i - 1) % (2 * lanes)>>)
    PROVE InFold'
<1>0. PICK secrets : secrets = FoldSecrets
  OBVIOUS
<1>1. /\ call \in Calls /\ len \in Nat /\ at \in Nat /\ rest \in Nat /\ at + rest = len
      /\ FoldRounds \in Nat
  BY AtFold
<1>2. PICK m \in Nat, r \in Nat : /\ at = 16 * m /\ m = FoldLanes * r
                                  /\ Paired(words, m, FoldRounds, FoldLanes, FoldSecrets)
  BY DEF InFold
<1>3. PICK size \in Nat, rounds \in Nat, p \in Nat : size = len /\ rounds = FoldRounds /\ p = at
  BY <1>1
<1>4. rounds = (size - 1) \div (16 * lanes) /\ m = lanes * r /\ p = 16 * m /\ size > p + (16 * n)
  BY <1>1, <1>2, <1>3, FoldedCases
<1>5. r + k <= rounds
  <2>1. CASE lanes = 3
    BY <1>4, <2>1
  <2>2. CASE lanes = 5
    BY <1>4, <2>2
  <2>3. CASE lanes = 7
    BY <1>4, <2>3
  <2>4. QED
    BY <2>1, <2>2, <2>3
<1>6. ASSUME NEW i \in 1 .. 2 * n PROVE t[i] = FoldedAt(rounds, lanes, secrets, (2 * m) + i)
  <2>1. PICK y \in Nat : y = i
    OBVIOUS
  <2>2. PICK j \in Nat, q \in Nat, lane \in Nat :
          j = (2 * m) + i /\ q = (16 * m) + (8 * (i - 1)) /\ lane = (i - 1) % (2 * lanes)
    <3>1. (2 * m) + i \in Nat /\ (16 * m) + (8 * (i - 1)) \in Nat /\ (i - 1) % (2 * lanes) \in Nat
      OBVIOUS
    <3>2. QED
      BY <3>1
  <2>3. /\ 1 <= y /\ y <= 2 * (lanes * k) /\ j = (2 * (lanes * r)) + y
        /\ q = (16 * (lanes * r)) + (8 * (y - 1)) /\ lane = (y - 1) % (2 * lanes)
    BY <1>4, <2>1, <2>2
  <2>4. SeesAt(rounds, lanes, secrets, j, q, lane)
    BY <1>5, <2>3, InRounds
  <2>5. Read(q, 8) = Number(q, 8)
    <3>1. PICK c \in Int : c = q
      OBVIOUS
    <3>2. Read(c, 8) = Number(c, 8)
      BY <1>1, ReadNumber
    <3>3. QED
      BY <3>1, <3>2
  <2>6. at + 8 * (i - 1) = q
    BY <1>3, <1>4, <2>2
  <2>7. t[i] = Into(Read(q, 8), <<"see", lane>>)
    BY <2>2, <2>6
  <2>8. QED
    BY <2>2, <2>4, <2>5, <2>7 DEF SeesAt
<1>7. PairedFrom(t, m, n, rounds, lanes, secrets)
  BY <1>6 DEF PairedFrom
<1>8. Paired(words, m, rounds, lanes, secrets)
  BY <1>0, <1>2, <1>3
<1>9. Paired(words \o t, m + n, rounds, lanes, secrets)
  BY <1>7, <1>8, MorePairs
<1>10. Paired(words, m + n, FoldRounds, FoldLanes, FoldSecrets)'
  <2>1. Paired(words \o t, m + n, FoldRounds, FoldLanes, FoldSecrets)
    BY <1>0, <1>3, <1>9
  <2>2. QED
    BY <2>1, PairedNext
<1>11. FoldLanes' = lanes /\ kernel' = kernel /\ len' = len
  BY FoldKept
<1>12. m + n \in Nat /\ at' = 16 * (m + n) /\ r + k \in Nat /\ m + n = lanes * (r + k)
       /\ 16 * (m + n) < len
  BY <1>3, <1>4
<1>13. m + n = FoldLanes' * (r + k) /\ 16 * (m + n) < len'
  BY <1>11, <1>12
<1>14. QED
  BY <1>10, <1>11, <1>12, <1>13 DEF InFold

\* The rest of rapidhash.
LEMMA FoldRest ==
    ASSUME Inv, InFold, pc = "loop", kernel \in Folded, kernel # "wyhash", call' = call,
           rest <= 16 * FoldLanes, NEW t, t = Ends(Read(len - 16, 8), Read(len - 8, 8)),
           words' = words \o (Pairs(Nested(FoldSecrets)) \o t)
    PROVE words' = WordsExpected
<1>0. PICK secrets : secrets = FoldSecrets
  OBVIOUS
<1>1. /\ call \in Calls /\ len \in Nat /\ at \in Nat /\ rest \in Nat /\ at + rest = len
      /\ FoldRounds \in Nat
  BY AtFold
<1>2. PICK m \in Nat, r \in Nat : /\ at = 16 * m /\ m = FoldLanes * r /\ 16 * m < len
                                  /\ Paired(words, m, FoldRounds, FoldLanes, FoldSecrets)
  BY DEF InFold
<1>3. PICK size \in Nat, rounds \in Nat, left \in Nat, lanes \in {3, 5, 7} :
        size = len /\ rounds = FoldRounds /\ left = rest /\ lanes = FoldLanes
  BY <1>1, FoldedCases
<1>4. /\ rounds = (size - 1) \div (16 * lanes) /\ m = lanes * r
      /\ (16 * m) + left = size /\ left > 0 /\ left <= 16 * lanes
  BY <1>0, <1>1, <1>2, <1>3, FoldedCases
<1>5. PICK n \in Nat : n = (left - 1) \div 16
  BY <1>4
<1>6. /\ r = rounds
      /\ rounds * 16 * lanes # size
      /\ (size - 1) \div 16 = m + n
  <2>1. CASE lanes = 3
    BY <1>4, <1>5, <2>1
  <2>2. CASE lanes = 5
    BY <1>4, <1>5, <2>2
  <2>3. CASE lanes = 7
    BY <1>4, <1>5, <2>3
  <2>4. QED
    BY <2>1, <2>2, <2>3
<1>7. m + n = FoldedPairs(rounds, lanes)
  BY <1>3, <1>6 DEF FoldedPairs
<1>8. secrets \in Seq(Nat) /\ Len(secrets) + 1 = lanes
  BY <1>0, <1>3, FoldedCases
<1>9. PICK nested : nested = Nested(secrets)
  OBVIOUS
<1>10. nested \in Seq(Nat) /\ Len(nested) = n
  <2>1. rest \in 1 .. 16 * (Len(secrets) + 1)
    BY <1>0, <1>3, <1>4, <1>8
  <2>2. QED
    BY <1>0, <1>3, <1>5, <1>8, <1>9, <2>1, NestedPairs
<1>11. ASSUME NEW x \in 1 .. n PROVE nested[x] = secrets[x]
  <2>1. CASE left > 16 * Len(secrets)
    BY <1>3, <1>9, <2>1 DEF Nested
  <2>2. CASE ~(left > 16 * Len(secrets))
    <3>1. nested = SubSeq(secrets, 1, n)
      BY <1>3, <1>5, <1>9, <2>2 DEF Nested
    <3>2. n <= Len(secrets)
      BY <1>4, <1>5, <1>8, <2>2
    <3>3. QED
      BY <1>8, <3>1, <3>2
  <2>3. QED
    BY <2>1, <2>2
<1>12. PICK pairs : pairs = Pairs(nested)
  OBVIOUS
<1>13. Counts(pairs, 2 * n)
  BY <1>10, <1>12, CountsPairs
<1>14. ASSUME NEW i \in 1 .. 2 * n
       PROVE pairs[i] = FoldedAt(rounds, lanes, secrets, (2 * m) + i)
  <2>1. PICK j \in Nat, q \in Nat, x \in Nat, y \in Nat, none \in Nat :
          /\ j = (2 * m) + i /\ q = (16 * m) + (8 * (i - 1)) /\ x = (i + 1) \div 2 /\ y = i
          /\ none = 0
    <3>1. /\ (2 * m) + i \in Nat /\ (16 * m) + (8 * (i - 1)) \in Nat /\ (i + 1) \div 2 \in Nat
          /\ i \in Nat /\ 0 \in Nat
      OBVIOUS
    <3>2. QED
      BY <3>1
  <2>2. /\ m = (lanes * rounds) + none /\ 1 <= y /\ j = (2 * m) + y
        /\ q = (16 * m) + (8 * (y - 1)) /\ x = none + ((y + 1) \div 2)
    <3>1. m = lanes * rounds /\ none = 0 /\ lanes * rounds \in Nat
      BY <1>4, <1>6, <2>1
    <3>2. m = (lanes * rounds) + none
      BY <3>1
    <3>3. x = none + ((y + 1) \div 2)
      BY <2>1
    <3>4. QED
      BY <2>1, <3>2, <3>3
  <2>3. PairAt(rounds, lanes, secrets, j, q, y, x)
    BY <2>2, InPairs
  <2>4. Read(q, 8) = Number(q, 8)
    <3>1. PICK c \in Int : c = q
      OBVIOUS
    <3>2. Read(c, 8) = Number(c, 8)
      BY <1>1, ReadNumber
    <3>3. QED
      BY <3>1, <3>2
  <2>5. at + 8 * (i - 1) = q
    BY <1>1, <1>2, <2>1
  <2>6. x \in 1 .. n
    BY <2>1
  <2>7. pairs[i] = Into(Read(at + 8 * (i - 1), 8),
                        IF i % 2 = 1 THEN <<"secret", nested[(i + 1) \div 2]>> ELSE <<"seed", 0>>)
    BY <1>10, <1>12 DEF Pairs
  <2>8. nested[x] = secrets[x]
    BY <1>11, <2>6
  <2>9. pairs[i] = Into(Number(q, 8), IF i % 2 = 1 THEN <<"secret", secrets[x]>> ELSE <<"seed", 0>>)
    BY <2>1, <2>4, <2>5, <2>7, <2>8
  <2>10. QED
    BY <2>1, <2>3, <2>9 DEF PairAt
<1>15. PairedFrom(pairs, m, n, rounds, lanes, secrets)
  BY <1>13, <1>14 DEF PairedFrom
<1>16. Paired(words, m, rounds, lanes, secrets)
  BY <1>0, <1>2, <1>3
<1>17. Paired(words \o pairs, m + n, rounds, lanes, secrets)
  BY <1>15, <1>16, MorePairs
<1>18. t = Ends(Number(len - 16, 8), Number(len - 8, 8))
  <2>1. len - 16 \in Int /\ len - 8 \in Int
    BY <1>1
  <2>2. QED
    BY <1>1, <2>1, ReadNumber
<1>19. IsFolded((words \o pairs) \o t, rounds, lanes, secrets)
  <2>1. PICK all \in Nat : all = m + n
    OBVIOUS
  <2>2. IsFolded((words \o pairs) \o Ends(Number(len - 16, 8), Number(len - 8, 8)),
                 rounds, lanes, secrets)
    BY <1>7, <1>17, <2>1, WithEnds
  <2>3. QED
    BY <1>18, <2>2
<1>20. Regroups(words, pairs, t)
  <2>1. Counts(words, 2 * m) /\ Counts(t, 2)
    BY <1>16, CountsEnds DEF Paired
  <2>2. QED
    BY <1>13, <2>1, Associates
<1>21. WordsExpected = FoldedWords(rounds, lanes, secrets)
  BY <1>0, <1>3, FoldedCases
<1>22. words' = words \o (pairs \o t)
  BY <1>0, <1>9, <1>12
<1>23. QED
  BY <1>19, <1>20, <1>21, <1>22, Zenon DEF IsFolded, Regroups

\* The rapidhashes, whose rounds leave something.
LEMMA LanesRound ==
    ASSUME Inv, InFold, kernel \in Folded, kernel # "wyhash", NEW lanes \in {3, 5, 7},
           lanes = FoldLanes, Round(lanes)
    PROVE InFold' /\ pc' = "loop"
<1>0. PICK t : t = LanePairs(lanes)
  OBVIOUS
<1>1. /\ pc = "loop" /\ call' = call /\ pc' = "loop" /\ rest > 16 * lanes
      /\ at' = at + (16 * lanes) /\ words' = words \o LanePairs(lanes)
  BY DEF Round, Take, Advance, Goto
<1>2. PICK n \in Nat : n = lanes * 1 /\ n = lanes
  <2>1. lanes \in Nat /\ lanes = lanes * 1
    OBVIOUS
  <2>2. QED
    BY <2>1
<1>3. Counts(t, 2 * n)
  <2>1. Counts(LanePairs(n), 2 * n)
    BY CountsLanes
  <2>2. QED
    BY <1>0, <1>2, <2>1
<1>4. ASSUME NEW i \in 1 .. 2 * n
      PROVE t[i] = Into(Read(at + 8 * (i - 1), 8), <<"see", (i - 1) % (2 * lanes)>>)
  <2>1. t[i] = Into(Read(at + 8 * (i - 1), 8), <<"see", i - 1>>)
    BY <1>0, <1>2 DEF LanePairs
  <2>2. (i - 1) % (2 * lanes) = i - 1
    BY <1>2
  <2>3. QED
    BY <2>1, <2>2
<1>5. rest > 16 * n /\ at' = at + (16 * n) /\ words' = words \o t /\ 1 \in {1, 2}
  BY <1>0, <1>1, <1>2
<1>6. InFold'
  BY <1>1, <1>2, <1>3, <1>4, <1>5, FoldRound
<1>7. QED
  BY <1>1, <1>6

LEMMA TwoRounds ==
    ASSUME Inv, InFold, UnrolledRound
    PROVE InFold' /\ pc' = "loop"
<1>0. kernel = "rapidhash" /\ kernel \in Folded /\ kernel # "wyhash" /\ FoldLanes = 7
  BY DEF UnrolledRound, Folded, Rapid, FoldLanes
<1>1. PICK t : t = [j \in 1 .. 28 |-> Into(Read(at + 8 * (j - 1), 8), <<"see", (j - 1) % 14>>)]
  OBVIOUS
<1>2. /\ pc = "loop" /\ call' = call /\ pc' = "loop" /\ rest > 224
      /\ at' = at + 224 /\ words' = words \o t
  BY <1>1 DEF UnrolledRound, Unrolled, Take, Advance, Goto
<1>3. PICK n \in Nat, lanes \in {3, 5, 7}, k \in {1, 2} :
        lanes = 7 /\ k = 2 /\ n = 14 /\ n = lanes * k /\ 2 * n = 28 /\ 16 * n = 224 /\ 2 * lanes = 14
  <2>1. 14 = 7 * 2 /\ 2 * 14 = 28 /\ 16 * 14 = 224 /\ 2 * 7 = 14 /\ 7 \in {3, 5, 7} /\ 2 \in {1, 2}
        /\ 14 \in Nat
    OBVIOUS
  <2>2. QED
    BY <2>1
<1>4. Counts(t, 2 * n)
  <2>1. PICK c \in Nat : c = 28
    OBVIOUS
  <2>2. t = [j \in 1 .. c |-> t[j]]
    BY <1>1, <2>1
  <2>3. Counts(t, c)
    BY <2>2, CountsFunction
  <2>4. QED
    BY <1>3, <2>1, <2>3
<1>5. ASSUME NEW i \in 1 .. 2 * n
      PROVE t[i] = Into(Read(at + 8 * (i - 1), 8), <<"see", (i - 1) % (2 * lanes)>>)
  BY <1>1, <1>3
<1>6. rest > 16 * n /\ at' = at + (16 * n) /\ lanes = FoldLanes
  BY <1>0, <1>2, <1>3
<1>7. InFold'
  BY <1>0, <1>2, <1>3, <1>4, <1>5, <1>6, FoldRound
<1>8. QED
  BY <1>2, <1>7

LEMMA RapidLast ==
    ASSUME Inv, InFold, kernel \in Folded, kernel # "wyhash", Rest(FoldLanes, FoldSecrets)
    PROVE words' = WordsExpected /\ pc' = "mix" /\ call' = call
<1>1. /\ pc = "loop" /\ call' = call /\ pc' = "mix" /\ rest <= 16 * FoldLanes
      /\ words' = words \o (Pairs(Nested(FoldSecrets))
                            \o Ends(Read(at + rest - 16, 8), Read(at + rest - 16 + 8, 8)))
  BY DEF Rest, Take, Goto
<1>2. at \in Nat /\ rest \in Nat /\ len \in Nat /\ at + rest = len
  BY <1>1, AtFold
<1>3. at + rest - 16 = len - 16 /\ at + rest - 16 + 8 = len - 8
  BY <1>2
<1>4. PICK t : t = Ends(Read(len - 16, 8), Read(len - 8, 8))
  OBVIOUS
<1>5. words' = words \o (Pairs(Nested(FoldSecrets)) \o t)
  BY <1>1, <1>3, <1>4
<1>6. words' = WordsExpected
  BY <1>1, <1>4, <1>5, FoldRest
<1>7. QED
  BY <1>1, <1>6

LEMMA GoLast ==
    ASSUME Inv, InFold, goRest
    PROVE words' = WordsExpected /\ pc' = "mix" /\ call' = call
<1>0. kernel = "rapidhash_go" /\ kernel \in Folded /\ kernel # "wyhash" /\ FoldLanes = 3
      /\ FoldSecrets = <<2, 2>>
  BY DEF goRest, Folded, Rapid, FoldLanes, FoldSecrets
<1>1. PICK t : t = Ends(Read(len - 16, 8), Read(len - 8, 8))
  OBVIOUS
<1>2. /\ pc = "loop" /\ call' = call /\ pc' = "mix" /\ rest <= 16 * FoldLanes
      /\ words' = words \o (Pairs(Nested(FoldSecrets)) \o t)
  BY <1>0, <1>1 DEF goRest, Take, Goto
<1>3. words' = WordsExpected
  BY <1>0, <1>1, <1>2, FoldRest
<1>4. QED
  BY <1>2, <1>3

\* How far wyhash may be: rounds first, then pairs.
WyCount(m, rounds) ==
    /\ m >= 3 * rounds \/ m % 3 = 0
    /\ 16 * m < len \/ (16 * m = len /\ m = 3 * rounds)

LEMMA WyFold ==
    ASSUME Inv, InFold, kernel = "wyhash", pc = "loop"
    PROVE \E m \in Nat, rounds \in Nat :
            /\ at = 16 * m /\ rounds = FoldRounds /\ rounds = len \div 48
            /\ Paired(words, m, rounds, 3, FoldSecrets) /\ WyCount(m, rounds)
<1>1. FoldLanes = 3 /\ FoldSecrets = <<1, 1>> /\ FoldRounds = len \div 48 /\ kernel \in Folded
  BY FoldedCases DEF Folded
<1>2. PICK m \in Nat : /\ at = 16 * m
                       /\ Paired(words, m, FoldRounds, FoldLanes, FoldSecrets)
                       /\ m >= 3 * FoldRounds \/ m % 3 = 0
                       /\ 16 * m < len \/ (16 * m = len /\ m = 3 * FoldRounds)
  BY <1>1 DEF InFold
<1>3. FoldRounds \in Nat
  BY <1>1, AtFold
<1>4. PICK rounds \in Nat : rounds = FoldRounds
  BY <1>3
<1>5. Paired(words, m, rounds, 3, FoldSecrets) /\ WyCount(m, rounds)
  BY <1>1, <1>2, <1>4 DEF WyCount
<1>6. QED
  BY <1>1, <1>2, <1>4, <1>5

LEMMA WyStep ==
    ASSUME Inv, kernel = "wyhash", pc = "loop", call' = call, NEW rounds \in Nat, rounds = FoldRounds,
           NEW secrets, secrets = FoldSecrets, NEW m \in Nat, NEW n \in Nat, NEW t, words' = words \o t,
           Paired(words, m, rounds, 3, secrets), PairedFrom(t, m, n, rounds, 3, secrets),
           at' = 16 * (m + n), WyCount(m + n, rounds)
    PROVE InFold'
<1>1. FoldLanes = 3 /\ kernel \in Folded
  BY FoldedCases DEF Folded
<1>2. Paired(words \o t, m + n, rounds, 3, secrets)
  BY MorePairs
<1>3. Paired(words \o t, m + n, FoldRounds, FoldLanes, FoldSecrets)
  BY <1>1, <1>2
<1>4. Paired(words, m + n, FoldRounds, FoldLanes, FoldSecrets)'
  BY <1>3, PairedNext
<1>5. kernel' = "wyhash" /\ len' = len /\ FoldRounds' = rounds
  BY FoldKept
<1>6. /\ m + n >= 3 * FoldRounds' \/ (m + n) % 3 = 0
      /\ 16 * (m + n) < len' \/ (16 * (m + n) = len' /\ m + n = 3 * FoldRounds')
  BY <1>5 DEF WyCount
<1>7. m + n \in Nat
  OBVIOUS
<1>8. QED
  BY <1>4, <1>5, <1>6, <1>7 DEF InFold

LEMMA WyRound ==
    ASSUME Inv, InFold, wyhashRound
    PROVE InFold' /\ pc' = "loop"
<1>1. /\ kernel = "wyhash" /\ pc = "loop" /\ call' = call /\ pc' = "loop" /\ rest >= 48
      /\ at' = at + 48 /\ words' = words \o LanePairs(3) /\ kernel \in Folded
  BY DEF wyhashRound, Take, Advance, Goto, Folded
<1>2. call \in Calls /\ len \in Nat /\ rest \in Nat /\ at + rest = len
  BY <1>1, AtFold
<1>0. PICK secrets : secrets = FoldSecrets /\ secrets = <<1, 1>> /\ FoldLanes = 3
  BY <1>1, FoldedCases
<1>3. PICK m \in Nat, rounds \in Nat :
            /\ at = 16 * m /\ rounds = FoldRounds /\ rounds = len \div 48
            /\ Paired(words, m, rounds, 3, secrets) /\ WyCount(m, rounds)
  BY <1>0, <1>1, WyFold
<1>4. PICK r \in Nat, size \in Nat : m = 3 * r /\ r + 1 <= rounds /\ size = len
  <2>1. PICK size \in Nat : size = len
    BY <1>2
  <2>2. size >= (16 * m) + 48 /\ rounds = size \div 48
    BY <1>1, <1>2, <1>3, <2>1
  <2>3. m % 3 = 0
    BY <1>3, <2>2 DEF WyCount
  <2>4. m = 3 * (m \div 3) /\ m \div 3 \in Nat /\ (m \div 3) + 1 <= rounds
    BY <2>2, <2>3
  <2>5. QED
    BY <2>1, <2>4
<1>5. PICK t : t = LanePairs(3)
  OBVIOUS
<1>6. Counts(t, 6)
  <2>1. PICK n \in Nat : n = 3
    OBVIOUS
  <2>2. Counts(LanePairs(n), 2 * n)
    BY CountsLanes
  <2>3. QED
    BY <1>5, <2>1, <2>2
<1>7. ASSUME NEW i \in 1 .. 6 PROVE t[i] = FoldedAt(rounds, 3, secrets, (2 * m) + i)
  <2>1. PICK lanes \in {3, 5, 7}, k \in {1, 2}, y \in Nat : lanes = 3 /\ k = 1 /\ y = i
    OBVIOUS
  <2>2. PICK j \in Nat, q \in Nat, lane \in Nat :
          j = (2 * m) + i /\ q = (16 * m) + (8 * (i - 1)) /\ lane = i - 1
    <3>1. (2 * m) + i \in Nat /\ (16 * m) + (8 * (i - 1)) \in Nat /\ i - 1 \in Nat
      OBVIOUS
    <3>2. QED
      BY <3>1
  <2>3. /\ 1 <= y /\ y <= 2 * (lanes * k) /\ j = (2 * (lanes * r)) + y /\ r + k <= rounds
        /\ q = (16 * (lanes * r)) + (8 * (y - 1)) /\ lane = (y - 1) % (2 * lanes)
    BY <1>4, <2>1, <2>2
  <2>4. SeesAt(rounds, lanes, secrets, j, q, lane)
    BY <2>3, InRounds
  <2>5. Read(q, 8) = Number(q, 8)
    <3>1. PICK c \in Int : c = q
      OBVIOUS
    <3>2. Read(c, 8) = Number(c, 8)
      BY <1>1, <1>2, ReadNumber
    <3>3. QED
      BY <3>1, <3>2
  <2>6. at + 8 * (i - 1) = q
    BY <1>3, <2>2
  <2>7. t[i] = Into(Read(at + 8 * (i - 1), 8), <<"see", i - 1>>)
    BY <1>5 DEF LanePairs
  <2>8. t[i] = Into(Number(q, 8), <<"see", lane>>)
    BY <2>2, <2>5, <2>6, <2>7
  <2>9. QED
    BY <2>1, <2>2, <2>4, <2>8 DEF SeesAt
<1>8. PICK n \in Nat : n = 3
  OBVIOUS
<1>9. PairedFrom(t, m, n, rounds, 3, secrets)
  BY <1>6, <1>7, <1>8 DEF PairedFrom
<1>10. at' = 16 * (m + n) /\ words' = words \o t
  BY <1>1, <1>3, <1>5, <1>8
<1>11. WyCount(m + n, rounds)
  <2>1. (m + n) % 3 = 0
    BY <1>4, <1>8
  <2>2. 16 * (m + n) <= size
    BY <1>1, <1>2, <1>3, <1>4, <1>8
  <2>3. 16 * (m + n) = size => m + n = 3 * rounds
    BY <1>3, <1>4, <1>8
  <2>4. QED
    BY <1>4, <2>1, <2>2, <2>3 DEF WyCount
<1>12. InFold'
  BY <1>0, <1>1, <1>3, <1>9, <1>10, <1>11, WyStep
<1>13. QED
  BY <1>1, <1>12

LEMMA WyPair ==
    ASSUME Inv, InFold, wyhashPair
    PROVE InFold' /\ pc' = "loop"
<1>1. /\ kernel = "wyhash" /\ pc = "loop" /\ call' = call /\ pc' = "loop" /\ rest > 16 /\ rest < 48
      /\ at' = at + 16 /\ words' = words \o Pairs(<<1>>) /\ kernel \in Folded
  BY DEF wyhashPair, Take, Advance, Goto, Folded
<1>2. call \in Calls /\ len \in Nat /\ rest \in Nat /\ at + rest = len
  BY <1>1, AtFold
<1>0. PICK secrets : secrets = FoldSecrets /\ secrets = <<1, 1>> /\ FoldLanes = 3
  BY <1>1, FoldedCases
<1>3. PICK m \in Nat, rounds \in Nat :
            /\ at = 16 * m /\ rounds = FoldRounds /\ rounds = len \div 48
            /\ Paired(words, m, rounds, 3, secrets) /\ WyCount(m, rounds)
  BY <1>0, <1>1, WyFold
<1>4. PICK size \in Nat : /\ size = len /\ rounds = size \div 48
                          /\ size > (16 * m) + 16 /\ size < (16 * m) + 48
  BY <1>1, <1>2, <1>3
<1>5. PICK extra \in {0, 1} : m = (3 * rounds) + extra
  <2>1. m >= 3 * rounds
    BY <1>3, <1>4 DEF WyCount
  <2>2. m - (3 * rounds) \in {0, 1} /\ m = (3 * rounds) + (m - (3 * rounds))
    BY <1>4, <2>1
  <2>3. QED
    BY <2>2
<1>6. PICK t : t = Pairs(<<1>>)
  OBVIOUS
<1>7. Counts(t, 2)
  <2>1. PICK one \in Seq(Nat) : one = <<1>> /\ Len(one) = 1
    <3>1. <<1>> \in Seq(Nat) /\ Len(<<1>>) = 1
      OBVIOUS
    <3>2. QED
      BY <3>1
  <2>2. Counts(Pairs(one), 2 * Len(one))
    BY CountsPairs
  <2>3. QED
    BY <1>6, <2>1, <2>2
<1>8. ASSUME NEW i \in 1 .. 2 PROVE t[i] = FoldedAt(rounds, 3, secrets, (2 * m) + i)
  <2>1. PICK lanes \in {3, 5, 7}, e \in Nat, y \in Nat : lanes = 3 /\ e = extra /\ y = i
    OBVIOUS
  <2>2. PICK j \in Nat, q \in Nat, x \in Nat :
          j = (2 * m) + i /\ q = (16 * m) + (8 * (i - 1)) /\ x = extra + ((i + 1) \div 2)
    <3>1. (2 * m) + i \in Nat /\ (16 * m) + (8 * (i - 1)) \in Nat /\ extra + ((i + 1) \div 2) \in Nat
      OBVIOUS
    <3>2. QED
      BY <3>1
  <2>3. /\ m = (lanes * rounds) + e /\ 1 <= y /\ j = (2 * m) + y
        /\ q = (16 * m) + (8 * (y - 1)) /\ x = e + ((y + 1) \div 2)
    BY <1>5, <2>1, <2>2
  <2>4. PairAt(rounds, lanes, secrets, j, q, y, x)
    BY <2>3, InPairs
  <2>5. Read(q, 8) = Number(q, 8)
    <3>1. PICK c \in Int : c = q
      OBVIOUS
    <3>2. Read(c, 8) = Number(c, 8)
      BY <1>1, <1>2, ReadNumber
    <3>3. QED
      BY <3>1, <3>2
  <2>6. at + 8 * (i - 1) = q
    BY <1>3, <2>2
  <2>7. t[i] = Into(Read(at + 8 * (i - 1), 8), IF i % 2 = 1 THEN <<"secret", 1>> ELSE <<"seed", 0>>)
    <3>1. t[i] = Into(Read(at + 8 * (i - 1), 8),
                      IF i % 2 = 1 THEN <<"secret", <<1>>[(i + 1) \div 2]>> ELSE <<"seed", 0>>)
      BY <1>6 DEF Pairs
    <3>2. (i + 1) \div 2 = 1 /\ <<1>>[1] = 1
      OBVIOUS
    <3>3. QED
      BY <3>1, <3>2
  <2>8. i % 2 = 1 => secrets[x] = 1
    <3>1. i % 2 = 1 => x \in {1, 2}
      BY <2>2
    <3>2. secrets[1] = 1 /\ secrets[2] = 1
      BY <1>0
    <3>3. QED
      BY <3>1, <3>2
  <2>9. QED
    BY <2>1, <2>2, <2>4, <2>5, <2>6, <2>7, <2>8 DEF PairAt
<1>9. PICK n \in Nat : n = 1
  OBVIOUS
<1>10. PairedFrom(t, m, n, rounds, 3, secrets)
  BY <1>7, <1>8, <1>9 DEF PairedFrom
<1>11. at' = 16 * (m + n) /\ words' = words \o t
  BY <1>1, <1>3, <1>6, <1>9
<1>12. WyCount(m + n, rounds)
  BY <1>4, <1>5, <1>9 DEF WyCount
<1>13. InFold'
  BY <1>0, <1>1, <1>3, <1>10, <1>11, <1>12, WyStep
<1>14. QED
  BY <1>1, <1>13

LEMMA WyLast ==
    ASSUME Inv, InFold, wyhashLast
    PROVE words' = WordsExpected /\ pc' = "mix" /\ call' = call
<1>1. /\ kernel = "wyhash" /\ pc = "loop" /\ call' = call /\ pc' = "mix" /\ rest <= 16
      /\ words' = words \o Ends(Read(at + rest - 16, 8), Read(at + rest - 16 + 8, 8))
      /\ kernel \in Folded
  BY DEF wyhashLast, NoMorePairs, Take, Goto, Folded
<1>2. call \in Calls /\ len \in Nat /\ at \in Nat /\ rest \in Nat /\ at + rest = len
  BY <1>1, AtFold
<1>0. PICK secrets : secrets = FoldSecrets /\ secrets = <<1, 1>> /\ FoldLanes = 3
  BY <1>1, FoldedCases
<1>3. PICK m \in Nat, rounds \in Nat :
            /\ at = 16 * m /\ rounds = FoldRounds /\ rounds = len \div 48
            /\ Paired(words, m, rounds, 3, secrets) /\ WyCount(m, rounds)
  BY <1>0, <1>1, WyFold
<1>4. m = FoldedPairs(rounds, 3)
  <2>1. PICK size \in Nat : size = len
    BY <1>2
  <2>2. /\ rounds = size \div 48 /\ size >= 16 * m /\ size <= (16 * m) + 16
        /\ m >= 3 * rounds \/ m % 3 = 0
        /\ 16 * m < size \/ (16 * m = size /\ m = 3 * rounds)
    BY <1>1, <1>2, <1>3, <2>1 DEF WyCount
  <2>3. m = IF rounds * 16 * 3 = size THEN size \div 16 ELSE (size - 1) \div 16
    BY <2>2
  <2>4. QED
    BY <2>1, <2>3 DEF FoldedPairs
<1>5. at + rest - 16 = len - 16 /\ at + rest - 16 + 8 = len - 8
  BY <1>2
<1>6. Read(len - 16, 8) = Number(len - 16, 8) /\ Read(len - 8, 8) = Number(len - 8, 8)
  <2>1. len - 16 \in Int /\ len - 8 \in Int
    BY <1>2
  <2>2. QED
    BY <1>1, <1>2, <2>1, ReadNumber
<1>7. IsFolded(words \o Ends(Number(len - 16, 8), Number(len - 8, 8)), rounds, 3, secrets)
  BY <1>3, <1>4, WithEnds
<1>8. WordsExpected = FoldedWords(rounds, 3, secrets)
  BY <1>0, <1>1, <1>3, FoldedCases
<1>9. words' = words \o Ends(Number(len - 16, 8), Number(len - 8, 8))
  BY <1>1, <1>5, <1>6
<1>10. QED
  BY <1>1, <1>7, <1>8, <1>9 DEF IsFolded

-----------------------------------------------------------------------------
(* All kernels together.                                                   *)

WordsInv == InMemory /\ InStream /\ InFold /\ WordsInPlace

LEMMA ExpectedOf ==
    /\ kernel \in T1ha1 \cup StandIns => WordsExpected = T1haWords(len, WholeBlocks, T1HA1_Lanes)
    /\ kernel \in T1ha2 => WordsExpected = T1haWords(len, WholeBlocks, Lanes2)
    /\ kernel \in T1ha2Stream => WordsExpected = T1haWords(len + 8, (len + 8) \div 32, Lanes2)
<1>1. CASE kernel \in T1ha1 \cup StandIns
  <2>1. LanesOf = T1HA1_Lanes
    BY <1>1 DEF LanesOf, T1ha1, T1ha2, T1ha2Stream, StandIns
  <2>2. kernel \notin T1ha2 /\ kernel \notin T1ha2Stream
        /\ kernel \notin {"rapidhash", "rapidhashMicro", "rapidhashNano", "rapidhash_go", "wyhash"}
    BY <1>1 DEF T1ha1, StandIns, T1ha2, T1ha2Stream
  <2>3. WordsExpected = T1haWords(len, WholeBlocks, T1HA1_Lanes)
    BY <1>1, <2>1, <2>2 DEF WordsExpected, WholeBlocks
  <2>4. QED
    BY <1>1, <2>2, <2>3
<1>2. CASE kernel \in T1ha2
  <2>1. LanesOf = Lanes2
    BY <1>2 DEF LanesOf, Lanes2, T1ha1, T1ha2, T1ha2Stream, StandIns
  <2>2. kernel \notin T1ha1 \cup StandIns /\ kernel \notin T1ha2Stream
        /\ kernel \notin {"rapidhash", "rapidhashMicro", "rapidhashNano", "rapidhash_go", "wyhash"}
    BY <1>2 DEF T1ha1, StandIns, T1ha2, T1ha2Stream
  <2>3. WordsExpected = T1haWords(len, WholeBlocks, Lanes2)
    BY <1>2, <2>1, <2>2 DEF WordsExpected, WholeBlocks
  <2>4. QED
    BY <1>2, <2>2, <2>3
<1>3. CASE kernel \in T1ha2Stream
  <2>1. LanesOf = Lanes2
    BY <1>3 DEF LanesOf, Lanes2, T1ha1, T1ha2, T1ha2Stream, StandIns
  <2>2. kernel \notin T1ha1 \cup T1ha2 \cup StandIns
        /\ kernel \notin {"rapidhash", "rapidhashMicro", "rapidhashNano", "rapidhash_go", "wyhash"}
    BY <1>3 DEF T1ha1, StandIns, T1ha2, T1ha2Stream
  <2>3. WordsExpected = T1haWords(len + 8, (len + 8) \div 32, Lanes2)
    BY <1>3, <2>1, <2>2 DEF WordsExpected, WholeBlocks
  <2>4. QED
    BY <1>3, <2>2, <2>3
<1>4. QED
  BY <1>1, <1>2, <1>3

\* The words are complete.
LEMMA WordsComplete ==
    ASSUME call' = call, pc' = "mix", words' = WordsExpected
    PROVE WordsInv'
<1>1. words' = WordsExpected'
  BY ExpectedKept
<1>2. QED
  BY <1>1 DEF WordsInv, InMemory, InStream, InFold, WordsInPlace

LEMMA WordsT1ha ==
    ASSUME Inv, WordsInv, call' = call, T1haNext
    PROVE WordsInv'
<1>1. kernel' = kernel
  BY CallKept
<1>2. ASSUME kernel \in Whole1, InMemory', pc' # "mix" PROVE WordsInv'
  <2>1. kernel' \notin T1ha2Stream /\ kernel' \notin Folded
    BY <1>1, <1>2, Apart
  <2>2. QED
    BY <1>2, <2>1 DEF WordsInv, InStream, InFold, WordsInPlace
<1>3. ASSUME kernel \in T1ha2Stream, InStream', pc' = "loop" PROVE WordsInv'
  <2>1. kernel' \notin Whole1 /\ kernel' \notin Folded
    BY <1>1, <1>3, Apart
  <2>2. QED
    BY <1>3, <2>1 DEF WordsInv, InMemory, InFold, WordsInPlace
<1>4. CASE t1ha1_le \/ t1ha1_be \/ t1ha2_atonce \/ t1ha2_atonce128
  <2>1. Begin /\ kernel \in Whole1
    BY <1>4 DEF t1ha1_le, t1ha1_be, t1ha2_atonce, t1ha2_atonce128, Whole1, T1ha1, T1ha2
  <2>2. QED
    BY <1>2, <2>1, MemoryBegin
<1>5. CASE T1HA1_Loop
  <2>1. kernel \in Whole1 /\ Loop(OrderOf)
    BY <1>5 DEF T1HA1_Loop, Order1, OrderOf, Whole1
  <2>2. QED
    BY <1>2, <2>1, MemoryLoop DEF WordsInv
<1>6. CASE T1HA2_LOOP
  <2>1. kernel \in Whole1 /\ OrderOf = "little"
    BY <1>6 DEF T1HA2_LOOP, OrderOf, Whole1, T1ha2
  <2>2. Loop(OrderOf)
    BY <1>6, <2>1 DEF T1HA2_LOOP
  <2>3. QED
    BY <1>2, <2>1, <2>2, MemoryLoop DEF WordsInv
<1>7. CASE T1HA1_Tail
  <2>1. PICK lanes : lanes = T1HA1_Lanes
    OBVIOUS
  <2>2. kernel \in T1ha1 /\ Finish(OrderOf, lanes)
    BY <1>7, <2>1 DEF T1HA1_Tail, Order1, OrderOf
  <2>3. words' = T1haWords(len, WholeBlocks, lanes) /\ pc' = "mix"
    BY <2>2, MemoryFinish DEF WordsInv
  <2>4. QED
    BY <2>1, <2>2, <2>3, ExpectedOf, WordsComplete
<1>8. CASE T1HA2_Tail
  <2>1. PICK lanes : lanes = Lanes2
    OBVIOUS
  <2>2. kernel \in T1ha2 /\ OrderOf = "little"
    BY <1>8 DEF T1HA2_Tail, OrderOf, T1ha2
  <2>3. Finish(OrderOf, lanes)
    BY <1>8, <2>1, <2>2 DEF T1HA2_Tail
  <2>4. words' = T1haWords(len, WholeBlocks, lanes) /\ pc' = "mix"
    BY <2>3, MemoryFinish DEF WordsInv
  <2>5. QED
    BY <2>1, <2>2, <2>4, ExpectedOf, WordsComplete
<1>9. CASE t1ha2_init
  <2>1. kernel \in T1ha2Stream /\ pc' = "loop"
    BY <1>9 DEF t1ha2_init, Goto
  <2>2. QED
    BY <1>3, <1>9, <2>1, StreamBegin
<1>10. CASE \E n \in Pieces : t1ha2_update(n)
  <2>1. PICK n \in Pieces : t1ha2_update(n)
    BY <1>10
  <2>2. kernel \in T1ha2Stream /\ pc' = "loop"
    BY <2>1 DEF t1ha2_update, Goto
  <2>3. QED
    BY <1>3, <2>1, <2>2, StreamUpdate DEF WordsInv
<1>11. CASE t1ha2_final
  <2>1. kernel \in T1ha2Stream
    BY <1>11 DEF t1ha2_final
  <2>2. words' = T1haWords(len + 8, (len + 8) \div 32, Lanes2) /\ pc' = "mix"
    BY <1>11, StreamFinish DEF WordsInv
  <2>3. QED
    BY <2>1, <2>2, ExpectedOf, WordsComplete
<1>12. QED
  BY <1>4, <1>5, <1>6, <1>7, <1>8, <1>9, <1>10, <1>11 DEF T1haNext

LEMMA WordsFold ==
    ASSUME Inv, WordsInv, call' = call, RapidWyNext
    PROVE WordsInv'
<1>1. kernel' = kernel /\ len' = len
  BY CallKept
<1>2. ASSUME kernel \in Folded, InFold', pc' = "loop" PROVE WordsInv'
  <2>1. kernel' \notin Whole1 /\ kernel' \notin T1ha2Stream
    BY <1>1, <1>2, Apart
  <2>2. QED
    BY <1>2, <2>1 DEF WordsInv, InMemory, InStream, WordsInPlace
<1>3. ASSUME NEW lanes \in {3, 5, 7}, lanes = FoldLanes, kernel \in Folded, kernel # "wyhash",
             Round(lanes)
      PROVE WordsInv'
  BY <1>2, <1>3, LanesRound DEF WordsInv
<1>4. ASSUME kernel \in Folded, kernel # "wyhash", Rest(FoldLanes, FoldSecrets) PROVE WordsInv'
  BY <1>4, RapidLast, WordsComplete DEF WordsInv
<1>5. CASE Long
  <2>1. kernel \in Folded /\ pc' = "loop"
    BY <1>5 DEF Long, Goto
  <2>2. QED
    BY <1>2, <1>5, <2>1, FoldBegin
<1>6. CASE RapidShort \/ wyhashShort \/ goShort
  <2>1. kernel' \in Folded /\ len' <= 16 /\ pc' = "mix"
    BY <1>1, <1>6 DEF RapidShort, wyhashShort, goShort, Short, Goto, Folded
  <2>2. QED
    BY <2>1 DEF WordsInv, InMemory, InStream, InFold, WordsInPlace
<1>7. CASE UnrolledRound
  <2>1. kernel \in Folded
    BY <1>7 DEF UnrolledRound, Folded, Rapid
  <2>2. QED
    BY <1>2, <1>7, <2>1, TwoRounds DEF WordsInv
<1>8. CASE rapidhashRound \/ rapidhashRest
  <2>1. /\ kernel \in Folded /\ kernel # "wyhash" /\ FoldLanes = 7
        /\ FoldSecrets = <<2, 2, 1, 1, 2, 1>>
    BY <1>8 DEF rapidhashRound, rapidhashRest, Folded, Rapid, FoldLanes, FoldSecrets
  <2>2. CASE rapidhashRound
    <3>1. PICK lanes \in {3, 5, 7} : lanes = 7
      OBVIOUS
    <3>2. Round(lanes)
      BY <2>2, <3>1 DEF rapidhashRound
    <3>3. QED
      BY <1>3, <2>1, <3>1, <3>2
  <2>3. CASE rapidhashRest
    <3>1. Rest(FoldLanes, FoldSecrets)
      BY <2>1, <2>3 DEF rapidhashRest
    <3>2. QED
      BY <1>4, <2>1, <3>1
  <2>4. QED
    BY <1>8, <2>2, <2>3
<1>9. CASE rapidhashMicroRound \/ rapidhashMicroRest
  <2>1. /\ kernel \in Folded /\ kernel # "wyhash" /\ FoldLanes = 5
        /\ FoldSecrets = <<2, 2, 1, 1>>
    BY <1>9 DEF rapidhashMicroRound, rapidhashMicroRest, Folded, Rapid, FoldLanes, FoldSecrets
  <2>2. CASE rapidhashMicroRound
    <3>1. PICK lanes \in {3, 5, 7} : lanes = 5
      OBVIOUS
    <3>2. Round(lanes)
      BY <2>2, <3>1 DEF rapidhashMicroRound
    <3>3. QED
      BY <1>3, <2>1, <3>1, <3>2
  <2>3. CASE rapidhashMicroRest
    <3>1. Rest(FoldLanes, FoldSecrets)
      BY <2>1, <2>3 DEF rapidhashMicroRest
    <3>2. QED
      BY <1>4, <2>1, <3>1
  <2>4. QED
    BY <1>9, <2>2, <2>3
<1>10. CASE rapidhashNanoRound \/ rapidhashNanoRest \/ goRound
  <2>1. kernel \in Folded /\ kernel # "wyhash" /\ FoldLanes = 3 /\ FoldSecrets = <<2, 2>>
    BY <1>10 DEF rapidhashNanoRound, rapidhashNanoRest, goRound, Folded, Rapid, FoldLanes,
                 FoldSecrets
  <2>2. CASE rapidhashNanoRound \/ goRound
    <3>1. PICK lanes \in {3, 5, 7} : lanes = 3
      OBVIOUS
    <3>2. Round(lanes)
      BY <2>2, <3>1 DEF rapidhashNanoRound, goRound
    <3>3. QED
      BY <1>3, <2>1, <3>1, <3>2
  <2>3. CASE rapidhashNanoRest
    <3>1. Rest(FoldLanes, FoldSecrets)
      BY <2>1, <2>3 DEF rapidhashNanoRest
    <3>2. QED
      BY <1>4, <2>1, <3>1
  <2>4. QED
    BY <1>10, <2>2, <2>3
<1>11. CASE goRest
  BY <1>11, GoLast, WordsComplete DEF WordsInv
<1>12. CASE wyhashRound \/ wyhashPair
  <2>1. kernel \in Folded
    BY <1>12 DEF wyhashRound, wyhashPair, Folded
  <2>2. QED
    BY <1>2, <1>12, <2>1, WyRound, WyPair DEF WordsInv
<1>13. CASE wyhashLast
  BY <1>13, WyLast, WordsComplete DEF WordsInv
<1>14. QED
  BY <1>5, <1>6, <1>7, <1>8, <1>9, <1>10, <1>11, <1>12, <1>13 DEF RapidWyNext

LEMMA WordsKept ==
    ASSUME Inv, WordsInv, UNCHANGED vars
    PROVE WordsInv'
<1>1. /\ call' = call /\ pc' = pc /\ at' = at /\ words' = words /\ buffer' = buffer
      /\ partial' = partial
  BY DEF vars, file, input, context
<1>2. kernel' = kernel /\ len' = len
  BY <1>1, CallKept
<1>3. WholeBlocks' = WholeBlocks
  BY <1>2 DEF WholeBlocks
<1>4. \A b : Blocked(words, b) => Blocked(words, b)'
  BY <1>1, BlockedNext
<1>5. InMemory'
  <2>1. Blocked(words, WholeBlocks) => Blocked(words, WholeBlocks)'
    <3>1. PICK b : b = WholeBlocks
      OBVIOUS
    <3>2. Blocked(words, b) => Blocked(words, b)'
      BY <1>4
    <3>3. QED
      BY <1>3, <3>1, <3>2 DEF Blocked
  <2>2. QED
    BY <1>1, <1>2, <1>3, <1>4, <2>1 DEF WordsInv, InMemory
<1>6. InStream'
  <2>1. \A c, n : Fills(buffer, c, n)' <=> Fills(buffer', c, n')
    BY DEF Fills
  <2>2. QED
    BY <1>1, <1>2, <1>4 DEF WordsInv, InStream, Fills
<1>7. InFold'
  <2>1. /\ FoldRounds' = FoldRounds /\ FoldLanes' = FoldLanes
    BY <1>1, FoldKept
  <2>2. \A m : Paired(words, m, FoldRounds, FoldLanes, FoldSecrets)
                  => Paired(words, m, FoldRounds, FoldLanes, FoldSecrets)'
    BY <1>1, PairedNext
  <2>3. QED
    BY <1>1, <1>2, <2>1, <2>2 DEF WordsInv, InFold
<1>8. WordsInPlace'
  BY <1>1, <1>2, ExpectedKept DEF WordsInv, WordsInPlace
<1>9. QED
  BY <1>5, <1>6, <1>7, <1>8 DEF WordsInv

LEMMA WordsNext == Inv /\ WordsInv /\ [Step]_vars => WordsInv'
<1> SUFFICES ASSUME Inv, WordsInv, [Step]_vars PROVE WordsInv'
  OBVIOUS
<1>1. call' = call
  BY CallNeverChanges DEF vars
<1>2. CASE UNCHANGED vars
  BY <1>2, WordsKept
<1>3. CASE Open \/ Fail \/ Elsewhere \/ UnknownAlgorithm \/ \E a, b \in Operands : Return(a, b)
  <2>1. pc' \in {"start", "failed", "done"}
    BY <1>3 DEF Open, Fail, Elsewhere, UnknownAlgorithm, Return, Goto
  <2>2. QED
    BY <2>1 DEF WordsInv, InMemory, InStream, InFold, WordsInPlace
<1>4. CASE StandIn
  <2>1. kernel \in StandIns
    BY <1>4 DEF StandIn
  <2>2. words' = T1haWords(len, WholeBlocks, T1HA1_Lanes) /\ pc' = "mix"
    BY <1>4, StandInWords
  <2>3. QED
    BY <1>1, <2>1, <2>2, ExpectedOf, WordsComplete
<1>5. CASE T1haNext
  BY <1>1, <1>5, WordsT1ha
<1>6. CASE RapidWyNext
  BY <1>1, <1>6, WordsFold
<1>7. QED
  BY <1>2, <1>3, <1>4, <1>5, <1>6 DEF Step

LEMMA WordsAlways == Spec => [](Inv /\ WordsInv)
<1>1. Init => WordsInv
  BY DEF Init, WordsInv, InMemory, InStream, InFold, WordsInPlace
<1>2. QED
  BY <1>1, InvInit, InvNext, WordsNext, StepOnly, PTL DEF Spec

(* For files of every length, at every address, on every machine, and for  *)
(* a stream in whatever pieces: the words are those of the file, in order  *)
(* and each for its lane.                                                  *)
THEOREM WordsAlwaysInPlace == Spec => []WordsInPlace
<1>1. WordsInv => WordsInPlace
  BY DEF WordsInv
<1>2. QED
  BY <1>1, WordsAlways, PTL

-----------------------------------------------------------------------------
(* Every byte is read: of what the words are made.                         *)

\* w has the bytes of the set s, no two in a place.
Made(w, s) ==
    /\ \A k \in Places : w[k] \subseteq s
    /\ \A x \in s : \E k \in Places : x \in w[k]
    /\ \A k \in Places : \A x, y \in w[k] : x = y

\* So have the words of ws together.
Reads(ws, s) ==
    /\ \A j \in DOMAIN ws : Made(ws[j].word, BytesOf(ws[j].word)) /\ BytesOf(ws[j].word) \subseteq s
    /\ \A x \in s : \E j \in DOMAIN ws : x \in BytesOf(ws[j].word)

LEMMA MadeOf ==
    ASSUME NEW w, NEW s, Made(w, s)
    PROVE BytesOf(w) = s
<1>1. ASSUME NEW x \in BytesOf(w) PROVE x \in s
  <2>1. PICK k \in Places : x \in w[k]
    BY DEF BytesOf
  <2>2. QED
    BY <2>1 DEF Made
<1>2. ASSUME NEW x \in s PROVE x \in BytesOf(w)
  BY Zenon DEF Made, BytesOf
<1>3. QED
  BY <1>1, <1>2

LEMMA ReadsAll ==
    ASSUME NEW ws, NEW s, Reads(ws, s)
    PROVE /\ UNION {BytesOf(ws[j].word) : j \in DOMAIN ws} = s
          /\ \A j \in DOMAIN ws : \A k \in Places : \A x, y \in ws[j].word[k] : x = y
<1>1. ASSUME NEW x \in UNION {BytesOf(ws[j].word) : j \in DOMAIN ws} PROVE x \in s
  BY Zenon DEF Reads
<1>2. ASSUME NEW x \in s PROVE x \in UNION {BytesOf(ws[j].word) : j \in DOMAIN ws}
  BY Zenon DEF Reads
<1>3. \A j \in DOMAIN ws : \A k \in Places : \A x, y \in ws[j].word[k] : x = y
  BY Zenon DEF Reads, Made
<1>4. UNION {BytesOf(ws[j].word) : j \in DOMAIN ws} = s
  BY <1>1, <1>2
<1>5. QED
  BY <1>3, <1>4

LEMMA NumberMade ==
    ASSUME NEW p \in Int, NEW n \in 1 .. 8
    PROVE Made(Number(p, n), p .. p + n - 1)
<1>1. PICK w : w = Number(p, n)
  OBVIOUS
<1>2. CASE kernel = "t1ha1_be"
  <2>1. \A k \in Places : w[k] = IF k >= n THEN {} ELSE {p + n - 1 - k}
    BY <1>1, <1>2 DEF Number
  <2>2. ASSUME NEW x \in p .. p + n - 1 PROVE \E k \in Places : x \in w[k]
    <3>1. p + n - 1 - x \in Places /\ ~(p + n - 1 - x >= n) /\ x = p + n - 1 - (p + n - 1 - x)
      BY DEF Places
    <3>2. QED
      BY <2>1, <3>1
  <2>3. \A k \in Places : w[k] \subseteq p .. p + n - 1
    BY <2>1 DEF Places
  <2>4. \A k \in Places : \A x, y \in w[k] : x = y
    BY <2>1
  <2>5. QED
    BY <1>1, <2>2, <2>3, <2>4 DEF Made
<1>3. CASE kernel # "t1ha1_be"
  <2>1. \A k \in Places : w[k] = IF k >= n THEN {} ELSE {p + k}
    BY <1>1, <1>3 DEF Number
  <2>2. ASSUME NEW x \in p .. p + n - 1 PROVE \E k \in Places : x \in w[k]
    <3>1. x - p \in Places /\ ~(x - p >= n) /\ x = p + (x - p)
      BY DEF Places
    <3>2. QED
      BY <2>1, <3>1
  <2>3. \A k \in Places : w[k] \subseteq p .. p + n - 1
    BY <2>1 DEF Places
  <2>4. \A k \in Places : \A x, y \in w[k] : x = y
    BY <2>1
  <2>5. QED
    BY <1>1, <2>2, <2>3, <2>4 DEF Made
<1>4. QED
  BY <1>2, <1>3

LEMMA LittleMade ==
    ASSUME NEW p \in Int, NEW n \in 1 .. 8
    PROVE Made(Little(p, n), p .. p + n - 1)
<1>1. PICK w : w = Little(p, n)
  OBVIOUS
<1>2. \A k \in Places : w[k] = IF k < n THEN {p + k} ELSE {}
  BY <1>1 DEF Little
<1>3. ASSUME NEW x \in p .. p + n - 1 PROVE \E k \in Places : x \in w[k]
  <2>1. x - p \in Places /\ x - p < n /\ x = p + (x - p)
    BY DEF Places
  <2>2. QED
    BY <1>2, <2>1
<1>4. \A k \in Places : w[k] \subseteq p .. p + n - 1
  BY <1>2 DEF Places
<1>5. \A k \in Places : \A x, y \in w[k] : x = y
  BY <1>2
<1>6. QED
  BY <1>1, <1>3, <1>4, <1>5 DEF Made

-----------------------------------------------------------------------------
(* Rows of words.                                                          *)

LEMMA T1haReads ==
    ASSUME NEW size \in Nat, NEW b, NEW lanes, NEW ws, IsT1ha(ws, size, b, lanes)
    PROVE Reads(ws, 0 .. size - 1)
<1>1. PICK all \in Nat : all = (size + 7) \div 8
  OBVIOUS
<1>2. /\ ws = [j \in 1 .. all |-> T1haAt(size, b, lanes, all, j)]
      /\ DOMAIN ws = 1 .. all
  BY <1>1, Zenon DEF IsT1ha, T1haWords, T1haAt
<1>3. ASSUME NEW j \in 1 .. all, NEW p \in Int, NEW n \in Int, p = 8 * (j - 1),
             n = IF j < all THEN 8 ELSE size - (8 * (all - 1))
      PROVE /\ Made(ws[j].word, p .. p + n - 1) /\ BytesOf(ws[j].word) = p .. p + n - 1
            /\ p .. p + n - 1 \subseteq 0 .. size - 1
  <2>1. n \in 1 .. 8
    BY <1>1, <1>3
  <2>2. ws[j].word = Number(p, n)
    <3>1. ws[j] = T1haAt(size, b, lanes, all, j)
      BY <1>2
    <3>2. T1haAt(size, b, lanes, all, j).word = Number(p, n)
      BY <1>3 DEF T1haAt, Into
    <3>3. QED
      BY <3>1, <3>2
  <2>3. Made(ws[j].word, p .. p + n - 1)
    BY <2>1, <2>2, NumberMade
  <2>4. p >= 0 /\ p + n - 1 <= size - 1
    BY <1>1, <1>3
  <2>5. QED
    BY <2>1, <2>3, <2>4, MadeOf
<1>4. ASSUME NEW j \in 1 .. all
      PROVE Made(ws[j].word, BytesOf(ws[j].word)) /\ BytesOf(ws[j].word) \subseteq 0 .. size - 1
  <2>1. PICK p \in Int, n \in Int :
          p = 8 * (j - 1) /\ n = IF j < all THEN 8 ELSE size - (8 * (all - 1))
    <3>1. 8 * (j - 1) \in Int /\ (IF j < all THEN 8 ELSE size - (8 * (all - 1))) \in Int
      OBVIOUS
    <3>2. QED
      BY <3>1
  <2>2. QED
    BY <1>3, <2>1
<1>5. ASSUME NEW x \in 0 .. size - 1 PROVE \E j \in 1 .. all : x \in BytesOf(ws[j].word)
  <2>1. PICK j \in 1 .. all : j = (x \div 8) + 1
    <3>1. (x \div 8) + 1 \in 1 .. all
      BY <1>1
    <3>2. QED
      BY <3>1
  <2>2. PICK p \in Int, n \in Int :
          p = 8 * (j - 1) /\ n = IF j < all THEN 8 ELSE size - (8 * (all - 1))
    <3>1. 8 * (j - 1) \in Int /\ (IF j < all THEN 8 ELSE size - (8 * (all - 1))) \in Int
      OBVIOUS
    <3>2. QED
      BY <3>1
  <2>3. x \in p .. p + n - 1
    BY <1>1, <2>1, <2>2
  <2>4. BytesOf(ws[j].word) = p .. p + n - 1
    BY <1>3, <2>2
  <2>5. QED
    BY <2>3, <2>4
<1>6. QED
  BY <1>2, <1>4, <1>5 DEF Reads

\* Two words, the bytes of each known.
LEMMA EndsRead ==
    ASSUME NEW v, NEW w, NEW s, NEW t, NEW all, Made(v, s), Made(w, t), s \cup t = all
    PROVE Reads(Ends(v, w), all) /\ Ends(v, w)[1].word = v /\ Ends(v, w)[2].word = w
<1>1. PICK ws : ws = Ends(v, w)
  OBVIOUS
<1>2. DOMAIN ws = 1 .. 2 /\ ws[1].word = v /\ ws[2].word = w
  BY <1>1 DEF Ends, Into
<1>3. BytesOf(v) = s /\ BytesOf(w) = t
  BY MadeOf
<1>4. 1 .. 2 = {1, 2}
  OBVIOUS
<1>5. QED
  BY <1>1, <1>2, <1>3, <1>4 DEF Reads

LEMMA FoldedReads ==
    ASSUME NEW rounds, NEW lanes, NEW secrets, NEW ws, IsFolded(ws, rounds, lanes, secrets),
           len \in Nat, len > 16
    PROVE Reads(ws, 0 .. len - 1)
<1>1. PICK size \in Nat, m \in Nat, k \in Nat :
        size = len /\ m = FoldedPairs(rounds, lanes) /\ k = 2 * m
  <2>1. len \div 16 \in Nat /\ (len - 1) \div 16 \in Nat
    OBVIOUS
  <2>2. FoldedPairs(rounds, lanes) \in Nat /\ 2 * FoldedPairs(rounds, lanes) \in Nat
    BY <2>1 DEF FoldedPairs
  <2>3. QED
    BY <2>2
<1>2. 16 * m <= size /\ size <= (16 * m) + 16
  BY <1>1 DEF FoldedPairs
<1>3. PICK u : u = [j \in 1 .. k |-> FoldedAt(rounds, lanes, secrets, j)]
  OBVIOUS
<1>4. PICK v, w, t : v = Number(len - 16, 8) /\ w = Number(len - 8, 8) /\ t = Ends(v, w)
  OBVIOUS
<1>5. Counts(u, k) /\ \A j \in 1 .. k : u[j] = FoldedAt(rounds, lanes, secrets, j)
  BY <1>3, CountsFunction
<1>6. PICK two \in Nat : two = 2
  OBVIOUS
<1>7. Counts(t, two)
  BY <1>4, <1>6, CountsEnds
<1>8. ws = u \o t
  BY <1>1, <1>3, <1>4, FoldedIs, Zenon DEF IsFolded
<1>9. Glues(u \o t, u, t, k, two)
  BY <1>5, <1>7, Glued
<1>10. DOMAIN ws = 1 .. k + two
  BY <1>6, <1>8, <1>9 DEF Glues, Counts
<1>11. /\ Made(v, size - 16 .. size - 9) /\ Made(w, size - 8 .. size - 1)
  <2>1. size - 16 \in Int /\ size - 8 \in Int /\ 8 \in 1 .. 8
    OBVIOUS
  <2>2. Made(Number(size - 16, 8), size - 16 .. size - 16 + 8 - 1)
    BY <2>1, NumberMade
  <2>3. Made(Number(size - 8, 8), size - 8 .. size - 8 + 8 - 1)
    BY <2>1, NumberMade
  <2>4. size - 16 + 8 - 1 = size - 9 /\ size - 8 + 8 - 1 = size - 1
    OBVIOUS
  <2>5. QED
    BY <1>1, <1>4, <2>2, <2>3, <2>4
<1>12. Reads(t, size - 16 .. size - 1)
  <2>1. (size - 16 .. size - 9) \cup (size - 8 .. size - 1) = size - 16 .. size - 1
    OBVIOUS
  <2>2. PICK all : all = size - 16 .. size - 1
    OBVIOUS
  <2>3. Reads(Ends(v, w), all)
    BY <1>11, <2>1, <2>2, EndsRead
  <2>4. QED
    BY <1>4, <2>2, <2>3
<1>13. ASSUME NEW j \in 1 .. k, NEW p \in Int, p = 8 * (j - 1)
       PROVE /\ Made(ws[j].word, p .. p + 7) /\ BytesOf(ws[j].word) = p .. p + 7
             /\ p .. p + 7 \subseteq 0 .. size - 1
  <2>1. ws[j] = FoldedAt(rounds, lanes, secrets, j)
    BY <1>5, <1>8, <1>9 DEF Glues
  <2>2. ws[j].word = Number(p, 8)
    BY <1>13, <2>1 DEF FoldedAt, Into
  <2>3. Made(ws[j].word, p .. p + 7)
    <3>1. p + 8 - 1 = p + 7 /\ 8 \in 1 .. 8
      OBVIOUS
    <3>2. Made(Number(p, 8), p .. p + 8 - 1)
      BY <3>1, NumberMade
    <3>3. QED
      BY <2>2, <3>1, <3>2
  <2>4. p >= 0 /\ p + 7 <= size - 1
    BY <1>1, <1>2, <1>13
  <2>5. QED
    BY <2>3, <2>4, MadeOf
<1>14. ASSUME NEW i \in 1 .. two
       PROVE k + i \in 1 .. k + two /\ ws[k + i] = t[i] /\ i \in DOMAIN t
  BY <1>6, <1>7, <1>8, <1>9 DEF Glues, Counts
<1>15. ASSUME NEW j \in 1 .. k + two
       PROVE Made(ws[j].word, BytesOf(ws[j].word)) /\ BytesOf(ws[j].word) \subseteq 0 .. size - 1
  <2>1. CASE j <= k
    <3>1. PICK p \in Int : p = 8 * (j - 1)
      OBVIOUS
    <3>2. j \in 1 .. k
      BY <2>1
    <3>3. QED
      BY <1>13, <3>1, <3>2
  <2>2. CASE ~(j <= k)
    <3>1. PICK i \in 1 .. two : j = k + i
      <4>1. j - k \in 1 .. two /\ j = k + (j - k)
        BY <2>2
      <4>2. QED
        BY <4>1
    <3>2. size - 16 .. size - 1 \subseteq 0 .. size - 1
      BY <1>1
    <3>3. Made(t[i].word, BytesOf(t[i].word)) /\ BytesOf(t[i].word) \subseteq size - 16 .. size - 1
      BY <1>12, <1>14 DEF Reads
    <3>4. QED
      BY <1>14, <3>1, <3>2, <3>3
  <2>3. QED
    BY <2>1, <2>2
<1>16. ASSUME NEW x \in 0 .. size - 1 PROVE \E j \in 1 .. k + two : x \in BytesOf(ws[j].word)
  <2>1. CASE x < 16 * m
    <3>1. PICK j \in 1 .. k : j = (x \div 8) + 1
      <4>1. (x \div 8) + 1 \in 1 .. k
        BY <1>1, <2>1
      <4>2. QED
        BY <4>1
    <3>2. PICK p \in Int : p = 8 * (j - 1)
      OBVIOUS
    <3>3. x \in p .. p + 7
      BY <3>1, <3>2
    <3>4. BytesOf(ws[j].word) = p .. p + 7
      BY <1>13, <3>2
    <3>5. j \in 1 .. k + two
      BY <3>1
    <3>6. QED
      BY <3>3, <3>4, <3>5
  <2>2. CASE ~(x < 16 * m)
    <3>1. x \in size - 16 .. size - 1
      BY <1>2, <2>2
    <3>2. PICK i \in DOMAIN t : x \in BytesOf(t[i].word)
      BY <1>12, <3>1 DEF Reads
    <3>3. i \in 1 .. two
      BY <1>7, <3>2 DEF Counts
    <3>4. QED
      BY <1>14, <3>2, <3>3
  <2>3. QED
    BY <2>1, <2>2
<1>17. QED
  BY <1>1, <1>10, <1>15, <1>16 DEF Reads

-----------------------------------------------------------------------------
(* Files of up to 16 bytes.                                                *)

\* Nothing taken before, the words are the two of the ends.
LEMMA EndsAlone ==
    ASSUME NEW p, NEW q, words = <<>>, NEW loaded, Take(Ends(p, q), loaded)
    PROVE words' = Ends(p, q)
<1>1. PICK t : t = Ends(p, q)
  OBVIOUS
<1>2. Counts(t, 2)
  BY <1>1, CountsEnds
<1>3. PICK S : t \in Seq(S)
  BY <1>2 DEF Counts
<1>4. words' = words \o t
  BY <1>1 DEF Take
<1>5. <<>> \o t = t
  BY <1>3
<1>6. QED
  BY <1>1, <1>4, <1>5

\* Two half words from each end.
HalfWords(d, p) == Or(Up(Little(d, 4), 4), Little(p, 4))

LEMMA HalvesMade ==
    ASSUME NEW d \in Int, NEW p \in Int
    PROVE Made(HalfWords(d, p), d .. d + 3 \cup p .. p + 3)
<1>1. PICK w : w = HalfWords(d, p)
  OBVIOUS
<1>2. ASSUME NEW k \in Places PROVE w[k] = IF k < 4 THEN {p + k} ELSE {d + (k - 4)}
  <2>1. k - 4 \in Places <=> k >= 4
    BY DEF Places
  <2>2. CASE k < 4
    <3>1. Up(Little(d, 4), 4)[k] = {} /\ Little(p, 4)[k] = {p + k}
      BY <2>2 DEF Up, Little, Places
    <3>2. QED
      BY <1>1, <2>2, <3>1 DEF HalfWords, Or
  <2>3. CASE ~(k < 4)
    <3>1. Up(Little(d, 4), 4)[k] = Little(d, 4)[k - 4] /\ Little(p, 4)[k] = {}
      BY <2>3 DEF Up, Little, Places
    <3>2. Little(d, 4)[k - 4] = {d + (k - 4)}
      BY <2>3 DEF Little, Places
    <3>3. QED
      BY <1>1, <2>3, <3>1, <3>2 DEF HalfWords, Or
  <2>4. QED
    BY <2>2, <2>3
<1>3. \A k \in Places : w[k] \subseteq d .. d + 3 \cup p .. p + 3
  <2>1. ASSUME NEW k \in Places PROVE w[k] \subseteq d .. d + 3 \cup p .. p + 3
    BY <1>2 DEF Places
  <2>2. QED
    BY <2>1
<1>4. ASSUME NEW x \in d .. d + 3 \cup p .. p + 3 PROVE \E k \in Places : x \in w[k]
  <2>1. CASE x \in d .. d + 3
    <3>1. PICK k \in Places : x = d + (k - 4) /\ ~(k < 4)
      <4>1. (x - d) + 4 \in Places /\ x = d + (((x - d) + 4) - 4) /\ ~((x - d) + 4 < 4)
        BY <2>1 DEF Places
      <4>2. QED
        BY <4>1
    <3>2. QED
      BY <1>2, <3>1
  <2>2. CASE x \in p .. p + 3
    <3>1. PICK k \in Places : x = p + k /\ k < 4
      <4>1. x - p \in Places /\ x = p + (x - p) /\ x - p < 4
        BY <2>2 DEF Places
      <4>2. QED
        BY <4>1
    <3>2. QED
      BY <1>2, <3>1
  <2>3. QED
    BY <2>1, <2>2
<1>5. \A k \in Places : \A x, y \in w[k] : x = y
  BY <1>2
<1>6. QED
  BY <1>1, <1>3, <1>4, <1>5 DEF Made

LEMMA ReadLittle ==
    ASSUME call \in Calls, NEW p \in Int, NEW n \in {4, 8}
    PROVE Read(p, n) = Little(p, n)
<1>1. rapid_read(machine, p, n) = Little(p, n) /\ _wyr(machine, p, n) = Little(p, n)
  BY MachineTyped, ReadRight
<1>2. QED
  BY <1>1 DEF Read

\* Single bytes.
LEMMA BytesMade ==
    ASSUME NEW p, NEW q, NEW r
    PROVE /\ Made(ByteAt(q), {q})
          /\ Made(Or(UpBits45(p), ByteAt(q)), {p, q})
          /\ Made(Or(Up(ByteAt(p), 2), Or(Up(ByteAt(q), 1), ByteAt(r))), {p, q, r})
          /\ Made(Or(ByteAt(p), Or(Up(ByteAt(q), 1), Up(ByteAt(r), 2))), {p, q, r})
          /\ Made(Nothing, {})
<1>0. Places = {0, 1, 2, 3, 4, 5, 6, 7}
  BY DEF Places
<1>1. Made(ByteAt(q), {q})
  <2>1. \A k \in Places : ByteAt(q)[k] = IF k = 0 THEN {q} ELSE {}
    BY DEF ByteAt
  <2>2. 0 \in Places
    BY <1>0
  <2>3. QED
    BY <2>1, <2>2 DEF Made
<1>2. Made(Or(UpBits45(p), ByteAt(q)), {p, q})
  <2>1. PICK w : w = Or(UpBits45(p), ByteAt(q))
    OBVIOUS
  <2>2. \A k \in Places : w[k] = IF k = 0 THEN {q} ELSE IF k \in {5, 6} THEN {p} ELSE {}
    BY <2>1, <1>0 DEF ByteAt, UpBits45, Or
  <2>3. 0 \in Places /\ 5 \in Places
    BY <1>0
  <2>4. QED
    BY <2>1, <2>2, <2>3 DEF Made
<1>3. Made(Or(Up(ByteAt(p), 2), Or(Up(ByteAt(q), 1), ByteAt(r))), {p, q, r})
  <2>1. PICK w : w = Or(Up(ByteAt(p), 2), Or(Up(ByteAt(q), 1), ByteAt(r)))
    OBVIOUS
  <2>2. \A k \in Places :
          w[k] = IF k = 0 THEN {r} ELSE IF k = 1 THEN {q} ELSE IF k = 2 THEN {p} ELSE {}
    BY <2>1, <1>0 DEF ByteAt, Up, Or
  <2>3. 0 \in Places /\ 1 \in Places /\ 2 \in Places
    BY <1>0
  <2>4. QED
    BY <2>1, <2>2, <2>3 DEF Made
<1>4. Made(Or(ByteAt(p), Or(Up(ByteAt(q), 1), Up(ByteAt(r), 2))), {p, q, r})
  <2>1. PICK w : w = Or(ByteAt(p), Or(Up(ByteAt(q), 1), Up(ByteAt(r), 2)))
    OBVIOUS
  <2>2. \A k \in Places :
          w[k] = IF k = 0 THEN {p} ELSE IF k = 1 THEN {q} ELSE IF k = 2 THEN {r} ELSE {}
    BY <2>1, <1>0 DEF ByteAt, Up, Or
  <2>3. 0 \in Places /\ 1 \in Places /\ 2 \in Places
    BY <1>0
  <2>4. QED
    BY <2>1, <2>2, <2>3 DEF Made
<1>5. Made(Nothing, {})
  BY DEF Made, Nothing
<1>6. QED
  BY <1>1, <1>2, <1>3, <1>4, <1>5

\* What each kernel makes of a file that short.
LEMMA ShortReads ==
    ASSUME Inv, RapidShort \/ wyhashShort \/ goShort
    PROVE Reads(words', 0 .. len - 1)
<1>1. call \in Calls /\ len \in Nat /\ len <= 16 /\ words = <<>>
  BY CallTyped DEF Inv, TypeOK, Where, RapidShort, wyhashShort, goShort, Short
<1>2. PICK n \in Nat : n = len
  BY <1>1
<1>3. n \in 1 .. 3 => {0, n \div 2, n - 1} = 0 .. n - 1
  BY <1>1, <1>2
<1>4. PICK all : all = 0 .. n - 1
  OBVIOUS
<1> SUFFICES Reads(words', all)
  BY <1>2, <1>4
<1>5. ASSUME len = 0, words' = words PROVE Reads(words', all)
  <2>1. words' = <<>> /\ DOMAIN <<>> = {} /\ all = {}
    BY <1>1, <1>2, <1>4, <1>5
  <2>2. QED
    BY <2>1 DEF Reads
<1>6. ASSUME NEW v, NEW w, NEW s, NEW t, NEW loaded, Take(Ends(v, w), loaded), Made(v, s), Made(w, t),
             s \cup t = all
      PROVE Reads(words', all)
  <2>1. words' = Ends(v, w)
    BY <1>1, <1>6, EndsAlone
  <2>2. Reads(Ends(v, w), all)
    BY <1>6, EndsRead
  <2>3. QED
    BY <2>1, <2>2
<1>7. CASE RapidShort
  <2>1. CASE len >= 8
    <3>1. Take(Ends(Read(0, 8), Read(len - 8, 8)), 0 .. 7 \cup len - 8 .. len - 1)
      BY <1>1, <1>7, <2>1 DEF RapidShort
    <3>2. PICK p \in Int, q \in Int, k \in {4, 8} : p = 0 /\ q = n - 8 /\ k = 8 /\ k \in 1 .. 8
      BY <1>1, <1>2
    <3>3. Made(Read(p, k), p .. p + k - 1) /\ Made(Read(q, k), q .. q + k - 1)
      BY <1>1, <3>2, ReadLittle, LittleMade
    <3>4. (p .. p + k - 1) \cup (q .. q + k - 1) = all
      BY <1>1, <1>2, <1>4, <2>1, <3>2
    <3>5. Take(Ends(Read(p, k), Read(q, k)), 0 .. 7 \cup len - 8 .. len - 1)
      BY <1>2, <3>1, <3>2
    <3>6. QED
      BY <1>6, <3>3, <3>4, <3>5
  <2>2. CASE len \in 4 .. 7
    <3>1. Take(Ends(Read(0, 4), Read(len - 4, 4)), 0 .. 3 \cup len - 4 .. len - 1)
      BY <1>1, <1>7, <2>2 DEF RapidShort
    <3>2. PICK p \in Int, q \in Int, k \in {4, 8} : p = 0 /\ q = n - 4 /\ k = 4 /\ k \in 1 .. 8
      BY <1>1, <1>2
    <3>3. Made(Read(p, k), p .. p + k - 1) /\ Made(Read(q, k), q .. q + k - 1)
      BY <1>1, <3>2, ReadLittle, LittleMade
    <3>4. (p .. p + k - 1) \cup (q .. q + k - 1) = all
      BY <1>1, <1>2, <1>4, <2>2, <3>2
    <3>5. Take(Ends(Read(p, k), Read(q, k)), 0 .. 3 \cup len - 4 .. len - 1)
      BY <1>2, <3>1, <3>2
    <3>6. QED
      BY <1>6, <3>3, <3>4, <3>5
  <2>3. CASE len \in 1 .. 3
    <3>1. Take(Ends(Or(UpBits45(0), ByteAt(len - 1)), ByteAt(len \div 2)), {0, len \div 2, len - 1})
      BY <1>1, <1>7, <2>3 DEF RapidShort
    <3>2. /\ Made(Or(UpBits45(0), ByteAt(len - 1)), {0, len - 1})
          /\ Made(ByteAt(len \div 2), {len \div 2})
      BY BytesMade
    <3>3. {0, len - 1} \cup {len \div 2} = all
      BY <1>2, <1>3, <1>4, <2>3
    <3>4. QED
      BY <1>6, <3>1, <3>2, <3>3
  <2>4. CASE len = 0
    <3>1. words' = words
      BY <1>7, <2>4 DEF RapidShort, input
    <3>2. QED
      BY <1>5, <2>4, <3>1
  <2>5. QED
    BY <1>1, <1>2, <1>4, <2>1, <2>2, <2>3, <2>4
<1>8. CASE wyhashShort
  <2>1. PICK d \in Nat : d = 4 * (len \div 8)
    BY <1>1
  <2>2. (d = 0 /\ n < 8) \/ (d = 4 /\ n >= 8) \/ (d = 8 /\ n = 16)
    BY <1>1, <1>2, <2>1
  <2>3. CASE len >= 4
    <3>1. PICK loaded : Take(Ends(Or(Up(Read(0, 4), 4), Read(d, 4)),
                                  Or(Up(Read(len - 4, 4), 4), Read(len - 4 - d, 4))), loaded)
      BY <1>1, <1>8, <2>1, <2>3 DEF wyhashShort
    <3>2. PICK p \in Int, c \in Int, q \in Int, r \in Int, k \in {4, 8} :
            p = 0 /\ c = d /\ q = n - 4 /\ r = n - 4 - d /\ k = 4
      BY <1>1, <1>2
    <3>3. /\ Read(p, k) = Little(p, k) /\ Read(c, k) = Little(c, k)
          /\ Read(q, k) = Little(q, k) /\ Read(r, k) = Little(r, k)
      BY <1>1, ReadLittle
    <3>4. Take(Ends(HalfWords(p, c), HalfWords(q, r)), loaded)
      BY <1>2, <3>1, <3>2, <3>3 DEF HalfWords
    <3>5. Made(HalfWords(p, c), p .. p + 3 \cup c .. c + 3) /\ Made(HalfWords(q, r), q .. q + 3 \cup r .. r + 3)
      BY HalvesMade
    <3>6. (p .. p + 3 \cup c .. c + 3) \cup (q .. q + 3 \cup r .. r + 3) = all
      <4>1. n \in 4 .. 16
        BY <1>1, <1>2, <2>3
      <4>2. 0 .. 3 \cup d .. d + 3 \cup n - 4 .. n - 1 \cup n - 4 - d .. n - 1 - d = 0 .. n - 1
        BY <2>2, <4>1, FourHalves
      <4>3. p + 3 = 3 /\ c + 3 = d + 3 /\ q + 3 = n - 1 /\ r + 3 = n - 1 - d
        BY <3>2
      <4>4. QED
        BY <1>4, <3>2, <4>2, <4>3
    <3>7. QED
      BY <1>6, <3>4, <3>5, <3>6
  <2>4. CASE len \in 1 .. 3
    <3>1. Take(Ends(Or(Up(ByteAt(0), 2), Or(Up(ByteAt(len \div 2), 1), ByteAt(len - 1))), Nothing),
               {0, len \div 2, len - 1})
      BY <1>1, <1>8, <2>4 DEF wyhashShort
    <3>2. /\ Made(Or(Up(ByteAt(0), 2), Or(Up(ByteAt(len \div 2), 1), ByteAt(len - 1))),
                  {0, len \div 2, len - 1})
          /\ Made(Nothing, {})
      BY BytesMade
    <3>3. {0, len \div 2, len - 1} \cup {} = all
      BY <1>2, <1>3, <1>4, <2>4
    <3>4. QED
      BY <1>6, <3>1, <3>2, <3>3
  <2>5. CASE len = 0
    <3>1. words' = words
      BY <1>8, <2>5 DEF wyhashShort, input
    <3>2. QED
      BY <1>5, <2>5, <3>1
  <2>6. QED
    BY <1>1, <1>2, <1>4, <2>3, <2>4, <2>5
<1>9. CASE goShort
  <2>1. PICK d \in Nat : d = IF len < 8 THEN 0 ELSE 4
    OBVIOUS
  <2>2. (d = 0 /\ n < 8) \/ (d = 4 /\ n >= 8)
    BY <1>1, <1>2, <2>1
  <2>3. CASE len >= 4
    <3>1. PICK loaded : Take(Ends(Or(Up(Read(0, 4), 4), Read(len - 4, 4)),
                                  Or(Up(Read(d, 4), 4), Read(len - 4 - d, 4))), loaded)
      BY <1>1, <1>9, <2>1, <2>3 DEF goShort
    <3>2. PICK p \in Int, c \in Int, q \in Int, r \in Int, k \in {4, 8} :
            p = 0 /\ c = d /\ q = n - 4 /\ r = n - 4 - d /\ k = 4
      BY <1>1, <1>2
    <3>3. /\ Read(p, k) = Little(p, k) /\ Read(c, k) = Little(c, k)
          /\ Read(q, k) = Little(q, k) /\ Read(r, k) = Little(r, k)
      BY <1>1, ReadLittle
    <3>4. Take(Ends(HalfWords(p, q), HalfWords(c, r)), loaded)
      BY <1>2, <3>1, <3>2, <3>3 DEF HalfWords
    <3>5. Made(HalfWords(p, q), p .. p + 3 \cup q .. q + 3) /\ Made(HalfWords(c, r), c .. c + 3 \cup r .. r + 3)
      BY HalvesMade
    <3>6. (p .. p + 3 \cup q .. q + 3) \cup (c .. c + 3 \cup r .. r + 3) = all
      <4>1. n \in 4 .. 16
        BY <1>1, <1>2, <2>3
      <4>2. 0 .. 3 \cup d .. d + 3 \cup n - 4 .. n - 1 \cup n - 4 - d .. n - 1 - d = 0 .. n - 1
        BY <2>2, <4>1, FourHalves
      <4>3. p + 3 = 3 /\ c + 3 = d + 3 /\ q + 3 = n - 1 /\ r + 3 = n - 1 - d
        BY <3>2
      <4>4. QED
        BY <1>4, <3>2, <4>2, <4>3
    <3>7. QED
      BY <1>6, <3>4, <3>5, <3>6
  <2>4. CASE len \in 1 .. 3
    <3>1. Take(Ends(Or(ByteAt(0), Or(Up(ByteAt(len \div 2), 1), Up(ByteAt(len - 1), 2))), Nothing),
               {0, len \div 2, len - 1})
      BY <1>1, <1>9, <2>4 DEF goShort
    <3>2. /\ Made(Or(ByteAt(0), Or(Up(ByteAt(len \div 2), 1), Up(ByteAt(len - 1), 2))),
                  {0, len \div 2, len - 1})
          /\ Made(Nothing, {})
      BY BytesMade
    <3>3. {0, len \div 2, len - 1} \cup {} = all
      BY <1>2, <1>3, <1>4, <2>4
    <3>4. QED
      BY <1>6, <3>1, <3>2, <3>3
  <2>5. CASE len = 0
    <3>1. words' = words
      BY <1>9, <2>5 DEF goShort, input
    <3>2. QED
      BY <1>5, <2>5, <3>1
  <2>6. QED
    BY <1>1, <1>2, <1>4, <2>3, <2>4, <2>5
<1>10. QED
  BY <1>7, <1>8, <1>9

\* The kernels that mix words.
Kernels == T1ha1 \cup T1ha2 \cup T1ha2Stream \cup StandIns \cup Folded

\* Words are mixed by one of them, and those of a short file are all read.
ShortInv ==
    pc = "mix" => kernel \in Kernels /\ (kernel \in Folded /\ len <= 16 => Reads(words, 0 .. len - 1))

LEMMA ShortNext == Inv /\ ShortInv /\ [Step]_vars => ShortInv'
<1> SUFFICES ASSUME Inv, ShortInv, [Step]_vars PROVE ShortInv'
  OBVIOUS
<1>1. call' = call
  BY CallNeverChanges DEF vars
<1>2. kernel' = kernel /\ len' = len
  BY <1>1, CallKept
<1>3. CASE UNCHANGED vars
  <2>1. pc' = pc /\ words' = words
    BY <1>3 DEF vars, input
  <2>2. QED
    BY <1>2, <2>1 DEF ShortInv, Reads, Made
<1>4. CASE RapidShort \/ wyhashShort \/ goShort
  <2>1. Reads(words', 0 .. len - 1)
    BY <1>4, ShortReads
  <2>2. kernel \in Kernels
    BY <1>4 DEF RapidShort, wyhashShort, goShort, Kernels, Folded
  <2>3. QED
    BY <1>2, <2>1, <2>2 DEF ShortInv, Reads, Made
<1>5. CASE pc' # "mix"
  BY <1>5 DEF ShortInv
<1>6. CASE pc = "loop" /\ kernel \in Folded
  <2>1. len > 16 /\ len \in Nat
    BY <1>6, AtFold
  <2>2. kernel \in Kernels
    BY <1>6 DEF Kernels
  <2>3. QED
    BY <1>2, <2>1, <2>2 DEF ShortInv
<1>7. CASE kernel \in Kernels /\ kernel \notin Folded
  BY <1>2, <1>7 DEF ShortInv
<1>8. CASE StandIn
  <2>1. kernel \in Kernels /\ kernel \notin Folded
    BY <1>8 DEF StandIn, Kernels, StandIns, Folded, Rapid
  <2>2. QED
    BY <1>7, <2>1
<1>9. CASE Open \/ Fail \/ Elsewhere \/ UnknownAlgorithm \/ Long
             \/ \E a, b \in Operands : Return(a, b)
  BY <1>5, <1>9 DEF Open, Fail, Elsewhere, UnknownAlgorithm, Return, Long, Goto
<1>10. CASE T1haNext
  <2>1. kernel \in T1ha1 \cup T1ha2 \cup T1ha2Stream
    BY <1>10 DEF T1haNext, t1ha1_le, t1ha1_be, T1HA1_Loop, T1HA1_Tail, t1ha2_atonce,
                 t1ha2_atonce128, T1HA2_LOOP, T1HA2_Tail, t1ha2_init, t1ha2_update, t1ha2_final,
                 T1ha1, T1ha2
  <2>2. kernel \in Kernels /\ kernel \notin Folded
    BY <2>1 DEF Kernels, T1ha1, T1ha2, T1ha2Stream, Folded, Rapid
  <2>3. QED
    BY <1>7, <2>2
<1>11. CASE RapidWyNext
  <2>1. \/ RapidShort \/ wyhashShort \/ goShort \/ Long
        \/ (pc = "loop" /\ kernel \in Folded)
    BY <1>11 DEF RapidWyNext, UnrolledRound, rapidhashRound, Round, rapidhashRest, Rest,
                 rapidhashMicroRound, rapidhashMicroRest, rapidhashNanoRound, rapidhashNanoRest,
                 wyhashRound, wyhashPair, wyhashLast, goRound, goRest, Folded, Rapid
  <2>2. QED
    BY <1>4, <1>6, <1>9, <2>1
<1>12. QED
  BY <1>3, <1>8, <1>9, <1>10, <1>11 DEF Step

LEMMA EveryByteFrom ==
    ASSUME Inv, WordsInv, ShortInv
    PROVE EveryByteRead
<1> SUFFICES ASSUME pc = "mix" PROVE EveryByteRead
  BY DEF EveryByteRead
<1>1. call \in Calls /\ len \in Nat
  BY CallTyped DEF Inv, TypeOK
<1>2. PICK size \in Nat : size = IF kernel \in T1ha2Stream THEN len + 8 ELSE len
  <2>1. len \in Nat /\ len + 8 \in Nat
    BY <1>1
  <2>2. QED
    BY <2>1
<1>3. kernel \in Folded => kernel \notin T1ha2Stream
  BY Apart
<1>4. kernel \in T1ha1 \cup StandIns \cup T1ha2 => kernel \notin T1ha2Stream /\ kernel \notin Folded
  BY DEF T1ha1, T1ha2, StandIns, T1ha2Stream, Folded, Rapid
<1>5. CASE kernel \in Folded /\ len <= 16
  <2>1. Reads(words, 0 .. size - 1)
    BY <1>2, <1>3, <1>5 DEF ShortInv
  <2>2. QED
    BY <1>2, <1>3, <1>5, <2>1, ReadsAll DEF EveryByteRead
<1>6. ~(kernel \in Folded /\ len <= 16) => Reads(words, 0 .. size - 1)
  <2> SUFFICES ASSUME ~(kernel \in Folded /\ len <= 16) PROVE Reads(words, 0 .. size - 1)
    OBVIOUS
  <2>1. words = WordsExpected
    BY DEF WordsInv, WordsInPlace
  <2>2. CASE kernel \in Folded
    <3>1. PICK rounds, lanes, secrets : rounds = FoldRounds /\ lanes = FoldLanes /\ secrets = FoldSecrets
      OBVIOUS
    <3>2. IsFolded(words, rounds, lanes, secrets)
      BY <2>1, <2>2, <3>1, FoldedCases DEF IsFolded
    <3>3. len > 16 /\ size = len
      BY <1>1, <1>2, <1>3, <2>2
    <3>4. QED
      BY <1>1, <3>2, <3>3, FoldedReads
  <2>3. CASE kernel \in T1ha1 \cup StandIns \cup T1ha2
    <3>1. \E lanes : words = T1haWords(size, WholeBlocks, lanes)
      BY <1>2, <1>4, <2>1, <2>3, ExpectedOf
    <3>2. PICK b, lanes : IsT1ha(words, size, b, lanes)
      BY <3>1 DEF IsT1ha
    <3>3. QED
      BY <3>2, T1haReads
  <2>4. CASE kernel \in T1ha2Stream
    <3>1. words = T1haWords(size, (len + 8) \div 32, Lanes2)
      BY <1>2, <2>1, <2>4, ExpectedOf
    <3>2. PICK b, lanes : IsT1ha(words, size, b, lanes)
      BY <3>1 DEF IsT1ha
    <3>3. QED
      BY <3>2, T1haReads
  <2>5. QED
    BY <2>2, <2>3, <2>4 DEF ShortInv, Kernels
<1>7. CASE ~(kernel \in Folded /\ len <= 16)
  <2>1. Reads(words, 0 .. size - 1)
    BY <1>6, <1>7
  <2>2. size - 1 = IF kernel \in T1ha2Stream THEN len + 7 ELSE len - 1
    BY <1>1, <1>2
  <2>3. QED
    BY <2>1, <2>2, ReadsAll DEF EveryByteRead
<1>8. QED
  BY <1>5, <1>7

(* For files of every length: the words that are mixed hold every byte of  *)
(* the file, of a stream its length too, and nothing else, each byte in a  *)
(* place it has for itself.                                                *)
THEOREM EveryByteAlwaysRead == Spec => []EveryByteRead
<1>1. Init => ShortInv
  BY DEF Init, ShortInv
<1>2. Inv /\ WordsInv /\ ShortInv => EveryByteRead
  BY EveryByteFrom
<1>3. QED
  BY <1>1, <1>2, WordsAlways, ShortNext, StepOnly, PTL DEF Spec
=============================================================================
