------------------------------ MODULE FileHash ------------------------------
(***************************************************************************)
(* hashFile with the fast hashes: the call, the kernels of T1ha and of     *)
(* RapidWy, the multiplications that end them, and what must hold of all.  *)
(***************************************************************************)
EXTENDS T1ha, RapidWy

\* Library code for builds without cgo; its words are those of t1ha1.
StandIn ==
    /\ pc = "start" /\ kernel \in StandIns
    /\ LET blocks == IF len > 32 THEN len \div 32 ELSE 0
       IN Take(Blocks("little", TRUE, 0, blocks)
               \o [j \in 1 .. TailWords(len - 32 * blocks) |->
                     LET n == TailWords(len - 32 * blocks)
                         p == 32 * blocks + 8 * (j - 1)
                     IN Into(IF j < n THEN fetch_le(machine, TRUE, p, 8)
                                      ELSE RestLe(p, 0, TailSize(len)),
                             <<T1HA1_Lanes[n - j + 1], n - j + 1>>)],
               0 .. len - 1)
    /\ mixed' = len
    /\ Goto("mix") /\ UNCHANGED <<file, context, product>>

-----------------------------------------------------------------------------
(* The words are mixed, by products that are split into two words.  One    *)
(* stands for all: a and b may be any.                                     *)

MixT1ha(a, b) ==
    /\ kernel \in T1ha1 \cup T1ha2 \cup T1ha2Stream
    /\ product' = <<a, b, mul_64x64_128(machine.wide, a, b)>>
MixRapid(a, b) == kernel \in Rapid /\ product' = <<a, b, rapid_mum(machine.wide, a, b)>>
MixWy(a, b) == kernel = "wyhash" /\ product' = <<a, b, _wymum(machine.wide, a, b)>>
MixGo(a, b) ==
    kernel \in StandIns \cup {"rapidhash_go"} /\ product' = <<a, b, WideProduct(a, b)>>

\* The digest is made, and what it was made of is dropped.
Return(a, b) ==
    /\ pc = "mix"
    /\ MixT1ha(a, b) \/ MixRapid(a, b) \/ MixWy(a, b) \/ MixGo(a, b)
    /\ Goto("done")
    /\ words' = <<>> /\ memory' = {} /\ UNCHANGED <<file, mixed, context>>

Step ==
    \/ Open \/ Fail \/ Elsewhere \/ UnknownAlgorithm \/ StandIn
    \/ T1haNext \/ RapidWyNext
    \/ \E a, b \in Operands : Return(a, b)

\* The call has returned: the only way it stops.
Returned == pc \in {"done", "failed"} /\ UNCHANGED vars

Next == Step \/ Returned

Spec == Init /\ [][Next]_vars

-----------------------------------------------------------------------------
Reading == pc \in {"open", "start", "loop", "tail"}

\* Everything has its type, and what is left of the file is what the pointer has
\* not passed: the pointer never goes over the end, nor the count under zero.
TypeOK ==
    /\ call \in Calls
    /\ pc \in {"open", "start", "loop", "tail", "mix", "done", "failed"}
    /\ at \in 0 .. len /\ rest \in 0 .. len
    /\ Reading => at + rest = len
    /\ mixed \in 0 .. len
    /\ partial \in 0 .. 31

\* What a word of n bytes from p must hold: the bytes in their order, and zeros.
Number(p, n) ==
    [k \in Places |-> IF k >= n THEN {}
                      ELSE IF kernel = "t1ha1_be" THEN {p + n - 1 - k} ELSE {p + k}]

\* What t1ha has to mix in: every eight bytes of the file, in order, for the lanes
\* of its block, the rest by how many words are left, the last one cut short.
LanesOf ==
    CASE kernel \in T1ha1 \cup StandIns -> T1HA1_Lanes
      [] kernel \in {"t1ha2_atonce", "t1ha2_stream"} -> T1HA2_TAIL_AB
      [] kernel \in {"t1ha2_atonce128", "t1ha2_stream128"} -> T1HA2_TAIL_ABCD

T1haWords(size, inBlocks, lanes) ==
    LET all == (size + 7) \div 8
    IN [j \in 1 .. all |->
          Into(Number(8 * (j - 1), IF j < all THEN 8 ELSE size - 8 * (all - 1)),
               IF j <= 4 * inBlocks THEN <<"w", (j - 1) % 4>>
                                    ELSE <<lanes[all - j + 1], all - j + 1>>)]

\* What the others have to: pairs for as long as there are 16 bytes and one more,
\* the lanes taking turns in the rounds, then the last 16 bytes.
FoldedWords(rounds, lanes, secrets) ==
    LET pairs == IF rounds * 16 * lanes = len THEN len \div 16 ELSE (len - 1) \div 16
    IN [j \in 1 .. 2 * pairs |->
          Into(Number(8 * (j - 1), 8),
               IF j <= 2 * lanes * rounds THEN <<"see", (j - 1) % (2 * lanes)>>
               ELSE IF j % 2 = 1 THEN <<"secret", secrets[(j + 1) \div 2 - lanes * rounds]>>
               ELSE <<"seed", 0>>)]
       \o Ends(Number(len - 16, 8), Number(len - 8, 8))

WordsExpected ==
    CASE kernel \in T1ha1 \cup T1ha2 \cup StandIns ->
            T1haWords(len, IF len > 32 THEN len \div 32 ELSE 0, LanesOf)
      [] kernel \in T1ha2Stream -> T1haWords(len + 8, (len + 8) \div 32, LanesOf)
      [] kernel = "rapidhash" -> FoldedWords((len - 1) \div 112, 7, <<2, 2, 1, 1, 2, 1>>)
      [] kernel = "rapidhashMicro" -> FoldedWords((len - 1) \div 80, 5, <<2, 2, 1, 1>>)
      [] kernel = "rapidhashNano" -> FoldedWords((len - 1) \div 48, 3, <<2, 2>>)
      [] kernel = "rapidhash_go" -> FoldedWords((len - 1) \div 48, 3, <<2, 2>>)
      [] kernel = "wyhash" -> FoldedWords(len \div 48, 3, <<1, 1>>)

\* The digest is a function of the file's bytes alone: whatever the byte order, the
\* alignment and page of the file, the way to read tails (t1ha_bits.h:364-978), the
\* pieces of a stream (t1ha2.c:312-381) or the unrolling of a loop, the same words
\* go to the same lanes.
WordsInPlace ==
    pc = "mix" /\ ~(kernel \in Folded /\ len <= 16) => words = WordsExpected

\* Every byte of the file is in some word, for a stream its length as well; nothing
\* else is, neither what a word was read too wide for nor what the buffer held
\* before; and no two bytes share a place.  Two files of one length that differ
\* therefore differ in a word that is mixed in.
EveryByteRead ==
    pc = "mix" =>
        /\ UNION {BytesOf(words[j].word) : j \in DOMAIN words}
               = 0 .. (IF kernel \in T1ha2Stream THEN len + 7 ELSE len - 1)
        /\ \A j \in DOMAIN words : \A k \in Places : \A x, y \in words[j].word[k] : x = y

\* A kernel only loads what it may: t1ha may load beyond the file a word that lies
\* in a page with some of it (can_read_underside, t1ha_bits.h:676-681), and what it
\* says is aligned is (the assert of fetch64_le_aligned, t1ha_bits.h:581).
ReadsAllowed ==
    LET PageOf(p) == (addr + p) \div Page
    IN /\ \A p \in memory : PageOf(0) <= PageOf(p) /\ PageOf(p) <= PageOf(len - 1)
       /\ kernel \in T1ha1 \cup T1ha2 /\ ReadAligned(0) => (addr + at) % 8 = 0

\* The others load every byte of the file and no other, though their last words begin
\* before what is left of it (p+i-16, rapidhash.h:344 and wyhash.h:138).
ReadsInside ==
    kernel \in Folded =>
        /\ memory \subseteq 0 .. len - 1
        /\ pc = "mix" => memory = 0 .. len - 1

\* rapidhash ends with what is left of the length, not the length (rapidhash.h:344):
\* with the number of words that still tells files apart that have the same words
\* but not the same length.  The others mix in the length itself.
LengthKept ==
    pc = "mix" =>
        len = IF kernel \notin Rapid \/ Len(words) <= 2 THEN mixed
              ELSE 16 * ((Len(words) - 2) \div 2) + ((mixed - 1) % 16) + 1

\* A product that is put together from halves is the product, in both its words
\* (rapidhash.h:184-188, wyhash.h:70-72, t1ha_bits.h:1051-1064).
ProductExact ==
    product # <<>> =>
        LET a == product[1]
            b == product[2]
            halves == product[3]
        IN halves[1] + W * halves[2] = a * b /\ halves[1] \in Word

\* "Sum128 computes the 128-bit t1ha2 hash of data" (t1ha_stub.go:17).
Sum128IsT1ha2 ==
    call.entry = "t1ha2" /\ pc = "mix" =>
        words = T1haWords(len, IF len > 32 THEN len \div 32 ELSE 0, T1HA2_TAIL_ABCD)
=============================================================================
