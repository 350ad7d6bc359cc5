------------------------------- MODULE Blake3 -------------------------------
(***************************************************************************)
(* The incremental BLAKE3 hasher (src/blake3c/lib/blake3.c), which the     *)
(* program feeds a file in pieces of any size (src/main.go:443-449).       *)
(*                                                                         *)
(* The hash of a file is the root of a binary tree over its chunks.  The   *)
(* hasher does not know where the file ends: it keeps the chunk it is in   *)
(* and a stack of the chaining values (CVs) of finished subtrees, and must *)
(* leave the node that may turn out to be the root uncompressed.           *)
(*                                                                         *)
(* A file is the sequence of its positions, so that any byte out of place  *)
(* shows.  The compression function is its own term: what it was applied   *)
(* to.  Two results are equal exactly if the same is compressed.           *)
(***************************************************************************)
EXTENDS Naturals, Sequences

CONSTANTS
    BlockLen,       \* BLAKE3_BLOCK_LEN, 64 in the code
    ChunkLen,       \* BLAKE3_CHUNK_LEN, 1024 in the code
    WordBits,       \* the bits of a uint64_t, 64 in the code
    Machines,       \* what the hasher may be built for and run on
    MaxLen          \* bound on the length of a file

\* The powers of two that a word holds, 1 << k, and the first it does not.
pow2[k \in 0 .. WordBits] == IF k = 0 THEN 1 ELSE 2 * pow2[k - 1]
Powers == {pow2[k] : k \in 0 .. WordBits - 1}

ASSUME LengthsAssumption ==
    /\ WordBits \in Nat \ {0}
    /\ BlockLen \in Nat \ {0}
    /\ \E k \in 1 .. ChunkLen : ChunkLen = BlockLen * k
    /\ ChunkLen \in Powers
ASSUME MachinesAssumption ==
    Machines \subseteq [x86 : BOOLEAN, neon : BOOLEAN,
                        features : SUBSET {"SSE2", "SSE41", "AVX2", "AVX512F", "AVX512VL"},
                        no : SUBSET {"SSE2", "SSE41", "AVX2", "AVX512"}]
ASSUME MaxLenAssumption == MaxLen \in Nat /\ MaxLen < pow2[WordBits]

VARIABLES
    machine,        \* one of Machines
    fed,            \* how many bytes the hasher was given
    chunk,          \* blake3_chunk_state: the chunk it is in
    stack,          \* cv_stack
    at,             \* where update is: "idle" between two calls, "loop"
    left            \* input_len: what is left of the piece

vars == <<machine, fed, chunk, stack, at, left>>

\* The bytes of the file after the first "from" of them.
Bytes(from, len) == [i \in 1 .. len |-> from + i]

\* The i-th piece of a sequence cut into pieces of k.
Piece(s, k, i) == SubSeq(s, (i - 1) * k + 1, i * k)

-----------------------------------------------------------------------------
(* Which kernel hashes many inputs: blake3_dispatch.c.  The x86 kernels    *)
(* are those the CPU has, less those BLAKE3_NO_... turns off.              *)

Needs(k) == IF k = "AVX512" THEN {"AVX512F", "AVX512VL"} ELSE {k}
Usable(k) == machine.x86 /\ Needs(k) \subseteq machine.features /\ k \notin machine.no

blake3_simd_degree ==
    IF Usable("AVX512") THEN 16
    ELSE IF Usable("AVX2") THEN 8
    ELSE IF Usable("SSE41") \/ Usable("SSE2") \/ machine.neon THEN 4
    ELSE 1

\* How many inputs the kernel that blake3_hash_many calls takes at a time.
Lanes == [avx512 |-> 16, avx2 |-> 8, sse41 |-> 4, sse2 |-> 4, neon |-> 4, portable |-> 1]
blake3_hash_many ==
    IF Usable("AVX512") THEN "avx512"
    ELSE IF Usable("AVX2") THEN "avx2"
    ELSE IF Usable("SSE41") THEN "sse41"
    ELSE IF Usable("SSE2") THEN "sse2"
    ELSE IF machine.neon THEN "neon" ELSE "portable"

\* The sizes of arrays, fixed when the program is built.
MAX_SIMD_DEGREE == IF machine.x86 THEN 16 ELSE IF machine.neon THEN 4 ELSE 1
MAX_SIMD_DEGREE_OR_2 == IF MAX_SIMD_DEGREE > 2 THEN MAX_SIMD_DEGREE ELSE 2

degree == blake3_simd_degree

-----------------------------------------------------------------------------
(* One compression: blake3.c:63-151 and the kernels it calls.              *)

\* A CV is the sequence of the compressions it came about by: each was applied
\* to a block of bytes or of two CVs.
OfBytes(bytes) == [bytes |-> bytes, cvs |-> <<>>]
OfCvs(pair) == [bytes |-> <<>>, cvs |-> pair]

Key == <<>>
Garbage == <<[block |-> OfBytes(<<>>), counter |-> 0, flags |-> {"uninitialized"}]>>

\* The arguments of a compression, output_t; as a CV, its result.
Compress(cv, block, counter, flags) ==
    Append(cv, [block |-> block, counter |-> counter, flags |-> flags])

\* The digest: the same with the ROOT flag, from the output block 0.
RootBytes(output) ==
    [output EXCEPT ![Len(output)].counter = 0, ![Len(output)].flags = @ \cup {"ROOT"}]

\* A parent node of two CVs.
Parent(pair) == Compress(Key, OfCvs(pair), 0, {"PARENT"})

ChunkState(counter) == [cv |-> Key, counter |-> counter, buf |-> <<>>, blocks |-> 0]

StartFlag(s) == IF s.blocks = 0 THEN {"CHUNK_START"} ELSE {}

CompressBlock(s, block) ==
    [cv |-> Compress(s.cv, OfBytes(block), s.counter, StartFlag(s)),
     counter |-> s.counter, buf |-> <<>>, blocks |-> s.blocks + 1]

ChunkStateLen(s) == BlockLen * s.blocks + Len(s.buf)

\* How much of n bytes fits into the block (fill_buf).
TakeWhole(s, n) == n                                \* mutant: no clamp to the block
Take(s, n) == IF n < BlockLen - Len(s.buf) THEN n ELSE BlockLen - Len(s.buf)

FillBuf(s, input) ==
    [cv |-> s.cv, counter |-> s.counter, buf |-> s.buf \o input, blocks |-> s.blocks]

\* How many whole blocks of n bytes are compressed at once: the last one is
\* kept back even if it is whole, since it may be the end of the chunk.
BlocksOf(n) == IF n = 0 THEN 0 ELSE (n - 1) \div BlockLen

\* After n whole blocks of the input.
CompressBlocks(s, input, n) ==
    LET after[i \in 0 .. n] ==
            IF i = 0 THEN s ELSE CompressBlock(after[i - 1], Piece(input, BlockLen, i))
    IN after[n]

ChunkUpdate(s, input) ==
    LET take == IF s.buf = <<>> THEN 0 ELSE Take(s, Len(input))
        filled == FillBuf(s, SubSeq(input, 1, take))
        rest == SubSeq(input, take + 1, Len(input))
        opened == IF s.buf # <<>> /\ rest # <<>>
                  THEN CompressBlock(filled, filled.buf) ELSE filled
        n == BlocksOf(Len(rest))
        whole == CompressBlocks(opened, rest, n)
        last == SubSeq(rest, n * BlockLen + 1, Len(rest))
    IN FillBuf(whole, SubSeq(last, 1, Take(whole, Len(last))))

ChunkOutput(s) ==
    Compress(s.cv, OfBytes(s.buf), s.counter, StartFlag(s) \cup {"CHUNK_END"})

-----------------------------------------------------------------------------
(* Many at a time: blake3.c:161-380, hash_many of blake3_portable.c and    *)
(* blake3_neon.c.                                                          *)

\* round_down_to_power_of_2: the largest one that is at most n.
PowerBelow(n) == CHOOSE p \in Powers : p <= n /\ 2 * p > n

\* hash_one: whole blocks, the first and the last with flags of their own.
HashOne(blocks, counter, flags, start, end) ==
    LET Flags(i) == flags \cup (IF i = 1 THEN start ELSE {})
                          \cup (IF i = Len(blocks) THEN end ELSE {})
        cv[i \in 0 .. Len(blocks)] ==
            IF i = 0 THEN Key ELSE Compress(cv[i - 1], blocks[i], counter, Flags(i))
    IN cv[Len(blocks)]

\* The counter of the i-th input of hash_many: the lanes of a kernel count up
\* from the first one's, and the counter moves on with every batch.
CounterOf(counter, i) ==
    LET lanes == Lanes[blake3_hash_many]
    IN counter + lanes * ((i - 1) \div lanes) + ((i - 1) % lanes)

CompressChunks(from, len, counter) ==
    LET n == len \div ChunkLen
        whole == [i \in 1 .. n |->
                    HashOne([j \in 1 .. ChunkLen \div BlockLen |->
                                OfBytes(Bytes(from + (i - 1) * ChunkLen + (j - 1) * BlockLen,
                                              BlockLen))],
                            CounterOf(counter, i), {}, {"CHUNK_START"}, {"CHUNK_END"})]
    IN IF len = n * ChunkLen THEN whole
       ELSE Append(whole, ChunkOutput(ChunkUpdate(ChunkState(counter + n),
                              Bytes(from + n * ChunkLen, len - n * ChunkLen))))

\* An odd CV left over is handed on.
CompressParents(cvs) ==
    LET n == Len(cvs) \div 2
        pairs == [i \in 1 .. n |-> HashOne(<<OfCvs(SubSeq(cvs, 2 * i - 1, 2 * i))>>,
                                           0, {"PARENT"}, {}, {})]
    IN IF Len(cvs) = 2 * n THEN pairs ELSE Append(pairs, cvs[Len(cvs)])

LeftSubtreeLen(len) == PowerBelow((len - 1) \div ChunkLen) * ChunkLen

\* cv_array: the right CVs are written at the index "place" whatever the
\* number of left ones, and n are read from the start.
CvArray(leftCvs, rightCvs, place, n) ==
    [i \in 1 .. n |-> IF i > place THEN rightCvs[i - place]
                      ELSE IF i <= Len(leftCvs) THEN leftCvs[i] ELSE Garbage]

\* Whether the CVs of two halves are returned as they are, lest the root be
\* compressed where the degree is 1.
PairMerged(leftCvs) == FALSE                        \* mutant: the special case is missing
PairKept(leftCvs) == Len(leftCvs) = 1

SubtreeWide ==
    LET wide[len \in 0 .. MaxLen] == [from \in Nat |-> [counter \in Nat |->
            IF len <= degree * ChunkLen THEN CompressChunks(from, len, counter)
            ELSE LET leftLen == LeftSubtreeLen(len)
                     place == IF leftLen > ChunkLen /\ degree = 1 THEN 2 ELSE degree
                     l == wide[leftLen][from][counter]
                     r == wide[len - leftLen][from + leftLen][counter + leftLen \div ChunkLen]
                 IN IF PairKept(l) THEN CvArray(l, r, place, 2)
                    ELSE CompressParents(CvArray(l, r, place, Len(l) + Len(r)))]]
    IN wide

\* The two CVs under the top node of a subtree, which stays uncompressed.
SubtreeToParentNode(from, len, counter) ==
    LET round[n \in 0 .. degree] ==
            IF n = 0 THEN SubtreeWide[len][from][counter]
            ELSE LET cvs == round[n - 1]
                 IN IF Len(cvs) > 2 THEN CompressParents(cvs) ELSE cvs
    IN SubSeq(round[degree], 1, 2)

-----------------------------------------------------------------------------
(* The stack: blake3.c:424-473.                                            *)

popcnt[n \in 0 .. MaxLen] == IF n = 0 THEN 0 ELSE (n % 2) + popcnt[n \div 2]

MergeTop(cvs) ==
    Append(SubSeq(cvs, 1, Len(cvs) - 2), Parent(SubSeq(cvs, Len(cvs) - 1, Len(cvs))))

MergeCvStack(cvs, total) ==
    LET n == IF Len(cvs) > popcnt[total] THEN Len(cvs) - popcnt[total] ELSE 0
        merged[i \in 0 .. n] == IF i = 0 THEN cvs ELSE MergeTop(merged[i - 1])
    IN merged[n]

\* Merging is lazy: the new CV stays unmerged until the next one comes.
PushUnmerged(cvs, cv, counter) == Append(cvs, cv)   \* mutant: no merging
PushCv(cvs, cv, counter) == Append(MergeCvStack(cvs, counter), cv)

-----------------------------------------------------------------------------
(* The hasher: blake3.c:382-388, 475-650.                                  *)

Init ==
    /\ machine \in Machines
    /\ fed = 0
    /\ chunk = ChunkState(0) /\ stack = <<>>
    /\ at = "idle" /\ left = 0

\* blake3_hasher_update with a piece of n bytes: a chunk that was begun is
\* filled first, and finished if there is more.
Update(n) ==
    /\ at = "idle" /\ n > 0 /\ fed + n <= MaxLen
    /\ fed' = fed + n
    /\ LET room == ChunkLen - ChunkStateLen(chunk)
           take == IF n < room THEN n ELSE room
           filled == ChunkUpdate(chunk, Bytes(fed, take))
       IN IF ChunkStateLen(chunk) = 0
          THEN at' = "loop" /\ left' = n /\ UNCHANGED <<chunk, stack>>
          ELSE IF take = n
          THEN chunk' = filled /\ UNCHANGED <<at, left, stack>>
          ELSE /\ at' = "loop" /\ left' = n - take
               /\ stack' = PushCv(stack, ChunkOutput(filled), filled.counter)
               /\ chunk' = ChunkState(filled.counter + 1)
    /\ UNCHANGED machine

\* The largest subtree at hand that the chunks so far are aligned to.
SubtreeUnaligned(len, count) == PowerBelow(len)     \* mutant: the shrinking loop is missing
SubtreeLen(len, count) ==
    CHOOSE p \in Powers :
        /\ p <= len /\ count % p = 0
        /\ 2 * p > len \/ count % (2 * p) # 0

\* Whether update goes on with subtrees: what is left is not the last chunk.
More(n) == n > ChunkLen

HashSubtree ==
    /\ at = "loop" /\ More(left)
    /\ LET len == SubtreeLen(left, chunk.counter * ChunkLen)
           chunks == len \div ChunkLen
           from == fed - left
           counter == chunk.counter
           pair == SubtreeToParentNode(from, len, counter)
       IN /\ stack' = IF len <= ChunkLen
                      THEN PushCv(stack, ChunkOutput(ChunkUpdate(ChunkState(counter),
                                             Bytes(from, len))), counter)
                      ELSE PushCv(PushCv(stack, pair[1], counter),
                                  pair[2], counter + chunks \div 2)
          /\ chunk' = [cv |-> chunk.cv, counter |-> counter + chunks,
                       buf |-> chunk.buf, blocks |-> chunk.blocks]
          /\ left' = left - len
    /\ UNCHANGED <<machine, fed, at>>

KeepRestMerges ==                                   \* mutant: merging outside the if
    /\ at = "loop" /\ ~More(left)
    /\ chunk' = ChunkUpdate(chunk, Bytes(fed - left, left))
    /\ stack' = MergeCvStack(stack, chunk.counter)
    /\ at' = "idle" /\ left' = 0
    /\ UNCHANGED <<machine, fed>>

\* What is left, a chunk at most, goes to the chunk state.
KeepRest ==
    /\ at = "loop" /\ ~More(left)
    /\ IF left > 0
       THEN /\ chunk' = ChunkUpdate(chunk, Bytes(fed - left, left))
            /\ stack' = MergeCvStack(stack, chunk.counter)
       ELSE UNCHANGED <<chunk, stack>>
    /\ at' = "idle" /\ left' = 0
    /\ UNCHANGED <<machine, fed>>

Reset ==
    /\ at = "idle"
    /\ fed' = 0 /\ chunk' = ChunkState(0) /\ stack' = <<>>
    /\ UNCHANGED <<machine, at, left>>

\* blake3_hasher_finalize, which leaves the hasher as it is: from the chunk,
\* or else the top two CVs, up through the stack.
Finalize ==
    LET n == IF ChunkStateLen(chunk) > 0 THEN Len(stack) ELSE Len(stack) - 2
        first == IF ChunkStateLen(chunk) > 0 THEN ChunkOutput(chunk)
                 ELSE Parent(SubSeq(stack, n + 1, n + 2))
        output[i \in 0 .. n] ==
            IF i = 0 THEN first ELSE Parent(<<stack[n - i + 1], output[i - 1]>>)
    IN RootBytes(IF stack = <<>> THEN ChunkOutput(chunk) ELSE output[n])

Next == (\E n \in 1 .. MaxLen : Update(n)) \/ HashSubtree \/ KeepRest \/ Reset
Spec == Init /\ [][Next]_vars

-----------------------------------------------------------------------------
(* What BLAKE3 is: the tree over a whole file, by its definition.          *)

\* The compressions of the chunk of the bytes after the first "from".
ChunkNode(from, len) ==
    LET n == IF len = 0 THEN 1 ELSE (len - 1) \div BlockLen + 1
        Block(i) == Bytes(from + (i - 1) * BlockLen,
                          IF i < n THEN BlockLen ELSE len - (n - 1) * BlockLen)
        Flags(i) == (IF i = 1 THEN {"CHUNK_START"} ELSE {})
                       \cup (IF i = n THEN {"CHUNK_END"} ELSE {})
    IN [i \in 1 .. n |-> [block |-> OfBytes(Block(i)), counter |-> from \div ChunkLen,
                          flags |-> Flags(i)]]

\* The left subtree is the largest full one that leaves something to the right.
Tree ==
    LET node[len \in 0 .. MaxLen] == [from \in Nat |->
            IF len <= ChunkLen THEN ChunkNode(from, len)
            ELSE LET l == ChunkLen * CHOOSE q \in {r \in Powers : r <= len} :
                                         ChunkLen * q < len /\ 2 * (ChunkLen * q) >= len
                 IN Parent(<<node[l][from], node[len - l][from + l]>>)]
    IN node

Blake3(n) == RootBytes(Tree[n][0])

-----------------------------------------------------------------------------
(* Properties.                                                             *)

TypeOK ==
    /\ machine \in Machines
    /\ fed \in 0 .. MaxLen /\ left \in 0 .. fed
    /\ at \in {"idle", "loop"}
    /\ chunk.counter \in Nat /\ chunk.blocks \in Nat /\ chunk.buf \in Seq(1 .. MaxLen)
    /\ Len(chunk.buf) <= BlockLen /\ ChunkStateLen(chunk) <= ChunkLen
    /\ fed = left + chunk.counter * ChunkLen + ChunkStateLen(chunk)

\* However a file is cut into pieces, and however wide the kernels are, the
\* digest is that of the whole file: no byte is lost, no subtree misplaced,
\* and the root and only the root is compressed as such.
DigestIsBlake3 == at = "idle" => Finalize = Blake3(fed)

\* What finalize relies on (blake3.c:619-636): with bytes in the chunk no two
\* subtrees of the stack are left to merge, and without any there are two CVs
\* at least, so the root has not been compressed.
ReadyToFinalize ==
    at = "idle" /\ stack # <<>> =>
        IF ChunkStateLen(chunk) > 0 THEN Len(stack) = popcnt[chunk.counter]
        ELSE Len(stack) >= 2

\* The number of binary digits of n.
Digits(n) == IF n = 0 THEN 0 ELSE CHOOSE k \in 1 .. WordBits : pow2[k - 1] <= n /\ n < pow2[k]

\* The stack of BLAKE3_MAX_DEPTH + 1 = 55 entries is enough in spite of lazy
\* merging: it never holds more CVs than the number of chunks so far has
\* binary digits, and a 64-bit length has at most 2^54 chunks.
StackFits == Len(stack) <= Digits(chunk.counter)

\* compress_subtree_wide returns two CVs at least, so it has not compressed the
\* top node, at most as many as its caller's array holds (the assertion of
\* blake3.c:360), and none of them is read from where nothing was written.
SubtreeFits ==
    at = "loop" /\ left > ChunkLen =>
        LET len == SubtreeLen(left, chunk.counter * ChunkLen)
            cvs == SubtreeWide[len][fed - left][chunk.counter]
        IN len > ChunkLen =>
               /\ Len(cvs) >= 2 /\ Len(cvs) <= MAX_SIMD_DEGREE_OR_2
               /\ Len(cvs) <= (IF degree = 1 THEN 2 ELSE degree)
               /\ \A i \in DOMAIN cvs : cvs[i] # Garbage
=============================================================================
