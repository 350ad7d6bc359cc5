-------------------------------- MODULE T1ha --------------------------------
(***************************************************************************)
(* t1ha1 (src/t1ha/lib/t1ha1.c) and t1ha2 (src/t1ha/lib/t1ha2.c): over a   *)
(* file that is in memory, and over a stream of pieces of it.              *)
(***************************************************************************)
EXTENDS HashCall

\* The data is only known to be aligned, and read as such, on a machine that
\* has a reason to ask.
ReadAligned(p) == machine.access # "efficient" /\ (addr + p) % 8 = 0

Fetch64(order, aligned, p) ==
    IF order = "big" THEN fetch_be(machine, aligned, p, 8) ELSE fetch_le(machine, aligned, p, 8)

Tail64(order, aligned, p, tail) ==
    LET page == (addr + p) % Page
    IN IF order = "little"
       THEN IF aligned THEN tail64_le_aligned(machine, p, tail)
                       ELSE tail64_le_unaligned(machine, p, page, tail)
       ELSE IF aligned THEN tail64_be_aligned(machine, p, tail)
                       ELSE tail64_be_unaligned(machine, p, page, tail)

\* The bytes that are loaded for a tail.
TailLoads(aligned, p, tail) ==
    LET n == TailSize(tail)
    IN IF aligned
       THEN IF machine.oneshot THEN p .. p + 7 ELSE p .. p + n - 1
       ELSE IF ~OneshotUnaligned(machine) THEN p .. p + n - 1
       ELSE IF can_read_underside(machine, (addr + p) % Page) THEN p - (8 - n) .. p + n - 1
       ELSE p .. p + 7

-----------------------------------------------------------------------------
(* The parts of both: a block of four words for the lanes w0 to w3, and    *)
(* what is left, up to four words multiplied by the primes 4 to 1.         *)

\* The words of n blocks.
Blocks(order, aligned, p, n) ==
    [j \in 1 .. 4 * n |->
        Into(Fetch64(order, aligned, p + 8 * (j - 1)), <<"w", (j - 1) % 4>>)]

\* The case of the switch that is entered, by how many words there are.
TailWords(tail) == IF tail > 24 THEN 4 ELSE (tail + 7) \div 8

\* The lanes at the primes 1 to 4.
T1HA1_Lanes == <<"a", "b", "a", "b">>
T1HA2_TAIL_AB == <<"ba", "ab", "ba", "ab">>
T1HA2_TAIL_ABCD == <<"dc", "cb", "ba", "ad">>

Remainder(order, aligned, p, tail, lanes) ==
    LET n == TailWords(tail)
    IN [j \in 1 .. n |->
            LET q == p + 8 * (j - 1)
                prime == n - j + 1
            IN Into(IF j < n THEN Fetch64(order, aligned, q) ELSE Tail64(order, aligned, q, tail),
                    <<lanes[prime], prime>>)]

\* Another block follows if it is whole: v < detent, which is 31 before the end.
DetentBy32(v) == v < len - 32                       \* mutant: the detent is one too low
BlockFollows(v) == v < len - 31

\* The kernel's loop: a block, and the length cut down to the rest after the last.
Loop(order) ==
    /\ pc = "loop"
    /\ Take(Blocks(order, ReadAligned(0), at, 1), at .. at + 31)
    /\ at' = at + 32
    /\ IF BlockFollows(at + 32) THEN Goto("loop") /\ rest' = rest - 32
                                ELSE Goto("tail") /\ rest' = len % 32
    /\ UNCHANGED <<mixed, context, product>>

Finish(order, lanes) ==
    /\ pc = "tail"
    /\ LET last == at + 8 * (TailWords(rest) - 1)
       IN Take(Remainder(order, ReadAligned(0), at, rest, lanes),
               IF rest = 0 THEN {}
               ELSE at .. last - 1 \cup TailLoads(ReadAligned(0), last, rest))
    /\ Goto("mix") /\ UNCHANGED <<file, mixed, context, product>>

\* A kernel takes the length in, and runs the loop if there is more than a block.
Begin ==
    /\ pc = "start"
    /\ Goto(IF len > 32 THEN "loop" ELSE "tail")
    /\ mixed' = len /\ UNCHANGED <<file, input, context, product>>

-----------------------------------------------------------------------------
t1ha1_le == kernel = "t1ha1_le" /\ Begin
t1ha1_be == kernel = "t1ha1_be" /\ Begin

Order1 == IF kernel = "t1ha1_be" THEN "big" ELSE "little"
T1HA1_Loop == kernel \in T1ha1 /\ Loop(Order1)
T1HA1_Tail == kernel \in T1ha1 /\ Finish(Order1, T1HA1_Lanes)

t1ha2_atonce == kernel = "t1ha2_atonce" /\ Begin
t1ha2_atonce128 == kernel = "t1ha2_atonce128" /\ Begin

Lanes2 == IF kernel \in {"t1ha2_atonce", "t1ha2_stream"} THEN T1HA2_TAIL_AB ELSE T1HA2_TAIL_ABCD
T1HA2_LOOP == kernel \in T1ha2 /\ Loop("little")
T1HA2_Tail == kernel \in T1ha2 /\ Finish("little", Lanes2)

-----------------------------------------------------------------------------
(* The streaming t1ha2.  Data that does not fill a block waits in the      *)
(* buffer, which is read as the file is, but is aligned.                   *)

t1ha2_init ==
    /\ pc = "start" /\ kernel \in T1ha2Stream
    /\ partial' = 0 /\ mixed' = 0
    /\ Goto("loop") /\ UNCHANGED <<file, input, buffer, product>>

\* Words of the buffer b, which were loaded as if it was the file.
FromBuffer(b, ws) ==
    [j \in DOMAIN ws |->
        [ws[j] EXCEPT !.word = [k \in Places |-> UNION {b[i] : i \in ws[j].word[k]}]]]

\* What an update by n bytes from p makes of the buffer, of how much of it is in
\* use, and the words it takes.
ChunkAtStart(p, n) ==                               \* mutant: memcpy to the buffer's start
    [i \in 0 .. 31 |-> IF i < n /\ i < 32 - partial THEN {p + i} ELSE buffer[i]]
Chunk(p, n) ==
    [i \in 0 .. 31 |-> IF partial <= i /\ i < partial + n THEN {p + i - partial} ELSE buffer[i]]

t1ha2_absorb(p, n) ==
    LET filled == IF partial = 0 THEN buffer ELSE Chunk(p, n)
        chunk == IF partial = 0 THEN 0 ELSE IF n >= 32 - partial THEN 32 - partial ELSE n
        q == p + chunk
        blocks == (n - chunk) \div 32
        left == (n - chunk) % 32
    IN IF partial > 0 /\ partial + chunk < 32
       THEN [buffer |-> filled, partial |-> partial + chunk, words |-> <<>>]
       ELSE [buffer |-> [i \in 0 .. 31 |-> IF i < left THEN {q + 32 * blocks + i} ELSE filled[i]],
             partial |-> left,
             words |-> (IF partial > 0 THEN FromBuffer(filled, Blocks("little", TRUE, 0, 1))
                        ELSE <<>>)
                       \o Blocks("little", ReadAligned(q), q, blocks)]

t1ha2_update(n) ==
    /\ pc = "loop" /\ kernel \in T1ha2Stream
    /\ n \in 1 .. rest
    /\ LET s == t1ha2_absorb(at, n)
       IN /\ Take(s.words, at .. at + n - 1)
          /\ buffer' = s.buffer /\ partial' = s.partial
    /\ mixed' = mixed + n
    /\ at' = at + n /\ rest' = rest - n
    /\ Goto("loop") /\ UNCHANGED product

\* The number of bits goes through the buffer as eight bytes more, named by the
\* offsets after the file's.
t1ha2_final ==
    /\ pc = "loop" /\ kernel \in T1ha2Stream
    /\ rest = 0
    /\ LET s == t1ha2_absorb(len, 8)
       IN /\ Take(s.words \o FromBuffer(s.buffer, Remainder("little", TRUE, 0, s.partial, Lanes2)), {})
          /\ buffer' = s.buffer /\ partial' = s.partial
    /\ Goto("mix") /\ UNCHANGED <<file, mixed, product>>

T1haNext ==
    \/ t1ha1_le \/ t1ha1_be \/ T1HA1_Loop \/ T1HA1_Tail
    \/ t1ha2_atonce \/ t1ha2_atonce128 \/ T1HA2_LOOP \/ T1HA2_Tail
    \/ t1ha2_init \/ \E n \in Pieces : t1ha2_update(n)
    \/ t1ha2_final
=============================================================================
