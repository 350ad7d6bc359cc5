------------------------------- MODULE RapidWy -------------------------------
(***************************************************************************)
(* rapidhash with its Micro and Nano variants (src/rapidhashc/rapidhash.h),*)
(* wyhash (src/wyhashc/wyhash.h), and the rapidhash of builds without cgo  *)
(* (src/rapidhash/rapidhash.go).                                           *)
(*                                                                         *)
(* All take the last 16 bytes apart, whole or not, so that the words of    *)
(* the end overlap those before it.  A file of 17 bytes or more is read in *)
(* rounds of one pair of words for each lane, then in single pairs.        *)
(***************************************************************************)
EXTENDS HashCall

\* A word of the file, which all of them read as little-endian.
Read(p, n) == IF kernel = "wyhash" THEN _wyr(machine, p, n) ELSE rapid_read(machine, p, n)

\* n pairs, each for the next lane.
LanePairs(n) ==
    [j \in 1 .. 2 * n |-> Into(Read(at + 8 * (j - 1), 8), <<"see", j - 1>>)]

\* Pairs for the one lane that is left, each with a secret.
Pairs(secrets) ==
    [j \in 1 .. 2 * Len(secrets) |->
        Into(Read(at + 8 * (j - 1), 8),
             IF j % 2 = 1 THEN <<"secret", secrets[(j + 1) \div 2]>> ELSE <<"seed", 0>>)]

Ends(p, q) == << Into(p, <<"a", 0>>), Into(q, <<"b", 0>>) >>

\* n rounds of a block have been read.
Advance(bytes) ==
    /\ at' = at + bytes /\ rest' = rest - bytes
    /\ UNCHANGED <<mixed, context, product>>

ShortIsBelow8 == len < 8                            \* mutant: no case for 8 to 16
Short == len <= 16

\* The others enter the loop.
Long ==
    /\ pc = "start" /\ kernel \in Folded
    /\ ~Short
    /\ Goto("loop") /\ UNCHANGED <<file, input, mixed, context, product>>

-----------------------------------------------------------------------------
(* rapidhash.  The length is mixed in where it is short, afterwards it is  *)
(* what was left of it.                                                    *)

RapidShort ==
    /\ pc = "start" /\ kernel \in Rapid
    /\ Short
    /\ \/ /\ len >= 8
          /\ Take(Ends(Read(0, 8), Read(len - 8, 8)), 0 .. 7 \cup len - 8 .. len - 1)
       \/ /\ len \in 4 .. 7
          /\ Take(Ends(Read(0, 4), Read(len - 4, 4)), 0 .. 3 \cup len - 4 .. len - 1)
       \/ /\ len \in 1 .. 3
          /\ Take(Ends(Or(UpBits45(0), ByteAt(len - 1)), ByteAt(len \div 2)),
                  {0, len \div 2, len - 1})
       \/ len = 0 /\ UNCHANGED input
    /\ mixed' = len
    /\ Goto("mix") /\ UNCHANGED <<file, context, product>>

Round(lanes) ==
    /\ pc = "loop"
    /\ rest > 16 * lanes
    /\ Take(LanePairs(lanes), at .. at + 16 * lanes - 1)
    /\ Goto("loop") /\ Advance(16 * lanes)

\* RAPIDHASH_UNROLLED: two rounds at once while there is more than that.
UnrolledFrom112 == machine.unrolled /\ rest > 112   \* mutant: the bound of one round
Unrolled == machine.unrolled /\ rest > 224
UnrolledRound ==
    /\ pc = "loop" /\ kernel = "rapidhash"
    /\ Unrolled
    /\ Take([j \in 1 .. 28 |-> Into(Read(at + 8 * (j - 1), 8), <<"see", (j - 1) % 14>>)],
            at .. at + 223)
    /\ Goto("loop") /\ Advance(224)

rapidhashRound == kernel = "rapidhash" /\ ~Unrolled /\ Round(7)
rapidhashMicroRound == kernel = "rapidhashMicro" /\ Round(5)
rapidhashNanoRound == kernel = "rapidhashNano" /\ Round(3)

\* The nested ifs, up to as many as there are secrets.
Nested(secrets) ==
    IF rest > 16 * Len(secrets) THEN secrets ELSE SubSeq(secrets, 1, (rest - 1) \div 16)

\* What is mixed in of the length: a ^ i, and i once more at the end.
LengthForgotten == 0                                \* mutant: i is not mixed in
RapidLength == rest

Rest(lanes, secrets) ==
    /\ pc = "loop"
    /\ rest <= 16 * lanes
    /\ LET last == at + rest - 16
       IN Take(Pairs(Nested(secrets)) \o Ends(Read(last, 8), Read(last + 8, 8)),
               at .. at + 16 * Len(Nested(secrets)) - 1 \cup last .. last + 15)
    /\ mixed' = RapidLength
    /\ Goto("mix") /\ UNCHANGED <<file, context, product>>

rapidhashRest == kernel = "rapidhash" /\ Rest(7, <<2, 2, 1, 1, 2, 1>>)
rapidhashMicroRest == kernel = "rapidhashMicro" /\ Rest(5, <<2, 2, 1, 1>>)
rapidhashNanoRest == kernel = "rapidhashNano" /\ Rest(3, <<2, 2>>)

-----------------------------------------------------------------------------
(* wyhash.  Pairs are read one by one, while there is more than one.       *)

wyhashShort ==
    /\ pc = "start" /\ kernel = "wyhash"
    /\ Short
    /\ LET d == 4 * (len \div 8)
       IN \/ /\ len >= 4
             /\ Take(Ends(Or(Up(Read(0, 4), 4), Read(d, 4)),
                          Or(Up(Read(len - 4, 4), 4), Read(len - 4 - d, 4))),
                     0 .. 3 \cup d .. d + 3 \cup len - 4 .. len - 1
                            \cup len - 4 - d .. len - 1 - d)
          \/ /\ len \in 1 .. 3
             /\ Take(Ends(Or(Up(ByteAt(0), 2), Or(Up(ByteAt(len \div 2), 1), ByteAt(len - 1))),
                          Nothing),
                     {0, len \div 2, len - 1})
          \/ len = 0 /\ UNCHANGED input
    /\ mixed' = len
    /\ Goto("mix") /\ UNCHANGED <<file, context, product>>

\* Rounds are over once there is less than a block: rest < 48.
wyhashRound ==
    /\ pc = "loop" /\ kernel = "wyhash"
    /\ rest >= 48
    /\ Take(LanePairs(3), at .. at + 47)
    /\ Goto("loop") /\ Advance(48)

wyhashPair ==
    /\ pc = "loop" /\ kernel = "wyhash"
    /\ 16 < rest /\ rest < 48
    /\ Take(Pairs(<<1>>), at .. at + 15)
    /\ Goto("loop") /\ Advance(16)

NoMorePairs == rest <= 16
wyhashLast ==
    /\ pc = "loop" /\ kernel = "wyhash"
    /\ NoMorePairs
    /\ LET last == at + rest - 16
       IN Take(Ends(Read(last, 8), Read(last + 8, 8)), last .. last + 15)
    /\ mixed' = len
    /\ Goto("mix") /\ UNCHANGED <<file, context, product>>

-----------------------------------------------------------------------------
(* rapidhash in Go, which is not the C one: an older version of it.        *)

goShort ==
    /\ pc = "start" /\ kernel = "rapidhash_go"
    /\ Short
    /\ LET d == IF len < 8 THEN 0 ELSE 4        \* (len & 24) >> (len >> 3)
       IN \/ /\ len >= 4
             /\ Take(Ends(Or(Up(Read(0, 4), 4), Read(len - 4, 4)),
                          Or(Up(Read(d, 4), 4), Read(len - 4 - d, 4))),
                     0 .. 3 \cup d .. d + 3 \cup len - 4 .. len - 1
                            \cup len - 4 - d .. len - 1 - d)
          \/ /\ len \in 1 .. 3
             /\ Take(Ends(Or(ByteAt(0), Or(Up(ByteAt(len \div 2), 1), Up(ByteAt(len - 1), 2))),
                          Nothing),
                     {0, len \div 2, len - 1})
          \/ len = 0 /\ UNCHANGED input
    /\ mixed' = len
    /\ Goto("mix") /\ UNCHANGED <<file, context, product>>

goRound == kernel = "rapidhash_go" /\ Round(3)

\* The last 16 bytes are found from the length.
goRest ==
    /\ pc = "loop" /\ kernel = "rapidhash_go"
    /\ rest <= 48
    /\ Take(Pairs(Nested(<<2, 2>>)) \o Ends(Read(len - 16, 8), Read(len - 8, 8)),
            at .. at + 16 * Len(Nested(<<2, 2>>)) - 1 \cup len - 16 .. len - 1)
    /\ mixed' = len
    /\ Goto("mix") /\ UNCHANGED <<file, context, product>>

RapidWyNext ==
    \/ Long
    \/ RapidShort \/ UnrolledRound \/ rapidhashRound \/ rapidhashRest
    \/ rapidhashMicroRound \/ rapidhashMicroRest \/ rapidhashNanoRound \/ rapidhashNanoRest
    \/ wyhashShort \/ wyhashRound \/ wyhashPair \/ wyhashLast
    \/ goShort \/ goRound \/ goRest
=============================================================================
